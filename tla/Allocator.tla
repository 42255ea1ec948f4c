------------------------------ MODULE Allocator ------------------------------
(***************************************************************************)
(* What a MemoryResource promises its users: the blocks the program holds  *)
(* form a bag, so that a block held twice at once shows.  An allocation    *)
(* hands out one block no one holds, a deallocation takes back one copy of *)
(* a held block, and Release takes back all of them at once.  A failed     *)
(* call changes nothing.                                                   *)
(***************************************************************************)
EXTENDS Bags

CONSTANT Blocks      \* the blocks the resource can hand out

VARIABLE held        \* bag: how many times each block is held now

Init == held = EmptyBag

Allocate ==
    \E b \in Blocks :
        /\ CopiesIn(b, held) = 0
        /\ held' = held (+) SetToBag({b})

Deallocate == \E b \in BagToSet(held) : held' = held (-) SetToBag({b})

ReleaseAll == held' = EmptyBag

Next == Allocate \/ Deallocate \/ ReleaseAll

Spec == Init /\ [][Next]_held

==============================================================================
