------------------------------ MODULE MCSimRaft ------------------------------
(***************************************************************************)
(* Model-checking instance of SimRaft: servers are model values.           *)
(***************************************************************************)
EXTENDS SimRaft

CONSTANTS s1, s2, s3, s4, s5

MCServer3 == {s1, s2, s3}
MCServer5 == {s1, s2, s3, s4, s5}

Symmetry == Permutations(Server)

(***************************************************************************)
(* A scenario restriction for runs that look for a violation in a five-    *)
(* server cluster, where the full state space is out of reach.  It only    *)
(* removes behaviours, so any trace found under it is a behaviour of Spec: *)
(* only s1 and s2 ever start an election or time out as a Follower.        *)
(***************************************************************************)
Campaigners == {s1, s2}

TwoCampaigners ==
    \A s \in Server :
        /\ (s \notin Campaigners => ~(term'[s] > term[s] /\ role'[s].kind = Candidate))
        /\ (s \notin Campaigners => ~(Is(s, Follower) /\ role'[s].kind = Candidate))

=============================================================================
