-------------------------------- MODULE Eval --------------------------------
(***************************************************************************)
(* The expression evaluator of src/src/expr/interpret/eval.hpp            *)
(* (ExpressionEvaluator), for the expressions a WHERE clause of the plans  *)
(* is built from: literals, identifiers, the boolean and comparison        *)
(* operators, IN, CASE, coalesce, list literals, subscript, slicing,       *)
(* IS NULL, REDUCE, EXTRACT and the list quantifiers ALL, ANY, NONE and    *)
(* SINGLE.                                                                 *)
(*                                                                         *)
(* A value is tagged with its TypedValue::Type: NullV (TypedValue()), a  *)
(* Bool, an Int or a List (a sequence of values).  An                      *)
(* ExpressionRuntimeException is the value Err: every visitor returns Err *)
(* as soon as a sub-expression it evaluated returned Err, which is what    *)
(* propagating the exception does.                                         *)
(*                                                                         *)
(* The evaluator binds the variable of a quantifier, REDUCE or EXTRACT by  *)
(* writing it into the frame (frame_->at(symbol) = element); here the      *)
(* binding is an environment update seen by the body only, since the       *)
(* symbol table gives the variable a symbol no other expression reads.     *)
(*                                                                         *)
(* The operators of TypedValue (||, &&, ^, !, ==, !=, <, +) live in        *)
(* typed_value.cpp, which is not part of src/; they are written from the   *)
(* openCypher semantics memgraph documents for them.                      *)
(***************************************************************************)
EXTENDS Integers, Sequences, SequencesExt, FiniteSets

NullV   == [t |-> "null"]
Err     == [t |-> "error"]
Bool(b) == [t |-> "bool", v |-> b]
IntV(n) == [t |-> "int", v |-> n]
List(s) == [t |-> "list", v |-> s]
Str(s)  == [t |-> "string", v |-> s]
MapV(m) == [t |-> "map", v |-> m]   \* m: a function from key strings to values
TrueV   == Bool(TRUE)
FalseV  == Bool(FALSE)

(* std::numeric_limits<int64_t>::max(), the default upper slicing bound.  *)
(* Any bound not below a list's length is clamped to it, so a bound above *)
(* every list of the model stands for it.                                 *)
Int64Max == 1000

IsBoolOrNull(a) == a.t \in {"bool", "null"}

(***************************************************************************)
(* TypedValue operators (typed_value.cpp).                                 *)
(***************************************************************************)
(* Not: null stays null; anything else but a boolean throws.               *)
TVNot(a) == CASE a = NullV -> NullV [] a.t = "bool" -> Bool(~a.v) [] OTHER -> Err

(* ||: true wins over null; null wins over false.                          *)
TVOr(a, b) ==
    CASE ~IsBoolOrNull(a) \/ ~IsBoolOrNull(b) -> Err
      [] a = TrueV \/ b = TrueV -> TrueV
      [] a = NullV \/ b = NullV -> NullV
      [] OTHER -> FalseV

(* &&: false wins over null; null wins over true.                          *)
TVAnd(a, b) ==
    CASE ~IsBoolOrNull(a) \/ ~IsBoolOrNull(b) -> Err
      [] a = FalseV \/ b = FalseV -> FalseV
      [] a = NullV \/ b = NullV -> NullV
      [] OTHER -> TrueV

TVXor(a, b) ==
    CASE ~IsBoolOrNull(a) \/ ~IsBoolOrNull(b) -> Err
      [] a = NullV \/ b = NullV -> NullV
      [] OTHER -> Bool(a.v /= b.v)

(* ==: null if either side is null; values of different types differ;     *)
(* lists and maps compare element-wise (maps over the same keys), a null  *)
(* element comparison making the result null unless another is false.    *)
RECURSIVE TVEq(_, _)
TVEq(a, b) ==
    CASE a = NullV \/ b = NullV -> NullV
      [] a.t /= b.t -> FalseV
      [] a.t \in {"list", "map"} ->
            IF DOMAIN a.v /= DOMAIN b.v THEN FalseV
            ELSE LET cs == {TVEq(a.v[i], b.v[i]) : i \in DOMAIN a.v} IN
                 CASE FalseV \in cs -> FalseV [] NullV \in cs -> NullV [] OTHER -> TrueV
      [] OTHER -> Bool(a.v = b.v)

TVLess(a, b) ==
    CASE a = NullV \/ b = NullV -> NullV
      [] a.t = "int" /\ b.t = "int" -> Bool(a.v < b.v)
      [] OTHER -> Err

TVPlus(a, b) ==
    CASE a = NullV \/ b = NullV -> NullV
      [] a.t = "int" /\ b.t = "int" -> IntV(a.v + b.v)
      [] a.t = "list" /\ b.t = "list" -> List(a.v \o b.v)
      [] OTHER -> Err

(* The binary operators BINARY_OPERATOR_VISITOR instantiates.              *)
ApplyBinary(op, a, b) ==
    CASE op = "OR"  -> TVOr(a, b)
      [] op = "XOR" -> TVXor(a, b)
      [] op = "="   -> TVEq(a, b)
      [] op = "<>"  -> TVNot(TVEq(a, b))
      [] op = "<"   -> TVLess(a, b)
      [] op = "+"   -> TVPlus(a, b)

(* The first of two evaluated values that threw, or the result.            *)
Strict2(a, b, r) == IF a = Err THEN Err ELSE IF b = Err THEN Err ELSE r

(* frame_->at(symbol) = element, seen by the body of the binder only.      *)
Bind(env, s, v) == [x \in DOMAIN env \cup {s} |-> IF x = s THEN v ELSE env[x]]

(***************************************************************************)
(* ExpressionEvaluator::Visit, one operator per visitor.                   *)
(***************************************************************************)
RECURSIVE Evaluate(_, _), InListLoop(_, _, _, _), CoalesceLoop(_, _, _),
          ReduceLoop(_, _, _, _, _), AllLoop(_, _, _, _, _, _),
          SingleLoop(_, _, _, _, _, _), AnyLoop(_, _, _, _, _),
          NoneLoop(_, _, _, _, _)

(* Evaluate a sequence of expressions in order; the first Err is thrown.   *)
EvaluateAll(es, env) ==
    LET vs == [i \in DOMAIN es |-> Evaluate(es[i], env)] IN
    IF \E i \in DOMAIN vs : vs[i] = Err THEN Err ELSE List(vs)

AndOperator(e, env) ==
    LET v1 == Evaluate(e.a, env) IN
    CASE v1 = Err    -> Err
      [] v1 = FalseV -> v1           \* the second operand is not evaluated
      [] OTHER -> LET v2 == Evaluate(e.b, env) IN
                  IF v2 = Err THEN Err ELSE TVAnd(v1, v2)

IfOperator(e, env) ==
    LET c == Evaluate(e.cond, env) IN
    CASE c = Err       -> Err
      [] c = NullV     -> Evaluate(e.else_expr, env)
      [] c.t /= "bool" -> Err
      [] c.v           -> Evaluate(e.then_expr, env)
      [] OTHER         -> Evaluate(e.else_expr, env)

InListLoop(lit, l, i, has_null) ==
    IF i > Len(l) THEN IF has_null THEN NullV ELSE FalseV
    ELSE LET r == TVEq(lit, l[i]) IN
         CASE r = NullV -> InListLoop(lit, l, i + 1, TRUE)
           [] r.v       -> TrueV
           [] OTHER     -> InListLoop(lit, l, i + 1, has_null)

InListOperator(e, env) ==
    LET lit == Evaluate(e.a, env)
        lst == Evaluate(e.b, env)
    IN  Strict2(lit, lst,
          CASE lst = NullV     -> NullV
            [] lst.t /= "list" -> Err
            [] lst.v = <<>>    -> FalseV
            [] lit = NullV     -> NullV
            [] OTHER           -> InListLoop(lit, lst.v, 1, FALSE))

(* lhs[index]: a list takes an integer index counted from either end, a  *)
(* map a string key; a missing element or key is null.  Vertices and      *)
(* edges are not values of the expressions modelled.                      *)
SubscriptOperator(e, env) ==
    LET lhs == Evaluate(e.a, env)
        idx == Evaluate(e.b, env)
        k   == IF idx.v < 0 THEN idx.v + Len(lhs.v) ELSE idx.v
    IN  Strict2(lhs, idx,
          CASE lhs.t \notin {"list", "map", "null"}        -> Err
            [] lhs = NullV \/ idx = NullV                 -> NullV
            [] lhs.t = "list" /\ idx.t /= "int"            -> Err
            [] lhs.t = "list" /\ (k >= Len(lhs.v) \/ k < 0) -> NullV
            [] lhs.t = "list"                              -> lhs.v[k + 1]
            [] idx.t /= "string"                           -> Err
            [] idx.v \notin DOMAIN lhs.v                   -> NullV
            [] OTHER                                       -> lhs.v[idx.v])

(* expression.property: null on null, the key's value or null on a map;   *)
(* the temporal types, vertices and edges are not values of the           *)
(* expressions modelled, so every other type throws.                      *)
PropertyLookup(e, env) ==
    LET v == Evaluate(e.a, env) IN
    CASE v = Err   -> Err
      [] v = NullV -> NullV
      [] v.t = "map" -> IF e.prop \in DOMAIN v.v THEN v.v[e.prop] ELSE NullV
      [] OTHER     -> Err

(* The map TMap::emplace builds from keys and values in order: a key met  *)
(* again keeps the value it was first given.                              *)
Emplace(keys, vals) ==
    [k \in ToSet(keys) |-> vals[SelectInSeq(keys, LAMBDA x : x = k)]]

(* {key: expression, ...}: every element is evaluated in order.           *)
MapLiteral(e, env) ==
    LET vs == EvaluateAll(e.elems, env) IN
    IF vs = Err THEN Err ELSE MapV(Emplace(e.keys, vs.v))

(* A slicing bound left out of the expression (a nullptr bound).          *)
Absent == [kind |-> "Absent"]

(* get_bound: an absent bound is its default; null marks the result null. *)
GetBound(b, default, env) ==
    IF b = Absent THEN IntV(default)
    ELSE LET v == Evaluate(b, env) IN
         IF v.t \in {"error", "null", "int"} THEN v ELSE Err

(* normalise_bound: negative counts from the end, then clamp to 0..n.     *)
NormaliseBound(b, n) ==
    LET c == IF b < 0 THEN n + b ELSE b IN
    IF c < 0 THEN 0 ELSE IF c > n THEN n ELSE c

ListSlicingOperator(e, env) ==
    LET up  == GetBound(e.hi, Int64Max, env)
        lo  == GetBound(e.lo, 0, env)
        lst == Evaluate(e.list, env)
    IN  CASE Err \in {up, lo, lst}              -> Err
          [] lst.t \notin {"list", "null"}      -> Err
          [] NullV \in {up, lo, lst}            -> NullV
          [] OTHER ->
               LET l == NormaliseBound(lo.v, Len(lst.v))
                   u == NormaliseBound(up.v, Len(lst.v))
               IN  List(IF u <= l THEN <<>> ELSE SubSeq(lst.v, l + 1, u))

CoalesceLoop(es, i, env) ==
    IF i > Len(es) THEN NullV
    ELSE LET v == Evaluate(es[i], env) IN
         IF v /= NullV THEN v ELSE CoalesceLoop(es, i + 1, env)

CoalesceOperator(e, env) ==
    IF e.args = <<>> THEN Err ELSE CoalesceLoop(e.args, 1, env)

ReduceLoop(e, l, i, acc, env) ==
    IF i > Len(l) \/ acc = Err THEN acc
    ELSE ReduceLoop(e, l, i + 1,
                    Evaluate(e.body, Bind(Bind(env, e.acc, acc), e.var, l[i])), env)

(* REDUCE(acc = init, var IN list | body); the initializer is evaluated    *)
(* after the list has been checked.                                        *)
ReduceOperator(e, env) ==
    LET lst == Evaluate(e.list, env) IN
    CASE lst = Err \/ lst = NullV -> lst
      [] lst.t /= "list"          -> Err
      [] OTHER -> ReduceLoop(e, lst.v, 1, Evaluate(e.init, env), env)

(* EXTRACT(var IN list | body): a null element stays null unevaluated.     *)
ExtractOperator(e, env) ==
    LET lst == Evaluate(e.list, env)
        out == [i \in DOMAIN lst.v |->
                  IF lst.v[i] = NullV THEN NullV
                  ELSE Evaluate(e.body, Bind(env, e.var, lst.v[i]))]
    IN  CASE lst = Err \/ lst = NullV        -> lst
          [] lst.t /= "list"                 -> Err
          [] \E i \in DOMAIN out : out[i] = Err -> Err
          [] OTHER                           -> List(out)

(* The predicate of a quantifier on element l[i]; a value that is neither  *)
(* null nor a boolean throws.                                              *)
Predicate(e, l, i, env) ==
    LET r == Evaluate(e.pred, Bind(env, e.var, l[i])) IN
    IF IsBoolOrNull(r) THEN r ELSE Err

AllLoop(e, l, i, env, has_null, has_value) ==
    IF i > Len(l) THEN CASE ~has_value -> NullV
                         [] has_null   -> FalseV
                         [] OTHER      -> TrueV
    ELSE LET r == Predicate(e, l, i, env) IN
         CASE r = Err    -> Err
           [] r = FalseV -> FalseV
           [] r = TrueV  -> AllLoop(e, l, i + 1, env, has_null, TRUE)
           [] OTHER      -> AllLoop(e, l, i + 1, env, TRUE, has_value)

SingleLoop(e, l, i, env, has_value, satisfied) ==
    IF i > Len(l) THEN IF has_value THEN Bool(satisfied) ELSE NullV
    ELSE LET r == Predicate(e, l, i, env) IN
         CASE r = Err                -> Err
           [] r = TrueV /\ satisfied -> FalseV
           [] r = TrueV              -> SingleLoop(e, l, i + 1, env, TRUE, TRUE)
           [] r = FalseV             -> SingleLoop(e, l, i + 1, env, TRUE, satisfied)
           [] OTHER                  -> SingleLoop(e, l, i + 1, env, has_value, satisfied)

AnyLoop(e, l, i, env, has_value) ==
    IF i > Len(l) THEN IF has_value THEN FalseV ELSE NullV
    ELSE LET r == Predicate(e, l, i, env) IN
         CASE r = Err    -> Err
           [] r = TrueV  -> TrueV
           [] r = FalseV -> AnyLoop(e, l, i + 1, env, TRUE)
           [] OTHER      -> AnyLoop(e, l, i + 1, env, has_value)

NoneLoop(e, l, i, env, has_value) ==
    IF i > Len(l) THEN IF has_value THEN TrueV ELSE NullV
    ELSE LET r == Predicate(e, l, i, env) IN
         CASE r = Err    -> Err
           [] r = TrueV  -> FalseV
           [] r = FalseV -> NoneLoop(e, l, i + 1, env, TRUE)
           [] OTHER      -> NoneLoop(e, l, i + 1, env, has_value)

(* ALL, SINGLE, ANY and NONE: a null list is null, another non-list throws. *)
Quantifier(e, env) ==
    LET lst == Evaluate(e.list, env) IN
    CASE lst = Err \/ lst = NullV -> lst
      [] lst.t /= "list"          -> Err
      [] e.kind = "All"    -> AllLoop(e, lst.v, 1, env, FALSE, FALSE)
      [] e.kind = "Single" -> SingleLoop(e, lst.v, 1, env, FALSE, FALSE)
      [] e.kind = "Any"    -> AnyLoop(e, lst.v, 1, env, FALSE)
      [] e.kind = "None"   -> NoneLoop(e, lst.v, 1, env, FALSE)

(* Expression::Accept(evaluator): dispatch on the kind of the node.        *)
Evaluate(e, env) ==
    CASE e.kind = "Literal"    -> e.value
      [] e.kind = "Identifier" -> env[e.sym]
      [] e.kind = "Binary"     ->
            LET a == Evaluate(e.a, env)
                b == Evaluate(e.b, env)
            IN  Strict2(a, b, ApplyBinary(e.op, a, b))
      [] e.kind = "Not"        ->
            LET a == Evaluate(e.a, env) IN IF a = Err THEN Err ELSE TVNot(a)
      [] e.kind = "IsNull"     ->
            LET a == Evaluate(e.a, env) IN IF a = Err THEN Err ELSE Bool(a = NullV)
      [] e.kind = "And"        -> AndOperator(e, env)
      [] e.kind = "If"         -> IfOperator(e, env)
      [] e.kind = "InList"     -> InListOperator(e, env)
      [] e.kind = "Subscript"  -> SubscriptOperator(e, env)
      [] e.kind = "Slice"      -> ListSlicingOperator(e, env)
      [] e.kind = "Coalesce"   -> CoalesceOperator(e, env)
      [] e.kind = "ListLiteral" -> EvaluateAll(e.elems, env)
      [] e.kind = "MapLiteral" -> MapLiteral(e, env)
      [] e.kind = "PropertyLookup" -> PropertyLookup(e, env)
      [] e.kind = "Reduce"     -> ReduceOperator(e, env)
      [] e.kind = "Extract"    -> ExtractOperator(e, env)
      [] e.kind \in {"All", "Single", "Any", "None"} -> Quantifier(e, env)

(***************************************************************************)
(* Reference semantics: openCypher's three-valued logic, with truth        *)
(* degrees false < null < true, AND the minimum, OR the maximum, and the   *)
(* list predicates and comprehensions as folds and maps over the list.     *)
(***************************************************************************)
Deg(v)    == CASE v = FalseV -> 0 [] v = NullV -> 1 [] v = TrueV -> 2
FromDeg(d) == CASE d = 0 -> FalseV [] d = 1 -> NullV [] d = 2 -> TrueV
MinDeg(S) == CHOOSE d \in S : \A x \in S : d <= x
MaxDeg(S) == CHOOSE d \in S : \A x \in S : d >= x

RECURSIVE RefEvaluate(_, _), RefFold(_, _, _, _)

(* The truth degrees of the predicate of e on every element of l.         *)
RefDegrees(e, l, env) ==
    {Deg(RefEvaluate(e.pred, Bind(env, e.var, l[i]))) : i \in DOMAIN l}

(* reduce(acc = init, var IN l | body) as a left fold.                     *)
RefFold(e, l, acc, env) ==
    IF l = <<>> THEN acc
    ELSE RefFold(e, Tail(l),
                 RefEvaluate(e.body, Bind(Bind(env, e.acc, acc), e.var, Head(l))), env)

(* l[i] counts from the front for i >= 0 and from the back for i < 0.     *)
RefIndex(l, i) ==
    LET at == {p \in DOMAIN l : p - 1 = i \/ p - 1 - Len(l) = i} IN
    IF at = {} THEN NullV ELSE l[CHOOSE p \in at : TRUE]

(* m[k]: the value of key k in map m, null when m has no such key.        *)
RefLookup(m, k) == IF k \in DOMAIN m THEN m[k] ELSE NullV

(* l[lo..hi]: the elements whose position, counted both ways, lies in     *)
(* the half-open range.                                                   *)
RefSlice(l, lo, hi) ==
    LET From(b) == IF b < 0 THEN Len(l) + b ELSE b
        ps == {p \in DOMAIN l : From(lo) <= p - 1 /\ p - 1 < From(hi)}
    IN  List([k \in 1..Cardinality(ps) |->
                 l[CHOOSE p \in ps : Cardinality({q \in ps : q <= p}) = k]])

RefQuantifier(e, l, env) ==
    LET ds == RefDegrees(e, l, env)
        trues == {i \in DOMAIN l :
                    RefEvaluate(e.pred, Bind(env, e.var, l[i])) = TrueV}
    IN  CASE e.kind = "All"  -> FromDeg(MinDeg(ds \cup {2}))
          [] e.kind = "Any"  -> FromDeg(MaxDeg(ds \cup {0}))
          [] e.kind = "None" -> FromDeg(2 - MaxDeg(ds \cup {0}))
          [] e.kind = "Single" ->
                CASE Cardinality(trues) > 1 -> FalseV
                  [] 1 \in ds               -> NullV
                  [] OTHER                  -> Bool(Cardinality(trues) = 1)

RefEvaluate(e, env) ==
    LET A == RefEvaluate(e.a, env)
        B == RefEvaluate(e.b, env)
        L == RefEvaluate(e.list, env)
    IN
    CASE e.kind = "Literal"    -> e.value
      [] e.kind = "Identifier" -> env[e.sym]
      [] e.kind = "Binary" /\ e.op = "OR"  -> FromDeg(MaxDeg({Deg(A), Deg(B)}))
      [] e.kind = "Binary" /\ e.op = "XOR" ->
            IF NullV \in {A, B} THEN NullV ELSE Bool(A /= B)
      [] e.kind = "Binary"     -> ApplyBinary(e.op, A, B)
      [] e.kind = "And"        -> FromDeg(MinDeg({Deg(A), Deg(B)}))
      [] e.kind = "Not"        -> FromDeg(2 - Deg(A))
      [] e.kind = "IsNull"     -> Bool(A = NullV)
      [] e.kind = "If"         ->
            IF RefEvaluate(e.cond, env) = TrueV THEN RefEvaluate(e.then_expr, env)
            ELSE RefEvaluate(e.else_expr, env)
      [] e.kind = "InList"     ->
            IF B = NullV THEN NullV
            ELSE FromDeg(MaxDeg({Deg(TVEq(A, B.v[i])) : i \in DOMAIN B.v} \cup {0}))
      [] e.kind = "Subscript" /\ A.t = "map" ->
            IF B = NullV THEN NullV ELSE RefLookup(A.v, B.v)
      [] e.kind = "Subscript"  ->
            IF NullV \in {A, B} THEN NullV ELSE RefIndex(A.v, B.v)
      [] e.kind = "PropertyLookup" ->
            IF A = NullV THEN NullV ELSE RefLookup(A.v, e.prop)
      [] e.kind = "MapLiteral" ->
            MapV([k \in ToSet(e.keys) |->
                    RefEvaluate(e.elems[CHOOSE i \in DOMAIN e.keys :
                                          e.keys[i] = k /\ \A j \in 1..(i - 1) : e.keys[j] /= k],
                                env)])
      [] e.kind = "Slice"      ->
            LET lo == IF e.lo = Absent THEN IntV(0) ELSE RefEvaluate(e.lo, env)
                hi == IF e.hi = Absent THEN IntV(Len(L.v)) ELSE RefEvaluate(e.hi, env)
            IN  IF NullV \in {L, lo, hi} THEN NullV ELSE RefSlice(L.v, lo.v, hi.v)
      [] e.kind = "Coalesce"   ->
            LET nn == {i \in DOMAIN e.args : RefEvaluate(e.args[i], env) /= NullV} IN
            IF nn = {} THEN NullV
            ELSE RefEvaluate(e.args[CHOOSE i \in nn : \A j \in nn : i <= j], env)
      [] e.kind = "ListLiteral" ->
            List([i \in DOMAIN e.elems |-> RefEvaluate(e.elems[i], env)])
      [] e.kind = "Reduce"     ->
            IF L = NullV THEN NullV ELSE RefFold(e, L.v, RefEvaluate(e.init, env), env)
      [] e.kind = "Extract"    ->
            IF L = NullV THEN NullV
            ELSE List([i \in DOMAIN L.v |-> RefEvaluate(e.body, Bind(env, e.var, L.v[i]))])
      [] OTHER                 ->
            IF L = NullV THEN NullV ELSE RefQuantifier(e, L.v, env)

====
