--------------------------- MODULE MCPlanCursors ---------------------------
(***************************************************************************)
(* Plans and graphs for checking PlanCursors.  Each plan is written as    *)
(* the query it is the plan of; operators are numbered bottom-up and the  *)
(* root is the last one.                                                  *)
(***************************************************************************)
EXTENDS PlanCursors, TLC

A == "A"
B == "B"

Once == [kind |-> "Once"]
Scan(in, sym, label) == [kind |-> "ScanAll", in |-> in, sym |-> sym, label |-> label]
LabelIs(sym, label) == [kind |-> "label", sym |-> sym, label |-> label]
KeyIs(sym, other) == [kind |-> "key", sym |-> sym, other |-> other]
Filter(in, pred) == [kind |-> "Filter", in |-> in, pred |-> pred]
Produce(in, syms) == [kind |-> "Produce", in |-> in, syms |-> syms]
Skip(in, k) == [kind |-> "Skip", in |-> in, count |-> k]
Limit(in, k) == [kind |-> "Limit", in |-> in, count |-> k]
Unwind(in, sym, vals) == [kind |-> "Unwind", in |-> in, sym |-> sym, vals |-> vals]
Optional(in, opt, syms) == [kind |-> "Optional", in |-> in, opt |-> opt, syms |-> syms]
Merge(in, match, create) == [kind |-> "Merge", in |-> in, match |-> match, create |-> create]
Distinct(in, syms) == [kind |-> "Distinct", in |-> in, syms |-> syms]
Union(l, r, map_l, map_r) == [kind |-> "Union", l |-> l, r |-> r, map_l |-> map_l, map_r |-> map_r]
Cartesian(l, r, lsyms, rsyms) ==
    [kind |-> "Cartesian", l |-> l, r |-> r, lsyms |-> lsyms, rsyms |-> rsyms]
CreateNode(in, sym, label, keysym) ==
    [kind |-> "CreateNode", in |-> in, sym |-> sym, label |-> label, keysym |-> keysym]
Foreach(in, upd, sym, vals) == [kind |-> "Foreach", in |-> in, upd |-> upd, sym |-> sym, vals |-> vals]
OrderBy(in, by, dirs, syms) ==
    [kind |-> "OrderBy", in |-> in, by |-> by, dirs |-> dirs, syms |-> syms]
Agg(op, sym, o) == [op |-> op, sym |-> sym, out |-> o]
Aggregate(in, aggs, group_by, remember) ==
    [kind |-> "Aggregate", in |-> in, aggs |-> aggs, group_by |-> group_by,
     remember |-> remember]
Expand(in, insym, edge, node, dir, existing) ==
    [kind |-> "Expand", in |-> in, insym |-> insym, edge |-> edge, node |-> node,
     dir |-> dir, existing |-> existing]
EdgeUniquenessFilter(in, expand, previous) ==
    [kind |-> "EdgeUniquenessFilter", in |-> in, expand |-> expand, previous |-> previous]
CreateExpand(in, insym, edge, node, dir) ==
    [kind |-> "CreateExpand", in |-> in, insym |-> insym, edge |-> edge, node |-> node,
     dir |-> dir]

(***************************************************************************)
(* Expressions of a WHERE clause, evaluated by Eval.                       *)
(***************************************************************************)
Lit(v) == [kind |-> "Literal", value |-> v]
Id(s) == [kind |-> "Identifier", sym |-> s]
Bin(op, a, b) == [kind |-> "Binary", op |-> op, a |-> a, b |-> b]
AndE(a, b) == [kind |-> "And", a |-> a, b |-> b]
NotE(a) == [kind |-> "Not", a |-> a]
IsNullE(a) == [kind |-> "IsNull", a |-> a]
InE(a, b) == [kind |-> "InList", a |-> a, b |-> b]
CaseE(c, t, e) == [kind |-> "If", cond |-> c, then_expr |-> t, else_expr |-> e]
CoalesceE(args) == [kind |-> "Coalesce", args |-> args]
ListE(es) == [kind |-> "ListLiteral", elems |-> es]
Sub(a, i) == [kind |-> "Subscript", a |-> a, b |-> i]
SliceE(l, lo, hi) == [kind |-> "Slice", list |-> l, lo |-> lo, hi |-> hi]
ReduceE(acc, init, var, l, body) ==
    [kind |-> "Reduce", acc |-> acc, init |-> init, var |-> var, list |-> l, body |-> body]
ExtractE(var, l, body) == [kind |-> "Extract", var |-> var, list |-> l, body |-> body]
Quant(k, var, l, pred) == [kind |-> k, var |-> var, list |-> l, pred |-> pred]

X == Id("x")
Y == Id("y")
I(n) == Lit(IntV(n))

OutputTable(syms, rows) == [kind |-> "OutputTable", syms |-> syms, rows |-> rows]
LoadCsv(in, sym, file) == [kind |-> "LoadCsv", in |-> in, sym |-> sym, file |-> file]

Plan(ops) == [root |-> Len(ops), ops |-> ops]

(* MATCH (n) WHERE n:A RETURN n *)
ScanFilter == Plan(<<Once, Scan(1, "n", NoLabel), Filter(2, LabelIs("n", A)),
                     Produce(3, <<"n">>)>>)

(* UNWIND [11, 12, 11] AS x MATCH (n:B) WHERE n.key = x RETURN x, n SKIP 1 LIMIT 2 *)
UnwindScan == Plan(<<Once, Unwind(1, "x", <<11, 12, 11>>), Scan(2, "n", B),
                     Filter(3, KeyIs("n", "x")), Skip(4, 1), Limit(5, 2),
                     Produce(6, <<"x", "n">>)>>)

(* MATCH (n) RETURN n LIMIT 0 *)
LimitZero == Plan(<<Once, Scan(1, "n", NoLabel), Limit(2, 0),
                    Produce(3, <<"n">>)>>)

(* MATCH (n:A) OPTIONAL MATCH (m:B) WHERE m.key = n.key RETURN n, m,    *)
(* with the key test written as a Filter over the optional scan.         *)
OptionalMatch == Plan(<<Once, Scan(1, "n", A), Once, Scan(3, "m", B),
                        Filter(4, [kind |-> "key", sym |-> "m", other |-> "x"]),
                        Unwind(2, "x", <<11>>),
                        Optional(6, 5, {"m"}), Produce(7, <<"n", "m">>)>>)

(* UNWIND [12, 11, 12] AS x WITH DISTINCT x RETURN x *)
DistinctUnwind == Plan(<<Once, Unwind(1, "x", <<12, 11, 12>>), Distinct(2, <<"x">>),
                         Produce(3, <<"x">>)>>)

(* MATCH (n:A) RETURN n AS u UNION ALL MATCH (m:B) RETURN m AS u *)
UnionAll == Plan(<<Once, Scan(1, "n", A), Once, Scan(3, "m", B),
                   Union(2, 4, "u" :> "n", "u" :> "m"), Produce(5, <<"u">>)>>)

(* MATCH (n:A), (m) RETURN n, m *)
CartesianScan == Plan(<<Once, Scan(1, "n", A), Once, Scan(3, "m", NoLabel),
                        Cartesian(2, 4, {"n"}, {"m"}), Produce(5, <<"n", "m">>)>>)

(* UNWIND [12] AS x MERGE (n:B {key: x}) RETURN x, n *)
MergeOne == Plan(<<Once, Unwind(1, "x", <<12>>), Once, Scan(3, "n", B),
                   Filter(4, KeyIs("n", "x")), Once, CreateNode(6, "n", B, "x"),
                   Merge(2, 5, 7), Produce(8, <<"x", "n">>)>>)

(* UNWIND [11] AS x CREATE (n:A {key: x}) RETURN n *)
CreateOne == Plan(<<Once, Unwind(1, "x", <<11>>), CreateNode(2, "n", A, "x"),
                    Produce(3, <<"n">>)>>)

(* FOREACH (x IN [12] | CREATE (:B {key: x})) *)
ForeachOne == Plan(<<Once, Once, CreateNode(2, "n", B, "x"),
                     Foreach(1, 3, "x", <<12>>), Produce(4, <<>>)>>)

MCSyms == {"n", "m", "x", "u", "c", "s", "e", "f"}
MCKeys == {11, 12}
(* UNWIND [11, 12, 11] AS x RETURN x ORDER BY x DESC *)
OrderDesc == Plan(<<Once, Unwind(1, "x", <<11, 12, 11>>),
                    OrderBy(2, <<"x">>, <<"desc">>, <<"x">>), Produce(3, <<"x">>)>>)

(* MATCH (n:A) RETURN count( * ) AS c, count(n) AS s *)
CountAll == Plan(<<Once, Scan(1, "n", A),
                   Aggregate(2, <<Agg("count", "*", "c"), Agg("count", "n", "s")>>, <<>>, <<>>),
                   Produce(3, <<"c", "s">>)>>)

(* UNWIND [11, 12, 11] AS x RETURN x, count( * ) AS c, sum(x) AS s ORDER BY x *)
GroupSum == Plan(<<Once, Unwind(1, "x", <<11, 12, 11>>),
                   Aggregate(2, <<Agg("count", "*", "c"), Agg("sum", "x", "s")>>, <<"x">>, <<"x">>),
                   OrderBy(3, <<"x">>, <<"asc">>, <<"x", "c", "s">>),
                   Produce(4, <<"x", "c", "s">>)>>)

(* UNWIND [11] AS x MATCH (n:A) OPTIONAL MATCH (m:B) WHERE m.key = x     *)
(* RETURN min(m) AS c, max(m) AS s, count(m) AS u: the Nulls the          *)
(* optional match leaves are skipped.                                     *)
MinMaxOptional == Plan(<<Once, Scan(1, "n", A), Once, Scan(3, "m", B),
                         Filter(4, KeyIs("m", "x")), Unwind(2, "x", <<11>>),
                         Optional(6, 5, {"m"}),
                         Aggregate(7, <<Agg("min", "m", "c"), Agg("max", "m", "s"),
                                        Agg("count", "m", "u")>>, <<>>, <<>>),
                         Produce(8, <<"c", "s", "u">>)>>)

(* MATCH (n:A)-[e]-(m) RETURN n, e, m *)
ExpandBoth == Plan(<<Once, Scan(1, "n", A), Expand(2, "n", "e", "m", "both", FALSE),
                     Produce(3, <<"n", "e", "m">>)>>)

(* MATCH (n:A), (m:B) MATCH (n)-[e]->(m) RETURN n, e, m *)
ExpandExisting == Plan(<<Once, Scan(1, "n", A), Scan(2, "m", B),
                         Expand(3, "n", "e", "m", "out", TRUE),
                         Produce(4, <<"n", "e", "m">>)>>)

(* MATCH (n:B) OPTIONAL MATCH (n)<-[e]-(m) RETURN n, e, m *)
ExpandOptional == Plan(<<Once, Scan(1, "n", B), Once,
                         Expand(3, "n", "e", "m", "in", FALSE),
                         Optional(2, 4, {"e", "m"}), Produce(5, <<"n", "e", "m">>)>>)

(* MATCH (n:A)-[e]-(m)-[f]-(x) RETURN e, f: f must differ from e *)
TwoHops == Plan(<<Once, Scan(1, "n", A), Expand(2, "n", "e", "m", "both", FALSE),
                  Expand(3, "m", "f", "x", "both", FALSE),
                  EdgeUniquenessFilter(4, "f", {"e"}), Produce(5, <<"e", "f">>)>>)

(* MATCH (n:A), (m:B) CREATE (n)-[e:T]->(m) RETURN n, m *)
CreateEdge == Plan(<<Once, Scan(1, "n", A), Scan(2, "m", B),
                     CreateExpand(3, "n", "e", "m", "out"), Produce(4, <<"n", "m">>)>>)

(* MATCH (n:A), (m:B) CREATE (n)<-[e:T]-(m) RETURN e *)
CreateEdgeReturned == Plan(<<Once, Scan(1, "n", A), Scan(2, "m", B),
                             CreateExpand(3, "n", "e", "m", "in"), Produce(4, <<"e">>)>>)

(* UNWIND [11, 12] AS x MERGE (n:B {key: x}) RETURN x, n *)
MergeTwo == Plan(<<Once, Unwind(1, "x", <<11, 12>>), Once, Scan(3, "n", B),
                   Filter(4, KeyIs("n", "x")), Once, CreateNode(6, "n", B, "x"),
                   Merge(2, 5, 7), Produce(8, <<"x", "n">>)>>)

(* UNWIND [11, 12] AS x CREATE (n:A {key: x}) RETURN x, n *)
CreateTwo == Plan(<<Once, Unwind(1, "x", <<11, 12>>), CreateNode(2, "n", A, "x"),
                    Produce(3, <<"x", "n">>)>>)

(* UNWIND [11, 12] AS x CREATE (n:B {key: x}) RETURN x *)
CreateKeys == Plan(<<Once, Unwind(1, "x", <<11, 12>>), CreateNode(2, "n", B, "x"),
                     Produce(3, <<"x">>)>>)

(* UNWIND [12, 12] AS x MERGE (n:B {key: x}) RETURN x, n: the second row *)
(* matches the vertex the first row created.                             *)
MergeSame == Plan(<<Once, Unwind(1, "x", <<12, 12>>), Once, Scan(3, "n", B),
                    Filter(4, KeyIs("n", "x")), Once, CreateNode(6, "n", B, "x"),
                    Merge(2, 5, 7), Produce(8, <<"x", "n">>)>>)

(* A table of two columns, as a SHOW query's callback returns it.          *)
(* YIELD x, m WHERE x < m OR m = 11 RETURN x, m                            *)
TableFilter == Plan(<<OutputTable(<<"x", "m">>, <<<<11, 12>>, <<Null, 11>>, <<12, 12>>>>),
                      Filter(1, [kind |-> "expr",
                                 e |-> Bin("OR", Bin("<", Id("x"), Id("m")),
                                                 Bin("=", Id("m"), Lit(IntV(11))))]),
                      Produce(2, <<"x", "m">>)>>)

(* Plans that only read, run with resets. *)
MCReadPlans == {ScanFilter, UnwindScan, LimitZero, OptionalMatch, DistinctUnwind,
                UnionAll, CartesianScan, OrderDesc, CountAll, GroupSum, MinMaxOptional,
                ExpandBoth, ExpandExisting, ExpandOptional, TwoHops, TableFilter}
(* Plans that write, in which every create cursor is pulled for one row. *)
MCWritePlans == {MergeOne, CreateOne, ForeachOne, CreateKeys, MergeSame, CreateEdge}

(* MATCH (n), (m:B) RETURN n, m *)
ScanPair == Plan(<<Once, Scan(1, "n", NoLabel), Scan(2, "m", B), Produce(3, <<"n", "m">>)>>)

(* MATCH (m:B) CREATE (n:A {key: m}) RETURN m, n *)
CreateFromScan == Plan(<<Once, Scan(1, "m", B), CreateNode(2, "n", A, "m"),
                         Produce(3, <<"m", "n">>)>>)

(* Plans built only of cursors with a PullMultiple, run in mode "multi". *)
MCMultiPlans == {ScanPair, CreateEdge, CreateFromScan}

V(label, key) == [label |-> label, key |-> key]
E(from, to) == [from |-> from, to |-> to]
MCGraphs == {[v |-> <<>>, e |-> <<>>],
             [v |-> <<V(A, 11)>>, e |-> <<>>],
             [v |-> <<V(B, 12)>>, e |-> <<>>],
             [v |-> <<V(B, 11), V(A, 12), V(B, 12)>>, e |-> <<>>],
             \* a loop on the A vertex, edges both ways to one B and one to the other
             [v |-> <<V(A, 11), V(B, 12), V(B, 11)>>,
              e |-> <<E(1, 2), E(1, 1), E(2, 1), E(3, 1), E(1, 3)>>]}



(* UNWIND [11, null, 12] AS x WITH x WHERE p RETURN x *)
WherePlan(p) == Plan(<<Once, Unwind(1, "x", <<11, Null, 12>>),
                       Filter(2, [kind |-> "expr", e |-> p]), Produce(3, <<"x">>)>>)

(* Predicates on which the evaluator and openCypher agree.  A quantifier  *)
(* here has a predicate that is null on every element or on none.        *)
MCPredicates ==
  { \* x < 12 OR x IS NULL
    Bin("OR", Bin("<", X, I(12)), IsNullE(X)),
    \* NOT x = 11 AND x < 13
    AndE(NotE(Bin("=", X, I(11))), Bin("<", X, I(13))),
    \* x = 11 XOR x <> 12
    Bin("XOR", Bin("=", X, I(11)), Bin("<>", X, I(12))),
    \* x IN [11, null]
    InE(X, ListE(<<I(11), Lit(NullV)>>)),
    \* x IN []  OR  null IN [x]
    Bin("OR", InE(X, ListE(<<>>)), InE(Lit(NullV), ListE(<<X>>))),
    \* CASE WHEN x < 12 THEN true ELSE x IS NULL END
    CaseE(Bin("<", X, I(12)), Lit(TrueV), IsNullE(X)),
    \* coalesce(null, x, 11) = 12
    Bin("=", CoalesceE(<<Lit(NullV), X, I(11)>>), I(12)),
    \* [x, 11][-1] = 11 AND [x][1] IS NULL AND [x][-1] = 12
    AndE(AndE(Bin("=", Sub(ListE(<<X, I(11)>>), I(-1)), I(11)),
              IsNullE(Sub(ListE(<<X>>), I(1)))),
         Bin("=", Sub(ListE(<<X>>), I(-1)), I(12))),
    \* [11, x, 12][1..] = [x, 12]  AND  [11, x, 12][..-2] = [11]
    AndE(Bin("=", SliceE(ListE(<<I(11), X, I(12)>>), I(1), Absent), ListE(<<X, I(12)>>)),
         Bin("=", SliceE(ListE(<<I(11), X, I(12)>>), Absent, I(-2)), ListE(<<I(11)>>))),
    \* [x, 11][-5..1] = [x]  AND  [x][0..null] IS NULL
    AndE(Bin("=", SliceE(ListE(<<X, I(11)>>), I(-5), I(1)), ListE(<<X>>)),
         IsNullE(SliceE(ListE(<<X>>), I(0), Lit(NullV)))),
    \* reduce(acc = 0, y IN [x, 1] | acc + y) = 12
    Bin("=", ReduceE("acc", I(0), "y", ListE(<<X, I(1)>>), Bin("+", Id("acc"), Y)), I(12)),
    \* extract(y IN [x, 1] | y + 1)[0] = 12
    Bin("=", Sub(ExtractE("y", ListE(<<X, I(1)>>), Bin("+", Y, I(1))), I(0)), I(12)),
    \* all(y IN [11, 12] WHERE y < x + 1)
    Quant("All", "y", ListE(<<I(11), I(12)>>), Bin("<", Y, Bin("+", X, I(1)))),
    \* any(y IN [12, 11] WHERE y = x)
    Quant("Any", "y", ListE(<<I(12), I(11)>>), Bin("=", Y, X)),
    \* none(y IN [11] WHERE y = x)
    Quant("None", "y", ListE(<<I(11)>>), Bin("=", Y, X)),
    \* single(y IN [11, 12, 11] WHERE y = x)
    Quant("Single", "y", ListE(<<I(11), I(12), I(11)>>), Bin("=", Y, X)),
    \* {a: x, b: [x]} = {a: 11, b: [11]}  OR  {a: x}["b"] = 12
    Bin("OR", Bin("=", [kind |-> "MapLiteral", keys |-> <<"a", "b">>, elems |-> <<X, ListE(<<X>>)>>],
                       [kind |-> "MapLiteral", keys |-> <<"a", "b">>, elems |-> <<I(11), ListE(<<I(11)>>)>>]),
              Bin("=", Sub([kind |-> "MapLiteral", keys |-> <<"a">>, elems |-> <<X>>], Lit(Str("b"))), I(12))) }

(* Predicates on which the evaluator departs from openCypher.             *)
MCDivergentPredicates ==
  { \* all(y IN [] WHERE y = x): null, openCypher true
    Quant("All", "y", ListE(<<>>), Bin("=", Y, X)),
    \* NOT all(y IN [x, 11] WHERE y = 11): for a null x all() is false,
    \* openCypher null
    NotE(Quant("All", "y", ListE(<<X, I(11)>>), Bin("=", Y, I(11)))),
    \* single(y IN [x, 11] WHERE y = 11): for a null x true, openCypher null
    Quant("Single", "y", ListE(<<X, I(11)>>), Bin("=", Y, I(11))),
    \* extract(y IN [x] | coalesce(y, 0))[0] = 0: a null element is kept
    Bin("=", Sub(ExtractE("y", ListE(<<X>>), CoalesceE(<<Y, I(0)>>)), I(0)), I(0)) }

(* The evaluator's type errors are not reached: every predicate is a      *)
(* boolean or null on every value of x.                                   *)
ASSUME \A p \in MCPredicates \cup MCDivergentPredicates :
         \A v \in {IntV(11), IntV(12), NullV} :
           Evaluate(p, [s \in MCSyms |-> IF s = "x" THEN v ELSE NullV]) \in {TrueV, FalseV, NullV}

(***************************************************************************)
(* LOAD CSV.  A file with a header whose first name repeats, and one      *)
(* without a header whose rows differ in length.                         *)
(***************************************************************************)
People == [header |-> <<"name", "age", "name">>,
           rows |-> <<<<"a", "1", "c">>, <<"b", "2", "a">>>>]
Ragged == [header |-> <<>>, rows |-> <<<<"a", "1">>, <<"b">>>>]

(* LOAD CSV FROM f WITH HEADER AS x WITH x WHERE p RETURN x *)
CsvWherePlan(file, p) ==
    Plan(<<Once, LoadCsv(1, "x", file), Filter(2, [kind |-> "expr", e |-> p]),
           Produce(3, <<"x">>)>>)

S(str) == Lit(Str(str))
(* x.name = "a" AND x["age"] = "1": the repeated name keeps column one,  *)
(* so only the first row is kept.                                          *)
CsvByName == CsvWherePlan(People, AndE(Bin("=", [kind |-> "PropertyLookup", a |-> X, prop |-> "name"], S("a")),
                                             Bin("=", Sub(X, S("age")), S("1"))))
(* x[1] IS NULL AND x[-1] = "b": only the short row, which has no second  *)
(* column.                                                                 *)
CsvByIndex == CsvWherePlan(Ragged, AndE(IsNullE(Sub(X, I(1))), Bin("=", Sub(X, I(-1)), S("b"))))
(* {row: x, n: x.age}.row = x AND {row: x, n: x.age}.n = "2" AND x.city  *)
(* IS NULL: only the second row.                                          *)
CsvMapLiteral ==
    CsvWherePlan(People,
        LET m == [kind |-> "MapLiteral", keys |-> <<"row", "n">>,
                  elems |-> <<X, [kind |-> "PropertyLookup", a |-> X, prop |-> "age"]>>]
        IN AndE(AndE(Bin("=", [kind |-> "PropertyLookup", a |-> m, prop |-> "row"], X),
                     Bin("=", Sub(m, S("n")), S("2"))),
                IsNullE([kind |-> "PropertyLookup", a |-> X, prop |-> "city"])))

(* UNWIND [11, 12, 11] AS u LOAD CSV FROM f WITH HEADER AS x RETURN u, x: *)
(* one row of the file per input row, so two rows.                        *)
UnwindLoadCsv == Plan(<<Once, Unwind(1, "u", <<11, 12, 11>>), LoadCsv(2, "x", People),
                        Produce(3, <<"u", "x">>)>>)
(* MATCH (n) LOAD CSV FROM f AS x RETURN n, x: as many rows as the fewer  *)
(* of the vertices and the file's rows.                                   *)
ScanLoadCsv == Plan(<<Once, Scan(1, "n", NoLabel), LoadCsv(2, "x", Ragged),
                      Produce(3, <<"n", "x">>)>>)

(* Plans with a LOAD CSV: LoadCsvCursor::Reset does not rewind the reader, *)
(* so they are not reset.                                                  *)
MCCsvPlans == {CsvByName, CsvByIndex, CsvMapLiteral, UnwindLoadCsv, ScanLoadCsv}

(* The CSV predicates are a boolean or null on every row of their file.   *)
ASSUME \A p \in {CsvByName, CsvByIndex, CsvMapLiteral} :
         LET file == p.ops[2].file
             pred == p.ops[3].pred.e
         IN \A k \in DOMAIN file.rows :
              Evaluate(pred, [s \in MCSyms |-> IF s = "x"
                                               THEN IF file.header = <<>>
                                                    THEN List([i \in DOMAIN file.rows[k] |-> Str(file.rows[k][i])])
                                                    ELSE MapV(Emplace(file.header, [i \in DOMAIN file.rows[k] |-> Str(file.rows[k][i])]))
                                               ELSE NullV]) \in {TrueV, FalseV, NullV}

MCWherePlans == {WherePlan(p) : p \in MCPredicates}
MCDivergentWherePlans == {WherePlan(p) : p \in MCDivergentPredicates}
MCAllPlans == MCReadPlans \cup MCWritePlans \cup MCWherePlans \cup MCCsvPlans

MCMergeTwo == {MergeTwo}
MCCreateFromScan == {CreateFromScan}
MCCreates == {CreateTwo, CreateEdgeReturned}
MCDivergentPlans == MCCreates \cup MCDivergentWherePlans

=============================================================================
