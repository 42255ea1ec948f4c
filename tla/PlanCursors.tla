---------------------------- MODULE PlanCursors ----------------------------
(***************************************************************************)
(* The pull-based cursors of the distributed query engine                 *)
(* (src/src/query/v2/plan/operator.cpp).  A plan is a tree of logical     *)
(* operators; each operator makes a cursor whose Pull(frame, context)     *)
(* writes one row into the shared frame and returns true, or returns      *)
(* false when it is exhausted, and whose Reset() rewinds it.  A cursor    *)
(* pulls its inputs synchronously, so one call of the root's Pull is one  *)
(* atomic step of the model: Pull below is a recursive operator over the  *)
(* whole tree that returns the new "world" (every cursor's state, the     *)
(* frame and the graph) together with the Boolean the call returns.      *)
(*                                                                         *)
(* The request router is abstracted to a graph [v, e]: a sequence v of   *)
(* vertices [label, key] and a sequence e of edges [from, to].  A vertex  *)
(* on the frame is its index in v, an edge EdgeBase plus its index in e.  Expressions are abstracted to the few forms the plans use:  *)
(* a label test, a key-equals-symbol test and constant lists and numbers. *)
(***************************************************************************)
EXTENDS Integers, Sequences, SequencesExt, FiniteSets, Eval

CONSTANTS
    Syms,         \* the symbols of the frame
    Labels,       \* vertex labels
    Keys,         \* values a vertex key or an UNWIND list element can take
    Plans,        \* the plans run through Pull: [root |-> n, ops |-> <<op_1, ..., op_n>>]
    Graphs,       \* the graphs the query may start on: [v |-> <<[label, key], ...>>, e |-> <<[from, to], ...>>]
    ResettablePlans, \* the plans whose root the caller may reset (see ResetRoot)
    MaxResets,    \* bound on the number of times the root is reset
    MaxLatePulls, \* bound on the pulls made after the root returned false
    MultiPlans,   \* the plans run through PullMultiple (see PullMultipleRoot)
    FramesInMultiframe \* kNumberOfFramesInMultiframe: the frames of a MultiFrame

Null == 0           \* TypedValue() on the frame; vertices are 1..Len(db)
NoLabel == "none"   \* ScanAll: no label in the request
EdgeBase == 100     \* edge i of the graph is the value EdgeBase + i
CsvBase == 200      \* row k of the plan's CSV file is the value CsvBase + k

ASSUME Null \notin Keys /\ MaxResets \in Nat /\ MaxLatePulls \in Nat

VARIABLES
    plan,        \* the plan being executed (fixed in a behaviour)
    cs,          \* cs[n]: the state of the cursor of operator n
    frame,       \* the frame shared by all cursors
    db,          \* the graph as the request router sees it
    db0,         \* the graph when the root was last created or reset
    out,         \* rows the root returned since it was created or reset
    done,        \* the root's last Pull returned false
    late,        \* pulls made after done
    resets,      \* resets of the root so far
    merge_failed, \* ghost: a MergeCreate pull returned false (DMG_ASSERT)
    mode,        \* "single": the caller uses Pull; "multi": PullMultiple
    mf,          \* the caller's MultiFrame in mode "multi"
    assert_failed \* an MG_ASSERT of a PullMultiple failed: the process aborted

vars == <<plan, cs, frame, db, db0, out, done, late, resets, merge_failed,
          mode, mf, assert_failed>>

Op(n) == plan.ops[n]
NullFrame == [s \in Syms |-> Null]

(* The members of every cursor class, with their initial values.          *)
InitCursor ==
    [did_pull   |-> FALSE,             \* Once
     state      |-> "initializing",    \* DistributedScanAllAndFilterCursor
     batch      |-> <<>>,
     pos        |-> 1,                 \* current_vertex_it_ (Len+1 = end)
     to_skip    |-> -1, skipped |-> 0, \* Skip
     limit      |-> -1, pulled  |-> 0, \* Limit
     pull_input |-> TRUE,              \* Optional, Merge
     list       |-> <<>>, lpos |-> 1,  \* Unwind
     seen       |-> {},                \* Distinct
     left       |-> <<>>, lit |-> 1,   \* Cartesian
     right      |-> NullFrame,
     init       |-> FALSE,
     keys       |-> <<>>,              \* DistributedCreateNodeCursor
     pulled_all |-> FALSE,             \* OrderBy, Aggregate
     cache      |-> <<>>, cit |-> 1,   \* OrderBy cache_, Aggregate aggregation_
     ins        |-> <<>>, iit |-> 1,   \* DistributedExpandCursor
     outs       |-> <<>>, oit |-> 1,
     own        |-> <<>>,              \* own_multi_frames_ (<<>>: no value)
     vf         |-> <<>>, vit |-> 1,   \* valid_frames_consumer_, valid_frames_it_
     has_next   |-> FALSE,             \* has_next_frame_
     reader     |-> 0,                 \* LoadCsv reader_: 0 none, else next row
     tpulled    |-> FALSE,             \* OutputTable pulled_
     rows       |-> <<>>, row |-> 0]   \* OutputTable rows_, current_row_

(* A world returned by a call: the state plus the call's result ok.       *)
Ret(w, b) == [w EXCEPT !.ok = b]

(***************************************************************************)
(* Expressions.                                                            *)
(***************************************************************************)
(* The CSV file of the plan's LoadCsv operator (a plan has at most one): *)
(* [header |-> the column names, <<>> without a header, rows |-> rows of  *)
(* strings, each as long as the header when there is one].                *)
CsvFile == LET ls == {n \in DOMAIN plan.ops : plan.ops[n].kind = "LoadCsv"} IN
           plan.ops[CHOOSE n \in ls : TRUE].file

(* CsvRowToTypedList: the row's columns as a list of strings.              *)
CsvRowToTypedList(row) == List([i \in DOMAIN row |-> Str(row[i])])

(* CsvRowToTypedMap: header[i] -> row[i] by emplace, so a column name met *)
(* again keeps the first column's value.                                   *)
CsvRowToTypedMap(row, header) ==
    MapV(Emplace(header, [i \in DOMAIN row |-> Str(row[i])]))

(* The frame as the evaluator reads it: a key, TypedValue() for Null, or *)
(* the value LoadCsv made of a row of the file.                          *)
FrameEnv(f) ==
    [s \in DOMAIN f |->
        CASE f[s] = Null -> NullV
          [] f[s] > CsvBase ->
               LET row == CsvFile.rows[f[s] - CsvBase] IN
               IF CsvFile.header = <<>> THEN CsvRowToTypedList(row)
               ELSE CsvRowToTypedMap(row, CsvFile.header)
          [] OTHER -> IntV(f[s])]

(* EvaluateFilter: Null is false.  A label or key test of the plans, or an *)
(* expression evaluated by Eval; the plans' expressions evaluate to a     *)
(* boolean or null (MCPlanCursors assumes it), so the QueryRuntimeException *)
(* for another type is not reached.                                        *)
EvaluateFilter(pred, f, g) ==
    CASE pred.kind = "expr"  -> Evaluate(pred.e, FrameEnv(f)) = TrueV
      [] pred.kind = "label" -> f[pred.sym] /= Null /\ g.v[f[pred.sym]].label = pred.label
      [] pred.kind = "key"   -> f[pred.sym] /= Null /\ g.v[f[pred.sym]].key = f[pred.other]

(* A row of the file as LOAD CSV promises it: the list of its columns,   *)
(* or with a header the map from each name to the column it first names.  *)
RefCsvValue(row) ==
    LET h == CsvFile.header IN
    IF h = <<>> THEN List([i \in DOMAIN row |-> Str(row[i])])
    ELSE MapV([k \in {h[i] : i \in DOMAIN h} |->
                 Str(row[CHOOSE i \in DOMAIN h : h[i] = k /\ \A j \in 1..(i - 1) : h[j] /= k])])

(* The reference filter: an expression keeps a row when openCypher's      *)
(* semantics makes it true.                                               *)
RefFilter(pred, f, g) ==
    IF pred.kind = "expr"
    THEN RefEvaluate(pred.e, [s \in DOMAIN f |->
                                IF f[s] > CsvBase THEN RefCsvValue(CsvFile.rows[f[s] - CsvBase])
                                ELSE FrameEnv(f)[s]]) = TrueV
    ELSE EvaluateFilter(pred, f, g)

(* The vertices ScanVertices(label) returns, in storage order.            *)
ScanVertices(label, g) ==
    SelectSeq([i \in 1..Len(g.v) |-> i],
              LAMBDA i : label = NoLabel \/ g.v[i].label = label)

(***************************************************************************)
(* DistributedScanAllAndFilterCursor.                                      *)
(***************************************************************************)
(* Mutant: the iterator is not moved to the end of the cleared batch.    *)
ResetExecutionStateKeepsIterator(n, w) ==
    [w EXCEPT !.cs[n].batch = <<>>, !.cs[n].state = "initializing"]

ResetExecutionState(n, w) ==
    [w EXCEPT !.cs[n].batch = <<>>, !.cs[n].pos = 1,
              !.cs[n].state = "initializing"]

(* The request carries the label only: property_expression_pair_ and     *)
(* filter_expressions_ are stored but never sent.                        *)
MakeRequest(n, w) ==
    [w EXCEPT !.cs[n].batch = ScanVertices(Op(n).label, w.db),
              !.cs[n].pos = 1, !.cs[n].state = "completed"]

EmitVertex(n, w) ==
    LET c == w.cs[n] IN
    [w EXCEPT !.frame[Op(n).sym] = c.batch[c.pos], !.cs[n].pos = c.pos + 1,
              !.ok = TRUE]

(***************************************************************************)
(* The cursors' Pull and Reset, one operator per loop of the code.        *)
(***************************************************************************)
RECURSIVE Pull(_, _), Reset(_, _), PullScanAll(_, _), PullFilter(_, _),
          PullSkip(_, _), PullUnwind(_, _), PullOptional(_, _), PullMerge(_, _),
          PullMergeNoReset(_, _),
          PullDistinct(_, _), CollectLeft(_, _), Drain(_, _),
          ForeachElements(_, _, _), CollectOrderBy(_, _), ProcessAll(_, _),
          InitEdges(_, _), PullExpand(_, _), PullEdgeUniquenessFilter(_, _),
          PullLoadCsv(_, _)

PullOnce(n, w) ==
    IF ~w.cs[n].did_pull THEN Ret([w EXCEPT !.cs[n].did_pull = TRUE], TRUE)
                         ELSE Ret(w, FALSE)

ScanStep(n, w) ==
    LET c == w.cs[n] IN
    IF c.pos <= Len(c.batch) THEN EmitVertex(n, w)
    ELSE IF c.state = "completed"
         THEN PullScanAll(n, ResetExecutionState(n, w))
         ELSE LET wm == MakeRequest(n, w) IN
              IF wm.cs[n].batch = <<>>
              THEN PullScanAll(n, ResetExecutionState(n, wm))
              ELSE EmitVertex(n, wm)

PullScanAll(n, w) ==
    IF w.cs[n].state = "initializing"
    THEN LET wi == Pull(Op(n).in, w) IN
         IF wi.ok THEN ScanStep(n, wi) ELSE wi
    ELSE ScanStep(n, w)

PullFilter(n, w) ==
    LET wi == Pull(Op(n).in, w) IN
    IF ~wi.ok THEN wi
    ELSE IF EvaluateFilter(Op(n).pred, wi.frame, wi.db) THEN wi
    ELSE PullFilter(n, wi)

(* to_skip_ is evaluated after the first successful input pull.          *)
PullSkip(n, w) ==
    LET wi == Pull(Op(n).in, w) IN
    IF ~wi.ok THEN wi
    ELSE LET c == wi.cs[n]
             k == IF c.to_skip = -1 THEN Op(n).count ELSE c.to_skip
             w2 == [wi EXCEPT !.cs[n].to_skip = k, !.cs[n].skipped = c.skipped + 1]
         IN IF c.skipped < k THEN PullSkip(n, w2) ELSE w2

(* Mutant: the limit check as pulled_++ > limit_.                         *)
PullLimitAfter(n, w) ==
    LET c == w.cs[n]
        k == IF c.limit = -1 THEN Op(n).count ELSE c.limit
        w2 == [w EXCEPT !.cs[n].limit = k, !.cs[n].pulled = c.pulled + 1]
    IN IF c.pulled > k THEN Ret(w2, FALSE) ELSE Pull(Op(n).in, w2)

(* limit_ is evaluated before any input pull; pulled_ counts every call. *)
PullLimit(n, w) ==
    LET c == w.cs[n]
        k == IF c.limit = -1 THEN Op(n).count ELSE c.limit
        w2 == [w EXCEPT !.cs[n].limit = k, !.cs[n].pulled = c.pulled + 1]
    IN IF c.pulled >= k THEN Ret(w2, FALSE) ELSE Pull(Op(n).in, w2)

PullUnwind(n, w) ==
    LET c == w.cs[n]
        wi == IF c.lpos > Len(c.list) THEN Pull(Op(n).in, w) ELSE Ret(w, TRUE)
    IN IF ~wi.ok THEN wi
       ELSE LET w2 == IF c.lpos > Len(c.list)
                      THEN [wi EXCEPT !.cs[n].list = Op(n).vals, !.cs[n].lpos = 1]
                      ELSE wi
                c2 == w2.cs[n]
            IN IF c2.lpos > Len(c2.list) THEN PullUnwind(n, w2)
               ELSE [w2 EXCEPT !.frame[Op(n).sym] = c2.list[c2.lpos],
                               !.cs[n].lpos = c2.lpos + 1]

PullProduce(n, w) == Pull(Op(n).in, w)

(* Optional: after a fresh input row with no optional match the optional *)
(* symbols are set to Null and the row is returned.                      *)
PullOptional(n, w) ==
    LET c == w.cs[n]
        wi == IF c.pull_input THEN Pull(Op(n).in, w) ELSE Ret(w, TRUE)
    IN IF ~wi.ok THEN wi
       ELSE LET wr == IF c.pull_input THEN Reset(Op(n).opt, wi) ELSE wi
                wo == Pull(Op(n).opt, wr)
            IN IF wo.ok THEN [wo EXCEPT !.cs[n].pull_input = FALSE]
               ELSE IF c.pull_input
               THEN [wo EXCEPT !.frame = [s \in Syms |->
                                 IF s \in Op(n).syms THEN Null ELSE wo.frame[s]],
                               !.cs[n].pull_input = TRUE, !.ok = TRUE]
               ELSE PullOptional(n, [wo EXCEPT !.cs[n].pull_input = TRUE])

(* Mutant: the match and create cursors are not reset for a new row.     *)
PullMergeNoReset(n, w) ==
    LET c == w.cs[n]
        wi == IF c.pull_input THEN Pull(Op(n).in, w) ELSE Ret(w, TRUE)
    IN IF ~wi.ok THEN wi
       ELSE LET wm == Pull(Op(n).match, wi)
            IN IF wm.ok THEN [wm EXCEPT !.cs[n].pull_input = FALSE]
               ELSE IF c.pull_input
               THEN LET wc == Pull(Op(n).create, wm) IN
                    [wc EXCEPT !.merge_failed = wc.merge_failed \/ ~wc.ok,
                               !.ok = TRUE]
               ELSE PullMerge(n, [wm EXCEPT !.cs[n].pull_input = TRUE])

(* Merge: the create branch runs when a fresh input row has no match.    *)
(* Its result is only checked by DMG_ASSERT; the row is returned anyway. *)
PullMerge(n, w) ==
    LET c == w.cs[n]
        wi == IF c.pull_input THEN Pull(Op(n).in, w) ELSE Ret(w, TRUE)
    IN IF ~wi.ok THEN wi
       ELSE LET wr == IF c.pull_input
                      THEN Reset(Op(n).create, Reset(Op(n).match, wi))
                      ELSE wi
                wm == Pull(Op(n).match, wr)
            IN IF wm.ok THEN [wm EXCEPT !.cs[n].pull_input = FALSE]
               ELSE IF c.pull_input
               THEN LET wc == Pull(Op(n).create, wm) IN
                    [wc EXCEPT !.merge_failed = wc.merge_failed \/ ~wc.ok,
                               !.ok = TRUE]
               ELSE PullMerge(n, [wm EXCEPT !.cs[n].pull_input = TRUE])

Project(syms, f) == [i \in 1..Len(syms) |-> f[syms[i]]]

PullDistinct(n, w) ==
    LET wi == Pull(Op(n).in, w)
        row == Project(Op(n).syms, wi.frame)
    IN IF ~wi.ok THEN wi
       ELSE IF row \in wi.cs[n].seen THEN PullDistinct(n, wi)
       ELSE [wi EXCEPT !.cs[n].seen = @ \cup {row}]

(* Union: the union symbols take the values of the child's symbols; one  *)
(* the child does not output reads results[name], a default-made Null.   *)
UnionCollect(n, m, w) ==
    LET union_syms == DOMAIN Op(n).map_l \cup DOMAIN Op(n).map_r IN
    [w EXCEPT !.frame = [s \in Syms |->
                           IF s \in DOMAIN m THEN w.frame[m[s]]
                           ELSE IF s \in union_syms THEN Null
                           ELSE w.frame[s]]]

PullUnion(n, w) ==
    LET wl == Pull(Op(n).l, w)
        wr == Pull(Op(n).r, wl)
    IN IF wl.ok THEN UnionCollect(n, Op(n).map_l, wl)
       ELSE IF wr.ok THEN UnionCollect(n, Op(n).map_r, wr)
       ELSE wr

(* Cartesian: pull every left frame once, then each right frame with all *)
(* left frames restored over it.                                          *)
RestoreFrame(syms, f, from) == [s \in Syms |-> IF s \in syms THEN from[s] ELSE f[s]]

CollectLeft(n, w) ==
    LET wl == Pull(Op(n).l, w) IN
    IF wl.ok THEN CollectLeft(n, [wl EXCEPT !.cs[n].left = Append(@, wl.frame)])
    ELSE [wl EXCEPT !.cs[n].lit = Len(wl.cs[n].left) + 1, !.cs[n].init = TRUE]

CartesianStep(n, w) ==
    LET c == w.cs[n]
        wr == IF c.lit > Len(c.left)
              THEN LET w1 == Pull(Op(n).r, w) IN
                   IF w1.ok THEN [w1 EXCEPT !.cs[n].right = w1.frame, !.cs[n].lit = 1]
                   ELSE w1
              ELSE Ret([w EXCEPT !.frame = RestoreFrame(Op(n).rsyms, w.frame, c.right)], TRUE)
        c2 == wr.cs[n]
    IN IF ~wr.ok THEN wr
       ELSE [wr EXCEPT !.frame = RestoreFrame(Op(n).lsyms, wr.frame, c2.left[c2.lit]),
                       !.cs[n].lit = c2.lit + 1]

PullCartesian(n, w) ==
    LET w1 == IF w.cs[n].init THEN w ELSE CollectLeft(n, w) IN
    IF w1.cs[n].left = <<>> THEN Ret(w1, FALSE) ELSE CartesianStep(n, w1)

(* DistributedCreateNodeCursor: every created key is appended to          *)
(* primary_keys_, and PlaceNodeOnTheFrame puts the vertex of              *)
(* primary_keys_[0] on the frame.                                         *)
PullCreateNode(n, w) ==
    LET wi == Pull(Op(n).in, w)
        keys == Append(wi.cs[n].keys, Len(wi.db.v) + 1)
    IN IF ~wi.ok THEN wi
       ELSE [wi EXCEPT !.db.v = Append(@, [label |-> Op(n).label,
                                         key |-> wi.frame[Op(n).keysym]]),
                       !.cs[n].keys = keys,
                       !.frame[Op(n).sym] = keys[1]]

(* TypedValueVectorCompare: lexicographic, each position ascending or    *)
(* descending.                                                            *)
RECURSIVE VectorLess(_, _, _, _)
VectorLess(a, b, dirs, i) ==
    /\ i <= Len(a)
    /\ \/ IF dirs[i] = "asc" THEN a[i] < b[i] ELSE a[i] > b[i]
       \/ a[i] = b[i] /\ VectorLess(a, b, dirs, i + 1)

(* OrderBy: pull everything, remembering the order-by values and the     *)
(* output symbols, then std::sort the cache.                             *)
CollectOrderBy(n, w) ==
    LET wi == Pull(Op(n).in, w) IN
    IF wi.ok
    THEN CollectOrderBy(n, [wi EXCEPT !.cs[n].cache =
                                Append(@, [key |-> Project(Op(n).by, wi.frame),
                                           remember |-> Project(Op(n).syms, wi.frame)])])
    ELSE LET c == wi.cs[n] IN
         [wi EXCEPT !.cs[n].cache = SortSeq(c.cache, LAMBDA x, y :
                                       VectorLess(x.key, y.key, Op(n).dirs, 1)),
                    !.cs[n].pulled_all = TRUE, !.cs[n].cit = 1]

PullOrderBy(n, w) ==
    LET w1 == IF w.cs[n].pulled_all THEN w ELSE CollectOrderBy(n, w)
        c == w1.cs[n]
    IN IF c.cit > Len(c.cache) THEN Ret(w1, FALSE)
       ELSE Ret([w1 EXCEPT !.frame = [s \in Syms |->
                            IF \E i \in 1..Len(Op(n).syms) : Op(n).syms[i] = s
                            THEN c.cache[c.cit].remember[CHOOSE i \in 1..Len(Op(n).syms) :
                                                           Op(n).syms[i] = s]
                            ELSE w1.frame[s]],
                           !.cs[n].cit = c.cit + 1], TRUE)

(* Aggregate.  DefaultAggregationOpValue: COUNT is 0, the others Null.   *)
DefaultAggregationOpValue(e) == IF e.op = "count" THEN 0 ELSE Null

(* AggregateCursor::Update for one element: a count of all rows counts  *)
(* every row; the others skip Null and take the first value as it is.   *)
UpdateOne(e, v, cnt, f) ==
    IF e.sym = "*" THEN [v |-> cnt + 1, cnt |-> cnt + 1]
    ELSE IF f[e.sym] = Null THEN [v |-> v, cnt |-> cnt]
    ELSE LET x == f[e.sym] IN
         [cnt |-> cnt + 1,
          v |-> IF cnt = 0 THEN (IF e.op = "count" THEN 1 ELSE x)
                ELSE CASE e.op = "count" -> cnt + 1
                       [] e.op = "sum"   -> v + x
                       [] e.op = "min"   -> IF x < v THEN x ELSE v
                       [] e.op = "max"   -> IF x > v THEN x ELSE v]

(* ProcessOne: find or add the group of the row's group-by values        *)
(* (EnsureInitialized remembers the first row's values), then Update.    *)
ProcessOne(n, groups, f) ==
    LET key == Project(Op(n).group_by, f)
        aggs == Op(n).aggs
        found == {i \in 1..Len(groups) : groups[i].key = key}
        gs == IF found /= {} THEN groups
              ELSE Append(groups, [key |-> key,
                                   values |-> [j \in 1..Len(aggs) |-> DefaultAggregationOpValue(aggs[j])],
                                   counts |-> [j \in 1..Len(aggs) |-> 0],
                                   remember |-> Project(Op(n).remember, f)])
        i == IF found /= {} THEN CHOOSE i \in found : TRUE ELSE Len(gs)
        u == [j \in 1..Len(aggs) |-> UpdateOne(aggs[j], gs[i].values[j], gs[i].counts[j], f)]
    IN [gs EXCEPT ![i].values = [j \in 1..Len(aggs) |-> u[j].v],
                  ![i].counts = [j \in 1..Len(aggs) |-> u[j].cnt]]

ProcessAll(n, w) ==
    LET wi == Pull(Op(n).in, w) IN
    IF wi.ok THEN ProcessAll(n, [wi EXCEPT !.cs[n].cache = ProcessOne(n, @, wi.frame)])
    ELSE [wi EXCEPT !.cs[n].pulled_all = TRUE, !.cs[n].cit = 1]

(* The frame with the aggregation outputs and the remember symbols set.  *)
PlaceAggregation(n, f, values, remember) ==
    [s \in Syms |->
        IF \E j \in 1..Len(Op(n).aggs) : Op(n).aggs[j].out = s
        THEN values[CHOOSE j \in 1..Len(Op(n).aggs) : Op(n).aggs[j].out = s]
        ELSE IF \E j \in 1..Len(Op(n).remember) : Op(n).remember[j] = s
        THEN remember[CHOOSE j \in 1..Len(Op(n).remember) : Op(n).remember[j] = s]
        ELSE f[s]]

(* With no input and no group-by the default values are returned once.   *)
PullAggregate(n, w) ==
    LET first == ~w.cs[n].pulled_all
        w1 == IF first THEN ProcessAll(n, w) ELSE w
        c == w1.cs[n]
        aggs == Op(n).aggs
    IN IF first /\ c.cache = <<>> /\ Op(n).group_by = <<>>
       THEN Ret([w1 EXCEPT !.frame = PlaceAggregation(n, w1.frame,
                    [j \in 1..Len(aggs) |-> DefaultAggregationOpValue(aggs[j])],
                    [j \in 1..Len(Op(n).remember) |-> Null])], TRUE)
       ELSE IF c.cit > Len(c.cache) THEN Ret(w1, FALSE)
       ELSE Ret([w1 EXCEPT !.frame = PlaceAggregation(n, w1.frame, c.cache[c.cit].values,
                                                       c.cache[c.cit].remember),
                           !.cs[n].cit = c.cit + 1], TRUE)

(***************************************************************************)
(* Edges.                                                                  *)
(***************************************************************************)
From(e, g) == g.e[e - EdgeBase].from
To(e, g) == g.e[e - EdgeBase].to
IsCycle(e, g) == From(e, g) = To(e, g)

(* ExpandOne for one vertex: its in-edges and out-edges in storage order, *)
(* each side only when the direction asks for it.                        *)
ExpandOne(vertex, dir, g) ==
    [in  |-> IF dir = "out" THEN <<>>
             ELSE SelectSeq([i \in 1..Len(g.e) |-> EdgeBase + i], LAMBDA e : To(e, g) = vertex),
     out |-> IF dir = "in" THEN <<>>
             ELSE SelectSeq([i \in 1..Len(g.e) |-> EdgeBase + i], LAMBDA e : From(e, g) = vertex)]

(* InitEdges: skip Null input vertices (a failed optional match); with    *)
(* an existing node keep only the edges whose other end is that node.    *)
InitEdges(n, w) ==
    LET wi == Pull(Op(n).in, w)
        v == wi.frame[Op(n).insym]
        r == ExpandOne(v, Op(n).dir, wi.db)
        other == wi.frame[Op(n).node]
        ins == IF Op(n).existing THEN SelectSeq(r.in, LAMBDA e : From(e, wi.db) = other) ELSE r.in
        outs == IF Op(n).existing THEN SelectSeq(r.out, LAMBDA e : To(e, wi.db) = other) ELSE r.out
    IN IF ~wi.ok THEN wi
       ELSE IF v = Null THEN InitEdges(n, wi)
       ELSE [wi EXCEPT !.cs[n].ins = ins, !.cs[n].iit = 1,
                       !.cs[n].outs = outs, !.cs[n].oit = 1]

(* PullDstVertex: the node symbol gets the edge's other end, unless the  *)
(* node already exists.                                                   *)
PlaceEdge(n, w, e, end) ==
    [w EXCEPT !.frame = [s \in Syms |->
                 IF s = Op(n).edge THEN e
                 ELSE IF s = Op(n).node /\ ~Op(n).existing THEN end
                 ELSE w.frame[s]],
              !.ok = TRUE]

(* In-edges first, then out-edges; with direction BOTH a cycle is only   *)
(* returned from the in-edges.                                           *)
PullExpand(n, w) ==
    LET c == w.cs[n] IN
    IF c.iit <= Len(c.ins)
    THEN PlaceEdge(n, [w EXCEPT !.cs[n].iit = c.iit + 1], c.ins[c.iit],
                   From(c.ins[c.iit], w.db))
    ELSE IF c.oit <= Len(c.outs)
    THEN LET e == c.outs[c.oit]
             w1 == [w EXCEPT !.cs[n].oit = c.oit + 1]
         IN IF Op(n).dir = "both" /\ IsCycle(e, w.db) THEN PullExpand(n, w1)
            ELSE PlaceEdge(n, w1, e, To(e, w.db))
    ELSE LET wi == InitEdges(n, w) IN
         IF wi.ok THEN PullExpand(n, wi) ELSE wi

(* EdgeUniquenessFilter: drop rows whose expanded edge equals an edge     *)
(* bound earlier in the pattern.                                          *)
PullEdgeUniquenessFilter(n, w) ==
    LET wi == Pull(Op(n).in, w) IN
    IF ~wi.ok THEN wi
    ELSE IF \A p \in Op(n).previous : wi.frame[p] /= wi.frame[Op(n).expand]
         THEN wi
         ELSE PullEdgeUniquenessFilter(n, wi)

(* DistributedCreateExpandCursor: the edge between the input vertex and   *)
(* the existing node is created; nothing is written to the frame.        *)
PullCreateExpand(n, w) ==
    LET wi == Pull(Op(n).in, w)
        v1 == wi.frame[Op(n).insym]
        v2 == wi.frame[Op(n).node]
        edge == IF Op(n).dir = "out" THEN [from |-> v1, to |-> v2]
                ELSE [from |-> v2, to |-> v1]
    IN IF ~wi.ok THEN wi
       ELSE [wi EXCEPT !.db.e = Append(@, edge)]

Drain(u, w) == LET wu == Pull(u, w) IN IF wu.ok THEN Drain(u, wu) ELSE wu

ForeachElements(n, i, w) ==
    IF i > Len(Op(n).vals) THEN w
    ELSE ForeachElements(n, i + 1,
            Reset(Op(n).upd, Drain(Op(n).upd, [w EXCEPT !.frame[Op(n).sym] = Op(n).vals[i]])))

PullForeach(n, w) ==
    LET wi == Pull(Op(n).in, w) IN
    IF ~wi.ok THEN wi ELSE Ret(ForeachElements(n, 1, wi), TRUE)

(* OutputTableCursor: the callback's rows are taken on the first pull;   *)
(* each pull writes the next row into the output symbols, in order.       *)
(* The rows are constants of the plan, each as long as output_symbols_,   *)
(* so the MG_ASSERT on their size holds.                                  *)
PullOutputTable(n, w) ==
    LET w1 == IF w.cs[n].tpulled THEN w
              ELSE [w EXCEPT !.cs[n].rows = Op(n).rows, !.cs[n].tpulled = TRUE]
        c == w1.cs[n]
        syms == Op(n).syms
        Col(s) == Max({i \in DOMAIN syms : syms[i] = s})
    IN IF c.row < Len(c.rows)
       THEN Ret([w1 EXCEPT !.frame = [s \in DOMAIN @ |->
                                        IF s \in ToSet(syms) THEN c.rows[c.row + 1][Col(s)]
                                        ELSE @[s]],
                           !.cs[n].row = c.row + 1], TRUE)
       ELSE Ret(w1, FALSE)

(* LoadCsvCursor: the reader is made on the first pull; the input is     *)
(* pulled on every pull, and only a false from an input other than Once  *)
(* ends the rows; each pull then takes the reader's next row.            *)
PullLoadCsv(n, w) ==
    LET w1 == IF w.cs[n].reader = 0 THEN [w EXCEPT !.cs[n].reader = 1] ELSE w
        wi == Pull(Op(n).in, w1)
        k == wi.cs[n].reader
        input_is_once == Op(Op(n).in).kind = "Once"
    IN CASE ~input_is_once /\ ~wi.ok  -> wi
         [] k <= Len(Op(n).file.rows) ->
              Ret([wi EXCEPT !.frame[Op(n).sym] = CsvBase + k, !.cs[n].reader = k + 1], TRUE)
         [] OTHER -> Ret(wi, FALSE)

Pull(n, w) ==
    CASE Op(n).kind = "Once"    -> PullOnce(n, w)
      [] Op(n).kind = "OutputTable" -> PullOutputTable(n, w)
      [] Op(n).kind = "LoadCsv" -> PullLoadCsv(n, w)
      [] Op(n).kind = "ScanAll" -> PullScanAll(n, w)
      [] Op(n).kind = "Filter"  -> PullFilter(n, w)
      [] Op(n).kind = "Skip"    -> PullSkip(n, w)
      [] Op(n).kind = "Limit"   -> PullLimit(n, w)
      [] Op(n).kind = "Unwind"  -> PullUnwind(n, w)
      [] Op(n).kind = "Produce" -> PullProduce(n, w)
      [] Op(n).kind = "Optional" -> PullOptional(n, w)
      [] Op(n).kind = "Merge" -> PullMerge(n, w)
      [] Op(n).kind = "Distinct" -> PullDistinct(n, w)
      [] Op(n).kind = "Union" -> PullUnion(n, w)
      [] Op(n).kind = "Cartesian" -> PullCartesian(n, w)
      [] Op(n).kind = "CreateNode" -> PullCreateNode(n, w)
      [] Op(n).kind = "Foreach" -> PullForeach(n, w)
      [] Op(n).kind = "OrderBy" -> PullOrderBy(n, w)
      [] Op(n).kind = "Aggregate" -> PullAggregate(n, w)
      [] Op(n).kind = "Expand" -> PullExpand(n, w)
      [] Op(n).kind = "EdgeUniquenessFilter" -> PullEdgeUniquenessFilter(n, w)
      [] Op(n).kind = "CreateExpand" -> PullCreateExpand(n, w)

ResetOnce(n, w) == [w EXCEPT !.cs[n].did_pull = FALSE]
ResetScanAll(n, w) == ResetExecutionState(n, Reset(Op(n).in, w))
ResetSkip(n, w) == [Reset(Op(n).in, w) EXCEPT !.cs[n].to_skip = -1, !.cs[n].skipped = 0]
ResetLimit(n, w) == [Reset(Op(n).in, w) EXCEPT !.cs[n].limit = -1, !.cs[n].pulled = 0]
ResetUnwind(n, w) == [Reset(Op(n).in, w) EXCEPT !.cs[n].list = <<>>, !.cs[n].lpos = 1]
(* Mutant: pull_input_ is left as it was.                                 *)
ResetOptionalKeepsPullInput(n, w) == Reset(Op(n).opt, Reset(Op(n).in, w))
ResetOptional(n, w) ==
    [Reset(Op(n).opt, Reset(Op(n).in, w)) EXCEPT !.cs[n].pull_input = TRUE]
ResetMerge(n, w) ==
    [Reset(Op(n).create, Reset(Op(n).match, Reset(Op(n).in, w)))
        EXCEPT !.cs[n].pull_input = TRUE]
ResetDistinct(n, w) == [Reset(Op(n).in, w) EXCEPT !.cs[n].seen = {}]
ResetCartesian(n, w) ==
    [Reset(Op(n).r, Reset(Op(n).l, w))
        EXCEPT !.cs[n].right = NullFrame, !.cs[n].left = <<>>,
               !.cs[n].lit = 1, !.cs[n].init = FALSE]
(* DistributedCreateNodeCursor::Reset() is empty: the input is not reset. *)
ResetCreateNode(n, w) == w
ResetForeach(n, w) == Reset(Op(n).upd, Reset(Op(n).in, w))
ResetOrderBy(n, w) ==
    [Reset(Op(n).in, w) EXCEPT !.cs[n].pulled_all = FALSE, !.cs[n].cache = <<>>,
                               !.cs[n].cit = 1]
ResetExpand(n, w) ==
    [Reset(Op(n).in, w) EXCEPT !.cs[n].ins = <<>>, !.cs[n].outs = <<>>,
                               !.cs[n].iit = 1, !.cs[n].oit = 1]
ResetAggregate(n, w) ==
    [Reset(Op(n).in, w) EXCEPT !.cs[n].cache = <<>>, !.cs[n].cit = 1,
                               !.cs[n].pulled_all = FALSE]

ResetOutputTable(n, w) ==
    [w EXCEPT !.cs[n].tpulled = FALSE, !.cs[n].row = 0, !.cs[n].rows = <<>>]
(* LoadCsvCursor::Reset resets the input only: reader_ keeps its place.  *)
ResetLoadCsv(n, w) == Reset(Op(n).in, w)

Reset(n, w) ==
    CASE Op(n).kind = "Once" -> ResetOnce(n, w)
      [] Op(n).kind = "OutputTable" -> ResetOutputTable(n, w)
      [] Op(n).kind = "LoadCsv" -> ResetLoadCsv(n, w)
      [] Op(n).kind = "ScanAll" -> ResetScanAll(n, w)
      [] Op(n).kind \in {"Filter", "Produce"} -> Reset(Op(n).in, w)
      [] Op(n).kind = "Skip" -> ResetSkip(n, w)
      [] Op(n).kind = "Limit" -> ResetLimit(n, w)
      [] Op(n).kind = "Unwind" -> ResetUnwind(n, w)
      [] Op(n).kind = "Optional" -> ResetOptional(n, w)
      [] Op(n).kind = "Merge" -> ResetMerge(n, w)
      [] Op(n).kind = "Distinct" -> ResetDistinct(n, w)
      [] Op(n).kind = "Union" -> Reset(Op(n).r, Reset(Op(n).l, w))
      [] Op(n).kind = "Cartesian" -> ResetCartesian(n, w)
      [] Op(n).kind = "CreateNode" -> ResetCreateNode(n, w)
      [] Op(n).kind = "Foreach" -> ResetForeach(n, w)
      [] Op(n).kind = "OrderBy" -> ResetOrderBy(n, w)
      [] Op(n).kind = "Aggregate" -> ResetAggregate(n, w)
      [] Op(n).kind = "Expand" -> ResetExpand(n, w)
      [] Op(n).kind \in {"EdgeUniquenessFilter", "CreateExpand"} -> Reset(Op(n).in, w)

(***************************************************************************)
(* PullMultiple: a cursor fills the invalid frames of a MultiFrame, a     *)
(* sequence of FramesInMultiframe frames each with a validity flag.  The  *)
(* MultiFrame being filled is w.mf.  Only Once, ScanAll, Produce,         *)
(* CreateNode and CreateExpand implement PullMultiple.                    *)
(***************************************************************************)
InvalidMultiFrame == [i \in 1..FramesInMultiframe |-> [valid |-> FALSE, f |-> NullFrame]]

(* The indices of the valid frames, in order (GetValidFramesConsumer).    *)
ValidSlots(m) == SelectSeq([i \in 1..Len(m) |-> i], LAMBDA i : m[i].valid)

RECURSIVE PullMultiple(_, _), PrepareNextFrames(_, _), FillFrames(_, _, _),
          ScanPullMultipleLoop(_, _)

(* Once: the first frame is made valid on the first call only.            *)
PullMultipleOnce(n, w) ==
    IF w.cs[n].did_pull THEN w
    ELSE [w EXCEPT !.mf[1].valid = TRUE, !.cs[n].did_pull = TRUE]

(* The scan pulls its input into its own MultiFrame, takes a consumer of  *)
(* its valid frames and sends one ScanVertices request for all of them.   *)
PrepareNextFrames(n, w) ==
    LET wi == PullMultiple(Op(n).in, [w EXCEPT !.mf = w.cs[n].own])
        own == wi.mf
        wm == MakeRequest(n, [wi EXCEPT !.mf = w.mf, !.cs[n].own = own,
                                        !.cs[n].vf = ValidSlots(own), !.cs[n].vit = 1])
    IN [wm EXCEPT !.cs[n].has_next = wm.cs[n].batch /= <<>> /\ ValidSlots(own) /= <<>>]

(* GetNextFrame: a copy of the current input frame with the current       *)
(* vertex; past the batch's end the input frame is invalidated and the    *)
(* next one taken, or the next input frames prepared.                     *)
NextFrame(n, w) ==
    LET c == w.cs[n] IN
    [valid |-> TRUE, f |-> [c.own[c.vf[c.vit]].f EXCEPT ![Op(n).sym] = c.batch[c.pos]]]

AdvanceFrame(n, w) ==
    LET c == w.cs[n]
        w1 == [w EXCEPT !.cs[n].pos = c.pos + 1]
        w2 == [w1 EXCEPT !.cs[n].own[c.vf[c.vit]].valid = FALSE, !.cs[n].vit = c.vit + 1]
    IN IF c.pos + 1 <= Len(c.batch) THEN w1
       ELSE IF c.vit + 1 > Len(c.vf) THEN PrepareNextFrames(n, w2)
       ELSE [w2 EXCEPT !.cs[n].pos = 1]

(* One pass of the invalid frames populator, from frame i on.             *)
FillFrames(n, w, i) ==
    IF i > Len(w.mf) \/ ~w.cs[n].has_next THEN w
    ELSE IF w.mf[i].valid THEN FillFrames(n, w, i + 1)
    ELSE FillFrames(n, [AdvanceFrame(n, w) EXCEPT !.mf[i] = NextFrame(n, w)], i + 1)

(* The while loop returns after a pass that modified no frame.            *)
ScanPullMultipleLoop(n, w) ==
    IF w.cs[n].has_next /\ \E i \in 1..Len(w.mf) : ~w.mf[i].valid
    THEN ScanPullMultipleLoop(n, FillFrames(n, w, 1))
    ELSE w

(* own_multi_frames_ is made, and the first frames prepared, on the first *)
(* call only.                                                             *)
PullMultipleScanAll(n, w) ==
    ScanPullMultipleLoop(n,
        IF w.cs[n].own = <<>>
        THEN PrepareNextFrames(n, [w EXCEPT !.cs[n].own = InvalidMultiFrame])
        ELSE w)

(* NodeCreationInfoToRequests: one vertex per valid frame; its key is     *)
(* appended to primary_keys_ (here the vertex's index in the graph).      *)
NodeCreationInfoToRequests(n, w) ==
    LET vs == ValidSlots(w.mf) IN
    [w EXCEPT !.db.v = @ \o [j \in 1..Len(vs) |->
                               [label |-> Op(n).label, key |-> w.mf[vs[j]].f[Op(n).keysym]]],
              !.cs[n].keys = @ \o [j \in 1..Len(vs) |-> Len(w.db.v) + j]]

(* PlaceNodesOnTheMultiFrame: MG_ASSERT that a valid frame exists; the    *)
(* j-th valid frame gets the vertex of primary_keys_[j], counted from the *)
(* start of primary_keys_ on every call.                                   *)
PlaceNodesOnTheMultiFrame(n, w) ==
    LET vs == ValidSlots(w.mf) IN
    IF vs = <<>> THEN [w EXCEPT !.assert_failed = TRUE]
    ELSE [w EXCEPT !.mf = [i \in DOMAIN w.mf |->
              IF \E j \in 1..Len(vs) : vs[j] = i
              THEN [w.mf[i] EXCEPT !.f[Op(n).sym] =
                        w.cs[n].keys[CHOOSE j \in 1..Len(vs) : vs[j] = i]]
              ELSE w.mf[i]]]

PullMultipleCreateNode(n, w) ==
    PlaceNodesOnTheMultiFrame(n, NodeCreationInfoToRequests(n, PullMultiple(Op(n).in, w)))

(* ExpandCreationInfoToRequests: one edge per valid frame, between the    *)
(* input vertex and the existing node; nothing is written to the frames.  *)
ExpandCreationInfoToRequests(n, w) ==
    LET vs == ValidSlots(w.mf)
        Edge(f) == IF Op(n).dir = "out" THEN [from |-> f[Op(n).insym], to |-> f[Op(n).node]]
                   ELSE [from |-> f[Op(n).node], to |-> f[Op(n).insym]]
    IN [w EXCEPT !.db.e = @ \o [j \in 1..Len(vs) |-> Edge(w.mf[vs[j]].f)]]

PullMultipleCreateExpand(n, w) == ExpandCreationInfoToRequests(n, PullMultiple(Op(n).in, w))

PullMultiple(n, w) ==
    CASE Op(n).kind = "Once" -> PullMultipleOnce(n, w)
      [] Op(n).kind = "ScanAll" -> PullMultipleScanAll(n, w)
      [] Op(n).kind = "Produce" -> PullMultiple(Op(n).in, w)
      [] Op(n).kind = "CreateNode" -> PullMultipleCreateNode(n, w)
      [] Op(n).kind = "CreateExpand" -> PullMultipleCreateExpand(n, w)

(***************************************************************************)
(* Reference semantics: what a plan means, row by row.  Ref(n, f, g)      *)
(* is the sequence of frames operator n yields when its leaf Once starts   *)
(* from frame f on graph g, with the graph it leaves behind.  It is       *)
(* defined by the operators' documented meaning, not by their cursors.    *)
(***************************************************************************)
(* A pattern (a)-[e]-(b) from a bound vertex a: every incident edge in   *)
(* the direction with b its other end, a loop once; when b is bound, only *)
(* the edges that reach it.  In-edges come first, as ExpandOne returns    *)
(* them.                                                                  *)
RefExpand(n, r, g) ==
    LET a == r[Op(n).insym]
        ids == [i \in 1..Len(g.e) |-> EdgeBase + i]
        ins == SelectSeq(ids, LAMBDA e : Op(n).dir /= "out" /\ To(e, g) = a)
        outs == SelectSeq(ids, LAMBDA e : /\ Op(n).dir /= "in" /\ From(e, g) = a
                                          /\ ~(Op(n).dir = "both" /\ To(e, g) = a))
        pairs == [i \in 1..Len(ins) |-> <<ins[i], From(ins[i], g)>>]
                 \o [i \in 1..Len(outs) |-> <<outs[i], To(outs[i], g)>>]
        ok == SelectSeq(pairs, LAMBDA p : ~Op(n).existing \/ p[2] = r[Op(n).node])
    IN [i \in 1..Len(ok) |-> [r EXCEPT ![Op(n).edge] = ok[i][1], ![Op(n).node] = ok[i][2]]]

Result(rows, g) == [rows |-> rows, db |-> g]

RECURSIVE Ref(_, _, _), RefRow(_, _, _), EachRow(_, _, _, _), RefForeach(_, _, _, _)

(* Apply the row-wise meaning of operator n to every input row in order. *)
EachRow(n, rs, i, acc) ==
    IF i > Len(rs) THEN acc
    ELSE LET o == RefRow(n, rs[i], acc.db) IN
         EachRow(n, rs, i + 1, Result(acc.rows \o o.rows, o.db))

RefRow(n, r, g) ==
    CASE Op(n).kind = "ScanAll" ->
            LET vs == ScanVertices(Op(n).label, g) IN
            Result([i \in 1..Len(vs) |-> [r EXCEPT ![Op(n).sym] = vs[i]]], g)
      [] Op(n).kind = "Filter" ->
            Result(IF RefFilter(Op(n).pred, r, g) THEN <<r>> ELSE <<>>, g)
      [] Op(n).kind = "Unwind" ->
            Result([i \in 1..Len(Op(n).vals) |-> [r EXCEPT ![Op(n).sym] = Op(n).vals[i]]], g)
      [] Op(n).kind = "Optional" ->
            LET o == Ref(Op(n).opt, r, g) IN
            IF o.rows /= <<>> THEN o
            ELSE Result(<<[s \in Syms |-> IF s \in Op(n).syms THEN Null ELSE r[s]]>>, o.db)
      [] Op(n).kind = "Merge" ->
            LET m == Ref(Op(n).match, r, g) IN
            IF m.rows /= <<>> THEN m ELSE Ref(Op(n).create, r, m.db)
      [] Op(n).kind = "CreateNode" ->
            Result(<<[r EXCEPT ![Op(n).sym] = Len(g.v) + 1]>>,
                   [g EXCEPT !.v = Append(@, [label |-> Op(n).label, key |-> r[Op(n).keysym]])])
      [] Op(n).kind = "Expand" ->
            Result(IF r[Op(n).insym] = Null THEN <<>> ELSE RefExpand(n, r, g), g)
      [] Op(n).kind = "EdgeUniquenessFilter" ->
            Result(IF \A p \in Op(n).previous : r[p] /= r[Op(n).expand] THEN <<r>> ELSE <<>>, g)
      [] Op(n).kind = "CreateExpand" ->
            LET v1 == r[Op(n).insym]
                v2 == r[Op(n).node]
            IN Result(<<[r EXCEPT ![Op(n).edge] = EdgeBase + Len(g.e) + 1]>>,
                      [g EXCEPT !.e = Append(@, IF Op(n).dir = "out"
                                                THEN [from |-> v1, to |-> v2]
                                                ELSE [from |-> v2, to |-> v1])])
      [] Op(n).kind = "Foreach" ->
            Result(<<IF Op(n).vals = <<>> THEN r
                     ELSE [r EXCEPT ![Op(n).sym] = Op(n).vals[Len(Op(n).vals)]]>>,
                   RefForeach(n, r, 1, g))

(* The graph after the update clauses ran once for every list element.   *)
RefForeach(n, r, i, g) ==
    IF i > Len(Op(n).vals) THEN g
    ELSE RefForeach(n, r, i + 1,
                    Ref(Op(n).upd, [r EXCEPT ![Op(n).sym] = Op(n).vals[i]], g).db)

(* Keep the rows whose projection on syms did not occur earlier.          *)
FirstOccurrences(syms, rs) ==
    LET keep == SelectSeq([i \in 1..Len(rs) |-> i],
                          LAMBDA i : \A j \in 1..(i - 1) :
                                        Project(syms, rs[j]) /= Project(syms, rs[i]))
    IN [k \in 1..Len(keep) |-> rs[keep[k]]]

(* What an aggregation element means over the rows of one group.        *)
AggValue(e, G) ==
    LET xs == SelectSeq([i \in 1..Len(G) |-> IF e.sym = "*" THEN 1 ELSE G[i][e.sym]],
                        LAMBDA v : v /= Null)
    IN IF e.op = "count" THEN Len(xs)
       ELSE IF xs = <<>> THEN Null
       ELSE CASE e.op = "sum" -> FoldSeq(LAMBDA a, b : a + b, 0, xs)
              [] e.op = "min" -> Min(ToSet(xs))
              [] e.op = "max" -> Max(ToSet(xs))

(* One row per group of equal group-by values, in first-occurrence order; *)
(* the remembered values are the group's first row's.                    *)
RefAggregate(n, f, rs) ==
    LET aggs == Op(n).aggs
        firsts == FirstOccurrences(Op(n).group_by, rs)
        Group(r0) == SelectSeq(rs, LAMBDA r : Project(Op(n).group_by, r)
                                               = Project(Op(n).group_by, r0))
    IN IF rs = <<>> /\ Op(n).group_by = <<>>
       THEN <<PlaceAggregation(n, f, [j \in 1..Len(aggs) |-> AggValue(aggs[j], <<>>)],
                               [j \in 1..Len(Op(n).remember) |-> Null])>>
       ELSE [k \in 1..Len(firsts) |->
               PlaceAggregation(n, firsts[k],
                                [j \in 1..Len(aggs) |-> AggValue(aggs[j], Group(firsts[k]))],
                                Project(Op(n).remember, firsts[k]))]

UnionRow(m, f) == [s \in Syms |-> IF s \in DOMAIN m THEN f[m[s]] ELSE f[s]]

Ref(n, f, g) ==
    CASE Op(n).kind = "Once" -> Result(<<f>>, g)
      [] Op(n).kind = "OutputTable" ->
            LET syms == Op(n).syms IN
            Result([k \in DOMAIN Op(n).rows |->
                      [s \in Syms |-> IF s \in ToSet(syms)
                                      THEN Op(n).rows[k][CHOOSE i \in DOMAIN syms : syms[i] = s]
                                      ELSE f[s]]], g)
      \* LOAD CSV after Once reads the whole file; after another input it
      \* reads one row per input row, "at most cardinality(n) rows".
      [] Op(n).kind = "LoadCsv" ->
            LET ri == Ref(Op(n).in, f, g)
                once == Op(Op(n).in).kind = "Once"
                m == IF once THEN Len(Op(n).file.rows)
                     ELSE Min({Len(ri.rows), Len(Op(n).file.rows)})
            IN Result([k \in 1..m |-> [ri.rows[IF once THEN 1 ELSE k]
                                          EXCEPT ![Op(n).sym] = CsvBase + k]], ri.db)
      [] Op(n).kind \in {"ScanAll", "Filter", "Unwind", "Optional", "Merge",
                        "CreateNode", "Foreach", "Expand", "EdgeUniquenessFilter",
                        "CreateExpand"} ->
            LET ri == Ref(Op(n).in, f, g) IN
            EachRow(n, ri.rows, 1, Result(<<>>, ri.db))
      [] Op(n).kind = "Produce" -> Ref(Op(n).in, f, g)
      [] Op(n).kind = "OrderBy" ->
            LET ri == Ref(Op(n).in, f, g) IN
            Result(SortSeq(ri.rows, LAMBDA x, y :
                             VectorLess(Project(Op(n).by, x), Project(Op(n).by, y),
                                        Op(n).dirs, 1)), ri.db)
      [] Op(n).kind = "Aggregate" ->
            LET ri == Ref(Op(n).in, f, g) IN
            Result(RefAggregate(n, f, ri.rows), ri.db)
      [] Op(n).kind = "Distinct" ->
            LET ri == Ref(Op(n).in, f, g) IN
            Result(FirstOccurrences(Op(n).syms, ri.rows), ri.db)
      [] Op(n).kind = "Union" ->
            LET rl == Ref(Op(n).l, f, g)
                rr == Ref(Op(n).r, f, rl.db)
            IN Result([i \in 1..Len(rl.rows) |-> UnionRow(Op(n).map_l, rl.rows[i])]
                      \o [i \in 1..Len(rr.rows) |-> UnionRow(Op(n).map_r, rr.rows[i])],
                      rr.db)
      [] Op(n).kind = "Cartesian" ->
            LET rl == Ref(Op(n).l, f, g)
                rr == Ref(Op(n).r, f, rl.db)
                nl == Len(rl.rows)
            IN IF nl = 0 THEN rl
               ELSE Result([k \in 1..(Len(rr.rows) * nl) |->
                              RestoreFrame(Op(n).lsyms, rr.rows[((k - 1) \div nl) + 1],
                                           rl.rows[((k - 1) % nl) + 1])],
                           rr.db)
      [] Op(n).kind = "Skip" ->
            LET ri == Ref(Op(n).in, f, g) IN
            Result(SubSeq(ri.rows, Op(n).count + 1, Len(ri.rows)), ri.db)
      [] Op(n).kind = "Limit" ->
            LET ri == Ref(Op(n).in, f, g) IN
            Result(SubSeq(ri.rows, 1, IF Op(n).count < Len(ri.rows)
                                      THEN Op(n).count ELSE Len(ri.rows)), ri.db)

(* The root is a Produce; a row is the values of its named expressions.  *)
Row(f) == [i \in 1..Len(Op(plan.root).syms) |-> f[Op(plan.root).syms[i]]]
Expected == Ref(plan.root, NullFrame, db0)

(***************************************************************************)
(* The caller: it pulls the root until it returns false, and may reset    *)
(* the tree (as Optional, Merge and Foreach reset their inner subtrees).  *)
(***************************************************************************)
World == [cs |-> cs, frame |-> frame, db |-> db, ok |-> TRUE,
          merge_failed |-> merge_failed, mf |-> mf, assert_failed |-> assert_failed]

Init ==
    /\ plan \in Plans \cup MultiPlans
    /\ cs = [n \in DOMAIN plan.ops |-> InitCursor]
    /\ frame = NullFrame
    /\ db \in Graphs
    /\ db0 = db
    /\ out = <<>>
    /\ done = FALSE
    /\ late = 0
    /\ resets = 0
    /\ merge_failed = FALSE
    /\ mode \in {m \in {"single", "multi"} : plan \in IF m = "single" THEN Plans ELSE MultiPlans}
    /\ mf = InvalidMultiFrame
    /\ assert_failed = FALSE

PullRoot ==
    /\ mode = "single"
    /\ late < MaxLatePulls
    /\ LET w == Pull(plan.root, World) IN
       /\ cs' = w.cs
       /\ frame' = w.frame
       /\ db' = w.db
       /\ merge_failed' = w.merge_failed
       /\ out' = IF w.ok THEN Append(out, Row(w.frame)) ELSE out
       /\ done' = ~w.ok
       /\ late' = IF done THEN late + 1 ELSE late
    /\ UNCHANGED <<plan, db0, resets, mode, mf, assert_failed>>

(* The caller in mode "multi": it reads and invalidates every frame of    *)
(* its MultiFrame, calls the root's PullMultiple and takes a row from     *)
(* each valid frame, until a call leaves no frame valid.  After a failed  *)
(* MG_ASSERT the process is gone and nothing more happens.                *)
PullMultipleRoot ==
    /\ mode = "multi"
    /\ ~assert_failed
    /\ late < MaxLatePulls
    /\ LET w == PullMultiple(plan.root,
                    [World EXCEPT !.mf = [i \in DOMAIN mf |-> [mf[i] EXCEPT !.valid = FALSE]]])
           vs == ValidSlots(w.mf)
       IN /\ cs' = w.cs
          /\ db' = w.db
          /\ mf' = w.mf
          /\ assert_failed' = w.assert_failed
          /\ out' = out \o [j \in 1..Len(vs) |-> Row(w.mf[vs[j]].f)]
          /\ done' = (vs = <<>> /\ ~w.assert_failed)
          /\ late' = IF done THEN late + 1 ELSE late
    /\ UNCHANGED <<plan, frame, db0, resets, merge_failed, mode>>

(* The caller resets the root, as Merge, Optional, Cartesian and Foreach  *)
(* reset their branches.  Only plans in ResettablePlans are reset: a plan  *)
(* with a CreateNode is not rewound by Reset (DistributedCreateNodeCursor  *)
(* ::Reset is empty), which the Merge and Foreach runs show.  The caller   *)
(* in mode "multi" does not reset: ScanAll's Reset leaves                  *)
(* own_multi_frames_, its consumer and has_next_frame_ as they are.        *)
ResetRoot ==
    /\ mode = "single"
    /\ plan \in ResettablePlans
    /\ resets < MaxResets
    /\ LET w == Reset(plan.root, World) IN
       /\ cs' = w.cs
       /\ frame' = w.frame
       /\ db' = w.db
    /\ db0' = db
    /\ out' = <<>>
    /\ done' = FALSE
    /\ late' = 0
    /\ resets' = resets + 1
    /\ UNCHANGED <<plan, merge_failed, mode, mf, assert_failed>>

Next == PullRoot \/ PullMultipleRoot \/ ResetRoot

Spec == Init /\ [][Next]_vars

(***************************************************************************)
(* Properties.                                                             *)
(***************************************************************************)
TypeOK ==
    /\ plan \in Plans \cup MultiPlans
    /\ DOMAIN cs = DOMAIN plan.ops
    \* every iterator of a cursor lies in [begin, end]
    /\ \A n \in DOMAIN cs :
          /\ cs[n].pos \in 1..(Len(cs[n].batch) + 1)
          /\ cs[n].lpos \in 1..(Len(cs[n].list) + 1)
          /\ cs[n].lit \in 1..(Len(cs[n].left) + 1)
          /\ cs[n].state \in {"initializing", "completed"}
    /\ frame \in [Syms -> Nat]
    /\ done \in BOOLEAN /\ merge_failed \in BOOLEAN
    /\ late \in 0..MaxLatePulls /\ resets \in 0..MaxResets
    /\ mode \in {"single", "multi"} /\ assert_failed \in BOOLEAN
    /\ mf \in Seq([valid : BOOLEAN, f : [Syms -> Nat]]) /\ Len(mf) = FramesInMultiframe

(* The rows the root has returned since it was made or reset are a prefix *)
(* of what the plan means on the graph at that time, and once the root    *)
(* returns false they are all of it and the graph is what the plan's      *)
(* writes make of it.  This is the contract every cursor's Pull and Reset *)
(* must keep, through every loop, early return and reset in the code.     *)
OutputMatchesReference ==
    LET e == Expected
        rows == [i \in 1..Len(e.rows) |-> Row(e.rows[i])]
    IN /\ IsPrefix(out, rows)
       /\ done => (out = rows /\ db = e.db)

(* Reset() returns every cursor of the tree to the state it was made in, *)
(* so a reset subtree (Optional and Merge reset theirs for every input   *)
(* row, Foreach for every list element) starts over: no iterator, batch, *)
(* counter, seen-set or collected frame survives it.                     *)
ResetRewindsEveryCursor ==
    [][resets' /= resets => cs' = [n \in DOMAIN plan.ops |-> InitCursor]]_vars

(* The assertions of the cursors hold: Merge::MergeCursor::Pull asserts   *)
(* that a MergeCreate pull never fails (DMG_ASSERT "MergeCreate must      *)
(* never fail") when a fresh input row has no match, and                  *)
(* PlaceNodesOnTheMultiFrame asserts (MG_ASSERT) that the MultiFrame      *)
(* CreateNode's input filled holds a valid frame.                         *)
CursorAssertionsHold == ~merge_failed /\ ~assert_failed

=============================================================================
