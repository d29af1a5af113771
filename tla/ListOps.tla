------------------------------- MODULE ListOps -------------------------------
(***************************************************************************)
(* The list-op subsystem: scatter_list and gather_list executed as nodes   *)
(* of one graph pass over a shared VariableSpace.                           *)
(*                                                                         *)
(*   scatter_list  src/libnd4j/include/ops/declarable/generic/list/        *)
(*                 scatter_list.cpp                                        *)
(*   gather_list   src/libnd4j/include/ops/declarable/generic/list/        *)
(*                 gather_list.cpp                                         *)
(*                                                                         *)
(* NDArrayList and VariableSpace are not under src/: their behaviour is    *)
(* taken from spec.md (sections 3, 4.1 and 4.4).  The executioner runs the *)
(* nodes one at a time and stops at the first failing node (spec 4.3), so  *)
(* every op invocation is one atomic step; the loops inside an op are      *)
(* RECURSIVE operators that keep their early returns.                      *)
(*                                                                         *)
(* Data abstraction.  An array given to scatter_list has shape [N, E, ...]: *)
(* it is the record [n |-> N, e |-> E]; its e-th TAD along dimension 0 has  *)
(* leading extent E and is the sequence of its E leading slices, each a    *)
(* distinct tuple, so that a result can be compared with what was written. *)
(* An index vector is [vec |-> isVector, vals |-> its elements].  List     *)
(* slots and index values are 0-based, as in the code.                     *)
(***************************************************************************)
EXTENDS Integers, Sequences, FiniteSets, SequencesExt

CONSTANTS
  MaxNodes,     \* nodes executed by the graph pass
  MaxRows,      \* largest leading extent N of an array given to scatter_list
  MaxExtent,    \* largest leading extent E of one TAD of that array
  IndexValues,  \* values an element of an index vector may hold
  ListHeight,   \* declared height of the graph-level list variable
  Implicit      \* scatter_list called with two inputs (no list input)

ASSUME MaxNodes \in Nat \ {0} /\ MaxRows \in Nat \ {0} /\ MaxExtent \in Nat \ {0}
ASSUME IndexValues \subseteq Int /\ ListHeight \in Nat

\* Variable (and list) id of the graph-level list; node k's output is id k.
GraphList == 0

VARIABLES
  space,    \* VariableSpace: variable id -> bound value
  lists,    \* NDArrayList objects: list id -> [height, chunks]
  tracked,  \* lists registered with block.trackList, released at teardown
  log       \* history: one record per executed node, in execution order

vars == <<space, lists, tracked, log>>

Arrays == [n : 1..MaxRows, e : 1..MaxExtent]
IndexVectors ==
  [vec : {TRUE}, vals : UNION {[1..k -> IndexValues] : k \in 1..MaxRows}]
    \cup {[vec |-> FALSE, vals |-> <<0>>]}

\* TAD e (1-based) of array a along dimension 0: its a.e leading slices.
TAD(a, e) == [j \in 1..a.e |-> <<a.n, a.e, e, j>>]
\* All rows of array a, in order.
Rows(a) == FlattenSeq([e \in 1..a.n |-> TAD(a, e)])

ListVal(l) == [kind |-> "list", id |-> l, rows |-> <<>>]
ArrayVal(rows) == [kind |-> "array", id |-> -1, rows |-> rows]

-----------------------------------------------------------------------------
(* NDArrayList (spec 3, 4.4): a fixed-height, sparsely written sequence of *)
(* slots.  height() is the number of slots written; a write outside the    *)
(* declared height fails; a read of an unwritten slot fails.               *)

NewList(h) == [height |-> h, chunks |-> <<>>]
Height(l) == Cardinality(DOMAIN l.chunks)
\* Variant of WriteOk without the lower bound.
WriteOkNoLowerBound(l, idx) == idx < l.height
WriteOk(l, idx) == 0 <= idx /\ idx < l.height
Write(l, idx, arr) == [l EXCEPT !.chunks = (idx :> arr) @@ @]

-----------------------------------------------------------------------------
(* scatter_list, the loop of lines 37-46 over the TAD set allocated at    *)
(* line 36: TAD e goes to slot idx[e]; an index not below the number of    *)
(* TADs returns BAD_ARGUMENTS, a failed write returns its status; slots    *)
(* written before either stay written.  Both returns skip "delete tads"    *)
(* (line 52); a failed write also drops the copy dup'ed at line 42, which  *)
(* the list did not take.  leaked: the temporaries left unreleased.        *)
RECURSIVE ScatterLoop(_, _, _, _)
ScatterLoop(l, a, idx, e) ==
  CASE e > a.n             -> [list |-> l, status |-> "Ok", leaked |-> {}]
    [] idx[e] >= a.n       -> [list |-> l, status |-> "BadArguments", leaked |-> {"tads"}]
    [] ~WriteOk(l, idx[e]) -> [list |-> l, status |-> "BadArguments",
                               leaked |-> {"tads", "dup"}]
    [] OTHER -> ScatterLoop(Write(l, idx[e], TAD(a, e)), a, idx, e + 1)

\* Lines 32-46: the two REQUIRE_TRUE checks, before anything is allocated,
\* then the loop.
ScatterBody(l, a, ind) ==
  IF ~ind.vec \/ Len(ind.vals) # a.n
    THEN [list |-> l, status |-> "ValidationFailed", leaked |-> {}]
    ELSE ScatterLoop(l, a, ind.vals, 1)

(* gather_list, lines 20-30: the result's leading extent is the sum of the *)
(* extents of slots 0 .. height-1, read in slot order.                     *)
GatherTotal(l) ==
  IF \A s \in 0..Height(l) - 1 : s \in DOMAIN l.chunks
    THEN [ok |-> TRUE,
          total |-> SumFunction([s \in 0..Height(l) - 1 |-> Len(l.chunks[s])])]
    ELSE [ok |-> FALSE, total |-> 0]

(* Lines 33-51: slot idx[k] is copied at rows skip .. skip+extent of the    *)
(* result; nothing checks that this interval lies inside the result.       *)
RECURSIVE GatherCopy(_, _, _, _, _)
GatherCopy(l, idx, k, skip, total) ==
  IF k > Len(idx) THEN [status |-> "Ok", overrun |-> FALSE]
  ELSE IF idx[k] \notin DOMAIN l.chunks
    THEN [status |-> "ReadFailed", overrun |-> FALSE]
  ELSE LET ext  == Len(l.chunks[idx[k]])
           rest == GatherCopy(l, idx, k + 1, skip + ext, total)
       IN  [rest EXCEPT !.overrun = @ \/ skip + ext > total]

\* Variant of Gathered that copies slots in slot order, not index order.
GatheredInSlotOrder(l, idx) == FlattenSeq([k \in 1..Len(idx) |-> l.chunks[k - 1]])

\* The rows a gather of idx copies, in order.
Gathered(l, idx) == FlattenSeq([k \in 1..Len(idx) |-> l.chunks[idx[k]]])

\* A row of the zero-filled result (line 32) that no copy reached.
ZeroRow == <<0, 0, 0, 0>>

\* The result's total rows: the copied rows that fit, then zero rows.
GatherResult(l, idx, total) ==
  LET g == Gathered(l, idx)
  IN  [r \in 1..total |-> IF r <= Len(g) THEN g[r] ELSE ZeroRow]

-----------------------------------------------------------------------------
(* The executioner (spec 4.3): nodes run in order and the pass stops at   *)
(* the first node whose status is not Ok.                                  *)
Running ==
  /\ Len(log) < MaxNodes
  /\ \A k \in 1..Len(log) : log[k].status = "Ok"

NodeId == Len(log) + 1

Record(op, ref, a, ind, lid, st, ov, lk) ==
  [op |-> op, ref |-> ref, arr |-> a, ind |-> ind, list |-> lid,
   status |-> st, overrun |-> ov, leaked |-> lk]

\* Variables a list input may name: the graph list and earlier scatter nodes.
ListRefs == {GraphList} \cup {k \in 1..Len(log) : log[k].op = "scatter"}

(* VariableSpace.get of an unbound variable fails with NotFound (spec     *)
(* 4.1) and the node fails without running its op.                         *)
InputNotFound(op, ref) ==
  /\ Running
  /\ ref \notin DOMAIN space
  /\ log' = Append(log, Record(op, ref, [n |-> 0, e |-> 0], [vec |-> FALSE, vals |-> <<>>],
                              -1, "NotFound", FALSE, {}))
  /\ UNCHANGED <<space, lists, tracked>>

(* scatter_list with three inputs (lines 20-24): the list comes from the   *)
(* VariableSpace and is written in place.  The node binds no output.       *)
ScatterExplicit(ref, a, ind) ==
  /\ Running
  /\ ref \in DOMAIN space
  /\ LET lid == space[ref].id
         res == ScatterBody(lists[lid], a, ind)
     IN  /\ lists' = [lists EXCEPT ![lid] = res.list]
         /\ log' = Append(log, Record("scatter", ref, a, ind, lid, res.status, FALSE, res.leaked))
  /\ UNCHANGED <<space, tracked>>

(* scatter_list with two inputs (lines 25-30): a new list of height        *)
(* indices->lengthOf() is created and tracked, then written.  Lines 48-50  *)
(* publish it as the node's output only when list == nullptr, but list is  *)
(* the object created at line 28: the output is never bound.               *)
ScatterImplicit(a, ind) ==
  /\ Running
  /\ LET res == ScatterBody(NewList(Len(ind.vals)), a, ind)
     IN  /\ lists' = lists @@ (NodeId :> res.list)
         /\ tracked' = tracked \cup {NodeId}
         /\ log' = Append(log, Record("scatter", Implicit, a, ind, NodeId, res.status, FALSE,
                                       res.leaked))
  /\ UNCHANGED space

(* gather_list (lines 13-57): the three REQUIRE_TRUE checks, the shape     *)
(* loop, the copy loop, and OVERWRITE_RESULT of the new array.  A failed   *)
(* read in the copy loop returns with the result of line 32 unreleased.    *)
(* A copy past the end of the result is undefined behaviour: the build     *)
(* either crashes or returns Ok with the result's own rows; both happen.   *)
GatherList(ref, ind) ==
  /\ Running
  /\ ref \in DOMAIN space
  /\ LET lid == space[ref].id
         l   == lists[lid]
         tot == GatherTotal(l)
         cp  == GatherCopy(l, ind.vals, 1, 0, tot.total)
         out == GatherResult(l, ind.vals, tot.total)
     IN  CASE ~ind.vec \/ Height(l) = 0 \/ Height(l) # Len(ind.vals) ->
                /\ log' = Append(log, Record("gather", ref, [n |-> 0, e |-> 0], ind, lid,
                                             "ValidationFailed", FALSE, {}))
                /\ UNCHANGED space
           [] ~tot.ok \/ cp.status # "Ok" ->
                /\ log' = Append(log, Record("gather", ref, [n |-> 0, e |-> 0], ind, lid,
                                             "ReadFailed", tot.ok /\ cp.overrun,
                                             IF tot.ok THEN {"result"} ELSE {}))
                /\ UNCHANGED space
           [] OTHER ->
                \E st \in IF cp.overrun THEN {"Ok", "Crashed"} ELSE {"Ok"} :
                  /\ log' = Append(log, Record("gather", ref, [n |-> 0, e |-> 0], ind, lid,
                                               st, cp.overrun, {}))
                  /\ space' = IF st = "Ok" THEN space @@ (NodeId :> ArrayVal(out))
                                           ELSE space
  /\ UNCHANGED <<lists, tracked>>

-----------------------------------------------------------------------------
(* Initially the VariableSpace holds the graph-level list, empty, of its   *)
(* declared height, as created by the graph before the pass.               *)
Init ==
  /\ space = (GraphList :> ListVal(GraphList))
  /\ lists = (GraphList :> NewList(ListHeight))
  /\ tracked = {}
  /\ log = <<>>

Next ==
  \/ \E ref \in ListRefs, a \in Arrays, ind \in IndexVectors :
       ScatterExplicit(ref, a, ind)
  \/ \E a \in Arrays, ind \in IndexVectors : ScatterImplicit(a, ind)
  \/ \E ref \in ListRefs, ind \in IndexVectors : GatherList(ref, ind)
  \/ \E ref \in ListRefs, op \in {"scatter", "gather"} : InputNotFound(op, ref)

Spec == Init /\ [][Next]_vars

-----------------------------------------------------------------------------
(* Properties                                                              *)

TypeOK ==
  /\ log \in Seq([op : {"scatter", "gather"}, ref : Nat \cup {Implicit},
                  arr : Arrays \cup {[n |-> 0, e |-> 0]},
                  ind : IndexVectors \cup {[vec |-> FALSE, vals |-> <<>>]},
                  list : {-1} \cup 0..MaxNodes,
                  status : {"Ok", "BadArguments", "ValidationFailed", "ReadFailed",
                            "NotFound", "Crashed"},
                  overrun : BOOLEAN, leaked : SUBSET {"tads", "dup", "result"}])
  /\ Len(log) <= MaxNodes
  /\ DOMAIN lists \subseteq 0..MaxNodes
  /\ tracked \subseteq DOMAIN lists
  /\ \A l \in DOMAIN lists : DOMAIN lists[l].chunks \subseteq 0..(lists[l].height - 1)
  /\ DOMAIN space \subseteq 0..MaxNodes

(* Scatter/gather round trip (spec 8, with the gather taking the scatter's *)
(* own indices): when scatter_list writes an array into a list with        *)
(* distinct indices and a later gather_list of that list with the same     *)
(* indices succeeds, with no scatter into the list in between, the gather  *)
(* returns exactly the array's rows in their original order.  It relates   *)
(* the slot bookkeeping of scatter_list (lines 37-46) to the shape and     *)
(* copy loops of gather_list (lines 20-51).                                *)
ScatterGatherRoundTrip ==
  \A i, j \in 1..Len(log) :
    ( /\ i < j
      /\ log[i].op = "scatter" /\ log[i].status = "Ok"
      /\ log[j].op = "gather" /\ log[j].status = "Ok"
      /\ log[i].list = log[j].list
      /\ log[i].ind.vals = log[j].ind.vals
      /\ IsInjective(log[i].ind.vals)
      /\ ~\E k \in i + 1 .. j - 1 : log[k].op = "scatter" /\ log[k].list = log[i].list )
    => space[j].rows = Rows(log[i].arr)

(* gather_list never copies a slot past the end of the array it allocated *)
(* (lines 32-46): the result's extent is summed over slots 0..height-1,    *)
(* the copy runs over the index vector.                                    *)
GatherWithinResult ==
  \A k \in 1..Len(log) : ~log[k].overrun

(* A node that fails leaves no trace (spec 4.2 and 5): every list that    *)
(* existed before it is unchanged (no partial, half-written outputs        *)
(* visible to later nodes), and every temporary it allocated is released   *)
(* on that exit path.  scatter_list returns BAD_ARGUMENTS from inside its  *)
(* write loop (lines 40, 45), past "delete tads"; gather_list's failed     *)
(* read (line 36) returns after allocating its result.                     *)
FailedNodeLeavesNoTrace ==
  [][ Len(log') = Len(log) + 1 /\ Last(log').status # "Ok"
        => /\ \A l \in DOMAIN lists : lists'[l] = lists[l]
           /\ Last(log').leaked = {} ]_vars

(* Every list a successful scatter_list creates for itself (no list input) *)
(* is bound to the node's output in the VariableSpace, where later nodes   *)
(* can read it (lines 25-30 and 48-50).                                    *)
ImplicitListPublished ==
  \A k \in 1..Len(log) :
    log[k].op = "scatter" /\ log[k].ref = Implicit /\ log[k].status = "Ok"
      => k \in DOMAIN space /\ space[k] = ListVal(k)

=============================================================================
