------------------------------ MODULE Executioner ------------------------------
(***************************************************************************)
(* One execution pass of a graph (spec 4.3) whose nodes run the ops of     *)
(* src/libnd4j/include/ops/declarable/generic: mergeavg                    *)
(* (transforms/merge_avg.cpp), scatter_sub (parity_ops/scatter_sub.cpp),   *)
(* max_pool_with_argmax (convo/pooling/maxpool_with_argmax.cpp) and the    *)
(* boolean op gte_scalar (boolean/gte_scalar.cpp), each called by a name   *)
(* or one of its DECLARE_SYN aliases.                                      *)
(*                                                                         *)
(* GraphExecutioner (blas/GraphExecutioner.h) only declares execute and    *)
(* executeFlatNode; the pass around the op bodies is modelled from spec    *)
(* 4.1-4.3 and 7: a ready node is resolved by name, its inputs fetched,    *)
(* its shape function and body run in one step; a failing status ends the *)
(* pass.  The order among ready nodes is left open.                        *)
(*                                                                         *)
(* Storage: a variable (key <<node, slot>>, placeholders <<-k, 0>>) names  *)
(* a buffer; an in-place op binds its output to its input's buffer.  A     *)
(* buffer's value is a term recording the ops applied, so aliasing and     *)
(* mutation are visible; numeric kernels are out of scope (spec 1).        *)
(***************************************************************************)
EXTENDS Integers, Sequences, FiniteSets, TLC

CONSTANTS
  MaxNodes,      \* nodes of the graph, numbered in a topological order
  Graphs,        \* graphs: [1..MaxNodes -> [name, in, inplace]]
  Placeholders   \* placeholder key -> shape

NodeIds == 1..MaxNodes

VARIABLES
  graph,     \* the graph being executed
  space,     \* VariableSpace: variable key -> buffer
  buffers,   \* buffer -> [shape, val]
  done,      \* nodes that have run successfully
  outcome    \* "running", "OK" or the first failing status

vars == <<graph, space, buffers, done, outcome>>

Failures == {"UnknownOp", "NotFound", "BadDimensions", "ValidationFailed"}

\* Registry lookup: DECLARE_SYN (scatter_sub.cpp 27, gte_scalar.cpp 21-22).
Canonical(name) ==
  CASE name \in {"scatter_sub", "ScatterSub"} -> "scatter_sub"
    [] name \in {"gte_scalar", "GreaterOrEquals", "greaterOrEquals"} -> "gte_scalar"
    [] name \in {"mergeavg", "max_pool_with_argmax"} -> name
    [] OTHER -> "unknown"

Op(n) == Canonical(graph[n].name)
In(n) == graph[n].in
NodeDeps(g, n) == {g[n].in[i][1] : i \in DOMAIN g[n].in} \cap NodeIds

Ready(n) == outcome = "running" /\ n \notin done /\ NodeDeps(graph, n) \subseteq done
InputsBound(n) == \A i \in DOMAIN In(n) : In(n)[i] \in DOMAIN space
Val(r) == buffers[space[r]].val
Shp(r) == buffers[space[r]].shape
Vals(n) == [i \in DOMAIN In(n) |-> Val(In(n)[i])]

\* Fresh buffers, one per new key, bound to those keys.
Bind(new) ==
  /\ space' = space @@ [k \in DOMAIN new |-> k]
  /\ buffers' = buffers @@ new

Fail(st) == outcome' = st /\ UNCHANGED <<graph, space, buffers, done>>

Succeed(n) == done' = done \cup {n} /\ UNCHANGED <<graph, outcome>>

-----------------------------------------------------------------------------
(* Dispatch and input lookup fail before any phase runs (spec 4.1, 4.2).   *)
ResolveFails(n) ==
  /\ Ready(n)
  /\ Op(n) = "unknown" \/ ~InputsBound(n)
  /\ Fail(IF Op(n) = "unknown" THEN "UnknownOp" ELSE "NotFound")

\* Variant of ExecMergeAvg that binds its output before validating.
ExecMergeAvgBindFirst(n) ==
  /\ Ready(n) /\ Op(n) = "mergeavg" /\ InputsBound(n)
  /\ LET shp == Shp(In(n)[1]) IN
     /\ Bind(<<n, 1>> :> [shape |-> shp, val |-> <<"avg", Vals(n)>>])
     /\ IF \A i \in DOMAIN In(n) : Shp(In(n)[i]) = shp
          THEN Succeed(n)
          ELSE outcome' = "BadDimensions" /\ UNCHANGED <<graph, done>>

(* mergeavg, merge_avg.cpp 14-28: REQUIRE_OK(validateInputDimensionsMatch) *)
(* then the average into a new output of the first input's shape.          *)
ExecMergeAvg(n) ==
  /\ Ready(n) /\ Op(n) = "mergeavg" /\ InputsBound(n)
  /\ LET shp == Shp(In(n)[1]) IN
     IF \A i \in DOMAIN In(n) : Shp(In(n)[i]) = shp
       THEN /\ Bind(<<n, 1>> :> [shape |-> shp, val |-> <<"avg", Vals(n)>>])
            /\ Succeed(n)
       ELSE Fail("BadDimensions")

\* Variant of ExecScatterSub that binds the in-place output to the input's
\* variable key instead of its buffer.
ExecScatterSubKeyAlias(n) ==
  /\ Ready(n) /\ Op(n) = "scatter_sub" /\ InputsBound(n)
  /\ LET sub == <<"sub", Val(In(n)[1]), Val(In(n)[2]), Val(In(n)[3])>> IN
     IF graph[n].inplace
       THEN /\ buffers' = [buffers EXCEPT ![space[In(n)[1]]].val = sub]
            /\ space' = space @@ (<<n, 1>> :> In(n)[1])
       ELSE Bind(<<n, 1>> :> [shape |-> Shp(In(n)[1]), val |-> sub])
  /\ Succeed(n)

\* Variant of ExecScatterSub without the copy of lines 20-21: the output is
\* the input's buffer also when not in place.
ExecScatterSubNoCopy(n) ==
  /\ Ready(n) /\ Op(n) = "scatter_sub" /\ InputsBound(n)
  /\ LET sub == <<"sub", Val(In(n)[1]), Val(In(n)[2]), Val(In(n)[3])>> IN
     /\ buffers' = [buffers EXCEPT ![space[In(n)[1]]].val = sub]
     /\ space' = space @@ (<<n, 1>> :> space[In(n)[1]])
  /\ Succeed(n)

(* scatter_sub, scatter_sub.cpp 13-26: in place, the output is input 0's   *)
(* storage; otherwise a new output is assigned the input (lines 20-21);    *)
(* then updates are subtracted at the indices (line 23).                   *)
ExecScatterSub(n) ==
  /\ Ready(n) /\ Op(n) = "scatter_sub" /\ InputsBound(n)
  /\ LET sub == <<"sub", Val(In(n)[1]), Val(In(n)[2]), Val(In(n)[3])>> IN
     IF graph[n].inplace
       THEN /\ buffers' = [buffers EXCEPT ![space[In(n)[1]]].val = sub]
            /\ space' = space @@ (<<n, 1>> :> space[In(n)[1]])
       ELSE Bind(<<n, 1>> :> [shape |-> Shp(In(n)[1]), val |-> sub])
  /\ Succeed(n)

\* An output acquired by OUTPUT_VARIABLE and not yet written by the body.
Unwritten == <<>>

\* Variant of ExecMaxPool whose shape list holds the values output only.
ExecMaxPoolValuesOnly(n) ==
  /\ Ready(n) /\ Op(n) = "max_pool_with_argmax" /\ InputsBound(n)
  /\ LET x == In(n)[1]
         ok == Len(Shp(x)) = 4
     IN  /\ Bind(<<n, 1>> :> [shape |-> Shp(x),
                              val |-> IF ok THEN <<"max", Val(x)>> ELSE Unwritten])
         /\ IF ok THEN Succeed(n)
                  ELSE outcome' = "ValidationFailed" /\ UNCHANGED <<graph, done>>

(* max_pool_with_argmax: the shape function (lines 29-38) gives both       *)
(* outputs the input's shape; the body (lines 14-27) acquires both outputs *)
(* (lines 17-18) before it requires rank 4 (line 20), so a failing check   *)
(* leaves them bound and unwritten; otherwise it fills values and indices. *)
ExecMaxPool(n) ==
  /\ Ready(n) /\ Op(n) = "max_pool_with_argmax" /\ InputsBound(n)
  /\ LET x == In(n)[1]
         ok == Len(Shp(x)) = 4
         Out(tag) == [shape |-> Shp(x), val |-> IF ok THEN <<tag, Val(x)>> ELSE Unwritten]
     IN  /\ Bind((<<n, 1>> :> Out("max")) @@ (<<n, 2>> :> Out("argmax")))
         /\ IF ok THEN Succeed(n)
                  ELSE outcome' = "ValidationFailed" /\ UNCHANGED <<graph, done>>

(* gte_scalar, gte_scalar.cpp 12-20: compares the first scalars of its two *)
(* inputs and returns TRUE or FALSE; it binds no output, its status is a   *)
(* control value and does not end the pass (spec 4.2).                     *)
ExecGte(n) ==
  /\ Ready(n) /\ Op(n) = "gte_scalar" /\ InputsBound(n)
  /\ UNCHANGED <<space, buffers>>
  /\ Succeed(n)

Finish ==
  /\ outcome = "running"
  /\ done = NodeIds
  /\ outcome' = "OK"
  /\ UNCHANGED <<graph, space, buffers, done>>

Init ==
  /\ graph \in Graphs
  /\ space = [k \in DOMAIN Placeholders |-> k]
  /\ buffers = [k \in DOMAIN Placeholders |-> [shape |-> Placeholders[k], val |-> k]]
  /\ done = {}
  /\ outcome = "running"

Next ==
  \/ \E n \in NodeIds :
       \/ ResolveFails(n) \/ ExecMergeAvg(n) \/ ExecScatterSub(n)
       \/ ExecMaxPool(n) \/ ExecGte(n)
  \/ Finish

\* The pass runs synchronously on one thread and is never cancelled (spec 5).
Spec == Init /\ [][Next]_vars /\ WF_vars(Next)

-----------------------------------------------------------------------------
(* Properties                                                              *)

TypeOK ==
  /\ graph \in Graphs
  /\ done \subseteq NodeIds
  /\ outcome \in {"running", "OK"} \cup Failures
  /\ \A k \in DOMAIN space : space[k] \in DOMAIN buffers

Writers(g) ==
  {n \in NodeIds : Canonical(g[n].name) \in {"mergeavg", "scatter_sub", "max_pool_with_argmax"}}

Abstract == INSTANCE AbstractExecution WITH
  Nodes <- NodeIds,
  deps <- [n \in NodeIds |-> NodeDeps(graph, n)],
  writers <- Writers(graph),
  ran <- done,
  bound <- {n \in NodeIds : <<n, 1>> \in DOMAIN space /\ Val(<<n, 1>>) # Unwritten},
  outcome <- outcome

(* The pass implements AbstractExecution: nodes run after their inputs'    *)
(* producers; a failing node (unknown op, missing input, mismatched        *)
(* dimensions in mergeavg, rank in max_pool_with_argmax) leaves no output  *)
(* holding a result and no later node runs; every pass ends, with OK       *)
(* exactly when every node ran.  Outputs acquired and left unwritten by a  *)
(* failing max_pool_with_argmax count as holding no result.                *)
ExecutionRefinesAbstract == Abstract!Spec

(* Spec 3: a variable, once bound, keeps its buffer, and a buffer's        *)
(* contents change only when an in-place scatter_sub takes it as input 0;  *)
(* a node that is not in place leaves every existing buffer alone.         *)
StorageChangesOnlyInPlace ==
  [][ /\ \A k \in DOMAIN space : k \in DOMAIN space' /\ space'[k] = space[k]
      /\ \A b \in DOMAIN buffers :
           buffers'[b] = buffers[b]
           \/ \E n \in done' \ done :
                /\ Op(n) = "scatter_sub" /\ graph[n].inplace
                /\ space[In(n)[1]] = b ]_vars

(* Reference for a whole graph, read off the registrations (OP_IMPL,      *)
(* CUSTOM_OP_IMPL, BOOLEAN_OP_IMPL, DECLARE_SYN) and the ops' declared      *)
(* outputs: a node is valid when its name is registered, every variable it *)
(* reads is produced (a placeholder, or an output slot its producer        *)
(* declares), and its op's checks hold on the shapes that flow to it.      *)
Registry ==
  ("mergeavg" :> "mergeavg") @@ ("scatter_sub" :> "scatter_sub")
    @@ ("ScatterSub" :> "scatter_sub") @@ ("max_pool_with_argmax" :> "maxpool")
    @@ ("gte_scalar" :> "gte") @@ ("GreaterOrEquals" :> "gte")
    @@ ("greaterOrEquals" :> "gte")
Kind(g, j) == IF g[j].name \in DOMAIN Registry THEN Registry[g[j].name] ELSE "none"
Slots(g, j) == CASE Kind(g, j) = "maxpool" -> {1, 2}
                 [] Kind(g, j) \in {"mergeavg", "scatter_sub"} -> {1}
                 [] OTHER -> {}
Produced(g, r) == r \in DOMAIN Placeholders \/ (r[1] \in NodeIds /\ r[2] \in Slots(g, r[1]))
\* Every output of these ops has the shape of the op's first input.
RECURSIVE ShapeOf(_, _)
ShapeOf(g, r) == IF r \in DOMAIN Placeholders THEN Placeholders[r] ELSE ShapeOf(g, g[r[1]].in[1])
NodeValid(g, j) ==
  /\ Kind(g, j) # "none"
  /\ \A i \in DOMAIN g[j].in : Produced(g, g[j].in[i])
  /\ Kind(g, j) = "mergeavg" =>
       \A i \in DOMAIN g[j].in : ShapeOf(g, g[j].in[i]) = ShapeOf(g, g[j].in[1])
  /\ Kind(g, j) = "maxpool" => Len(ShapeOf(g, g[j].in[1])) = 4
GraphValid(g) == \A j \in NodeIds : NodeValid(g, j)

(* Spec 7 and 8: whatever order the ties are broken in, a pass ends OK     *)
(* exactly when every node of the graph is valid: registry resolution with *)
(* its aliases, the outputs each op binds (both of max_pool_with_argmax's), *)
(* in-place aliasing that keeps the input's shape, and each op's checks    *)
(* together produce every requested output or fail as a whole.             *)
PassSucceedsIffGraphValid ==
  outcome # "running" => (outcome = "OK" <=> GraphValid(graph))

=============================================================================
