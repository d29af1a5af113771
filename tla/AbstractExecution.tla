-------------------------- MODULE AbstractExecution --------------------------
(***************************************************************************)
(* What one execution pass of a graph promises (spec 4.3, 7): nodes run    *)
(* one at a time, each after the nodes it depends on; a node either        *)
(* succeeds, its outputs holding their results if it has any, or fails,   *)
(* which ends the pass with that node's status and leaves no further       *)
(* output holding a result; a pass in which every node succeeded ends     *)
(* with OK.  Which ready node runs next is left open (the order within     *)
(* ties is unspecified).                                                   *)
(***************************************************************************)
EXTENDS FiniteSets

CONSTANTS
  Nodes,     \* the graph's nodes
  Failures   \* the failing status codes

VARIABLES
  deps,      \* deps[n]: the nodes whose outputs n reads
  writers,   \* the nodes that bind an output (all but boolean ops)
  ran,       \* the nodes that have run successfully
  bound,     \* the nodes whose outputs hold their results
  outcome    \* "running", "OK" or the first failing status

vars == <<deps, writers, ran, bound, outcome>>

Init ==
  /\ deps \in [Nodes -> SUBSET Nodes]
  /\ writers \in SUBSET Nodes
  /\ ran = {}
  /\ bound = {}
  /\ outcome = "running"

Ready(n) == outcome = "running" /\ n \notin ran /\ deps[n] \subseteq ran

RunOk(n) ==
  /\ Ready(n)
  /\ ran' = ran \cup {n}
  /\ bound' = IF n \in writers THEN bound \cup {n} ELSE bound
  /\ UNCHANGED <<deps, writers, outcome>>

RunFail(n) ==
  /\ Ready(n)
  /\ outcome' \in Failures
  /\ UNCHANGED <<deps, writers, ran, bound>>

Finish ==
  /\ outcome = "running"
  /\ ran = Nodes
  /\ outcome' = "OK"
  /\ UNCHANGED <<deps, writers, ran, bound>>

Next == (\E n \in Nodes : RunOk(n) \/ RunFail(n)) \/ Finish

\* A pass is never suspended or cancelled (spec 5): it runs to its end.
Spec == Init /\ [][Next]_vars /\ WF_vars(Next)

=============================================================================
