---------------------------- MODULE MC_Executioner ----------------------------
(* Model-checking instance of Executioner: every graph of three nodes over *)
(* a rank-4 placeholder P1 and a rank-2 placeholder P2, where each node    *)
(* reads placeholders and earlier nodes' outputs (slot 2 of a node that has *)
(* none included) and is called by a name, an alias or an unknown name.   *)
EXTENDS Executioner

P1 == <<-1, 0>>
P2 == <<-2, 0>>

MCMaxNodes == 3
MCPlaceholders == (P1 :> <<1, 2, 2, 1>>) @@ (P2 :> <<2, 2>>)

\* The variables node n may read.
Refs(n) == {P1, P2} \cup {<<j, s>> : j \in 1..(n - 1), s \in {1, 2}}

(* The nodes node n may be: mergeavg's second input is a placeholder,     *)
(* scatter_sub's indices and updates come from P2, gte_scalar compares the *)
(* two placeholders; the aliases are exercised at node 1.                  *)
ScatterNames(n) == IF n = 1 THEN {"scatter_sub", "ScatterSub"} ELSE {"scatter_sub"}
GteName(n) == IF n = 1 THEN "GreaterOrEquals" ELSE "gte_scalar"

NodeChoices(n) ==
  {[name |-> "mergeavg", in |-> <<a, b>>, inplace |-> FALSE] : a \in Refs(n), b \in {P1, P2}}
  \cup {[name |-> nm, in |-> <<a, P2, P2>>, inplace |-> ip] :
          nm \in ScatterNames(n), a \in Refs(n), ip \in BOOLEAN}
  \cup {[name |-> "max_pool_with_argmax", in |-> <<a>>, inplace |-> FALSE] : a \in Refs(n)}
  \cup {[name |-> GteName(n), in |-> <<P1, P2>>, inplace |-> FALSE]}
  \cup {[name |-> "avg_pool", in |-> <<P1>>, inplace |-> FALSE]}

MCGraphs == {g \in [1..MCMaxNodes -> UNION {NodeChoices(n) : n \in 1..MCMaxNodes}] :
               \A n \in 1..MCMaxNodes : g[n] \in NodeChoices(n)}
=============================================================================
