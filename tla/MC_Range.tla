------------------------------ MODULE MC_Range ------------------------------
(* Model-checking instance of Range: every (start, stop, step) in -2..2   *)
(* from each argument source, and the calls that exercise the source      *)
(* priority and the failing shapes of a call.                             *)
EXTENDS Range

MCArgValues == -2..2
Triples == [1..3 -> MCArgValues]
FromInts(t) == [iargs |-> t, targs |-> <<>>, inputs |-> <<>>]
FromFloats(t) == [iargs |-> <<>>, targs |-> t, inputs |-> <<>>]
FromInputs(t) == [iargs |-> <<>>, targs |-> <<>>, inputs |-> t]
MCCalls ==
  {FromInts(t) : t \in Triples} \cup {FromFloats(t) : t \in Triples}
    \cup {FromInputs(t) : t \in Triples}
    \cup { [iargs |-> <<0, 2, 1>>, targs |-> <<2, 0, 1>>, inputs |-> <<>>],
           [iargs |-> <<>>, targs |-> <<2, 0, 1>>, inputs |-> <<0, 2, 1>>],
           FromInputs(<<0, 2>>),
           FromInputs(<<>>) }
MCWalkBound == 5
MCPlaceholderLength == 119
=============================================================================
