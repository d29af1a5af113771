------------------------------ MODULE Transpose ------------------------------
(***************************************************************************)
(* The transpose / permute op, src/libnd4j/include/ops/declarable/generic/ *)
(* shape/transpose.cpp: its shape function (lines 82-118) and its body     *)
(* (lines 15-79), run by the executioner's two phases (spec 4.3) for one    *)
(* node that the graph executes up to MaxExec times, each time with fresh  *)
(* placeholder inputs.                                                     *)
(*                                                                         *)
(* The node's IArgs vector belongs to its block and persists between       *)
(* executions; the body appends to it (lines 41, 47).                      *)
(*                                                                         *)
(* Data abstraction.  The input x of rank r has the distinct dimensions    *)
(* Dims[1..r], so an array is identified by its dimension sequence and a    *)
(* permutation of x is the permuted sequence.  Axes are 0-based.  The      *)
(* nodes modelled have one input (x) or two (x and an axis vector).        *)
(***************************************************************************)
EXTENDS Integers, Sequences, FiniteSets

CONSTANTS
  MaxRank,    \* largest rank of x
  MaxExec,    \* executions of the node
  DimValues   \* values a shape read outside the shape buffer may hold

\* Dimensions of x: distinct, so that every permutation is visible.
Dims == <<2, 3, 4, 5>>
ASSUME MaxRank \in 0..Len(Dims) /\ MaxExec \in Nat \ {0}

VARIABLES
  node,     \* [rank, width, inplace, declared]: the node as the graph built it
  iargs,    \* the block's IArgs vector (getIArguments)
  axis,     \* the current value of the axis input (width 2)
  x,        \* the current value of input 0
  shp,      \* the shape the shape function returned
  out,      \* the value bound to the node's output
  target,   \* where the body put its result: "prealloc", "input" or "new"
  status,   \* the body's status
  phase,    \* "ready" -> "shaped" -> "done"
  execs,    \* executions started
  firstAxis \* history: the axis input of the first execution

vars == <<node, iargs, axis, x, shp, out, target, status, phase, execs, firstAxis>>

Base(r) == SubSeq(Dims, 1, r)

\* The entries of a sequence.
Values(d) == {d[i] : i \in DOMAIN d}

\* The permutations of 0..r-1, as sequences.
Perms(r) == {p \in [1..r -> 0..(r - 1)] : \A i, j \in 1..r : i # j => p[i] # p[j]}

(* Axis vectors a caller may feed: a permutation, each entry either as is  *)
(* or as its negative form (entry - r).  A scalar takes one axis (line 52)  *)
(* or, as in TensorFlow, none.                                             *)
AxisInputs(r) ==
  IF r = 0 THEN {<<>>, <<0>>, <<-1>>}
  ELSE UNION { {[i \in 1..r |-> IF neg[i] THEN p[i] - r ELSE p[i]] : neg \in [1..r -> BOOLEAN]}
               : p \in Perms(r) }

\* The IArgs a node may be built with: none, or a permutation.
DeclaredArgs(r) == {<<>>} \cup (IF r = 0 THEN {<<0>>} ELSE Perms(r))

\* Variant of RevAxes that keeps the axes in order.
RevAxesInOrder(r) == [i \in 1..r |-> i - 1]

\* Lines 46-47 and 108-110: the axes of a full transpose, rank-1 down to 0.
RevAxes(r) == [i \in 1..r |-> r - i]

\* x->permute / permutei with axes p (nd4j NDArray, outside src/).
PermuteDims(d, p) == [i \in 1..Len(p) |-> d[p[i] + 1]]

\* Variant of Resolve that keeps the axis input's raw values.
ResolveRaw(a, r) == a

\* Lines 36-42: the axis input with negative entries moved up by the rank.
Resolve(a, r) == [i \in 1..Len(a) |-> IF a[i] < 0 THEN a[i] + r ELSE a[i]]

-----------------------------------------------------------------------------
(* A permutation of a shape by axes p, as ShapeUtils::evalPermShapeInfo   *)
(* and NDArray::permute compute it (outside src/): entry i of the result   *)
(* is entry p[i] of the shape; an axis outside 0..rank-1 reads outside the *)
(* shape buffer, which is undefined: any of DimValues.                     *)
PermShapes(d, p) ==
  { s \in [1..Len(p) -> DimValues \cup Values(d)] :
      \A i \in 1..Len(p) : p[i] \in 0..(Len(d) - 1) => s[i] = d[p[i] + 1] }

(* Shape function, lines 82-118.  One input: the transposed shape.  Two    *)
(* inputs: a scalar keeps its shape (lines 90-97); otherwise the IArgs, or *)
(* when there are none the axis input read raw (line 99), permute the      *)
(* input's shape.  The branches at lines 102-114 need fewer than two       *)
(* inputs, which this branch never has.                                    *)
TransposeShape ==
  /\ phase = "ready"
  /\ phase' = "shaped"
  /\ IF node.width = 1
       THEN shp' = PermuteDims(x, RevAxes(node.rank))
       ELSE IF node.rank = 0
         THEN shp' = <<>>
         ELSE \E s \in PermShapes(x, IF iargs # <<>> THEN iargs ELSE axis) : shp' = s
  /\ UNCHANGED <<node, iargs, axis, x, out, target, status, execs, firstAxis>>

\* Variant of Target without the replace flag: always the preallocated output.
TargetNoReplace(n, replace) ==
  IF n.inplace THEN "input" ELSE "prealloc"

(* Where the body puts its result: in place into x (lines 18-20, 60-62),   *)
(* into the output the shape function sized (lines 21-24, 53-55, 64-69),   *)
(* or, for axes taken from the axis input, into a new array bound by       *)
(* OVERWRITE_RESULT (lines 70-75).                                         *)
Target(n, replace) ==
  CASE n.inplace -> "input"
    [] n.width = 2 /\ n.rank > 0 /\ replace -> "new"
    [] OTHER -> "prealloc"

(* The body, lines 15-79.  One input: full transpose.  Two inputs: the     *)
(* IArgs, or when there are none the resolved axis input, appended to the  *)
(* block's IArgs (lines 34-44) where the next execution finds them; a      *)
(* scalar needs exactly one axis (line 52) and is copied (lines 53-57).    *)
TransposeExec ==
  /\ phase = "shaped"
  /\ phase' = "done"
  /\ LET replace == node.width = 2 /\ iargs = <<>>
         args    == IF replace THEN Resolve(axis, node.rank) ELSE iargs
         results == CASE node.width = 1 -> {PermuteDims(x, RevAxes(node.rank))}
                      [] node.rank = 0  -> {x}
                      [] OTHER          -> PermShapes(x, args)
         ok      == node.width = 1 \/ node.rank > 0 \/ Len(args) = 1
     IN  \E res \in results :
         /\ iargs' = IF node.width = 2 THEN args ELSE iargs
         /\ status' = IF ok THEN "Ok" ELSE "ValidationFailed"
         /\ out' = IF ok THEN res ELSE out
         /\ target' = IF ok THEN Target(node, replace) ELSE target
         /\ x' = IF ok /\ node.inplace THEN res ELSE x
  /\ UNCHANGED <<node, axis, shp, execs, firstAxis>>

(* The graph runs again: the placeholders get fresh values, x its original *)
(* one and the axis input any vector; the node keeps its block.            *)
Feed ==
  /\ phase = "done"
  /\ execs < MaxExec
  /\ x' = Base(node.rank)
  /\ axis' \in IF node.width = 2 THEN AxisInputs(node.rank) ELSE {<<>>}
  /\ phase' = "ready"
  /\ execs' = execs + 1
  /\ UNCHANGED <<node, iargs, shp, out, target, status, firstAxis>>

Nodes ==
  { n \in [rank : 0..MaxRank, width : {1, 2}, inplace : BOOLEAN,
           declared : UNION {DeclaredArgs(r) : r \in 0..MaxRank}] :
      n.declared \in DeclaredArgs(n.rank) }

Init ==
  /\ node \in Nodes
  /\ iargs = node.declared
  /\ axis \in IF node.width = 2 THEN AxisInputs(node.rank) ELSE {<<>>}
  /\ x = Base(node.rank)
  /\ shp = <<>>
  /\ out = <<>>
  /\ target = "prealloc"
  /\ status = "Ok"
  /\ phase = "ready"
  /\ execs = 1
  /\ firstAxis = axis

Next == TransposeShape \/ TransposeExec \/ Feed

Spec == Init /\ [][Next]_vars

-----------------------------------------------------------------------------
(* Properties                                                              *)

TypeOK ==
  /\ node \in Nodes
  /\ iargs \in Seq(-1..(MaxRank - 1))
  /\ target \in {"prealloc", "input", "new"}
  /\ status \in {"Ok", "ValidationFailed"}
  /\ phase \in {"ready", "shaped", "done"}
  /\ execs \in 1..MaxExec

(* Reference (spec 4.5): the axes the node's inputs ask for are the       *)
(* declared IArgs, else the reverse order for one input, else the axis     *)
(* input taken modulo the rank; output dimension i is input dimension      *)
(* axes[i].                                                                *)
ExpectedAxes(n, a) ==
  CASE n.declared # <<>> /\ n.width = 2 -> n.declared
    [] n.width = 1 -> [i \in 1..n.rank |-> n.rank - i]
    [] OTHER -> [i \in 1..Len(a) |-> (a[i] + n.rank) % n.rank]

ExpectedOut(n, a) ==
  IF n.rank = 0 THEN <<>>
  ELSE LET ax == ExpectedAxes(n, a) IN [i \in 1..Len(ax) |-> Dims[ax[i] + 1]]

(* Whenever the body writes into the output the shape function allocated, *)
(* that output has the shape of what is written: the replace flag of lines *)
(* 28-44 routes the raw-axis case, where the shape function (line 99) and  *)
(* the body (lines 38-39) disagree, to a new array instead.                 *)
ExecWritesFitShape ==
  (phase = "done" /\ status = "Ok" /\ target = "prealloc") => shp = out

(* As long as the axis input keeps the value of the node's first           *)
(* execution, every successful execution binds x permuted by the axes the *)
(* inputs ask for, in place or not, with declared IArgs, the axis input    *)
(* (negative entries resolved) or a full transpose.                        *)
TransposeCorrectWhileAxesUnchanged ==
  (phase = "done" /\ status = "Ok" /\ axis = firstAxis)
    => out = ExpectedOut(node, axis)

(* Every successful execution binds x permuted by the axes its current     *)
(* inputs ask for (spec 4.5), also when the graph runs again with a new    *)
(* axis input; the IArgs appended at lines 41-44 persist in the block.     *)
TransposeUsesCurrentAxes ==
  (phase = "done" /\ status = "Ok") => out = ExpectedOut(node, axis)

(* The shape the shape function declares equals the shape of the array    *)
(* the body binds (spec 8, shape/execution shape agreement), negative axes *)
(* included (spec 4.5: resolved modulo rank).                              *)
ShapeAgreement ==
  (phase = "done" /\ status = "Ok") => shp = out

=============================================================================
