-------------------------------- MODULE Range --------------------------------
(***************************************************************************)
(* The range op, src/libnd4j/include/ops/declarable/generic/parity_ops/    *)
(* range.cpp, run by the executioner's two phases (spec 4.3): the shape    *)
(* function (lines 103-156) sizes the output, then the op body (lines      *)
(* 17-102) fills it.  Arguments come, in priority order, from integer      *)
(* args, floating args (T_ARG) or three runtime scalar inputs.             *)
(*                                                                         *)
(* Values of T are small integers: the loops only compare and add, which   *)
(* floating point does exactly on them.  A loop that never ends leaves the *)
(* node in phase "hung", except the body's runtime loop, which allocates   *)
(* on every turn and so ends in a failed allocation.  A walk longer than   *)
(* WalkBound iterations is one that never ends (see the ASSUME).           *)
(***************************************************************************)
EXTENDS Integers, Sequences, FiniteSets

CONSTANTS
  Calls,              \* invocations: [iargs, targs, inputs], each a sequence
  ArgValues,          \* values a start, stop or step may take
  WalkBound,          \* iterations after which a loop is known not to end
  PlaceholderLength   \* the length the shape function guesses (line 148)

Abs(x) == IF x < 0 THEN -x ELSE x

\* Any walk that ends does so within Abs(stop - start) iterations.
ASSUME \A a, b \in ArgValues : Abs(a - b) < WalkBound

VARIABLES
  call,     \* the node's arguments and inputs
  phase,    \* "idle" -> "shaped" -> "done", or "hung" inside a loop
  alloc,    \* length of the output the shape function allocated
  out,      \* the values bound to the node's output variable
  status,   \* the op's return status
  overrun   \* the op body wrote past the allocated output

vars == <<call, phase, alloc, out, status, overrun>>

-----------------------------------------------------------------------------
(* The loop shared by all six branches (lines 28-39, 48-59, 76-86,         *)
(* 113-123, 133-143): below start > stop it walks down with the step's     *)
(* sign corrected, otherwise it adds step as given.  Result: the values    *)
(* visited, or hung when the walk does not end.                            *)
\* Variant of NextE without the sign correction of lines 32, 116, 136.
NextENoCorrection(e, step, desc) ==
  IF desc THEN e - step ELSE e + step

NextE(e, step, desc) ==
  IF desc THEN (IF step > 0 THEN e - step ELSE e + step) ELSE e + step

\* Variant of WalkFrom whose loop condition also admits stop itself.
RECURSIVE WalkFromInclusive(_, _, _, _, _)
WalkFromInclusive(e, stop, step, desc, fuel) ==
  CASE (desc /\ ~(e >= stop)) \/ (~desc /\ ~(e <= stop)) -> [hung |-> FALSE, vals |-> <<>>]
    [] fuel = 0 -> [hung |-> TRUE, vals |-> <<>>]
    [] OTHER ->
         LET rest == WalkFromInclusive(NextE(e, step, desc), stop, step, desc, fuel - 1)
         IN  [rest EXCEPT !.vals = <<e>> \o @]

RECURSIVE WalkFrom(_, _, _, _, _)
WalkFrom(e, stop, step, desc, fuel) ==
  CASE (desc /\ ~(e > stop)) \/ (~desc /\ ~(e < stop)) -> [hung |-> FALSE, vals |-> <<>>]
    [] fuel = 0 -> [hung |-> TRUE, vals |-> <<>>]
    [] OTHER ->
         LET rest == WalkFrom(NextE(e, step, desc), stop, step, desc, fuel - 1)
         IN  [rest EXCEPT !.vals = <<e>> \o @]

Walk(args) == WalkFrom(args[1], args[2], args[3], args[1] > args[2], WalkBound)

\* Which argument source a branch of the op reads (lines 22, 42, 62).
Source(c) ==
  CASE Len(c.iargs) > 0 -> "int"
    [] Len(c.targs) > 0 -> "float"
    [] Len(c.inputs) > 0 -> "runtime"
    [] OTHER -> "none"

-----------------------------------------------------------------------------
(* Shape function, lines 103-156: walk the integer or floating args and   *)
(* count; for runtime inputs (or none) guess PlaceholderLength.            *)
RangeShape ==
  /\ phase = "idle"
  /\ LET src == Source(call)
         w   == IF src = "int" THEN Walk(call.iargs) ELSE Walk(call.targs)
     IN  IF src \in {"int", "float"}
           THEN IF w.hung
                  THEN phase' = "hung" /\ UNCHANGED alloc
                  ELSE phase' = "shaped" /\ alloc' = Len(w.vals)
           ELSE phase' = "shaped" /\ alloc' = PlaceholderLength
  /\ UNCHANGED <<call, out, status, overrun>>

\* putScalar(cnt++, e) for each value, into the output of length alloc.
Fill(vals) == [i \in 1..alloc |-> IF i <= Len(vals) THEN vals[i] ELSE 0]

(* Op body with integer or floating args, lines 22-61: the walk is         *)
(* written element by element into the preallocated output; STORE_RESULT.  *)
RangeExecArgs ==
  /\ phase = "shaped"
  /\ Source(call) \in {"int", "float"}
  /\ LET w == IF Source(call) = "int" THEN Walk(call.iargs) ELSE Walk(call.targs)
     IN  IF w.hung
           THEN phase' = "hung" /\ UNCHANGED <<out, status, overrun>>
           ELSE /\ phase' = "done"
                /\ out' = Fill(w.vals)
                /\ overrun' = (Len(w.vals) > alloc)
                /\ status' = "Ok"
  /\ UNCHANGED <<call, alloc>>

\* Variant of RangeExecRuntime that always copies into the allocated output.
RangeExecRuntimeNoOverwrite ==
  /\ phase = "shaped"
  /\ Source(call) = "runtime"
  /\ IF Len(call.inputs) # 3
       THEN phase' = "done" /\ status' = "ValidationFailed" /\ UNCHANGED <<out, overrun>>
       ELSE LET w == Walk(call.inputs)
            IN  IF w.hung
                  THEN phase' = "done" /\ status' = "BadAlloc" /\ UNCHANGED <<out, overrun>>
                  ELSE phase' = "done" /\ out' = Fill(w.vals) /\ status' = "Ok"
                         /\ UNCHANGED overrun
  /\ UNCHANGED <<call, alloc>>

(* Op body with runtime inputs, lines 62-96: exactly three are required;  *)
(* the walk is collected into std::vector data, then copied into the       *)
(* output when the lengths agree, or bound as a new array by               *)
(* OVERWRITE_RESULT when they do not.  A walk that does not end grows data *)
(* (line 83) until emplace_back throws std::bad_alloc out of the op.       *)
RangeExecRuntime ==
  /\ phase = "shaped"
  /\ Source(call) = "runtime"
  /\ IF Len(call.inputs) # 3
       THEN phase' = "done" /\ status' = "ValidationFailed" /\ UNCHANGED <<out, overrun>>
       ELSE LET w == Walk(call.inputs)
            IN  IF w.hung
                  THEN phase' = "done" /\ status' = "BadAlloc" /\ UNCHANGED <<out, overrun>>
                  ELSE /\ phase' = "done"
                       /\ out' = IF Len(w.vals) = alloc THEN Fill(w.vals) ELSE w.vals
                       /\ status' = "Ok"
                       /\ UNCHANGED overrun
  /\ UNCHANGED <<call, alloc>>

\* Op body with no args and no inputs, lines 97-99: REQUIRE_TRUE(false).
RangeExecNone ==
  /\ phase = "shaped"
  /\ Source(call) = "none"
  /\ phase' = "done"
  /\ status' = "ValidationFailed"
  /\ UNCHANGED <<call, alloc, out, overrun>>

Init ==
  /\ call \in Calls
  /\ phase = "idle"
  /\ alloc = 0
  /\ out = <<>>
  /\ status = "Ok"
  /\ overrun = FALSE

Next == RangeShape \/ RangeExecArgs \/ RangeExecRuntime \/ RangeExecNone

Spec == Init /\ [][Next]_vars /\ WF_vars(Next)

-----------------------------------------------------------------------------
(* Properties                                                              *)

TypeOK ==
  /\ call \in Calls
  /\ phase \in {"idle", "shaped", "done", "hung"}
  /\ alloc \in 0..(WalkBound - 1) \cup {PlaceholderLength}
  /\ out \in Seq(Int)
  /\ status \in {"Ok", "ValidationFailed", "BadAlloc"}
  /\ overrun \in BOOLEAN

\* The (start, stop, step) the op reads, by the priority of lines 22, 42, 62.
Args(c) == CASE Source(c) = "int" -> c.iargs
             [] Source(c) = "float" -> c.targs
             [] OTHER -> c.inputs

(* Reference definition (spec 4.5): the values start, start + d, ...      *)
(* strictly before stop, where d is step with its sign turned toward stop. *)
RefLength(a) ==
  IF a[1] = a[2] THEN 0 ELSE (Abs(a[2] - a[1]) + Abs(a[3]) - 1) \div Abs(a[3])
Reference(a) ==
  LET d == IF a[2] > a[1] THEN Abs(a[3]) ELSE -Abs(a[3])
  IN  [i \in 1..RefLength(a) |-> a[1] + (i - 1) * d]

\* Arguments whose step is non-zero and, when start < stop, positive.
StepTowardStop(a) ==
  a[1] = a[2] \/ (a[3] # 0 /\ (a[1] > a[2] \/ a[3] > 0))

\* The call reaches a walk only with three values, and then one that ends.
WalkEnds(c) == Len(Args(c)) # 3 \/ StepTowardStop(Args(c))

(* Whenever the step points toward stop (or start > stop, where lines      *)
(* 30-33 correct its sign), a successful range binds exactly the           *)
(* reference values: the shape function's count (lines 111-125) and the   *)
(* op body's writes (lines 27-41, 47-61, 75-96) agree, nothing is written *)
(* past the allocation, and the walk stops strictly before stop.           *)
RangeMatchesReference ==
  (phase = "done" /\ status = "Ok" /\ StepTowardStop(Args(call)))
    => out = Reference(Args(call)) /\ ~overrun

(* A range whose walk can end does end: shape function and op body both    *)
(* return, so the executioner reaches the next node.                       *)
RangeTerminatesWhenStepPointsToStop ==
  WalkEnds(call) => <>(phase = "done")

(* Every range invocation returns (spec 5: an execution pass runs to       *)
(* completion or to the first failing node; spec 4.5: the step's direction *)
(* is corrected to move toward stop).                                      *)
RangeTerminates ==
  <>(phase = "done")

=============================================================================
