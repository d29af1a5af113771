------------------------------- MODULE Dropout -------------------------------
(***************************************************************************)
(* The dropout helper dropOutFunctor, src/libnd4j/include/ops/declarable/  *)
(* helpers/cpu/dropout.cpp.  With a noise shape it checks, inside an       *)
(* "#pragma omp parallel" region (lines 34-41), that the noise shape fits  *)
(* the input, then builds a chunk of that shape and broadcasts it over a   *)
(* copy of the input (lines 45-55).                                        *)
(*                                                                         *)
(* "omp parallel" without "for" makes every thread of the team run the     *)
(* whole loop.  The threads share fit and dims; thread t keeps its own     *)
(* loop counters ti[t] and te[t].  Each step is one iteration test plus    *)
(* its body: the bool and the 64-bit dims entries are read and written     *)
(* whole, and every thread writes the same values, so the data race has   *)
(* no other outcome.                                                       *)
(*                                                                         *)
(* Data abstraction: shapes are sequences of dimensions; the random values *)
(* and the multiplication are left out, only whether the broadcast applies *)
(* is kept.                                                                *)
(***************************************************************************)
EXTENDS Integers, Sequences, SequencesExt

CONSTANTS
  Threads,      \* the OpenMP team
  InputShapes,  \* shapes of the input
  NoiseShapes   \* shapes the reduceShape argument may hold (dims >= 0)

VARIABLES
  input,     \* the input's shape
  hasNoise,  \* reduceShape != nullptr
  noise,     \* reduceShape's values
  rngNull,   \* rng == nullptr
  fit,       \* the shared flag of line 32
  dims,      \* the shared vector of line 30
  pc,        \* per thread: "head" (line 35), "inner" (line 37) or "out"
  ti,        \* per thread: i
  te,        \* per thread: e
  phase,     \* "entry" -> "parallel" -> "done"
  status     \* the helper's outcome

vars == <<input, hasNoise, noise, rngNull, fit, dims, pc, ti, te, phase, status>>

-----------------------------------------------------------------------------
(* NDArray operations outside src/.                                        *)

Product(s) == FoldSeq(LAMBDA a, b : a * b, 1, s)

(* "*dropOutMultiplier += *chunk" (line 53): arrays of equal length are    *)
(* combined element by element, otherwise the chunk is broadcast, aligning *)
(* trailing dimensions, each 1 or equal; any other pair throws.            *)
MultiplierApplies(c, s) ==
  \/ Product(c) = Product(s)
  \/ /\ Len(c) <= Len(s)
     /\ \A j \in 0..(Len(c) - 1) : c[Len(c) - j] \in {1, s[Len(s) - j]}

-----------------------------------------------------------------------------
\* Variant of DropOutEnter that sizes dims by the input's rank.
DropOutEnterRankSized ==
  /\ phase = "entry"
  /\ CASE rngNull ->
            phase' = "done" /\ status' = "Crashed" /\ UNCHANGED <<fit, dims>>
       [] ~hasNoise ->
            phase' = "done" /\ status' = "Ok" /\ UNCHANGED <<fit, dims>>
       [] Len(noise) > Len(input) ->
            phase' = "done" /\ status' = "ValidationFailed" /\ UNCHANGED <<fit, dims>>
       [] OTHER ->
            /\ phase' = "parallel"
            /\ fit' = TRUE
            /\ dims' = [i \in 1..Len(input) |-> 0]
            /\ UNCHANGED status
  /\ UNCHANGED <<input, hasNoise, noise, rngNull, pc, ti, te>>

(* Lines 16-33.  reSeedBuffer dereferences rng (line 19) before the null   *)
(* check of line 21, so a null rng crashes there.  Without a noise shape   *)
(* the whole input gets the random op (line 26).  Otherwise line 28        *)
(* requires the noise rank not to exceed the input's, and the team starts *)
(* with dims zeroed (std::vector) and fit TRUE.                            *)
DropOutEnter ==
  /\ phase = "entry"
  /\ CASE rngNull ->
            phase' = "done" /\ status' = "Crashed" /\ UNCHANGED <<fit, dims>>
       [] ~hasNoise ->
            phase' = "done" /\ status' = "Ok" /\ UNCHANGED <<fit, dims>>
       [] Len(noise) > Len(input) ->
            phase' = "done" /\ status' = "ValidationFailed" /\ UNCHANGED <<fit, dims>>
       [] OTHER ->
            /\ phase' = "parallel"
            /\ fit' = TRUE
            /\ dims' = [i \in 1..Len(noise) |-> 0]
            /\ UNCHANGED status
  /\ UNCHANGED <<input, hasNoise, noise, rngNull, pc, ti, te>>

LoopHead(t) ==
  /\ phase = "parallel"
  /\ pc[t] = "head"
  /\ IF fit /\ ti[t] <= Len(noise)
       THEN /\ dims' = [dims EXCEPT ![ti[t]] = noise[ti[t]]]
            /\ te' = [te EXCEPT ![t] = 1]
            /\ pc' = [pc EXCEPT ![t] = "inner"]
       ELSE /\ pc' = [pc EXCEPT ![t] = "out"]
            /\ UNCHANGED <<dims, te>>
  /\ UNCHANGED <<input, hasNoise, noise, rngNull, fit, ti, phase, status>>

\* Variant of InnerStep that never advances e.
InnerStepNoAdvance(t) ==
  /\ phase = "parallel"
  /\ pc[t] = "inner"
  /\ IF fit /\ te[t] <= Len(input)
       THEN IF dims[ti[t]] = 0
              THEN /\ phase' = "done" /\ status' = "Crashed"
                   /\ UNCHANGED <<fit, pc, ti>>
              ELSE /\ fit' = (fit /\ input[te[t]] % dims[ti[t]] = 0)
                   /\ UNCHANGED <<pc, ti, phase, status>>
       ELSE /\ pc' = [pc EXCEPT ![t] = "head"]
            /\ ti' = [ti EXCEPT ![t] = @ + 1]
            /\ UNCHANGED <<fit, phase, status>>
  /\ UNCHANGED <<input, hasNoise, noise, rngNull, dims, te>>

(* Lines 37-40, thread t: while fit and e < rank, clear fit when input     *)
(* dimension e is not a multiple of dims[i] (read from the shared vector); *)
(* at the end of the inner loop, ++i.  A zero dims[i] makes the 64-bit %   *)
(* of line 38 trap (SIGFPE), which ends the process and the whole team.    *)
InnerStep(t) ==
  /\ phase = "parallel"
  /\ pc[t] = "inner"
  /\ IF fit /\ te[t] <= Len(input)
       THEN IF dims[ti[t]] = 0
              THEN /\ phase' = "done" /\ status' = "Crashed"
                   /\ UNCHANGED <<fit, pc, ti, te>>
              ELSE /\ fit' = (fit /\ input[te[t]] % dims[ti[t]] = 0)
                   /\ te' = [te EXCEPT ![t] = @ + 1]
                   /\ UNCHANGED <<pc, ti, phase, status>>
       ELSE /\ pc' = [pc EXCEPT ![t] = "head"]
            /\ ti' = [ti EXCEPT ![t] = @ + 1]
            /\ UNCHANGED <<fit, te, phase, status>>
  /\ UNCHANGED <<input, hasNoise, noise, rngNull, dims>>

(* Lines 41-58: the region's implicit barrier, then REQUIRE_TRUE(fit) and  *)
(* the chunk of shape dims added to a zeroed copy of the input (line 53),  *)
(* which throws when the shapes do not combine.                            *)
DropOutFinish ==
  /\ phase = "parallel"
  /\ \A t \in Threads : pc[t] = "out"
  /\ phase' = "done"
  /\ status' = CASE ~fit -> "ValidationFailed"
                 [] MultiplierApplies(dims, input) -> "Ok"
                 [] OTHER -> "Thrown"
  /\ UNCHANGED <<input, hasNoise, noise, rngNull, fit, dims, pc, ti, te>>

Init ==
  /\ input \in InputShapes
  /\ hasNoise \in BOOLEAN
  /\ noise \in IF hasNoise THEN NoiseShapes ELSE {<<>>}
  /\ rngNull \in BOOLEAN
  /\ fit = TRUE
  /\ dims = <<>>
  /\ pc = [t \in Threads |-> "head"]
  /\ ti = [t \in Threads |-> 1]
  /\ te = [t \in Threads |-> 1]
  /\ phase = "entry"
  /\ status = "None"

Next ==
  \/ DropOutEnter
  \/ \E t \in Threads : LoopHead(t) \/ InnerStep(t)
  \/ DropOutFinish

(* The helper runs on the caller's thread and the team's threads are       *)
(* scheduled by the OS until the barrier: every enabled thread progresses. *)
Spec ==
  /\ Init /\ [][Next]_vars
  /\ WF_vars(DropOutEnter) /\ WF_vars(DropOutFinish)
  /\ \A t \in Threads : WF_vars(LoopHead(t) \/ InnerStep(t))

-----------------------------------------------------------------------------
(* Properties                                                              *)

TypeOK ==
  /\ fit \in BOOLEAN
  /\ phase = "parallel" => dims \in [1..Len(noise) -> Nat]
  /\ pc \in [Threads -> {"head", "inner", "out"}]
  /\ ti \in [Threads -> 1..(Len(noise) + 1)]
  /\ te \in [Threads -> 1..(Len(input) + 1)]
  /\ phase \in {"entry", "parallel", "done"}
  /\ status \in {"None", "Ok", "ValidationFailed", "Thrown", "Crashed"}

Sequential == INSTANCE AbstractDropout WITH Broadcasts <- MultiplierApplies

FitCheckGuardsBroadcast == status # "Thrown"

=============================================================================
