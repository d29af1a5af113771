---------------------------- MODULE AbstractDropout ----------------------------
(***************************************************************************)
(* What one call of dropOutFunctor (src/libnd4j/include/ops/declarable/    *)
(* helpers/cpu/dropout.cpp) promises: a single step from the call to its   *)
(* result, the result being that of lines 16-58 read by one thread.  The   *)
(* OpenMP team of lines 34-41 is invisible here; Dropout is shown to       *)
(* implement this module.                                                  *)
(***************************************************************************)
EXTENDS Integers, Sequences, FiniteSetsExt

CONSTANTS
  InputShapes,     \* shapes of the input
  NoiseShapes,     \* shapes the reduceShape argument may hold
  Broadcasts(_, _) \* whether "*dropOutMultiplier += *chunk" applies (line 53)

VARIABLES input, hasNoise, noise, rngNull, status

vars == <<input, hasNoise, noise, rngNull, status>>

Init ==
  /\ input \in InputShapes
  /\ hasNoise \in BOOLEAN
  /\ noise \in IF hasNoise THEN NoiseShapes ELSE {<<>>}
  /\ rngNull \in BOOLEAN
  /\ status = "None"

(* Lines 16-58 run by one thread: the null rng is dereferenced at line 19; *)
(* without noise the random op applies; the rank REQUIRE of line 28; then  *)
(* the first noise entry that is zero (the % of line 38 traps) or does not *)
(* divide some input dimension (fit fails, line 44) decides; with no such  *)
(* entry the chunk is broadcast at line 53, which applies or throws.       *)
Outcome ==
  LET bad == {i \in 1..Len(noise) :
                noise[i] = 0 \/ \E e \in 1..Len(input) : input[e] % noise[i] # 0}
  IN  CASE rngNull                          -> "Crashed"
        [] ~hasNoise                        -> "Ok"
        [] Len(noise) > Len(input)          -> "ValidationFailed"
        [] bad = {} /\ Broadcasts(noise, input) -> "Ok"
        [] bad = {}                         -> "Thrown"
        [] noise[Min(bad)] = 0              -> "Crashed"
        [] OTHER                            -> "ValidationFailed"

Call ==
  /\ status = "None"
  /\ status' = Outcome
  /\ UNCHANGED <<input, hasNoise, noise, rngNull>>

\* Every call returns or traps.
Spec == Init /\ [][Call]_vars /\ WF_vars(Call)

=============================================================================
