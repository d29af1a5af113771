----------------------------- MODULE MC_Dropout -----------------------------
(* Model-checking instance of Dropout: a team of three threads, inputs  *)
(* rank 1 and 2, and every noise shape of rank 0..2 over dims 0, 1, 2, 4. *)
EXTENDS Dropout

CONSTANTS t1, t2, t3

MCThreads == {t1, t2, t3}
MCInputShapes == {<<2>>, <<3>>, <<4>>, <<2, 4>>, <<3, 2>>}
MCNoiseShapes == UNION {[1..k -> {0, 1, 2, 4}] : k \in 0..2}
=============================================================================
