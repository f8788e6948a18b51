------------------------------ MODULE MCThrottle ------------------------------
(* Instances of Throttle for TLC.                                            *)
EXTENDS Throttle, TLC

CONSTANTS t1, t2

OneThread  == {t1}
TwoThreads == {t1, t2}

\* Threads are interchangeable in the properties that are invariants.
ThreadSymmetry == Permutations(Threads)
===============================================================================
