-------------------------- MODULE MCWriteForwarding --------------------------
(* Small instances of WriteForwarding.tla.                                   *)
EXTENDS WriteForwarding

CONSTANTS t1, t2

TwoThreads == {t1, t2}
=============================================================================
