--------------------------- MODULE MCWriteDelivery ---------------------------
(* Small instances of WriteDelivery.tla.                                     *)
EXTENDS WriteDelivery

CONSTANTS t1, t2

TwoThreads == {t1, t2}
=============================================================================
