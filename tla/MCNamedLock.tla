---------------------------- MODULE MCNamedLock ----------------------------
(* NamedLock for two threads of one process and one of another.           *)
EXTENDS NamedLock, TLC

CONSTANTS t1, t2, t3, ph, pw

SharedProcess == t1 :> ph @@ t2 :> ph @@ t3 :> pw
===========================================================================
