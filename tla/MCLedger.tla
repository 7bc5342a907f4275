----------------------------- MODULE MCLedger -----------------------------
(* Ledger for two threads of one process and one of another, two letters. *)
EXTENDS Ledger, TLC

CONSTANTS t1, t2, t3, ph, pw

SharedProcess == t1 :> ph @@ t2 :> ph @@ t3 :> pw
===========================================================================
