------------------------------- MODULE Mutex -------------------------------
(***************************************************************************)
(* What store.exclusive promises about one lock name: at most one caller   *)
(* is inside, a caller comes in only when nobody is, and a process that    *)
(* dies leaves nobody inside.  NamedLock implements this module.           *)
(***************************************************************************)
CONSTANT Callers

VARIABLE inside     \* the callers inside the locked block

MutexInit == inside = {}

MutexEnter(c) == inside = {} /\ inside' = {c}

MutexLeave == inside # {} /\ inside' = {}

MutexNext == (\E c \in Callers : MutexEnter(c)) \/ MutexLeave

MutexSpec == MutexInit /\ [][MutexNext]_inside
===========================================================================
