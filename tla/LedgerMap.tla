----------------------------- MODULE LedgerMap -----------------------------
(***************************************************************************)
(* What a ledger file promises: a map that changes one entry at a time and *)
(* never loses another one.  Ledger implements this module.                *)
(***************************************************************************)
CONSTANTS Entries, Values, None

VARIABLE map        \* map[e]: the record of entry e, None before its first put

MapInit == map = [e \in Entries |-> None]

MapPut(e, v) == map' = [map EXCEPT ![e] = v]

MapSpec == MapInit /\ [][\E e \in Entries, v \in Values : MapPut(e, v)]_map
===========================================================================
