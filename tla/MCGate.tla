------------------------------ MODULE MCGate ------------------------------
(* Gate on small instances; the configurations differ in the constants.   *)
EXTENDS Gate, TLC

CONSTANTS t1, t2, ph, pw, a1, a2, p1, p2, n1, n2, k1, c1, c2

\* The two threads in one process, or in two.
OneProcess == (t1 :> ph @@ t2 :> ph)
TwoProcesses == (t1 :> ph @@ t2 :> pw)

DerivedKey == {[job |-> n1, key |-> None]}
ExplicitKey == {[job |-> n1, key |-> k1]}
\* One explicit key for one job name, and derived keys beside it.
MixedKeys == {[job |-> n1, key |-> None], [job |-> n2, key |-> k1]}
\* One explicit key reused under another job name.
RenamedJob == {[job |-> n1, key |-> k1], [job |-> n2, key |-> k1]}

\* Authcodes and proof ids are interchangeable; with two processes, so are the
\* processes, each with its thread.
Symmetry == Permutations({a1, a2}) \union Permutations({p1, p2})
SwapProcesses == t1 :> t2 @@ t2 :> t1 @@ ph :> pw @@ pw :> ph
SymmetryOfProcesses == Symmetry \union {SwapProcesses}
===========================================================================
