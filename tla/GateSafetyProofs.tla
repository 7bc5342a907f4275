-------------------------- MODULE GateSafetyProofs --------------------------
(* The gate mails once: no job is sent two release requests, every release *)
(* is claimed on disk first, and one key has one proof, for any number of  *)
(* threads, processes, keys, documents, retries, failures and crashes.     *)
EXTENDS GateProofs

\* The locks exclude: the platform has flock, or one process uses the state
\* directory.
ExclusiveLocks == CrossProcessLocking \/ \A t, u \in Threads : ProcOf[t] = ProcOf[u]

\* Authcode a is in thread t's hands and in no proof yet.
Carries(t, a) ==
    \/ reply[t] = a
    \/ pc[t] = "put_proof" /\ proof[t].code = a

\* A carried authcode is of a held job of the caller's key that nobody else
\* knows and nobody has released.
CarriedIsFresh(t) ==
    \A a \in Authcodes :
        Carries(t, a) =>
            /\ jobs[a] # None
            /\ jobs[a].key = call[t].key
            /\ releases[a] = 0
            /\ \A p \in ProofIds : proofs[p] # None => proofs[p].code # a
            /\ \A u \in Threads : Carries(u, a) => u = t

\* A submission that is past the look-up of its key has the key to itself.
SubmitsAlone(t) ==
    /\ request[t] # None => request[t].key = call[t].key
    /\ pc[t] = "put_proof" =>
           ~proof[t].claimed /\ ~proof[t].authorized /\ proof[t].key = call[t].key
    /\ pc[t] \in SubmitSection \ {"find", "complete"} =>
           \A p \in ProofIds : proofs[p] # None => proofs[p].key # call[t].key
    /\ pc[t] = "complete" =>
           \E p \in ProofIds : proofs[p] # None /\ proofs[p].key = call[t].key

\* A release works on the proof that is on disk.
ReleasesAlone(t) ==
    /\ pc[t] \in {"document", "claim"} =>
           proofs[call[t].pid] = proof[t] /\ ~proof[t].claimed /\ ~proof[t].authorized
    /\ pc[t] \in {"release", "wait_release", "record"} =>
           proofs[call[t].pid] = proof[t] /\ proof[t].claimed /\ ~proof[t].authorized
    /\ pc[t] = "release" => releases[proof[t].code] = 0
    /\ pc[t] = "record" => ErrorsHide \/ jobs[proof[t].code].mailed

\* No other thread is in the same locked section.
Apart(t) ==
    \A u \in Threads :
        t # u =>
            /\ pc[t] \in SubmitSection /\ pc[u] \in SubmitSection => call[t].key # call[u].key
            /\ pc[t] \in ProofSection /\ pc[u] \in ProofSection => call[t].pid # call[u].pid

ThreadSafe(t) == CarriedIsFresh(t) /\ SubmitsAlone(t) /\ ReleasesAlone(t) /\ Apart(t)

UnheldIsUnreleased == \A a \in Authcodes : jobs[a] = None => releases[a] = 0

SubmittedHasProof ==
    \A k \in Keys : inflight[k] = "submitted" =>
        \E p \in ProofIds : proofs[p] # None /\ proofs[p].key = k

LedgerSafe == ProofsAreBacked /\ OneProofPerKey /\ ReleasesAreOnRecord /\ AtMostOneRelease
                  /\ UnheldIsUnreleased

SafetyInv ==
    /\ TypeInv
    /\ LedgerSafe
    /\ SubmittedHasProof
    /\ \A t \in Threads : ThreadSafe(t)

\* The initial state is safe.
LEMMA InitSafe == Init => SafetyInv
<1> SUFFICES ASSUME Init PROVE SafetyInv
  OBVIOUS
<1>1. LedgerSafe /\ SubmittedHasProof
  BY DEF Init, LedgerSafe, ProofsAreBacked, OneProofPerKey, ReleasesAreOnRecord,
         AtMostOneRelease, UnheldIsUnreleased, SubmittedHasProof
<1>2. ASSUME NEW t \in Threads PROVE ThreadSafe(t)
  BY NoneAssumption
     DEF Init, ThreadSafe, CarriedIsFresh, Carries, SubmitsAlone, ReleasesAlone, Apart,
         SubmitSection, ProofSection
<1>3. QED
  BY InitTypes, <1>1, <1>2 DEF SafetyInv

\* A step that changes only thread t's part of the state, and leaves t safe,
\* leaves everybody safe.
LEMMA LocalStep ==
    ASSUME SafetyInv, TypeInv', NEW t \in Threads,
           UNCHANGED <<proofs, jobs, releases>>,
           \A u \in Threads \ {t} :
               /\ pc'[u] = pc[u] /\ call'[u] = call[u] /\ proof'[u] = proof[u]
               /\ request'[u] = request[u] /\ reply'[u] = reply[u],
           ThreadSafe(t)', SubmittedHasProof'
    PROVE  SafetyInv'
<1>1. LedgerSafe'
  BY DEF SafetyInv, LedgerSafe, ProofsAreBacked, OneProofPerKey, ReleasesAreOnRecord,
         AtMostOneRelease, UnheldIsUnreleased
<1>2. ASSUME NEW u \in Threads \ {t} PROVE ThreadSafe(u)'
  <2>0. ThreadSafe(u)
    BY DEF SafetyInv
  <2>1. CarriedIsFresh(u)'
    BY <2>0 DEF ThreadSafe, CarriedIsFresh, Carries
  <2>2. SubmitsAlone(u)'
    BY <2>0 DEF ThreadSafe, SubmitsAlone
  <2>3. ReleasesAlone(u)'
    BY <2>0 DEF ThreadSafe, ReleasesAlone
  <2>4. Apart(u)'
    BY <2>0 DEF ThreadSafe, Apart
  <2>5. QED
    BY <2>1, <2>2, <2>3, <2>4 DEF ThreadSafe
<1>3. QED
  BY <1>1, <1>2 DEF SafetyInv

\* A call that ends leaves its thread with nothing to be unsafe about.
LEMMA AnswerSafe ==
    ASSUME SafetyInv, TypeInv', NEW t \in Threads, NEW o, NEW key, NEW pid,
           AnswerAbout(t, o, key, pid),
           UNCHANGED <<proofs, remoteVars>>, pc[t] # "wait_preauth",
           SubmittedHasProof'
    PROVE  SafetyInv'
<1>1. pc'[t] = "idle" /\ request'[t] = None /\ reply'[t] = None
  BY Quiet DEF SafetyInv, TypeInv, TypeOK, AnswerAbout, Goto, remoteVars
<1>2. ThreadSafe(t)'
  BY <1>1, NoneAssumption
     DEF ThreadSafe, CarriedIsFresh, Carries, SubmitsAlone, ReleasesAlone, Apart,
         SubmitSection, ProofSection
<1>3. QED
  BY <1>2, LocalStep DEF SafetyInv, TypeInv, TypeOK, AnswerAbout, Goto, remoteVars

LEMMA AnswerSafe2 ==
    ASSUME SafetyInv, TypeInv', NEW t \in Threads, NEW o, Answer(t, o),
           UNCHANGED <<proofs, remoteVars>>, pc[t] # "wait_preauth",
           SubmittedHasProof'
    PROVE  SafetyInv'
BY AnswerSafe DEF Answer

\* Going on to step l inside a call, with the ledger unread and unchanged.
LEMMA GotoSafe ==
    ASSUME SafetyInv, TypeInv', NEW t \in Threads, NEW l \in Labels, Goto(t, l),
           UNCHANGED <<call, proof, proofs, remoteVars>>, pc[t] # "wait_preauth",
           l # "put_proof", SubmittedHasProof',
           SubmitsAlone(t)', ReleasesAlone(t)', Apart(t)'
    PROVE  SafetyInv'
<1>1. pc'[t] = l /\ request'[t] = None /\ reply'[t] = None
  BY Quiet DEF SafetyInv, TypeInv, TypeOK, Goto, remoteVars
<1>2. CarriedIsFresh(t)'
  BY <1>1, NoneAssumption DEF CarriedIsFresh, Carries
<1>3. QED
  BY <1>2, LocalStep DEF ThreadSafe, SafetyInv, TypeInv, TypeOK, Goto, remoteVars

\* In a locked section a thread is alone, and stays alone.
LEMMA StaysApart ==
    ASSUME SafetyInv, NEW t \in Threads,
           \A u \in Threads \ {t} : pc'[u] = pc[u] /\ call'[u] = call[u],
           pc'[t] \in SubmitSection => pc[t] \in SubmitSection /\ call'[t].key = call[t].key,
           pc'[t] \in ProofSection => pc[t] \in ProofSection /\ call'[t].pid = call[t].pid
    PROVE  Apart(t)'
BY DEF SafetyInv, ThreadSafe, Apart

\* The in-flight ledger keeps its promise when no entry turns to submitted.
LEMMA StaysSubmitted ==
    ASSUME SafetyInv, UNCHANGED proofs,
           \A k \in Keys : inflight'[k] = "submitted" => inflight[k] = "submitted"
    PROVE  SubmittedHasProof'
BY DEF SafetyInv, SubmittedHasProof

\* A new call is safe.
LEMMA StartSafe ==
    ASSUME SafetyInv, TypeInv', NEW t \in Threads, StartCall(t) PROVE SafetyInv'
<1>1. pc[t] = "idle" /\ request[t] = None /\ reply[t] = None
  BY Quiet DEF SafetyInv, StartCall, StartSubmit, StartAuthorize, Begin
<1>2. UNCHANGED <<ledgerVars, remoteVars, envVars>>
  BY DEF StartCall, StartSubmit, StartAuthorize, Begin
<1>3. SubmittedHasProof'
  BY <1>2 DEF SafetyInv, SubmittedHasProof, ledgerVars
<1>4. ASSUME NEW c, NEW l \in {"key", "get_proof"}, Proceed(t, l, c) PROVE SafetyInv'
  <2>1. /\ pc'[t] = l /\ request'[t] = None /\ reply'[t] = None
        /\ \A u \in Threads \ {t} : pc'[u] = pc[u] /\ call'[u] = call[u]
        /\ UNCHANGED proof
    BY <1>1, <1>2, <1>4 DEF SafetyInv, TypeInv, TypeOK, Proceed, Goto, remoteVars
  <2>2. ThreadSafe(t)'
    BY <1>4, <2>1, NoneAssumption
       DEF ThreadSafe, CarriedIsFresh, Carries, SubmitsAlone, ReleasesAlone, Apart,
           SubmitSection, ProofSection
  <2>3. QED
    BY <1>2, <1>3, <2>1, <2>2, LocalStep DEF ledgerVars, remoteVars
<1>5. QED
  BY <1>1, <1>2, <1>3, <1>4, AnswerSafe
     DEF StartCall, StartSubmit, StartAuthorize, ledgerVars

\* The steps of submit that the submit lock and the ledger make safe.
LEMMA SubmitSafe ==
    ASSUME ExclusiveLocks, SafetyInv, TypeInv', NEW t \in Threads, SubmitStep(t)
    PROVE  SafetyInv'
<1> USE DEF Labels, SubmitSection, ProofSection
<1>t. TypeOK /\ LocalsOK(t) /\ ThreadSafe(t)
  BY DEF SafetyInv, TypeInv
<1>1. CASE EffectiveKey(t)
  <2>1. /\ pc[t] = "key" /\ request[t] = None /\ reply[t] = None
        /\ SubmittedHasProof'
    BY <1>1, Quiet, StaysSubmitted DEF EffectiveKey, SafetyInv, ledgerVars
  <2>2. ASSUME NEW c, Proceed(t, "lock_submit", c) PROVE SafetyInv'
    <3>1. /\ pc'[t] = "lock_submit" /\ request'[t] = None /\ reply'[t] = None
          /\ \A u \in Threads \ {t} : pc'[u] = pc[u] /\ call'[u] = call[u]
          /\ UNCHANGED <<proof, proofs, remoteVars>>
      BY <1>1, <1>t, <2>1, <2>2 DEF EffectiveKey, TypeOK, Proceed, Goto, ledgerVars, remoteVars
    <3>2. ThreadSafe(t)'
      BY <3>1, NoneAssumption
         DEF ThreadSafe, CarriedIsFresh, Carries, SubmitsAlone, ReleasesAlone, Apart
    <3>3. QED
      BY <2>1, <3>1, <3>2, LocalStep DEF remoteVars
  <2>3. QED
    BY <1>1, <2>1, <2>2, AnswerSafe, AnswerSafe2 DEF EffectiveKey, ledgerVars
<1>2. CASE AcquireSubmit(t)
  <2>1. pc[t] = "lock_submit" /\ pc' = [pc EXCEPT ![t] = "find"] /\ UNCHANGED <<call, proof>>
    BY <1>2 DEF AcquireSubmit, Goto
  <2>2. SubmittedHasProof'
    BY <1>2, StaysSubmitted DEF AcquireSubmit, ledgerVars
  <2>3. Apart(t)'
    BY <1>2, <1>t, <2>1
       DEF AcquireSubmit, SubmitLockTaken, SeesLockOf, ExclusiveLocks, Apart, TypeOK
  <2>4. SubmitsAlone(t)' /\ ReleasesAlone(t)'
    BY <1>2, <1>t, <2>1, Quiet
       DEF AcquireSubmit, SafetyInv, TypeOK, SubmitsAlone, ReleasesAlone, remoteVars
  <2>5. QED
    BY <1>2, <2>2, <2>3, <2>4, GotoSafe DEF AcquireSubmit, ledgerVars
<1>3. CASE SubmitLockTimeout(t)
  BY <1>3, StaysSubmitted, AnswerSafe2 DEF SubmitLockTimeout, ledgerVars
<1>4. CASE FindProof(t)
  <2>1. SubmittedHasProof'
    BY <1>4, StaysSubmitted DEF FindProof, ledgerVars
  <2>2. CASE /\ \A p \in ProofIds : proofs[p] # None => proofs[p].key # call[t].key
             /\ Goto(t, "prior")
             /\ UNCHANGED <<call, proof, outcome>>
    <3>1. Apart(t)'
      BY <1>4, <1>t, <2>2, StaysApart DEF FindProof, Goto, TypeOK
    <3>2. SubmitsAlone(t)' /\ ReleasesAlone(t)'
      BY <1>4, <1>t, <2>2, Quiet
         DEF FindProof, SafetyInv, Goto, TypeOK, SubmitsAlone, ReleasesAlone, ledgerVars, remoteVars
    <3>3. QED
      BY <1>4, <2>1, <2>2, <3>1, <3>2, GotoSafe DEF FindProof, ledgerVars
  <2>3. QED
    BY <1>4, <2>1, <2>2, AnswerSafe DEF FindProof, ledgerVars
<1>5. ASSUME NEW l \in {"query", "clear", "begin", "upload"}, Goto(t, l),
             pc[t] \in {"prior", "query", "clear", "begin"},
             UNCHANGED <<call, proof, proofs, remoteVars>>, SubmittedHasProof'
      PROVE  SafetyInv'
  <2>1. Apart(t)'
    BY <1>5, <1>t, StaysApart DEF Goto, TypeOK
  <2>2. SubmitsAlone(t)' /\ ReleasesAlone(t)'
    BY <1>5, <1>t DEF ThreadSafe, Goto, TypeOK, SubmitsAlone, ReleasesAlone, remoteVars
  <2>3. QED
    BY <1>5, <2>1, <2>2, GotoSafe
<1>6. CASE CheckPrior(t)
  <2>1. SubmittedHasProof'
    BY <1>6, StaysSubmitted DEF CheckPrior, ledgerVars
  <2>2. QED
    BY <1>5, <1>6, <2>1 DEF CheckPrior, ledgerVars
<1>7. CASE QueryJob(t)
  <2>1. SubmittedHasProof'
    BY <1>7, StaysSubmitted DEF QueryJob, ledgerVars
  <2>2. QED
    BY <1>5, <1>7, <2>1, AnswerSafe2 DEF QueryJob, ledgerVars
<1>8. CASE ClearOrphan(t)
  <2>1. SubmittedHasProof'
    BY <1>8, <1>t, StaysSubmitted DEF ClearOrphan, TypeOK
  <2>2. QED
    BY <1>5, <1>8, <2>1 DEF ClearOrphan
<1>9. CASE BeginAttempt(t)
  <2>1. SubmittedHasProof'
    BY <1>9, <1>t, StaysSubmitted DEF BeginAttempt, TypeOK
  <2>2. QED
    BY <1>5, <1>9, <2>1 DEF BeginAttempt
<1>10. CASE Upload(t)
  <2>1. /\ pc[t] = "upload" /\ UNCHANGED <<call, proof, proofs, jobs, releases, reply>>
        /\ pc' = [pc EXCEPT ![t] = "wait_preauth"]
        /\ request' = [request EXCEPT ![t] =
                           [name |-> call[t].job, key |-> call[t].key, content |-> doc]]
    BY <1>10 DEF Upload, Goto, ledgerVars
  <2>2. SubmittedHasProof'
    BY <1>10, StaysSubmitted DEF Upload, ledgerVars
  <2>3. Apart(t)'
    BY <1>t, <2>1, StaysApart DEF TypeOK
  <2>4. SubmitsAlone(t)' /\ ReleasesAlone(t)'
    BY <1>t, <2>1, Quiet DEF SafetyInv, ThreadSafe, TypeOK, SubmitsAlone, ReleasesAlone
  <2>5. CarriedIsFresh(t)'
    BY <1>t, <2>1, Quiet, NoneAssumption DEF SafetyInv, CarriedIsFresh, Carries, TypeOK
  <2>6. QED
    BY <1>t, <2>1, <2>2, <2>3, <2>4, <2>5, LocalStep DEF ThreadSafe, TypeOK
<1>17. CASE UploadFails(t)
  <2>1. /\ pc[t] = "upload" /\ UNCHANGED <<call, proof, proofs, inflight, remoteVars>>
        /\ Goto(t, "fail") /\ pc' = [pc EXCEPT ![t] = "fail"]
    BY <1>17 DEF UploadFails, Raise, Goto, ledgerVars
  <2>2. SubmittedHasProof' /\ Apart(t)'
    BY <1>t, <2>1, StaysSubmitted, StaysApart DEF TypeOK
  <2>3. SubmitsAlone(t)' /\ ReleasesAlone(t)'
    BY <1>t, <2>1, Quiet
       DEF SafetyInv, ThreadSafe, TypeOK, SubmitsAlone, ReleasesAlone, remoteVars
  <2>4. QED
    BY <2>1, <2>2, <2>3, GotoSafe
<1>11. CASE PreauthFails(t)
  <2>1. /\ pc[t] = "wait_preauth" /\ UNCHANGED <<call, proof, proofs, jobs, releases>>
        /\ pc' = [pc EXCEPT ![t] = "fail"]
        /\ request' = [request EXCEPT ![t] = None]
        /\ reply' = [reply EXCEPT ![t] = None]
    BY <1>11 DEF PreauthFails, Abandon, Raise, Goto, ledgerVars
  <2>2. SubmittedHasProof'
    BY <1>11, StaysSubmitted DEF PreauthFails, ledgerVars
  <2>3. Apart(t)'
    BY <1>t, <2>1, StaysApart DEF TypeOK
  <2>4. SubmitsAlone(t)' /\ ReleasesAlone(t)'
    BY <1>t, <2>1 DEF ThreadSafe, TypeOK, SubmitsAlone, ReleasesAlone
  <2>5. CarriedIsFresh(t)'
    BY <1>t, <2>1, NoneAssumption DEF CarriedIsFresh, Carries, TypeOK
  <2>6. QED
    BY <1>t, <2>1, <2>2, <2>3, <2>4, <2>5, LocalStep DEF ThreadSafe, TypeOK
<1>12. CASE FailAttempt(t)
  <2>1. SubmittedHasProof'
    BY <1>12, <1>t, StaysSubmitted DEF FailAttempt, TypeOK
  <2>2. QED
    BY <1>12, <2>1, AnswerSafe2 DEF FailAttempt
<1>13. CASE PreauthReply(t)
  <2>1. PICK cost \in {jobs[reply[t]].price, None} :
            proof' = [proof EXCEPT ![t] =
                         [code |-> reply[t], hash |-> call[t].hash, key |-> call[t].key,
                          cost |-> cost, claimed |-> FALSE, authorized |-> FALSE]]
    BY <1>13 DEF PreauthReply
  <2>2. /\ pc[t] = "wait_preauth" /\ reply[t] # None /\ request[t] = None
        /\ UNCHANGED <<call, proofs, jobs, releases, request>>
        /\ pc' = [pc EXCEPT ![t] = "put_proof"]
        /\ reply' = [reply EXCEPT ![t] = None]
    BY <1>13, <1>t DEF PreauthReply, Goto, LocalsOK, ledgerVars
  <2>3. SubmittedHasProof'
    BY <1>13, StaysSubmitted DEF PreauthReply, ledgerVars
  <2>4. Apart(t)'
    BY <1>t, <2>2, StaysApart DEF TypeOK
  <2>5. /\ proof'[t].code = reply[t] /\ proof'[t].key = call[t].key
        /\ ~proof'[t].claimed /\ ~proof'[t].authorized
        /\ \A u \in Threads \ {t} : proof'[u] = proof[u]
    BY <1>t, <2>1 DEF TypeOK
  <2>6. SubmitsAlone(t)' /\ ReleasesAlone(t)'
    BY <1>t, <2>2, <2>5 DEF ThreadSafe, TypeOK, SubmitsAlone, ReleasesAlone
  <2>7. ASSUME NEW a \in Authcodes, NEW u \in Threads, Carries(u, a)' PROVE Carries(u, a)
    BY <1>t, <2>2, <2>5, <2>7, NoneAssumption DEF Carries, TypeOK
  <2>8. CarriedIsFresh(t)'
    BY <1>t, <2>2, <2>7 DEF ThreadSafe, CarriedIsFresh
  <2>9. QED
    BY <1>t, <2>2, <2>3, <2>4, <2>5, <2>6, <2>8, LocalStep DEF ThreadSafe, TypeOK
<1>14. CASE PutProof(t)
  <2>1. PICK p \in ProofIds : /\ proofs[p] = None
                              /\ proofs' = [proofs EXCEPT ![p] = proof[t]]
                              /\ call' = [call EXCEPT ![t].pid = p]
    BY <1>14 DEF PutProof
  <2>2. /\ pc[t] = "put_proof" /\ pc' = [pc EXCEPT ![t] = "complete"]
        /\ UNCHANGED <<proof, inflight, jobs, request, reply, releases>>
    BY <1>14 DEF PutProof, Goto, remoteVars
  <2> DEFINE r == proof[t]
  <2>3. /\ r \in ProofRecord /\ r # None /\ r.code \in Authcodes
        /\ ~r.claimed /\ ~r.authorized /\ r.key = call[t].key
        /\ \A q \in ProofIds : proofs[q] # None => proofs[q].key # r.key
        /\ \A q \in ProofIds : proofs[q] # None => proofs[q].code # r.code
        /\ jobs[r.code] # None /\ jobs[r.code].key = r.key /\ releases[r.code] = 0
        /\ \A u \in Threads : Carries(u, r.code) => u = t
    <3>1. r \in ProofRecord /\ r # None /\ r.code \in Authcodes
      BY <1>t, <2>2, NoneAssumption DEF LocalsOK, ProofRecord
    <3>2. Carries(t, r.code)
      BY <2>2 DEF Carries
    <3>3. QED
      BY <1>t, <2>2, <3>1, <3>2 DEF ThreadSafe, CarriedIsFresh, SubmitsAlone
  <2>4. /\ call'[t].key = call[t].key
        /\ \A u \in Threads \ {t} : call'[u] = call[u] /\ pc'[u] = pc[u]
        /\ pc'[t] = "complete"
        /\ request'[t] = None /\ reply'[t] = None
    BY <1>t, <2>1, <2>2, Quiet DEF SafetyInv, TypeOK, CallRecord
  <2>5. /\ proofs'[p] = r
        /\ \A q \in ProofIds \ {p} : proofs'[q] = proofs[q]
    BY <1>t, <2>1 DEF TypeOK
  <2> HIDE DEF r
  <2>6. LedgerSafe'
    <3>1. ProofsAreBacked'
      BY <2>2, <2>3, <2>5 DEF SafetyInv, LedgerSafe, ProofsAreBacked
    <3>2. OneProofPerKey'
      BY <2>3, <2>5 DEF SafetyInv, LedgerSafe, OneProofPerKey
    <3>3. ReleasesAreOnRecord'
      BY <2>1, <2>2, <2>3, <2>5 DEF SafetyInv, LedgerSafe, ReleasesAreOnRecord
    <3>4. (AtMostOneRelease /\ UnheldIsUnreleased)'
      BY <2>2 DEF SafetyInv, LedgerSafe, AtMostOneRelease, UnheldIsUnreleased
    <3>5. QED
      BY <3>1, <3>2, <3>3, <3>4 DEF LedgerSafe
  <2>7. SubmittedHasProof'
    BY <2>1, <2>2, <2>5 DEF SafetyInv, SubmittedHasProof
  <2>8. ThreadSafe(t)'
    <3>1. CarriedIsFresh(t)' /\ ReleasesAlone(t)'
      BY <2>4, NoneAssumption DEF CarriedIsFresh, Carries, ReleasesAlone
    <3>2. SubmitsAlone(t)'
      BY <2>3, <2>4, <2>5 DEF SubmitsAlone
    <3>3. Apart(t)'
      BY <2>2, <2>4, StaysApart
    <3>4. QED
      BY <3>1, <3>2, <3>3 DEF ThreadSafe
  <2>9. ASSUME NEW u \in Threads \ {t} PROVE ThreadSafe(u)'
    <3>1. ThreadSafe(u) /\ LocalsOK(u) /\ ~Carries(u, r.code)
      BY <2>3 DEF SafetyInv, TypeInv
    <3>2. CarriedIsFresh(u)'
      <4>1. ASSUME NEW a \in Authcodes, NEW w \in Threads, Carries(w, a)' PROVE Carries(w, a)
        BY <2>2, <2>4, <4>1, NoneAssumption DEF Carries
      <4>2. ASSUME NEW a \in Authcodes, Carries(u, a)' PROVE a # r.code
        BY <3>1, <4>1, <4>2
      <4>3. QED
        BY <2>2, <2>4, <2>5, <3>1, <4>1, <4>2 DEF ThreadSafe, CarriedIsFresh
    <3>3. SubmitsAlone(u)'
      <4>1. pc[u] \in SubmitSection => call[u].key # r.key
        BY <2>2, <2>3, <3>1 DEF ThreadSafe, Apart
      <4>2. pc[u] = "complete" => \E q \in ProofIds \ {p} :
                                      proofs[q] # None /\ proofs[q].key = call[u].key
        BY <2>1, <3>1 DEF ThreadSafe, SubmitsAlone
      <4>3. UNCHANGED <<pc[u], call[u], proof[u], request[u]>>
        BY <2>2, <2>4
      <4>4. SubmitsAlone(u)
        BY <3>1 DEF ThreadSafe
      <4>5. QED
        BY <2>3, <2>5, <4>1, <4>2, <4>3, <4>4 DEF SubmitsAlone
    <3>4. ReleasesAlone(u)'
      BY <2>1, <2>2, <2>4, <2>5, <3>1, NoneAssumption DEF ThreadSafe, ReleasesAlone, LocalsOK
    <3>5. Apart(u)'
      BY <2>2, <2>4, <3>1 DEF ThreadSafe, Apart
    <3>6. QED
      BY <3>2, <3>3, <3>4, <3>5 DEF ThreadSafe
  <2>10. QED
    BY <2>6, <2>7, <2>8, <2>9 DEF SafetyInv
<1>15. CASE CompleteAttempt(t)
  <2>1. SubmittedHasProof'
    BY <1>15, <1>t DEF CompleteAttempt, SafetyInv, ThreadSafe, SubmitsAlone,
         SubmittedHasProof, TypeOK
  <2>2. QED
    BY <1>15, <2>1, AnswerSafe2 DEF CompleteAttempt
<1>16. QED
  BY <1>1, <1>2, <1>3, <1>4, <1>6, <1>7, <1>8, <1>9, <1>10, <1>11, <1>12, <1>13, <1>14, <1>15,
     <1>17
     DEF SubmitStep

\* A job whose proof is not stamped has not been sent a release.
LEMMA UnclaimedIsUnreleased ==
    ASSUME SafetyInv, NEW p \in ProofIds, proofs[p] # None, ~proofs[p].claimed
    PROVE  releases[proofs[p].code] = 0
<1>1. proofs[p] \in ProofRecord /\ proofs[p].code \in Authcodes
  BY DEF SafetyInv, TypeInv, TypeOK, ProofRecord
<1>2. releases[proofs[p].code] \in Nat
  BY <1>1 DEF SafetyInv, TypeInv, TypeOK
<1>3. ~(releases[proofs[p].code] > 0)
  BY <1>1 DEF SafetyInv, LedgerSafe, ReleasesAreOnRecord, ProofsAreBacked
<1>4. QED
  BY <1>2, <1>3

\* Stamping the proof that thread t has locked is safe.
LEMMA StampSafe ==
    ASSUME SafetyInv, TypeInv', NEW t \in Threads, pc[t] \in {"claim", "record"},
           NEW r \in ProofRecord, proofs' = [proofs EXCEPT ![call[t].pid] = r],
           r.code = proof[t].code, r.key = proof[t].key, r.claimed,
           r.authorized => ErrorsHide \/ jobs[r.code].mailed,
           UNCHANGED <<inflight, remoteVars>>,
           \A u \in Threads \ {t} : pc'[u] = pc[u] /\ call'[u] = call[u] /\ proof'[u] = proof[u],
           pc'[t] \in {"release", "idle"}, ReleasesAlone(t)', Apart(t)'
    PROVE  SafetyInv'
<1> USE DEF SubmitSection, ProofSection
<1> DEFINE p == call[t].pid
<1>t. TypeOK /\ LocalsOK(t) /\ ThreadSafe(t)
  BY DEF SafetyInv, TypeInv
<1>1. /\ p \in ProofIds /\ proofs[p] = proof[t] /\ proof[t] # None
      /\ request[t] = None /\ reply[t] = None /\ r # None
  BY <1>t, Quiet, NoneAssumption
     DEF LocalsOK, AuthorizeLabels, ThreadSafe, ReleasesAlone, SafetyInv
<1>2. /\ proofs'[p] = r
      /\ \A q \in ProofIds \ {p} : proofs'[q] = proofs[q]
  BY <1>t, <1>1 DEF TypeOK
<1>3. \A u \in Threads \ {t} : pc[u] \in ProofSection => call[u].pid # p
  BY <1>t DEF ThreadSafe, Apart
<1>4. UNCHANGED <<jobs, request, reply, releases>>
  BY DEF remoteVars
<1> HIDE DEF p
<1>5. \A q \in ProofIds : /\ proofs[q] # None <=> proofs'[q] # None
                          /\ proofs'[q] # None => /\ proofs'[q].code = proofs[q].code
                                                  /\ proofs'[q].key = proofs[q].key
  BY <1>1, <1>2
<1>6. LedgerSafe'
  <2>1. ProofsAreBacked'
    BY <1>4, <1>5 DEF SafetyInv, LedgerSafe, ProofsAreBacked
  <2>2. OneProofPerKey'
    BY <1>5 DEF SafetyInv, LedgerSafe, OneProofPerKey
  <2>3. ReleasesAreOnRecord'
    BY <1>1, <1>2, <1>4 DEF SafetyInv, LedgerSafe, ReleasesAreOnRecord
  <2>4. (AtMostOneRelease /\ UnheldIsUnreleased)'
    BY <1>4 DEF SafetyInv, LedgerSafe, AtMostOneRelease, UnheldIsUnreleased
  <2>5. QED
    BY <2>1, <2>2, <2>3, <2>4 DEF LedgerSafe
<1>7. SubmittedHasProof'
  BY <1>5 DEF SafetyInv, SubmittedHasProof
<1>8. ThreadSafe(t)'
  BY <1>1, <1>4, NoneAssumption DEF ThreadSafe, CarriedIsFresh, Carries, SubmitsAlone
<1>9. ASSUME NEW u \in Threads \ {t} PROVE ThreadSafe(u)'
  <2>1. ThreadSafe(u)
    BY DEF SafetyInv
  <2>2. CarriedIsFresh(u)'
    <3>1. ASSUME NEW a \in Authcodes, NEW w \in Threads, Carries(w, a)' PROVE Carries(w, a)
      BY <1>1, <1>4, <3>1, NoneAssumption DEF Carries
    <3>2. QED
      BY <1>4, <1>5, <2>1, <3>1 DEF ThreadSafe, CarriedIsFresh
  <2>3. SubmitsAlone(u)'
    <3>1. UNCHANGED <<pc[u], call[u], proof[u], request[u]>>
      BY <1>4
    <3>2. SubmitsAlone(u)
      BY <2>1 DEF ThreadSafe
    <3>3. QED
      BY <1>5, <3>1, <3>2 DEF SubmitsAlone
  <2>4. ReleasesAlone(u)'
    <3>1. pc[u] \in ProofSection => call[u].pid \in ProofIds \ {p}
      BY <1>3 DEF SafetyInv, TypeInv, LocalsOK, AuthorizeLabels
    <3>2. QED
      BY <1>2, <1>4, <2>1, <3>1 DEF ThreadSafe, ReleasesAlone
  <2>5. Apart(u)'
    BY <2>1 DEF ThreadSafe, Apart
  <2>6. QED
    BY <2>2, <2>3, <2>4, <2>5 DEF ThreadSafe
<1>10. QED
  BY <1>6, <1>7, <1>8, <1>9 DEF SafetyInv

\* The steps of authorize: the proof's lock, the read under it and the stamp
\* written before the request make the one release request safe.
LEMMA AuthorizeSafe ==
    ASSUME ExclusiveLocks, SafetyInv, TypeInv', NEW t \in Threads, AuthorizeStep(t)
    PROVE  SafetyInv'
<1> USE DEF Labels, SubmitSection, ProofSection
<1>t. TypeOK /\ LocalsOK(t) /\ ThreadSafe(t)
  BY DEF SafetyInv, TypeInv
<1>1. CASE GetProof(t)
  <2>1. SubmittedHasProof'
    BY <1>1, StaysSubmitted DEF GetProof, ledgerVars
  <2>2. CASE Goto(t, "lock_proof") /\ UNCHANGED <<call, proof, outcome>>
    <3>1. /\ Apart(t)' /\ ReleasesAlone(t)' /\ pc'[t] = "lock_proof"
      BY <1>t, <2>2 DEF Goto, TypeOK, Apart, ReleasesAlone
    <3>2. SubmitsAlone(t)'
      BY <1>1, <3>1, Quiet DEF GetProof, SafetyInv, SubmitsAlone, remoteVars
    <3>3. QED
      BY <1>1, <2>1, <2>2, <3>1, <3>2, GotoSafe DEF GetProof, ledgerVars
  <2>3. QED
    BY <1>1, <2>1, <2>2, AnswerSafe2 DEF GetProof, ledgerVars
<1>2. CASE AcquireProof(t)
  <2>1. pc[t] = "lock_proof" /\ pc' = [pc EXCEPT ![t] = "check"] /\ UNCHANGED <<call, proof>>
    BY <1>2 DEF AcquireProof, Goto
  <2>2. SubmittedHasProof'
    BY <1>2, StaysSubmitted DEF AcquireProof, ledgerVars
  <2>3. Apart(t)'
    BY <1>2, <1>t, <2>1
       DEF AcquireProof, ProofLockTaken, SeesLockOf, ExclusiveLocks, Apart, TypeOK
  <2>4. SubmitsAlone(t)' /\ ReleasesAlone(t)'
    BY <1>2, <1>t, <2>1, Quiet
       DEF AcquireProof, SafetyInv, TypeOK, SubmitsAlone, ReleasesAlone, remoteVars
  <2>5. QED
    BY <1>2, <2>2, <2>3, <2>4, GotoSafe DEF AcquireProof, ledgerVars
<1>3. CASE ProofLockTimeout(t)
  BY <1>3, StaysSubmitted, AnswerSafe2 DEF ProofLockTimeout, ledgerVars
<1>4. CASE CheckProof(t)
  <2>1. SubmittedHasProof'
    BY <1>4, StaysSubmitted DEF CheckProof, ledgerVars
  <2>2. CASE Verdict(call[t].pid, call[t].hash) = "ok"
    <3>1. /\ pc[t] = "check" /\ pc' = [pc EXCEPT ![t] = "document"]
          /\ proof' = [proof EXCEPT ![t] = proofs[call[t].pid]]
          /\ UNCHANGED <<call, outcome, sent, ledgerVars, remoteVars, envVars>>
      BY <1>4, <2>2 DEF CheckProof, Goto
    <3>2. ~proofs[call[t].pid].claimed /\ ~proofs[call[t].pid].authorized
      BY <2>2 DEF Verdict
    <3>3. ReleasesAlone(t)' /\ SubmitsAlone(t)'
      BY <1>t, <3>1, <3>2, Quiet
         DEF SafetyInv, TypeOK, ReleasesAlone, SubmitsAlone, ledgerVars, remoteVars
    <3>4. Apart(t)'
      BY <1>t, <3>1, StaysApart DEF TypeOK
    <3>5. CarriedIsFresh(t)'
      BY <1>t, <3>1, Quiet, NoneAssumption
         DEF SafetyInv, TypeOK, CarriedIsFresh, Carries, remoteVars
    <3>6. QED
      BY <1>t, <2>1, <3>1, <3>3, <3>4, <3>5, LocalStep
         DEF ThreadSafe, TypeOK, ledgerVars, remoteVars
  <2>3. QED
    BY <1>4, <2>1, <2>2, AnswerSafe2 DEF CheckProof, ledgerVars
<1>5. CASE CheckDocument(t)
  <2>1. SubmittedHasProof'
    BY <1>5, StaysSubmitted DEF CheckDocument, ledgerVars
  <2>2. CASE Goto(t, "claim") /\ UNCHANGED <<call, proof, outcome>>
    <3>1. Apart(t)'
      BY <1>5, <1>t, <2>2, StaysApart DEF CheckDocument, Goto, TypeOK
    <3>2. SubmitsAlone(t)' /\ ReleasesAlone(t)'
      BY <1>5, <1>t, <2>2, Quiet
         DEF CheckDocument, SafetyInv, ThreadSafe, Goto, TypeOK, SubmitsAlone, ReleasesAlone,
             ledgerVars, remoteVars
    <3>3. QED
      BY <1>5, <2>1, <2>2, <3>1, <3>2, GotoSafe DEF CheckDocument, ledgerVars
  <2>3. QED
    BY <1>5, <2>1, <2>2, AnswerSafe2 DEF CheckDocument, ledgerVars
<1>6. CASE ClaimRelease(t)
  <2> DEFINE r == [proof[t] EXCEPT !.claimed = TRUE]
  <2>1. /\ pc[t] = "claim" /\ pc' = [pc EXCEPT ![t] = "release"]
        /\ proof' = [proof EXCEPT ![t] = r]
        /\ proofs' = [proofs EXCEPT ![call[t].pid] = proof'[t]]
        /\ UNCHANGED <<call, inflight, remoteVars>>
    BY <1>6 DEF ClaimRelease, Goto
  <2>2. /\ proof[t] \in ProofRecord /\ call[t].pid \in ProofIds
        /\ proofs[call[t].pid] = proof[t] /\ ~proof[t].claimed /\ ~proof[t].authorized
    BY <1>t, <2>1 DEF LocalsOK, AuthorizeLabels, ThreadSafe, ReleasesAlone
  <2>3. /\ r \in ProofRecord /\ r.code = proof[t].code /\ r.key = proof[t].key
        /\ r.claimed /\ ~r.authorized
    BY <2>2, ProofTypes DEF ProofRecord
  <2>4. releases[r.code] = 0
    BY <2>2, <2>3, NoneAssumption, UnclaimedIsUnreleased
  <2>5. proof'[t] = r /\ proofs' = [proofs EXCEPT ![call[t].pid] = r] /\ pc'[t] = "release"
        /\ \A u \in Threads \ {t} : pc'[u] = pc[u] /\ proof'[u] = proof[u]
    BY <1>t, <2>1 DEF TypeOK
  <2>6. Apart(t)'
    BY <2>1, <2>5, StaysApart
  <2> HIDE DEF r
  <2>7. proofs'[call[t].pid] = r
    BY <1>t, <2>2, <2>5 DEF TypeOK
  <2>8. ReleasesAlone(t)'
    BY <2>1, <2>3, <2>4, <2>5, <2>7 DEF ReleasesAlone, remoteVars
  <2>9. QED
    BY <2>1, <2>3, <2>5, <2>6, <2>8, StampSafe
<1>7. CASE SendRelease(t)
  <2> DEFINE c == proof[t].code
             p == call[t].pid
  <2>1. /\ pc[t] = "release" /\ pc' = [pc EXCEPT ![t] = "wait_release"]
        /\ releases' = [releases EXCEPT ![c] = @ + 1]
        /\ UNCHANGED <<call, proof, proofs, inflight, jobs, request, reply>>
    BY <1>7 DEF SendRelease, Goto, ledgerVars
  <2>2. /\ proof[t] \in ProofRecord /\ p \in ProofIds /\ c \in Authcodes
        /\ proofs[p] = proof[t] /\ proof[t].claimed /\ proofs[p] # None
        /\ releases[c] = 0 /\ request[t] = None /\ reply[t] = None
    BY <1>t, <2>1, Quiet, NoneAssumption
       DEF LocalsOK, AuthorizeLabels, ThreadSafe, ReleasesAlone, ProofRecord, SafetyInv
  <2>3. /\ releases'[c] = 1
        /\ \A a \in Authcodes \ {c} : releases'[a] = releases[a]
        /\ pc'[t] = "wait_release"
        /\ \A u \in Threads \ {t} : pc'[u] = pc[u]
    BY <1>t, <2>1, <2>2 DEF TypeOK
  <2>4. LedgerSafe'
    <3>1. (ProofsAreBacked /\ OneProofPerKey)'
      BY <2>1 DEF SafetyInv, LedgerSafe, ProofsAreBacked, OneProofPerKey
    <3>2. ReleasesAreOnRecord'
      BY <2>1, <2>2, <2>3 DEF SafetyInv, LedgerSafe, ReleasesAreOnRecord
    <3>3. AtMostOneRelease'
      BY <2>3 DEF SafetyInv, LedgerSafe, AtMostOneRelease
    <3>4. UnheldIsUnreleased'
      BY <2>1, <2>2, <2>3 DEF SafetyInv, LedgerSafe, UnheldIsUnreleased, ProofsAreBacked
    <3>5. QED
      BY <3>1, <3>2, <3>3, <3>4 DEF LedgerSafe
  <2>5. SubmittedHasProof'
    BY <2>1, StaysSubmitted
  <2>6. ASSUME NEW u \in Threads PROVE ThreadSafe(u)'
    <3>1. ThreadSafe(u) /\ LocalsOK(u)
      BY DEF SafetyInv, TypeInv
    <3>2. CarriedIsFresh(u)'
      <4>1. ASSUME NEW a \in Authcodes, NEW w \in Threads, Carries(w, a)' PROVE Carries(w, a)
        BY <2>1, <2>3, <4>1 DEF Carries
      <4>2. ASSUME NEW a \in Authcodes, Carries(u, a)' PROVE a # c
        BY <2>2, <3>1, <4>1, <4>2 DEF ThreadSafe, CarriedIsFresh
      <4>3. QED
        BY <2>1, <2>3, <3>1, <4>1, <4>2 DEF ThreadSafe, CarriedIsFresh
    <3>3. SubmitsAlone(u)'
      BY <2>1, <2>3, <3>1 DEF ThreadSafe, SubmitsAlone
    <3>4. ReleasesAlone(u)'
      <4>1. CASE u = t
        BY <2>1, <2>2, <2>3, <3>1, <4>1 DEF ThreadSafe, ReleasesAlone
      <4>2. CASE u # t /\ pc[u] = "release"
        <5>1. call[u].pid \in ProofIds /\ call[u].pid # p /\ proofs[call[u].pid] = proof[u]
          BY <2>1, <3>1, <4>2 DEF ThreadSafe, Apart, ReleasesAlone, LocalsOK, AuthorizeLabels
        <5>2. proof[u] \in ProofRecord /\ proof[u] # None /\ proof[u].code \in Authcodes
          BY <3>1, <4>2, NoneAssumption DEF LocalsOK, ProofRecord
        <5>3. proof[u].code # c
          BY <2>2, <5>1, <5>2 DEF SafetyInv, LedgerSafe, ProofsAreBacked
        <5>4. QED
          BY <2>1, <2>3, <3>1, <4>2, <5>2, <5>3 DEF ThreadSafe, ReleasesAlone
      <4>3. CASE u # t /\ pc[u] # "release"
        BY <2>1, <2>3, <3>1, <4>3 DEF ThreadSafe, ReleasesAlone
      <4>4. QED
        BY <4>1, <4>2, <4>3
    <3>5. Apart(u)'
      BY <2>1, <2>3, <3>1 DEF ThreadSafe, Apart
    <3>6. QED
      BY <3>2, <3>3, <3>4, <3>5 DEF ThreadSafe
  <2>7. QED
    BY <2>4, <2>5, <2>6 DEF SafetyInv
<1>12. CASE ReleaseUnsent(t)
  BY <1>12, StaysSubmitted, AnswerSafe2 DEF ReleaseUnsent, ledgerVars
<1>8. CASE ReleaseFails(t)
  BY <1>8, StaysSubmitted, AnswerSafe2 DEF ReleaseFails, ledgerVars
<1>9. CASE ReleaseReply(t)
  <2>1. SubmittedHasProof'
    BY <1>9, StaysSubmitted DEF ReleaseReply, ledgerVars
  <2>2. Apart(t)'
    BY <1>9, <1>t, StaysApart DEF ReleaseReply, Goto, TypeOK
  <2>3. SubmitsAlone(t)' /\ ReleasesAlone(t)'
    BY <1>9, <1>t, Quiet
       DEF ReleaseReply, SafetyInv, ThreadSafe, Goto, TypeOK, SubmitsAlone, ReleasesAlone,
           ledgerVars, remoteVars
  <2>4. QED
    BY <1>9, <2>1, <2>2, <2>3, GotoSafe DEF ReleaseReply, ledgerVars
<1>10. CASE RecordRelease(t)
  <2> DEFINE r == [proof[t] EXCEPT !.authorized = TRUE]
  <2>1. /\ pc[t] = "record" /\ Answer(t, "mailed")
        /\ proofs' = [proofs EXCEPT ![call[t].pid] = r]
        /\ UNCHANGED <<inflight, remoteVars>>
    BY <1>10 DEF RecordRelease
  <2>2. /\ proof[t] \in ProofRecord /\ proof[t].claimed
        /\ ErrorsHide \/ jobs[proof[t].code].mailed
    BY <1>t, <2>1 DEF LocalsOK, ThreadSafe, ReleasesAlone
  <2>3. /\ r \in ProofRecord /\ r.code = proof[t].code /\ r.key = proof[t].key
        /\ r.claimed /\ (ErrorsHide \/ jobs[r.code].mailed)
    BY <2>2, ProofTypes DEF ProofRecord
  <2> HIDE DEF r
  <2>4. /\ pc'[t] = "idle"
        /\ \A u \in Threads \ {t} : pc'[u] = pc[u] /\ call'[u] = call[u] /\ proof'[u] = proof[u]
    BY <1>t, <2>1 DEF Answer, AnswerAbout, Goto, TypeOK
  <2>5. ReleasesAlone(t)' /\ Apart(t)'
    BY <2>4 DEF ReleasesAlone, Apart
  <2>6. QED
    BY <2>1, <2>3, <2>4, <2>5, StampSafe
<1>11. QED
  BY <1>1, <1>2, <1>3, <1>4, <1>5, <1>6, <1>7, <1>8, <1>9, <1>10, <1>12 DEF AuthorizeStep

\* A ledger operation that fails leaves the ledger as it is.
LEMMA LedgerFailsSafe ==
    ASSUME SafetyInv, TypeInv', NEW t \in Threads, LedgerFails(t) PROVE SafetyInv'
<1>1. SubmittedHasProof' /\ UNCHANGED <<proofs, remoteVars>>
  BY StaysSubmitted DEF LedgerFails, ledgerVars
<1>2. pc[t] # "wait_preauth"
  BY DEF LedgerFails, LedgerReads, LedgerWrites
<1>3. QED
  BY <1>1, <1>2, AnswerSafe2 DEF LedgerFails

\* An authcode LetterStream gives to a new job is one nobody knows.
LEMMA NewJob ==
    ASSUME SafetyInv, NEW m \in Message, NEW a \in Authcodes, HoldJob(m, a),
           UNCHANGED <<proofs, releases>>
    PROVE  /\ LedgerSafe'
           /\ jobs'[a] # None /\ jobs'[a].key = m.key /\ releases[a] = 0
           /\ \A b \in Authcodes \ {a} : jobs'[b] = jobs[b]
           /\ \A p \in ProofIds : proofs[p] # None => proofs[p].code # a
           /\ \A u \in Threads : ~Carries(u, a)
<1>1. PICK price \in Prices :
          jobs' = [jobs EXCEPT ![a] = [name |-> m.name, key |-> m.key, content |-> m.content,
                                       price |-> price, mailed |-> FALSE]]
  BY DEF HoldJob
<1> DEFINE j == [name |-> m.name, key |-> m.key, content |-> m.content,
                 price |-> price, mailed |-> FALSE]
<1>2. j # None /\ j.key = m.key
  <2>1. j \in JobRecord
    BY DEF Message, JobRecord
  <2>2. QED
    BY <2>1, NoneAssumption
<1> HIDE DEF j
<1>3. jobs' = [jobs EXCEPT ![a] = j] /\ jobs[a] = None
  BY <1>1 DEF j, HoldJob
<1>4. jobs'[a] = j /\ \A b \in Authcodes \ {a} : jobs'[b] = jobs[b]
  BY <1>3 DEF SafetyInv, TypeInv, TypeOK
<1>5. \A p \in ProofIds : proofs[p] # None => proofs[p].code \in Authcodes \ {a}
  BY <1>3, NoneAssumption
     DEF SafetyInv, LedgerSafe, ProofsAreBacked, TypeInv, TypeOK, ProofRecord
<1>6. releases[a] = 0 /\ \A u \in Threads : ~Carries(u, a)
  BY <1>3 DEF SafetyInv, LedgerSafe, UnheldIsUnreleased, ThreadSafe, CarriedIsFresh
<1>7. LedgerSafe'
  BY <1>2, <1>4, <1>5, <1>6
     DEF SafetyInv, LedgerSafe, ProofsAreBacked, OneProofPerKey, ReleasesAreOnRecord,
         AtMostOneRelease, UnheldIsUnreleased
<1>8. QED
  BY <1>2, <1>4, <1>5, <1>6, <1>7

\* What LetterStream, the disk, the clock and crashes do is safe.
LEMMA WorldSafe ==
    ASSUME SafetyInv, TypeInv', LetterStreamStep \/ Surroundings PROVE SafetyInv'
<1>t. TypeOK /\ \A t \in Threads : LocalsOK(t) /\ ThreadSafe(t)
  BY DEF SafetyInv, TypeInv
<1>1. ASSUME NEW t \in Threads, NEW a \in Authcodes, AcceptSubmission(t, a) PROVE SafetyInv'
  <2>1. /\ request[t] \in Message /\ HoldJob(request[t], a) /\ request[t].key = call[t].key
        /\ pc[t] = "wait_preauth" /\ reply[t] = None
        /\ UNCHANGED <<pc, call, proof, proofs, inflight, releases>>
        /\ request' = [request EXCEPT ![t] = None]
        /\ reply' = [reply EXCEPT ![t] = a]
    BY <1>1, <1>t
       DEF AcceptSubmission, LocalsOK, TypeOK, ThreadSafe, SubmitsAlone, threadVars, ledgerVars
  <2> DEFINE Fresh(u) == /\ LedgerSafe'
                         /\ jobs'[a] # None /\ jobs'[a].key = request[t].key /\ releases[a] = 0
                         /\ \A b \in Authcodes \ {a} : jobs'[b] = jobs[b]
                         /\ \A p \in ProofIds : proofs[p] # None => proofs[p].code # a
                         /\ ~Carries(u, a)
  <2>2. \A u \in Threads : Fresh(u)
    BY <2>1, NewJob
  <2>3. ASSUME NEW u \in Threads, NEW b \in Authcodes, Carries(u, b)'
        PROVE  (u = t /\ b = a) \/ (u # t /\ b # a /\ Carries(u, b))
    BY <1>t, <2>1, <2>2, <2>3 DEF Carries, TypeOK
  <2>4. ASSUME NEW u \in Threads PROVE ThreadSafe(u)'
    <3>1. CarriedIsFresh(u)'
      BY <1>t, <2>1, <2>2, <2>3 DEF ThreadSafe, CarriedIsFresh
    <3>2. SubmitsAlone(u)'
      BY <1>t, <2>1 DEF ThreadSafe, SubmitsAlone, TypeOK
    <3>3. ReleasesAlone(u)'
      <4>1. pc[u] = "record" => proof[u].code \in Authcodes \ {a}
        BY <1>t, <2>2, NoneAssumption
           DEF ThreadSafe, ReleasesAlone, LocalsOK, AuthorizeLabels, ProofSection, ProofRecord
      <4>2. QED
        BY <1>t, <2>1, <2>2, <4>1 DEF ThreadSafe, ReleasesAlone
    <3>4. Apart(u)'
      BY <1>t, <2>1 DEF ThreadSafe, Apart
    <3>5. QED
      BY <3>1, <3>2, <3>3, <3>4 DEF ThreadSafe
  <2>5. LedgerSafe'
    BY <1>1, <2>2
  <2>6. QED
    BY <2>1, <2>4, <2>5 DEF SafetyInv, SubmittedHasProof
<1>2. ASSUME NEW m \in stray, NEW a \in Authcodes, AcceptStray(m, a) PROVE SafetyInv'
  <2>1. /\ m \in Message /\ HoldJob(m, a)
        /\ UNCHANGED <<pc, call, proof, proofs, inflight, releases, request, reply>>
    BY <1>2, <1>t DEF AcceptStray, TypeOK, threadVars, ledgerVars
  <2>2. /\ LedgerSafe'
        /\ \A b \in Authcodes \ {a} : jobs'[b] = jobs[b]
        /\ \A p \in ProofIds : proofs[p] # None => proofs[p].code # a
        /\ \A u \in Threads : ~Carries(u, a)
    BY <2>1, NewJob
  <2>3. ASSUME NEW u \in Threads, NEW b \in Authcodes, Carries(u, b)'
        PROVE  b # a /\ Carries(u, b)
    BY <2>1, <2>2, <2>3 DEF Carries
  <2>4. ASSUME NEW u \in Threads PROVE ThreadSafe(u)'
    <3>1. CarriedIsFresh(u)'
      BY <1>t, <2>1, <2>2, <2>3 DEF ThreadSafe, CarriedIsFresh
    <3>2. SubmitsAlone(u)'
      BY <1>t, <2>1 DEF ThreadSafe, SubmitsAlone
    <3>3. ReleasesAlone(u)'
      <4>1. pc[u] = "record" => proof[u].code \in Authcodes \ {a}
        BY <1>t, <2>2, NoneAssumption
           DEF ThreadSafe, ReleasesAlone, LocalsOK, AuthorizeLabels, ProofSection, ProofRecord
      <4>2. QED
        BY <1>t, <2>1, <2>2, <4>1 DEF ThreadSafe, ReleasesAlone
    <3>4. Apart(u)'
      BY <1>t, <2>1 DEF ThreadSafe, Apart
    <3>5. QED
      BY <3>1, <3>2, <3>3, <3>4 DEF ThreadSafe
  <2>5. QED
    BY <2>1, <2>2, <2>4 DEF SafetyInv, SubmittedHasProof
<1>3. ASSUME NEW a \in Authcodes, Mail(a) PROVE SafetyInv'
  <2> DEFINE j == [jobs[a] EXCEPT !.mailed = TRUE]
  <2>1. jobs' = [jobs EXCEPT ![a] = j] /\ jobs[a] # None /\ jobs[a] \in JobRecord
        /\ UNCHANGED <<pc, call, proof, proofs, inflight, releases, request, reply>>
    BY <1>3, <1>t DEF Mail, TypeOK, threadVars, ledgerVars
  <2>2. j # None /\ j.key = jobs[a].key /\ j.mailed
    BY <2>1, JobTypes, NoneAssumption DEF JobRecord
  <2> HIDE DEF j
  <2>3. \A b \in Authcodes : /\ jobs'[b] = None <=> jobs[b] = None
                             /\ jobs[b] # None => jobs'[b].key = jobs[b].key
                             /\ jobs[b].mailed => jobs'[b].mailed
    BY <1>t, <2>1, <2>2 DEF TypeOK
  <2>4. \A p \in ProofIds : proofs[p] # None => proofs[p].code \in Authcodes
    BY <1>t, NoneAssumption DEF TypeOK, ProofRecord
  <2>5. LedgerSafe'
    BY <2>1, <2>3, <2>4
       DEF SafetyInv, LedgerSafe, ProofsAreBacked, OneProofPerKey, ReleasesAreOnRecord,
           AtMostOneRelease, UnheldIsUnreleased
  <2>6. ASSUME NEW u \in Threads PROVE ThreadSafe(u)'
    <3>1. CarriedIsFresh(u)'
      BY <1>t, <2>1, <2>3 DEF ThreadSafe, CarriedIsFresh, Carries
    <3>2. SubmitsAlone(u)' /\ Apart(u)'
      BY <1>t, <2>1 DEF ThreadSafe, SubmitsAlone, Apart
    <3>3. ReleasesAlone(u)'
      <4>1. pc[u] = "record" => proof[u].code \in Authcodes
        BY <1>t DEF LocalsOK, ProofSection, ProofRecord
      <4>2. QED
        BY <1>t, <2>1, <2>3, <4>1 DEF ThreadSafe, ReleasesAlone
    <3>4. QED
      BY <3>1, <3>2, <3>3 DEF ThreadSafe
  <2>7. QED
    BY <2>1, <2>5, <2>6 DEF SafetyInv, SubmittedHasProof
<1>4. ASSUME UNCHANGED <<pc, call, proof, proofs, inflight, jobs, releases, request, reply>>
      PROVE  SafetyInv'
  BY <1>4
     DEF SafetyInv, LedgerSafe, ProofsAreBacked, OneProofPerKey, ReleasesAreOnRecord,
         AtMostOneRelease, UnheldIsUnreleased, SubmittedHasProof, ThreadSafe, CarriedIsFresh,
         Carries, SubmitsAlone, ReleasesAlone, Apart
<1>5. ASSUME NEW c \in Contents \union {Missing}, EditDocument(c) PROVE SafetyInv'
  BY <1>4, <1>5 DEF EditDocument, threadVars, ledgerVars, remoteVars
<1>6. ASSUME NEW p \in ProofIds, Expire(p) PROVE SafetyInv'
  BY <1>4, <1>6 DEF Expire, threadVars, ledgerVars, remoteVars
<1>7. ASSUME NEW proc \in Procs, NEW on \in BOOLEAN, Crash(proc, on) PROVE SafetyInv'
  <2>1. /\ UNCHANGED <<proofs, inflight, jobs, releases>>
        /\ \A u \in Threads :
               \/ /\ UNCHANGED <<pc[u], call[u], proof[u], request[u], reply[u]>>
               \/ pc'[u] = "idle" /\ request'[u] = None /\ reply'[u] = None
    BY <1>7, <1>t DEF Crash, TypeOK, ledgerVars
  <2>2. (LedgerSafe /\ SubmittedHasProof)'
    BY <2>1
       DEF SafetyInv, LedgerSafe, ProofsAreBacked, OneProofPerKey, ReleasesAreOnRecord,
           AtMostOneRelease, UnheldIsUnreleased, SubmittedHasProof
  <2>3. ASSUME NEW u \in Threads, NEW a \in Authcodes, Carries(u, a)'
        PROVE  Carries(u, a) /\ UNCHANGED <<pc[u], call[u], proof[u], request[u], reply[u]>>
    BY <2>1, <2>3, NoneAssumption DEF Carries
  <2>4. ASSUME NEW u \in Threads PROVE ThreadSafe(u)'
    <3>1. CarriedIsFresh(u)'
      BY <1>t, <2>1, <2>3 DEF ThreadSafe, CarriedIsFresh
    <3>2. SubmitsAlone(u)'
      BY <1>t, <2>1 DEF ThreadSafe, SubmitsAlone, SubmitSection
    <3>3. ReleasesAlone(u)'
      BY <1>t, <2>1 DEF ThreadSafe, ReleasesAlone
    <3>4. Apart(u)'
      BY <1>t, <2>1 DEF ThreadSafe, Apart, SubmitSection, ProofSection
    <3>5. QED
      BY <3>1, <3>2, <3>3, <3>4 DEF ThreadSafe
  <2>5. QED
    BY <2>2, <2>4 DEF SafetyInv
<1>8. QED
  BY <1>1, <1>2, <1>3, <1>5, <1>6, <1>7 DEF LetterStreamStep, Surroundings

\* Every step keeps the gate safe, when the locks exclude.
LEMMA StepSafe == ASSUME ExclusiveLocks, SafetyInv, [Next]_vars PROVE SafetyInv'
<1>1. TypeInv'
  BY StepTypes DEF SafetyInv
<1>2. ASSUME UNCHANGED vars PROVE SafetyInv'
  BY <1>1, <1>2
     DEF vars, threadVars, ledgerVars, remoteVars, SafetyInv, LedgerSafe, ProofsAreBacked,
         OneProofPerKey, ReleasesAreOnRecord, AtMostOneRelease, UnheldIsUnreleased,
         SubmittedHasProof, ThreadSafe, CarriedIsFresh, Carries, SubmitsAlone, ReleasesAlone,
         Apart
<1>3. QED
  BY <1>1, <1>2, StartSafe, SubmitSafe, AuthorizeSafe, LedgerFailsSafe, WorldSafe
     DEF Next, CallStep

\* Safety is an invariant of the gate, when the locks exclude.
LEMMA SafetyInvariance == ASSUME ExclusiveLocks PROVE Spec => []SafetyInv
<1>1. SafetyInv /\ [Next]_vars => SafetyInv'
  BY StepSafe
<1>2. QED
  BY <1>1, InitSafe, PTL DEF Spec

\* No job is sent a second release request: authorize mails a letter at most
\* once, whatever runs beside it, fails, is retried or crashes.
THEOREM MailsAtMostOnce == ASSUME ExclusiveLocks PROVE Spec => []AtMostOneRelease
<1>1. SafetyInv => AtMostOneRelease
  BY DEF SafetyInv, LedgerSafe
<1>2. QED
  BY <1>1, SafetyInvariance, PTL

\* Submits of one idempotency key never leave two proofs to authorize.
THEOREM OneProof == ASSUME ExclusiveLocks PROVE Spec => []OneProofPerKey
<1>1. SafetyInv => OneProofPerKey
  BY DEF SafetyInv, LedgerSafe
<1>2. QED
  BY <1>1, SafetyInvariance, PTL

\* A release request is always preceded, on disk, by the claim that stops the
\* next one; a proof stamped authorized_at has been mailed.
THEOREM Recorded == ASSUME ExclusiveLocks PROVE Spec => []ReleasesAreOnRecord
<1>1. SafetyInv => ReleasesAreOnRecord
  BY DEF SafetyInv, LedgerSafe
<1>2. QED
  BY <1>1, SafetyInvariance, PTL

\* A proof names the authcode of a job of its own key, and no other proof
\* names it: what authorize releases is what submit created.
THEOREM Backed == ASSUME ExclusiveLocks PROVE Spec => []ProofsAreBacked
<1>1. SafetyInv => ProofsAreBacked
  BY DEF SafetyInv, LedgerSafe
<1>2. QED
  BY <1>1, SafetyInvariance, PTL
\* What a step does to the ledgers: only three steps write a proof, and only
\* four the record of an attempt.
LEMMA LedgerSteps ==
    ASSUME [Next]_vars
    PROVE  \/ UNCHANGED ledgerVars
           \/ \E t \in Threads :
                  \/ ClearOrphan(t) \/ BeginAttempt(t) \/ FailAttempt(t) \/ PutProof(t)
                  \/ CompleteAttempt(t) \/ ClaimRelease(t) \/ RecordRelease(t)
<1>1. ASSUME NEW t \in Threads, StartCall(t) PROVE UNCHANGED ledgerVars
  BY <1>1 DEF StartCall, StartSubmit, StartAuthorize, Begin
<1>2. ASSUME NEW t \in Threads, SubmitStep(t)
      PROVE  \/ UNCHANGED ledgerVars
             \/ ClearOrphan(t) \/ BeginAttempt(t) \/ FailAttempt(t) \/ PutProof(t)
             \/ CompleteAttempt(t)
  BY <1>2
     DEF SubmitStep, EffectiveKey, AcquireSubmit, SubmitLockTimeout, FindProof, CheckPrior,
         QueryJob, Upload, UploadFails, PreauthFails, PreauthReply
<1>3. ASSUME NEW t \in Threads, AuthorizeStep(t)
      PROVE  UNCHANGED ledgerVars \/ ClaimRelease(t) \/ RecordRelease(t)
  BY <1>3
     DEF AuthorizeStep, GetProof, AcquireProof, ProofLockTimeout, CheckProof, CheckDocument,
         SendRelease, ReleaseUnsent, ReleaseFails, ReleaseReply
<1>4. ASSUME LetterStreamStep \/ Surroundings PROVE UNCHANGED ledgerVars
  BY <1>4
     DEF LetterStreamStep, Surroundings, AcceptSubmission, AcceptStray, Mail, EditDocument,
         Expire, Crash
<1>5. ASSUME UNCHANGED vars PROVE UNCHANGED ledgerVars
  BY <1>5 DEF vars
<1>6. ASSUME NEW t \in Threads, LedgerFails(t) PROVE UNCHANGED ledgerVars
  BY <1>6 DEF LedgerFails
<1>7. QED
  BY <1>1, <1>2, <1>3, <1>4, <1>5, <1>6 DEF Next, CallStep

\* A step that leaves the proofs alone keeps its promises when the key it
\* writes back as in flight has no proof.
LEMMA AttemptKeepsPromises ==
    ASSUME SafetyInv, NEW t \in Threads, UNCHANGED proofs, NEW s,
           inflight' = [inflight EXCEPT ![call[t].key] = s],
           s = "submitted" \/ pc[t] \in {"clear", "begin", "fail"}
    PROVE  PromisesKept
<1>1. \A k \in Keys : inflight[k] = "submitted" => inflight'[k] = "submitted"
  <2>1. TypeOK /\ SubmitsAlone(t) /\ SubmittedHasProof
    BY DEF SafetyInv, TypeInv, ThreadSafe
  <2>2. QED
    BY <2>1 DEF TypeOK, SubmitsAlone, SubmittedHasProof, SubmitSection
<1>2. QED
  BY <1>1 DEF PromisesKept

\* Stamping a proof changes nothing else of it.
LEMMA StampsOnly ==
    ASSUME NEW r \in ProofRecord
    PROVE  /\ Unstamped([r EXCEPT !.claimed = TRUE]) = Unstamped(r)
           /\ Unstamped([r EXCEPT !.authorized = TRUE]) = Unstamped(r)
BY DEF Unstamped, ProofRecord

\* Every step keeps the promises of the ledgers.
LEMMA StepKeepsPromises == ASSUME SafetyInv, [Next]_vars PROVE PromisesKept
<1>t. TypeOK /\ \A t \in Threads : LocalsOK(t) /\ ThreadSafe(t)
  BY DEF SafetyInv, TypeInv
<1>1. ASSUME UNCHANGED ledgerVars PROVE PromisesKept
  BY <1>1 DEF ledgerVars, PromisesKept
<1>2. ASSUME NEW t \in Threads, ClearOrphan(t) PROVE PromisesKept
  BY <1>2, AttemptKeepsPromises DEF ClearOrphan
<1>3. ASSUME NEW t \in Threads, BeginAttempt(t) PROVE PromisesKept
  BY <1>3, AttemptKeepsPromises DEF BeginAttempt
<1>4. ASSUME NEW t \in Threads, FailAttempt(t) PROVE PromisesKept
  BY <1>4, AttemptKeepsPromises DEF FailAttempt
<1>5. ASSUME NEW t \in Threads, CompleteAttempt(t) PROVE PromisesKept
  BY <1>5, AttemptKeepsPromises DEF CompleteAttempt
<1>6. ASSUME NEW t \in Threads, PutProof(t) PROVE PromisesKept
  BY <1>6, <1>t DEF PutProof, PromisesKept, TypeOK
<1>7. ASSUME NEW t \in Threads, NEW r, UNCHANGED inflight,
             pc[t] \in {"claim", "record"}, proofs' = [proofs EXCEPT ![call[t].pid] = r],
             \/ r = [proof[t] EXCEPT !.claimed = TRUE]
             \/ r = [proof[t] EXCEPT !.authorized = TRUE] /\ proof[t].claimed
      PROVE  PromisesKept
  <2>1. /\ call[t].pid \in ProofIds /\ proof[t] \in ProofRecord
        /\ proofs[call[t].pid] = proof[t] /\ ~proof[t].authorized
    BY <1>7, <1>t DEF LocalsOK, AuthorizeLabels, ProofSection, ThreadSafe, ReleasesAlone
  <2>2. r \in ProofRecord /\ Unstamped(r) = Unstamped(proof[t])
    BY <1>7, <2>1, ProofTypes, StampsOnly
  <2>3. r # None /\ (proof[t].claimed => r.claimed)
    BY <1>7, <2>1, <2>2, NoneAssumption DEF ProofRecord
  <2>4. \A q \in ProofIds : proofs'[q] = IF q = call[t].pid THEN r ELSE proofs[q]
    BY <1>7, <1>t DEF TypeOK
  <2>5. QED
    BY <1>7, <2>1, <2>2, <2>3, <2>4 DEF PromisesKept
<1>8. ASSUME NEW t \in Threads, ClaimRelease(t) PROVE PromisesKept
  <2> DEFINE r == [proof[t] EXCEPT !.claimed = TRUE]
  <2>1. proofs' = [proofs EXCEPT ![call[t].pid] = r] /\ pc[t] = "claim" /\ UNCHANGED inflight
    BY <1>8, <1>t DEF ClaimRelease, TypeOK
  <2>2. QED
    BY <1>7, <2>1
<1>9. ASSUME NEW t \in Threads, RecordRelease(t) PROVE PromisesKept
  BY <1>7, <1>9, <1>t DEF RecordRelease, ThreadSafe, ReleasesAlone
<1>10. QED
  BY <1>1, <1>2, <1>3, <1>4, <1>5, <1>6, <1>8, <1>9, LedgerSteps

\* No step of any thread, failure or crash takes back a proof, a claim, an
\* authorisation or the record that a key was submitted.
THEOREM PromisesAreKept == ASSUME ExclusiveLocks PROVE Spec => LedgerKeepsPromises
<1>1. SafetyInv /\ [Next]_vars => [PromisesKept]_vars
  BY StepKeepsPromises
<1>2. QED
  BY <1>1, SafetyInvariance, PTL DEF Spec, LedgerKeepsPromises
===========================================================================
