----------------------------- MODULE GateProofs -----------------------------
(* Theorems about Gate, for any number of threads, processes, requests,    *)
(* documents, proofs and crashes.                                          *)
EXTENDS Gate, TLAPS

SubmitLabels == {"key", "lock_submit"} \union SubmitSection
AuthorizeLabels == {"get_proof", "lock_proof"} \union ProofSection

\* What fail_attempt may have to record.
Raised == {"os_error"} \union RequestErrors

\* What a call's locals are worth at each step: which of them are set, and
\* where a submission and its answer may be.
LocalsOK(t) ==
    /\ pc[t] \in SubmitLabels => call[t].job \in Jobs /\ call[t].hash \in Contents
    /\ pc[t] \in SubmitLabels \ {"key"} => call[t].key \in Keys
    /\ pc[t] \in AuthorizeLabels => call[t].pid \in ProofIds
    /\ pc[t] \in {"put_proof"} \union (ProofSection \ {"check"}) => proof[t] \in ProofRecord
    /\ pc[t] = "fail" => outcome[t] \in Raised
    /\ request[t] # None => pc[t] = "wait_preauth" /\ reply[t] = None
    /\ reply[t] # None => pc[t] = "wait_preauth" /\ jobs[reply[t]] # None

TypeInv == TypeOK /\ \A t \in Threads : LocalsOK(t)

\* The sets the type invariant is made of.
LEMMA RequestTypes == \A r \in Requests : r.job \in Jobs /\ r.key \in Keys \union {None}
BY DEF Jobs, Keys, ExplicitKeys

LEMMA FingerprintType ==
    \A job \in Jobs, content \in Contents : Fingerprint(job, content) \in Keys
BY DEF Fingerprint, Keys

LEMMA ProcTypes == \A t \in Threads : ProcOf[t] \in Procs
BY DEF Procs

LEMMA CallTypes ==
    ASSUME NEW c \in CallRecord
    PROVE  /\ \A key \in Keys \union {None} : [c EXCEPT !.key = key] \in CallRecord
           /\ \A pid \in ProofIds : [c EXCEPT !.pid = pid] \in CallRecord
BY DEF CallRecord

LEMMA ProofTypes ==
    ASSUME NEW r \in ProofRecord
    PROVE  /\ [r EXCEPT !.claimed = TRUE] \in ProofRecord
           /\ [r EXCEPT !.authorized = TRUE] \in ProofRecord
BY DEF ProofRecord

LEMMA JobTypes == ASSUME NEW j \in JobRecord PROVE [j EXCEPT !.mailed = TRUE] \in JobRecord
BY DEF JobRecord

\* The initial state is well typed.
LEMMA InitTypes == Init => TypeInv
<1> SUFFICES ASSUME Init PROVE TypeInv
  OBVIOUS
<1>1. NoCall \in CallRecord
  BY DEF NoCall, CallRecord
<1>2. TypeOK
  BY <1>1 DEF Init, TypeOK, Labels, Outcomes
<1>3. \A t \in Threads : LocalsOK(t)
  BY DEF Init, LocalsOK, SubmitLabels, AuthorizeLabels, SubmitSection, ProofSection
<1>4. QED
  BY <1>2, <1>3 DEF TypeInv

\* A call that returns or raises leaves a well typed state behind.
LEMMA AnswerTypes ==
    ASSUME TypeInv, NEW t \in Threads, NEW o \in Outcomes,
           NEW key \in Keys \union {None}, NEW pid \in ProofIds \union {None},
           AnswerAbout(t, o, key, pid),
           UNCHANGED <<remoteVars, envVars>>,
           request[t] = None, reply[t] = None,
           sent' \in [Threads -> BOOLEAN],
           proofs' \in [ProofIds -> ProofRecord \union {None}],
           inflight' \in [Keys -> {"absent", "in_flight", "submitted"}]
    PROVE  TypeInv'
<1>1. [NoCall EXCEPT !.key = key, !.pid = pid] \in CallRecord
  BY DEF NoCall, CallRecord
<1>2. TypeOK'
  BY <1>1 DEF TypeInv, TypeOK, AnswerAbout, Goto, Labels, remoteVars, envVars
<1>3. ASSUME NEW u \in Threads PROVE LocalsOK(u)'
  BY <1>3 DEF TypeInv, TypeOK, LocalsOK, AnswerAbout, Goto, remoteVars, envVars,
              SubmitLabels, AuthorizeLabels, SubmitSection, ProofSection
<1>4. QED
  BY <1>2, <1>3 DEF TypeInv

\* Answer is AnswerAbout the key and the proof id of the call.
LEMMA AnswerIsAbout ==
    ASSUME TypeInv, NEW t \in Threads, NEW o, Answer(t, o)
    PROVE  \E key \in Keys \union {None}, pid \in ProofIds \union {None} :
               AnswerAbout(t, o, key, pid)
<1>1. call[t].key \in Keys \union {None} /\ call[t].pid \in ProofIds \union {None}
  BY DEF TypeInv, TypeOK, CallRecord
<1>2. QED
  BY <1>1 DEF Answer

\* Going on to step l with everything but the program counter unchanged.
LEMMA GotoTypes ==
    ASSUME TypeInv, NEW t \in Threads, NEW l \in Labels \ {"fail"}, Goto(t, l),
           UNCHANGED <<call, proof, sent, outcome, ledgerVars, remoteVars, envVars>>,
           request[t] = None, reply[t] = None,
           l \in SubmitLabels => pc[t] \in SubmitLabels,
           l \in SubmitLabels \ {"key"} => pc[t] \in SubmitLabels \ {"key"},
           l \in AuthorizeLabels => pc[t] \in AuthorizeLabels,
           l \in {"put_proof"} \union (ProofSection \ {"check"}) => proof[t] \in ProofRecord
    PROVE  TypeInv'
<1>1. TypeOK'
  BY DEF TypeInv, TypeOK, Goto, ledgerVars, remoteVars, envVars
<1>2. ASSUME NEW u \in Threads PROVE LocalsOK(u)'
  BY <1>2 DEF TypeInv, TypeOK, LocalsOK, Goto, ledgerVars, remoteVars, envVars
<1>3. QED
  BY <1>1, <1>2 DEF TypeInv

\* No request and no answer is under way outside "wait_preauth".
LEMMA Quiet ==
    ASSUME TypeInv, NEW t \in Threads, pc[t] # "wait_preauth"
    PROVE  request[t] = None /\ reply[t] = None
BY DEF TypeInv, LocalsOK

\* Every step of a submit call keeps the types.
LEMMA SubmitTypes == ASSUME TypeInv, NEW t \in Threads, SubmitStep(t) PROVE TypeInv'
<1> USE DEF Labels, SubmitSection, ProofSection, SubmitLabels, AuthorizeLabels
<1>t. TypeOK /\ LocalsOK(t)
  BY DEF TypeInv
<1>1. CASE EffectiveKey(t)
  <2>q. pc[t] = "key" /\ request[t] = None /\ reply[t] = None
    BY <1>1, Quiet DEF EffectiveKey
  <2> DEFINE key == IF call[t].key = None THEN Fingerprint(call[t].job, doc) ELSE call[t].key
  <2>k. doc # Missing => key \in Keys
    BY <1>t, <2>q, FingerprintType DEF TypeOK, LocalsOK, CallRecord
  <2>1. CASE doc = Missing
    <3>1. Answer(t, "os_error")
      BY <1>1, <2>1 DEF EffectiveKey
    <3>2. QED
      BY <1>1, <1>t, <2>q, <3>1, AnswerIsAbout, AnswerTypes
         DEF EffectiveKey, ledgerVars, TypeOK, Outcomes
  <2>2. CASE doc # Missing /\ ~live[ProcOf[t]]
    <3>1. AnswerAbout(t, "dry_run", key, None)
      BY <1>1, <2>2 DEF EffectiveKey
    <3>2. QED
      BY <1>1, <1>t, <2>2, <2>q, <2>k, <3>1, AnswerTypes
         DEF EffectiveKey, ledgerVars, TypeOK, Outcomes
  <2>3. CASE doc # Missing /\ live[ProcOf[t]]
    <3>1. Proceed(t, "lock_submit", [call[t] EXCEPT !.key = key])
      BY <1>1, <2>3 DEF EffectiveKey
    <3>2. [call[t] EXCEPT !.key = key] \in CallRecord
      BY <1>t, <2>3, <2>k, CallTypes DEF TypeOK
    <3>3. TypeOK'
      BY <1>1, <1>t, <3>1, <3>2
         DEF EffectiveKey, Proceed, Goto, TypeOK, ledgerVars, remoteVars, envVars
    <3>4. ASSUME NEW u \in Threads PROVE LocalsOK(u)'
      <4>1. UNCHANGED <<proof, request, reply, jobs>>
        BY <1>1, <3>1 DEF EffectiveKey, Proceed, remoteVars
      <4>2. CASE u = t
        <5>1. call'[t] = [call[t] EXCEPT !.key = key] /\ pc'[t] = "lock_submit"
          BY <1>t, <3>1 DEF Proceed, Goto, TypeOK
        <5>2. call'[t].key = key /\ call'[t].job = call[t].job /\ call'[t].hash = call[t].hash
          BY <1>t, <5>1 DEF TypeOK, CallRecord
        <5>3. QED
          BY <1>t, <2>3, <2>q, <2>k, <4>1, <4>2, <5>1, <5>2 DEF LocalsOK
      <4>3. CASE u # t
        BY <3>1, <3>4, <4>1, <4>3 DEF Proceed, Goto, TypeInv, TypeOK, LocalsOK
      <4>4. QED
        BY <4>2, <4>3
    <3>5. QED
      BY <3>3, <3>4 DEF TypeInv
  <2>4. QED
    BY <2>1, <2>2, <2>3
<1>2. CASE AcquireSubmit(t)
  BY <1>2, Quiet, GotoTypes DEF AcquireSubmit
<1>3. CASE SubmitLockTimeout(t)
  BY <1>3, <1>t, Quiet, AnswerIsAbout, AnswerTypes
     DEF SubmitLockTimeout, ledgerVars, TypeOK, Outcomes, Refusals
<1>4. CASE FindProof(t)
  <2>1. CASE \E p \in ProofIds : AnswerAbout(t, "reused", call[t].key, p)
    <3>1. call[t].key \in Keys \union {None}
      BY <1>t DEF TypeOK, CallRecord
    <3>2. QED
      BY <1>4, <1>t, <2>1, <3>1, Quiet, AnswerTypes
         DEF FindProof, ledgerVars, TypeOK, Outcomes
  <2>2. CASE Goto(t, "prior") /\ UNCHANGED <<call, proof, outcome>>
    BY <1>4, <2>2, Quiet, GotoTypes DEF FindProof
  <2>3. QED
    BY <1>4, <2>1, <2>2 DEF FindProof
<1>5. CASE CheckPrior(t)
  BY <1>5, Quiet, GotoTypes DEF CheckPrior
<1>6. CASE QueryJob(t)
  <2>1. CASE Answer(t, "orphaned")
    BY <1>6, <1>t, <2>1, Quiet, AnswerIsAbout, AnswerTypes
       DEF QueryJob, ledgerVars, TypeOK, Outcomes, Refusals
  <2>2. CASE Goto(t, "clear") /\ UNCHANGED <<call, proof, outcome>>
    BY <1>6, <2>2, Quiet, GotoTypes DEF QueryJob
  <2>3. QED
    BY <1>6, <2>1, <2>2 DEF QueryJob
<1>7. CASE ClearOrphan(t)
  <2>1. TypeOK'
    BY <1>7, <1>t DEF ClearOrphan, Goto, TypeOK, remoteVars, envVars
  <2>2. ASSUME NEW u \in Threads PROVE LocalsOK(u)'
    BY <1>7, <2>2 DEF ClearOrphan, Goto, TypeInv, TypeOK, LocalsOK, remoteVars, envVars
  <2>3. QED
    BY <2>1, <2>2 DEF TypeInv
<1>8. CASE BeginAttempt(t)
  <2>1. TypeOK'
    BY <1>8, <1>t DEF BeginAttempt, Goto, TypeOK, remoteVars, envVars
  <2>2. ASSUME NEW u \in Threads PROVE LocalsOK(u)'
    BY <1>8, <2>2 DEF BeginAttempt, Goto, TypeInv, TypeOK, LocalsOK, remoteVars, envVars
  <2>3. QED
    BY <2>1, <2>2 DEF TypeInv
<1>9. CASE Upload(t)
  <2> DEFINE m == [name |-> call[t].job, key |-> call[t].key, content |-> doc]
  <2>1. /\ request' = [request EXCEPT ![t] = m]
        /\ sent' = [sent EXCEPT ![t] = TRUE]
        /\ Goto(t, "wait_preauth")
        /\ UNCHANGED <<call, proof, outcome, ledgerVars, jobs, stray, reply, releases, envVars>>
    BY <1>9 DEF Upload
  <2>2. m \in Message
    BY <1>9, <1>t DEF Upload, TypeOK, LocalsOK, Message
  <2>3. TypeOK'
    BY <1>t, <2>1, <2>2 DEF Goto, TypeOK, ledgerVars, envVars
  <2>4. ASSUME NEW u \in Threads PROVE LocalsOK(u)'
    BY <1>9, <2>1, <2>4, Quiet
       DEF Upload, Goto, TypeInv, TypeOK, LocalsOK, ledgerVars, envVars
  <2>5. QED
    BY <2>3, <2>4 DEF TypeInv
<1>16. CASE UploadFails(t)
  <2>1. PICK e \in {"os_error", "transport_error"} : Raise(t, e)
    BY <1>16 DEF UploadFails
  <2>2. TypeOK'
    BY <1>16, <1>t, <2>1
       DEF UploadFails, Raise, Goto, TypeOK, Outcomes, ledgerVars, remoteVars, envVars
  <2>3. ASSUME NEW u \in Threads PROVE LocalsOK(u)'
    BY <1>16, <2>1, <2>3
       DEF UploadFails, Raise, Raised, RequestErrors, Goto, TypeInv, TypeOK, LocalsOK,
           ledgerVars, remoteVars, envVars
  <2>4. QED
    BY <2>2, <2>3 DEF TypeInv
<1>10. CASE PreauthFails(t)
  <2>1. PICK e \in RequestErrors : Raise(t, e)
    BY <1>10 DEF PreauthFails
  <2>2. TypeOK'
    BY <1>10, <1>t, <2>1
       DEF PreauthFails, Abandon, Raise, Goto, TypeOK, Outcomes, RequestErrors, ledgerVars, envVars
  <2>3. ASSUME NEW u \in Threads PROVE LocalsOK(u)'
    BY <1>10, <2>1, <2>3
       DEF PreauthFails, Abandon, Raise, Raised, Goto, TypeInv, TypeOK, LocalsOK, ledgerVars,
           envVars
  <2>4. QED
    BY <2>2, <2>3 DEF TypeInv
<1>11. CASE FailAttempt(t)
  <2>1. PICK o \in Outcomes : Answer(t, o)
    BY <1>11, <1>t DEF FailAttempt, TypeOK
  <2>2. QED
    BY <1>11, <1>t, <2>1, Quiet, AnswerIsAbout, AnswerTypes DEF FailAttempt, TypeOK
<1>12. CASE PreauthReply(t)
  <2> DEFINE r(cost) == [code |-> reply[t], hash |-> call[t].hash, key |-> call[t].key,
                         cost |-> cost, claimed |-> FALSE, authorized |-> FALSE]
  <2>1. PICK cost \in {jobs[reply[t]].price, None} : proof' = [proof EXCEPT ![t] = r(cost)]
    BY <1>12 DEF PreauthReply
  <2>2. r(cost) \in ProofRecord
    <3>1. jobs[reply[t]] \in JobRecord
      BY <1>12, <1>t DEF PreauthReply, TypeOK, LocalsOK
    <3>2. QED
      BY <1>12, <1>t, <2>1, <3>1
         DEF PreauthReply, TypeOK, LocalsOK, JobRecord, ProofRecord
  <2>3. TypeOK'
    BY <1>12, <1>t, <2>1, <2>2 DEF PreauthReply, Goto, TypeOK, ledgerVars, envVars
  <2>4. ASSUME NEW u \in Threads PROVE LocalsOK(u)'
    BY <1>12, <1>t, <2>1, <2>2, <2>4
       DEF PreauthReply, Goto, TypeInv, TypeOK, LocalsOK, ledgerVars, envVars
  <2>5. QED
    BY <2>3, <2>4 DEF TypeInv
<1>13. CASE PutProof(t)
  <2>1. PICK p \in ProofIds : /\ proofs' = [proofs EXCEPT ![p] = proof[t]]
                              /\ call' = [call EXCEPT ![t].pid = p]
    BY <1>13 DEF PutProof
  <2>2. [call[t] EXCEPT !.pid = p] \in CallRecord
    BY <1>t, CallTypes DEF TypeOK
  <2>3. TypeOK'
    BY <1>13, <1>t, <2>1, <2>2 DEF PutProof, Goto, TypeOK, LocalsOK, remoteVars, envVars
  <2>4. ASSUME NEW u \in Threads PROVE LocalsOK(u)'
    BY <1>13, <1>t, <2>1, <2>4
       DEF PutProof, Goto, TypeInv, TypeOK, LocalsOK, CallRecord, remoteVars, envVars
  <2>5. QED
    BY <2>3, <2>4 DEF TypeInv
<1>14. CASE CompleteAttempt(t)
  BY <1>14, <1>t, Quiet, AnswerIsAbout, AnswerTypes DEF CompleteAttempt, TypeOK, Outcomes
<1>15. QED
  BY <1>1, <1>2, <1>3, <1>4, <1>5, <1>6, <1>7, <1>8, <1>9, <1>10, <1>11, <1>12, <1>13, <1>14,
     <1>16
     DEF SubmitStep

\* Every step of an authorize call keeps the types.
LEMMA AuthorizeTypes == ASSUME TypeInv, NEW t \in Threads, AuthorizeStep(t) PROVE TypeInv'
<1> USE DEF Labels, SubmitSection, ProofSection, SubmitLabels, AuthorizeLabels
<1>t. TypeOK /\ LocalsOK(t)
  BY DEF TypeInv
<1>1. CASE GetProof(t)
  <2>1. CASE Answer(t, "unknown_proof")
    BY <1>1, <1>t, <2>1, Quiet, AnswerIsAbout, AnswerTypes
       DEF GetProof, ledgerVars, TypeOK, Outcomes, Refusals
  <2>2. CASE Goto(t, "lock_proof") /\ UNCHANGED <<call, proof, outcome>>
    BY <1>1, <2>2, Quiet, GotoTypes DEF GetProof
  <2>3. QED
    BY <1>1, <2>1, <2>2 DEF GetProof
<1>2. CASE AcquireProof(t)
  BY <1>2, Quiet, GotoTypes DEF AcquireProof
<1>3. CASE ProofLockTimeout(t)
  BY <1>3, <1>t, Quiet, AnswerIsAbout, AnswerTypes
     DEF ProofLockTimeout, ledgerVars, TypeOK, Outcomes, Refusals
<1>4. CASE CheckProof(t)
  <2> DEFINE v == Verdict(call[t].pid, call[t].hash)
  <2>1. CASE v = "ok"
    <3>1. /\ proof' = [proof EXCEPT ![t] = proofs[call[t].pid]]
          /\ Goto(t, "document")
          /\ UNCHANGED <<call, outcome, sent, ledgerVars, remoteVars, envVars>>
      BY <1>4, <2>1 DEF CheckProof
    <3>2. proofs[call[t].pid] \in ProofRecord
      BY <1>4, <1>t, <2>1 DEF CheckProof, Verdict, TypeOK, LocalsOK
    <3>3. TypeOK'
      BY <1>t, <3>1, <3>2 DEF Goto, TypeOK, ledgerVars, remoteVars, envVars
    <3>4. ASSUME NEW u \in Threads PROVE LocalsOK(u)'
      BY <1>4, <3>1, <3>2, <3>4, Quiet
         DEF CheckProof, Goto, TypeInv, TypeOK, LocalsOK, ledgerVars, remoteVars, envVars
    <3>5. QED
      BY <3>3, <3>4 DEF TypeInv
  <2>2. CASE v # "ok"
    <3>1. v \in Outcomes
      BY <2>2 DEF Verdict, Outcomes, Refusals
    <3>2. Answer(t, v)
      BY <1>4, <2>2 DEF CheckProof
    <3>3. QED
      BY <1>4, <1>t, <3>1, <3>2, Quiet, AnswerIsAbout, AnswerTypes
         DEF CheckProof, ledgerVars, TypeOK
  <2>3. QED
    BY <2>1, <2>2
<1>5. CASE CheckDocument(t)
  <2>1. ASSUME NEW o \in Outcomes, Answer(t, o) PROVE TypeInv'
    BY <1>5, <1>t, <2>1, Quiet, AnswerIsAbout, AnswerTypes DEF CheckDocument, ledgerVars, TypeOK
  <2>2. CASE Goto(t, "claim") /\ UNCHANGED <<call, proof, outcome>>
    BY <1>5, <1>t, <2>2, Quiet, GotoTypes DEF CheckDocument, LocalsOK
  <2>3. QED
    BY <1>5, <2>1, <2>2 DEF CheckDocument, Outcomes, Refusals
<1>6. CASE ClaimRelease(t)
  <2>1. proof[t] \in ProofRecord
    BY <1>6, <1>t DEF ClaimRelease, LocalsOK
  <2>2. [proof[t] EXCEPT !.claimed = TRUE] \in ProofRecord
    BY <2>1, ProofTypes
  <2>3. /\ proof' = [proof EXCEPT ![t] = [proof[t] EXCEPT !.claimed = TRUE]]
        /\ proofs' = [proofs EXCEPT ![call[t].pid] = proof'[t]]
        /\ Goto(t, "release")
        /\ UNCHANGED <<call, sent, outcome, inflight, remoteVars, envVars>>
    BY <1>6 DEF ClaimRelease
  <2>4. TypeOK'
    BY <1>t, <2>2, <2>3 DEF Goto, TypeOK, remoteVars, envVars
  <2>5. ASSUME NEW u \in Threads PROVE LocalsOK(u)'
    BY <1>6, <1>t, <2>2, <2>3, <2>5, Quiet
       DEF ClaimRelease, Goto, TypeInv, TypeOK, LocalsOK, remoteVars, envVars
  <2>6. QED
    BY <2>4, <2>5 DEF TypeInv
<1>7. CASE SendRelease(t)
  <2>1. proof[t].code \in Authcodes
    BY <1>7, <1>t DEF SendRelease, LocalsOK, ProofRecord
  <2>2. TypeOK'
    BY <1>7, <1>t, <2>1 DEF SendRelease, Goto, TypeOK, ledgerVars, envVars
  <2>3. ASSUME NEW u \in Threads PROVE LocalsOK(u)'
    BY <1>7, <1>t, <2>3, Quiet
       DEF SendRelease, Goto, TypeInv, TypeOK, LocalsOK, ledgerVars, envVars
  <2>4. QED
    BY <2>2, <2>3 DEF TypeInv
<1>12. CASE ReleaseUnsent(t)
  BY <1>12, <1>t, Quiet, AnswerIsAbout, AnswerTypes
     DEF ReleaseUnsent, ledgerVars, TypeOK, Outcomes
<1>8. CASE ReleaseFails(t)
  <2>1. PICK e \in RequestErrors : Answer(t, e)
    BY <1>8 DEF ReleaseFails
  <2>2. QED
    BY <1>8, <1>t, <2>1, Quiet, AnswerIsAbout, AnswerTypes
       DEF ReleaseFails, RequestErrors, ledgerVars, TypeOK, Outcomes
<1>9. CASE ReleaseReply(t)
  BY <1>9, <1>t, Quiet, GotoTypes DEF ReleaseReply, LocalsOK
<1>10. CASE RecordRelease(t)
  <2>1. [proof[t] EXCEPT !.authorized = TRUE] \in ProofRecord
    BY <1>10, <1>t, ProofTypes DEF RecordRelease, LocalsOK
  <2>2. proofs' \in [ProofIds -> ProofRecord \union {None}]
    BY <1>10, <1>t, <2>1 DEF RecordRelease, TypeOK
  <2>3. QED
    BY <1>10, <1>t, <2>2, Quiet, AnswerIsAbout, AnswerTypes DEF RecordRelease, TypeOK, Outcomes
<1>11. QED
  BY <1>1, <1>2, <1>3, <1>4, <1>5, <1>6, <1>7, <1>8, <1>9, <1>10, <1>12 DEF AuthorizeStep

\* A new call keeps the types.
LEMMA StartTypes == ASSUME TypeInv, NEW t \in Threads, StartCall(t) PROVE TypeInv'
<1> USE DEF Labels, SubmitSection, ProofSection, SubmitLabels, AuthorizeLabels
<1>t. TypeOK /\ LocalsOK(t)
  BY DEF TypeInv
<1>q. pc[t] = "idle" /\ request[t] = None /\ reply[t] = None
  BY Quiet DEF StartCall, StartSubmit, StartAuthorize, Begin
<1>b. Begin(t)
  BY DEF StartCall, StartSubmit, StartAuthorize
<1>s. sent' \in [Threads -> BOOLEAN] /\ UNCHANGED <<ledgerVars, remoteVars, envVars>>
  BY <1>b, <1>t DEF Begin, TypeOK
<1>1. ASSUME NEW c \in CallRecord, NEW l \in {"key", "get_proof"}, Proceed(t, l, c),
             l = "key" => c.job \in Jobs /\ c.hash \in Contents,
             l = "get_proof" => c.pid \in ProofIds
      PROVE  TypeInv'
  <2>1. TypeOK'
    BY <1>1, <1>s, <1>t DEF Proceed, Goto, TypeOK, ledgerVars, remoteVars, envVars
  <2>2. ASSUME NEW u \in Threads PROVE LocalsOK(u)'
    BY <1>1, <1>s, <1>q, <2>2
       DEF Proceed, Goto, TypeInv, TypeOK, LocalsOK, ledgerVars, remoteVars, envVars
  <2>3. QED
    BY <2>1, <2>2 DEF TypeInv
<1>2. ASSUME NEW o \in Outcomes, NEW pid \in ProofIds \union {None},
             AnswerAbout(t, o, None, pid)
      PROVE  TypeInv'
  BY <1>2, <1>s, <1>q, <1>t, AnswerTypes DEF ledgerVars, TypeOK
<1>3. ASSUME NEW r \in Requests, StartSubmit(t, r) PROVE TypeInv'
  <2> DEFINE c == [NoCall EXCEPT !.job = r.job, !.key = r.key, !.hash = doc]
  <2>1. CASE doc = Missing
    BY <1>2, <1>3, <2>1 DEF StartSubmit, Outcomes
  <2>2. CASE doc # Missing
    <3>1. doc \in Contents
      BY <1>t, <2>2 DEF TypeOK
    <3>2. c \in CallRecord /\ c.job \in Jobs /\ c.hash \in Contents
      BY <3>1, RequestTypes DEF CallRecord, NoCall
    <3>3. Proceed(t, "key", c)
      BY <1>3, <2>2 DEF StartSubmit
    <3>4. QED
      BY <1>1, <3>2, <3>3
  <2>3. QED
    BY <2>1, <2>2
<1>4. ASSUME NEW p \in ProofIds, NEW hash \in Contents, NEW ack \in Acks \union {None},
             StartAuthorize(t, p, hash, ack)
      PROVE  TypeInv'
  <2> DEFINE c == [NoCall EXCEPT !.pid = p, !.hash = hash, !.ack = ack]
  <2>1. c \in CallRecord /\ c.pid \in ProofIds
    BY DEF CallRecord, NoCall
  <2>2. CASE live[ProcOf[t]]
    <3>1. Proceed(t, "get_proof", c)
      BY <1>4, <2>2 DEF StartAuthorize
    <3>2. QED
      BY <1>1, <2>1, <3>1
  <2>3. CASE ~live[ProcOf[t]]
    BY <1>2, <1>4, <2>3 DEF StartAuthorize, Outcomes, Refusals
  <2>4. QED
    BY <2>2, <2>3
<1>5. QED
  BY <1>3, <1>4 DEF StartCall

\* LetterStream, the disk, the clock and crashes keep the types.
LEMMA WorldTypes == ASSUME TypeInv, LetterStreamStep \/ Surroundings PROVE TypeInv'
<1> USE DEF Labels, SubmitSection, ProofSection, SubmitLabels, AuthorizeLabels
<1>t. TypeOK /\ \A t \in Threads : LocalsOK(t)
  BY DEF TypeInv
<1>h. ASSUME NEW m \in Message, NEW a \in Authcodes, HoldJob(m, a)
      PROVE  /\ jobs' \in [Authcodes -> JobRecord \union {None}]
             /\ \A b \in Authcodes : jobs[b] # None => jobs'[b] # None
             /\ jobs[a] = None /\ jobs'[a] # None
  <2>1. PICK price \in Prices :
            jobs' = [jobs EXCEPT ![a] = [name |-> m.name, key |-> m.key, content |-> m.content,
                                         price |-> price, mailed |-> FALSE]]
    BY <1>h DEF HoldJob
  <2> DEFINE j == [name |-> m.name, key |-> m.key, content |-> m.content,
                   price |-> price, mailed |-> FALSE]
  <2>2. j \in JobRecord
    BY DEF Message, JobRecord
  <2>3. j # None
    BY <2>2, NoneAssumption
  <2> HIDE DEF j
  <2>4. jobs' = [jobs EXCEPT ![a] = j]
    BY <2>1 DEF j
  <2>5. QED
    BY <1>t, <1>h, <2>2, <2>3, <2>4 DEF TypeOK, HoldJob
<1>1. ASSUME NEW t \in Threads, NEW a \in Authcodes, AcceptSubmission(t, a) PROVE TypeInv'
  <2>1. request[t] \in Message /\ HoldJob(request[t], a)
    BY <1>1, <1>t DEF AcceptSubmission, TypeOK
  <2>2. TypeOK'
    BY <1>1, <1>h, <1>t, <2>1 DEF AcceptSubmission, TypeOK, threadVars, ledgerVars, envVars
  <2>3. ASSUME NEW u \in Threads PROVE LocalsOK(u)'
    BY <1>1, <1>h, <1>t, <2>1, <2>3
       DEF AcceptSubmission, LocalsOK, TypeOK, threadVars, ledgerVars, envVars
  <2>4. QED
    BY <2>2, <2>3 DEF TypeInv
<1>2. ASSUME NEW m \in stray, NEW a \in Authcodes, AcceptStray(m, a) PROVE TypeInv'
  <2>1. m \in Message /\ HoldJob(m, a)
    BY <1>2, <1>t DEF AcceptStray, TypeOK
  <2>2. TypeOK'
    BY <1>2, <1>h, <1>t, <2>1 DEF AcceptStray, TypeOK, threadVars, ledgerVars, envVars
  <2>3. ASSUME NEW u \in Threads PROVE LocalsOK(u)'
    BY <1>2, <1>h, <1>t, <2>1, <2>3
       DEF AcceptStray, LocalsOK, TypeOK, threadVars, ledgerVars, envVars
  <2>4. QED
    BY <2>2, <2>3 DEF TypeInv
<1>3. ASSUME NEW a \in Authcodes, Mail(a) PROVE TypeInv'
  <2> DEFINE j == [jobs[a] EXCEPT !.mailed = TRUE]
  <2>1. j \in JobRecord
    BY <1>3, <1>t, JobTypes DEF Mail, TypeOK
  <2>2. j # None
    BY <2>1, NoneAssumption
  <2>3. jobs' = [jobs EXCEPT ![a] = j]
    BY <1>3 DEF Mail
  <2> HIDE DEF j
  <2>4. TypeOK'
    BY <1>3, <1>t, <2>1, <2>3 DEF Mail, TypeOK, threadVars, ledgerVars, envVars
  <2>5. ASSUME NEW u \in Threads PROVE LocalsOK(u)'
    BY <1>3, <1>t, <2>2, <2>3, <2>5 DEF Mail, LocalsOK, TypeOK, threadVars, ledgerVars, envVars
  <2>6. QED
    BY <2>4, <2>5 DEF TypeInv
<1>4. ASSUME NEW c \in Contents \union {Missing}, EditDocument(c) PROVE TypeInv'
  BY <1>4 DEF EditDocument, TypeInv, TypeOK, LocalsOK, threadVars, ledgerVars, remoteVars
<1>5. ASSUME NEW p \in ProofIds, Expire(p) PROVE TypeInv'
  BY <1>5 DEF Expire, TypeInv, TypeOK, LocalsOK, threadVars, ledgerVars, remoteVars
<1>6. ASSUME NEW proc \in Procs, NEW on \in BOOLEAN, Crash(proc, on) PROVE TypeInv'
  <2>1. NoCall \in CallRecord
    BY DEF NoCall, CallRecord
  <2>2. TypeOK'
    <3>1. stray' \subseteq Message
      BY <1>6, <1>t DEF Crash, TypeOK
    <3>2. live' \in [Procs -> BOOLEAN]
      BY <1>6, <1>t DEF Crash, TypeOK
    <3>3. outcome' \in [Threads -> Outcomes]
      BY <1>6, <1>t DEF Crash, TypeOK, Outcomes
    <3>4. QED
      BY <1>6, <1>t, <2>1, <3>1, <3>2, <3>3 DEF Crash, TypeOK, ledgerVars
  <2>3. ASSUME NEW u \in Threads PROVE LocalsOK(u)'
    <3>1. CASE ProcOf[u] = proc
      BY <1>6, <2>3, <3>1 DEF Crash, LocalsOK
    <3>2. CASE ProcOf[u] # proc
      BY <1>6, <1>t, <2>3, <3>2 DEF Crash, LocalsOK
    <3>3. QED
      BY <3>1, <3>2
  <2>4. QED
    BY <2>2, <2>3 DEF TypeInv
<1>7. QED
  BY <1>1, <1>2, <1>3, <1>4, <1>5, <1>6 DEF LetterStreamStep, Surroundings

\* A failing ledger operation keeps the types.
LEMMA LedgerFailsTypes == ASSUME TypeInv, NEW t \in Threads, LedgerFails(t) PROVE TypeInv'
<1>1. PICK o \in Outcomes : Answer(t, o)
  BY DEF LedgerFails, Outcomes, Refusals
<1>2. pc[t] # "wait_preauth"
  BY DEF LedgerFails, LedgerReads, LedgerWrites
<1>3. QED
  BY <1>1, <1>2, Quiet, AnswerIsAbout, AnswerTypes DEF LedgerFails, ledgerVars, TypeInv, TypeOK

\* Every step keeps the types.
LEMMA StepTypes == TypeInv /\ [Next]_vars => TypeInv'
<1>1. ASSUME TypeInv, UNCHANGED vars PROVE TypeInv'
  BY <1>1 DEF vars, threadVars, ledgerVars, remoteVars, envVars, TypeInv, TypeOK, LocalsOK
<1>2. QED
  BY <1>1, StartTypes, SubmitTypes, AuthorizeTypes, LedgerFailsTypes, WorldTypes
     DEF Next, CallStep

\* The invariant of the types and locals holds throughout.
LEMMA TypeInvariance == Spec => []TypeInv
BY InitTypes, StepTypes, PTL DEF Spec

\* Type correctness of the gate: in every reachable state the ledgers hold
\* well formed records, and no step reads a local that was never set.
THEOREM TypeCorrect == Spec => []TypeOK
BY TypeInvariance, PTL DEF TypeInv
===========================================================================
