---------------------------- MODULE GateJobProofs ----------------------------
(* What the gate promises its callers and the letters, for any number of   *)
(* threads, processes, keys, documents, retries, failures and crashes: what *)
(* it answers is so, and tells what was sent; what it releases is within    *)
(* the ceiling and is what was reviewed; LetterStream holds one job per key *)
(* and no job is forgotten (the gate implements MailOnce); its ledgers are   *)
(* the abstract ones; every call takes a bounded number of steps; an         *)
(* abandoned claim stays one; and a dry run is harmless.                     *)
EXTENDS GateSafetyProofs

\* A key is used with one job name only: that of every request that passes
\* it, or from which it can be derived.
Uses(k, n) ==
    \E r \in Requests :
        /\ n = r.job
        /\ \/ r.key = k
           \/ r.key = None /\ \E c \in Contents : k = Fingerprint(r.job, c)
OneNamePerKey == \A k \in Keys : \A n, m \in Jobs : Uses(k, n) /\ Uses(k, m) => n = m

\* A submission does not arrive after its call, or is refused if the name of
\* its job is taken.
SubmissionsSettle == ~LateDelivery \/ UniqueJobNames

-----------------------------------------------------------------------------
\* Thread t is about a proof of its key.
NamesProof(t) ==
    /\ call[t].pid \in ProofIds
    /\ proofs[call[t].pid] # None
    /\ proofs[call[t].pid].key = call[t].key

\* What stands behind the answer of thread t.
ThreadAnswers(t) ==
    /\ pc[t] = "complete" \/ (pc[t] = "idle" /\ outcome[t] \in {"reused", "submitted"}) =>
           NamesProof(t)
    /\ pc[t] = "idle" /\ outcome[t] \in {"mailed", "already"} =>
           /\ call[t].pid \in ProofIds
           /\ proofs[call[t].pid] # None
           /\ proofs[call[t].pid].authorized

Mailed(t) == pc[t] = "idle" /\ outcome[t] = "mailed"
MailedOnce == \A t, u \in Threads : Mailed(t) /\ Mailed(u) /\ call[t].pid = call[u].pid => t = u

AnswerInv == MailedOnce /\ \A t \in Threads : ThreadAnswers(t)

\* What a call has sent is known from where it is, from what it has raised, and
\* from its answer.
PastSending == {"wait_preauth", "put_proof", "complete", "wait_release", "record"}

SentOK(t) ==
    /\ pc[t] \in PastSending => sent[t]
    /\ pc[t] \notin PastSending \union {"fail", "idle"} => ~sent[t]
    /\ pc[t] = "fail" =>
           /\ sent[t] => outcome[t] \in RequestErrors
           /\ outcome[t] = "api_error" => sent[t]
    /\ pc[t] = "idle" =>
           /\ sent[t] => outcome[t] \in OutcomesAfterSending
           /\ outcome[t] \in {"submitted", "mailed", "api_error"} => sent[t]

SentInv == \A t \in Threads : SentOK(t)

\* What a proof costs is what its job costs, and what passed the check of the
\* ceiling is below it.
Priced(r) == jobs[r.code] # None /\ r.cost = jobs[r.code].price
Within(cost) == Ceiling = None \/ cost <= Ceiling

ThreadPriced(t) ==
    /\ pc[t] = "put_proof" => Priced(proof[t])
    /\ pc[t] \in {"claim", "release"} => Within(proof[t].cost)

CeilingInv ==
    /\ \A p \in ProofIds : proofs[p] # None => Priced(proofs[p])
    /\ \A t \in Threads : ThreadPriced(t)
    /\ CeilingHolds

\* The names jobs and submissions have are those their keys are used with.
ThreadNamed(t) ==
    /\ request[t] # None => Uses(request[t].key, request[t].name)
    /\ pc[t] = "key" => \E r \in Requests : r.job = call[t].job /\ r.key = call[t].key
    /\ pc[t] \in SubmitSection \union {"lock_submit"} => Uses(call[t].key, call[t].job)

NamedByKey ==
    /\ \A a \in Authcodes : jobs[a] # None => Uses(jobs[a].key, jobs[a].name)
    /\ \A m \in stray : Uses(m.key, m.name)
    /\ \A t \in Threads : ThreadNamed(t)

\* Where a submission of thread t may still be, its key warns the next one,
\* and no other job of the key exists unless LetterStream would refuse t's.
AttemptOpen(t) ==
    /\ pc[t] \in {"upload", "wait_preauth"} => inflight[call[t].key] = "in_flight"
    /\ pc[t] \in {"clear", "begin", "upload"} \/ request[t] # None =>
           UniqueJobNames \/ \A a \in Authcodes : jobs[a] # None => jobs[a].key # call[t].key

JobInv ==
    /\ NamedByKey
    /\ OneHeldJobPerKey
    /\ NothingForgotten
    /\ \A t \in Threads : AttemptOpen(t)
    /\ stray # {} => LateDelivery
    /\ \A m \in stray : inflight[m.key] # "absent"

-----------------------------------------------------------------------------
(* Frames: what a step leaves alone *)

\* Thread u is where it was and what it was.
Still(u) ==
    /\ pc'[u] = pc[u] /\ call'[u] = call[u] /\ proof'[u] = proof[u]
    /\ sent'[u] = sent[u] /\ outcome'[u] = outcome[u]

\* A step of a call leaves the other calls alone.
LEMMA OthersStill ==
    ASSUME TypeOK, NEW t \in Threads, StartCall(t) \/ CallStep(t),
           NEW u \in Threads \ {t}
    PROVE  Still(u)
<1> USE DEF TypeOK, Still, Goto, AnswerAbout, Answer, Proceed, Abandon
<1>1. CASE StartCall(t)
  <2>1. Begin(t)
    BY <1>1 DEF StartCall, StartSubmit, StartAuthorize
  <2>2. \/ \E o, key, pid : AnswerAbout(t, o, key, pid)
        \/ \E l, c : Proceed(t, l, c)
    <3> HIDE DEF AnswerAbout, Proceed
    <3>1. QED BY <1>1 DEF StartCall, StartSubmit, StartAuthorize
  <2>3. QED
    BY <2>1, <2>2 DEF Begin
<1>2. CASE SubmitStep(t)
  <2>1. CASE EffectiveKey(t) \/ AcquireSubmit(t) \/ SubmitLockTimeout(t) \/ FindProof(t)
                 \/ CheckPrior(t) \/ QueryJob(t)
    BY <2>1 DEF EffectiveKey, AcquireSubmit, SubmitLockTimeout, FindProof, CheckPrior, QueryJob
  <2>2. CASE ClearOrphan(t) \/ BeginAttempt(t) \/ Upload(t) \/ UploadFails(t)
                 \/ PreauthFails(t) \/ FailAttempt(t)
    BY <2>2 DEF ClearOrphan, BeginAttempt, Upload, UploadFails, PreauthFails, Raise, FailAttempt
  <2>3. CASE PreauthReply(t) \/ PutProof(t) \/ CompleteAttempt(t)
    BY <2>3 DEF PreauthReply, PutProof, CompleteAttempt
  <2>4. QED
    BY <1>2, <2>1, <2>2, <2>3 DEF SubmitStep
<1>3. CASE AuthorizeStep(t)
  <2>1. CASE GetProof(t) \/ AcquireProof(t) \/ ProofLockTimeout(t) \/ CheckProof(t)
                 \/ CheckDocument(t)
    BY <2>1 DEF GetProof, AcquireProof, ProofLockTimeout, CheckProof, CheckDocument
  <2>2. CASE ClaimRelease(t) \/ SendRelease(t) \/ ReleaseUnsent(t) \/ ReleaseFails(t)
                 \/ ReleaseReply(t)
                 \/ RecordRelease(t)
    BY <2>2
       DEF ClaimRelease, SendRelease, ReleaseUnsent, ReleaseFails, ReleaseReply, RecordRelease
  <2>3. QED
    BY <1>3, <2>1, <2>2 DEF AuthorizeStep
<1>4. CASE LedgerFails(t)
  BY <1>4 DEF LedgerFails
<1>5. QED
  BY <1>1, <1>2, <1>3, <1>4 DEF CallStep

\* A call that is cut off by a crash is as if it had never been made.
CutOff(u) == pc'[u] = "idle" /\ outcome'[u] = "none" /\ ~sent'[u] /\ call'[u] = NoCall

\* LetterStream, the disk and the clock leave all calls alone, and a crash
\* those of other processes.
LEMMA WorldStill ==
    ASSUME LetterStreamStep \/ Surroundings, NEW u \in Threads
    PROVE  Still(u) \/ CutOff(u)
<1>1. CASE UNCHANGED threadVars
  BY <1>1 DEF Still, threadVars
<1>2. ASSUME NEW proc \in Procs, NEW on \in BOOLEAN, Crash(proc, on)
      PROVE  Still(u) \/ CutOff(u)
  BY <1>2 DEF Crash, Still, CutOff
<1>3. QED
  BY <1>1, <1>2
     DEF LetterStreamStep, Surroundings, AcceptSubmission, AcceptStray, Mail, EditDocument,
         Expire

\* No call changes LetterStream's jobs.
LEMMA CallsKeepJobs ==
    ASSUME NEW t \in Threads, StartCall(t) \/ CallStep(t) PROVE UNCHANGED jobs
<1>1. CASE StartCall(t) \/ LedgerFails(t) \/ AuthorizeStep(t)
  BY <1>1
     DEF StartCall, StartSubmit, StartAuthorize, Begin, LedgerFails, AuthorizeStep, GetProof,
         AcquireProof, ProofLockTimeout, CheckProof, CheckDocument, ClaimRelease, SendRelease,
         ReleaseUnsent, ReleaseFails, ReleaseReply, RecordRelease, remoteVars
<1>2. CASE SubmitStep(t)
  BY <1>2
     DEF SubmitStep, EffectiveKey, AcquireSubmit, SubmitLockTimeout, FindProof, CheckPrior,
         QueryJob, ClearOrphan, BeginAttempt, Upload, UploadFails, PreauthFails, Raise,
         FailAttempt, PreauthReply,
         PutProof, CompleteAttempt, remoteVars
<1>3. QED
  BY <1>1, <1>2 DEF CallStep

\* LetterStream's jobs change by what LetterStream does.
LEMMA JobsSteps ==
    ASSUME [Next]_vars
    PROVE  \/ UNCHANGED jobs
           \/ \E t \in Threads, a \in Authcodes : AcceptSubmission(t, a)
           \/ \E m \in stray, a \in Authcodes : AcceptStray(m, a)
           \/ \E a \in Authcodes : Mail(a)
<1>1. ASSUME Surroundings PROVE UNCHANGED jobs
  BY <1>1 DEF Surroundings, EditDocument, Expire, Crash, remoteVars
<1>2. QED
  BY <1>1, CallsKeepJobs DEF Next, LetterStreamStep, vars, remoteVars

\* A job stays, with its name, key, content and price, and stays mailed.
LEMMA JobsStay ==
    ASSUME TypeInv, [Next]_vars, NEW a \in Authcodes, jobs[a] # None
    PROVE  /\ jobs'[a] # None
           /\ jobs'[a].name = jobs[a].name /\ jobs'[a].key = jobs[a].key
           /\ jobs'[a].content = jobs[a].content /\ jobs'[a].price = jobs[a].price
           /\ jobs[a].mailed => jobs'[a].mailed
<1>t. TypeOK /\ jobs[a] \in JobRecord
  BY DEF TypeInv, TypeOK
<1>1. ASSUME NEW m, NEW b \in Authcodes, HoldJob(m, b) PROVE UNCHANGED jobs[a]
  BY <1>1, <1>t DEF HoldJob, TypeOK
<1>2. ASSUME NEW b \in Authcodes, Mail(b)
      PROVE  jobs'[a] = jobs[a] \/ jobs'[a] = [jobs[a] EXCEPT !.mailed = TRUE]
  BY <1>2, <1>t DEF Mail, TypeOK
<1>3. ASSUME jobs'[a] = [jobs[a] EXCEPT !.mailed = TRUE]
      PROVE  /\ jobs'[a] # None
             /\ jobs'[a].name = jobs[a].name /\ jobs'[a].key = jobs[a].key
             /\ jobs'[a].content = jobs[a].content /\ jobs'[a].price = jobs[a].price
             /\ jobs'[a].mailed
  BY <1>3, <1>t, JobTypes, NoneAssumption DEF JobRecord
<1>4. QED
  BY <1>1, <1>2, <1>3, JobsSteps DEF AcceptSubmission, AcceptStray

\* A job is new only where LetterStream accepts a submission.
LEMMA OldJobs ==
    ASSUME TypeOK, [Next]_vars, NEW a \in Authcodes, jobs'[a] # None,
           \A t \in Threads, b \in Authcodes : ~AcceptSubmission(t, b),
           \A m \in stray, b \in Authcodes : ~AcceptStray(m, b)
    PROVE  jobs[a] # None
<1>1. ASSUME NEW b \in Authcodes, Mail(b) PROVE jobs[a] # None
  BY <1>1 DEF Mail, TypeOK
<1>2. QED
  BY <1>1, JobsSteps

\* A proof that is on disk stays, with its authcode, hash, key and cost.
LEMMA ProofsStay ==
    ASSUME SafetyInv, [Next]_vars, NEW p \in ProofIds, proofs[p] # None
    PROVE  /\ proofs'[p] # None
           /\ proofs'[p].code = proofs[p].code /\ proofs'[p].hash = proofs[p].hash
           /\ proofs'[p].key = proofs[p].key /\ proofs'[p].cost = proofs[p].cost
           /\ proofs[p].authorized => proofs'[p].authorized
<1>1. PromisesKept
  BY StepKeepsPromises
<1>2. TypeOK /\ TypeOK'
  BY StepTypes DEF SafetyInv, TypeInv
<1>3. proofs[p] \in ProofRecord /\ proofs'[p] \in ProofRecord /\ proofs'[p] # None
      /\ Unstamped(proofs'[p]) = Unstamped(proofs[p])
  BY <1>1, <1>2 DEF PromisesKept, TypeOK
<1>4. ASSUME NEW r \in ProofRecord
      PROVE  /\ Unstamped(r).code = r.code /\ Unstamped(r).hash = r.hash
             /\ Unstamped(r).key = r.key /\ Unstamped(r).cost = r.cost
  BY DEF Unstamped, ProofRecord
<1>5. QED
  BY <1>1, <1>3, <1>4 DEF PromisesKept

-----------------------------------------------------------------------------
(* Answers *)

\* A thread whose place and answer stay, or that is cut off, is as truthful as
\* before: nothing is taken back.
LEMMA StillAnswers ==
    ASSUME SafetyInv, [Next]_vars, NEW u \in Threads, Still(u) \/ CutOff(u), ThreadAnswers(u)
    PROVE  ThreadAnswers(u)'
<1>1. CASE Still(u)
  <2>1. NamesProof(u) => NamesProof(u)'
    BY <1>1, ProofsStay DEF NamesProof, Still
  <2>2. QED
    BY <1>1, <2>1, ProofsStay DEF ThreadAnswers, Still
<1>2. CASE CutOff(u)
  BY <1>2 DEF CutOff, ThreadAnswers
<1>3. QED
  BY <1>1, <1>2

\* A call that goes on does not answer, and one that answers anything else
\* than a success has nothing to back.
LEMMA OtherAnswers ==
    ASSUME TypeOK, NEW t \in Threads,
           \/ \E l \in Labels \ {"idle", "complete"} : Goto(t, l)
           \/ \E o \in Outcomes \ {"reused", "submitted", "already", "mailed"} :
                  \E key, pid : AnswerAbout(t, o, key, pid)
    PROVE  ThreadAnswers(t)' /\ ~Mailed(t)'
BY DEF TypeOK, Goto, AnswerAbout, ThreadAnswers, Mailed

\* A new call answers nothing but failures at once.
LEMMA StartAnswers ==
    ASSUME TypeOK, NEW t \in Threads, StartCall(t) PROVE ThreadAnswers(t)' /\ ~Mailed(t)'
<1>1. \/ Goto(t, "key") \/ Goto(t, "get_proof")
      \/ \E o \in {"invalid", "os_error", "dry_refusal"} :
             \E key, pid : AnswerAbout(t, o, key, pid)
  BY DEF StartCall, StartSubmit, StartAuthorize, Proceed
<1>2. QED
  BY <1>1, OtherAnswers DEF Labels, SubmitSection, ProofSection, Outcomes, Refusals

\* What a submit call answers is so.
LEMMA SubmitAnswers ==
    ASSUME SafetyInv, NEW t \in Threads, SubmitStep(t), ThreadAnswers(t)
    PROVE  ThreadAnswers(t)' /\ ~Mailed(t)'
<1> USE DEF Labels, SubmitSection, ProofSection, Outcomes, Refusals
<1>t. TypeOK /\ LocalsOK(t)
  BY DEF SafetyInv, TypeInv
<1>1. CASE EffectiveKey(t)
  BY <1>1, <1>t, OtherAnswers DEF EffectiveKey, Proceed, Answer
<1>2. CASE AcquireSubmit(t) \/ SubmitLockTimeout(t) \/ CheckPrior(t) \/ QueryJob(t)
  BY <1>2, <1>t, OtherAnswers DEF AcquireSubmit, SubmitLockTimeout, CheckPrior, QueryJob, Answer
<1>3. CASE ClearOrphan(t) \/ BeginAttempt(t) \/ Upload(t) \/ UploadFails(t) \/ PreauthFails(t)
               \/ PreauthReply(t)
  BY <1>3, <1>t, OtherAnswers
     DEF ClearOrphan, BeginAttempt, Upload, UploadFails, PreauthFails, Raise, PreauthReply
<1>4. CASE FailAttempt(t)
  BY <1>4, <1>t, OtherAnswers DEF FailAttempt, Answer, LocalsOK, Raised, RequestErrors
<1>5. CASE FindProof(t)
  <2>1. CASE Goto(t, "prior")
    BY <1>t, <2>1, OtherAnswers
  <2>2. ASSUME NEW p \in ProofIds, proofs[p] # None, proofs[p].key = call[t].key,
               AnswerAbout(t, "reused", call[t].key, p)
        PROVE  ThreadAnswers(t)' /\ ~Mailed(t)'
    <3>1. /\ pc'[t] = "idle" /\ outcome'[t] = "reused"
          /\ call'[t].key = call[t].key /\ call'[t].pid = p
      BY <1>t, <2>2 DEF AnswerAbout, Goto, TypeOK, NoCall
    <3>2. UNCHANGED proofs
      BY <1>5 DEF FindProof, ledgerVars
    <3>3. QED
      BY <2>2, <3>1, <3>2 DEF ThreadAnswers, NamesProof, Mailed
  <2>3. QED
    BY <1>5, <2>1, <2>2 DEF FindProof
<1>6. CASE PutProof(t)
  <2>1. PICK p \in ProofIds : /\ proofs' = [proofs EXCEPT ![p] = proof[t]]
                              /\ call' = [call EXCEPT ![t].pid = p]
    BY <1>6 DEF PutProof
  <2>2. proof[t] \in ProofRecord /\ proof[t].key = call[t].key
    BY <1>6, <1>t DEF PutProof, LocalsOK, SafetyInv, ThreadSafe, SubmitsAlone
  <2>3. pc'[t] = "complete" /\ call'[t].pid = p /\ call'[t].key = call[t].key
    BY <1>6, <1>t, <2>1 DEF PutProof, Goto, TypeOK, CallRecord
  <2>4. proofs'[p] = proof[t] /\ proof[t] # None
    BY <1>t, <2>1, <2>2, NoneAssumption DEF TypeOK
  <2>5. QED
    BY <2>2, <2>3, <2>4 DEF ThreadAnswers, NamesProof, Mailed
<1>7. CASE CompleteAttempt(t)
  <2>1. NamesProof(t) /\ UNCHANGED proofs
    BY <1>7 DEF CompleteAttempt, ThreadAnswers
  <2>2. /\ pc'[t] = "idle" /\ outcome'[t] = "submitted"
        /\ call'[t].key = call[t].key /\ call'[t].pid = call[t].pid
    BY <1>7, <1>t DEF CompleteAttempt, Answer, AnswerAbout, Goto, TypeOK, NoCall
  <2>3. QED
    BY <2>1, <2>2 DEF ThreadAnswers, NamesProof, Mailed
<1>8. QED
  BY <1>1, <1>2, <1>3, <1>4, <1>5, <1>6, <1>7 DEF SubmitStep

\* What an authorize call answers is so, and it answers "mailed" only about a
\* proof that was not authorized before.
LEMMA AuthorizeAnswers ==
    ASSUME SafetyInv, NEW t \in Threads, AuthorizeStep(t)
    PROVE  /\ ThreadAnswers(t)'
           /\ Mailed(t)' => call'[t].pid \in ProofIds /\ ~proofs[call'[t].pid].authorized
<1> USE DEF Labels, SubmitSection, ProofSection, Outcomes, Refusals
<1>t. TypeOK /\ LocalsOK(t)
  BY DEF SafetyInv, TypeInv
<1>1. CASE GetProof(t) \/ AcquireProof(t) \/ ProofLockTimeout(t)
  BY <1>1, <1>t, OtherAnswers DEF GetProof, AcquireProof, ProofLockTimeout, Answer
<1>2. CASE CheckDocument(t)
  BY <1>2, <1>t, OtherAnswers DEF CheckDocument, Answer
<1>3. CASE ClaimRelease(t) \/ SendRelease(t) \/ ReleaseUnsent(t) \/ ReleaseReply(t)
               \/ ReleaseFails(t)
  BY <1>3, <1>t, OtherAnswers
     DEF ClaimRelease, SendRelease, ReleaseUnsent, ReleaseReply, ReleaseFails, RequestErrors,
         Answer
<1>4. CASE CheckProof(t)
  <2> DEFINE v == Verdict(call[t].pid, call[t].hash)
  <2>1. CASE v = "ok"
    BY <1>4, <1>t, <2>1, OtherAnswers DEF CheckProof
  <2>2. CASE v = "already"
    <3>1. Answer(t, "already") /\ UNCHANGED proofs /\ call[t].pid \in ProofIds
      BY <1>4, <1>t, <2>2 DEF CheckProof, ledgerVars, LocalsOK, AuthorizeLabels
    <3>2. proofs[call[t].pid] # None /\ proofs[call[t].pid].authorized
      BY <2>2 DEF Verdict
    <3>3. pc'[t] = "idle" /\ outcome'[t] = "already" /\ call'[t].pid = call[t].pid
      BY <1>t, <3>1 DEF Answer, AnswerAbout, Goto, TypeOK, NoCall
    <3>4. QED
      BY <3>1, <3>2, <3>3 DEF ThreadAnswers, Mailed
  <2>3. CASE v \notin {"ok", "already"}
    <3>1. v \in Outcomes \ {"reused", "submitted", "already", "mailed"}
      BY <2>3 DEF Verdict
    <3>2. Answer(t, v)
      BY <1>4, <2>3 DEF CheckProof
    <3>3. QED
      BY <1>t, <3>1, <3>2, OtherAnswers DEF Answer
  <2>4. QED
    BY <2>1, <2>2, <2>3
<1>5. CASE RecordRelease(t)
  <2> DEFINE r == [proof[t] EXCEPT !.authorized = TRUE]
  <2>1. /\ call[t].pid \in ProofIds /\ proof[t] \in ProofRecord
        /\ proofs[call[t].pid] = proof[t] /\ ~proof[t].authorized
    BY <1>5, <1>t
       DEF RecordRelease, LocalsOK, AuthorizeLabels, SafetyInv, ThreadSafe, ReleasesAlone
  <2>2. r # None /\ r.authorized
    <3>1. r \in ProofRecord
      BY <2>1, ProofTypes
    <3>2. r.authorized
      BY <2>1 DEF ProofRecord
    <3>3. QED
      BY <3>1, <3>2, NoneAssumption
  <2>3. proofs'[call[t].pid] = r
    BY <1>5, <1>t, <2>1 DEF RecordRelease, TypeOK
  <2>4. pc'[t] = "idle" /\ outcome'[t] = "mailed" /\ call'[t].pid = call[t].pid
    BY <1>5, <1>t DEF RecordRelease, Answer, AnswerAbout, Goto, TypeOK, NoCall
  <2> HIDE DEF r
  <2>5. QED
    BY <2>1, <2>2, <2>3, <2>4 DEF ThreadAnswers
<1>6. QED
  BY <1>1, <1>2, <1>3, <1>4, <1>5 DEF AuthorizeStep

\* Every step keeps the answers true.
LEMMA StepAnswers == ASSUME SafetyInv, AnswerInv, [Next]_vars PROVE AnswerInv'
<1>t. TypeOK /\ \A t \in Threads : ThreadAnswers(t)
  BY DEF SafetyInv, TypeInv, AnswerInv
<1>1. ASSUME NEW t \in Threads, StartCall(t) \/ CallStep(t) PROVE AnswerInv'
  <2>1. /\ ThreadAnswers(t)'
        /\ Mailed(t)' => call'[t].pid \in ProofIds /\ ~proofs[call'[t].pid].authorized
    <3>1. CASE LedgerFails(t)
      BY <1>t, <3>1, OtherAnswers DEF LedgerFails, Answer, Outcomes, Refusals
    <3>2. QED
      BY <1>1, <1>t, <3>1, StartAnswers, SubmitAnswers, AuthorizeAnswers DEF CallStep
  <2>2. \A u \in Threads \ {t} : Still(u)
    BY <1>1, <1>t, OthersStill
  <2>3. \A u \in Threads : ThreadAnswers(u)'
    BY <1>t, <2>1, <2>2, StillAnswers
  <2>4. \A u \in Threads \ {t} : Mailed(u)' => Mailed(u) /\ call'[u] = call[u]
                                     /\ proofs[call[u].pid].authorized
    BY <1>t, <2>2 DEF Still, Mailed, ThreadAnswers
  <2>5. MailedOnce'
    BY <2>1, <2>4 DEF AnswerInv, MailedOnce
  <2>6. QED
    BY <2>3, <2>5 DEF AnswerInv
<1>2. ASSUME LetterStreamStep \/ Surroundings \/ UNCHANGED vars PROVE AnswerInv'
  <2>1. \A u \in Threads : Still(u) \/ CutOff(u)
    BY <1>2, WorldStill DEF vars, threadVars, Still
  <2>2. \A u \in Threads : ThreadAnswers(u)'
    BY <1>t, <2>1, StillAnswers
  <2>3. \A u \in Threads : Mailed(u)' => Mailed(u) /\ call'[u] = call[u]
    BY <2>1 DEF Still, CutOff, Mailed
  <2>4. MailedOnce'
    BY <2>3 DEF AnswerInv, MailedOnce
  <2>5. QED
    BY <2>2, <2>4 DEF AnswerInv
<1>3. QED
  BY <1>1, <1>2 DEF Next

\* What a caller is told about a proof or a mailing is so, and one caller at
\* most is told that it mailed a given proof.
THEOREM AnswersHold == ASSUME ExclusiveLocks PROVE Spec => []AnswersAreTrue
<1>1. Init => AnswerInv
  BY DEF Init, AnswerInv, MailedOnce, Mailed, ThreadAnswers
<1>2. SafetyInv /\ AnswerInv /\ [Next]_vars => AnswerInv'
  BY StepAnswers
<1>3. SafetyInv /\ AnswerInv => AnswersAreTrue
  BY DEF SafetyInv, LedgerSafe, ReleasesAreOnRecord, AnswerInv, MailedOnce, Mailed,
         ThreadAnswers, NamesProof, AnswersAreTrue
<1>4. QED
  BY <1>1, <1>2, <1>3, SafetyInvariance, PTL DEF Spec

-----------------------------------------------------------------------------
(* Refusals *)

\* A step of a call keeps what is known of what it has sent.
LEMMA CallSent ==
    ASSUME TypeInv, NEW t \in Threads, SentOK(t), StartCall(t) \/ CallStep(t)
    PROVE  SentOK(t)'
<1>t. pc \in [Threads -> Labels] /\ sent \in [Threads -> BOOLEAN]
      /\ outcome \in [Threads -> Outcomes] /\ (pc[t] = "fail" => outcome[t] \in Raised)
  BY DEF TypeInv, TypeOK, LocalsOK
<1> USE <1>t DEF SentOK, PastSending, Goto, AnswerAbout, Answer
<1>1. CASE StartCall(t)
  <2>1. sent'[t] = FALSE
    BY <1>1 DEF StartCall, StartSubmit, StartAuthorize, Begin
  <2>2. \/ pc'[t] \in {"key", "get_proof"}
        \/ pc'[t] = "idle" /\ outcome'[t] \in {"invalid", "os_error", "dry_refusal"}
    BY <1>1 DEF StartCall, StartSubmit, StartAuthorize, Proceed
  <2>3. QED
    BY <2>1, <2>2
<1>2. CASE SubmitStep(t)
  <2>1. CASE EffectiveKey(t) \/ AcquireSubmit(t) \/ SubmitLockTimeout(t) \/ FindProof(t)
    BY <2>1 DEF EffectiveKey, Proceed, AcquireSubmit, SubmitLockTimeout, FindProof
  <2>2. CASE CheckPrior(t) \/ QueryJob(t) \/ ClearOrphan(t) \/ BeginAttempt(t)
    BY <2>2 DEF CheckPrior, QueryJob, ClearOrphan, BeginAttempt
  <2>3. CASE Upload(t) \/ UploadFails(t) \/ PreauthFails(t)
    BY <2>3 DEF Upload, UploadFails, PreauthFails, Raise, RequestErrors
  <2>4. CASE PreauthReply(t) \/ PutProof(t) \/ CompleteAttempt(t)
    BY <2>4 DEF PreauthReply, PutProof, CompleteAttempt, OutcomesAfterSending
  <2>5. CASE FailAttempt(t)
    BY <2>5 DEF FailAttempt, Raised, OutcomesAfterSending, RequestErrors
  <2>6. QED
    BY <1>2, <2>1, <2>2, <2>3, <2>4, <2>5 DEF SubmitStep
<1>3. CASE AuthorizeStep(t)
  <2>1. CASE GetProof(t) \/ AcquireProof(t) \/ ProofLockTimeout(t) \/ CheckDocument(t)
                 \/ ClaimRelease(t)
    BY <2>1 DEF GetProof, AcquireProof, ProofLockTimeout, CheckDocument, ClaimRelease
  <2>2. CASE CheckProof(t)
    <3>1. Verdict(call[t].pid, call[t].hash)
              \in {"unknown_proof", "already", "ambiguous", "expired", "mismatch", "ok"}
      BY DEF Verdict
    <3>2. QED
      BY <2>2, <3>1 DEF CheckProof
  <2>3. CASE SendRelease(t) \/ ReleaseUnsent(t) \/ ReleaseReply(t) \/ RecordRelease(t)
    BY <2>3 DEF SendRelease, ReleaseUnsent, ReleaseReply, RecordRelease, OutcomesAfterSending
  <2>4. CASE ReleaseFails(t)
    BY <2>4 DEF ReleaseFails, RequestErrors, OutcomesAfterSending
  <2>5. QED
    BY <1>3, <2>1, <2>2, <2>3, <2>4 DEF AuthorizeStep
<1>4. CASE LedgerFails(t)
  BY <1>4 DEF LedgerFails, OutcomesAfterSending
<1>5. QED
  BY <1>1, <1>2, <1>3, <1>4 DEF CallStep

\* The place and the answer of every call say what it may have sent.
LEMMA SentInvariance == Spec => []SentInv
<1>1. Init => SentInv
  BY DEF Init, SentInv, SentOK, PastSending
<1>2. TypeInv /\ SentInv /\ [Next]_vars => SentInv'
  <2> SUFFICES ASSUME TypeInv, SentInv, [Next]_vars, NEW u \in Threads PROVE SentOK(u)'
    BY DEF SentInv
  <2>t. TypeOK /\ \A t \in Threads : SentOK(t)
    BY DEF TypeInv, SentInv
  <2>1. CASE Still(u)
    BY <2>t, <2>1 DEF SentOK, Still
  <2>2. CASE CutOff(u)
    BY <2>2 DEF SentOK, CutOff, PastSending
  <2>3. ASSUME NEW t \in Threads, StartCall(t) \/ CallStep(t) PROVE SentOK(u)'
    BY <2>t, <2>1, <2>3, OthersStill, CallSent
  <2>4. CASE UNCHANGED vars
    BY <2>1, <2>4 DEF vars, threadVars, Still
  <2>5. QED
    BY <2>1, <2>2, <2>3, <2>4, WorldStill DEF Next
<1>3. QED
  BY <1>1, <1>2, TypeInvariance, PTL DEF Spec

\* A call that ends in a refusal has sent neither a submission nor a release,
\* unless the ledger fails.
THEOREM RefusalsAreClean == ASSUME ~LedgerFailures PROVE Spec => []RefusalSentNothing
<1>1. SentInv => RefusalSentNothing
  BY DEF SentInv, SentOK, RefusalSentNothing, Refusals, OutcomesAfterSending, RequestErrors
<1>2. QED
  BY <1>1, SentInvariance, PTL

\* A call that has put a submission or a release on the wire ends in success,
\* in an error of the request or, if the ledger can fail, of the ledger, and in
\* no local verdict; "submitted", "mailed" and an ApiError come only of a request
\* that went out.
THEOREM OutcomesAreTold == Spec => []OutcomesTellWhatWasSent
<1>1. SentInv => OutcomesTellWhatWasSent
  BY DEF SentInv, SentOK, OutcomesTellWhatWasSent
<1>2. QED
  BY <1>1, SentInvariance, PTL

-----------------------------------------------------------------------------
(* The ceiling *)

\* A step that leaves proofs and releases alone, and the jobs, keeps the
\* prices where it leaves the threads alone.
LEMMA PricesStay ==
    ASSUME SafetyInv, CeilingInv, [Next]_vars
    PROVE  /\ \A p \in ProofIds : proofs[p] # None => Priced(proofs[p])'
           /\ \A t \in Threads : Still(t) \/ CutOff(t) => ThreadPriced(t)'
           /\ \A a \in Authcodes :
                  releases[a] > 0 => Ceiling = None \/ jobs'[a].price <= Ceiling
<1>t. TypeOK /\ (\A t \in Threads : LocalsOK(t)) /\ TypeInv
  BY DEF SafetyInv, TypeInv
<1>1. ASSUME NEW p \in ProofIds, proofs[p] # None PROVE Priced(proofs[p])'
  <2>1. proofs[p].code \in Authcodes /\ Priced(proofs[p])
    BY <1>1, <1>t DEF TypeOK, ProofRecord, CeilingInv
  <2>2. QED
    BY <1>1, <1>t, <2>1, JobsStay, ProofsStay DEF Priced
<1>2. ASSUME NEW t \in Threads, Still(t) \/ CutOff(t) PROVE ThreadPriced(t)'
  <2>1. ThreadPriced(t)
    BY DEF CeilingInv
  <2>2. CASE CutOff(t)
    BY <2>2 DEF CutOff, ThreadPriced
  <2>3. CASE Still(t) /\ pc[t] = "put_proof"
    <3>1. proof[t].code \in Authcodes
      BY <1>t, <2>3 DEF LocalsOK, ProofRecord
    <3>2. QED
      BY <1>t, <2>1, <2>3, <3>1, JobsStay DEF Priced, ThreadPriced, Still
  <2>4. CASE Still(t) /\ pc[t] # "put_proof"
    BY <2>1, <2>4 DEF Still, ThreadPriced, Within
  <2>5. QED
    BY <1>2, <2>2, <2>3, <2>4
<1>3. ASSUME NEW a \in Authcodes, releases[a] > 0
      PROVE  Ceiling = None \/ jobs'[a].price <= Ceiling
  <2>1. jobs[a] # None
    BY <1>3, <1>t DEF SafetyInv, LedgerSafe, UnheldIsUnreleased, TypeOK
  <2>2. QED
    BY <1>3, <1>t, <2>1, JobsStay DEF CeilingInv, CeilingHolds
<1>4. QED
  BY <1>1, <1>2, <1>3

\* The release request is sent by one step only.
LEMMA ReleasesSteps ==
    ASSUME [Next]_vars
    PROVE  UNCHANGED releases \/ \E t \in Threads : SendRelease(t)
<1>1. ASSUME NEW t \in Threads, StartCall(t) \/ LedgerFails(t) PROVE UNCHANGED releases
  BY <1>1 DEF StartCall, StartSubmit, StartAuthorize, Begin, LedgerFails, remoteVars
<1>2. ASSUME NEW t \in Threads, SubmitStep(t) PROVE UNCHANGED releases
  BY <1>2
     DEF SubmitStep, EffectiveKey, AcquireSubmit, SubmitLockTimeout, FindProof, CheckPrior,
         QueryJob, ClearOrphan, BeginAttempt, Upload, UploadFails, PreauthFails, Raise,
         FailAttempt, PreauthReply,
         PutProof, CompleteAttempt, remoteVars
<1>3. ASSUME NEW t \in Threads, AuthorizeStep(t) PROVE UNCHANGED releases \/ SendRelease(t)
  BY <1>3
     DEF AuthorizeStep, GetProof, AcquireProof, ProofLockTimeout, CheckProof, CheckDocument,
         ClaimRelease, ReleaseUnsent, ReleaseFails, ReleaseReply, RecordRelease, remoteVars
<1>4. ASSUME LetterStreamStep \/ Surroundings PROVE UNCHANGED releases
  BY <1>4
     DEF LetterStreamStep, Surroundings, AcceptSubmission, AcceptStray, Mail, EditDocument,
         Expire, Crash, remoteVars
<1>5. QED
  BY <1>1, <1>2, <1>3, <1>4 DEF Next, CallStep, vars, remoteVars

\* A proof is new only where a call puts the one it carries.
LEMMA NewProof ==
    ASSUME SafetyInv, [Next]_vars, NEW p \in ProofIds, proofs[p] = None, proofs'[p] # None
    PROVE  \E t \in Threads : PutProof(t) /\ proofs'[p] = proof[t]
<1>t. TypeOK /\ \A t \in Threads : LocalsOK(t) /\ ReleasesAlone(t)
  BY DEF SafetyInv, TypeInv, ThreadSafe
<1>1. ASSUME NEW t \in Threads, ClaimRelease(t) \/ RecordRelease(t) PROVE FALSE
  <2>1. /\ call[t].pid \in ProofIds /\ proof[t] # None /\ proofs[call[t].pid] = proof[t]
    BY <1>1, <1>t, NoneAssumption
       DEF ClaimRelease, RecordRelease, LocalsOK, AuthorizeLabels, ProofSection, ReleasesAlone
  <2>2. \A q \in ProofIds \ {call[t].pid} : proofs'[q] = proofs[q]
    BY <1>1, <1>t, <2>1 DEF ClaimRelease, RecordRelease, TypeOK
  <2>3. QED
    BY <2>1, <2>2
<1>2. ASSUME NEW t \in Threads, PutProof(t) PROVE proofs'[p] = proof[t]
  BY <1>2, <1>t DEF PutProof, TypeOK
<1>3. QED
  BY <1>1, <1>2, LedgerSteps
     DEF ledgerVars, ClearOrphan, BeginAttempt, FailAttempt, CompleteAttempt

\* Only an unreadable quote or a check of the ceiling stands between a price
\* and a release.
LEMMA CallPriced ==
    ASSUME QuotesReadable, SafetyInv, CeilingInv, [Next]_vars, NEW t \in Threads,
           StartCall(t) \/ CallStep(t)
    PROVE  ThreadPriced(t)'
<1> USE DEF Goto, AnswerAbout, Answer
<1>t. TypeOK /\ LocalsOK(t) /\ ThreadPriced(t) /\ TypeInv
  BY DEF SafetyInv, TypeInv, CeilingInv
<1>p. pc \in [Threads -> Labels] /\ proof \in [Threads -> ProofRecord \union {None}]
  BY <1>t DEF TypeOK
<1>1. CASE PreauthReply(t)
  <2>1. reply[t] \in Authcodes /\ jobs[reply[t]] # None
    BY <1>1, <1>t DEF PreauthReply, LocalsOK, TypeOK
  <2>2. /\ pc'[t] = "put_proof" /\ UNCHANGED jobs
        /\ proof'[t].code = reply[t] /\ proof'[t].cost = jobs[reply[t]].price
    BY <1>1, <1>p DEF PreauthReply
  <2>3. QED
    BY <2>1, <2>2 DEF ThreadPriced, Priced
<1>2. CASE CheckDocument(t)
  <2>1. proof[t] \in ProofRecord /\ proof[t].cost \in Prices \union {None}
    BY <1>2, <1>t DEF CheckDocument, LocalsOK, ProofSection, ProofRecord
  <2>2. proofs[call[t].pid] = proof[t] /\ call[t].pid \in ProofIds
    BY <1>2, <1>t
       DEF CheckDocument, SafetyInv, ThreadSafe, ReleasesAlone, LocalsOK, AuthorizeLabels,
           ProofSection
  <2>3. proof[t].cost # None
    <3>1. Priced(proof[t]) /\ proof[t].code \in Authcodes
      BY <2>1, <2>2, NoneAssumption DEF CeilingInv, ProofRecord
    <3>2. jobs[proof[t].code] \in JobRecord
      BY <1>t, <3>1 DEF Priced, TypeOK
    <3>3. QED
      BY <3>1, <3>2, NoneAssumption DEF Priced, JobRecord
  <2>4. proof[t].cost \in Nat /\ (Ceiling = None \/ Ceiling \in Nat)
    BY <2>1, <2>3, CeilingAssumption
  <2>5. CASE pc'[t] = "claim" /\ proof' = proof /\ ~CostRefused(proof[t].cost, call[t].ack)
    BY <2>3, <2>4, <2>5 DEF ThreadPriced, Within, CostRefused
  <2>6. CASE pc'[t] = "idle"
    BY <2>6 DEF ThreadPriced
  <2>7. QED
    BY <1>2, <1>p, <2>5, <2>6 DEF CheckDocument
<1>3. CASE ClaimRelease(t)
  <2>1. proof[t] \in ProofRecord /\ Within(proof[t].cost)
    BY <1>3, <1>t DEF ClaimRelease, LocalsOK, ProofSection, ThreadPriced
  <2>2. pc'[t] = "release" /\ proof'[t] = [proof[t] EXCEPT !.claimed = TRUE]
    BY <1>3, <1>p DEF ClaimRelease
  <2>3. proof'[t].cost = proof[t].cost
    BY <2>1, <2>2 DEF ProofRecord
  <2>4. QED
    BY <2>1, <2>2, <2>3 DEF ThreadPriced, Within
<1>4. CASE pc'[t] \notin {"put_proof", "claim", "release"}
  BY <1>4 DEF ThreadPriced
<1>5. ASSUME ~PreauthReply(t), ~CheckDocument(t), ~ClaimRelease(t)
      PROVE  pc'[t] \notin {"put_proof", "claim", "release"}
  <2>1. CASE StartCall(t) \/ LedgerFails(t)
    BY <1>p, <2>1 DEF StartCall, StartSubmit, StartAuthorize, Proceed, LedgerFails
  <2>2. CASE SubmitStep(t)
    BY <1>5, <1>p, <2>2
       DEF SubmitStep, EffectiveKey, Proceed, AcquireSubmit, SubmitLockTimeout, FindProof,
           CheckPrior, QueryJob, ClearOrphan, BeginAttempt, Upload, UploadFails, PreauthFails,
           Raise, FailAttempt,
           PutProof, CompleteAttempt
  <2>3. CASE AuthorizeStep(t)
    BY <1>5, <1>p, <2>3
       DEF AuthorizeStep, GetProof, AcquireProof, ProofLockTimeout, CheckProof, SendRelease,
           ReleaseUnsent, ReleaseFails, ReleaseReply, RecordRelease
  <2>4. QED
    BY <2>1, <2>2, <2>3 DEF CallStep
<1>6. QED
  BY <1>1, <1>2, <1>3, <1>4, <1>5

\* Every step keeps the prices and the ceiling.
LEMMA StepCeiling ==
    ASSUME QuotesReadable, SafetyInv, CeilingInv, [Next]_vars PROVE CeilingInv'
<1>t. TypeOK /\ \A t \in Threads : LocalsOK(t) /\ ThreadPriced(t)
  BY DEF SafetyInv, TypeInv, CeilingInv
<1>1. ASSUME NEW p \in ProofIds, proofs'[p] # None PROVE Priced(proofs[p])'
  <2>1. CASE proofs[p] # None
    BY <2>1, PricesStay
  <2>2. CASE proofs[p] = None
    <3>1. PICK t \in Threads : PutProof(t) /\ proofs'[p] = proof[t]
      BY <1>1, <2>2, NewProof
    <3>2. UNCHANGED jobs /\ Priced(proof[t])
      BY <1>t, <3>1 DEF PutProof, remoteVars, ThreadPriced
    <3>3. QED
      BY <3>1, <3>2 DEF Priced
  <2>3. QED
    BY <2>1, <2>2
<1>2. ASSUME NEW u \in Threads PROVE ThreadPriced(u)'
  <2>1. ASSUME NEW t \in Threads, StartCall(t) \/ CallStep(t) PROVE ThreadPriced(u)'
    BY <1>t, <2>1, CallPriced, OthersStill, PricesStay
  <2>2. CASE UNCHANGED vars
    BY <2>2, PricesStay DEF vars, threadVars, Still
  <2>3. QED
    BY <2>1, <2>2, WorldStill, PricesStay DEF Next
<1>3. CeilingHolds'
  <2>1. ASSUME NEW a \in Authcodes, releases'[a] > 0
        PROVE  Ceiling = None \/ jobs'[a].price <= Ceiling
    <3>1. CASE releases[a] > 0
      BY <3>1, PricesStay
    <3>2. ASSUME NEW t \in Threads, SendRelease(t), ~(releases[a] > 0)
          PROVE  Ceiling = None \/ jobs'[a].price <= Ceiling
      <4>1. proof[t] \in ProofRecord /\ call[t].pid \in ProofIds /\ proofs[call[t].pid] = proof[t]
        BY <1>t, <3>2
           DEF SendRelease, SafetyInv, ThreadSafe, ReleasesAlone, LocalsOK, AuthorizeLabels,
               ProofSection
      <4>2. a = proof[t].code /\ UNCHANGED jobs
        BY <1>t, <2>1, <3>2 DEF SendRelease, TypeOK
      <4>3. Priced(proof[t]) /\ Within(proof[t].cost)
        BY <1>t, <3>2, <4>1, NoneAssumption DEF CeilingInv, SendRelease, ThreadPriced
      <4>4. QED
        BY <4>2, <4>3 DEF Priced, Within
    <3>3. QED
      BY <2>1, <3>1, <3>2, ReleasesSteps
  <2>2. QED
    BY <2>1 DEF CeilingHolds
<1>4. QED
  BY <1>1, <1>2, <1>3 DEF CeilingInv

\* Costs are the prices of their jobs, and below the ceiling past its check.
LEMMA CeilingInvariance == ASSUME ExclusiveLocks, QuotesReadable PROVE Spec => []CeilingInv
<1>1. Init => CeilingInv
  BY DEF Init, CeilingInv, ThreadPriced, CeilingHolds
<1>2. SafetyInv /\ CeilingInv /\ [Next]_vars => CeilingInv'
  BY StepCeiling
<1>3. QED
  BY <1>1, <1>2, SafetyInvariance, PTL DEF Spec

\* No job above max_authorize_cost_usd is released, if the quotes can be read.
THEOREM CeilingIsKept ==
    ASSUME ExclusiveLocks, QuotesReadable PROVE Spec => []CeilingHolds
<1>1. CeilingInv => CeilingHolds
  BY DEF CeilingInv
<1>2. QED
  BY <1>1, CeilingInvariance, PTL

-----------------------------------------------------------------------------
(* Jobs and submissions *)

\* A submission leaves by Upload only.
LEMMA RequestSteps ==
    ASSUME TypeOK, [Next]_vars, NEW u \in Threads
    PROVE  request'[u] \in {request[u], None} \/ Upload(u)
<1>1. ASSUME NEW t \in Threads, StartCall(t) \/ LedgerFails(t) \/ AuthorizeStep(t)
      PROVE  UNCHANGED request
  BY <1>1
     DEF StartCall, StartSubmit, StartAuthorize, Begin, LedgerFails, AuthorizeStep, GetProof,
         AcquireProof, ProofLockTimeout, CheckProof, CheckDocument, ClaimRelease, SendRelease,
         ReleaseUnsent, ReleaseFails, ReleaseReply, RecordRelease, remoteVars
<1>2. ASSUME NEW t \in Threads, SubmitStep(t), ~Upload(t), ~PreauthFails(t)
      PROVE  UNCHANGED request
  BY <1>2
     DEF SubmitStep, EffectiveKey, AcquireSubmit, SubmitLockTimeout, FindProof, CheckPrior,
         QueryJob, ClearOrphan, BeginAttempt, UploadFails, FailAttempt, PreauthReply, PutProof,
         CompleteAttempt, remoteVars
<1>3. ASSUME NEW t \in Threads, Upload(t) \/ PreauthFails(t)
      PROVE  request'[u] \in {request[u], None} \/ Upload(u)
  BY <1>3 DEF Upload, PreauthFails, Raise, Abandon, TypeOK
<1>4. ASSUME LetterStreamStep \/ Surroundings PROVE request'[u] \in {request[u], None}
  BY <1>4
     DEF LetterStreamStep, Surroundings, AcceptSubmission, AcceptStray, Mail, EditDocument,
         Expire, Crash, TypeOK, remoteVars
<1>5. QED
  BY <1>1, <1>2, <1>3, <1>4 DEF Next, CallStep, vars, remoteVars

\* Only a submission whose call is cut off or gives up strays, and only where
\* late delivery is possible.
LEMMA StraySteps ==
    ASSUME [Next]_vars, NEW m \in stray'
    PROVE  m \in stray \/ (LateDelivery /\ \E u \in Threads : request[u] = m /\ m # None)
<1>1. ASSUME NEW t \in Threads, StartCall(t) \/ LedgerFails(t) \/ AuthorizeStep(t)
      PROVE  UNCHANGED stray
  BY <1>1
     DEF StartCall, StartSubmit, StartAuthorize, Begin, LedgerFails, AuthorizeStep, GetProof,
         AcquireProof, ProofLockTimeout, CheckProof, CheckDocument, ClaimRelease, SendRelease,
         ReleaseUnsent, ReleaseFails, ReleaseReply, RecordRelease, remoteVars
<1>2. ASSUME NEW t \in Threads, SubmitStep(t), ~PreauthFails(t) PROVE UNCHANGED stray
  BY <1>2
     DEF SubmitStep, EffectiveKey, AcquireSubmit, SubmitLockTimeout, FindProof, CheckPrior,
         QueryJob, ClearOrphan, BeginAttempt, Upload, UploadFails, FailAttempt, PreauthReply,
         PutProof,
         CompleteAttempt, remoteVars
<1>3. ASSUME NEW t \in Threads, PreauthFails(t)
      PROVE  m \in stray \/ (LateDelivery /\ \E u \in Threads : request[u] = m /\ m # None)
  BY <1>3 DEF PreauthFails, Raise, Abandon
<1>4. ASSUME NEW proc \in Procs, NEW on \in BOOLEAN, Crash(proc, on)
      PROVE  m \in stray \/ (LateDelivery /\ \E u \in Threads : request[u] = m /\ m # None)
  BY <1>4 DEF Crash
<1>5. ASSUME LetterStreamStep \/ Surroundings, \A proc \in Procs, on \in BOOLEAN : ~Crash(proc,
on)
      PROVE  m \in stray
  BY <1>5
     DEF LetterStreamStep, Surroundings, AcceptSubmission, AcceptStray, Mail, EditDocument,
         Expire, remoteVars
<1>6. CASE LetterStreamStep \/ Surroundings
  BY <1>4, <1>5, <1>6
<1>7. QED
  BY <1>1, <1>2, <1>3, <1>6 DEF Next, CallStep, vars, remoteVars

\* The record of an attempt is never withdrawn; it is closed by the call that
\* has put its proof.
LEMMA InflightSteps ==
    ASSUME TypeOK, [Next]_vars, NEW k \in Keys
    PROVE  \/ inflight'[k] \in {inflight[k], "in_flight"}

           \/ inflight'[k] = "submitted" /\ \E t \in Threads : CompleteAttempt(t) /\ call[t].key = k
<1>1. ASSUME NEW t \in Threads, ClearOrphan(t) \/ BeginAttempt(t) \/ FailAttempt(t)
      PROVE  inflight'[k] \in {inflight[k], "in_flight"}
  BY <1>1 DEF ClearOrphan, BeginAttempt, FailAttempt, TypeOK
<1>2. ASSUME NEW t \in Threads, CompleteAttempt(t)
      PROVE  inflight'[k] = inflight[k] \/ (inflight'[k] = "submitted" /\ call[t].key = k)
  BY <1>2 DEF CompleteAttempt, TypeOK
<1>3. ASSUME NEW t \in Threads, PutProof(t) \/ ClaimRelease(t) \/ RecordRelease(t)
      PROVE  UNCHANGED inflight
  BY <1>3 DEF PutProof, ClaimRelease, RecordRelease
<1>4. QED
  BY <1>1, <1>2, <1>3, LedgerSteps DEF ledgerVars

\* A call keeps its job and its key, and submits under them.
LEMMA CallNamed ==
    ASSUME SafetyInv, NamedByKey, NEW t \in Threads, StartCall(t) \/ CallStep(t)
    PROVE  /\ pc'[t] = "key" => \E r \in Requests : r.job = call'[t].job /\ r.key = call'[t].key
           /\ pc'[t] \in SubmitSection \union {"lock_submit"} => Uses(call'[t].key, call'[t].job)
<1> USE DEF Goto, SubmitSection, ProofSection
<1>t. TypeOK /\ LocalsOK(t) /\ ThreadNamed(t)
  BY DEF SafetyInv, TypeInv, NamedByKey
<1>p. pc \in [Threads -> Labels] /\ call \in [Threads -> CallRecord]
  BY <1>t DEF TypeOK
<1>1. ASSUME NEW r \in Requests, StartSubmit(t, r)
      PROVE  \/ pc'[t] = "idle"
             \/ pc'[t] = "key" /\ r.job = call'[t].job /\ r.key = call'[t].key
  BY <1>1, <1>p DEF StartSubmit, AnswerAbout, Proceed, NoCall
<1>2. ASSUME NEW p \in ProofIds, NEW hash \in Contents, NEW ack \in Acks \union {None},
             StartAuthorize(t, p, hash, ack)
      PROVE  pc'[t] \in {"idle", "get_proof"}
  BY <1>2, <1>p DEF StartAuthorize, AnswerAbout, Proceed
<1>3. CASE EffectiveKey(t)
  <2> DEFINE key == IF call[t].key = None THEN Fingerprint(call[t].job, doc) ELSE call[t].key
  <2>1. PICK r \in Requests : r.job = call[t].job /\ r.key = call[t].key
    BY <1>3, <1>t DEF EffectiveKey, ThreadNamed
  <2>2. CASE pc'[t] = "lock_submit"
    <3>1. doc # Missing /\ call' = [call EXCEPT ![t] = [call[t] EXCEPT !.key = key]]
      BY <1>3, <1>p, <2>2 DEF EffectiveKey, Proceed, Answer, AnswerAbout
    <3>2. call'[t].key = key /\ call'[t].job = call[t].job
      BY <1>p, <3>1 DEF CallRecord
    <3>3. doc \in Contents
      BY <1>t, <3>1 DEF TypeOK
    <3>4. Uses(key, call[t].job)
      BY <2>1, <3>3 DEF Uses
    <3>5. QED
      BY <2>2, <3>2, <3>4
  <2>3. CASE pc'[t] = "idle"
    BY <2>3
  <2>4. QED
    BY <1>3, <1>p, <2>2, <2>3 DEF EffectiveKey, Proceed, Answer, AnswerAbout
<1>4. CASE PutProof(t)
  <2>1. call'[t].key = call[t].key /\ call'[t].job = call[t].job /\ pc'[t] = "complete"
    BY <1>4, <1>p DEF PutProof, CallRecord
  <2>2. QED
    BY <1>4, <1>t, <2>1 DEF PutProof, ThreadNamed
<1>5. ASSUME SubmitStep(t), ~EffectiveKey(t), ~PutProof(t)
      PROVE  pc'[t] = "idle"
                 \/ (pc[t] \in SubmitSection \union {"lock_submit"} /\ pc'[t] # "key"
                         /\ call'[t] = call[t])
  BY <1>5, <1>p
     DEF SubmitStep, AcquireSubmit, SubmitLockTimeout, FindProof, CheckPrior, QueryJob,
         ClearOrphan, BeginAttempt, Upload, UploadFails, PreauthFails, Raise, FailAttempt,
         PreauthReply,
         CompleteAttempt, Answer, AnswerAbout
<1>6. ASSUME AuthorizeStep(t) \/ LedgerFails(t)
      PROVE  pc'[t] \notin SubmitSection \union {"lock_submit", "key"}
  BY <1>6, <1>p
     DEF AuthorizeStep, GetProof, AcquireProof, ProofLockTimeout, CheckProof, CheckDocument,
         ClaimRelease, SendRelease, ReleaseUnsent, ReleaseFails, ReleaseReply, RecordRelease,
         LedgerFails,
         Answer, AnswerAbout
<1>7. QED
  <2>1. CASE StartCall(t)
    BY <1>1, <1>2, <2>1 DEF StartCall
  <2>2. CASE SubmitStep(t)
    BY <1>3, <1>4, <1>5, <1>t, <2>2 DEF ThreadNamed
  <2>3. QED
    BY <1>6, <2>1, <2>2 DEF CallStep

\* Every step keeps the names the keys are used with.
LEMMA StepNamed == ASSUME SafetyInv, NamedByKey, [Next]_vars PROVE NamedByKey'
<1>t. TypeOK /\ TypeInv /\ \A t \in Threads : LocalsOK(t) /\ SubmitsAlone(t) /\ ThreadNamed(t)
  BY DEF SafetyInv, TypeInv, ThreadSafe, NamedByKey
<1>1. ASSUME NEW a \in Authcodes, jobs'[a] # None PROVE Uses(jobs'[a].key, jobs'[a].name)
  <2>1. ASSUME NEW m \in Message, NEW b \in Authcodes, HoldJob(m, b), Uses(m.key, m.name)
        PROVE  Uses(jobs'[a].key, jobs'[a].name)
    <3>1. CASE a = b
      BY <1>t, <2>1, <3>1 DEF HoldJob, TypeOK
    <3>2. CASE a # b
      BY <1>1, <1>t, <2>1, <3>2 DEF HoldJob, TypeOK, NamedByKey
    <3>3. QED
      BY <3>1, <3>2
  <2>2. ASSUME NEW t \in Threads, NEW b \in Authcodes, AcceptSubmission(t, b)
        PROVE  Uses(jobs'[a].key, jobs'[a].name)
    BY <1>t, <2>1, <2>2 DEF AcceptSubmission, TypeOK, ThreadNamed
  <2>3. ASSUME NEW m \in stray, NEW b \in Authcodes, AcceptStray(m, b)
        PROVE  Uses(jobs'[a].key, jobs'[a].name)
    BY <1>t, <2>1, <2>3 DEF AcceptStray, TypeOK, NamedByKey
  <2>4. CASE jobs[a] # None
    BY <1>t, <2>4, JobsStay DEF NamedByKey
  <2>5. QED
    BY <1>1, <1>t, <2>2, <2>3, <2>4, OldJobs
<1>2. ASSUME NEW m \in stray' PROVE Uses(m.key, m.name)
  BY <1>t, StraySteps DEF NamedByKey, ThreadNamed
<1>3. ASSUME NEW u \in Threads PROVE ThreadNamed(u)'
  <2>1. request'[u] # None => Uses(request'[u].key, request'[u].name)
    <3>1. CASE Upload(u)
      <4>1. request'[u].key = call[u].key /\ request'[u].name = call[u].job
        BY <1>t, <3>1 DEF Upload, TypeOK
      <4>2. Uses(call[u].key, call[u].job)
        BY <1>t, <3>1 DEF Upload, ThreadNamed, SubmitSection
      <4>3. QED
        BY <1>t, <4>1, <4>2 DEF ThreadNamed
    <3>2. QED
      BY <1>t, <3>1, RequestSteps DEF ThreadNamed
  <2>2. ASSUME NEW t \in Threads, StartCall(t) \/ CallStep(t) PROVE ThreadNamed(u)'
    <3>1. CASE u = t
      BY <2>1, <2>2, <3>1, CallNamed DEF ThreadNamed
    <3>2. CASE u # t
      BY <1>t, <2>1, <2>2, <3>2, OthersStill DEF ThreadNamed, Still
    <3>3. QED
      BY <3>1, <3>2
  <2>3. ASSUME Still(u) \/ CutOff(u) PROVE ThreadNamed(u)'
    BY <1>t, <2>1, <2>3 DEF ThreadNamed, Still, CutOff, SubmitSection
  <2>4. CASE UNCHANGED vars
    BY <2>3, <2>4 DEF vars, threadVars, Still
  <2>5. QED
    BY <2>2, <2>3, <2>4, WorldStill DEF Next
<1>4. QED
  BY <1>1, <1>2, <1>3 DEF NamedByKey

\* Two names one key is used with are one.
LEMMA OneName ==
    ASSUME OneNamePerKey, SafetyInv, NamedByKey, NEW a \in Authcodes, jobs[a] # None,
           NEW n \in Jobs, Uses(jobs[a].key, n)
    PROVE  jobs[a].name = n
<1>1. jobs[a] \in JobRecord
  BY DEF SafetyInv, TypeInv, TypeOK
<1>2. QED
  BY <1>1 DEF JobRecord, NamedByKey, OneNamePerKey

\* A job LetterStream holds for a key that has a proof is the job of that proof.
LEMMA JobOfProof ==
    ASSUME SafetyInv, OneHeldJobPerKey, NEW a \in Authcodes, jobs[a] # None,
           NEW p \in ProofIds, proofs[p] # None, proofs[p].key = jobs[a].key
    PROVE  proofs[p].code = a
<1>1. proofs[p] \in ProofRecord
  BY DEF SafetyInv, TypeInv, TypeOK
<1>2. QED
  BY <1>1 DEF ProofRecord, SafetyInv, LedgerSafe, ProofsAreBacked, OneHeldJobPerKey

\* A job LetterStream takes on is the first of its key.
LEMMA FirstJob ==
    ASSUME SafetyInv, JobInv, OneNamePerKey, NEW m \in Message, NEW a \in Authcodes,
           HoldJob(m, a), Uses(m.key, m.name),
           UniqueJobNames \/ \A b \in Authcodes : jobs[b] # None => jobs[b].key # m.key
    PROVE  /\ \A b \in Authcodes : jobs[b] # None => jobs[b].key # m.key
           /\ jobs'[a] # None /\ jobs'[a].key = m.key
           /\ \A b \in Authcodes \ {a} : jobs'[b] = jobs[b]
           /\ OneHeldJobPerKey'
<1>t. TypeOK
  BY DEF SafetyInv, TypeInv
<1>1. ASSUME UniqueJobNames, NEW b \in Authcodes, jobs[b] # None, jobs[b].key = m.key PROVE FALSE
  <2>1. jobs[b].name = m.name
    BY <1>1, OneName DEF JobInv, Message
  <2>2. QED
    BY <1>1, <2>1 DEF HoldJob, JobExists
<1>2. \A b \in Authcodes : jobs[b] # None => jobs[b].key # m.key
  BY <1>1
<1>3. PICK price \in Prices :
          jobs' = [jobs EXCEPT ![a] = [name |-> m.name, key |-> m.key, content |-> m.content,
                                       price |-> price, mailed |-> FALSE]]
  BY DEF HoldJob
<1> DEFINE j == [name |-> m.name, key |-> m.key, content |-> m.content,
                 price |-> price, mailed |-> FALSE]
<1>4. j \in JobRecord /\ j.key = m.key
  BY DEF Message, JobRecord
<1>5. j # None
  BY <1>4, NoneAssumption
<1> HIDE DEF j
<1>6. jobs'[a] = j /\ \A b \in Authcodes \ {a} : jobs'[b] = jobs[b]
  BY <1>t, <1>3 DEF TypeOK, j
<1>7. OneHeldJobPerKey'
  BY <1>2, <1>4, <1>6 DEF JobInv, OneHeldJobPerKey
<1>8. QED
  BY <1>2, <1>4, <1>5, <1>6, <1>7

\* The record of a thread that may have a submission under way is not closed
\* by another.
LEMMA RecordStays ==
    ASSUME SafetyInv, [Next]_vars, NEW u \in Threads, pc[u] \in {"begin", "upload",
    "wait_preauth"},
           inflight[call[u].key] = "in_flight"
    PROVE  inflight'[call[u].key] = "in_flight"
<1>t. TypeOK /\ LocalsOK(u) /\ Apart(u)
  BY DEF SafetyInv, TypeInv, ThreadSafe
<1>1. call[u].key \in Keys
  BY <1>t DEF LocalsOK, SubmitLabels, SubmitSection
<1>2. ASSUME NEW t \in Threads, CompleteAttempt(t), call[t].key = call[u].key PROVE FALSE
  BY <1>2, <1>t DEF CompleteAttempt, Apart, SubmitSection
<1>3. QED
  BY <1>t, <1>1, <1>2, InflightSteps

\* What a call's own step leaves of its attempt.
LEMMA CallOpens ==
    ASSUME OneNamePerKey, SafetyInv, TypeInv', JobInv, NEW t \in Threads,
           StartCall(t) \/ CallStep(t)
    PROVE  AttemptOpen(t)'
<1> USE DEF Goto
<1>t. /\ TypeOK /\ LocalsOK(t) /\ SubmitsAlone(t) /\ ThreadNamed(t) /\ AttemptOpen(t)
      /\ NamedByKey /\ NothingForgotten
  BY DEF SafetyInv, TypeInv, ThreadSafe, JobInv, NamedByKey
<1>p. pc \in [Threads -> Labels] /\ call \in [Threads -> CallRecord]
  BY <1>t DEF TypeOK
<1>r. request'[t] # None => pc'[t] = "wait_preauth"
  BY DEF TypeInv, LocalsOK
<1>1. CASE CheckPrior(t)
  <2>1. UNCHANGED <<jobs, call>> /\ pc'[t] \in {"query", "begin"}
    BY <1>1, <1>p DEF CheckPrior, remoteVars
  <2>2. pc'[t] = "begin" => inflight[call[t].key] # "in_flight"
    BY <1>1, <1>p DEF CheckPrior
  <2>3. ASSUME pc'[t] = "begin", NEW a \in Authcodes, jobs[a] # None, jobs[a].key = call[t].key
        PROVE  FALSE
    <3>1. PICK p \in ProofIds : proofs[p] # None /\ proofs[p].code = a
      BY <1>t, <2>2, <2>3 DEF NothingForgotten, HasProof
    <3>2. proofs[p].key = call[t].key
      BY <2>3, <3>1 DEF SafetyInv, LedgerSafe, ProofsAreBacked
    <3>3. QED
      BY <1>1, <1>t, <3>1, <3>2 DEF CheckPrior, SubmitsAlone, SubmitSection
  <2>4. QED
    BY <1>r, <2>1, <2>3 DEF AttemptOpen
<1>2. CASE QueryJob(t)
  <2>1. UNCHANGED <<jobs, inflight>> /\ pc'[t] \in {"clear", "idle"}
    BY <1>2, <1>p DEF QueryJob, Answer, AnswerAbout, remoteVars, ledgerVars
  <2>2. pc'[t] = "clear" => ~JobExists(call[t].job) /\ call' = call
    BY <1>2, <1>p DEF QueryJob, JobStatus, Answer, AnswerAbout
  <2>3. ASSUME pc'[t] = "clear", NEW a \in Authcodes, jobs[a] # None, jobs[a].key = call[t].key
        PROVE  FALSE
    <3>1. Uses(call[t].key, call[t].job) /\ call[t].job \in Jobs
      BY <1>2, <1>t DEF QueryJob, ThreadNamed, SubmitSection, LocalsOK, SubmitLabels
    <3>2. jobs[a].name = call[t].job
      BY <1>t, <2>3, <3>1, OneName
    <3>3. QED
      BY <2>2, <2>3, <3>2 DEF JobExists
  <2>4. QED
    BY <1>r, <2>1, <2>2, <2>3 DEF AttemptOpen
<1>3. CASE ClearOrphan(t)
  <2>1. UNCHANGED <<jobs, call>> /\ pc[t] = "clear" /\ pc'[t] = "begin"
    BY <1>3, <1>p DEF ClearOrphan, remoteVars
  <2>2. QED
    BY <1>r, <1>t, <2>1 DEF AttemptOpen
<1>4. CASE BeginAttempt(t)
  <2>1. UNCHANGED <<jobs, call>> /\ pc[t] = "begin" /\ pc'[t] = "upload"
    BY <1>4, <1>p DEF BeginAttempt, remoteVars
  <2>2. inflight'[call[t].key] = "in_flight"
    BY <1>4, <1>t DEF BeginAttempt, TypeOK, LocalsOK, SubmitLabels, SubmitSection
  <2>3. QED
    BY <1>r, <1>t, <2>1, <2>2 DEF AttemptOpen
<1>5. CASE Upload(t)
  <2>1. UNCHANGED <<jobs, call, inflight>> /\ pc[t] = "upload" /\ pc'[t] = "wait_preauth"
    BY <1>5, <1>p DEF Upload, ledgerVars
  <2>2. QED
    BY <1>r, <1>t, <2>1 DEF AttemptOpen
<1>6. CASE pc'[t] \notin {"clear", "begin", "upload", "wait_preauth"}
  BY <1>6, <1>r DEF AttemptOpen
<1>7. ASSUME ~CheckPrior(t), ~QueryJob(t), ~ClearOrphan(t), ~BeginAttempt(t), ~Upload(t)
      PROVE  pc'[t] \notin {"clear", "begin", "upload", "wait_preauth"}
  <2>1. CASE StartCall(t) \/ LedgerFails(t)
    BY <1>p, <2>1
       DEF StartCall, StartSubmit, StartAuthorize, Proceed, LedgerFails, Answer, AnswerAbout
  <2>2. CASE SubmitStep(t)
    BY <1>7, <1>p, <2>2
       DEF SubmitStep, EffectiveKey, Proceed, AcquireSubmit, SubmitLockTimeout, FindProof,
           UploadFails, PreauthFails, FailAttempt, PreauthReply, PutProof, CompleteAttempt, Raise,
           Answer, AnswerAbout
  <2>3. CASE AuthorizeStep(t)
    BY <1>p, <2>3
       DEF AuthorizeStep, GetProof, AcquireProof, ProofLockTimeout, CheckProof, CheckDocument,
           ClaimRelease, SendRelease, ReleaseUnsent, ReleaseFails, ReleaseReply, RecordRelease,
           Answer,
           AnswerAbout
  <2>4. QED
    BY <2>1, <2>2, <2>3 DEF CallStep
<1>8. QED
  BY <1>1, <1>2, <1>3, <1>4, <1>5, <1>6, <1>7
\* A step that accepts no submission leaves the attempt of a call it does not
\* make as it was.
LEMMA StillOpen ==
    ASSUME SafetyInv, JobInv, TypeInv', [Next]_vars, NEW u \in Threads,
           Still(u) \/ CutOff(u), request'[u] \in {request[u], None},
           UniqueJobNames
               \/ \A a \in Authcodes :
                      jobs[a] = None /\ jobs'[a] # None /\ pc[u] \in SubmitSection =>
                          jobs'[a].key # call[u].key
    PROVE  AttemptOpen(u)'
<1>t. TypeInv /\ AttemptOpen(u) /\ LocalsOK(u) /\ LocalsOK(u)'
  BY DEF SafetyInv, TypeInv, JobInv
<1>1. CASE CutOff(u)
  BY <1>t, <1>1 DEF CutOff, AttemptOpen, LocalsOK
<1>2. CASE Still(u)
  <2>1. pc[u] \in {"upload", "wait_preauth"} => inflight'[call[u].key] = "in_flight"
    BY <1>t, RecordStays DEF AttemptOpen
  <2>2. ASSUME ~UniqueJobNames, pc[u] \in {"clear", "begin", "upload"} \/ request'[u] # None,
               NEW a \in Authcodes, jobs'[a] # None
        PROVE  jobs'[a].key # call[u].key
    <3>1. pc[u] \in {"clear", "begin", "upload"} \/ request[u] # None
      BY <2>2
    <3>2. pc[u] \in SubmitSection
      BY <1>t, <3>1 DEF LocalsOK, SubmitSection
    <3>3. CASE jobs[a] # None
      BY <1>t, <2>2, <3>1, <3>3, JobsStay DEF AttemptOpen
    <3>4. QED
      BY <2>2, <3>2, <3>3
  <2>3. QED
    BY <1>2, <2>1, <2>2 DEF AttemptOpen, Still
<1>3. QED
  BY <1>1, <1>2

\* A key that is closed is the key of a job that a proof names.
LEMMA ClosedHasJob ==
    ASSUME SafetyInv, NEW k \in Keys, inflight[k] = "submitted"
    PROVE  \E a \in Authcodes : jobs[a] # None /\ jobs[a].key = k /\ HasProof(a)
<1>1. PICK p \in ProofIds : proofs[p] # None /\ proofs[p].key = k
  BY DEF SafetyInv, SubmittedHasProof
<1>2. proofs[p].code \in Authcodes
  BY <1>1 DEF SafetyInv, TypeInv, TypeOK, ProofRecord
<1>3. QED
  BY <1>1, <1>2 DEF SafetyInv, LedgerSafe, ProofsAreBacked, HasProof

\* A job that is not forgotten stays so.
LEMMA StillKnown ==
    ASSUME SafetyInv, JobInv, [Next]_vars, NEW a \in Authcodes, jobs[a] # None
    PROVE  HasProof(a)' \/ inflight'[jobs'[a].key] = "in_flight"
<1>t. TypeOK /\ TypeInv /\ jobs[a].key \in Keys
  BY DEF SafetyInv, TypeInv, TypeOK, JobRecord
<1>k. jobs'[a].key = jobs[a].key
  BY <1>t, JobsStay
<1>1. CASE HasProof(a)
  BY <1>1, ProofsStay DEF HasProof
<1>2. CASE inflight[jobs[a].key] = "in_flight" /\ ~HasProof(a)
  <2>1. ASSUME NEW t \in Threads, CompleteAttempt(t), call[t].key = jobs[a].key PROVE FALSE
    <3>1. PICK p \in ProofIds : proofs[p] # None /\ proofs[p].key = jobs[a].key
      BY <2>1 DEF CompleteAttempt, SafetyInv, ThreadSafe, SubmitsAlone
    <3>2. QED
      BY <1>2, <3>1, JobOfProof DEF JobInv, HasProof
  <2>2. QED
    BY <1>t, <1>k, <1>2, <2>1, InflightSteps
<1>3. QED
  BY <1>1, <1>2 DEF JobInv, NothingForgotten

\* The records of the keys of submissions that stray are there.
LEMMA StepStray ==
    ASSUME SafetyInv, JobInv, [Next]_vars, NEW m \in stray'
    PROVE  LateDelivery /\ inflight'[m.key] # "absent"
<1>t. TypeOK /\ NothingForgotten
  BY DEF SafetyInv, TypeInv, JobInv
<1>1. /\ LateDelivery /\ inflight[m.key] # "absent" /\ m \in Message
  BY <1>t, StraySteps DEF JobInv, NothingForgotten, TypeOK
<1>2. QED
  BY <1>t, <1>1, InflightSteps DEF Message

\* A thread that does not make the step does not send.
LEMMA StillRequests ==
    ASSUME TypeOK, [Next]_vars, NEW u \in Threads, Still(u) \/ CutOff(u)
    PROVE  request'[u] \in {request[u], None}
<1>1. ASSUME Upload(u) PROVE request'[u] = request[u]
  BY <1>1 DEF Upload, Goto, TypeOK, Still, CutOff
<1>2. QED
  BY <1>1, RequestSteps

\* A step that adds no job keeps the jobs in order.
LEMMA SameJobs ==
    ASSUME SafetyInv, JobInv, [Next]_vars,
           \A a \in Authcodes : jobs'[a] # None => jobs[a] # None
    PROVE  /\ OneHeldJobPerKey'
           /\ \A a \in Authcodes :
                  jobs'[a] # None => HasProof(a)' \/ inflight'[jobs'[a].key] = "in_flight"
<1>1. \A a \in Authcodes : jobs'[a] # None => jobs[a] # None /\ jobs'[a].key = jobs[a].key
  BY JobsStay DEF SafetyInv
<1>2. OneHeldJobPerKey'
  BY <1>1 DEF JobInv, OneHeldJobPerKey
<1>3. QED
  BY <1>1, <1>2, StillKnown

\* A step that adds the first job of a key, whose record is there, keeps the
\* jobs in order.
LEMMA OneMoreJob ==
    ASSUME OneNamePerKey, SafetyInv, JobInv, [Next]_vars, UNCHANGED ledgerVars,
           NEW m \in Message, NEW a \in Authcodes, HoldJob(m, a), Uses(m.key, m.name),
           UniqueJobNames \/ \A b \in Authcodes : jobs[b] # None => jobs[b].key # m.key,
           inflight[m.key] # "absent"
    PROVE  /\ OneHeldJobPerKey'
           /\ \A b \in Authcodes :
                  jobs'[b] # None => HasProof(b)' \/ inflight'[jobs'[b].key] = "in_flight"
           /\ \A b \in Authcodes : jobs[b] = None /\ jobs'[b] # None => jobs'[b].key = m.key
<1>1. /\ \A b \in Authcodes : jobs[b] # None => jobs[b].key # m.key
      /\ jobs'[a] # None /\ jobs'[a].key = m.key
      /\ \A b \in Authcodes \ {a} : jobs'[b] = jobs[b]
      /\ OneHeldJobPerKey'
  BY FirstJob
<1>2. m.key \in Keys
  BY DEF Message
<1>3. inflight[m.key] \in {"absent", "in_flight", "submitted"}
  BY <1>2 DEF SafetyInv, TypeInv, TypeOK
<1>4. inflight'[m.key] = "in_flight"
  BY <1>1, <1>2, <1>3, ClosedHasJob DEF ledgerVars
<1>5. QED
  BY <1>1, <1>4, StillKnown

\* Every step keeps the jobs and the attempts in order.
LEMMA StepJobs ==
    ASSUME ExclusiveLocks, OneNamePerKey, SubmissionsSettle, SafetyInv, JobInv, [Next]_vars
    PROVE  JobInv'
<1>s. SafetyInv' /\ TypeInv'
  BY StepSafe DEF SafetyInv
<1>t. /\ TypeOK /\ NamedByKey /\ NothingForgotten
      /\ \A t \in Threads : /\ LocalsOK(t) /\ SubmitsAlone(t) /\ Apart(t)
                            /\ ThreadNamed(t) /\ AttemptOpen(t)
  BY DEF SafetyInv, TypeInv, ThreadSafe, JobInv, NamedByKey
<1> DEFINE Known == \A a \in Authcodes :
               jobs'[a] # None => HasProof(a)' \/ inflight'[jobs'[a].key] = "in_flight"
<1>a. ASSUME OneHeldJobPerKey', Known, \A u \in Threads : AttemptOpen(u)' PROVE JobInv'
  <2>1. \A u \in Threads : request'[u] # None => inflight'[request'[u].key] = "in_flight"
    BY <1>a, <1>s DEF SafetyInv, TypeInv, LocalsOK, ThreadSafe, SubmitsAlone, AttemptOpen
  <2>2. NothingForgotten'
    BY <1>a, <2>1 DEF NothingForgotten
  <2>3. NamedByKey'
    BY <1>t, StepNamed
  <2>4. QED
    BY <1>a, <2>2, <2>3, StepStray DEF JobInv
<1> HIDE DEF Known
<1>o. ASSUME \A a \in Authcodes : jobs'[a] # None => jobs[a] # None
      PROVE  OneHeldJobPerKey' /\ Known
  BY <1>o, SameJobs DEF Known
<1>1. ASSUME NEW t \in Threads, StartCall(t) \/ CallStep(t) PROVE JobInv'
  <2>1. UNCHANGED jobs
    BY <1>1, CallsKeepJobs
  <2>2. AttemptOpen(t)'
    BY <1>1, <1>s, CallOpens
  <2>3. ASSUME NEW u \in Threads \ {t} PROVE AttemptOpen(u)'
    <3>1. Still(u)
      BY <1>1, <1>t, OthersStill
    <3>2. QED
      BY <1>s, <1>t, <2>1, <3>1, StillRequests, StillOpen
  <2>4. QED
    BY <1>a, <1>o, <2>1, <2>2, <2>3
<1>2. ASSUME NEW t \in Threads, NEW a \in Authcodes, AcceptSubmission(t, a) PROVE JobInv'
  <2>1. /\ request[t] \in Message /\ HoldJob(request[t], a) /\ request[t].key = call[t].key
        /\ pc[t] = "wait_preauth" /\ request'[t] = None /\ UNCHANGED <<threadVars, ledgerVars>>
    BY <1>2, <1>t DEF AcceptSubmission, TypeOK, LocalsOK, SubmitsAlone
  <2>2. /\ Uses(request[t].key, request[t].name)
        /\ inflight[request[t].key] # "absent"
        /\ UniqueJobNames \/ \A b \in Authcodes : jobs[b] # None => jobs[b].key # request[t].key
    BY <1>2, <1>t, <2>1 DEF AcceptSubmission, ThreadNamed, AttemptOpen
  <2>3. /\ OneHeldJobPerKey' /\ Known
        /\ \A b \in Authcodes : jobs[b] = None /\ jobs'[b] # None => jobs'[b].key = call[t].key
    BY <2>1, <2>2, OneMoreJob DEF Known
  <2>4. ASSUME NEW u \in Threads PROVE AttemptOpen(u)'
    <3>1. Still(u)
      BY <2>1 DEF Still, threadVars
    <3>2. CASE u = t
      BY <1>t, <2>1, <3>2 DEF AttemptOpen, threadVars, ledgerVars
    <3>3. CASE u # t
      <4>1. pc[u] \in SubmitSection => call[u].key # call[t].key
        BY <1>t, <2>1, <3>3 DEF Apart, SubmitSection
      <4>2. QED
        BY <1>s, <1>t, <2>3, <3>1, <4>1, StillRequests, StillOpen
    <3>4. QED
      BY <3>2, <3>3
  <2>5. QED
    BY <1>a, <2>3, <2>4
<1>3. ASSUME NEW m \in stray, NEW a \in Authcodes, AcceptStray(m, a) PROVE JobInv'
  <2>1. /\ UniqueJobNames /\ m \in Message /\ HoldJob(m, a) /\ Uses(m.key, m.name)
        /\ inflight[m.key] # "absent" /\ UNCHANGED <<threadVars, ledgerVars>>
    BY <1>3, <1>t DEF AcceptStray, SubmissionsSettle, JobInv, NamedByKey, TypeOK
  <2>2. OneHeldJobPerKey' /\ Known
    BY <2>1, OneMoreJob DEF Known
  <2>3. ASSUME NEW u \in Threads PROVE AttemptOpen(u)'
    <3>1. Still(u)
      BY <2>1 DEF Still, threadVars
    <3>2. QED
      BY <1>s, <1>t, <2>1, <3>1, StillRequests, StillOpen
  <2>4. QED
    BY <1>a, <2>2, <2>3
<1>4. ASSUME NEW b \in Authcodes, Mail(b)
      PROVE  UNCHANGED threadVars /\ \A a \in Authcodes : jobs'[a] # None => jobs[a] # None
  BY <1>4, <1>t DEF Mail, TypeOK
<1>5. ASSUME Surroundings PROVE UNCHANGED jobs
  BY <1>5 DEF Surroundings, EditDocument, Expire, Crash, remoteVars
<1>6. ASSUME \A a \in Authcodes : jobs'[a] # None => jobs[a] # None,
             \A u \in Threads : Still(u) \/ CutOff(u)
      PROVE  JobInv'
  <2>1. \A u \in Threads : AttemptOpen(u)'
    BY <1>6, <1>s, <1>t, StillRequests, StillOpen
  <2>2. QED
    BY <1>a, <1>o, <1>6, <2>1
<1>7. CASE UNCHANGED vars
  BY <1>6, <1>7 DEF vars, threadVars, remoteVars, Still
<1>8. CASE Surroundings
  BY <1>5, <1>6, <1>8, WorldStill
<1>9. ASSUME NEW b \in Authcodes, Mail(b) PROVE JobInv'
  BY <1>4, <1>6, <1>9 DEF threadVars, Still
<1>10. QED
  BY <1>1, <1>2, <1>3, <1>7, <1>8, <1>9 DEF Next, LetterStreamStep
\* The jobs and the attempts are in order throughout.
LEMMA JobInvariance ==
    ASSUME ExclusiveLocks, OneNamePerKey, SubmissionsSettle PROVE Spec => [](SafetyInv /\ JobInv)
<1>1. Init => JobInv
  BY DEF Init, JobInv, NamedByKey, ThreadNamed, OneHeldJobPerKey, NothingForgotten, AttemptOpen,
         SubmitSection
<1>2. SafetyInv /\ JobInv /\ [Next]_vars => JobInv'
  BY StepJobs
<1>3. QED
  BY <1>1, <1>2, SafetyInvariance, PTL DEF Spec

\* LetterStream never holds two jobs for one key, if a key is used with one job
\* name and a submission does not outlive its call unnoticed.
THEOREM OneHeldJob ==
    ASSUME ExclusiveLocks, OneNamePerKey, SubmissionsSettle PROVE Spec => []OneHeldJobPerKey
<1>1. JobInv => OneHeldJobPerKey
  BY DEF JobInv
<1>2. QED
  BY <1>1, JobInvariance, PTL

\* A job, or a submission that may become one, is in a proof or in the record
\* that warns the next submit of its key.
THEOREM NothingIsForgotten ==
    ASSUME ExclusiveLocks, OneNamePerKey, SubmissionsSettle PROVE Spec => []NothingForgotten
<1>1. JobInv => NothingForgotten
  BY DEF JobInv
<1>2. QED
  BY <1>1, JobInvariance, PTL

-----------------------------------------------------------------------------
(* The refinement of MailOnce *)

HeldFor == [k \in Keys |-> {a \in Authcodes : jobs[a] # None /\ jobs[a].key = k}]
Approved == {a \in Authcodes :
                 \E p \in ProofIds : proofs[p] # None /\ proofs[p].code = a /\ proofs[p].claimed}
MailedJobs == {a \in Authcodes : jobs[a] # None /\ jobs[a].mailed}

\* The stages of MailOnce, in the state of the gate.
LEMMA AllHeldJobs ==
    ASSUME TypeOK
    PROVE  \A a \in Authcodes : a \in Mails!AllHeld <=> jobs[a] # None
<1>1. \A a \in Authcodes : jobs[a] # None => jobs[a].key \in Keys
  BY DEF TypeOK, JobRecord
<1>2. QED
  BY <1>1 DEF Mails!AllHeld

\* LetterStream takes on the first job of a letter.
LEMMA HoldRefines ==
    ASSUME OneNamePerKey, SafetyInv, JobInv, NEW m \in Message, NEW a \in Authcodes,
           HoldJob(m, a), Uses(m.key, m.name),
           UniqueJobNames \/ \A b \in Authcodes : jobs[b] # None => jobs[b].key # m.key,
           UNCHANGED <<proofs, releases>>
    PROVE  Mails!Hold(m.key, a)
<1>t. TypeOK /\ m.key \in Keys
  BY DEF SafetyInv, TypeInv, Message
<1>1. /\ \A b \in Authcodes : jobs[b] # None => jobs[b].key # m.key
      /\ jobs'[a] # None /\ jobs'[a].key = m.key
      /\ \A b \in Authcodes \ {a} : jobs'[b] = jobs[b]
  BY FirstJob
<1>2. jobs[a] = None /\ ~jobs'[a].mailed
  BY <1>t DEF HoldJob, TypeOK
<1>3. HeldFor[m.key] = {} /\ HeldFor' = [HeldFor EXCEPT ![m.key] = {a}]
  BY <1>t, <1>1, <1>2 DEF HeldFor
<1>4. MailedJobs' = MailedJobs /\ Approved' = Approved
  BY <1>1, <1>2 DEF MailedJobs, Approved
<1>5. a \notin Mails!AllHeld
  BY <1>t, <1>2, AllHeldJobs
<1>6. QED
  BY <1>3, <1>4, <1>5 DEF Mails!Hold, HeldFor, MailedJobs, Approved
\* The claim of a release approves the job.
LEMMA ApproveRefines ==
    ASSUME SafetyInv, NEW t \in Threads, ClaimRelease(t)
    PROVE  \E c \in Authcodes : Mails!Approve(c)
<1>t. TypeOK /\ LocalsOK(t) /\ ReleasesAlone(t) /\ LedgerSafe
  BY DEF SafetyInv, TypeInv, ThreadSafe
<1> DEFINE p == call[t].pid
           r == [proof[t] EXCEPT !.claimed = TRUE]
<1>1. /\ p \in ProofIds /\ proof[t] \in ProofRecord /\ proofs[p] = proof[t] /\ ~proof[t].claimed
  BY <1>t DEF ClaimRelease, LocalsOK, AuthorizeLabels, ProofSection, ReleasesAlone
<1>c. PICK c \in Authcodes : c = proof[t].code
  BY <1>1 DEF ProofRecord
<1>2. r \in ProofRecord /\ r.code = c /\ r.claimed
  BY <1>1, <1>c, ProofTypes DEF ProofRecord
<1>3. proof[t] # None /\ r # None
  BY <1>1, <1>2, NoneAssumption
<1>4. proofs' = [proofs EXCEPT ![p] = r] /\ UNCHANGED <<jobs, releases>>
  BY <1>t DEF ClaimRelease, remoteVars, TypeOK
<1>5. proofs'[p] = r /\ \A q \in ProofIds \ {p} : proofs'[q] = proofs[q]
  <2> HIDE DEF r, p
  <2>1. QED BY <1>t, <1>1, <1>4 DEF TypeOK
<1>6. \A q \in ProofIds \ {p} : proofs[q] # None => proofs[q].code # c
  BY <1>1, <1>3, <1>c, <1>t DEF LedgerSafe, ProofsAreBacked
<1>7. c \notin Approved /\ Approved' = Approved \union {c}
  <2> HIDE DEF r, p
  <2>1. proofs[p].code = c
    BY <1>1, <1>c
  <2>2. QED
    BY <1>1, <1>2, <1>3, <1>5, <1>6, <2>1 DEF Approved
<1>8. c \in Mails!AllHeld
  BY <1>1, <1>3, <1>c, <1>t, AllHeldJobs DEF LedgerSafe, ProofsAreBacked
<1>9. HeldFor' = HeldFor /\ MailedJobs' = MailedJobs
  BY <1>4 DEF HeldFor, MailedJobs
<1>10. QED
  BY <1>4, <1>7, <1>8, <1>9 DEF Mails!Approve, HeldFor, MailedJobs, Approved

\* The release request is the only order for an approved job.
LEMMA OrderRefines ==
    ASSUME SafetyInv, NEW t \in Threads, SendRelease(t)
    PROVE  \E c \in Authcodes : Mails!Order(c)
<1>t. TypeOK /\ LocalsOK(t) /\ ReleasesAlone(t)
  BY DEF SafetyInv, TypeInv, ThreadSafe
<1>1. /\ call[t].pid \in ProofIds /\ proof[t] \in ProofRecord
      /\ proofs[call[t].pid] = proof[t] /\ proof[t].claimed /\ releases[proof[t].code] = 0
  BY <1>t DEF SendRelease, LocalsOK, AuthorizeLabels, ProofSection, ReleasesAlone
<1>2. PICK c \in Authcodes : c = proof[t].code
  BY <1>1 DEF ProofRecord
<1>3. c \in Approved
  BY <1>1, <1>2, NoneAssumption DEF Approved
<1>4. releases[c] = 0 /\ releases' = [releases EXCEPT ![c] = 1]
  BY <1>t, <1>1, <1>2 DEF SendRelease, TypeOK
<1>5. HeldFor' = HeldFor /\ MailedJobs' = MailedJobs /\ Approved' = Approved
  BY DEF SendRelease, ledgerVars, HeldFor, MailedJobs, Approved
<1>6. QED
  BY <1>3, <1>4, <1>5 DEF Mails!Order, HeldFor, MailedJobs, Approved

\* LetterStream mails a job that was ordered once.
LEMMA MailRefines ==
    ASSUME SafetyInv, NEW a \in Authcodes, Mail(a) PROVE Mails!Mail(a)
<1>t. TypeOK /\ AtMostOneRelease
  BY DEF SafetyInv, TypeInv, LedgerSafe
<1>1. releases[a] = 1
  BY <1>t DEF Mail, AtMostOneRelease, TypeOK
<1> DEFINE j == [jobs[a] EXCEPT !.mailed = TRUE]
<1>2. j \in JobRecord /\ j.key = jobs[a].key /\ j.mailed
  BY <1>t, JobTypes DEF Mail, TypeOK, JobRecord
<1>3. j # None
  BY <1>2, NoneAssumption
<1>4. jobs'[a] = j /\ \A b \in Authcodes \ {a} : jobs'[b] = jobs[b]
  BY <1>t DEF Mail, TypeOK
<1> HIDE DEF j
<1>5. HeldFor' = HeldFor
  BY <1>2, <1>3, <1>4 DEF Mail, HeldFor
<1>6. a \notin MailedJobs /\ MailedJobs' = MailedJobs \union {a}
  BY <1>2, <1>3, <1>4 DEF Mail, MailedJobs
<1>7. UNCHANGED <<Approved, releases>>
  BY DEF Mail, ledgerVars, Approved
<1>8. QED
  BY <1>1, <1>5, <1>6, <1>7 DEF Mails!Mail, HeldFor, MailedJobs, Approved

\* What puts a proof, or stamps a claimed one, approves nothing.
LEMMA PutStutters ==
    ASSUME SafetyInv, NEW t \in Threads, PutProof(t) \/ RecordRelease(t)
    PROVE  UNCHANGED <<Approved, jobs, releases>>
<1>t. TypeOK /\ LocalsOK(t) /\ SubmitsAlone(t) /\ ReleasesAlone(t)
  BY DEF SafetyInv, TypeInv, ThreadSafe
<1>1. CASE PutProof(t)
  <2>1. PICK p \in ProofIds : proofs[p] = None /\ proofs' = [proofs EXCEPT ![p] = proof[t]]
    BY <1>1 DEF PutProof
  <2>2. ~proof[t].claimed
    BY <1>1, <1>t DEF PutProof, SubmitsAlone
  <2>3. proofs'[p] = proof[t] /\ \A q \in ProofIds \ {p} : proofs'[q] = proofs[q]
    BY <1>t, <2>1 DEF TypeOK
  <2>4. QED
    BY <1>1, <2>1, <2>2, <2>3 DEF PutProof, remoteVars, Approved
<1>2. CASE RecordRelease(t)
  <2> DEFINE p == call[t].pid
             r == [proof[t] EXCEPT !.authorized = TRUE]
  <2>1. p \in ProofIds /\ proof[t] \in ProofRecord /\ proofs[p] = proof[t] /\ proof[t].claimed
    BY <1>2, <1>t DEF RecordRelease, LocalsOK, AuthorizeLabels, ProofSection, ReleasesAlone
  <2>2. r \in ProofRecord /\ r.code = proof[t].code /\ r.claimed
    BY <2>1, ProofTypes DEF ProofRecord
  <2>3. proof[t] # None /\ r # None
    BY <2>1, <2>2, NoneAssumption
  <2>4. proofs'[p] = r /\ \A q \in ProofIds \ {p} : proofs'[q] = proofs[q]
    BY <1>2, <1>t, <2>1 DEF RecordRelease, TypeOK
  <2> HIDE DEF p, r
  <2>5. Approved' = Approved
    BY <2>1, <2>2, <2>3, <2>4 DEF Approved
  <2>6. QED
    BY <1>2, <2>5 DEF RecordRelease, remoteVars
<1>3. QED
  BY <1>1, <1>2

\* Every step is one of MailOnce or changes nothing MailOnce sees.
LEMMA StepRefines ==
    ASSUME OneNamePerKey, SubmissionsSettle, SafetyInv, JobInv, [Next]_vars
    PROVE  [Mails!MailNext]_Mails!mailVars
<1>t. /\ TypeOK /\ NamedByKey
      /\ \A t \in Threads : LocalsOK(t) /\ SubmitsAlone(t) /\ ThreadNamed(t) /\ AttemptOpen(t)
  BY DEF SafetyInv, TypeInv, ThreadSafe, JobInv, NamedByKey
<1>s. ASSUME UNCHANGED <<Approved, jobs, releases>> PROVE UNCHANGED Mails!mailVars
  BY <1>s DEF Mails!mailVars, Approved
<1>1. ASSUME NEW t \in Threads, NEW a \in Authcodes, AcceptSubmission(t, a)
      PROVE  \E k \in Keys : Mails!Hold(k, a)
  <2>1. /\ request[t] \in Message /\ HoldJob(request[t], a) /\ UNCHANGED <<proofs, releases>>
        /\ Uses(request[t].key, request[t].name)
        /\ UniqueJobNames \/ \A b \in Authcodes : jobs[b] # None => jobs[b].key # request[t].key
    BY <1>1, <1>t
       DEF AcceptSubmission, TypeOK, SubmitsAlone, ThreadNamed, AttemptOpen, ledgerVars
  <2>2. QED
    BY <2>1, HoldRefines DEF Message
<1>2. ASSUME NEW m \in stray, NEW a \in Authcodes, AcceptStray(m, a)
      PROVE  \E k \in Keys : Mails!Hold(k, a)
  <2>1. /\ m \in Message /\ HoldJob(m, a) /\ UNCHANGED <<proofs, releases>>
        /\ Uses(m.key, m.name) /\ UniqueJobNames
    BY <1>2, <1>t
       DEF AcceptStray, TypeOK, NamedByKey, JobInv, SubmissionsSettle, ledgerVars
  <2>2. QED
    BY <2>1, HoldRefines DEF Message
<1>3. CASE UNCHANGED jobs /\ UNCHANGED releases
  <2>1. ASSUME UNCHANGED proofs PROVE UNCHANGED Mails!mailVars
    BY <1>3, <1>s, <2>1 DEF Approved
  <2>2. ASSUME NEW t \in Threads, ClaimRelease(t) PROVE Mails!MailNext
    BY <2>2, ApproveRefines DEF Mails!MailNext
  <2>3. ASSUME NEW t \in Threads, PutProof(t) \/ RecordRelease(t) PROVE UNCHANGED Mails!mailVars
    BY <1>s, <2>3, PutStutters
  <2>4. QED
    BY <2>1, <2>2, <2>3, LedgerSteps
       DEF ledgerVars, ClearOrphan, BeginAttempt, FailAttempt, CompleteAttempt
<1>4. ASSUME NEW t \in Threads, SendRelease(t) PROVE Mails!MailNext
  BY <1>4, OrderRefines DEF Mails!MailNext
<1>5. ASSUME NEW a \in Authcodes, Mail(a) PROVE Mails!MailNext
  BY <1>5, MailRefines DEF Mails!MailNext
<1>6. ASSUME NEW a \in Authcodes, NEW k \in Keys, Mails!Hold(k, a) PROVE Mails!MailNext
  BY <1>6 DEF Mails!MailNext
<1>7. QED
  BY <1>1, <1>2, <1>3, <1>4, <1>5, <1>6, JobsSteps, ReleasesSteps

\* The gate implements MailOnce: every letter is held, approved, ordered and
\* mailed at most once, in that order.
THEOREM GateMailsOnce ==
    ASSUME ExclusiveLocks, OneNamePerKey, SubmissionsSettle PROVE Spec => ImplementsMailOnce
<1>1. Init => Mails!MailInit
  BY DEF Init, Mails!MailInit
<1>2. SafetyInv /\ JobInv /\ [Next]_vars => [Mails!MailNext]_Mails!mailVars
  BY StepRefines
<1>3. QED
  BY <1>1, <1>2, JobInvariance, PTL DEF Spec, ImplementsMailOnce, Mails!MailSpec

-----------------------------------------------------------------------------
(* Ledgers *)

\* A step puts at most one proof and at most one in-flight record.
LEMMA LedgerPuts ==
    ASSUME TypeInv, [Next]_vars
    PROVE  /\ [\E e \in ProofIds, v \in ProofRecord : ProofLedger!MapPut(e, v)]_proofs
           /\ [\E e \in Keys, v \in {"in_flight", "submitted"} :
                   InflightLedger!MapPut(e, v)]_inflight
<1> DEFINE Puts == /\ [\E e \in ProofIds, v \in ProofRecord : ProofLedger!MapPut(e, v)]_proofs
                   /\ [\E e \in Keys, v \in {"in_flight", "submitted"} :
                           InflightLedger!MapPut(e, v)]_inflight
<1> USE DEF ProofLedger!MapPut, InflightLedger!MapPut
<1>t. TypeOK /\ \A t \in Threads : LocalsOK(t)
  BY DEF TypeInv
<1>1. ASSUME NEW t \in Threads,
             ClearOrphan(t) \/ BeginAttempt(t) \/ FailAttempt(t) \/ CompleteAttempt(t)
      PROVE  Puts
  <2>1. call[t].key \in Keys /\ UNCHANGED proofs
    BY <1>1, <1>t
       DEF ClearOrphan, BeginAttempt, FailAttempt, CompleteAttempt, LocalsOK, SubmitLabels,
           SubmitSection
  <2>2. \/ inflight' = [inflight EXCEPT ![call[t].key] = "in_flight"]
        \/ inflight' = [inflight EXCEPT ![call[t].key] = "submitted"]
    BY <1>1 DEF ClearOrphan, BeginAttempt, FailAttempt, CompleteAttempt
  <2>3. QED
    BY <2>1, <2>2
<1>2. ASSUME NEW t \in Threads, PutProof(t) PROVE Puts
  BY <1>2, <1>t DEF PutProof, LocalsOK
<1>3. ASSUME NEW t \in Threads, ClaimRelease(t) \/ RecordRelease(t) PROVE Puts
  <2>1. call[t].pid \in ProofIds /\ proof[t] \in ProofRecord /\ UNCHANGED inflight
    BY <1>3, <1>t DEF ClaimRelease, RecordRelease, LocalsOK, AuthorizeLabels, ProofSection
  <2>2. \/ proofs' = [proofs EXCEPT ![call[t].pid] = [proof[t] EXCEPT !.claimed = TRUE]]
        \/ proofs' = [proofs EXCEPT ![call[t].pid] = [proof[t] EXCEPT !.authorized = TRUE]]
    BY <1>3, <1>t DEF ClaimRelease, RecordRelease, TypeOK
  <2>3. QED
    BY <2>1, <2>2, ProofTypes
<1>4. CASE UNCHANGED ledgerVars
  BY <1>4 DEF ledgerVars
<1>5. QED
  BY <1>1, <1>2, <1>3, <1>4, LedgerSteps

\* Whatever the threads, LetterStream and crashes do, each ledger of the gate is
\* a map that changes one entry at a time: the gate asks of a ledger file what
\* Ledger shows it does.
THEOREM LedgersHold == Spec => LedgersAreMaps
<1>1. Init => ProofLedger!MapInit /\ InflightLedger!MapInit
  BY DEF Init, ProofLedger!MapInit, InflightLedger!MapInit
<1>2. TypeInv /\ [Next]_vars =>
          [\E e \in ProofIds, v \in ProofRecord : ProofLedger!MapPut(e, v)]_proofs
  BY LedgerPuts
<1>3. TypeInv /\ [Next]_vars =>
          [\E e \in Keys, v \in {"in_flight", "submitted"} :
               InflightLedger!MapPut(e, v)]_inflight
  BY LedgerPuts
<1>4. Spec => ProofLedger!MapSpec
  BY <1>1, <1>2, TypeInvariance, PTL DEF Spec, ProofLedger!MapSpec
<1>5. Spec => InflightLedger!MapSpec
  BY <1>1, <1>3, TypeInvariance, PTL DEF Spec, InflightLedger!MapSpec
<1>6. QED
  BY <1>4, <1>5 DEF LedgersAreMaps

-----------------------------------------------------------------------------
(* The course of a call *)

\* Where a call can be next, other than at its end.
Moves ==
    {<<"key", "lock_submit">>, <<"lock_submit", "find">>, <<"find", "prior">>,
     <<"prior", "query">>, <<"prior", "begin">>, <<"query", "clear">>, <<"clear", "begin">>,
     <<"begin", "upload">>, <<"upload", "wait_preauth">>, <<"upload", "fail">>,
     <<"wait_preauth", "put_proof">>, <<"wait_preauth", "fail">>, <<"put_proof", "complete">>,
     <<"get_proof", "lock_proof">>, <<"lock_proof", "check">>, <<"check", "document">>,
     <<"document", "claim">>, <<"claim", "release">>, <<"release", "wait_release">>,
     <<"wait_release", "record">>}

\* Steps a call has still to do, at most, before it returns.
StepsLeft(l) ==
    CASE l = "key" -> 11 [] l = "lock_submit" -> 10 [] l = "find" -> 9 [] l = "prior" -> 8
      [] l = "query" -> 7 [] l = "clear" -> 6 [] l = "begin" -> 5 [] l = "upload" -> 4
      [] l = "wait_preauth" -> 3 [] l = "put_proof" -> 2 [] l \in {"complete", "fail"} -> 1
      [] l = "get_proof" -> 8 [] l = "lock_proof" -> 7 [] l = "check" -> 6
      [] l = "document" -> 5 [] l = "claim" -> 4 [] l = "release" -> 3
      [] l = "wait_release" -> 2 [] l = "record" -> 1
      [] OTHER -> 0

\* Every step of a call moves it along, or ends it.
LEMMA CallMoves ==
    ASSUME TypeOK, NEW t \in Threads, CallStep(t)
    PROVE  /\ pc[t] # "idle"
           /\ pc'[t] = "idle" \/ <<pc[t], pc'[t]>> \in Moves
<1>p. pc \in [Threads -> Labels]
  BY DEF TypeOK
<1> USE <1>p DEF Answer, AnswerAbout, Goto, Moves
<1>1. CASE SubmitStep(t)
  <2>1. CASE EffectiveKey(t) \/ AcquireSubmit(t) \/ SubmitLockTimeout(t) \/ FindProof(t)
    BY <2>1 DEF EffectiveKey, Proceed, AcquireSubmit, SubmitLockTimeout, FindProof
  <2>2. CASE CheckPrior(t) \/ QueryJob(t) \/ ClearOrphan(t) \/ BeginAttempt(t)
    BY <2>2 DEF CheckPrior, QueryJob, ClearOrphan, BeginAttempt
  <2>3. CASE Upload(t) \/ UploadFails(t) \/ PreauthFails(t) \/ FailAttempt(t)
    BY <2>3 DEF Upload, UploadFails, PreauthFails, Raise, FailAttempt
  <2>4. CASE PreauthReply(t) \/ PutProof(t) \/ CompleteAttempt(t)
    BY <2>4 DEF PreauthReply, PutProof, CompleteAttempt
  <2>5. QED
    BY <1>1, <2>1, <2>2, <2>3, <2>4 DEF SubmitStep
<1>2. CASE AuthorizeStep(t)
  <2>1. CASE GetProof(t) \/ AcquireProof(t) \/ ProofLockTimeout(t) \/ CheckProof(t)
    BY <2>1 DEF GetProof, AcquireProof, ProofLockTimeout, CheckProof
  <2>2. CASE CheckDocument(t) \/ ClaimRelease(t) \/ SendRelease(t)
    BY <2>2 DEF CheckDocument, ClaimRelease, SendRelease
  <2>3. CASE ReleaseUnsent(t) \/ ReleaseFails(t) \/ ReleaseReply(t) \/ RecordRelease(t)
    BY <2>3 DEF ReleaseUnsent, ReleaseFails, ReleaseReply, RecordRelease
  <2>4. QED
    BY <1>2, <2>1, <2>2, <2>3 DEF AuthorizeStep
<1>3. CASE LedgerFails(t)
  BY <1>3 DEF LedgerFails, LedgerReads, LedgerWrites
<1>4. QED
  BY <1>1, <1>2, <1>3 DEF CallStep

\* A call moves by its own steps; the others leave it, or a crash ends it.
LEMMA PlaceMoves ==
    ASSUME TypeOK, [Next]_vars, NEW t \in Threads, pc[t] # "idle"
    PROVE  pc'[t] = pc[t] \/ pc'[t] = "idle" \/ <<pc[t], pc'[t]>> \in Moves
<1>1. CASE Still(t) \/ CutOff(t)
  BY <1>1 DEF Still, CutOff
<1>2. CASE UNCHANGED vars
  BY <1>2 DEF vars, threadVars
<1>3. ~StartCall(t)
  BY DEF StartCall, StartSubmit, StartAuthorize, Begin
<1>4. ASSUME NEW u \in Threads, StartCall(u) \/ CallStep(u), u # t PROVE Still(t)
  BY <1>4, OthersStill
<1>5. QED
  BY <1>1, <1>2, <1>3, <1>4, CallMoves, WorldStill DEF Next

\* A move is a step less to do.
LEMMA MovesAdvance ==
    /\ \A l \in Labels : StepsLeft(l) \in 0 .. 11 /\ (StepsLeft(l) = 0 <=> l = "idle")
    /\ \A m \in Moves : StepsLeft(m[2]) < StepsLeft(m[1])
BY DEF Moves, StepsLeft, Labels, SubmitSection, ProofSection

\* What brings a call nearer to its end, and what never takes it back.
CallsAdvance ==
    [][\A t \in Threads :
           /\ CallStep(t) => StepsLeft(pc'[t]) < StepsLeft(pc[t])
           /\ pc[t] # "idle" => StepsLeft(pc'[t]) <= StepsLeft(pc[t])]_vars

\* No call loops, retries or waits in steps: each of its own steps is one less
\* to do, of at most eleven, and no step of another thread, of LetterStream or
\* of a crash adds one.
THEOREM CallsAreBounded == Spec => CallsAdvance
<1>1. ASSUME TypeInv, [Next]_vars, NEW t \in Threads
      PROVE  /\ CallStep(t) => StepsLeft(pc'[t]) < StepsLeft(pc[t])
             /\ pc[t] # "idle" => StepsLeft(pc'[t]) <= StepsLeft(pc[t])
  <2>1. TypeOK /\ TypeOK' /\ pc[t] \in Labels /\ pc'[t] \in Labels
    BY <1>1, StepTypes DEF TypeInv, TypeOK
  <2>2. /\ StepsLeft(pc[t]) \in 0 .. 11 /\ StepsLeft(pc'[t]) \in 0 .. 11
        /\ pc[t] # "idle" => StepsLeft(pc[t]) > 0
        /\ pc'[t] = "idle" => StepsLeft(pc'[t]) = 0
    BY <2>1, MovesAdvance
  <2>3. <<pc[t], pc'[t]>> \in Moves => StepsLeft(pc'[t]) < StepsLeft(pc[t])
    BY MovesAdvance
  <2>4. QED
    BY <1>1, <2>1, <2>2, <2>3, CallMoves, PlaceMoves
<1>2. TypeInv /\ [Next]_vars =>
          [\A t \in Threads :
               /\ CallStep(t) => StepsLeft(pc'[t]) < StepsLeft(pc[t])
               /\ pc[t] # "idle" => StepsLeft(pc'[t]) <= StepsLeft(pc[t])]_vars
  BY <1>1
<1>3. QED
  BY <1>2, TypeInvariance, PTL DEF Spec, CallsAdvance

-----------------------------------------------------------------------------
(* Abandoned claims *)

\* A thread is inside the block locked by a proof id because it was, for the
\* same proof, or because it takes the lock in this step.
LEMMA StaysInside ==
    ASSUME TypeInv, [Next]_vars, NEW u \in Threads, pc'[u] \in ProofSection
    PROVE  AcquireProof(u) \/ (pc[u] \in ProofSection /\ call'[u].pid = call[u].pid)
<1>t. TypeOK
  BY DEF TypeInv
<1>p. pc \in [Threads -> Labels] /\ call \in [Threads -> CallRecord]
  BY <1>t DEF TypeOK
<1>1. CASE Still(u)
  BY <1>1 DEF Still
<1>2. CASE CutOff(u)
  BY <1>2 DEF CutOff, ProofSection
<1>3. CASE StartCall(u) \/ LedgerFails(u)
  BY <1>3, <1>p
     DEF StartCall, StartSubmit, StartAuthorize, LedgerFails, Proceed, Answer, AnswerAbout, Goto,
         ProofSection
<1>4. CASE SubmitStep(u)
  BY <1>4, <1>p
     DEF SubmitStep, EffectiveKey, Proceed, AcquireSubmit, SubmitLockTimeout, FindProof,
         CheckPrior, QueryJob, ClearOrphan, BeginAttempt, Upload, UploadFails, PreauthFails,
         FailAttempt, PreauthReply, PutProof, CompleteAttempt, Raise, Answer, AnswerAbout, Goto,
         ProofSection
<1>5. CASE AuthorizeStep(u)
  BY <1>5, <1>p
     DEF AuthorizeStep, GetProof, ProofLockTimeout, CheckProof, CheckDocument, ClaimRelease,
         SendRelease, ReleaseUnsent, ReleaseFails, ReleaseReply, RecordRelease, Answer,
         AnswerAbout, Goto, ProofSection
<1>6. CASE UNCHANGED vars
  BY <1>1, <1>6 DEF vars, threadVars, Still
<1>7. ASSUME NEW t \in Threads \ {u}, StartCall(t) \/ CallStep(t) PROVE Still(u)
  BY <1>7, <1>t, OthersStill
<1>8. QED
  BY <1>1, <1>2, <1>3, <1>4, <1>5, <1>6, <1>7, WorldStill DEF Next, CallStep

\* No step takes up a release whose claim was abandoned: the check refuses it,
\* and only what passed the check claims, sends or records.
LEMMA AbandonedStays ==
    ASSUME SafetyInv, [Next]_vars, NEW p \in ProofIds, Abandoned(p)
    PROVE  Abandoned(p)' /\ releases'[proofs[p].code] = releases[proofs[p].code]
<1>t. /\ TypeInv /\ TypeOK /\ TypeOK' /\ ProofsAreBacked
      /\ \A t \in Threads : LocalsOK(t) /\ ReleasesAlone(t)
  BY StepTypes DEF SafetyInv, TypeInv, ThreadSafe, LedgerSafe
<1>1. /\ proofs[p] \in ProofRecord /\ proofs[p] # None
      /\ proofs[p].claimed /\ ~proofs[p].authorized
  BY <1>t DEF Abandoned, TypeOK
<1>2. ASSUME NEW t \in Threads, call[t].pid = p
      PROVE  pc[t] \notin {"document", "claim", "release", "wait_release", "record"}
  BY <1>t, <1>1, <1>2 DEF Abandoned, ReleasesAlone
<1>3. proofs'[p] = proofs[p]
  <2>1. ASSUME NEW t \in Threads, ClaimRelease(t) \/ RecordRelease(t) PROVE call[t].pid # p
    BY <1>2, <2>1 DEF ClaimRelease, RecordRelease
  <2>2. ASSUME NEW t \in Threads, ClaimRelease(t) \/ RecordRelease(t)
        PROVE  proofs'[p] = proofs[p]
    BY <1>t, <2>1, <2>2 DEF ClaimRelease, RecordRelease, TypeOK
  <2>3. ASSUME NEW t \in Threads, PutProof(t) PROVE proofs'[p] = proofs[p]
    BY <1>t, <1>1, <2>3 DEF PutProof, TypeOK
  <2>4. QED
    BY <2>2, <2>3, LedgerSteps
       DEF ledgerVars, ClearOrphan, BeginAttempt, FailAttempt, CompleteAttempt
<1>4. ASSUME NEW t \in Threads, call'[t].pid = p
      PROVE  pc'[t] \notin {"release", "wait_release", "record"}
  <2> SUFFICES ASSUME pc'[t] \in {"release", "wait_release", "record"} PROVE FALSE
    OBVIOUS
  <2>1. ~AcquireProof(t)
    BY <1>t DEF AcquireProof, Goto, TypeOK
  <2>2. pc[t] \in ProofSection /\ call[t].pid = p
    BY <1>t, <1>4, <2>1, StaysInside DEF ProofSection
  <2>3. pc[t] = "check"
    BY <1>2, <2>2 DEF ProofSection
  <2>4. QED
    BY <1>t, <2>3, PlaceMoves DEF Moves
<1>5. releases'[proofs[p].code] = releases[proofs[p].code]
  <2>1. ASSUME NEW t \in Threads, SendRelease(t)
        PROVE  releases'[proofs[p].code] = releases[proofs[p].code]
    <3>1. /\ call[t].pid \in ProofIds /\ call[t].pid # p
          /\ proofs[call[t].pid] = proof[t] /\ proof[t] \in ProofRecord
      BY <1>t, <1>2, <2>1
         DEF SendRelease, LocalsOK, AuthorizeLabels, ProofSection, ReleasesAlone
    <3>2. proof[t].code # proofs[p].code
      BY <1>t, <1>1, <3>1, NoneAssumption DEF ProofsAreBacked
    <3>3. QED
      BY <1>t, <1>1, <2>1, <3>1, <3>2 DEF SendRelease, TypeOK, ProofRecord
  <2>2. QED
    BY <2>1, ReleasesSteps
<1>6. QED
  BY <1>1, <1>3, <1>4, <1>5 DEF Abandoned

\* A claim that nobody works on and nobody recorded is refused for ever: the
\* proof stays as it is, and no release of its job is sent again.
THEOREM ClaimsStayAbandoned == ASSUME ExclusiveLocks PROVE Spec => AbandonedClaimsStay
<1>1. SafetyInv /\ [Next]_vars =>
          [\A p \in ProofIds : Abandoned(p) =>
               /\ Abandoned(p)'
               /\ releases'[proofs[p].code] = releases[proofs[p].code]]_vars
  BY AbandonedStays
<1>2. QED
  BY <1>1, SafetyInvariance, PTL DEF Spec, AbandonedClaimsStay

-----------------------------------------------------------------------------
(* Reviewed releases *)

\* A release works on the hash its caller gave and, past the check, on the cost
\* its caller acknowledged.
ThreadReviewed(t) ==
    /\ pc[t] \in {"document", "claim", "release"} => proof[t].hash = call[t].hash
    /\ pc[t] \in {"claim", "release"} =>
           proof[t].cost = None \/ call[t].ack = None \/ proof[t].cost = call[t].ack

MailedWasOrdered == \A a \in Authcodes : jobs[a] # None /\ jobs[a].mailed => releases[a] > 0

ReviewInv == MailedWasOrdered /\ \A t \in Threads : ThreadReviewed(t)

\* A call comes to its release by the checks.
LEMMA CallReviewed ==
    ASSUME SafetyInv, NEW t \in Threads, ThreadReviewed(t), StartCall(t) \/ CallStep(t)
    PROVE  ThreadReviewed(t)'
<1>t. TypeOK /\ LocalsOK(t)
  BY DEF SafetyInv, TypeInv
<1>p. /\ pc \in [Threads -> Labels] /\ call \in [Threads -> CallRecord]
      /\ proof \in [Threads -> ProofRecord \union {None}]
  BY <1>t DEF TypeOK
<1>1. CASE CheckProof(t)
  <2>1. CASE Verdict(call[t].pid, call[t].hash) = "ok"
    <3>1. proofs[call[t].pid].hash = call[t].hash
      BY <2>1 DEF Verdict
    <3>2. /\ proof'[t] = proofs[call[t].pid] /\ pc'[t] = "document" /\ call'[t] = call[t]
      BY <1>1, <1>p, <2>1 DEF CheckProof, Goto
    <3>3. QED
      BY <3>1, <3>2 DEF ThreadReviewed
  <2>2. CASE Verdict(call[t].pid, call[t].hash) # "ok"
    <3>1. pc'[t] = "idle"
      BY <1>1, <1>p, <2>2 DEF CheckProof, Answer, AnswerAbout, Goto
    <3>2. QED
      BY <3>1 DEF ThreadReviewed
  <2>3. QED
    BY <2>1, <2>2
<1>2. CASE CheckDocument(t)
  <2>1. CASE /\ ~CostRefused(proof[t].cost, call[t].ack) /\ pc'[t] = "claim"
             /\ proof' = proof /\ call' = call
    BY <1>2, <2>1 DEF CheckDocument, CostRefused, ThreadReviewed
  <2>2. CASE pc'[t] = "idle"
    BY <2>2 DEF ThreadReviewed
  <2>3. QED
    BY <1>2, <1>p, <2>1, <2>2 DEF CheckDocument, Answer, AnswerAbout, Goto
<1>3. CASE ClaimRelease(t)
  <2>1. proof[t] \in ProofRecord /\ pc[t] = "claim"
    BY <1>3, <1>t DEF ClaimRelease, LocalsOK, ProofSection
  <2>2. /\ pc'[t] = "release" /\ call' = call
        /\ proof'[t] = [proof[t] EXCEPT !.claimed = TRUE]
    BY <1>3, <1>p DEF ClaimRelease, Goto
  <2>3. proof'[t].hash = proof[t].hash /\ proof'[t].cost = proof[t].cost
    BY <2>1, <2>2 DEF ProofRecord
  <2>4. QED
    BY <2>1, <2>2, <2>3 DEF ThreadReviewed
<1>4. ASSUME ~CheckProof(t), ~CheckDocument(t), ~ClaimRelease(t)
      PROVE  pc'[t] \notin {"document", "claim", "release"}
  <2> USE <1>p DEF Answer, AnswerAbout, Goto
  <2>1. CASE StartCall(t) \/ LedgerFails(t)
    BY <2>1 DEF StartCall, StartSubmit, StartAuthorize, Proceed, LedgerFails
  <2>2. CASE SubmitStep(t)
    <3>1. CASE EffectiveKey(t) \/ AcquireSubmit(t) \/ SubmitLockTimeout(t) \/ FindProof(t)
                   \/ CheckPrior(t) \/ QueryJob(t) \/ ClearOrphan(t)
      BY <3>1 DEF EffectiveKey, Proceed, AcquireSubmit, SubmitLockTimeout, FindProof,
                  CheckPrior, QueryJob, ClearOrphan
    <3>2. CASE BeginAttempt(t) \/ Upload(t) \/ UploadFails(t) \/ PreauthFails(t) \/ FailAttempt(t)
                   \/ PreauthReply(t) \/ PutProof(t) \/ CompleteAttempt(t)
      BY <3>2
         DEF BeginAttempt, Upload, UploadFails, PreauthFails, Raise, FailAttempt, PreauthReply,
             PutProof,
                  CompleteAttempt
    <3>3. QED
      BY <2>2, <3>1, <3>2 DEF SubmitStep
  <2>3. CASE AuthorizeStep(t)
    BY <1>4, <2>3
       DEF AuthorizeStep, GetProof, AcquireProof, ProofLockTimeout, SendRelease, ReleaseUnsent,
           ReleaseFails,
           ReleaseReply, RecordRelease
  <2>4. QED
    BY <2>1, <2>2, <2>3 DEF CallStep
<1>5. QED
  BY <1>1, <1>2, <1>3, <1>4 DEF ThreadReviewed

\* A job becomes mailed after its release was sent, and a release stays sent.
LEMMA StepMailed ==
    ASSUME TypeInv, MailedWasOrdered, [Next]_vars PROVE MailedWasOrdered'
<1>t. TypeOK
  BY DEF TypeInv
<1>1. ASSUME NEW a \in Authcodes, releases[a] > 0 PROVE releases'[a] > 0
  <2>1. ASSUME NEW t \in Threads, SendRelease(t) PROVE releases'[a] > 0
    BY <1>1, <1>t, <2>1 DEF SendRelease, TypeOK
  <2>2. QED
    BY <1>1, <2>1, ReleasesSteps
<1>2. ASSUME NEW a \in Authcodes, jobs'[a] # None, jobs'[a].mailed PROVE releases[a] > 0
  <2>1. ASSUME NEW m, NEW b \in Authcodes, HoldJob(m, b)
        PROVE  jobs[a] # None /\ jobs[a].mailed
    BY <1>2, <1>t, <2>1 DEF HoldJob, TypeOK
  <2>2. ASSUME NEW b \in Authcodes, Mail(b) PROVE releases[a] > 0
    <3>1. CASE a = b
      BY <2>2, <3>1 DEF Mail
    <3>2. CASE a # b
      BY <1>2, <1>t, <2>2, <3>2 DEF Mail, TypeOK, MailedWasOrdered
    <3>3. QED
      BY <3>1, <3>2
  <2>3. QED
    BY <1>2, <2>1, <2>2, JobsSteps DEF AcceptSubmission, AcceptStray, MailedWasOrdered
<1>3. QED
  BY <1>1, <1>2 DEF MailedWasOrdered

\* What passed the checks of authorize is what its caller asked for.
LEMMA ReviewInvariance == ASSUME ExclusiveLocks PROVE Spec => []ReviewInv
<1>1. Init => ReviewInv
  BY DEF Init, ReviewInv, MailedWasOrdered, ThreadReviewed
<1>2. SafetyInv /\ ReviewInv /\ [Next]_vars => ReviewInv'
  <2> SUFFICES ASSUME SafetyInv, ReviewInv, [Next]_vars PROVE ReviewInv'
    OBVIOUS
  <2>t. TypeInv /\ TypeOK /\ MailedWasOrdered /\ \A t \in Threads : ThreadReviewed(t)
    BY DEF SafetyInv, TypeInv, ReviewInv
  <2>1. ASSUME NEW u \in Threads PROVE ThreadReviewed(u)'
    <3>1. CASE Still(u)
      BY <2>t, <3>1 DEF ThreadReviewed, Still
    <3>2. CASE CutOff(u)
      BY <3>2 DEF ThreadReviewed, CutOff
    <3>3. ASSUME NEW t \in Threads, StartCall(t) \/ CallStep(t) PROVE ThreadReviewed(u)'
      BY <2>t, <3>1, <3>3, CallReviewed, OthersStill
    <3>4. CASE UNCHANGED vars
      BY <3>1, <3>4 DEF vars, threadVars, Still
    <3>5. QED
      BY <3>1, <3>2, <3>3, <3>4, WorldStill DEF Next
  <2>2. QED
    BY <2>t, <2>1, StepMailed DEF ReviewInv
<1>3. QED
  BY <1>1, <1>2, SafetyInvariance, PTL DEF Spec

\* Prices are known where quotes can be read.
LEMMA PricesInvariance == ASSUME ExclusiveLocks PROVE Spec => [](QuotesReadable => CeilingInv)
<1>1. CASE QuotesReadable
  BY <1>1, CeilingInvariance, PTL
<1>2. CASE ~QuotesReadable
  <2>1. QuotesReadable => CeilingInv
    BY <1>2
  <2>2. QED
    BY <2>1, PTL
<1>3. QED
  BY <1>1, <1>2

\* Thread t sends the release of proof p, of the job that was reviewed.
LEMMA SendsReviewed ==
    ASSUME SafetyInv, ReviewInv, QuotesReadable => CeilingInv, NEW t \in Threads,
           SendRelease(t), NEW a \in Authcodes, releases'[a] # releases[a]
    PROVE  LET p == call[t].pid
           IN  /\ p \in ProofIds
               /\ proofs[p] # None /\ proofs[p].code = a /\ proofs[p].claimed
               /\ proofs[p].hash = call[t].hash
               /\ jobs[a].key = proofs[p].key
               /\ ~jobs[a].mailed
               /\ QuotesReadable /\ call[t].ack # None => jobs[a].price = call[t].ack
<1> DEFINE p == call[t].pid
<1>t. TypeOK /\ LocalsOK(t) /\ ReleasesAlone(t) /\ ProofsAreBacked
  BY DEF SafetyInv, TypeInv, ThreadSafe, LedgerSafe
<1>1. pc[t] = "release" /\ a = proof[t].code
  BY <1>t DEF SendRelease, TypeOK
<1>2. p \in ProofIds /\ proof[t] \in ProofRecord /\ proofs[p] = proof[t] /\ proof[t].claimed
  BY <1>t, <1>1 DEF LocalsOK, AuthorizeLabels, ProofSection, ReleasesAlone
<1>3. proofs[p] # None /\ jobs[a] # None /\ jobs[a].key = proofs[p].key
  BY <1>t, <1>1, <1>2, NoneAssumption DEF ProofsAreBacked
<1>4. ~jobs[a].mailed
  <2>1. releases[a] = 0
    BY <1>t, <1>1 DEF ReleasesAlone
  <2>2. QED
    BY <1>3, <2>1 DEF ReviewInv, MailedWasOrdered
<1>5. ASSUME QuotesReadable, call[t].ack # None PROVE jobs[a].price = call[t].ack
  <2>1. proof[t].cost = jobs[a].price
    BY <1>1, <1>2, <1>3, <1>5 DEF CeilingInv, Priced
  <2>2. jobs[a].price # None
    BY <1>t, <1>3, NoneAssumption DEF TypeOK, JobRecord
  <2>3. QED
    BY <1>1, <1>5, <2>1, <2>2 DEF ReviewInv, ThreadReviewed
<1>6. QED
  BY <1>1, <1>2, <1>3, <1>4, <1>5 DEF ReviewInv, ThreadReviewed

\* Every release request is for what its caller reviewed, at the price it
\* acknowledged, claimed on disk before and not mailed yet.
THEOREM OnlyReviewedIsReleased == ASSUME ExclusiveLocks PROVE Spec => ReleasesAreReviewed
<1> DEFINE Reviewed(a) ==
        \E t \in Threads, p \in ProofIds :
            /\ call[t].pid = p
            /\ proofs[p] # None /\ proofs[p].code = a /\ proofs[p].claimed
            /\ proofs[p].hash = call[t].hash
            /\ jobs[a].key = proofs[p].key
            /\ ~jobs[a].mailed
            /\ QuotesReadable /\ call[t].ack # None => jobs[a].price = call[t].ack
<1>1. ASSUME SafetyInv, ReviewInv, QuotesReadable => CeilingInv, [Next]_vars,
             NEW a \in Authcodes, releases'[a] # releases[a]
      PROVE  Reviewed(a)
  <2>1. PICK t \in Threads : SendRelease(t)
    BY <1>1, ReleasesSteps
  <2>2. QED
    BY <1>1, <2>1, SendsReviewed
<1>2. SafetyInv /\ ReviewInv /\ (QuotesReadable => CeilingInv) /\ [Next]_vars =>
          [\A a \in Authcodes : releases'[a] # releases[a] => Reviewed(a)]_vars
  BY <1>1
<1>3. QED
  BY <1>2, SafetyInvariance, ReviewInvariance, PricesInvariance, PTL
     DEF Spec, ReleasesAreReviewed

-----------------------------------------------------------------------------
(* The uploaded bytes *)

\* From the first read of the document, which the proof is about, to the last,
\* which is uploaded.
Reading == {"key", "lock_submit", "find", "prior", "query", "clear", "begin", "upload"}

\* Nobody edits the document while a submission is between two of its reads.
DocumentSettled == [][(\E t \in Threads : pc[t] \in Reading) => doc' = doc]_vars

\* The bytes LetterStream holds under authcode a have this hash.
HeldAs(a, hash) == jobs[a] # None /\ jobs[a].content = hash

\* They have it after the step.
HeldThen(a, hash) == jobs'[a] # None /\ jobs'[a].content = hash

\* The bytes a call is about, wherever they are, have the hash it started with.
ThreadBytes(t) ==
    /\ pc[t] \in Reading => call[t].hash = doc
    /\ request[t] # None => request[t].content = call[t].hash
    /\ reply[t] # None => HeldAs(reply[t], call[t].hash)
    /\ pc[t] \in {"put_proof"} \union (ProofSection \ {"check"}) =>
           HeldAs(proof[t].code, proof[t].hash)

LedgerBytes == \A p \in ProofIds : proofs[p] # None => HeldAs(proofs[p].code, proofs[p].hash)

BytesInv == LedgerBytes /\ \A t \in Threads : ThreadBytes(t)

\* What is held stays held, with its bytes.
LEMMA StaysHeld ==
    ASSUME TypeInv, [Next]_vars, NEW a \in Authcodes, NEW hash, HeldAs(a, hash)
    PROVE  HeldThen(a, hash)
BY JobsStay DEF HeldAs, HeldThen

\* An answer arrives by LetterStream's acceptance only.
LEMMA ReplySteps ==
    ASSUME TypeOK, [Next]_vars, NEW u \in Threads
    PROVE  reply'[u] \in {reply[u], None} \/ \E a \in Authcodes : AcceptSubmission(u, a)
<1>1. ASSUME NEW t \in Threads, StartCall(t) \/ LedgerFails(t) \/ AuthorizeStep(t)
      PROVE  UNCHANGED reply
  BY <1>1
     DEF StartCall, StartSubmit, StartAuthorize, Begin, LedgerFails, AuthorizeStep, GetProof,
         AcquireProof, ProofLockTimeout, CheckProof, CheckDocument, ClaimRelease, SendRelease,
         ReleaseUnsent, ReleaseFails, ReleaseReply, RecordRelease, remoteVars
<1>2. ASSUME NEW t \in Threads, SubmitStep(t), ~PreauthFails(t), ~PreauthReply(t)
      PROVE  UNCHANGED reply
  BY <1>2
     DEF SubmitStep, EffectiveKey, AcquireSubmit, SubmitLockTimeout, FindProof, CheckPrior,
         QueryJob, ClearOrphan, BeginAttempt, Upload, UploadFails, FailAttempt, PutProof,
         CompleteAttempt, remoteVars
<1>3. ASSUME NEW t \in Threads, PreauthFails(t) \/ PreauthReply(t)
      PROVE  reply'[u] \in {reply[u], None}
  BY <1>3 DEF PreauthFails, Raise, PreauthReply, Abandon, TypeOK
<1>4. ASSUME NEW t \in Threads, NEW a \in Authcodes, AcceptSubmission(t, a)
      PROVE  reply'[u] = reply[u] \/ AcceptSubmission(u, a)
  BY <1>4 DEF AcceptSubmission, TypeOK
<1>5. ASSUME LetterStreamStep \/ Surroundings
      PROVE  reply'[u] \in {reply[u], None} \/ \E a \in Authcodes : AcceptSubmission(u, a)
  BY <1>4, <1>5
     DEF LetterStreamStep, Surroundings, AcceptStray, Mail, EditDocument, Expire, Crash,
         TypeOK, remoteVars
<1>6. QED
  BY <1>1, <1>2, <1>3, <1>5 DEF Next, CallStep, vars, remoteVars

\* A submission carries the hash of its document to its proof.
LEMMA SubmitBytes ==
    ASSUME TypeInv, NEW t \in Threads, ThreadBytes(t), SubmitStep(t)
    PROVE  ThreadBytes(t)'
<1>t. TypeOK /\ LocalsOK(t) /\ UNCHANGED jobs
  BY CallsKeepJobs DEF TypeInv, CallStep
<1>p. /\ pc \in [Threads -> Labels] /\ call \in [Threads -> CallRecord]
      /\ proof \in [Threads -> ProofRecord \union {None}]
      /\ request \in [Threads -> Message \union {None}]
      /\ reply \in [Threads -> Authcodes \union {None}]
  BY <1>t DEF TypeOK
<1>q. pc[t] # "wait_preauth" => request[t] = None /\ reply[t] = None
  BY Quiet
<1>1. CASE pc'[t] = "idle" /\ UNCHANGED <<request, reply>> /\ pc[t] # "wait_preauth"
  BY <1>1, <1>q DEF ThreadBytes, ProofSection, Reading
<1>2. CASE /\ pc'[t] \in Reading \union {"fail"} /\ pc[t] \in Reading
           /\ call'[t].hash = call[t].hash
           /\ UNCHANGED <<request, reply, doc>>
  BY <1>2, <1>q DEF ThreadBytes, ProofSection, Reading
<1> USE <1>p DEF Answer, AnswerAbout, Goto
<1>3. CASE EffectiveKey(t)
  <2>1. CASE pc'[t] = "lock_submit"
    <3>1. PICK key : Proceed(t, "lock_submit", [call[t] EXCEPT !.key = key])
      BY <1>3, <2>1 DEF EffectiveKey
    <3>2. call'[t] = [call[t] EXCEPT !.key = key]
      BY <3>1 DEF Proceed
    <3>3. call'[t].hash = call[t].hash
      BY <3>2 DEF CallRecord
    <3>4. QED
      BY <1>2, <1>3, <2>1, <3>3 DEF EffectiveKey, remoteVars, envVars, Reading
  <2>2. CASE pc'[t] = "idle"
    BY <1>1, <1>3, <2>2 DEF EffectiveKey, remoteVars
  <2>3. QED
    BY <1>3, <2>1, <2>2 DEF EffectiveKey, Proceed
<1>4. CASE AcquireSubmit(t) \/ CheckPrior(t) \/ ClearOrphan(t) \/ BeginAttempt(t)
  BY <1>2, <1>4
     DEF AcquireSubmit, CheckPrior, ClearOrphan, BeginAttempt, remoteVars, envVars, Reading
<1>5. CASE FindProof(t) \/ QueryJob(t)
  BY <1>1, <1>2, <1>5 DEF FindProof, QueryJob, remoteVars, envVars, Reading
<1>6. CASE SubmitLockTimeout(t) \/ FailAttempt(t) \/ CompleteAttempt(t)
  BY <1>1, <1>6 DEF SubmitLockTimeout, FailAttempt, CompleteAttempt, remoteVars
<1>7. CASE Upload(t)
  <2>1. /\ pc'[t] = "wait_preauth" /\ call'[t] = call[t] /\ reply'[t] = None
        /\ request'[t] = [name |-> call[t].job, key |-> call[t].key, content |-> doc]
        /\ call[t].hash = doc
    BY <1>7, <1>q DEF Upload, ThreadBytes, Reading
  <2>2. QED
    BY <2>1 DEF ThreadBytes, ProofSection, Reading
<1>15. CASE UploadFails(t)
  BY <1>2, <1>15 DEF UploadFails, Raise, remoteVars, envVars, Reading
<1>8. CASE PreauthFails(t)
  <2>1. pc'[t] = "fail" /\ request'[t] = None /\ reply'[t] = None
    BY <1>8 DEF PreauthFails, Raise, Abandon
  <2>2. QED
    BY <2>1 DEF ThreadBytes, ProofSection, Reading
<1>9. CASE PreauthReply(t)
  <2>1. /\ pc'[t] = "put_proof" /\ reply'[t] = None /\ request'[t] = None
        /\ HeldAs(reply[t], call[t].hash)
        /\ proof'[t].code = reply[t] /\ proof'[t].hash = call[t].hash
    BY <1>9, <1>t DEF PreauthReply, ThreadBytes, LocalsOK
  <2>2. QED
    BY <1>t, <2>1 DEF ThreadBytes, HeldAs, Reading
<1>10. CASE PutProof(t)
  <2>1. pc'[t] = "complete" /\ request'[t] = None /\ reply'[t] = None
    BY <1>10, <1>q DEF PutProof, remoteVars
  <2>2. QED
    BY <2>1 DEF ThreadBytes, ProofSection, Reading
<1>11. QED
  BY <1>3, <1>4, <1>5, <1>6, <1>7, <1>8, <1>9, <1>10, <1>15 DEF SubmitStep

\* A release works on a proof from the ledger.
LEMMA AuthorizeBytes ==
    ASSUME TypeInv, LedgerBytes, NEW t \in Threads, ThreadBytes(t), AuthorizeStep(t)
    PROVE  ThreadBytes(t)'
<1>t. TypeOK /\ LocalsOK(t) /\ UNCHANGED jobs
  BY CallsKeepJobs DEF TypeInv, CallStep
<1>p. /\ pc \in [Threads -> Labels] /\ proof \in [Threads -> ProofRecord \union {None}]
  BY <1>t DEF TypeOK
<1>1. request'[t] = None /\ reply'[t] = None
  BY Quiet
     DEF AuthorizeStep, GetProof, AcquireProof, ProofLockTimeout, CheckProof, CheckDocument,
         ClaimRelease, SendRelease, ReleaseUnsent, ReleaseFails, ReleaseReply, RecordRelease,
         remoteVars
<1>2. CASE pc'[t] \in {"idle", "lock_proof", "check"}
  BY <1>1, <1>2 DEF ThreadBytes, ProofSection, Reading
<1>3. CASE /\ pc[t] \in ProofSection \ {"check"} /\ pc'[t] \in ProofSection
           /\ proof'[t].code = proof[t].code /\ proof'[t].hash = proof[t].hash
  BY <1>t, <1>1, <1>3 DEF ThreadBytes, ProofSection, Reading, HeldAs
<1> USE <1>p DEF Answer, AnswerAbout, Goto
<1>4. CASE GetProof(t) \/ AcquireProof(t) \/ ProofLockTimeout(t)
  BY <1>2, <1>4 DEF GetProof, AcquireProof, ProofLockTimeout
<1>5. CASE CheckProof(t)
  <2>1. CASE Verdict(call[t].pid, call[t].hash) = "ok"
    <3>1. proofs[call[t].pid] # None /\ call[t].pid \in ProofIds
      BY <1>5, <1>t, <2>1 DEF Verdict, CheckProof, LocalsOK, AuthorizeLabels, ProofSection
    <3>2. proof'[t] = proofs[call[t].pid] /\ pc'[t] = "document"
      BY <1>5, <2>1 DEF CheckProof
    <3>3. QED
      BY <1>t, <1>1, <3>1, <3>2 DEF LedgerBytes, ThreadBytes, HeldAs, ProofSection, Reading
  <2>2. CASE Verdict(call[t].pid, call[t].hash) # "ok"
    BY <1>2, <1>5, <2>2 DEF CheckProof
  <2>3. QED
    BY <2>1, <2>2
<1>6. CASE ClaimRelease(t)
  <2>1. proof[t] \in ProofRecord
    BY <1>6, <1>t DEF ClaimRelease, LocalsOK, ProofSection
  <2>2. pc'[t] = "release" /\ proof'[t] = [proof[t] EXCEPT !.claimed = TRUE]
    BY <1>6 DEF ClaimRelease
  <2>3. QED
    BY <1>3, <1>6, <2>1, <2>2 DEF ClaimRelease, ProofRecord, ProofSection
<1>7. CASE CheckDocument(t) \/ SendRelease(t) \/ ReleaseUnsent(t) \/ ReleaseFails(t)
               \/ ReleaseReply(t)
             \/ RecordRelease(t)
  BY <1>2, <1>3, <1>7
     DEF CheckDocument, SendRelease, ReleaseUnsent, ReleaseFails, ReleaseReply, RecordRelease,
         ProofSection
<1>8. QED
  BY <1>4, <1>5, <1>6, <1>7 DEF AuthorizeStep

\* The call that moves stays with its bytes.
LEMMA CallBytes ==
    ASSUME TypeInv, LedgerBytes, NEW t \in Threads, ThreadBytes(t), StartCall(t) \/ CallStep(t)
    PROVE  ThreadBytes(t)'
<1>t. TypeOK
  BY DEF TypeInv
<1>1. CASE StartCall(t)
  <2>1. /\ request'[t] = None /\ reply'[t] = None /\ doc' = doc
    BY <1>1, Quiet DEF StartCall, StartSubmit, StartAuthorize, Begin, remoteVars, envVars
  <2>2. \/ pc'[t] \in {"idle", "get_proof"}
        \/ pc'[t] = "key" /\ call'[t].hash = doc
    <3>1. ASSUME NEW r \in Requests, StartSubmit(t, r)
          PROVE  pc'[t] = "idle" \/ (pc'[t] = "key" /\ call'[t].hash = doc)
      <4>1. [NoCall EXCEPT !.job = r.job, !.key = r.key, !.hash = doc].hash = doc
        BY DEF NoCall
      <4>2. QED
        BY <1>t, <3>1, <4>1 DEF StartSubmit, AnswerAbout, Proceed, Goto, TypeOK
    <3>2. ASSUME NEW p, NEW hash, NEW ack, StartAuthorize(t, p, hash, ack)
          PROVE  pc'[t] \in {"idle", "get_proof"}
      BY <1>t, <3>2 DEF StartAuthorize, AnswerAbout, Proceed, Goto, TypeOK
    <3>3. QED
      BY <1>1, <3>1, <3>2 DEF StartCall
  <2>3. QED
    BY <2>1, <2>2 DEF ThreadBytes, ProofSection, Reading
<1>2. CASE LedgerFails(t)
  <2>1. pc'[t] = "idle" /\ request'[t] = None /\ reply'[t] = None
    BY <1>2, <1>t, Quiet
       DEF LedgerFails, LedgerReads, LedgerWrites, Answer, AnswerAbout, Goto, TypeOK, remoteVars
  <2>2. QED
    BY <2>1 DEF ThreadBytes, ProofSection, Reading
<1>3. QED
  BY <1>1, <1>2, SubmitBytes, AuthorizeBytes DEF CallStep

\* A call that stays where it is stays with its bytes, if nobody edits the
\* document under it.
LEMMA StillBytes ==
    ASSUME TypeInv, NEW u \in Threads, ThreadBytes(u), [Next]_vars, Still(u) \/ CutOff(u),
           pc[u] \in Reading => doc' = doc
    PROVE  ThreadBytes(u)'
<1>t. TypeOK /\ TypeOK' /\ LocalsOK(u) /\ LocalsOK(u)'
  BY StepTypes DEF TypeInv
<1>1. CASE CutOff(u)
  <2>1. pc'[u] = "idle" /\ request'[u] = None /\ reply'[u] = None
    BY <1>1, <1>t DEF CutOff, LocalsOK
  <2>2. QED
    BY <2>1 DEF ThreadBytes, ProofSection, Reading
<1>2. CASE Still(u)
  <2>1. request'[u] \in {request[u], None}
    BY <1>2, <1>t, RequestSteps DEF Upload, Still, Goto, TypeOK
  <2>2. reply'[u] # None => HeldThen(reply'[u], call[u].hash)
    <3>1. CASE reply'[u] = reply[u] /\ reply[u] # None
      <4>1. reply[u] \in Authcodes /\ HeldAs(reply[u], call[u].hash)
        BY <1>t, <3>1 DEF TypeOK, ThreadBytes
      <4>2. QED
        BY <3>1, <4>1, StaysHeld
    <3>2. ASSUME NEW a \in Authcodes, AcceptSubmission(u, a)
          PROVE  HeldThen(reply'[u], call[u].hash)
      <4>1. request[u] # None /\ reply'[u] = a /\ HoldJob(request[u], a)
        BY <1>t, <3>2 DEF AcceptSubmission, TypeOK
      <4>2. jobs'[a] \in JobRecord /\ jobs'[a].content = request[u].content
        <5>1. PICK price \in Prices :
                  jobs'[a] = [name |-> request[u].name, key |-> request[u].key,
                              content |-> request[u].content, price |-> price,
                              mailed |-> FALSE]
          BY <1>t, <4>1 DEF HoldJob, TypeOK
        <5>2. request[u] \in Message
          BY <1>t, <4>1 DEF TypeOK
        <5>3. QED
          BY <5>1, <5>2 DEF JobRecord, Message
      <4>3. QED
        BY <4>1, <4>2, NoneAssumption DEF HeldThen, ThreadBytes
    <3>3. QED
      BY <1>t, <3>1, <3>2, ReplySteps
  <2>3. pc[u] \in {"put_proof"} \union (ProofSection \ {"check"}) =>
            HeldThen(proof[u].code, proof[u].hash)
    BY <1>t, StaysHeld DEF ThreadBytes, LocalsOK, ProofRecord
  <2>4. QED
    BY <1>2, <2>1, <2>2, <2>3 DEF Still, ThreadBytes, HeldAs, HeldThen
<1>3. QED
  BY <1>1, <1>2

\* The ledger names held bytes by their hash: a proof is put by the call that
\* carries it and stamped by one that has read it.
LEMMA StepLedgerBytes ==
    ASSUME TypeInv, BytesInv, [Next]_vars PROVE LedgerBytes'
<1>t. TypeOK /\ \A t \in Threads : LocalsOK(t) /\ ThreadBytes(t)
  BY DEF TypeInv, BytesInv
<1>1. ASSUME NEW p \in ProofIds, proofs'[p] # None
      PROVE  HeldThen(proofs'[p].code, proofs'[p].hash)
  <2>1. CASE proofs'[p] = proofs[p]
    BY <1>1, <1>t, <2>1, StaysHeld DEF BytesInv, LedgerBytes, TypeOK, ProofRecord
  <2>2. ASSUME NEW t \in Threads, PutProof(t) \/ ClaimRelease(t) \/ RecordRelease(t),
               proofs'[p] # proofs[p]
        PROVE  HeldThen(proofs'[p].code, proofs'[p].hash)
    <3>1. proof[t] \in ProofRecord /\ HeldAs(proof[t].code, proof[t].hash)
      BY <1>t, <2>2
         DEF PutProof, ClaimRelease, RecordRelease, LocalsOK, ThreadBytes, ProofSection
    <3>2. \/ proofs'[p] = proof[t]
          \/ proofs'[p] = [proof[t] EXCEPT !.claimed = TRUE]
          \/ proofs'[p] = [proof[t] EXCEPT !.authorized = TRUE]
      BY <1>t, <2>2 DEF PutProof, ClaimRelease, RecordRelease, TypeOK
    <3>3. proofs'[p].code = proof[t].code /\ proofs'[p].hash = proof[t].hash
      BY <3>1, <3>2 DEF ProofRecord
    <3>4. proof[t].code \in Authcodes
      BY <3>1 DEF ProofRecord
    <3>5. QED
      BY <3>1, <3>3, <3>4, StaysHeld
  <2>3. QED
    BY <2>1, <2>2, LedgerSteps
       DEF ledgerVars, ClearOrphan, BeginAttempt, FailAttempt, CompleteAttempt
<1>2. QED
  BY <1>1 DEF LedgerBytes, HeldAs, HeldThen

\* Every step keeps the bytes and their hashes together, if it edits no
\* document under a submission that is between its reads.
LEMMA StepBytes ==
    ASSUME TypeInv, BytesInv, [Next]_vars, (\E t \in Threads : pc[t] \in Reading) => doc' = doc
    PROVE  BytesInv'
<1>1. ASSUME NEW u \in Threads PROVE ThreadBytes(u)'
  <2>t. TypeOK /\ LedgerBytes /\ ThreadBytes(u)
    BY DEF TypeInv, BytesInv
  <2>1. CASE Still(u) \/ CutOff(u)
    BY <2>t, <2>1, StillBytes
  <2>2. ASSUME NEW t \in Threads, StartCall(t) \/ CallStep(t) PROVE ThreadBytes(u)'
    BY <2>t, <2>1, <2>2, CallBytes, OthersStill
  <2>3. CASE UNCHANGED vars
    BY <2>1, <2>3 DEF vars, threadVars, Still
  <2>4. QED
    BY <2>1, <2>2, <2>3, WorldStill DEF Next
<1>2. QED
  BY <1>1, StepLedgerBytes DEF BytesInv

\* While nobody edits a document between the reads of its submission, the
\* bytes that LetterStream holds for a proof, and mails when it is authorised,
\* are those whose hash the proof shows and authorize compares: the window
\* between the three reads of submit is the only way they can differ.
THEOREM UneditedBytesAreHeld == Spec /\ DocumentSettled => []ProofHashIsUploaded
<1>1. Init => BytesInv
  BY NoneAssumption DEF Init, BytesInv, LedgerBytes, ThreadBytes, Reading, ProofSection
<1>2. /\ TypeInv /\ BytesInv /\ [Next]_vars
      /\ [(\E t \in Threads : pc[t] \in Reading) => doc' = doc]_vars
      => BytesInv'
  BY StepBytes DEF vars, envVars
<1>3. BytesInv => ProofHashIsUploaded
  BY DEF BytesInv, LedgerBytes, HeldAs, ProofHashIsUploaded
<1>4. QED
  BY <1>1, <1>2, <1>3, TypeInvariance, PTL DEF Spec, DocumentSettled

\* ... so that every job which is sent a release, or mailed, holds the bytes of
\* the hash of a proof that was claimed for it.
THEOREM ReviewedBytesAreMailed ==
    ASSUME ExclusiveLocks
    PROVE  Spec /\ DocumentSettled =>
               [](\A a \in Authcodes : releases[a] > 0 =>
                      \E p \in ProofIds :
                          /\ proofs[p] # None /\ proofs[p].code = a /\ proofs[p].claimed
                          /\ jobs[a].content = proofs[p].hash)
<1>1. ReleasesAreOnRecord /\ ProofHashIsUploaded =>
          \A a \in Authcodes : releases[a] > 0 =>
              \E p \in ProofIds :
                  /\ proofs[p] # None /\ proofs[p].code = a /\ proofs[p].claimed
                  /\ jobs[a].content = proofs[p].hash
  BY DEF ReleasesAreOnRecord, ProofHashIsUploaded
<1>2. QED
  BY <1>1, Recorded, UneditedBytesAreHeld, PTL

-----------------------------------------------------------------------------
(* Dry runs *)

\* What a call does in a process that is not live changes neither ledger, sends
\* nothing to LetterStream and puts no request on the wire, whatever the live
\* processes next to it and the switch after a restart are.
DryRunsOnlyPreview ==
    [][\A t \in Threads : ~live[ProcOf[t]] /\ (StartCall(t) \/ CallStep(t)) =>
           UNCHANGED <<ledgerVars, remoteVars>> /\ ~sent'[t]]_vars

\* A call that is past the switch is in a live process; one before it has sent
\* nothing.
ThreadIsLive(t) ==
    /\ pc[t] \notin {"idle", "key"} => live[ProcOf[t]]
    /\ pc[t] = "key" => ~sent[t]

LiveInv == \A t \in Threads : ThreadIsLive(t)

\* The first steps of a call read the switch.
LEMMA CallIsLive ==
    ASSUME TypeOK, NEW t \in Threads, ThreadIsLive(t), StartCall(t) \/ CallStep(t)
    PROVE  /\ ThreadIsLive(t)'
           /\ ~live[ProcOf[t]] => UNCHANGED <<ledgerVars, remoteVars>> /\ ~sent'[t]
           /\ live' = live
<1>p. /\ pc \in [Threads -> Labels] /\ sent \in [Threads -> BOOLEAN]
      /\ live \in [Procs -> BOOLEAN]
  BY DEF TypeOK
<1>1. CASE StartCall(t)
  <2>1. ~sent'[t] /\ UNCHANGED <<ledgerVars, remoteVars, live>>
    BY <1>1, <1>p DEF StartCall, StartSubmit, StartAuthorize, Begin, envVars
  <2>2. pc'[t] \in {"idle", "key"} \/ live[ProcOf[t]]
    BY <1>1, <1>p DEF StartCall, StartSubmit, StartAuthorize, AnswerAbout, Proceed, Goto
  <2>3. QED
    BY <2>1, <2>2 DEF ThreadIsLive
<1>2. CASE CallStep(t)
  <2>1. live' = live
    <3>1. CASE SubmitStep(t)
      BY <3>1
         DEF SubmitStep, EffectiveKey, AcquireSubmit, SubmitLockTimeout, FindProof, CheckPrior,
             QueryJob, ClearOrphan, BeginAttempt, Upload, UploadFails, PreauthFails, Raise,
             FailAttempt,
             PreauthReply, PutProof, CompleteAttempt, envVars
    <3>2. CASE AuthorizeStep(t) \/ LedgerFails(t)
      BY <3>2
         DEF AuthorizeStep, GetProof, AcquireProof, ProofLockTimeout, CheckProof,
             CheckDocument, ClaimRelease, SendRelease, ReleaseUnsent, ReleaseFails, ReleaseReply,
             RecordRelease, LedgerFails, envVars
    <3>3. QED
      BY <1>2, <3>1, <3>2 DEF CallStep
  <2>2. pc[t] # "idle" /\ pc'[t] # "key"
    BY <1>2, CallMoves DEF Moves
  <2>3. CASE pc[t] # "key"
    BY <2>1, <2>2, <2>3 DEF ThreadIsLive
  <2>4. CASE pc[t] = "key"
    <3>1. EffectiveKey(t)
      <4>1. CASE SubmitStep(t)
        BY <2>4, <4>1
           DEF SubmitStep, AcquireSubmit, SubmitLockTimeout, FindProof, CheckPrior, QueryJob,
               ClearOrphan, BeginAttempt, Upload, UploadFails, PreauthFails, Raise, FailAttempt,
               PreauthReply,
               PutProof, CompleteAttempt
      <4>2. ~AuthorizeStep(t) /\ ~LedgerFails(t)
        BY <2>4
           DEF AuthorizeStep, GetProof, AcquireProof, ProofLockTimeout, CheckProof,
               CheckDocument, ClaimRelease, SendRelease, ReleaseUnsent, ReleaseFails,
               ReleaseReply,
               RecordRelease, LedgerFails, LedgerReads, LedgerWrites
      <4>3. QED
        BY <1>2, <4>1, <4>2 DEF CallStep
    <3>2. UNCHANGED <<sent, ledgerVars, remoteVars>> /\ (pc'[t] = "idle" \/ live[ProcOf[t]])
      BY <1>p, <3>1 DEF EffectiveKey, Answer, AnswerAbout, Goto
    <3>3. QED
      BY <2>1, <2>2, <2>4, <3>2 DEF ThreadIsLive
  <2>5. QED
    BY <2>3, <2>4
<1>3. QED
  BY <1>1, <1>2

\* The switch of a process changes only when the process, and with it every
\* call of it, begins again.
LEMMA StepIsLive == ASSUME TypeOK, LiveInv, [Next]_vars PROVE LiveInv'
<1>1. ASSUME NEW u \in Threads PROVE ThreadIsLive(u)'
  <2>1. CASE Still(u) /\ live'[ProcOf[u]] = live[ProcOf[u]]
    BY <2>1 DEF LiveInv, ThreadIsLive, Still
  <2>2. CASE CutOff(u)
    BY <2>2 DEF ThreadIsLive, CutOff
  <2>3. ASSUME NEW t \in Threads, StartCall(t) \/ CallStep(t) PROVE ThreadIsLive(u)'
    <3>1. ThreadIsLive(t)' /\ live' = live
      BY <2>3, CallIsLive DEF LiveInv
    <3>2. QED
      BY <2>1, <2>3, <3>1, OthersStill
  <2>4. ASSUME NEW proc \in Procs, NEW on \in BOOLEAN, Crash(proc, on)
        PROVE  CutOff(u) \/ (Still(u) /\ live'[ProcOf[u]] = live[ProcOf[u]])
    <3>1. CASE ProcOf[u] = proc
      BY <2>4, <3>1 DEF Crash, CutOff
    <3>2. CASE ProcOf[u] # proc
      <4>1. Still(u)
        BY <2>4, <3>2 DEF Crash, Still
      <4>2. live'[ProcOf[u]] = live[ProcOf[u]]
        BY <2>4, <3>2, ProcTypes DEF Crash, TypeOK
      <4>3. QED
        BY <4>1, <4>2
    <3>3. QED
      BY <3>1, <3>2
  <2>5. CASE LetterStreamStep \/ Surroundings
    BY <2>1, <2>2, <2>4, <2>5, WorldStill
       DEF LetterStreamStep, Surroundings, AcceptSubmission, AcceptStray, Mail, EditDocument,
           Expire, envVars
  <2>6. CASE UNCHANGED vars
    BY <2>1, <2>6 DEF vars, threadVars, envVars, Still
  <2>7. QED
    BY <2>3, <2>5, <2>6 DEF Next
<1>2. QED
  BY <1>1 DEF LiveInv

\* A process in dry run is harmless: its calls write no ledger, and nothing
\* they do reaches LetterStream.
THEOREM DryRunsAreHarmless == Spec => DryRunsOnlyPreview
<1>1. Init => LiveInv
  BY DEF Init, LiveInv, ThreadIsLive
<1>2. TypeInv /\ LiveInv /\ [Next]_vars => LiveInv'
  BY StepIsLive DEF TypeInv
<1>3. TypeInv /\ LiveInv /\ [Next]_vars =>
          [\A t \in Threads : ~live[ProcOf[t]] /\ (StartCall(t) \/ CallStep(t)) =>
               UNCHANGED <<ledgerVars, remoteVars>> /\ ~sent'[t]]_vars
  BY CallIsLive DEF LiveInv, TypeInv
<1>4. QED
  BY <1>1, <1>2, <1>3, TypeInvariance, PTL DEF Spec, DryRunsOnlyPreview
=============================================================================
