------------------------------- MODULE Gate -------------------------------
(***************************************************************************)
(* The mail gate (gate.py) over its ledger (store.py) and its client       *)
(* (client.py, transport.py): concurrent submit and authorize calls of     *)
(* several threads in several processes, against a LetterStream that may   *)
(* answer, not answer, or act late.                                        *)
(*                                                                         *)
(* A thread runs one call at a time.  pc[t] is the next thing the call     *)
(* does that another thread, a crash or LetterStream can come between: a   *)
(* ledger operation (atomic under the ledger lock, see NamedLock), a read  *)
(* of the document, a request or its answer.  The `with store.exclusive`   *)
(* blocks are the pcs of SubmitSection and ProofSection: being at one of   *)
(* them is holding the lock.                                               *)
(*                                                                         *)
(* Left out: previews, messages, addresses, and every field of a proof     *)
(* that no decision reads.  A document is its content; the hash of a       *)
(* content is the content itself (SHA-256 is taken to be injective).       *)
(***************************************************************************)
EXTENDS Naturals

CONSTANTS
    Threads,              \* threads that call the gate
    ProcOf,               \* ProcOf[t]: the process thread t runs in
    Requests,             \* submit requests: [job, key], key None when derived
    Contents,             \* contents the document file can have
    Missing,              \* the document file is not there
    Authcodes,            \* authcodes LetterStream hands out, one per held job
    ProofIds,             \* prf_<uuid> ids
    Prices,               \* what LetterStream may charge for a job
    Acks,                 \* acknowledge_cost_usd arguments, None when omitted
    Ceiling,              \* max_authorize_cost_usd, None when not configured
    None,                 \* no such thing (Python's None)
    CrossProcessLocking,  \* store.CROSS_PROCESS_LOCKING: the platform has flock
    LateDelivery,         \* a submission may reach LetterStream after its call ended
    UniqueJobNames,       \* LetterStream refuses a job name it already has
    LedgerFailures,       \* the ledger lock may time out, the state directory fail
    QuotesReadable,       \* every quoted cost parses as a number
    ErrorsHide            \* an answer to a release may hide an error behind an AUTHOK

Procs == {ProcOf[t] : t \in Threads}
Jobs == {r.job : r \in Requests}
ExplicitKeys == {r.key : r \in Requests} \ {None}

\* The fingerprint of a request: of what it hashes, the job name and the
\* document are what varies here.
Fingerprint(job, content) == <<job, content>>
Keys == ExplicitKeys \union (Jobs \X Contents)

ProofRecord == [code: Authcodes, hash: Contents, key: Keys,
                cost: Prices \union {None}, claimed: BOOLEAN, authorized: BOOLEAN]
JobRecord == [name: Jobs, key: Keys, content: Contents, price: Prices, mailed: BOOLEAN]
Message == [name: Jobs, key: Keys, content: Contents]
CallRecord == [job: Jobs \union {None}, key: Keys \union {None},
               hash: Contents \union {None}, pid: ProofIds \union {None},
               ack: Acks \union {None}]

ASSUME CeilingAssumption == Prices \subseteq Nat /\ (Ceiling = None \/ Ceiling \in Nat)
ASSUME RequestAssumption == \A r \in Requests : r.job # None
ASSUME NoneAssumption ==
    /\ None \notin ProofRecord \union JobRecord \union Message
    /\ None \notin Authcodes \union ProofIds \union Keys \union Contents \union Prices
    /\ Missing \notin Contents \union {None}

VARIABLES
    pc,        \* pc[t]: the next step of thread t's call, "idle" between calls
    call,      \* call[t]: arguments and locals of thread t's present or last call
    proof,     \* proof[t]: the Proof object thread t has in memory
    sent,      \* sent[t]: the call has put a submission or a release on the wire
    outcome,   \* outcome[t]: what thread t's last call returned or raised, or what its
               \* present submission has raised, while fail_attempt records it
    proofs,    \* the proofs.json ledger
    inflight,  \* the state fields of the inflight.json ledger
    jobs,      \* LetterStream: the jobs it holds or has mailed, by authcode
    request,   \* request[t]: thread t's submission, on its way to LetterStream
    stray,     \* submissions whose call is over, still on their way
    reply,     \* reply[t]: the authcode LetterStream is answering thread t with
    releases,  \* releases[a]: release requests sent for authcode a
    doc,       \* the document file on disk
    expired,   \* proofs older than proof_ttl_seconds
    live       \* live[p]: the live switch, as process p read it when it started

threadVars == <<pc, call, proof, sent, outcome>>
ledgerVars == <<proofs, inflight>>
remoteVars == <<jobs, request, stray, reply, releases>>
envVars == <<doc, expired, live>>
vars == <<threadVars, ledgerVars, remoteVars, envVars>>

SubmitSection == {"find", "prior", "query", "clear", "begin", "upload",
                  "wait_preauth", "fail", "put_proof", "complete"}
ProofSection == {"check", "document", "claim", "release", "wait_release", "record"}
Labels == {"idle", "key", "lock_submit", "get_proof", "lock_proof"}
              \union SubmitSection \union ProofSection

\* Labels whose step reads, or writes, a ledger file under the ledger lock.
LedgerReads == {"find", "prior", "get_proof", "check"}
LedgerWrites == {"clear", "begin", "fail", "put_proof", "complete", "claim", "record"}

\* The outcomes that are GateRefusals, the ones that answer, and the rest.
Refusals == {"lock_timeout", "orphaned", "dry_refusal", "unknown_proof", "ambiguous",
             "expired", "mismatch", "ceiling"}
Outcomes == Refusals \union {"none", "dry_run", "invalid", "os_error", "transport_error",
                             "api_error", "reused", "submitted", "already", "mailed"}

\* What a request that was put on the wire may raise: no answer, or none with
\* an authcode (TransportError); an answer that is an error or unreadable
\* (ApiError).
RequestErrors == {"transport_error", "api_error"}

TypeOK ==
    /\ pc \in [Threads -> Labels]
    /\ call \in [Threads -> CallRecord]
    /\ proof \in [Threads -> ProofRecord \union {None}]
    /\ sent \in [Threads -> BOOLEAN]
    /\ outcome \in [Threads -> Outcomes]
    /\ proofs \in [ProofIds -> ProofRecord \union {None}]
    /\ inflight \in [Keys -> {"absent", "in_flight", "submitted"}]
    /\ jobs \in [Authcodes -> JobRecord \union {None}]
    /\ request \in [Threads -> Message \union {None}]
    /\ stray \subseteq Message
    /\ reply \in [Threads -> Authcodes \union {None}]
    /\ releases \in [Authcodes -> Nat]
    /\ doc \in Contents \union {Missing}
    /\ expired \subseteq ProofIds
    /\ live \in [Procs -> BOOLEAN]

NoCall == [job |-> None, key |-> None, hash |-> None, pid |-> None, ack |-> None]

Init ==
    /\ pc = [t \in Threads |-> "idle"]
    /\ call = [t \in Threads |-> NoCall]
    /\ proof = [t \in Threads |-> None]
    /\ sent = [t \in Threads |-> FALSE]
    /\ outcome = [t \in Threads |-> "none"]
    /\ proofs = [p \in ProofIds |-> None]
    /\ inflight = [k \in Keys |-> "absent"]
    /\ jobs = [a \in Authcodes |-> None]
    /\ request = [t \in Threads |-> None]
    /\ stray = {}
    /\ reply = [t \in Threads |-> None]
    /\ releases = [a \in Authcodes |-> 0]
    /\ doc \in Contents
    /\ expired = {}
    /\ live \in [Procs -> BOOLEAN]
---------------------------------------------------------------------------
\* The call moves on to the step labelled l.
Goto(t, l) == pc' = [pc EXCEPT ![t] = l]

\* The call returns or raises o, about a key and a proof id; leaving a locked
\* block releases its lock, and the locals are gone.
AnswerAbout(t, o, key, pid) ==
    /\ Goto(t, "idle")
    /\ outcome' = [outcome EXCEPT ![t] = o]
    /\ call' = [call EXCEPT ![t] = [NoCall EXCEPT !.key = key, !.pid = pid]]
    /\ proof' = [proof EXCEPT ![t] = None]

Answer(t, o) == AnswerAbout(t, o, call[t].key, call[t].pid)

\* The submission raises e, which fail_attempt records before it leaves the call.
Raise(t, e) ==
    /\ Goto(t, "fail")
    /\ outcome' = [outcome EXCEPT ![t] = e]

\* A lock excludes a thread of another process only through flock.
SeesLockOf(t, u) == t # u /\ (CrossProcessLocking \/ ProcOf[t] = ProcOf[u])

SubmitLockTaken(t) ==
    \E u \in Threads : /\ SeesLockOf(t, u)
                       /\ pc[u] \in SubmitSection
                       /\ call[u].key = call[t].key

ProofLockTaken(t) ==
    \E u \in Threads : /\ SeesLockOf(t, u)
                       /\ pc[u] \in ProofSection
                       /\ call[u].pid = call[t].pid

\* A new call.
Begin(t) ==
    /\ pc[t] = "idle"
    /\ sent' = [sent EXCEPT ![t] = FALSE]
    /\ UNCHANGED <<ledgerVars, remoteVars, envVars>>

\* It goes on to the step labelled l with the arguments c.
Proceed(t, l, c) ==
    /\ Goto(t, l)
    /\ call' = [call EXCEPT ![t] = c]
    /\ UNCHANGED <<proof, outcome>>
---------------------------------------------------------------------------
(* submit *)

\* validate() and document_sha256(): a document that is not there is a
\* ValidationError, one that goes between the two an OSError.
StartSubmit(t, r) ==
    /\ Begin(t)
    /\ IF doc = Missing
       THEN \E e \in {"invalid", "os_error"} : AnswerAbout(t, e, None, None)
       ELSE Proceed(t, "key", [NoCall EXCEPT !.job = r.job, !.key = r.key, !.hash = doc])

\* effective_idempotency_key() and preview() read the document a second time.
\* A dry run ends here.
EffectiveKey(t) ==
    /\ pc[t] = "key"
    /\ LET derived == Fingerprint(call[t].job, doc)
           key == IF call[t].key = None THEN derived ELSE call[t].key
       IN  \/ doc = Missing /\ Answer(t, "os_error")
           \/ /\ doc # Missing
              /\ ~live[ProcOf[t]]
              /\ AnswerAbout(t, "dry_run", key, None)
           \/ /\ doc # Missing
              /\ live[ProcOf[t]]
              /\ Proceed(t, "lock_submit", [call[t] EXCEPT !.key = key])
    /\ UNCHANGED <<sent, ledgerVars, remoteVars, envVars>>

\* (variant) No lock around the check and the submission.
AcquireSubmitUnlocked(t) ==
    /\ pc[t] = "lock_submit"
    /\ Goto(t, "find")
    /\ UNCHANGED <<call, proof, sent, outcome, ledgerVars, remoteVars, envVars>>

AcquireSubmit(t) ==
    /\ pc[t] = "lock_submit"
    /\ ~SubmitLockTaken(t)
    /\ Goto(t, "find")
    /\ UNCHANGED <<call, proof, sent, outcome, ledgerVars, remoteVars, envVars>>

SubmitLockTimeout(t) ==
    /\ pc[t] = "lock_submit"
    /\ SubmitLockTaken(t)
    /\ Answer(t, "lock_timeout")
    /\ UNCHANGED <<sent, ledgerVars, remoteVars, envVars>>

\* (variant) The key is not looked up in the ledger.
FindProofSkipped(t) ==
    /\ pc[t] = "find"
    /\ Goto(t, "prior")
    /\ UNCHANGED <<call, proof, sent, outcome, ledgerVars, remoteVars, envVars>>

\* A key that has a proof is answered with that proof.
FindProof(t) ==
    /\ pc[t] = "find"
    /\ \/ \E p \in ProofIds :
              /\ proofs[p] # None
              /\ proofs[p].key = call[t].key
              /\ AnswerAbout(t, "reused", call[t].key, p)
       \/ /\ \A p \in ProofIds : proofs[p] # None => proofs[p].key # call[t].key
          /\ Goto(t, "prior")
          /\ UNCHANGED <<call, proof, outcome>>
    /\ UNCHANGED <<sent, ledgerVars, remoteVars, envVars>>

\* (variant) An attempt left in flight is retried without asking.
CheckPriorBlind(t) ==
    /\ pc[t] = "prior"
    /\ Goto(t, "begin")
    /\ UNCHANGED <<call, proof, sent, outcome, ledgerVars, remoteVars, envVars>>

\* An earlier attempt that never reported success has to be reconciled first.
CheckPrior(t) ==
    /\ pc[t] = "prior"
    /\ Goto(t, IF inflight[call[t].key] = "in_flight" THEN "query" ELSE "begin")
    /\ UNCHANGED <<call, proof, sent, outcome, ledgerVars, remoteVars, envVars>>

JobExists(name) == \E a \in Authcodes : jobs[a] # None /\ jobs[a].name = name

\* What interpret_job_status can make of LetterStream's answer about a name:
\* the truth, or nothing (a status request that fails ends the same way).
JobStatus(name) == {"unknown", IF JobExists(name) THEN "exists" ELSE "absent"}

\* Only an unambiguous "absent" goes on.  The name asked about is the new
\* request's, whatever name the earlier attempt used.
QueryJob(t) ==
    /\ pc[t] = "query"
    /\ \E verdict \in JobStatus(call[t].job) :
           IF verdict = "absent"
           THEN Goto(t, "clear") /\ UNCHANGED <<call, proof, outcome>>
           ELSE Answer(t, "orphaned")
    /\ UNCHANGED <<sent, ledgerVars, remoteVars, envVars>>

\* put_inflight(prior): the record read at "prior" is written back.
ClearOrphan(t) ==
    /\ pc[t] = "clear"
    /\ inflight' = [inflight EXCEPT ![call[t].key] = "in_flight"]
    /\ Goto(t, "begin")
    /\ UNCHANGED <<call, proof, sent, outcome, proofs, remoteVars, envVars>>

\* The attempt is on disk before the request goes out.
BeginAttempt(t) ==
    /\ pc[t] = "begin"
    /\ inflight' = [inflight EXCEPT ![call[t].key] = "in_flight"]
    /\ Goto(t, "upload")
    /\ UNCHANGED <<call, proof, sent, outcome, proofs, remoteVars, envVars>>

\* client.submit_preauth reads the document a third time and posts it.
Upload(t) ==
    /\ pc[t] = "upload"
    /\ doc # Missing
    /\ request' = [request EXCEPT ![t] =
                       [name |-> call[t].job, key |-> call[t].key, content |-> doc]]
    /\ sent' = [sent EXCEPT ![t] = TRUE]
    /\ Goto(t, "wait_preauth")
    /\ UNCHANGED <<call, proof, outcome, ledgerVars, jobs, stray, reply, releases, envVars>>

\* Nothing leaves the machine: the document cannot be read, or the transport
\* has no requests package, or no connection.
UploadFails(t) ==
    /\ pc[t] = "upload"
    /\ \/ doc = Missing /\ Raise(t, "os_error")
       \/ doc # Missing /\ Raise(t, "transport_error")
    /\ UNCHANGED <<call, proof, sent, ledgerVars, remoteVars, envVars>>

\* Where thread t's submission is left when t stops waiting for its answer.
Abandon(t) ==
    /\ request' = [request EXCEPT ![t] = None]
    /\ reply' = [reply EXCEPT ![t] = None]
    /\ stray' = IF LateDelivery /\ request[t] # None THEN stray \union {request[t]} ELSE stray

\* (variant) No HTTP timeout: only an answer ends the wait.
PreauthWaits(t) ==
    /\ pc[t] = "wait_preauth"
    /\ reply[t] # None
    /\ Abandon(t)
    /\ Raise(t, "transport_error")
    /\ UNCHANGED <<call, proof, sent, ledgerVars, jobs, releases, envVars>>

\* A timeout, an HTTP error or an answer without authcode; an error code or an
\* unreadable body.
PreauthFails(t) ==
    /\ pc[t] = "wait_preauth"
    /\ Abandon(t)
    /\ \E e \in RequestErrors : Raise(t, e)
    /\ UNCHANGED <<call, proof, sent, ledgerVars, jobs, releases, envVars>>

\* (variant) A failed attempt clears the in-flight record.
FailAttemptClears(t) ==
    /\ pc[t] = "fail"
    /\ inflight' = [inflight EXCEPT ![call[t].key] = "absent"]
    /\ Answer(t, outcome[t])
    /\ UNCHANGED <<sent, proofs, remoteVars, envVars>>

\* (variant) A failed attempt is reported as the orphan it leaves.
FailAttemptRefuses(t) ==
    /\ pc[t] = "fail"
    /\ inflight' = [inflight EXCEPT ![call[t].key] = "in_flight"]
    /\ Answer(t, "orphaned")
    /\ UNCHANGED <<sent, proofs, remoteVars, envVars>>

\* fail_attempt leaves the record in flight, what happened being unknown, and
\* the exception goes on to the caller.
FailAttempt(t) ==
    /\ pc[t] = "fail"
    /\ inflight' = [inflight EXCEPT ![call[t].key] = "in_flight"]
    /\ Answer(t, outcome[t])
    /\ UNCHANGED <<sent, proofs, remoteVars, envVars>>

\* (variant) An answer without authcode is taken for a held job.
PreauthReplyUnchecked(t) ==
    /\ pc[t] = "wait_preauth"
    /\ proof' = [proof EXCEPT ![t] =
                    [code |-> reply[t], hash |-> call[t].hash, key |-> call[t].key,
                     cost |-> None, claimed |-> FALSE, authorized |-> FALSE]]
    /\ Goto(t, "put_proof")
    /\ UNCHANGED <<call, sent, outcome, ledgerVars, remoteVars, envVars>>

\* (variant) The key is derived again when the answer arrives.
PreauthReplyRekeyed(t) ==
    /\ pc[t] = "wait_preauth"
    /\ reply[t] # None
    /\ doc # Missing
    /\ proof' = [proof EXCEPT ![t] =
                    [code |-> reply[t], hash |-> call[t].hash,
                     key |-> Fingerprint(call[t].job, doc),
                     cost |-> jobs[reply[t]].price, claimed |-> FALSE, authorized |-> FALSE]]
    /\ reply' = [reply EXCEPT ![t] = None]
    /\ Goto(t, "put_proof")
    /\ UNCHANGED <<call, sent, outcome, ledgerVars, jobs, request, stray, releases, envVars>>

\* The authcode arrives with the quoted cost, which may not parse.
PreauthReply(t) ==
    /\ pc[t] = "wait_preauth"
    /\ reply[t] # None
    /\ \E cost \in {jobs[reply[t]].price} \union (IF QuotesReadable THEN {} ELSE {None}) :
           proof' = [proof EXCEPT ![t] =
                        [code |-> reply[t], hash |-> call[t].hash, key |-> call[t].key,
                         cost |-> cost, claimed |-> FALSE, authorized |-> FALSE]]
    /\ reply' = [reply EXCEPT ![t] = None]
    /\ Goto(t, "put_proof")
    /\ UNCHANGED <<call, sent, outcome, ledgerVars, jobs, request, stray, releases, envVars>>

\* The proof gets a fresh uuid.
PutProof(t) ==
    /\ pc[t] = "put_proof"
    /\ \E p \in ProofIds :
           /\ proofs[p] = None
           /\ proofs' = [proofs EXCEPT ![p] = proof[t]]
           /\ call' = [call EXCEPT ![t].pid = p]
    /\ Goto(t, "complete")
    /\ UNCHANGED <<proof, sent, outcome, inflight, remoteVars, envVars>>

CompleteAttempt(t) ==
    /\ pc[t] = "complete"
    /\ inflight' = [inflight EXCEPT ![call[t].key] = "submitted"]
    /\ Answer(t, "submitted")
    /\ UNCHANGED <<sent, proofs, remoteVars, envVars>>
---------------------------------------------------------------------------
(* authorize *)

StartAuthorize(t, p, hash, ack) ==
    /\ Begin(t)
    /\ IF live[ProcOf[t]]
       THEN Proceed(t, "get_proof", [NoCall EXCEPT !.pid = p, !.hash = hash, !.ack = ack])
       ELSE AnswerAbout(t, "dry_refusal", None, p)

\* The cheap reject, without the lock; what it read is not used again.
GetProof(t) ==
    /\ pc[t] = "get_proof"
    /\ IF proofs[call[t].pid] = None
       THEN Answer(t, "unknown_proof")
       ELSE Goto(t, "lock_proof") /\ UNCHANGED <<call, proof, outcome>>
    /\ UNCHANGED <<sent, ledgerVars, remoteVars, envVars>>

\* (variant) No lock around the check and the release.
AcquireProofUnlocked(t) ==
    /\ pc[t] = "lock_proof"
    /\ Goto(t, "check")
    /\ UNCHANGED <<call, proof, sent, outcome, ledgerVars, remoteVars, envVars>>

AcquireProof(t) ==
    /\ pc[t] = "lock_proof"
    /\ ~ProofLockTaken(t)
    /\ Goto(t, "check")
    /\ UNCHANGED <<call, proof, sent, outcome, ledgerVars, remoteVars, envVars>>

ProofLockTimeout(t) ==
    /\ pc[t] = "lock_proof"
    /\ ProofLockTaken(t)
    /\ Answer(t, "lock_timeout")
    /\ UNCHANGED <<sent, ledgerVars, remoteVars, envVars>>

\* (variant) Only a confirmed release stops the next one.
VerdictForgivesClaims(p, hash) ==
    LET r == proofs[p]
    IN  IF r = None            THEN "unknown_proof"
        ELSE IF r.authorized   THEN "already"
        ELSE IF p \in expired  THEN "expired"
        ELSE IF r.hash # hash  THEN "mismatch"
        ELSE "ok"

\* What a proof read from the ledger is refused or answered with, in the
\* order of the checks; "ok" when it passes them.
Verdict(p, hash) ==
    LET r == proofs[p]
    IN  IF r = None            THEN "unknown_proof"
        ELSE IF r.authorized   THEN "already"
        ELSE IF r.claimed      THEN "ambiguous"
        ELSE IF p \in expired  THEN "expired"
        ELSE IF r.hash # hash  THEN "mismatch"
        ELSE "ok"

\* The authoritative read, under the proof's lock.
CheckProof(t) ==
    /\ pc[t] = "check"
    /\ LET p == call[t].pid
           v == Verdict(p, call[t].hash)
       IN  IF v = "ok"
           THEN /\ proof' = [proof EXCEPT ![t] = proofs[p]]
                /\ Goto(t, "document")
                /\ UNCHANGED <<call, outcome>>
           ELSE Answer(t, v)
    /\ UNCHANGED <<sent, ledgerVars, remoteVars, envVars>>

\* (variant) An acknowledged cost replaces the ceiling.
CostAcknowledged(cost, ack) == cost # None /\ ack # None /\ ack # cost

\* (variant) The acknowledged cost is asked for and not compared.
CostAboveCeiling(cost, ack) == cost # None /\ Ceiling # None /\ cost > Ceiling

\* The ceiling and the acknowledged cost bind only when a cost was quoted.
CostRefused(cost, ack) ==
    /\ cost # None
    /\ \/ Ceiling # None /\ cost > Ceiling
       \/ ack # None /\ ack # cost

\* The file is hashed again and must be what the proof approved; one that is
\* gone is refused, or fails to be read when it goes only now.
CheckDocument(t) ==
    /\ pc[t] = "document"
    /\ IF doc # proof[t].hash
       THEN \E o \in {"mismatch"} \union (IF doc = Missing THEN {"os_error"} ELSE {}) :
                Answer(t, o)
       ELSE IF CostRefused(proof[t].cost, call[t].ack)
       THEN Answer(t, "ceiling")
       ELSE Goto(t, "claim") /\ UNCHANGED <<call, proof, outcome>>
    /\ UNCHANGED <<sent, ledgerVars, remoteVars, envVars>>

\* (variant) The claim is stamped in memory and saved with the outcome.
ClaimInMemory(t) ==
    /\ pc[t] = "claim"
    /\ proof' = [proof EXCEPT ![t].claimed = TRUE]
    /\ Goto(t, "release")
    /\ UNCHANGED <<call, sent, outcome, ledgerVars, remoteVars, envVars>>

\* release_attempted_at is on disk before the release request goes out.
ClaimRelease(t) ==
    /\ pc[t] = "claim"
    /\ proof' = [proof EXCEPT ![t].claimed = TRUE]
    /\ proofs' = [proofs EXCEPT ![call[t].pid] = proof'[t]]
    /\ Goto(t, "release")
    /\ UNCHANGED <<call, sent, outcome, inflight, remoteVars, envVars>>

\* The mailing call.
SendRelease(t) ==
    /\ pc[t] = "release"
    /\ releases' = [releases EXCEPT ![proof[t].code] = @ + 1]
    /\ sent' = [sent EXCEPT ![t] = TRUE]
    /\ Goto(t, "wait_release")
    /\ UNCHANGED <<call, proof, outcome, ledgerVars, jobs, request, stray, reply, envVars>>

\* The transport sends nothing: no requests package, or no connection.  The
\* claim stays all the same.
ReleaseUnsent(t) ==
    /\ pc[t] = "release"
    /\ Answer(t, "transport_error")
    /\ UNCHANGED <<sent, ledgerVars, remoteVars, envVars>>

\* (variant) A failed release takes the claim back so that it can be retried.
ReleaseFailsUnclaims(t) ==
    /\ pc[t] = "wait_release"
    /\ proofs' = [proofs EXCEPT ![call[t].pid].claimed = FALSE]
    /\ Answer(t, "transport_error")
    /\ UNCHANGED <<sent, inflight, remoteVars, envVars>>

\* No answer, an error or an unreadable body: the claim stays and what became
\* of the release is not known.
ReleaseFails(t) ==
    /\ pc[t] = "wait_release"
    /\ \E e \in RequestErrors : Answer(t, e)
    /\ UNCHANGED <<sent, ledgerVars, remoteVars, envVars>>

\* (variant) Any answer to the release counts as success.
ReleaseReplyUnchecked(t) ==
    /\ pc[t] = "wait_release"
    /\ Goto(t, "record")
    /\ UNCHANGED <<call, proof, sent, outcome, ledgerVars, remoteVars, envVars>>

\* An answer whose promoted code is not an error: the release went through,
\* unless an error hides behind that code.
ReleaseReply(t) ==
    /\ pc[t] = "wait_release"
    /\ ErrorsHide \/ jobs[proof[t].code].mailed
    /\ Goto(t, "record")
    /\ UNCHANGED <<call, proof, sent, outcome, ledgerVars, remoteVars, envVars>>

RecordRelease(t) ==
    /\ pc[t] = "record"
    /\ proofs' = [proofs EXCEPT ![call[t].pid] = [proof[t] EXCEPT !.authorized = TRUE]]
    /\ Answer(t, "mailed")
    /\ UNCHANGED <<sent, inflight, remoteVars, envVars>>

\* A ledger operation gives up on the ledger lock; a lock file cannot be
\* opened, or a ledger file written.  The exception leaves the call, whatever
\* the call has done before.
LedgerFails(t) ==
    /\ LedgerFailures
    /\ \/ /\ pc[t] \in LedgerReads \union LedgerWrites
          /\ Answer(t, "lock_timeout")
       \/ /\ pc[t] \in LedgerReads \union LedgerWrites \union {"lock_submit", "lock_proof"}
          /\ Answer(t, "os_error")
    /\ UNCHANGED <<sent, ledgerVars, remoteVars, envVars>>
---------------------------------------------------------------------------
(* LetterStream, the disk, the clock and crashes *)

\* LetterStream holds a new job for submission m, under an authcode of its own.
HoldJob(m, a) ==
    /\ jobs[a] = None
    /\ UniqueJobNames => ~JobExists(m.name)
    /\ \E price \in Prices :
           jobs' = [jobs EXCEPT ![a] = [name |-> m.name, key |-> m.key, content |-> m.content,
                                        price |-> price, mailed |-> FALSE]]

AcceptSubmission(t, a) ==
    /\ request[t] # None
    /\ HoldJob(request[t], a)
    /\ request' = [request EXCEPT ![t] = None]
    /\ reply' = [reply EXCEPT ![t] = a]
    /\ UNCHANGED <<threadVars, ledgerVars, stray, releases, envVars>>

AcceptStray(m, a) ==
    /\ HoldJob(m, a)
    /\ stray' = stray \ {m}
    /\ UNCHANGED <<threadVars, ledgerVars, request, reply, releases, envVars>>

\* A release request reaches LetterStream, soon, late or never.
Mail(a) ==
    /\ jobs[a] # None
    /\ releases[a] > 0
    /\ ~jobs[a].mailed
    /\ jobs' = [jobs EXCEPT ![a].mailed = TRUE]
    /\ UNCHANGED <<threadVars, ledgerVars, request, stray, reply, releases, envVars>>

\* Somebody writes, moves or restores the document file.
EditDocument(c) ==
    /\ doc # c
    /\ doc' = c
    /\ UNCHANGED <<threadVars, ledgerVars, remoteVars, expired, live>>

Expire(p) ==
    /\ proofs[p] # None
    /\ p \notin expired
    /\ expired' = expired \union {p}
    /\ UNCHANGED <<threadVars, ledgerVars, remoteVars, doc, live>>

\* The process dies at any point and is started again: its calls and its
\* locks are gone, the ledgers stay, the live switch is read again.
Crash(proc, on) ==
    LET dead == {t \in Threads : ProcOf[t] = proc}
        lost == {request[t] : t \in dead} \ {None}
    IN  /\ live' = [live EXCEPT ![proc] = on]
        /\ pc' = [t \in Threads |-> IF t \in dead THEN "idle" ELSE pc[t]]
        /\ call' = [t \in Threads |-> IF t \in dead THEN NoCall ELSE call[t]]
        /\ proof' = [t \in Threads |-> IF t \in dead THEN None ELSE proof[t]]
        /\ sent' = [t \in Threads |-> IF t \in dead THEN FALSE ELSE sent[t]]
        /\ outcome' = [t \in Threads |-> IF t \in dead THEN "none" ELSE outcome[t]]
        /\ request' = [t \in Threads |-> IF t \in dead THEN None ELSE request[t]]
        /\ reply' = [t \in Threads |-> IF t \in dead THEN None ELSE reply[t]]
        /\ stray' = IF LateDelivery THEN stray \union lost ELSE stray
        /\ UNCHANGED <<ledgerVars, jobs, releases, doc, expired>>
---------------------------------------------------------------------------
StartCall(t) ==
    \/ \E r \in Requests : StartSubmit(t, r)
    \/ \E p \in ProofIds, hash \in Contents, ack \in Acks \union {None} :
           StartAuthorize(t, p, hash, ack)

SubmitStep(t) ==
    \/ EffectiveKey(t)
    \/ AcquireSubmit(t)
    \/ SubmitLockTimeout(t)
    \/ FindProof(t)
    \/ CheckPrior(t)
    \/ QueryJob(t)
    \/ ClearOrphan(t)
    \/ BeginAttempt(t)
    \/ Upload(t)
    \/ UploadFails(t)
    \/ PreauthFails(t)
    \/ FailAttempt(t)
    \/ PreauthReply(t)
    \/ PutProof(t)
    \/ CompleteAttempt(t)

AuthorizeStep(t) ==
    \/ GetProof(t)
    \/ AcquireProof(t)
    \/ ProofLockTimeout(t)
    \/ CheckProof(t)
    \/ CheckDocument(t)
    \/ ClaimRelease(t)
    \/ SendRelease(t)
    \/ ReleaseUnsent(t)
    \/ ReleaseFails(t)
    \/ ReleaseReply(t)
    \/ RecordRelease(t)

\* What the program does by itself once a call has started.
CallStep(t) == SubmitStep(t) \/ AuthorizeStep(t) \/ LedgerFails(t)

LetterStreamStep ==
    \/ \E t \in Threads, a \in Authcodes : AcceptSubmission(t, a)
    \/ \E m \in stray, a \in Authcodes : AcceptStray(m, a)
    \/ \E a \in Authcodes : Mail(a)

Surroundings ==
    \/ \E c \in Contents \union {Missing} : EditDocument(c)
    \/ \E p \in ProofIds : Expire(p)
    \/ \E proc \in Procs, on \in BOOLEAN : Crash(proc, on)

Next ==
    \/ \E t \in Threads : StartCall(t) \/ CallStep(t)
    \/ LetterStreamStep
    \/ Surroundings

Spec == Init /\ [][Next]_vars

\* A call that can go on does: threads are scheduled, and a request or a lock
\* that does not come through ends in a timeout, which is a step of the call.
FairSpec == Spec /\ \A t \in Threads : WF_vars(CallStep(t))
---------------------------------------------------------------------------
(* Properties *)

\* No job is ever sent a second release request, whatever the number of
\* authorize calls, threads, processes, crashes, failures and late answers:
\* the lock, the re-read under it and the claim written before the request
\* (MailGate._authorize_locked) add up to "mails once".
AtMostOneRelease == \A a \in Authcodes : releases[a] <= 1

\* Submissions of one idempotency key never leave two proofs, which two
\* authorize calls could each release (MailGate._submit_locked).
OneProofPerKey ==
    \A p, q \in ProofIds :
        proofs[p] # None /\ proofs[q] # None /\ proofs[p].key = proofs[q].key => p = q

\* LetterStream never holds two jobs for one idempotency key: a retry after a
\* lost answer does not create a second job (the lock, find_proof, the
\* in-flight record and the status query of MailGate._submit_locked).
OneHeldJobPerKey ==
    \A a, b \in Authcodes :
        jobs[a] # None /\ jobs[b] # None /\ jobs[a].key = jobs[b].key => a = b

\* A proof holds the authcode of a job created for its own key, and of no
\* other proof: authorising it releases the letter that was reviewed.
ProofsAreBacked ==
    /\ \A p \in ProofIds :
           proofs[p] # None =>
               /\ jobs[proofs[p].code] # None
               /\ jobs[proofs[p].code].key = proofs[p].key
    /\ \A p, q \in ProofIds :
           proofs[p] # None /\ proofs[q] # None /\ proofs[p].code = proofs[q].code => p = q

HasProof(a) == \E p \in ProofIds : proofs[p] # None /\ proofs[p].code = a

\* A job that exists at LetterStream, or a submission that may still become
\* one, is never forgotten locally: its authcode is in a proof, or the
\* in-flight record of its key still warns the next submit (begin_attempt
\* before the request, fail_attempt and crashes leave the record).
NothingForgotten ==
    /\ \A a \in Authcodes :
           jobs[a] # None => HasProof(a) \/ inflight[jobs[a].key] = "in_flight"
    /\ \A t \in Threads :
           request[t] # None => inflight[request[t].key] = "in_flight"

\* A job that was sent a release, or mailed, is the job of a proof stamped
\* release_attempted_at, on disk: after a crash anywhere the next authorize
\* can tell.  A proof stamped authorized_at was claimed and, if no answer hides
\* an error, has been mailed.
ReleasesAreOnRecord ==
    /\ \A a \in Authcodes :
           releases[a] > 0 =>
               \E p \in ProofIds : proofs[p] # None /\ proofs[p].code = a /\ proofs[p].claimed
    /\ \A p \in ProofIds :
           proofs[p] # None /\ proofs[p].authorized =>
               proofs[p].claimed /\ (ErrorsHide \/ jobs[proofs[p].code].mailed)

\* What a caller is told is so: "reused" and "submitted" name a proof of the
\* caller's key, "mailed" and "already" a proof recorded as authorized, whose
\* job LetterStream has mailed if no answer hides an error, and at most one
\* caller is told that it mailed a given proof.
AnswersAreTrue ==
    \A t \in Threads :
        LET p == call[t].pid
        IN  /\ outcome[t] \in {"reused", "submitted"} /\ pc[t] = "idle" =>
                   proofs[p] # None /\ proofs[p].key = call[t].key
            /\ outcome[t] \in {"mailed", "already"} /\ pc[t] = "idle" =>
                   proofs[p].authorized /\ (ErrorsHide \/ jobs[proofs[p].code].mailed)
            /\ \A u \in Threads :
                   /\ pc[t] = "idle" /\ outcome[t] = "mailed"
                   /\ pc[u] = "idle" /\ outcome[u] = "mailed"
                   /\ call[u].pid = p
                   => t = u

\* A call that ends in a GateRefusal (errors.py: the refusals, LockTimeout and
\* OrphanedJob among them) has put no submission and no release on the wire.
RefusalSentNothing ==
    \A t \in Threads : pc[t] = "idle" /\ outcome[t] \in Refusals => ~sent[t]

\* What a call may end in after it has put a submission or a release on the
\* wire: success, an error of the request, or of the ledger write after it.
OutcomesAfterSending ==
    {"submitted", "mailed"} \union RequestErrors
        \union (IF LedgerFailures THEN {"lock_timeout", "os_error"} ELSE {})

\* What a call answers tells what it has done, however it was retried,
\* interleaved or refused.  Once a submission or a release is on the wire it
\* does not end in a local verdict (a refusal, an invalid request, a reused
\* proof); and "submitted", "mailed" and an ApiError come only of a request
\* that went out.  A TransportError says neither: it may be raised with nothing
\* sent (errors.py: "It says nothing about whether LetterStream accepted the job").
OutcomesTellWhatWasSent ==
    \A t \in Threads :
        pc[t] = "idle" =>
            /\ sent[t] => outcome[t] \in OutcomesAfterSending
            /\ outcome[t] \in {"submitted", "mailed", "api_error"} => sent[t]

\* What is sent a release is what the caller of this release has reviewed: the
\* proof it names, claimed on disk before, of the document hash it gave, whose
\* job has the key of the proof, is not mailed yet and costs what the caller
\* acknowledged (acknowledge_cost_usd, if it was given).
ReleasesAreReviewed ==
    [][\A a \in Authcodes : releases'[a] # releases[a] =>
           \E t \in Threads, p \in ProofIds :
               /\ call[t].pid = p
               /\ proofs[p] # None /\ proofs[p].code = a /\ proofs[p].claimed
               /\ proofs[p].hash = call[t].hash
               /\ jobs[a].key = proofs[p].key
               /\ ~jobs[a].mailed
               /\ QuotesReadable /\ call[t].ack # None => jobs[a].price = call[t].ack]_vars

\* The release of proof p was claimed, nobody is at it and nobody recorded it:
\* the call crashed, or failed, somewhere after the claim.
Abandoned(p) ==
    /\ proofs[p] # None /\ proofs[p].claimed /\ ~proofs[p].authorized
    /\ \A t \in Threads :
           call[t].pid = p => pc[t] \notin {"release", "wait_release", "record"}

\* A release that may or may not have been sent is never tried again: an
\* abandoned claim stays one for ever, over every later authorize call and
\* restart, and its job gets no release request any more (the "ambiguous"
\* refusal of MailGate._authorize_locked).
AbandonedClaimsStay ==
    [][\A p \in ProofIds : Abandoned(p) =>
           /\ Abandoned(p)'
           /\ releases'[proofs[p].code] = releases[proofs[p].code]]_vars

\* No job above max_authorize_cost_usd is released.
CeilingHolds ==
    \A a \in Authcodes :
        releases[a] > 0 => Ceiling = None \/ jobs[a].price <= Ceiling

\* The bytes LetterStream holds, and mails, are the bytes whose hash the
\* proof carries and authorize compares with.
ProofHashIsUploaded ==
    \A p \in ProofIds :
        proofs[p] # None => jobs[proofs[p].code].content = proofs[p].hash

\* A proof without regard to its stamps.
Unstamped(r) == [r EXCEPT !.claimed = TRUE, !.authorized = TRUE]

PromisesKept ==
    /\ \A p \in ProofIds :
           proofs[p] # None =>
               /\ proofs'[p] # None
               /\ Unstamped(proofs'[p]) = Unstamped(proofs[p])
               /\ proofs[p].claimed => proofs'[p].claimed
               /\ proofs[p].authorized => proofs'[p].authorized
    /\ \A k \in Keys : inflight[k] = "submitted" => inflight'[k] = "submitted"

\* The ledger never takes back what it promised: a proof stays, with its
\* authcode, hash, key and cost; a claim and an authorisation stay; a
\* submitted key never goes back to in flight (no stale copy is written over
\* a newer record).
LedgerKeepsPromises == [][PromisesKept]_vars

\* Every call ends: nobody waits for ever for a lock, a ledger or an answer.
CallsReturn == \A t \in Threads : pc[t] # "idle" ~> pc[t] = "idle"

\* The gate is an implementation of MailOnce.
Mails == INSTANCE MailOnce WITH
    Letters <- Keys,
    Codes <- Authcodes,
    held <- [k \in Keys |-> {a \in Authcodes : jobs[a] # None /\ jobs[a].key = k}],
    approved <- {a \in Authcodes :
                    \E p \in ProofIds :
                        proofs[p] # None /\ proofs[p].code = a /\ proofs[p].claimed},
    orders <- releases,
    mailed <- {a \in Authcodes : jobs[a] # None /\ jobs[a].mailed}

\* Every behaviour of the gate is, seen from LetterStream and the ledger, a
\* behaviour of MailOnce: one job per key, approved, ordered and mailed in
\* that order and at most once each.
ImplementsMailOnce == Mails!MailSpec

ProofLedger == INSTANCE LedgerMap WITH
    Entries <- ProofIds, Values <- ProofRecord, map <- proofs
InflightLedger == INSTANCE LedgerMap WITH
    Entries <- Keys, Values <- {"in_flight", "submitted"}, None <- "absent",
    map <- inflight

\* The gate asks of its two ledgers what Ledger delivers: whatever happens, each
\* changes one entry at a time (Store.put_proof, Store.put_inflight).
LedgersAreMaps == ProofLedger!MapSpec /\ InflightLedger!MapSpec
===========================================================================
