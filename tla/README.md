# A verification project for letterstream-mcp

`letterstream-mcp` lets an agent prepare physical mail at LetterStream and
mail it only after a second, deliberate call. `submit` uploads a document and
creates a *held* job; its result is a *proof* (an id, the quoted cost, the hash
of the document). `authorize` takes the proof and the hash and releases the
job. Mail cannot be taken back, so the whole program is about two sentences:
**a letter is submitted once, and a proof is mailed at most once**, whatever
runs at the same time, fails, times out, is retried or dies.

The source paths below are those of the Python package,
`src/src/letterstream_mcp/`.

## 1. Inventory

| part | state it keeps | operations | hard behaviour |
|---|---|---|---|
| mail gate (`gate.py`) | the locals of each call | `submit`, `authorize` | check-then-act across threads and processes; a request in the middle of every critical section |
| named locks (`store.py`, `_NamedLock`, `exclusive`) | an `RLock` per process and name, an `flock` on a lock file, a depth and a descriptor per thread | `hold` | re-entry, two waits with one deadline, exits by exception, process death |
| ledgers (`store.py`) | `proofs.json`, `inflight.json` | read, and read-modify-write of one entry, under the ledger lock | crash while writing, failed reads and writes, lost updates |
| client and transport (`client.py`, `transport.py`) | none | submission, release, status, tracking, preflight requests | lost answers, requests that arrive late, three reads of the document |
| answers (`client.py`: `parse_response`, `raise_for_api_error`; `gate.py`: `interpret_job_status`) | none | pure | an answer that cannot be read must never read as success, or as "absent" |
| requests and records (`models.py`) | none | `validate`, `fingerprint`, `preview`; `Proof` | the fingerprint is the default idempotency key |
| configuration (`config.py`) | the live switch, ceiling, lifetime, directories, read once | `load_config`, `find_config_file` | precedence of arguments, environment and file; blanks; a named file that is missing |
| read-only gate calls (`gate.py`) | files: the marked PDF, the print proofs | preflight, account, tracking, proof PDFs, list, get | check of the target long before the write; a lookup that fails after others succeeded |
| window check (`windows.py`) | the lines grouped so far | `check_windows` over a PDF page | words merged into lines that move as they grow; the document read again later for the upload |
| tool set, MCP server, command line (`toolset.py`, `server.py`, `cli.py`) | the configuration of the process | one call of the gate each | defaults from the configuration; what an exit status tells a script |

How they interact: the tool set, the server and the command line build a
`MailGate` over a `Store`, a `LetterStreamClient` and a `Transport`. Several
threads of one process and several processes may share one state directory.
`submit` holds the lock of its idempotency key, `authorize` the lock of its
proof; inside, each ledger operation takes the short ledger lock. LetterStream
is reached by requests only, and may answer, refuse, not answer, or act after
the caller has given up.

What makes each part correct:

* **gate**: one held job per key, one proof per key, one release per job; a
  release is claimed on disk before it is sent, and is of what its caller has
  reviewed; a claim that was abandoned is never tried again; nothing that
  LetterStream may have accepted is forgotten; a caller is told the truth, and
  whether something was sent; the ceiling holds; a dry run changes nothing; every
  call ends.
* **locks**: mutual exclusion over all threads and processes; the flock lives
  exactly as long as the outermost hold; nothing leaks; every wait ends.
* **answers**: every value of a result comes from the first message that has it;
  the quote is the price of the batch; an answer nobody can read, or an error
  behind a success, is not a success.
* **configuration**: each value comes from the highest place that has one (with
  three exceptions the code makes and does not document, section 6), the config
  file is the one that was named, and live mode is on only where it was written
  down.
* **read-only calls**: no existing file is touched, a list is complete or is an
  error.
* **window check**: everything that would be clipped or in the way is named, and
  a page submitted without a coversheet is the page that passed.
* **program**: nothing is sent that was not asked for; the exit status is true.
* **ledgers**: a map changed one entry at a time; always parseable; answers are
  those of the file.

## 2. Modules

| module | what it is |
|---|---|
| `MailOnce` | abstract: letters, held jobs, approvals, orders, mail; each stage at most once |
| `Gate` | `submit` and `authorize` over ledgers, locks, document and LetterStream; implements `MailOnce` |
| `Mutex` | abstract: at most one caller inside |
| `NamedLock` | one `_NamedLock`; implements `Mutex` |
| `LedgerMap` | abstract: a map changed one entry at a time |
| `Ledger` | one ledger file under the ledger lock; implements `LedgerMap` |
| `Responses` | one answer: `parse_response` message by message, and the verdict of each client method |
| `Windows` | `check_windows`: words into lines one at a time, zones, report |
| `Config` | `load_config` as operators: which place supplies a setting, which error ends it |
| `Program` | processes that start, load, run commands or serve calls, and exit, over shared files; extends `Windows` and `Config` |
| `MCGate`, `MCNamedLock`, `MCLedger`, `MCResponses`, `MCProgram` | instances for TLC |
| `GateProofs`, `GateSafetyProofs`, `GateJobProofs`, `NamedLockProofs`, `LedgerProofs`, `ResponsesProofs`, `WindowsProofs`, `ProgramProofs` | theorems |

The three layers are joined by their abstractions, from both sides. `NamedLock`
implements `Mutex`, so `Gate` takes a lock as a set of steps a second caller cannot
be at (`SubmitSection`, `ProofSection`): being there is holding it, and that one
caller at a time is, follows from the guards of `AcquireSubmit` and `AcquireProof`
and says nothing new about the code. What the lock itself does is the subject of
`NamedLock`. `Ledger` takes it as a variable `holder`. `Ledger` implements `LedgerMap`, so a ledger operation is one
step of `Gate` that reads the map or changes one entry; that the two ledgers of
`Gate` change no other way is `LedgersAreMaps`. An extra action, `LedgerFails`, is a ledger
operation that ends in an exception instead. `Program` is the layer above the
gate: in it `submit` and `authorize` are what `Gate` shows them to be from outside,
calls that stop before anything is sent (`SubmitStops`, `AuthorizeStops`), find
the work done (`AlreadyDone`), or send their one request and learn its answer or
not (`SendSubmission`, `SendRelease`, `GateAnswers`, where "refused late" is the
`LockTimeout` of finding 3, with or without the proof on record).

### Gate and the code

`pc[t]` names what the call of thread `t` does next: the operation that another
thread, a crash, an edit of the document or LetterStream can come between.

| step | code |
|---|---|
| `StartSubmit`, `EffectiveKey` | `validate`, `document_sha256`, `effective_idempotency_key`, `preview`; end of a dry run |
| `AcquireSubmit`, `SubmitLockTimeout` | `with store.exclusive(submit_lock_name(key))` |
| `FindProof`, `CheckPrior` | the two look-ups of `_submit_locked` |
| `QueryJob`, `ClearOrphan` | `_refuse_or_clear_orphan` |
| `BeginAttempt`, `Upload` / `UploadFails`, `PreauthReply` / `PreauthFails`, `FailAttempt` | `begin_attempt`, `client.submit_preauth`, its outcome, `fail_attempt` |
| `PutProof`, `CompleteAttempt` | `put_proof`, `complete_attempt` |
| `StartAuthorize`, `GetProof`, `AcquireProof`, `ProofLockTimeout` | `authorize` up to its lock |
| `CheckProof` (`Verdict`), `CheckDocument` (`CostRefused`) | the checks of `_authorize_locked`, in their order |
| `ClaimRelease`, `SendRelease` / `ReleaseUnsent`, `ReleaseReply` / `ReleaseFails`, `RecordRelease` | stamp, request, outcome, record |
| `LedgerFails` | `LockTimeout` of the ledger lock, `OSError` of a file |
| `AcceptSubmission`, `AcceptStray`, `Mail` | LetterStream (external) |
| `EditDocument`, `Expire`, `Crash` | the disk, the clock, the death and restart of a process |

`call[t]` holds arguments and locals, `proof[t]` the `Proof` in memory, `sent[t]`
whether the call has put a request on the wire, `outcome[t]` how the last call
ended. The errors a request can end in are told apart as the code does:
`transport_error` is a `TransportError`, raised with nothing sent (no `requests`
package, no connection: `UploadFails`, `ReleaseUnsent`), or after the request, for
want of an answer or of an authcode; `api_error` is an `ApiError`, raised for an
answer that is an error or cannot be read (`client.py:279`, `287`), so always after
a request. `begin_attempt` reads and writes the in-flight ledger in two operations;
they are one step, because nobody else writes that key while its lock is held
and a crash between them leaves the ledger as it was.

Abstractions: a content is its own hash (SHA-256 taken as injective); a derived
key is the pair of job name and content, the parts of the fingerprint that vary
here; the document is one file; previews, addresses and messages are left out;
the cent tolerance of the acknowledged cost is equality; `expired` is a set
that grows (no clock). `client.release` judges an answer by its promoted code, so
an error behind a leading AUTHOK returns as a release that LetterStream has not
made. The constant `ErrorsHide` says whether there are such answers: with it
`ReleaseReply` needs no mailed job.

### NamedLock and the code

One lock name. `owner` and `count` are the `RLock` of each process, `depth` and
`fd` the thread-local fields, `flock` the thread whose descriptor carries the
OS lock. `Enter`, `AcquireRLock`, `RLockTimeout`, `TakeFlock`, `FlockFails`,
`EndBody`, `CloseOutermost`, `Unlock` follow `hold` and `_flock` from line to
line; `Crash` is the kernel ending a process. The registry of locks
(`_lock_for`) is the fact that a process has one `RLock` per name. Time is left
out: a deadline may pass whenever the caller is refused.

### Ledger and the code

One file. `Start`, `Lock`, `LockTimeout`, `Read`, `OpenTemp`, `WriteTemp`,
`WriteFails`, `Replace`, `Unlock` follow `_read_ledger`, `_update_ledger` and
`_atomic_write_json`; `ReadJson` is `_read_json`, which answers `{}` to a file
that is missing, does not parse or cannot be read. `ReadFaults` allows the last.

### Responses and the code

One call of a client method: `Request`, then `Answer` or `TransportFails`,
`Merge` once for each message (the second loop of `parse_response`), `Judge`
(the method returns or raises), `Return`. A value is represented by where it
was read: `parsed[tag]` is the index of the message whose `<tag>` was promoted.
`RaisesApiError`, `RaisesJsonApiError`, `RaisesXmlError`, `AccountFails` and
`JobStatus` are `raise_for_api_error`, `raise_for_json_api_error`, the XML
fallback of `tracking`, `account_status` and `interpret_job_status`. Left out:
the texts, the cut of a raw body, base64 beyond "it decodes to a PDF", and
`response_cost`, which reads a number from the promoted price. Tracking's JSON
body whose `message` is one object is a list of one; a body without a readable
list is one without messages.

### Windows and the code

| step | code |
|---|---|
| `OpenPage` (`IsLetterSize`) | the page is read; a page of another size is a `ValidationError` |
| `NextWord` (`SortsBefore`, `SameLine`, `Merge`) | one turn of the loop of `_lines_of_text` |
| `Report` (`Lines`, `Visible`, `Problems`) | the zones and rules, in the rest of `check_windows` |

Lengths are integers in thousandths of an inch, so that the zones, the two points
of tolerance and the rounding of the sort key (half to even) are exact; the code
computes them in floating point. A word is its box; the texts, the counts and
the rounding for display are left out. Two words with one box are one. A problem
says which rule it is about and which line it names.

### Config and the code

`Surroundings` is what an operator has written before a start: each setting in
each place it can be in, and where a config file was named. A value is reduced to
what `load_config` tells apart: unset, blank, usable, unusable, not-a-number, and
the words of `live` and `coversheet`. `FirstNotBlank`, `StateDirPlace`,
`TimeoutPlace`, `LivePlace` and `FileOnly` are the five ways the code looks a
setting up, `FindConfigFile` is `find_config_file`, `ConfigError` the first check
that raises, in the order of the code, and `LoadConfig` what is returned: for each
setting the place it was taken from.

### Program and the code

| step | code |
|---|---|
| `Start`, `Load`, `Finish` (`ExitStatus`), `ServerStops` | `main` of `cli.py` and of `server.py` |
| `TakeCall` | a tool call of the MCP server |
| `CheckConfig`, `ListProofs`, `GetProof`, `Account` | the tools and gate methods of these names |
| `DryRunRefuses` (`RequireLive`) | `_require_live` |
| `StartLookups`, `SkipCopy`, `LookUp`, `StoreProof`, `LookUpFails`, `LookupsEnd` | `download_proof_pdfs` and `tracking`, copy by copy; a print proof is opened, then written |
| `Preflight`, `UploadPreflight`, `Reply`, `Save`, `Write`, `SaveFails` | `MailGate.preflight` and `preflight_visual` |
| `RequestFails` | a request of `account` or `preflight` that is not sent, or whose document cannot be read a second time |
| `Submit` (`Coversheet`), `CheckWindows`, `ReadPage`, `GroupWord`, `ReportProblems`, `EndCheck` (`RefusesLayout`) | `letterstream_submit`, `letterstream_check_windows`, `_build_request` |
| `SubmitLocally`, `SubmitStops`, `AlreadyDone`, `SendSubmission`, `AuthorizeStops`, `SendRelease`, `GateAnswers` | `MailGate.submit`, `MailGate.authorize`, from outside |
| `LedgerFails` | a ledger operation that raises |
| `Edit`, `Ends` | an operator saves a document; a process is killed or gone |

A process runs one call at a time. A request is the set of its form fields that
decide what LetterStream does with it; `Effect` is that decision. `wire`, `shipped`,
`before` and `edited` are history: what a call has sent, the page and coversheet it
has submitted, the files there were when it began, and whether its document has
been written to since.

## 3. Runs

| run | instance | question |
|---|---|---|
| `gate_race` | 2 processes, each live or dry, one letter under an explicit key, 1 content or a missing file, 2 authcodes, 2 proof ids, ledger operations that fail | do concurrent submits and authorizes, unsent requests, lost answers, errors, crashes and restarts keep one job and one release (`MailOnce` is implemented), is the disk enough never to mail twice and to refuse an abandoned claim for ever, does a proof name its own job, and are callers told the truth, also about what was sent? |
| `gate_policy` | 1 thread, a derived and an explicit key, 2 contents, prices below and above the ceiling, each also as an acknowledged cost, releases whose answer hides an error | does the ceiling hold, and is each release of the hash and at the price that its caller gave? |
| `gate_live` | 1 process, 2 threads, no flock, submissions that arrive late | is nothing forgotten and does every call end? |
| `lock` | 3 threads in 2 processes, nesting 2 | mutex, no leak, every wait ends |
| `ledger` | 3 threads in 2 processes, 2 entries | parseable, nothing lost, current answers, every operation ends |
| `responses` | every form, up to 2 messages of any type (the unreadable one without values); 2 success codes and one error; with or without details, price, authcode and docs | is every value the first one, and no unreadable or masked error a success? |
| `program` | 2 processes, about 70 page layouts, some 500 ways to start, every command; a server with four calls | is what is sent, saved, reported and returned what was asked, whatever was configured and whoever edits files meanwhile? |
| `gate_bytes`, `gate_rename`, `gate_ledger_timeout`, `ledger_fault` | as above | a sentence of the documentation that the code does not keep (section 6) |
| `settings` | 1 process, every usable way to write the timeout | the same, of the configuration |

Bounds. Nothing limits how often a thread calls, fails, crashes or restarts:
the number of *threads, keys, contents, authcodes, proof ids and prices* is
what is finite, and in `NamedLock` the nesting depth (`MaxDepth`). Two callers
are enough for every race the code's comments describe, and three for a lock
that is shared by a pair and contended by a third. When the authcodes are used
up LetterStream stops accepting, and when the proof ids are used up a submit
waits at `put_proof`: in the runs each key can use at most one of each unless a
property is broken, and two are there so that it can be. `gate_policy` and
`gate_live` have one authcode: the run that could need a second one is
`gate_race`. Symmetry is used in the safety runs only (interchangeable authcodes
and proof ids; interchangeable processes, each with its thread), never with
liveness. No run disables the deadlock check.
`program` has two words at most besides the addressee and the sender on a page,
chosen so that some share a line, nearly do, or cross the border of a zone; one
setting is varied at a time, over every value in each of its places, and so are
the three ways to name a config file; three paths (a letter, the marked PDF, a
print proof), and a proof with two copies and one without an id. Its action
constraint (`Sparing`) keeps apart what does not interact: a process whose
configuration is varied runs alone on the plain disk, a page other than the good
and the bad one is seen by the commands that look at layouts, two processes at a
time run preflight, download and a checked submit, and nobody edits the print
proofs. Calls do not delete files, nor does the operator. The theorems about
`Program` have none of these bounds but the last.
`responses` bounds an answer at two messages (`MaxMessages`), enough for one to
come before the other; the theorems have no bound.

Fairness. `FairSpec` asks weak fairness of the steps the program takes by
itself: the scheduler runs every thread, and each wait has a deadline, which is
a step of the waiting call (`SubmitLockTimeout`, `ProofLockTimeout`,
`PreauthFails`, `ReleaseFails`, `RLockTimeout`, `FlockFails`, `LockTimeout`).
Nothing is asked of callers, LetterStream, the disk, the clock, or a block that
holds a lock.

`gate_race` takes a release that returns for one that was made (`ErrorsHide` is
off): the parts of `ReleasesAreOnRecord` and `AnswersAreTrue` that say a recorded
release has been mailed are only true then, and the other parts do not depend on
it. `gate_policy` and `gate_live` allow the answers that hide an error.

`ImplementsMailOnce` contains one job per key and one release per job; these two are
also checked by name, because they are what breaks first. `CallsAdvance`,
`OperationsAdvance`, `HoldsAdvance`, `DryRunsOnlyPreview`, `LedgersAreMaps` and
`LedgerLockIsMutex` are proved and in no run.

Each property of a run has a variant of the code (the definitions marked "(variant)")
under which TLC finds it violated: a lock left out, a claim saved late or taken
back, a look-up skipped, a lock released twice, a ledger written in place.

## 4. Proofs

TLAPS proves, for every number of threads, processes, requests, contents,
authcodes, proofs and prices, and for every setting of the switches:

* `Gate`: `TypeCorrect` (`TypeOK`); and, when the locks exclude, `MailsAtMostOnce`
  (`AtMostOneRelease`), `OneProof` (`OneProofPerKey`), `Recorded`
  (`ReleasesAreOnRecord`), `Backed` (`ProofsAreBacked`) and `PromisesAreKept`
  (`LedgerKeepsPromises`), `AnswersHold` (`AnswersAreTrue`), with answers that hide an
  error or without. `RefusalsAreClean`
  (`RefusalSentNothing`) needs no locks, but a ledger that does not fail;
  `CeilingIsKept` (`CeilingHolds`) needs quotes that can be read.
* `Gate`, what a caller can rely on: `OutcomesAreTold` (`OutcomesTellWhatWasSent`),
  again without locks, and with any ledger; `OnlyReviewedIsReleased`
  (`ReleasesAreReviewed`) and `ClaimsStayAbandoned` (`AbandonedClaimsStay`), when the
  locks exclude, also with a failing ledger; `DryRunsAreHarmless`
  (`DryRunsOnlyPreview`), with no hypothesis.
* `Gate`, the bytes: `UneditedBytesAreHeld`. `gate_bytes` violates
  `ProofHashIsUploaded` by an edit between two reads of one submission; the theorem
  says that this is the only way: if no step edits the document while a submission is
  between its reads (`DocumentSettled`), the property holds, without locks and with
  any failure. `ReviewedBytesAreMailed` adds that what is sent a release then holds
  the bytes of a proof claimed for it.
* `Gate` uses what the layer below provides: `LedgersHold` (`LedgersAreMaps`).
* The safety half of termination: `CallsAreBounded` (`CallsAdvance`: a submit has at
  most eleven steps of its own, an authorize eight, and nobody else's step adds one),
  `OperationsAreBounded` (a ledger operation, six) and `HoldsAreBounded` (taking a
  named lock, or giving it back, two). No call loops or retries by itself.
* `Gate` implements `MailOnce` (`GateMailsOnce`), with `OneHeldJob`
  (`OneHeldJobPerKey`) and `NothingIsForgotten` (`NothingForgotten`), when the locks
  exclude, a key is used with one job name only (`OneNamePerKey`, which
  `gate_rename` drops), and a submission reaches LetterStream during its call or is
  refused if the name of its job is taken (`SubmissionsSettle`).
* `Ledger`: `TypeCorrect` and `AlwaysParses` (`NeverTorn`) whatever fails; `Current`
  (`AnswersAreCurrent`) and `LedgerIsMap`, the refinement of `LedgerMap`, when a
  sound file can always be read (`ledger_fault` is what happens otherwise);
  `LockIsMutex` (`LedgerLockIsMutex`) whatever fails.
* `NamedLock`: `TypeCorrect`, `Exclusion`, `FlockIsDepth`, `LeaksNothing`, and
  `LockIsMutex`, the refinement of `Mutex`, when the platform has flock.
* `Windows`: `WindowCheckIsSound` (`EveryBreachIsReported`) and
  `WindowReportsAreExact` (`ReportsAreExact`), for every page. The first rests on
  each word lying in a line, the second on the converse: each of the four edges of
  a line's box is the edge of a word in it.
* `Program`: `TypesHold` (`TypeOK`), and one theorem for each property of its run:
  `BreachesAreReported`, `OnlyAskedRequestsAreSent`, `AccountHolds`
  (`AccountIsTheOneNamed`), `SubmittedLayoutsAreSafe`, `LookupsAreComplete`,
  `ExitStatusHolds` and `PreflightIsHarmless`, for every set of processes, launches,
  calls, documents, paths, proofs and copies. `PrecedenceIsKept` is
  `SettingsFollowPrecedence`, which run `settings` violates, under the condition
  `NoBlankHides` on the launches: no blank `LETTERSTREAM_TIMEOUT`, no blank
  `LETTERSTREAM_LIVE`, no `--state-dir` of white space. So these three are all the
  ways in which the code leaves its documented precedence.
* `Responses`: `TypeCorrect`, `Promotion`, `Quote`, `NoFalseSuccess`, `NothingMasked`
  and `OnePredicate`, one for each property of its run, for answers of any
  length. `IInv` is the loop invariant (`LoopInv`: after k messages each value is
  that of the first of those k that offers it), what a body of each form may
  hold (`FormInv`), and that the verdict is that of the rules on the whole
  answer (`VerdictInv`).

Assumptions. Of the constants: `NoneAssumption`, `CeilingAssumption`,
`RequestAssumption`, `NamedLockAssumption`, `LedgerAssumption`, `ResponsesAssumption` (absent values
are not values; prices are numbers; success codes are codes), `WindowsAssumption` (a
word has a height and is not inside out) and `ProgramAssumption` (launches and calls
are well formed, the server has no arguments but its config file), each evaluated by TLC in the runs. `ExclusiveLocks` is a
hypothesis of the gate's safety theorems: flock exists, or all threads are of
one process. It is what `CROSS_PROCESS_LOCKING` says, and the theorems about
`NamedLock` are why it suffices. Late submissions, failing ledgers, readable or
unreadable quotes and reused job names are all allowed.

The argument. `TypeOK` is not inductive: `Upload` needs a key and a name to
have been set, `RecordRelease` a proof to be in memory. `TypeInv` adds which
locals are set at which step and that a request or an answer exists only while
its call waits for it. `SafetyInv` adds, for each thread:

* `Apart`: no other thread is in the same locked section. Everything else
  depends on it, and it depends on `ExclusiveLocks`.
* `SubmitsAlone`: past the look-up, the key has no proof until this thread
  writes it; that keeps `OneProofPerKey` at `PutProof`.
* `CarriedIsFresh`: an authcode that was answered and is not yet in a proof
  belongs to a held, unreleased job of the caller's key, and nobody else
  carries it; that keeps `ProofsAreBacked` at `PutProof`.
* `ReleasesAlone`: between the check and the record the proof in memory is the
  proof on disk, stamped from `ClaimRelease` on, and at the step before the
  request its job has had no release; that makes the counter go from 0 to 1
  and never from 1 to 2.

`UnheldIsUnreleased` and `SubmittedHasProof` relate the rest: an authcode that
was never handed out has no release, and a key marked submitted has a proof.
`SafetyInv` was first checked by TLC as an invariant of `gate_race`. `LockIsMutex` maps every step of `NamedLock` to an entry, a leave
or a stutter of `Mutex`.

The rest about the gate builds on `SafetyInv`, one invariant per question, each
checked by TLC first:

* `AnswerInv`: what an idle thread was last answered is backed by a proof on disk.
  No step takes a proof or a stamp back, so an answer stays true while
  others run; and a call that answers "mailed" stamps a proof that was not stamped,
  so no earlier caller was told so.
* `SentInv`: a call has sent something at the steps after its request
  (`PastSending`) and nothing at the others, except at `fail`, which is reached from
  both sides: there the error it has raised is one of the request if something was
  sent, and an `ApiError` only then. No refusal is raised past the request but the
  ledger's.
* `CeilingInv`: a proof costs what its job costs, from the quote to the release,
  and what passed the check is within the ceiling.
* `JobInv`: between the status query and the request the key has no job
  (`AttemptOpen`). A job without a proof means the record is in flight, so
  `CheckPrior` sends the call to the query, which asks for the job by name; that the
  name asked for is the name of the key's earlier job is `OneNamePerKey`. Other
  calls cannot add a job of the key, as `Apart` keeps them out. With late
  submissions the argument is LetterStream's: it refuses the second job of a name.

* `ReviewInv`: past the check a release works on the hash its caller gave, past the
  next one on a cost equal to the acknowledged one, and a mailed job was sent a
  release. With `ReleasesAlone` (the proof in memory is the proof on disk, unreleased)
  and `CeilingInv` (its cost is the price) this is `ReleasesAreReviewed`.
* `AbandonedStays`: who is at the request or after it has claimed the proof itself,
  in the same locked section; with the claim on disk `Verdict` answers "ambiguous",
  so nobody gets there again, and `Apart` and `ReleasesAlone` exclude that the
  claimer is still on its way.
* `BytesInv`: while a submission is between its reads, its hash is that of the file;
  afterwards the request, then the held job, then the proof in memory and the ledger
  carry content and hash together. It needs `TypeInv` only.
* `LiveInv`: past the switch a call is in a live process, since the switch changes
  only with a restart, which ends every call of the process.
* For the bounds, `CallMoves` lists every pair of places a step can go
  between (`Moves`), and `StepsLeft` falls along each.

Under `JobInv` a step of `Gate` maps to a step of `MailOnce`: acceptance to `Hold`,
the claim to `Approve`, the request to `Order`, mailing to `Mail`; every other step
is a stutter. `OneHeldJobPerKey` makes `Hold` possible, `ProofsAreBacked` makes
`Approve` a first one, `ReleasesAlone` makes `Order` the only one.

In `Ledger` the invariant says who holds the lock and what the holder's copy is:
until the rename it is the file with one entry changed, because nobody else can
rename meanwhile. What a rename publishes was written to the end.

`CheckInv` is the loop invariant of the grouping (`LoopInv`): every word that has
been taken is inside a line, and every line holds a word. Merging moves the top of
a line, so a word may join a line it is not on; that is harmless, because a box that
grows keeps intersecting what it intersected and stays outside what it was outside
of (`BreachesSpread`): a breach of a word is one of its line, and the rules are
about lines. The other direction, no problems means a safe page, needs that the
address shows: a line that shows is wholly in the safe zone, so is a word it holds,
and a word with a height in a safe zone intersects the opening (`SafeShows`).

`ProgramInv` says process by process what its locals tell at each label: a
running process was launched and its configuration is `LoadConfig` of what it
was launched with (`Launched`, `Running`); a call has a result when it ended and not
before (`Outcome`); what it has sent fits its command, needs live mode, and is at
most a status query when it was refused (`Sent`); a check under way is of the
document unless `edited` says otherwise, and so is what it let pass (`Checked`); the
files of `before` are there, and a preflight's target is none of them (`Kept`);
every copy is looked up or still to do (`Looked`). Processes meet in the files
only. That is the frame argument: `OthersUnaffected` shows that a step of one
process leaves the locals of the others alone and disturbs their view of the
disk only in ways (`Undisturbed`) that each part of the invariant survives
(`UnaffectedKeeps`): no file disappears, and a document is not written without a
trace in `edited`. The parts were first checked by TLC as invariants of `program`.

Only model-checked: liveness (`CallsReturn`, `HoldReturns`, `OperationsEnd`). What the
proofs leave to TLC there is that some step of a call is always enabled (ENABLED is
out of the prover's reach) and that weak fairness then takes it; that its steps run
out is proved. Every other property of a passing run has a theorem.

## 5. What the model does not say

* `OneHeldJobPerKey` is checked with submissions that arrive while their call
  waits, or never. If one arrives after a status query has answered "absent",
  only LetterStream's refusal of a used job name (`UniqueJobNames`) stops a
  second job.
* `RefusalSentNothing` holds when the ledger does not fail; with failures it
  does not (section 6).
* `CeilingHolds` needs a quote that parses: without one, neither the ceiling
  nor an acknowledged cost is compared (`gate.py:492`, `499`).
* `ErrorsAreNotMasked` is about the lookups. `release` and `submit_preauth` judge an
  answer by its promoted code alone (`client.py:279`, `287`): an error behind a
  leading AUTHOK is taken for a release. `Gate` has such answers with `ErrorsHide`;
  that a release on record has been mailed is said without it only. A submission
  answered without an authcode is an error of the gate.
* `OutcomesTellWhatWasSent` says nothing about a `TransportError`: the class may mean
  that nothing was sent, or that the answer was lost.
* `ReleasesAreReviewed` and `CeilingHolds` are checked with one thread: two with two
  contents, two prices and two requests are too many states. The theorems have any
  number.
* `PreflightKeepsFiles` is about the files that were there when the call began. One
  that appears at the target while the upload runs is overwritten
  (`gate.py:585`, `593`).
* `ReportsAreExact` is the converse of `EveryBreachIsReported` for margins, empty
  openings and pictures only. A merged line may be named for an opening's safe
  zone or for the barcode area although no word of it is in breach, because the
  box of a line spans the gap between its words. The check errs to that side, and
  its report calls itself a heuristic.
* `LookupsAreWhole` counts the copies that have an id; the others are skipped
  without a word (`gate.py:626`, `651`).
* `AccountIsTheOneNamed` judges the places of seven settings; `timeout`, `live` and
  `state_dir` are looked for in ways of their own, which `SettingsFollowPrecedence`
  is about (section 6).
* Exit status 1 is a refusal, but also what Python gives an exception and
  `SystemExit` with a message (arguments that are no JSON), and the late
  `LockTimeout` of finding 3.
* A ceiling that is not-a-number is loaded and never refuses anything
  (`config.py:329`, `gate.py:492`); `Config` has it, `Gate` has integers.
* Not modelled: `tools/mutation_test.py` (a development script); the signature and
  the unique id of a request, and with it two requests in one millisecond
  (`client.py:45`); the characters of addresses and names; durations, so whether a
  wait is long enough (`gate.py:79`); a document that exists and cannot be read;
  an MCP SDK that is not installed; argparse and printing.
* A power failure between the rename of a ledger and the write of its directory
  is not modelled; a process death is.
* A proof whose release was claimed and not sent is refused for ever
  (`AbandonedClaimsStay`). That is the design: the decision is left to a human.
* `ProofHashIsUploaded` needs a document that is not edited between the reads of one
  submission (`DocumentSettled`, section 6).

## 6. Disagreements between the code and its documentation

1. `gate_bytes`: the hash in a proof is of the document as `submit` first read
   it (`gate.py:167`); the bytes uploaded are read later (`client.py:274`). The
   README promises the "SHA-256 of the exact bytes uploaded". An edit between the
   two, undone before `authorize`, mails bytes nobody approved. Nothing else can
   make them differ (`UneditedBytesAreHeld`).
2. `gate_rename`: before a retry the gate asks LetterStream about the job name of
   the *new* request (`gate.py:315`), not about the name the lost attempt used. An
   explicit key retried under another name becomes a second job, where the
   README says an explicit key "means this is the same mailing".
3. `gate_ledger_timeout`: the ledger lock raises the same `LockTimeout` as the key
   locks, after the request has gone out; the class and its message say that
   nothing was submitted and nothing was mailed.
4. `ledger_fault`: a ledger that cannot be read for a moment is taken for an
   empty one (`store.py:149`) and overwritten with a single entry.
5. `settings`: a blank is "not set" (`config.py:127`) and every value comes from the
   arguments, the environment, the file or the default, in this order
   (`config.py:238`). But `LETTERSTREAM_TIMEOUT` that is blank hides the file's
   timeout, and the default applies (`config.py:308`). A blank `LETTERSTREAM_LIVE` is
   off, whatever the file says (`config.py:317`), and a `--state-dir` of white space
   is the state directory (`config.py:333`). There is no other deviation
   (`PrecedenceIsKept`).

## 7. Plan

Done: `MailOnce`, `Gate`, `Mutex`, `NamedLock`, `LedgerMap`, `Ledger`, `Responses`,
`Windows`, `Config`, `Program`, their runs, and the theorems above.

Every module of the plan is written and every safety property of a passing run is
proved. What could be added:

1. The unique id of a request and its millisecond (`client.py:45`): it needs a
   clock, and what LetterStream answers to a repeated id; the source says only that
   it accepts each value once (`client.py:43`).
2. A power failure between the rename of a ledger and the write of its directory,
   as a step of `Ledger` that puts the old file back.
