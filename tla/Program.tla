------------------------------ MODULE Program ------------------------------
(***************************************************************************)
(* The program around the mail gate: a command line call or an MCP server  *)
(* starts, loads its configuration (Config), runs tool calls and answers.  *)
(* Here are cli.py, server.py, toolset.py, the read-only calls of gate.py, *)
(* the requests of transport.py and, step by step, the window check        *)
(* (Windows).  submit and authorize are reduced to what Gate shows they    *)
(* do: refuse, or send one request and learn or not learn its answer.      *)
(*                                                                         *)
(* Several processes share the disk and the ledger, an operator edits      *)
(* files, and a process can be killed between any two steps.  A process    *)
(* runs one call at a time; threads are the subject of Gate.  Nobody       *)
(* deletes files.                                                          *)
(***************************************************************************)
EXTENDS Windows, Config

CONSTANTS
    Launches,    \* Launches[p]: how process p may be started
    Calls,       \* the tool calls a server gets
    Documents,   \* what an operator may write to a file
    Prints,      \* the PDFs that LetterStream may return
    Paths,
    FreshDisk,   \* what is on the disk at first
    ProofIds,
    DocIds,      \* recipient copies
    NoId,        \* a copy that LetterStream gave no id
    PerDoc,      \* PerDoc[i]: the copies of proof i
    ProofFile    \* ProofFile[d]: where the print proof of copy d is saved

Commands == {"check_config", "account", "submit", "list_proofs", "get_proof",
             "download_proofs", "authorize", "tracking", "preflight", "check_windows"}

(* The arguments of a call; a command has the ones it uses.  form: the     *)
(* addresses are no JSON (command line only), lack a field, or break a     *)
(* rule of SubmitRequest.validate.  "n" is "N" in another spelling.        *)
Call ==
    [command : Commands, document : Paths, out : Paths, proof : ProofIds,
     coversheet : {"unset", "Y", "N", "n"}, windowCheck : BOOLEAN,
     form : {"sound", "no json", "malformed", "invalid"}]

Launch == [kind : {"cli", "server"}, around : Surroundings, call : Call \cup {None}]

(* A file is absent, not a PDF, a PDF nobody can read, or a PDF with a     *)
(* first page.                                                             *)
File == [kind : {"absent", "text", "broken"}, page : {None}] \cup [kind : {"pdf"}, page : Pages]

Absent == [kind |-> "absent", page |-> None]
NoPdf == [kind |-> "text", page |-> None]

ASSUME ProgramAssumption ==
    /\ Launches \in [Procs -> SUBSET {l \in Launch : l.kind = "cli" => l.call # None}]
    /\ \A p \in Procs : \A l \in Launches[p], setting \in Settings :
           l.kind = "server" => l.around.written["args"][setting] = "unset"
    /\ Calls \subseteq {c \in Call : c.form # "no json"}
    /\ Documents \cup Prints \subseteq File \ {Absent}
    /\ FreshDisk \subseteq [Paths -> File]
    /\ PerDoc \in [ProofIds -> SUBSET (DocIds \cup {NoId})]
    /\ ProofFile \in [DocIds -> Paths]
    /\ None \notin Call \cup Launch \cup Configs
    /\ NoId \notin DocIds

VARIABLES
    pc,        \* pc[p]: what process p does next
    launch,    \* launch[p]: how it was started
    config,    \* config[p]: its configuration, once loaded
    call,      \* call[p]: the call it runs
    todo,      \* todo[p]: copies it has still to look up
    got,       \* got[p]: copies whose lookup succeeded
    result,    \* result[p]: how the call ended
    code,      \* code[p]: its exit status
    disk,      \* disk[x]: the file at path x
    ledger,    \* the proofs in proofs.json
    wire,      \* wire[p]: the requests the call has sent (history)
    shipped,   \* shipped[p]: what it has submitted (history)
    before,    \* before[p]: the files there were when the call began (history)
    edited     \* edited[p]: its document has changed since (history)

process == <<launch, config, call>>
progress == <<todo, got>>
files == <<disk, ledger>>
history == <<wire, shipped, before, edited>>

vars == <<pc, process, progress, result, code, files, history, checks>>

Labels == {"off", "loading", "ready", "dispatch", "checking", "submitting", "waiting",
           "asking", "lookups", "storing", "uploading", "saving", "writing", "answered", "exited"}

Results == {"none", "ok", "refused", "refused late", "error", "traceback", "no json",
            "not configured"}

(* The fields of a request that decide what LetterStream does with it.     *)
Fields == {"accountstatus", "jobstatus", "doc_id", "job", "single_file", "preauth",
           "doauth", "preflight", "preflight_file"}

Submission == [page : Pages \cup {None}, coversheet : Writings \cup {"Y", "n"}]

TypeOK ==
    /\ pc \in [Procs -> Labels]
    /\ launch \in [Procs -> Launch \cup {None}]
    /\ config \in [Procs -> Configs \cup {None}]
    /\ call \in [Procs -> Call \cup {None}]
    /\ todo \in [Procs -> SUBSET (DocIds \cup {NoId})]
    /\ got \in [Procs -> SUBSET DocIds]
    /\ result \in [Procs -> Results]
    /\ code \in [Procs -> 0 .. 3]
    /\ disk \in [Paths -> File]
    /\ ledger \in SUBSET ProofIds
    /\ wire \in [Procs -> SUBSET (SUBSET Fields)]
    /\ shipped \in [Procs -> Submission \cup {None}]
    /\ before \in [Procs -> SUBSET Paths]
    /\ edited \in [Procs -> BOOLEAN]
    /\ ChecksTypeOK

Init ==
    /\ pc = [p \in Procs |-> "off"]
    /\ launch = [p \in Procs |-> None]
    /\ config = [p \in Procs |-> None]
    /\ call = [p \in Procs |-> None]
    /\ todo = [p \in Procs |-> {}]
    /\ got = [p \in Procs |-> {}]
    /\ result = [p \in Procs |-> "none"]
    /\ code = [p \in Procs |-> 0]
    /\ disk \in FreshDisk
    /\ ledger = {}
    /\ wire = [p \in Procs |-> {}]
    /\ shipped = [p \in Procs |-> None]
    /\ before = [p \in Procs |-> {}]
    /\ edited = [p \in Procs |-> FALSE]
    /\ CheckInit

-----------------------------------------------------------------------------
Goto(p, l) == pc' = [pc EXCEPT ![p] = l]

Answer(p, r) == Goto(p, "answered") /\ result' = [result EXCEPT ![p] = r]

Exit(p, c) == Goto(p, "exited") /\ code' = [code EXCEPT ![p] = c]

Runs(p, command) == pc[p] = "dispatch" /\ call[p].command = command

IsPdf(f) == f.kind \in {"broken", "pdf"}

WriteFile(x, f) ==
    /\ disk' = [disk EXCEPT ![x] = f]
    /\ edited' = [p \in Procs |->
                     edited[p] \/ (call[p] # None /\ call[p].document = x)]

Send(p, fields) == wire' = [wire EXCEPT ![p] = @ \cup {fields}]

\* The fields of Transport.submit_preauth, release, query and preflight.
SubmissionFields == {"job", "single_file", "preauth"}
ReleaseFields == {"doauth"}
PreflightFields == {"preflight", "preflight_file"}

\* What LetterStream does with a request (external).
Effect(fields) ==
    CASE "doauth" \in fields -> "mail"
      [] "single_file" \in fields -> IF "preauth" \in fields THEN "hold" ELSE "mail"
      [] OTHER -> "none"

-----------------------------------------------------------------------------
(* A process and its calls *)

\* The locals of a call and its history are new.
Fresh(p, c, present) ==
    /\ call' = [call EXCEPT ![p] = c]
    /\ todo' = [todo EXCEPT ![p] = {}]
    /\ got' = [got EXCEPT ![p] = {}]
    /\ result' = [result EXCEPT ![p] = "none"]
    /\ wire' = [wire EXCEPT ![p] = {}]
    /\ shipped' = [shipped EXCEPT ![p] = None]
    /\ before' = [before EXCEPT ![p] = present]
    /\ edited' = [edited EXCEPT ![p] = FALSE]

BeginCall(p, c) == Fresh(p, c, {x \in Paths : disk[x] # Absent})

\* The command line runs check-windows without loading anything.
Start(p) ==
    /\ pc[p] = "off"
    /\ \E l \in Launches[p] :
           /\ launch' = [launch EXCEPT ![p] = l]
           /\ BeginCall(p, l.call)
           /\ Goto(p, IF l.kind = "cli" /\ l.call.command = "check_windows"
                      THEN "checking" ELSE "loading")
    /\ UNCHANGED <<config, code, files, checks>>

\* An error of the package exits with 2; any other is a traceback.
Load(p) ==
    /\ pc[p] = "loading"
    /\ LET s == launch[p].around
           e == ConfigError(s)
       IN  CASE e = "none" ->
                    /\ config' = [config EXCEPT ![p] = LoadConfig(s)]
                    /\ Goto(p, IF launch[p].kind = "cli" THEN "dispatch" ELSE "ready")
                    /\ UNCHANGED <<result, code>>
             [] e = "ValueError" ->
                    /\ result' = [result EXCEPT ![p] = "traceback"]
                    /\ Exit(p, 1)
                    /\ UNCHANGED config
             [] OTHER ->
                    /\ result' = [result EXCEPT ![p] = "not configured"]
                    /\ Exit(p, 2)
                    /\ UNCHANGED config
    /\ UNCHANGED <<launch, call, progress, files, history, checks>>

TakeCall(p) ==
    /\ pc[p] = "ready"
    /\ \E c \in Calls : BeginCall(p, c)
    /\ Goto(p, "dispatch")
    /\ UNCHANGED <<launch, config, code, files, checks>>

\* (variant) Every failed command exits with 1.
ExitStatusOfFailure(r) == IF r = "ok" THEN 0 ELSE 1

\* The exit status of a result: a refusal of the gate, another error of the
\* package, or what Python does with an exception.
ExitStatus(r) ==
    CASE r = "ok" -> 0
      [] r \in {"refused", "refused late", "traceback", "no json"} -> 1
      [] OTHER -> 3

\* The command line prints the result and exits; the server goes on.
Finish(p) ==
    /\ pc[p] = "answered"
    /\ IF launch[p].kind = "cli"
       THEN Exit(p, ExitStatus(result[p]))
       ELSE Goto(p, "ready") /\ UNCHANGED code
    /\ UNCHANGED <<process, progress, result, files, history, checks>>

ServerStops(p) ==
    /\ pc[p] = "ready"
    /\ Exit(p, 0)
    /\ UNCHANGED <<process, progress, result, files, history, checks>>

\* The process is killed, or has exited and is gone.
Ends(p) ==
    /\ pc[p] # "off"
    /\ Goto(p, "off")
    /\ launch' = [launch EXCEPT ![p] = None]
    /\ config' = [config EXCEPT ![p] = None]
    /\ Fresh(p, None, {})
    /\ checks' = [checks EXCEPT ![p] = Idle]
    /\ code' = [code EXCEPT ![p] = 0]
    /\ UNCHANGED files

-----------------------------------------------------------------------------
(* Commands that look things up *)

CheckConfig(p) ==
    /\ Runs(p, "check_config")
    /\ Answer(p, "ok")
    /\ UNCHANGED <<process, progress, code, files, history, checks>>

ListProofs(p) ==
    /\ Runs(p, "list_proofs")
    /\ Answer(p, "ok")
    /\ UNCHANGED <<process, progress, code, files, history, checks>>

GetProof(p) ==
    /\ Runs(p, "get_proof")
    /\ Answer(p, IF call[p].proof \in ledger THEN "ok" ELSE "refused")
    /\ UNCHANGED <<process, progress, code, files, history, checks>>

\* (variant) The live switch is not looked at.
NothingIsRequired(p) == TRUE

\* _require_live
RequireLive(p) == config[p].live

ReadsLedger == {"list_proofs", "get_proof", "download_proofs", "tracking"}

\* The ledger lock is a LockTimeout away, or its files fail (store.py).
LedgerFails(p) ==
    /\ pc[p] = "dispatch"
    /\ call[p].command \in ReadsLedger
    /\ RequireLive(p) \/ call[p].command \in {"list_proofs", "get_proof"}
    /\ \E r \in {"refused", "traceback"} : Answer(p, r)
    /\ UNCHANGED <<process, progress, code, files, history, checks>>

DryRunRefuses(p) ==
    /\ pc[p] = "dispatch"
    /\ call[p].command \in {"account", "download_proofs", "tracking", "preflight",
                            "authorize"}
    /\ ~RequireLive(p)
    /\ Answer(p, "refused")
    /\ UNCHANGED <<process, progress, code, files, history, checks>>

Account(p) ==
    /\ Runs(p, "account")
    /\ RequireLive(p)
    /\ Send(p, {"accountstatus"})
    /\ Goto(p, "asking")
    /\ UNCHANGED <<process, progress, result, code, files, shipped, before, edited, checks>>

\* download_proof_pdfs and tracking, up to their loop; the directory of the
\* print proofs may not be there and not be creatable.
StartLookups(p) ==
    /\ pc[p] = "dispatch"
    /\ call[p].command \in {"download_proofs", "tracking"}
    /\ RequireLive(p)
    /\ IF call[p].proof \notin ledger
       THEN Answer(p, "refused") /\ UNCHANGED todo
       ELSE \/ /\ todo' = [todo EXCEPT ![p] = PerDoc[call[p].proof]]
               /\ Goto(p, "lookups")
               /\ UNCHANGED result
            \/ /\ call[p].command = "download_proofs"
               /\ Answer(p, "traceback")
               /\ UNCHANGED todo
    /\ UNCHANGED <<process, got, code, files, history, checks>>

SkipCopy(p) ==
    /\ pc[p] = "lookups"
    /\ NoId \in todo[p]
    /\ todo' = [todo EXCEPT ![p] = @ \ {NoId}]
    /\ UNCHANGED <<pc, process, got, result, code, files, history, checks>>

\* A copy is asked about.  tracking keeps the answer; for a print proof
\* write_bytes opens its file, which empties what is there, ...
LookUp(p) ==
    /\ pc[p] = "lookups"
    /\ \E d \in todo[p] \ {NoId} :
           /\ todo' = [todo EXCEPT ![p] = @ \ {d}]
           /\ \/ /\ call[p].command = "tracking"
                 /\ got' = [got EXCEPT ![p] = @ \cup {d}]
                 /\ UNCHANGED <<pc, disk, edited>>
              \/ /\ call[p].command = "download_proofs"
                 /\ WriteFile(ProofFile[d], NoPdf)
                 /\ Goto(p, "storing")
                 /\ UNCHANGED got
    /\ Send(p, {"doc_id"})
    /\ UNCHANGED <<process, result, code, ledger, shipped, before, checks>>

\* ... and writes: the copy is the one that is neither to do nor done.
StoreProof(p) ==
    /\ pc[p] = "storing"
    /\ \E d \in PerDoc[call[p].proof] \ (todo[p] \cup got[p] \cup {NoId}) :
           /\ \E f \in Prints : WriteFile(ProofFile[d], f)
           /\ got' = [got EXCEPT ![p] = @ \cup {d}]
    /\ Goto(p, "lookups")
    /\ UNCHANGED <<process, todo, result, code, ledger, wire, shipped, before, checks>>

\* (variant) A copy whose lookup fails is left out of the answer.
LookUpSkipsFailure(p) ==
    /\ pc[p] = "lookups"
    /\ \E d \in todo[p] \ {NoId} : todo' = [todo EXCEPT ![p] = @ \ {d}]
    /\ Send(p, {"doc_id"})
    /\ UNCHANGED <<pc, process, got, result, code, files, shipped, before, edited, checks>>

\* A failed lookup, sent or not, or a file that cannot be opened, ends the whole
\* call.
LookUpFails(p) ==
    /\ pc[p] = "lookups"
    /\ todo[p] \ {NoId} # {}
    /\ Send(p, {"doc_id"}) \/ UNCHANGED wire
    /\ \E r \in {"error"} \cup (IF call[p].command = "download_proofs"
                                THEN {"traceback"} ELSE {}) : Answer(p, r)
    /\ UNCHANGED <<process, progress, code, files, shipped, before, edited, checks>>

LookupsEnd(p) ==
    /\ pc[p] = "lookups"
    /\ todo[p] = {}
    /\ Answer(p, "ok")
    /\ UNCHANGED <<process, progress, code, files, history, checks>>

-----------------------------------------------------------------------------
(* PreFlight *)

\* (variant) The target is not looked at.
PreflightLooksAtDocument(p) ==
    /\ Runs(p, "preflight")
    /\ RequireLive(p)
    /\ IF IsPdf(disk[call[p].document])
       THEN Goto(p, "uploading") /\ UNCHANGED result
       ELSE Answer(p, "error")
    /\ UNCHANGED <<process, progress, code, files, history, checks>>

\* The local checks of preflight; the document is hashed.  A document that is
\* there may refuse to be read.
Preflight(p) ==
    /\ Runs(p, "preflight")
    /\ RequireLive(p)
    /\ \/ IF IsPdf(disk[call[p].document]) /\ disk[call[p].out] = Absent
          THEN Goto(p, "uploading") /\ UNCHANGED result
          ELSE Answer(p, "error")
       \/ disk[call[p].document] # Absent /\ Answer(p, "traceback")
    /\ UNCHANGED <<process, progress, code, files, history, checks>>

\* The document is read again and uploaded.
UploadPreflight(p) ==
    /\ pc[p] = "uploading"
    /\ Send(p, PreflightFields)
    /\ Goto(p, "asking")
    /\ UNCHANGED <<process, progress, result, code, files, shipped, before, edited, checks>>

\* Nothing is sent: no requests package, nobody to connect to; or the document
\* cannot be read a second time.
RequestFails(p) ==
    /\ \/ /\ Runs(p, "account") /\ RequireLive(p)
          /\ Answer(p, "error")
       \/ /\ pc[p] = "uploading"
          /\ \E r \in {"error", "traceback"} : Answer(p, r)
    /\ UNCHANGED <<process, progress, code, files, history, checks>>

\* account_status and preflight_visual return, or raise.
Reply(p) ==
    /\ pc[p] = "asking"
    /\ \/ Answer(p, "error")
       \/ call[p].command = "account" /\ Answer(p, "ok")
       \/ call[p].command = "preflight" /\ Goto(p, "saving") /\ UNCHANGED result
    /\ UNCHANGED <<process, progress, code, files, history, checks>>

\* write_bytes opens the target, which empties what is there, ...
Save(p) ==
    /\ pc[p] = "saving"
    /\ WriteFile(call[p].out, NoPdf)
    /\ Goto(p, "writing")
    /\ UNCHANGED <<process, progress, result, code, ledger, wire, shipped, before, checks>>

\* ... and writes.
Write(p) ==
    /\ pc[p] = "writing"
    /\ \E f \in Prints : WriteFile(call[p].out, f)
    /\ Answer(p, "ok")
    /\ UNCHANGED <<process, progress, code, ledger, wire, shipped, before, checks>>

\* The directory, the file or the disk refuses.
SaveFails(p) ==
    /\ pc[p] \in {"saving", "writing", "storing"}
    /\ Answer(p, "traceback")
    /\ UNCHANGED <<process, progress, code, files, history, checks>>

-----------------------------------------------------------------------------
(* The window check *)

\* A server's check_windows; the command line is at the check already.
CheckWindows(p) ==
    /\ Runs(p, "check_windows")
    /\ Goto(p, "checking")
    /\ UNCHANGED <<process, progress, result, code, files, history, checks>>

ReadPage(p) ==
    /\ pc[p] = "checking"
    /\ LET f == disk[call[p].document]
       IN  f.kind = "pdf" /\ OpenPage(p, f.page)
    /\ UNCHANGED <<pc, process, progress, result, code, files, history>>

\* pdfplumber is not installed, or there is no page, or none it can read.
ReadPageFails(p) ==
    /\ pc[p] = "checking"
    /\ checks[p] = Idle
    /\ \E r \in {"error", "traceback"} : Answer(p, r)
    /\ UNCHANGED <<process, progress, code, files, history, checks>>

GroupWord(p) ==
    /\ NextWord(p)
    /\ UNCHANGED <<pc, process, progress, result, code, files, history>>

ReportProblems(p) ==
    /\ Report(p)
    /\ UNCHANGED <<pc, process, progress, result, code, files, history>>

\* _build_request: the argument, else the configured default, else "Y".
Coversheet(p) ==
    IF call[p].coversheet # "unset" THEN call[p].coversheet
    ELSE IF ~IsBlank(config[p].coversheet) THEN config[p].coversheet
    ELSE "Y"

\* (variant) Only a coversheet argument counts.
RefusesArgument(p) == call[p].coversheet \in {"N", "n"} /\ checks[p].problems # {}

\* letterstream_submit refuses a page with problems that shows through.
RefusesLayout(p) == Coversheet(p) \in {"N", "n"} /\ checks[p].problems # {}

EndCheck(p) ==
    /\ pc[p] = "checking"
    /\ IF checks[p].at = "failed" THEN Answer(p, "error")
       ELSE IF call[p].command = "check_windows" THEN Answer(p, "ok")
       ELSE IF RefusesLayout(p) THEN Answer(p, "refused")
       ELSE Goto(p, "submitting") /\ UNCHANGED result
    /\ Leave(p)
    /\ UNCHANGED <<process, progress, code, files, history>>

-----------------------------------------------------------------------------
(* submit and authorize *)

\* The addresses are parsed and the request is built.
Submit(p) ==
    /\ Runs(p, "submit")
    /\ CASE call[p].form = "no json" -> Answer(p, "no json")
         [] call[p].form = "malformed" -> Answer(p, "error")
         [] OTHER -> /\ Goto(p, IF call[p].windowCheck THEN "checking" ELSE "submitting")
                     /\ UNCHANGED result
    /\ UNCHANGED <<process, progress, code, files, history, checks>>

IsValid(p) == call[p].form = "sound" /\ IsPdf(disk[call[p].document])

\* validate fails, or it is a dry run, which ends with the preview.
SubmitLocally(p) ==
    /\ pc[p] = "submitting"
    /\ ~IsValid(p) \/ ~config[p].live
    /\ Answer(p, IF IsValid(p) THEN "ok" ELSE "error")
    /\ UNCHANGED <<process, progress, code, files, history, checks>>

\* A prior attempt, an orphan, a lock; or an error before the upload.  The
\* job may have been asked about.
SubmitStops(p) ==
    /\ pc[p] = "submitting"
    /\ IsValid(p) /\ config[p].live
    /\ \E r \in {"refused", "error", "traceback"} : Answer(p, r)
    /\ wire' \in {wire, [wire EXCEPT ![p] = @ \cup {{"jobstatus"}}]}
    /\ UNCHANGED <<process, progress, code, files, shipped, before, edited, checks>>

\* client.submit_preauth reads the document and sends it.
SendSubmission(p) ==
    /\ pc[p] = "submitting"
    /\ IsValid(p) /\ config[p].live
    /\ shipped' = [shipped EXCEPT ![p] = [page |-> disk[call[p].document].page,
                                          coversheet |-> Coversheet(p)]]
    /\ Send(p, SubmissionFields)
    /\ Goto(p, "waiting")
    /\ UNCHANGED <<process, progress, result, code, files, before, edited, checks>>

\* The key has a proof already, or the proof is authorised: what is on record is
\* the answer, and nothing is sent.
AlreadyDone(p) ==
    /\ \/ /\ pc[p] = "submitting"
          /\ IsValid(p) /\ config[p].live
          /\ ledger # {}
       \/ /\ Runs(p, "authorize")
          /\ RequireLive(p)
          /\ call[p].proof \in ledger
    /\ Answer(p, "ok")
    /\ UNCHANGED <<process, progress, code, files, history, checks>>

\* An unknown proof, a mismatch, a ceiling, a lock; or an error before the
\* release is sent.
AuthorizeStops(p) ==
    /\ Runs(p, "authorize")
    /\ RequireLive(p)
    /\ \E r \in {"refused", "error", "traceback"} : Answer(p, r)
    /\ UNCHANGED <<process, progress, code, files, history, checks>>

SendRelease(p) ==
    /\ Runs(p, "authorize")
    /\ RequireLive(p)
    /\ call[p].proof \in ledger
    /\ Send(p, ReleaseFields)
    /\ Goto(p, "waiting")
    /\ UNCHANGED <<process, progress, result, code, files, shipped, before, edited, checks>>

\* put_proof of a submit.
PutProof(p) ==
    /\ call[p].command = "submit"
    /\ \E i \in ProofIds : ledger' = ledger \cup {i}

\* The answer of the gate after its request has gone out: done, with a proof on
\* record after a submit; an error; a ledger that times out or fails, before the
\* proof is on record or after it (complete_attempt).
GateAnswers(p) ==
    /\ pc[p] = "waiting"
    /\ \/ /\ Answer(p, "ok")
          /\ PutProof(p) \/ (call[p].command = "authorize" /\ UNCHANGED ledger)
       \/ /\ \E r \in {"error", "refused late", "traceback"} : Answer(p, r)
          /\ UNCHANGED ledger
       \/ /\ \E r \in {"refused late", "traceback"} : Answer(p, r)
          /\ PutProof(p)
    /\ UNCHANGED <<process, progress, code, disk, history, checks>>

-----------------------------------------------------------------------------
\* Somebody saves a document, new or over another file.
Edit ==
    /\ \E x \in Paths, f \in Documents : disk[x] # f /\ WriteFile(x, f)
    /\ UNCHANGED <<pc, process, progress, result, code, ledger, wire, shipped, before, checks>>

Step(p) ==
    \/ Start(p) \/ Load(p) \/ TakeCall(p) \/ Finish(p) \/ ServerStops(p) \/ Ends(p)
    \/ CheckConfig(p) \/ ListProofs(p) \/ GetProof(p) \/ LedgerFails(p)
    \/ DryRunRefuses(p) \/ Account(p) \/ RequestFails(p) \/ Reply(p)
    \/ StartLookups(p) \/ SkipCopy(p) \/ LookUp(p) \/ StoreProof(p) \/ LookUpFails(p)
    \/ LookupsEnd(p)
    \/ Preflight(p) \/ UploadPreflight(p) \/ Save(p) \/ Write(p) \/ SaveFails(p)
    \/ CheckWindows(p) \/ ReadPage(p) \/ ReadPageFails(p) \/ GroupWord(p)
    \/ ReportProblems(p) \/ EndCheck(p)
    \/ Submit(p) \/ SubmitLocally(p) \/ SubmitStops(p) \/ SendSubmission(p)
    \/ AuthorizeStops(p) \/ SendRelease(p) \/ GateAnswers(p)
    \/ AlreadyDone(p)

Next == (\E p \in Procs : Step(p)) \/ Edit

Spec == Init /\ [][Next]_vars
-----------------------------------------------------------------------------
(* What the program promises *)

LiveIsRecorded(s) ==
    \/ s.written["env"]["live"] = "on"
    \/ /\ s.written["env"]["live"] = "unset"
       /\ s.written["file"]["live"] = "on"

\* Nothing leaves the machine unless the operator wrote live mode down, in the
\* environment or the config file, before the process started; and whatever the
\* command, only authorize makes LetterStream mail and only submit makes it hold
\* a job (_require_live, submit's dry run, the fields Transport sends).
OnlyWhatWasAsked ==
    \A p \in Procs : \A r \in wire[p] :
        /\ LiveIsRecorded(launch[p].around)
        /\ Effect(r) = "mail" => call[p].command = "authorize"
        /\ Effect(r) = "hold" => call[p].command = "submit"

Judged == {"base_url", "timeout", "live", "ttl", "ceiling", "mail_type"}

\* The settings whose place load_config looks for in the ordinary way.
Ordinary == {"api_id", "api_key", "base_url", "ttl", "ceiling", "mail_type", "coversheet"}

Higher(place) ==
    CASE place = "args" -> {}
      [] place = "env" -> {"args"}
      [] place = "file" -> {"args", "env"}
      [] OTHER -> Places

\* What is read for a setting in a place when the config file is the one at path.
Read(s, path, place, setting) ==
    IF place = "file" /\ path = "none" THEN "unset" ELSE s.written[place][setting]

\* A setting comes from the highest place that is not blank.
ComesFromHighest(s, c, setting) ==
    LET place == c.from[setting]
    IN  /\ place # "default" => ~IsBlank(Read(s, c.path, place, setting))
        /\ \A q \in Higher(place) : IsBlank(Read(s, c.path, q, setting))

\* The config file is the one that was named first, and it was there.
IsTheNamedFile(s, path) ==
    /\ path # "none" => s.named[path] = "here"
    /\ s.named["args"] # "unset" => path = "args"
    /\ s.named["args"] = "unset" /\ s.named["env"] # "unset" => path = "env"

\* A program that starts acts for the account its operator named: it reads the
\* config file that was named first, which is there, and takes the credentials,
\* the base URL and every setting that is looked for in the ordinary way from
\* the highest place that is not blank; and no setting is one that cannot be used
\* (find_config_file, load_config).
AccountIsTheOneNamed ==
    \A p \in Procs : config[p] # None =>
        LET s == launch[p].around
            c == config[p]
        IN  /\ IsTheNamedFile(s, c.path)
            /\ {c.from["api_id"], c.from["api_key"]} \subseteq Places
            /\ \A setting \in Ordinary : ComesFromHighest(s, c, setting)
            /\ \A setting \in Judged :
                   c.from[setting] # "default" => Read(s, c.path, c.from[setting], setting) # "bad"

\* "Precedence for every value is" the arguments, the environment, the config
\* file, the default (load_config), and "a blank must mean \"not set\""
\* (_blank_to_none): every setting comes from the highest place that is not
\* blank.  There is no argument for live.
SettingsFollowPrecedence ==
    \A p \in Procs : config[p] # None =>
        \A setting \in Settings : ComesFromHighest(launch[p].around, config[p], setting)

\* A page that is submitted without a coversheet after a window check is safe
\* word by word, unless its file changed during the call: the coversheet may
\* come from the config file, the check takes many steps, and the document is
\* read again for the upload (letterstream_submit, check_windows,
\* submit_preauth).
SubmittedLayoutIsSafe ==
    \A p \in Procs :
        shipped[p] # None /\ call[p].windowCheck /\ shipped[p].coversheet \in {"N", "n"}
            => edited[p] \/ (shipped[p].page # None /\ SafePage(shipped[p].page))

\* A preflight never changes a file that was there when the call began, its own
\* document included, whoever else saves files meanwhile; it may replace one
\* that appears at its target during the upload (MailGate.preflight).
PreflightKeepsFiles ==
    [][\A p \in Procs : pc[p] \in {"saving", "writing"} /\ pc'[p] # pc[p] =>
           \A x \in before[p] : disk'[x] = disk[x]]_vars

\* A successful tracking or download speaks of every copy that has an id: one
\* failed lookup is never a shorter list (MailGate.tracking, download_proof_pdfs).
\* The print proofs are on the disk.
LookupsAreWhole ==
    \A p \in Procs :
        pc[p] = "answered" /\ result[p] = "ok"
        /\ call[p].command \in {"tracking", "download_proofs"}
            => /\ got[p] = PerDoc[call[p].proof] \ {NoId}
               /\ call[p].command = "download_proofs" =>
                      \A d \in got[p] : disk[ProofFile[d]] # Absent

\* What a caller may read from the exit status of a command (cli.main): 0 is
\* success, 2 is before anything was done, 3 is an error that is no refusal;
\* 1 is a refusal with nothing submitted or mailed, or else the late LockTimeout
\* of the ledger, an exception of Python or an argument that is no JSON.
ExitStatusIsTrue ==
    \A p \in Procs : pc[p] = "exited" /\ launch[p].kind = "cli" =>
        /\ code[p] = 0 <=> result[p] = "ok"
        /\ code[p] = 2 => wire[p] = {} /\ config[p] = None
        /\ code[p] = 3 => result[p] = "error"
        /\ code[p] = 1 =>
               \/ result[p] \in {"traceback", "refused late", "no json"}
               \/ \A r \in wire[p] : Effect(r) = "none"
=============================================================================
