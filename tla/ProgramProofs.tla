--------------------------- MODULE ProgramProofs ---------------------------
(***************************************************************************)
(* Proofs about Program, for all sets of processes, launches, calls,       *)
(* documents and pages.                                                    *)
(*                                                                         *)
(* The invariant says, process by process, what its locals tell while it   *)
(* is at each label.  Processes meet in the files only: a step of one can  *)
(* disturb another by writing a file, which neither removes one nor        *)
(* changes a document without a trace (Undisturbed).                       *)
(***************************************************************************)
EXTENDS Program, WindowsProofs

\* A process that runs was launched, and what it has loaded is its
\* configuration.
Launched(p) ==
    /\ pc[p] = "off" \/ launch[p] # None
    /\ pc[p] \in {"off", "loading"} => config[p] = None
    /\ config[p] # None =>
           /\ launch[p] # None
           /\ ConfigError(launch[p].around) = "none"
           /\ config[p] = LoadConfig(launch[p].around)
    /\ pc[p] = "ready" => launch[p].kind = "server" /\ config[p] # None
    /\ pc[p] = "loading" /\ launch[p].kind = "cli" => call[p] # None

\* Which calls reach a label.
Reaches(p, l) ==
    CASE l = "lookups" -> {"download_proofs", "tracking"}
      [] l = "storing" -> {"download_proofs"}
      [] l = "asking" -> {"account", "preflight"}
      [] l \in {"uploading", "saving", "writing"} -> {"preflight"}
      [] l = "checking" -> {"check_windows", "submit"}
      [] l = "submitting" -> {"submit"}
      [] l = "waiting" -> {"submit", "authorize"}
      [] OTHER -> Commands

Online == {"lookups", "storing", "asking", "uploading", "saving", "writing", "waiting"}
Inside == Online \cup {"dispatch", "checking", "submitting", "answered"}

\* A process in a call has one, and has a configuration unless it is the
\* command line and the call is check_windows.
Running(p) ==
    pc[p] \in Inside =>
        /\ call[p] # None
        /\ call[p].command \in Reaches(p, pc[p])
        /\ \/ config[p] # None
           \/ launch[p].kind = "cli" /\ call[p].command = "check_windows"
        /\ pc[p] = "dispatch" => config[p] # None
        /\ pc[p] \in Online => config[p].live

\* A call that has not ended has no result; a call that ended without an
\* answer is of a command that never ran.
Outcome(p) ==
    /\ pc[p] \in (Labels \ {"answered", "ready", "exited"}) => result[p] = "none"
    /\ pc[p] = "answered" => result[p] \notin {"none", "not configured"}
    /\ pc[p] = "exited" /\ launch[p].kind = "cli" =>
           \/ /\ result[p] \notin {"none", "not configured"}
              /\ code[p] = ExitStatus(result[p])
           \/ /\ result[p] = "not configured" /\ code[p] = 2
              /\ wire[p] = {} /\ config[p] = None

Requests(command) ==
    CASE command = "account" -> {{"accountstatus"}}
      [] command \in {"download_proofs", "tracking"} -> {{"doc_id"}}
      [] command = "preflight" -> {PreflightFields}
      [] command = "submit" -> {{"jobstatus"}, SubmissionFields}
      [] command = "authorize" -> {ReleaseFields}
      [] OTHER -> {}

\* What a call has sent, and what it has sent when it is refused.
Sent(p) ==
    /\ pc[p] \in {"loading", "dispatch", "checking", "submitting", "uploading"} => wire[p] = {}
    /\ wire[p] # {} => /\ config[p] # None /\ config[p].live
                       /\ call[p] # None /\ wire[p] \subseteq Requests(call[p].command)
    /\ result[p] = "refused" => wire[p] \subseteq {{"jobstatus"}}

\* The check is of the document, and a submission that shows through passed it.
Checked(p) ==
    LET f == disk[call[p].document]
    IN  /\ checks[p] = Idle \/ pc[p] = "checking"
        /\ pc[p] = "checking" /\ checks[p].at \in {"grouping", "done"} =>
               edited[p] \/ (f.kind = "pdf" /\ f.page = checks[p].page)
        /\ pc[p] = "submitting" /\ call[p].windowCheck /\ Coversheet(p) \in {"N", "n"} =>
               edited[p] \/ (f.kind = "pdf" /\ SafePage(f.page))
        /\ pc[p] \in (Labels \ {"waiting", "answered", "ready", "exited"}) => shipped[p] = None
        /\ shipped[p] # None =>
               /\ call[p] # None
               /\ call[p].windowCheck /\ shipped[p].coversheet \in {"N", "n"} =>
                      edited[p] \/ (shipped[p].page # None /\ SafePage(shipped[p].page))

\* The files there were are there, and a preflight's target is none of them.
Kept(p) ==
    /\ \A x \in before[p] : disk[x] # Absent
    /\ pc[p] \in {"uploading", "asking", "saving", "writing"} /\ call[p].command = "preflight"
           => call[p].out \notin before[p]

\* Every copy is looked up or still to do, but for the one that is being saved.
Looked(p) ==
    LET copies == PerDoc[call[p].proof] \ {NoId}
        known == got[p] \cup (todo[p] \ {NoId})
    IN  /\ pc[p] \in {"loading", "dispatch"} => got[p] = {}
        /\ pc[p] = "lookups" => known = copies
        /\ pc[p] = "storing" => \E d \in DocIds : copies = known \cup {d}
        /\ pc[p] = "answered" /\ result[p] = "ok"
           /\ call[p].command \in {"download_proofs", "tracking"} => got[p] = copies
        /\ pc[p] \in {"lookups", "storing", "answered"} /\ call[p].command = "download_proofs" =>
               \A d \in got[p] : disk[ProofFile[d]] # Absent

LocalInv(p) ==
    /\ Launched(p)
    /\ Running(p)
    /\ Outcome(p)
    /\ Sent(p)
    /\ Checked(p)
    /\ Kept(p)
    /\ Looked(p)

ProgramInv ==
    /\ TypeOK
    /\ CheckInv
    /\ \A p \in Procs : LocalInv(p)

-----------------------------------------------------------------------------
(* Configuration *)

LEMMA ConfigsAreTyped ==
    ASSUME NEW s \in Surroundings
    PROVE  LoadConfig(s) \in Configs
<1>1. \A place \in Places, setting \in Settings : Written(s, place, setting) \in Writings
  BY DEF Surroundings, Written, Writings, Places
<1>2. FindConfigFile(s) \in {"args", "env", "search", "none"}
  BY DEF FindConfigFile
<1>3. PlaceOf(s) \in [Settings -> Places \cup {"default"}]
  BY DEF PlaceOf, FirstNotBlank, StateDirPlace, TimeoutPlace, LivePlace, FileOnly, Places
<1>4. IsLive(s) \in BOOLEAN
  BY DEF IsLive
<1>5. Used(s, "coversheet") \in Writings
  BY <1>1, <1>3 DEF Used, Settings, Writings
<1>6. QED BY <1>2, <1>3, <1>4, <1>5 DEF LoadConfig, Configs

\* Live mode was written down where LoadConfig looks for it.
LEMMA LiveWasRecorded ==
    ASSUME NEW s \in Surroundings, IsLive(s)
    PROVE  LiveIsRecorded(s)
<1>1. PlaceOf(s)["live"] = LivePlace(s)
  BY DEF PlaceOf, Settings
<1>2. LivePlace(s) # "default" /\ Written(s, LivePlace(s), "live") = "on"
  BY <1>1 DEF IsLive, Used
<1>3. QED BY <1>2 DEF LivePlace, FileOnly, IsBlank, Written, LiveIsRecorded

LEMMA FileWasNamed ==
    ASSUME NEW s \in Surroundings, ConfigError(s) = "none"
    PROVE  IsTheNamedFile(s, FindConfigFile(s))
<1>1. ~FileIsUnusable(s)
  BY DEF ConfigError
<1>2. QED BY <1>1 DEF IsTheNamedFile, FileIsUnusable, FindConfigFile

LEMMA CredentialsAreSomewhere ==
    ASSUME NEW s \in Surroundings, ConfigError(s) = "none"
    PROVE  {PlaceOf(s)["api_id"], PlaceOf(s)["api_key"]} \subseteq Places
<1>1. \A c \in {"api_id", "api_key"} : PlaceOf(s)[c] # "default"
  BY DEF ConfigError
<1>2. QED BY <1>1 DEF PlaceOf, FirstNotBlank, Places, Settings

LEMMA JudgedAreUsable ==
    ASSUME NEW s \in Surroundings, ConfigError(s) = "none", NEW setting \in Judged
    PROVE  Used(s, setting) # "bad"
BY DEF ConfigError, Judged

\* What the three settings that are looked for in ways of their own need: no
\* blank variable for the timeout or the live switch, no blank --state-dir.
NoBlankHides(s) ==
    /\ s.written["env"]["timeout"] # "blank"
    /\ s.written["env"]["live"] # "blank"
    /\ s.written["args"]["state_dir"] # "blank"

LEMMA HighestPlaces ==
    ASSUME NEW s \in Surroundings, ConfigError(s) = "none", NEW setting \in Settings,
           setting \in Ordinary \/ NoBlankHides(s)
    PROVE  ComesFromHighest(s, LoadConfig(s), setting)
<1> DEFINE place == PlaceOf(s)[setting]
           path == FindConfigFile(s)
<1>1. \A q : Read(s, path, q, setting) = Written(s, q, setting)
  BY DEF Read, Written
<1>2. LoadConfig(s).from = PlaceOf(s) /\ LoadConfig(s).path = path
  BY DEF LoadConfig
<1>3. place # "default" => ~IsBlank(Written(s, place, setting))
  <2>1. CASE setting \in {"api_id", "api_key", "base_url"}
    BY <2>1 DEF PlaceOf, Settings, FirstNotBlank
  <2>2. CASE setting = "state_dir"
    BY <2>2 DEF PlaceOf, Settings, FirstNotBlank, StateDirPlace, Ordinary, NoBlankHides, Written,
                IsBlank
  <2>3. CASE setting = "timeout"
    BY <2>3 DEF PlaceOf, Settings, TimeoutPlace, FileOnly, IsBlank, Written, Surroundings
  <2>4. CASE setting \in {"ttl", "ceiling", "mail_type", "coversheet"}
    BY <2>4 DEF PlaceOf, Settings, FileOnly
  <2>5. CASE setting = "live"
    BY <2>5 DEF PlaceOf, Settings, LivePlace, FileOnly, IsBlank, Written
  <2>6. QED BY <2>1, <2>2, <2>3, <2>4, <2>5 DEF Settings
<1>4. ASSUME NEW q \in Higher(place) PROVE IsBlank(Written(s, q, setting))
  <2>1. CASE setting \in {"api_id", "api_key", "base_url"}
    BY <2>1 DEF PlaceOf, Settings, FirstNotBlank, Higher, Places
  <2>2. CASE setting = "state_dir"
    BY <2>2 DEF PlaceOf, Settings, FirstNotBlank, StateDirPlace, Higher, Places, IsBlank
  <2>3. CASE setting = "timeout"
    BY <2>3 DEF PlaceOf, Settings, TimeoutPlace, FileOnly, Higher, Places, IsBlank, Written,
                Ordinary, NoBlankHides
  <2>4. CASE setting \in {"ttl", "ceiling", "mail_type", "coversheet"}
    BY <2>4 DEF PlaceOf, Settings, FileOnly, Higher, Places, IsBlank, Written, Surroundings,
               InTheFileOnly
  <2>5. CASE setting = "live"
    BY <2>5 DEF PlaceOf, Settings, LivePlace, FileOnly, Higher, Places, IsBlank, Written,
                Surroundings, Ordinary, NoBlankHides
  <2>6. QED BY <2>1, <2>2, <2>3, <2>4, <2>5 DEF Settings
<1>5. QED BY <1>1, <1>2, <1>3, <1>4 DEF ComesFromHighest

-----------------------------------------------------------------------------
(* Types *)

LEMMA AnswerTypes ==
    ASSUME TypeOK, NEW p \in Procs, NEW r \in Results, Answer(p, r)
    PROVE  pc' \in [Procs -> Labels] /\ result' \in [Procs -> Results]
BY DEF TypeOK, Answer, Goto, Labels

LEMMA GotoTypes ==
    ASSUME TypeOK, NEW p \in Procs, NEW l \in Labels, Goto(p, l)
    PROVE  pc' \in [Procs -> Labels]
BY DEF TypeOK, Goto

LEMMA ExitTypes ==
    ASSUME TypeOK, NEW p \in Procs, NEW c \in 0 .. 3, Exit(p, c)
    PROVE  pc' \in [Procs -> Labels] /\ code' \in [Procs -> 0 .. 3]
BY DEF TypeOK, Exit, Goto, Labels

LEMMA SendTypes ==
    ASSUME TypeOK, NEW p \in Procs, NEW fields \in SUBSET Fields, Send(p, fields)
    PROVE  wire' \in [Procs -> SUBSET (SUBSET Fields)]
BY DEF TypeOK, Send

LEMMA RequestsAreTyped ==
    /\ {"accountstatus"} \in SUBSET Fields /\ {"jobstatus"} \in SUBSET Fields
    /\ {"doc_id"} \in SUBSET Fields /\ SubmissionFields \in SUBSET Fields
    /\ ReleaseFields \in SUBSET Fields /\ PreflightFields \in SUBSET Fields
BY DEF Fields, SubmissionFields, ReleaseFields, PreflightFields

LEMMA WriteTypes ==
    ASSUME TypeOK, NEW x \in Paths, NEW f \in File, WriteFile(x, f)
    PROVE  disk' \in [Paths -> File] /\ edited' \in [Procs -> BOOLEAN]
<1>1. disk' \in [Paths -> File]
  BY DEF TypeOK, WriteFile
<1>2. edited' \in [Procs -> BOOLEAN]
  BY DEF TypeOK, WriteFile
<1>3. QED BY <1>1, <1>2

LEMMA FilesAreTyped ==
    /\ NoPdf \in File /\ NoPdf # Absent
    /\ \A f \in Prints \cup Documents : f \in File /\ f # Absent
BY ProgramAssumption DEF File, NoPdf, Absent

LEMMA FreshTypes ==
    ASSUME TypeOK, NEW p \in Procs, NEW c \in Call \cup {None}, NEW present \in SUBSET Paths,
           Fresh(p, c, present)
    PROVE  /\ call' \in [Procs -> Call \cup {None}]
           /\ todo' \in [Procs -> SUBSET (DocIds \cup {NoId})]
           /\ got' \in [Procs -> SUBSET DocIds]
           /\ result' \in [Procs -> Results]
           /\ wire' \in [Procs -> SUBSET (SUBSET Fields)]
           /\ shipped' \in [Procs -> Submission \cup {None}]
           /\ before' \in [Procs -> SUBSET Paths]
           /\ edited' \in [Procs -> BOOLEAN]
<1>1. /\ call' \in [Procs -> Call \cup {None}]
      /\ result' \in [Procs -> Results]
      /\ shipped' \in [Procs -> Submission \cup {None}]
  BY DEF TypeOK, Fresh, Results
<1>2. /\ todo' \in [Procs -> SUBSET (DocIds \cup {NoId})]
      /\ got' \in [Procs -> SUBSET DocIds]
  BY DEF TypeOK, Fresh
<1>3. wire' \in [Procs -> SUBSET (SUBSET Fields)]
  BY DEF TypeOK, Fresh
<1>4. before' \in [Procs -> SUBSET Paths] /\ edited' \in [Procs -> BOOLEAN]
  BY DEF TypeOK, Fresh
<1>5. QED BY <1>1, <1>2, <1>3, <1>4

LEMMA LaunchesAreTyped ==
    ASSUME NEW p \in Procs, NEW l \in Launches[p]
    PROVE  /\ l \in Launch
           /\ l.around \in Surroundings
           /\ l.call \in Call \cup {None}
           /\ l.kind = "cli" => l.call # None
<1>1. l \in {k \in Launch : k.kind = "cli" => k.call # None}
  BY ProgramAssumption
<1>2. QED BY <1>1 DEF Launch

LEMMA NonesAreApart ==
    /\ \A l \in Launch : l # None
    /\ \A c \in Call : c # None
    /\ \A c \in Configs : c # None
    /\ None \notin Pages /\ NoId \notin DocIds
BY ProgramAssumption, WindowsAssumption

LEMMA StepTypes ==
    ASSUME ProgramInv, CheckInv', NEW p \in Procs, Step(p)
    PROVE  TypeOK'
<1> USE DEF process, progress, files, history
<1>0. TypeOK /\ ChecksTypeOK' /\ LocalInv(p)
  BY DEF ProgramInv, CheckInv
<1>1. CASE Start(p)
  <2>1. PICK l \in Launches[p] :
            /\ launch' = [launch EXCEPT ![p] = l]
            /\ BeginCall(p, l.call)
            /\ Goto(p, IF l.kind = "cli" /\ l.call.command = "check_windows"
                       THEN "checking" ELSE "loading")
    BY <1>1 DEF Start
  <2>2. launch' \in [Procs -> Launch \cup {None}]
    BY <1>0, <2>1, LaunchesAreTyped DEF TypeOK
  <2>3. pc' \in [Procs -> Labels]
    BY <1>0, <2>1 DEF TypeOK, Goto, Labels
  <2>4. Fresh(p, l.call, {x \in Paths : disk[x] # Absent})
    BY <2>1 DEF BeginCall
  <2>5. l.call \in Call \cup {None}
    BY <2>1, LaunchesAreTyped
  <2>6. QED BY <1>0, <1>1, <2>2, <2>3, <2>4, <2>5, FreshTypes DEF TypeOK, Start
<1>2. CASE Load(p)
  <2>1. launch[p] \in Launch
    BY <1>0, <1>2 DEF LocalInv, Launched, Load, TypeOK
  <2>2. LoadConfig(launch[p].around) \in Configs
    BY <2>1, ConfigsAreTyped DEF Launch
  <2>3. config' \in [Procs -> Configs \cup {None}]
    BY <1>0, <1>2, <2>2 DEF TypeOK, Load
  <2>4. pc' \in [Procs -> Labels] /\ code' \in [Procs -> 0 .. 3]
    <3>1. \/ /\ Goto(p, IF launch[p].kind = "cli" THEN "dispatch" ELSE "ready")
             /\ UNCHANGED code
          \/ Exit(p, 1)
          \/ Exit(p, 2)
      BY <1>2 DEF Load
    <3>2. QED BY <1>0, <3>1, ExitTypes, GotoTypes DEF TypeOK, Labels
  <2>5. result' \in [Procs -> Results]
    BY <1>0, <1>2 DEF TypeOK, Load, Results
  <2>6. QED BY <1>0, <1>2, <2>3, <2>4, <2>5 DEF TypeOK, Load
<1>3. CASE TakeCall(p)
  <2>1. PICK c \in Calls : BeginCall(p, c)
    BY <1>3 DEF TakeCall
  <2>2. c \in Call /\ Fresh(p, c, {x \in Paths : disk[x] # Absent})
    BY <2>1, ProgramAssumption DEF BeginCall
  <2>3. pc' \in [Procs -> Labels]
    BY <1>0, <1>3 DEF TypeOK, TakeCall, Goto, Labels
  <2>4. QED BY <1>0, <1>3, <2>2, <2>3, FreshTypes DEF TypeOK, TakeCall
<1>4. CASE Finish(p)
  <2>1. pc' \in [Procs -> Labels] /\ code' \in [Procs -> 0 .. 3]
    <3>1. ExitStatus(result[p]) \in 0 .. 3
      BY DEF ExitStatus
    <3>2. QED BY <1>0, <1>4, <3>1, ExitTypes, GotoTypes DEF TypeOK, Finish, Labels
  <2>2. QED BY <1>0, <1>4, <2>1 DEF TypeOK, Finish
<1>5. CASE ServerStops(p)
  BY <1>0, <1>5, ExitTypes DEF ServerStops, TypeOK
<1>6. CASE Ends(p)
  <2>1. /\ launch' \in [Procs -> Launch \cup {None}] /\ config' \in [Procs -> Configs \cup {None}]
        /\ pc' \in [Procs -> Labels] /\ code' \in [Procs -> 0 .. 3]
    BY <1>0, <1>6 DEF TypeOK, Ends, Goto, Labels
  <2>2. Fresh(p, None, {})
    BY <1>6 DEF Ends
  <2>3. QED BY <1>0, <1>6, <2>1, <2>2, FreshTypes DEF TypeOK, Ends
<1>7. CASE CheckConfig(p)
  BY <1>0, <1>7 DEF CheckConfig, Answer, Goto, Runs, TypeOK, Labels, Results
<1>8. CASE ListProofs(p)
  BY <1>0, <1>8 DEF ListProofs, Answer, Goto, Runs, TypeOK, Labels, Results
<1>9. CASE GetProof(p)
  BY <1>0, <1>9 DEF GetProof, Answer, Goto, Runs, TypeOK, Labels, Results
<1>10. CASE LedgerFails(p)
  BY <1>0, <1>10, AnswerTypes DEF LedgerFails, TypeOK, Results
<1>11. CASE DryRunRefuses(p)
  BY <1>0, <1>11 DEF DryRunRefuses, Answer, Goto, TypeOK, Labels, Results
<1>12. CASE Account(p)
  BY <1>0, <1>12, SendTypes, RequestsAreTyped, GotoTypes DEF Account, TypeOK, Labels
<1>13. CASE Reply(p)
  BY <1>0, <1>13 DEF Reply, Answer, Goto, TypeOK, Labels, Results
<1>14. CASE StartLookups(p)
  <2>1. call[p].proof \in ProofIds
    BY <1>0, <1>14 DEF LocalInv, Running, Inside, StartLookups, TypeOK, Call
  <2>2. todo' \in [Procs -> SUBSET (DocIds \cup {NoId})]
    <3>1. PerDoc[call[p].proof] \in SUBSET (DocIds \cup {NoId})
      BY <2>1, ProgramAssumption
    <3>2. QED BY <1>0, <1>14, <3>1 DEF TypeOK, StartLookups
  <2>3. pc' \in [Procs -> Labels] /\ result' \in [Procs -> Results]
    BY <1>0, <1>14, AnswerTypes, GotoTypes DEF TypeOK, StartLookups, Labels, Results
  <2>4. QED BY <1>0, <1>14, <2>2, <2>3 DEF TypeOK, StartLookups
<1>15. CASE SkipCopy(p)
  BY <1>0, <1>15 DEF SkipCopy, TypeOK, Labels, Results
<1>16. CASE LookUp(p)
  <2>1. PICK d \in todo[p] \ {NoId} :
            /\ todo' = [todo EXCEPT ![p] = @ \ {d}]
            /\ \/ /\ got' = [got EXCEPT ![p] = @ \cup {d}]
                  /\ UNCHANGED <<pc, disk, edited>>
               \/ /\ WriteFile(ProofFile[d], NoPdf)
                  /\ Goto(p, "storing")
                  /\ UNCHANGED got
    BY <1>16 DEF LookUp
  <2>2. d \in DocIds
    BY <1>0, <2>1 DEF TypeOK
  <2>3. /\ todo' \in [Procs -> SUBSET (DocIds \cup {NoId})]
        /\ got' \in [Procs -> SUBSET DocIds]
        /\ pc' \in [Procs -> Labels]
    BY <1>0, <2>1, <2>2, GotoTypes DEF TypeOK, Labels
  <2>4. disk' \in [Paths -> File] /\ edited' \in [Procs -> BOOLEAN]
    <3>1. ProofFile[d] \in Paths
      BY <2>2, ProgramAssumption
    <3>2. QED BY <1>0, <2>1, <3>1, WriteTypes, FilesAreTyped DEF TypeOK
  <2>5. wire' \in [Procs -> SUBSET (SUBSET Fields)]
    BY <1>0, <1>16, SendTypes, RequestsAreTyped DEF LookUp
  <2>6. QED BY <1>0, <1>16, <2>3, <2>4, <2>5 DEF LookUp, TypeOK
<1>17. CASE LookUpFails(p)
  <2>1. wire' \in [Procs -> SUBSET (SUBSET Fields)]
    BY <1>0, <1>17, SendTypes, RequestsAreTyped DEF LookUpFails, TypeOK
  <2>2. QED BY <1>0, <1>17, <2>1, AnswerTypes DEF LookUpFails, TypeOK, Results
<1>18. CASE LookupsEnd(p)
  BY <1>0, <1>18 DEF LookupsEnd, Answer, Goto, TypeOK, Labels, Results
<1>19. CASE Preflight(p)
  BY <1>0, <1>19 DEF Preflight, Answer, Goto, Runs, TypeOK, Labels, Results
<1>20. CASE UploadPreflight(p)
  BY <1>0, <1>20, SendTypes, RequestsAreTyped, GotoTypes DEF UploadPreflight, TypeOK, Labels
<1>21. CASE Save(p)
  <2>1. call[p].out \in Paths
    BY <1>0, <1>21 DEF LocalInv, Running, Inside, Online, Save, TypeOK, Call
  <2>2. disk' \in [Paths -> File] /\ edited' \in [Procs -> BOOLEAN]
    BY <1>0, <1>21, <2>1, WriteTypes, FilesAreTyped DEF Save
  <2>3. pc' \in [Procs -> Labels]
    BY <1>0, <1>21, GotoTypes DEF Save, Labels
  <2>4. QED BY <1>0, <1>21, <2>2, <2>3 DEF Save, TypeOK
<1>22. CASE Write(p)
  <2>1. call[p].out \in Paths
    BY <1>0, <1>22 DEF LocalInv, Running, Inside, Online, Write, TypeOK, Call
  <2>2. disk' \in [Paths -> File] /\ edited' \in [Procs -> BOOLEAN]
    BY <1>0, <1>22, <2>1, WriteTypes, FilesAreTyped DEF Write
  <2>3. pc' \in [Procs -> Labels] /\ result' \in [Procs -> Results]
    BY <1>0, <1>22, AnswerTypes DEF Write, Results
  <2>4. QED BY <1>0, <1>22, <2>2, <2>3 DEF Write, TypeOK
<1>23. CASE SaveFails(p)
  BY <1>0, <1>23 DEF SaveFails, Answer, Goto, TypeOK, Labels, Results
<1>24. CASE CheckWindows(p)
  BY <1>0, <1>24 DEF CheckWindows, Goto, Runs, TypeOK, Labels, Results
<1>25. CASE ReadPage(p)
  BY <1>0, <1>25 DEF ReadPage, OpenPage, TypeOK, Labels, Results
<1>26. CASE ReadPageFails(p)
  BY <1>0, <1>26, AnswerTypes DEF ReadPageFails, TypeOK, Results
<1>27. CASE GroupWord(p)
  BY <1>0, <1>27 DEF GroupWord, NextWord, TypeOK, Labels, Results
<1>28. CASE ReportProblems(p)
  BY <1>0, <1>28 DEF ReportProblems, Report, TypeOK, Labels, Results
<1>29. CASE EndCheck(p)
  BY <1>0, <1>29 DEF EndCheck, Leave, Answer, Goto, TypeOK, Labels, Results
<1>30. CASE Submit(p)
  BY <1>0, <1>30 DEF Submit, Answer, Goto, Runs, TypeOK, Labels, Results
<1>31. CASE SubmitLocally(p)
  BY <1>0, <1>31 DEF SubmitLocally, Answer, Goto, TypeOK, Labels, Results
<1>32. CASE SubmitStops(p)
  <2>1. pc' \in [Procs -> Labels] /\ result' \in [Procs -> Results]
    BY <1>0, <1>32, AnswerTypes DEF SubmitStops, Results
  <2>2. wire' \in [Procs -> SUBSET (SUBSET Fields)]
    BY <1>0, <1>32, RequestsAreTyped DEF SubmitStops, TypeOK
  <2>3. QED BY <1>0, <1>32, <2>1, <2>2 DEF SubmitStops, TypeOK
<1>33. CASE SendSubmission(p)
  <2>1. call[p] \in Call /\ config[p] \in Configs
    BY <1>0, <1>33 DEF LocalInv, Running, Inside, Reaches, SendSubmission, TypeOK
  <2>2. Coversheet(p) \in Writings \cup {"Y", "n"}
    BY <2>1 DEF Coversheet, Call, Configs, Writings
  <2>3. disk[call[p].document].page \in Pages \cup {None}
    BY <1>0, <2>1 DEF TypeOK, File, Call
  <2>4. shipped' \in [Procs -> Submission \cup {None}]
    BY <1>0, <1>33, <2>2, <2>3 DEF SendSubmission, Submission, TypeOK
  <2>5. pc' \in [Procs -> Labels] /\ wire' \in [Procs -> SUBSET (SUBSET Fields)]
    BY <1>0, <1>33, SendTypes, RequestsAreTyped, GotoTypes DEF SendSubmission, Labels
  <2>6. QED BY <1>0, <1>33, <2>4, <2>5 DEF SendSubmission, TypeOK
<1>34. CASE AuthorizeStops(p)
  BY <1>0, <1>34, AnswerTypes DEF AuthorizeStops, TypeOK, Results
<1>35. CASE SendRelease(p)
  BY <1>0, <1>35, SendTypes, RequestsAreTyped, GotoTypes DEF SendRelease, TypeOK, Labels
<1>36. CASE GateAnswers(p)
  <2>1. pc' \in [Procs -> Labels] /\ result' \in [Procs -> Results]
    BY <1>0, <1>36, AnswerTypes DEF GateAnswers, Results
  <2>2. ledger' \in SUBSET ProofIds
    BY <1>0, <1>36 DEF GateAnswers, PutProof, TypeOK
  <2>3. QED BY <1>0, <1>36, <2>1, <2>2 DEF GateAnswers, TypeOK
<1>37. CASE AlreadyDone(p)
  BY <1>0, <1>37, AnswerTypes DEF AlreadyDone, TypeOK, Results
<1>38. CASE RequestFails(p)
  BY <1>0, <1>38, AnswerTypes DEF RequestFails, TypeOK, Results
<1>39. CASE StoreProof(p)
  <2>1. PICK d \in PerDoc[call[p].proof] \ (todo[p] \cup got[p] \cup {NoId}) :
            /\ \E f \in Prints : WriteFile(ProofFile[d], f)
            /\ got' = [got EXCEPT ![p] = @ \cup {d}]
    BY <1>39 DEF StoreProof
  <2>2. d \in DocIds
    <3>1. call[p].proof \in ProofIds
      BY <1>0, <1>39 DEF LocalInv, Running, Inside, Online, StoreProof, TypeOK, Call
    <3>2. QED BY <2>1, <3>1, ProgramAssumption
  <2>3. got' \in [Procs -> SUBSET DocIds]
    BY <1>0, <2>1, <2>2 DEF TypeOK
  <2>4. disk' \in [Paths -> File] /\ edited' \in [Procs -> BOOLEAN]
    <3>1. ProofFile[d] \in Paths
      BY <2>2, ProgramAssumption
    <3>2. QED BY <1>0, <2>1, <3>1, WriteTypes, FilesAreTyped
  <2>5. pc' \in [Procs -> Labels]
    BY <1>0, <1>39, GotoTypes DEF StoreProof, Labels
  <2>6. QED BY <1>0, <1>39, <2>3, <2>4, <2>5 DEF StoreProof, TypeOK
<1>40. QED
  BY <1>1, <1>2, <1>3, <1>4, <1>5, <1>6, <1>7, <1>8, <1>9, <1>10, <1>11, <1>12, <1>13,
       <1>14, <1>15, <1>16, <1>17, <1>18, <1>19, <1>20, <1>21, <1>22, <1>23, <1>24,
       <1>25, <1>26, <1>27, <1>28, <1>29, <1>30, <1>31, <1>32, <1>33, <1>34, <1>35,
       <1>36, <1>37, <1>38,
     <1>39 DEF Step

LEMMA EditTypes ==
    ASSUME ProgramInv, Edit
    PROVE  TypeOK'
<1> USE DEF process, progress, files, history
<1>1. TypeOK /\ ChecksTypeOK
  BY DEF ProgramInv, CheckInv
<1>2. PICK x \in Paths, f \in Documents : WriteFile(x, f)
  BY DEF Edit
<1>3. disk' \in [Paths -> File] /\ edited' \in [Procs -> BOOLEAN]
  BY <1>1, <1>2, WriteTypes, FilesAreTyped
<1>4. QED BY <1>1, <1>3 DEF Edit, TypeOK, ChecksTypeOK

-----------------------------------------------------------------------------
(* The window check of a process takes a step of Windows, or none *)

LEMMA StepChecks ==
    ASSUME ProgramInv, NEW p \in Procs, Step(p)
    PROVE  CheckInv'
<1>1. CheckInv /\ TypeOK /\ LocalInv(p)
  BY DEF ProgramInv
<1>2. CASE ReadPage(p)
  <2>1. call[p] \in Call
    BY <1>1, <1>2 DEF ReadPage, LocalInv, Running, Inside, TypeOK
  <2>2. disk[call[p].document].page \in Pages /\ OpenPage(p, disk[call[p].document].page)
    BY <1>1, <1>2, <2>1 DEF ReadPage, TypeOK, File, Call
  <2>3. QED BY <1>1, <2>2, CheckSteps
<1>3. CASE GroupWord(p)
  BY <1>1, <1>3, CheckSteps DEF GroupWord
<1>4. CASE ReportProblems(p)
  BY <1>1, <1>4, CheckSteps DEF ReportProblems
<1>5. CASE EndCheck(p)
  BY <1>1, <1>5, CheckSteps DEF EndCheck, Leave
<1>6. CASE Ends(p)
  BY <1>1, <1>6, CheckSteps DEF Ends
<1>7. ASSUME UNCHANGED checks PROVE CheckInv'
  BY <1>1, <1>7, CheckSteps
<1>8. ASSUME \/ Start(p) \/ Load(p) \/ TakeCall(p) \/ Finish(p)
         \/ ServerStops(p) \/ CheckConfig(p) \/ ListProofs(p) \/ GetProof(p)
         \/ LedgerFails(p) \/ DryRunRefuses(p) \/ Account(p) \/ Reply(p)
         \/ StartLookups(p) \/ SkipCopy(p) \/ LookUp(p) \/ LookUpFails(p)
      PROVE  UNCHANGED checks
  BY <1>8 DEF Start, Load, TakeCall, Finish, ServerStops, CheckConfig, ListProofs,
       GetProof, LedgerFails, DryRunRefuses, Account, Reply, StartLookups, SkipCopy,
       LookUp, LookUpFails
<1>9. ASSUME \/ LookupsEnd(p) \/ Preflight(p) \/ UploadPreflight(p) \/ Save(p)
         \/ Write(p) \/ SaveFails(p) \/ CheckWindows(p) \/ ReadPageFails(p)
         \/ Submit(p) \/ SubmitLocally(p) \/ SubmitStops(p) \/ SendSubmission(p)
         \/ AuthorizeStops(p) \/ SendRelease(p) \/ GateAnswers(p)
         \/ AlreadyDone(p) \/ RequestFails(p) \/ StoreProof(p)
      PROVE  UNCHANGED checks
  BY <1>9 DEF RequestFails, StoreProof, LookupsEnd, Preflight, UploadPreflight, Save,
       Write, SaveFails, CheckWindows, ReadPageFails, Submit, SubmitLocally,
       SubmitStops, SendSubmission, AuthorizeStops, SendRelease, GateAnswers,
       AlreadyDone
<1>10. QED BY <1>2, <1>3, <1>4, <1>5, <1>6, <1>7, <1>8, <1>9 DEF Step

-----------------------------------------------------------------------------
(* What a step leaves alone *)

\* Nothing of process q changes ...
Unaffected(q) ==
    /\ pc'[q] = pc[q] /\ launch'[q] = launch[q] /\ config'[q] = config[q]
    /\ call'[q] = call[q] /\ todo'[q] = todo[q] /\ got'[q] = got[q]
    /\ result'[q] = result[q] /\ code'[q] = code[q] /\ wire'[q] = wire[q]
    /\ shipped'[q] = shipped[q] /\ before'[q] = before[q] /\ checks'[q] = checks[q]

\* ... and no file vanishes, nor does its document change unnoticed.
Undisturbed(q) ==
    /\ edited[q] => edited'[q]
    /\ \A x \in Paths : disk[x] # Absent => disk'[x] # Absent
    /\ call[q] # None => edited'[q] \/ disk'[call[q].document] = disk[call[q].document]

LEMMA WritesAreSeen ==
    ASSUME TypeOK, NEW q \in Procs, NEW x \in Paths, NEW f \in File, f # Absent, WriteFile(x, f)
    PROVE  Undisturbed(q)
<1>1. \A y \in Paths : disk'[y] = IF y = x THEN f ELSE disk[y]
  BY DEF WriteFile, TypeOK
<1>2. edited'[q] = (edited[q] \/ (call[q] # None /\ call[q].document = x))
  BY DEF WriteFile
<1>3. call[q] # None => call[q].document \in Paths
  BY DEF TypeOK, Call
<1>4. QED BY <1>1, <1>2, <1>3 DEF Undisturbed

LEMMA NothingWritten ==
    ASSUME NEW q \in Procs, disk' = disk, edited'[q] = edited[q]
    PROVE  Undisturbed(q)
BY DEF Undisturbed

LEMMA OthersUnaffected ==
    ASSUME ProgramInv, NEW p \in Procs, NEW q \in Procs, q # p, Step(p)
    PROVE  Unaffected(q) /\ Undisturbed(q)
<1> USE DEF process, progress, files, history
<1>0. TypeOK /\ ChecksTypeOK /\ LocalInv(p)
  BY DEF ProgramInv, CheckInv
<1>1. CASE Start(p)
  BY <1>0, <1>1, NothingWritten DEF Unaffected, TypeOK, ChecksTypeOK, Start, BeginCall, Fresh, Goto
<1>2. CASE Load(p)
  <2>1. UNCHANGED <<launch, call, todo, got, wire, shipped, before, edited, disk, checks>>
    BY <1>2 DEF Load
  <2>2. /\ \/ config' = [config EXCEPT ![p] = LoadConfig(launch[p].around)]
           \/ UNCHANGED config
        /\ \/ UNCHANGED result
           \/ result' = [result EXCEPT ![p] = "traceback"]
           \/ result' = [result EXCEPT ![p] = "not configured"]
    BY <1>2 DEF Load
  <2>3. \/ /\ Goto(p, IF launch[p].kind = "cli" THEN "dispatch" ELSE "ready")
           /\ UNCHANGED code
        \/ Exit(p, 1)
        \/ Exit(p, 2)
    BY <1>2 DEF Load
  <2>4. pc'[q] = pc[q] /\ code'[q] = code[q]
    BY <1>0, <2>3 DEF TypeOK, Goto, Exit
  <2>5. config'[q] = config[q] /\ result'[q] = result[q]
    BY <1>0, <2>2 DEF TypeOK
  <2>6. QED BY <2>1, <2>4, <2>5, NothingWritten DEF Unaffected
<1>3. CASE TakeCall(p)
  BY <1>0, <1>3, NothingWritten DEF Unaffected, TypeOK, ChecksTypeOK, TakeCall,
       BeginCall, Fresh, Goto
<1>4. CASE Finish(p)
  BY <1>0, <1>4, NothingWritten DEF Unaffected, TypeOK, ChecksTypeOK, Finish, Exit, Goto, ExitStatus
<1>5. CASE ServerStops(p)
  BY <1>0, <1>5, NothingWritten DEF Unaffected, TypeOK, ChecksTypeOK, ServerStops, Exit, Goto
<1>6. CASE Ends(p)
  BY <1>0, <1>6, NothingWritten DEF Unaffected, TypeOK, ChecksTypeOK, Ends, Fresh, Goto
<1>7. CASE CheckConfig(p)
  BY <1>0, <1>7, NothingWritten DEF Unaffected, TypeOK, ChecksTypeOK, CheckConfig,
       Answer, Goto, Runs
<1>8. CASE ListProofs(p)
  BY <1>0, <1>8, NothingWritten DEF Unaffected, TypeOK, ChecksTypeOK, ListProofs, Answer, Goto, Runs
<1>9. CASE GetProof(p)
  BY <1>0, <1>9, NothingWritten DEF Unaffected, TypeOK, ChecksTypeOK, GetProof, Answer, Goto, Runs
<1>10. CASE LedgerFails(p)
  BY <1>0, <1>10, NothingWritten DEF Unaffected, TypeOK, ChecksTypeOK, LedgerFails, Answer, Goto
<1>11. CASE DryRunRefuses(p)
  BY <1>0, <1>11, NothingWritten DEF Unaffected, TypeOK, ChecksTypeOK, DryRunRefuses, Answer, Goto
<1>12. CASE Account(p)
  BY <1>0, <1>12, NothingWritten DEF Unaffected, TypeOK, ChecksTypeOK, Account, Send, Goto, Runs
<1>13. CASE Reply(p)
  BY <1>0, <1>13, NothingWritten DEF Unaffected, TypeOK, ChecksTypeOK, Reply, Answer, Goto
<1>14. CASE StartLookups(p)
  BY <1>0, <1>14, NothingWritten DEF Unaffected, TypeOK, ChecksTypeOK, StartLookups, Answer, Goto
<1>15. CASE SkipCopy(p)
  BY <1>0, <1>15, NothingWritten DEF Unaffected, TypeOK, ChecksTypeOK, SkipCopy
<1>16. CASE LookUp(p)
  <2>1. Unaffected(q)
    BY <1>0, <1>16 DEF Unaffected, TypeOK, ChecksTypeOK, LookUp, Send, WriteFile, Goto
  <2>2. PICK d \in todo[p] \ {NoId} :
            WriteFile(ProofFile[d], NoPdf) \/ UNCHANGED <<disk, edited>>
    BY <1>16 DEF LookUp
  <2>3. ProofFile[d] \in Paths
    BY <1>0, <2>2, ProgramAssumption DEF TypeOK
  <2>4. Undisturbed(q)
    BY <1>0, <2>2, <2>3, WritesAreSeen, NothingWritten, FilesAreTyped
  <2>5. QED BY <2>1, <2>4
<1>17. CASE LookUpFails(p)
  BY <1>0, <1>17, NothingWritten DEF Unaffected, TypeOK, ChecksTypeOK, LookUpFails,
       Send, Answer, Goto
<1>18. CASE LookupsEnd(p)
  BY <1>0, <1>18, NothingWritten DEF Unaffected, TypeOK, ChecksTypeOK, LookupsEnd, Answer, Goto
<1>19. CASE Preflight(p)
  BY <1>0, <1>19, NothingWritten DEF Unaffected, TypeOK, ChecksTypeOK, Preflight, Answer, Goto, Runs
<1>20. CASE UploadPreflight(p)
  BY <1>0, <1>20, NothingWritten DEF Unaffected, TypeOK, ChecksTypeOK, UploadPreflight, Send, Goto
<1>21. CASE Save(p)
  <2>1. Unaffected(q)
    BY <1>0, <1>21 DEF Unaffected, TypeOK, ChecksTypeOK, Save, WriteFile, Goto
  <2>2. call[p].out \in Paths
    BY <1>0, <1>21 DEF LocalInv, Running, Inside, Online, Save, TypeOK, Call
  <2>3. Undisturbed(q)
    BY <1>0, <1>21, <2>2, WritesAreSeen, FilesAreTyped DEF Save
  <2>4. QED BY <2>1, <2>3
<1>22. CASE Write(p)
  <2>1. Unaffected(q)
    BY <1>0, <1>22 DEF Unaffected, TypeOK, ChecksTypeOK, Write, WriteFile, Answer, Goto
  <2>2. call[p].out \in Paths
    BY <1>0, <1>22 DEF LocalInv, Running, Inside, Online, Write, TypeOK, Call
  <2>3. Undisturbed(q)
    BY <1>0, <1>22, <2>2, WritesAreSeen, FilesAreTyped DEF Write
  <2>4. QED BY <2>1, <2>3
<1>23. CASE SaveFails(p)
  BY <1>0, <1>23, NothingWritten DEF Unaffected, TypeOK, ChecksTypeOK, SaveFails, Answer, Goto
<1>24. CASE CheckWindows(p)
  BY <1>0, <1>24, NothingWritten DEF Unaffected, TypeOK, ChecksTypeOK, CheckWindows, Goto, Runs
<1>25. CASE ReadPage(p)
  BY <1>0, <1>25, NothingWritten DEF Unaffected, TypeOK, ChecksTypeOK, ReadPage, OpenPage
<1>26. CASE ReadPageFails(p)
  BY <1>0, <1>26, NothingWritten DEF Unaffected, TypeOK, ChecksTypeOK, ReadPageFails, Answer, Goto
<1>27. CASE GroupWord(p)
  BY <1>0, <1>27, NothingWritten DEF Unaffected, TypeOK, ChecksTypeOK, GroupWord, NextWord
<1>28. CASE ReportProblems(p)
  BY <1>0, <1>28, NothingWritten DEF Unaffected, TypeOK, ChecksTypeOK, ReportProblems, Report
<1>29. CASE EndCheck(p)
  BY <1>0, <1>29, NothingWritten DEF Unaffected, TypeOK, ChecksTypeOK, EndCheck, Leave, Answer, Goto
<1>30. CASE Submit(p)
  BY <1>0, <1>30, NothingWritten DEF Unaffected, TypeOK, ChecksTypeOK, Submit, Answer, Goto, Runs
<1>31. CASE SubmitLocally(p)
  BY <1>0, <1>31, NothingWritten DEF Unaffected, TypeOK, ChecksTypeOK, SubmitLocally, Answer, Goto
<1>32. CASE SubmitStops(p)
  BY <1>0, <1>32, NothingWritten DEF Unaffected, TypeOK, ChecksTypeOK, SubmitStops, Answer, Goto
<1>33. CASE SendSubmission(p)
  BY <1>0, <1>33, NothingWritten DEF Unaffected, TypeOK, ChecksTypeOK, SendSubmission, Send, Goto
<1>34. CASE AuthorizeStops(p)
  BY <1>0, <1>34, NothingWritten DEF Unaffected, TypeOK, ChecksTypeOK, AuthorizeStops,
       Answer, Goto, Runs
<1>35. CASE SendRelease(p)
  BY <1>0, <1>35, NothingWritten DEF Unaffected, TypeOK, ChecksTypeOK, SendRelease, Send, Goto, Runs
<1>36. CASE GateAnswers(p)
  BY <1>0, <1>36, NothingWritten DEF Unaffected, TypeOK, ChecksTypeOK, GateAnswers, Answer, Goto
<1>37. CASE AlreadyDone(p)
  BY <1>0, <1>37, NothingWritten DEF Unaffected, TypeOK, ChecksTypeOK, AlreadyDone,
       Answer, Goto, Runs
<1>38. CASE RequestFails(p)
  BY <1>0, <1>38, NothingWritten DEF Unaffected, TypeOK, ChecksTypeOK, RequestFails, Answer, Goto,
                                     Runs
<1>39. CASE StoreProof(p)
  <2>1. Unaffected(q)
    BY <1>0, <1>39 DEF Unaffected, TypeOK, ChecksTypeOK, StoreProof, WriteFile, Goto
  <2>2. PICK d \in PerDoc[call[p].proof] \ {NoId}, f \in Prints : WriteFile(ProofFile[d], f)
    BY <1>39 DEF StoreProof
  <2>3. call[p].proof \in ProofIds
    BY <1>0, <1>39 DEF LocalInv, Running, Inside, Online, StoreProof, TypeOK, Call
  <2>4. ProofFile[d] \in Paths
    BY <2>2, <2>3, ProgramAssumption
  <2>5. Undisturbed(q)
    BY <1>0, <2>2, <2>4, WritesAreSeen, FilesAreTyped
  <2>6. QED BY <2>1, <2>5
<1>40. QED
  BY <1>1, <1>2, <1>3, <1>4, <1>5, <1>6, <1>7, <1>8, <1>9, <1>10, <1>11, <1>12, <1>13,
       <1>14, <1>15, <1>16, <1>17, <1>18, <1>19, <1>20, <1>21, <1>22, <1>23, <1>24,
       <1>25, <1>26, <1>27, <1>28, <1>29, <1>30, <1>31, <1>32, <1>33, <1>34, <1>35,
       <1>36, <1>37, <1>38,
     <1>39 DEF Step

LEMMA EditUnaffected ==
    ASSUME ProgramInv, NEW q \in Procs, Edit
    PROVE  Unaffected(q) /\ Undisturbed(q)
<1>1. TypeOK
  BY DEF ProgramInv
<1>2. PICK x \in Paths, f \in Documents : WriteFile(x, f)
  BY DEF Edit
<1>3. Undisturbed(q)
  BY <1>1, <1>2, WritesAreSeen, FilesAreTyped
<1>4. Unaffected(q)
  BY DEF Edit, Unaffected, process, progress
<1>5. QED BY <1>3, <1>4

LEMMA UnaffectedKeeps ==
    ASSUME TypeOK, NEW q \in Procs, LocalInv(q), Unaffected(q), Undisturbed(q)
    PROVE  LocalInv(q)'
<1>1. Launched(q)' /\ Running(q)' /\ Outcome(q)' /\ Sent(q)'
  BY DEF LocalInv, Unaffected, Launched, Running, Outcome, Sent
<1>2. Checked(q)'
  BY DEF LocalInv, Unaffected, Undisturbed, Checked, Running, Inside, Online, Coversheet
<1>3. Kept(q)'
  BY DEF LocalInv, Unaffected, Undisturbed, Kept, TypeOK
<1>4. Looked(q)'
  BY ProgramAssumption DEF LocalInv, Unaffected, Undisturbed, Looked, TypeOK
<1>5. QED BY <1>1, <1>2, <1>3, <1>4 DEF LocalInv

-----------------------------------------------------------------------------
(* What a step makes of its own process *)

LEMMA FreshMakes ==
    ASSUME TypeOK, NEW p \in Procs, NEW c, NEW present, Fresh(p, c, present)
    PROVE  /\ call'[p] = c /\ todo'[p] = {} /\ got'[p] = {} /\ result'[p] = "none"
           /\ wire'[p] = {} /\ shipped'[p] = None /\ before'[p] = present
           /\ edited'[p] = FALSE
BY DEF TypeOK, Fresh

\* A request that belongs to the call goes out in live mode.
LEMMA SendKeeps ==
    ASSUME TypeOK, NEW p \in Procs, LocalInv(p), NEW fields \in SUBSET Fields, Send(p, fields),
           call[p] # None, config[p] # None, config[p].live,
           fields \in Requests(call[p].command), result'[p] # "refused",
           pc'[p] \notin {"loading", "dispatch", "checking", "submitting", "uploading"},
           UNCHANGED <<call, config>>
    PROVE  Sent(p)'
<1>1. wire'[p] = wire[p] \cup {fields}
  BY DEF TypeOK, Send
<1>2. wire[p] \subseteq Requests(call[p].command)
  BY DEF LocalInv, Sent
<1>3. QED BY <1>1, <1>2 DEF Sent

\* A call ends with an answer.
LEMMA AnswerKeeps ==
    ASSUME TypeOK, NEW p \in Procs, LocalInv(p), pc[p] \in Inside \ {"answered"},
           NEW r \in Results \ {"none", "not configured"}, Answer(p, r),
           UNCHANGED <<launch, config, call, got, shipped, before>>, checks'[p] = Idle,
           Undisturbed(p), Sent(p)',
           r = "ok" /\ call[p].command \in {"download_proofs", "tracking"} =>
               pc[p] = "lookups" /\ todo[p] = {}
    PROVE  LocalInv(p)'
<1>1. pc'[p] = "answered" /\ result'[p] = r
  BY DEF TypeOK, Answer, Goto
<1>2. Launched(p)'
  BY <1>1 DEF LocalInv, Launched, Inside, Online
<1>3. Running(p)'
  <2>1. /\ call[p] # None
        /\ \/ config[p] # None
           \/ launch[p].kind = "cli" /\ call[p].command = "check_windows"
    BY DEF LocalInv, Running, Inside, Online
  <2>2. call[p].command \in Commands
    BY <2>1 DEF TypeOK, Call
  <2>3. QED BY <1>1, <2>1, <2>2 DEF Running, Reaches, Online
<1>4. Outcome(p)'
  BY <1>1 DEF Outcome
<1>5. Checked(p)'
  <2>1. shipped[p] # None /\ call[p].windowCheck /\ shipped[p].coversheet \in {"N", "n"} =>
                edited[p] \/ (shipped[p].page # None /\ SafePage(shipped[p].page))
    BY DEF LocalInv, Checked
  <2>2. call[p] # None /\ (edited[p] => edited'[p])
    BY DEF LocalInv, Running, Inside, Online, Undisturbed
  <2>3. QED BY <1>1, <2>1, <2>2 DEF Checked
<1>6. Kept(p)'
  <2>1. \A x \in before[p] : x \in Paths /\ disk[x] # Absent
    BY DEF LocalInv, Kept, TypeOK
  <2>2. QED BY <1>1, <2>1 DEF Kept, Undisturbed
<1>7. Looked(p)'
  <2>1. call[p].command = "download_proofs" =>
            \A d \in got[p] : ProofFile[d] \in Paths /\ disk[ProofFile[d]] # Absent
    <3>1. pc[p] \in {"dispatch", "lookups", "storing"} \/ call[p].command # "download_proofs"
      BY DEF LocalInv, Running, Inside, Online, Reaches
    <3>2. \A d \in got[p] : ProofFile[d] \in Paths
      BY ProgramAssumption DEF TypeOK
    <3>3. QED BY <3>1, <3>2 DEF LocalInv, Looked
  <2>2. r = "ok" /\ call[p].command \in {"download_proofs", "tracking"} =>
            got[p] = PerDoc[call[p].proof] \ {NoId}
    BY DEF LocalInv, Looked
  <2>3. QED BY <1>1, <2>1, <2>2 DEF Looked, Undisturbed
<1>8. QED BY <1>2, <1>3, <1>4, <1>5, <1>6, <1>7 DEF LocalInv

\* Nothing was sent before the first request.
LEMMA SilenceKeeps ==
    ASSUME TypeOK, NEW p \in Procs, LocalInv(p), NEW r, Answer(p, r),
           UNCHANGED <<config, call, wire>>,
           r = "refused" => wire[p] = {}
    PROVE  Sent(p)'
<1>1. pc'[p] = "answered" /\ result'[p] = r
  BY DEF TypeOK, Answer, Goto
<1>2. QED BY <1>1 DEF LocalInv, Sent

\* A call goes on inside.
LEMMA MoveKeeps ==
    ASSUME TypeOK, NEW p \in Procs, LocalInv(p), pc[p] \in Inside \ {"answered"},
           NEW l \in Inside \ {"answered", "dispatch"}, Goto(p, l),
           call[p].command \in Reaches(p, l),
           l \in Online => config[p] # None /\ config[p].live,
           UNCHANGED <<launch, config, call, result, before>>, Undisturbed(p),
           l \in {"uploading", "asking", "saving", "writing"} /\ call[p].command = "preflight"
               => call[p].out \notin before[p]
    PROVE  /\ Launched(p)' /\ Running(p)' /\ Outcome(p)' /\ Kept(p)'
           /\ pc'[p] = l
<1>1. pc'[p] = l
  BY DEF TypeOK, Goto
<1>2. Launched(p)'
  BY <1>1 DEF LocalInv, Launched, Inside, Online
<1>3. Running(p)'
  <2>1. /\ call[p] # None
        /\ \/ config[p] # None
           \/ launch[p].kind = "cli" /\ call[p].command = "check_windows"
    BY DEF LocalInv, Running, Inside, Online
  <2>2. QED BY <1>1, <2>1 DEF Running, Reaches, Online
<1>4. Outcome(p)'
  <2>1. result[p] = "none"
    BY DEF LocalInv, Outcome, Inside, Online, Labels
  <2>2. QED BY <1>1, <2>1 DEF Outcome, Inside, Online
<1>5. Kept(p)'
  <2>1. \A x \in before[p] : x \in Paths /\ disk[x] # Absent
    BY DEF LocalInv, Kept, TypeOK
  <2>2. QED BY <1>1, <2>1 DEF Kept, Undisturbed
<1>6. QED BY <1>1, <1>2, <1>3, <1>4, <1>5

LEMMA StepKeeps ==
    ASSUME ProgramInv, NEW p \in Procs, Step(p)
    PROVE  LocalInv(p)'
<1> USE DEF process, progress, files, history
<1>0. TypeOK /\ CheckInv /\ LocalInv(p)
  BY DEF ProgramInv
<1>a. pc[p] # "checking" => checks[p] = Idle
  BY <1>0 DEF LocalInv, Checked
<1>b. UNCHANGED <<disk, edited>> => Undisturbed(p)
  BY NothingWritten
<1>1. CASE Start(p)
  <2>1. PICK l \in Launches[p] :
            /\ launch' = [launch EXCEPT ![p] = l]
            /\ BeginCall(p, l.call)
            /\ Goto(p, IF l.kind = "cli" /\ l.call.command = "check_windows"
                       THEN "checking" ELSE "loading")
    BY <1>1 DEF Start
  <2>2. /\ call'[p] = l.call /\ got'[p] = {} /\ result'[p] = "none" /\ wire'[p] = {}
        /\ shipped'[p] = None /\ before'[p] = {x \in Paths : disk[x] # Absent}
    BY <1>0, <2>1, FreshMakes DEF BeginCall
  <2>3. /\ launch'[p] = l /\ l # None /\ config'[p] = None /\ disk' = disk /\ checks'[p] = Idle
        /\ pc'[p] = IF l.kind = "cli" /\ l.call.command = "check_windows"
                    THEN "checking" ELSE "loading"
    BY <1>0, <1>1, <1>a, <2>1, LaunchesAreTyped, NonesAreApart
       DEF Start, TypeOK, Goto, LocalInv, Launched
  <2>4. l.kind = "cli" => l.call # None
    BY LaunchesAreTyped
  <2>5. Launched(p)'
    BY <2>2, <2>3, <2>4 DEF Launched
  <2>6. Running(p)'
    BY <2>2, <2>3, <2>4 DEF Running, Reaches, Inside, Online
  <2>7. Outcome(p)' /\ Sent(p)' /\ Kept(p)' /\ Looked(p)'
    BY <2>2, <2>3 DEF Outcome, Sent, Kept, Looked
  <2>8. Checked(p)'
    BY <2>2, <2>3 DEF Checked, Idle
  <2>9. QED BY <2>5, <2>6, <2>7, <2>8 DEF LocalInv
<1>2. CASE Load(p)
  <2> DEFINE e == ConfigError(launch[p].around)
  <2>1. /\ pc[p] = "loading" /\ launch[p] \in Launch /\ config[p] = None /\ wire[p] = {}
        /\ result[p] = "none" /\ checks[p] = Idle /\ shipped[p] = None /\ got[p] = {}
        /\ launch[p].kind = "cli" => call[p] # None
    <3>1. pc[p] = "loading"
      BY <1>2 DEF Load
    <3>2. /\ launch[p] \in Launch /\ config[p] = None
          /\ launch[p].kind = "cli" => call[p] # None
      BY <1>0, <3>1 DEF LocalInv, Launched, TypeOK
    <3>3. wire[p] = {} /\ result[p] = "none" /\ checks[p] = Idle
      BY <1>0, <1>a, <3>1 DEF LocalInv, Sent, Outcome, Labels
    <3>4. shipped[p] = None /\ got[p] = {}
      BY <1>0, <3>1 DEF LocalInv, Checked, Looked, Labels
    <3>5. QED BY <3>1, <3>2, <3>3, <3>4
  <2>2. /\ UNCHANGED <<launch, call, got, wire, shipped, before, disk, edited, checks>>
        /\ \/ /\ e = "none" /\ config' = [config EXCEPT ![p] = LoadConfig(launch[p].around)]
              /\ Goto(p, IF launch[p].kind = "cli" THEN "dispatch" ELSE "ready")
              /\ UNCHANGED <<result, code>>
           \/ /\ result' = [result EXCEPT ![p] = "traceback"] /\ Exit(p, 1) /\ UNCHANGED config
           \/ /\ result' = [result EXCEPT ![p] = "not configured"] /\ Exit(p, 2)
              /\ UNCHANGED config
    BY <1>2 DEF Load
  <2>3. CASE /\ e = "none" /\ config' = [config EXCEPT ![p] = LoadConfig(launch[p].around)]
             /\ Goto(p, IF launch[p].kind = "cli" THEN "dispatch" ELSE "ready")
             /\ UNCHANGED <<result, code>>
    <3>1. /\ config'[p] = LoadConfig(launch[p].around)
          /\ pc'[p] = IF launch[p].kind = "cli" THEN "dispatch" ELSE "ready"
      BY <1>0, <2>3 DEF TypeOK, Goto
    <3>2. launch[p] # None /\ config'[p] # None
      BY <2>1, <3>1, NonesAreApart, ConfigsAreTyped DEF Launch
    <3>3. Launched(p)'
      BY <2>1, <2>2, <2>3, <3>1, <3>2 DEF Launched, Launch
    <3>4. Running(p)'
      <4>1. call[p] # None => call[p].command \in Commands
        BY <1>0 DEF TypeOK, Call
      <4>2. QED BY <2>1, <2>2, <3>1, <3>2, <4>1 DEF Running, Inside, Online, Reaches
    <3>5. Outcome(p)' /\ Sent(p)' /\ Looked(p)'
      BY <2>1, <2>2, <2>3, <3>1 DEF Outcome, Sent, Looked
    <3>6. Checked(p)' /\ Kept(p)'
      BY <1>0, <2>1, <2>2, <3>1 DEF Checked, Kept, LocalInv
    <3>7. QED BY <3>3, <3>4, <3>5, <3>6 DEF LocalInv
  <2>4. CASE /\ result' = [result EXCEPT ![p] = "traceback"] /\ Exit(p, 1) /\ UNCHANGED config
    <3>1. pc'[p] = "exited" /\ result'[p] = "traceback" /\ code'[p] = 1
      BY <1>0, <2>4 DEF TypeOK, Exit, Goto
    <3>2. Launched(p)' /\ Running(p)'
      BY <1>0, <2>1, <2>2, <2>4, <3>1 DEF LocalInv, Launched, Running, Inside, Online
    <3>3. Outcome(p)' /\ Sent(p)' /\ Looked(p)'
      BY <2>1, <2>2, <3>1 DEF Outcome, ExitStatus, Sent, Looked
    <3>4. Checked(p)' /\ Kept(p)'
      BY <1>0, <2>1, <2>2, <3>1 DEF Checked, Kept, LocalInv
    <3>5. QED BY <3>2, <3>3, <3>4 DEF LocalInv
  <2>5. CASE /\ result' = [result EXCEPT ![p] = "not configured"] /\ Exit(p, 2)
             /\ UNCHANGED config
    <3>1. pc'[p] = "exited" /\ result'[p] = "not configured" /\ code'[p] = 2
      BY <1>0, <2>5 DEF TypeOK, Exit, Goto
    <3>2. Launched(p)' /\ Running(p)'
      BY <1>0, <2>1, <2>2, <2>5, <3>1 DEF LocalInv, Launched, Running, Inside, Online
    <3>3. Outcome(p)' /\ Sent(p)' /\ Looked(p)'
      BY <2>1, <2>2, <2>5, <3>1 DEF Outcome, Sent, Looked
    <3>4. Checked(p)' /\ Kept(p)'
      BY <1>0, <2>1, <2>2, <3>1 DEF Checked, Kept, LocalInv
    <3>5. QED BY <3>2, <3>3, <3>4 DEF LocalInv
  <2>6. QED BY <2>2, <2>3, <2>4, <2>5
<1>3. CASE TakeCall(p)
  <2>1. PICK c \in Calls : BeginCall(p, c)
    BY <1>3 DEF TakeCall
  <2>2. c # None /\ c.command \in Commands
    BY ProgramAssumption, NonesAreApart DEF Call
  <2>3. /\ call'[p] = c /\ got'[p] = {} /\ result'[p] = "none" /\ wire'[p] = {}
        /\ shipped'[p] = None /\ before'[p] = {x \in Paths : disk[x] # Absent}
    BY <1>0, <2>1, FreshMakes DEF BeginCall
  <2>4. /\ pc[p] = "ready" /\ pc'[p] = "dispatch" /\ UNCHANGED <<launch, config, disk>>
        /\ checks'[p] = Idle
    BY <1>0, <1>3, <1>a DEF TakeCall, TypeOK, Goto
  <2>5. Launched(p)'
    BY <1>0, <2>3, <2>4 DEF LocalInv, Launched
  <2>6. Running(p)'
    <3>1. config[p] # None
      BY <1>0, <2>4 DEF LocalInv, Launched
    <3>2. QED BY <2>2, <2>3, <2>4, <3>1 DEF Running, Reaches, Online
  <2>7. Outcome(p)' /\ Sent(p)' /\ Kept(p)' /\ Looked(p)' /\ Checked(p)'
    BY <2>3, <2>4 DEF Outcome, Sent, Kept, Looked, Checked
  <2>8. QED BY <2>5, <2>6, <2>7 DEF LocalInv
<1>4. CASE Finish(p)
  <2>1. /\ pc[p] = "answered" /\ result'[p] = result[p]
        /\ UNCHANGED <<launch, config, call, got, wire, shipped, before, edited, disk, checks>>
        /\ result[p] \notin {"none", "not configured"}
        /\ checks[p] = Idle
    BY <1>0, <1>4, <1>a DEF Finish, LocalInv, Outcome
  <2>2. CASE launch[p].kind = "cli"
    <3>1. pc'[p] = "exited" /\ code'[p] = ExitStatus(result[p])
      BY <1>0, <1>4, <2>2 DEF Finish, Exit, Goto, TypeOK
    <3>2. Launched(p)' /\ Running(p)' /\ Outcome(p)'
      BY <1>0, <2>1, <3>1 DEF LocalInv, Launched, Running, Inside, Online, Outcome, ExitStatus
    <3>3. Sent(p)' /\ Kept(p)' /\ Looked(p)'
      BY <1>0, <2>1, <3>1 DEF LocalInv, Sent, Kept, Looked
    <3>4. Checked(p)'
      BY <1>0, <2>1, <3>1 DEF LocalInv, Checked
    <3>5. QED BY <3>2, <3>3, <3>4 DEF LocalInv
  <2>3. CASE launch[p].kind # "cli"
    <3>1. pc'[p] = "ready"
      BY <1>0, <1>4, <2>3 DEF Finish, Goto, TypeOK
    <3>2. launch[p] # None /\ launch[p].kind = "server" /\ config[p] # None
      BY <1>0, <2>1, <2>3 DEF LocalInv, Launched, Running, Inside, TypeOK, Launch
    <3>3. Launched(p)' /\ Running(p)' /\ Outcome(p)'
      BY <1>0, <2>1, <3>1, <3>2 DEF LocalInv, Launched, Running, Inside, Online, Outcome
    <3>4. Sent(p)' /\ Kept(p)' /\ Looked(p)'
      BY <1>0, <2>1, <3>1 DEF LocalInv, Sent, Kept, Looked
    <3>5. Checked(p)'
      BY <1>0, <2>1, <3>1 DEF LocalInv, Checked
    <3>6. QED BY <3>3, <3>4, <3>5 DEF LocalInv
  <2>4. QED BY <2>2, <2>3
<1>5. CASE ServerStops(p)
  <2>1. /\ pc[p] = "ready" /\ pc'[p] = "exited" /\ checks[p] = Idle
        /\ UNCHANGED <<launch, config, call, got, result, wire, shipped, before, edited, disk,
                       checks>>
    BY <1>0, <1>5, <1>a DEF ServerStops, Exit, Goto, TypeOK
  <2>2. launch[p] # None /\ launch[p].kind = "server"
    BY <1>0, <2>1 DEF LocalInv, Launched
  <2>3. Launched(p)' /\ Running(p)' /\ Outcome(p)'
    BY <1>0, <2>1, <2>2 DEF LocalInv, Launched, Running, Inside, Online, Outcome
  <2>4. Sent(p)' /\ Kept(p)' /\ Looked(p)'
    BY <1>0, <2>1 DEF LocalInv, Sent, Kept, Looked
  <2>5. Checked(p)'
    BY <1>0, <2>1 DEF LocalInv, Checked
  <2>6. QED BY <2>3, <2>4, <2>5 DEF LocalInv
<1>6. CASE Ends(p)
  <2>1. /\ got'[p] = {} /\ result'[p] = "none" /\ wire'[p] = {} /\ shipped'[p] = None
        /\ before'[p] = {}
    BY <1>0, <1>6, FreshMakes DEF Ends
  <2>2. pc'[p] = "off" /\ config'[p] = None /\ checks'[p] = Idle
    BY <1>0, <1>6 DEF Ends, Goto, TypeOK, CheckInv, ChecksTypeOK
  <2>3. Launched(p)' /\ Running(p)' /\ Outcome(p)'
    BY <2>1, <2>2 DEF Launched, Running, Inside, Online, Outcome
  <2>4. Sent(p)' /\ Kept(p)' /\ Looked(p)'
    BY <2>1, <2>2 DEF Sent, Kept, Looked
  <2>5. Checked(p)'
    BY <2>1, <2>2 DEF Checked
  <2>6. QED BY <2>3, <2>4, <2>5 DEF LocalInv
<1>7. CASE CheckConfig(p)
  <2>1. \E r \in {"ok", "refused"} :
            /\ Answer(p, r)
            /\ r = "ok" => call[p].command \notin {"download_proofs", "tracking"}
    BY <1>7 DEF CheckConfig, Runs
  <2>2. /\ pc[p] = "dispatch" /\ wire[p] = {}
        /\ UNCHANGED <<launch, config, call, got, shipped, before, edited, disk, checks, wire>>
    BY <1>0, <1>7 DEF CheckConfig, Runs, LocalInv, Sent
  <2>3. QED BY <1>0, <1>a, <1>b, <2>1, <2>2, AnswerKeeps, SilenceKeeps DEF Inside, Results
<1>8. CASE ListProofs(p)
  <2>1. \E r \in {"ok", "refused"} :
            /\ Answer(p, r)
            /\ r = "ok" => call[p].command \notin {"download_proofs", "tracking"}
    BY <1>8 DEF ListProofs, Runs
  <2>2. /\ pc[p] = "dispatch" /\ wire[p] = {}
        /\ UNCHANGED <<launch, config, call, got, shipped, before, edited, disk, checks, wire>>
    BY <1>0, <1>8 DEF ListProofs, Runs, LocalInv, Sent
  <2>3. QED BY <1>0, <1>a, <1>b, <2>1, <2>2, AnswerKeeps, SilenceKeeps DEF Inside, Results
<1>9. CASE GetProof(p)
  <2>1. \E r \in {"ok", "refused"} :
            /\ Answer(p, r)
            /\ r = "ok" => call[p].command \notin {"download_proofs", "tracking"}
    BY <1>9 DEF GetProof, Runs
  <2>2. /\ pc[p] = "dispatch" /\ wire[p] = {}
        /\ UNCHANGED <<launch, config, call, got, shipped, before, edited, disk, checks, wire>>
    BY <1>0, <1>9 DEF GetProof, Runs, LocalInv, Sent
  <2>3. QED BY <1>0, <1>a, <1>b, <2>1, <2>2, AnswerKeeps, SilenceKeeps DEF Inside, Results
<1>10. CASE LedgerFails(p)
  <2>1. \E r \in {"refused", "traceback"} : Answer(p, r)
    BY <1>10 DEF LedgerFails
  <2>2. /\ pc[p] = "dispatch" /\ wire[p] = {}
        /\ UNCHANGED <<launch, config, call, got, shipped, before, edited, disk, checks, wire>>
    BY <1>0, <1>10 DEF LedgerFails, LocalInv, Sent
  <2>3. QED BY <1>0, <1>a, <1>b, <2>1, <2>2, AnswerKeeps, SilenceKeeps DEF Inside, Results
<1>11. CASE DryRunRefuses(p)
  <2>1. \E r \in {"ok", "refused"} :
            /\ Answer(p, r)
            /\ r = "ok" => call[p].command \notin {"download_proofs", "tracking"}
    BY <1>11 DEF DryRunRefuses
  <2>2. /\ pc[p] = "dispatch" /\ wire[p] = {}
        /\ UNCHANGED <<launch, config, call, got, shipped, before, edited, disk, checks, wire>>
    BY <1>0, <1>11 DEF DryRunRefuses, LocalInv, Sent
  <2>3. QED BY <1>0, <1>a, <1>b, <2>1, <2>2, AnswerKeeps, SilenceKeeps DEF Inside, Results
<1>12. CASE Account(p)
  <2>1. /\ pc[p] = "dispatch" /\ call[p] # None /\ call[p].command = "account" /\ config[p] # None
        /\ config[p].live /\ result[p] = "none" /\ Send(p, {"accountstatus"}) /\ Goto(p, "asking")
        /\ UNCHANGED <<launch, config, call, got, result, shipped, before, edited, disk, checks>>
    BY <1>0, <1>12 DEF Account, Runs, RequireLive, LocalInv, Running, Inside, Outcome, Labels
  <2>2. pc'[p] = "asking" /\ Launched(p)' /\ Running(p)' /\ Outcome(p)' /\ Kept(p)'
    BY <1>0, <1>b, <2>1, MoveKeeps DEF Inside, Online, Reaches
  <2>3. Sent(p)'
    BY <1>0, <2>1, <2>2, SendKeeps, RequestsAreTyped DEF Requests
  <2>4. Checked(p)' /\ Looked(p)'
    BY <1>0, <2>1, <2>2 DEF LocalInv, Checked, Looked, Labels
  <2>5. QED BY <2>2, <2>3, <2>4 DEF LocalInv
<1>13. CASE Reply(p)
  <2>1. /\ pc[p] = "asking" /\ call[p] # None /\ call[p].command \in {"account", "preflight"}
        /\ config[p] # None /\ config[p].live /\ result[p] = "none"
        /\ call[p].command = "preflight" => call[p].out \notin before[p]
        /\ UNCHANGED <<launch, config, call, got, shipped, before, edited, disk, checks, wire>>
    BY <1>0, <1>13 DEF Reply, LocalInv, Running, Inside, Online, Reaches, Outcome, Labels, Kept
  <2>2. CASE \E r \in {"ok", "error"} : Answer(p, r)
    BY <1>0, <1>a, <1>b, <2>1, <2>2, AnswerKeeps, SilenceKeeps DEF Inside, Online, Results
  <2>3. CASE call[p].command = "preflight" /\ Goto(p, "saving") /\ UNCHANGED result
    <3>1. pc'[p] = "saving" /\ Launched(p)' /\ Running(p)' /\ Outcome(p)' /\ Kept(p)'
      BY <1>0, <1>b, <2>1, <2>3, MoveKeeps DEF Inside, Online, Reaches
    <3>2. Sent(p)' /\ Looked(p)'
      BY <1>0, <2>1, <2>3, <3>1 DEF LocalInv, Sent, Looked
    <3>3. Checked(p)'
      BY <1>0, <2>1, <3>1 DEF LocalInv, Checked, Labels
    <3>4. QED BY <3>1, <3>2, <3>3 DEF LocalInv
  <2>4. QED BY <1>13, <2>2, <2>3 DEF Reply
<1>14. CASE StartLookups(p)
  <2>1. /\ pc[p] = "dispatch" /\ call[p] # None /\ config[p] # None /\ config[p].live
        /\ call[p].command \in {"download_proofs", "tracking"} /\ wire[p] = {} /\ got[p] = {}
        /\ UNCHANGED <<launch, config, call, got, shipped, before, edited, disk, checks, wire>>
    BY <1>0, <1>14 DEF StartLookups, RequireLive, LocalInv, Running, Inside, Sent, Looked
  <2>2. CASE \E r \in {"refused", "traceback"} : Answer(p, r)
    BY <1>0, <1>a, <1>b, <2>1, <2>2, AnswerKeeps, SilenceKeeps DEF Inside, Results
  <2>3. CASE /\ todo' = [todo EXCEPT ![p] = PerDoc[call[p].proof]]
             /\ Goto(p, "lookups") /\ UNCHANGED result
    <3>1. pc'[p] = "lookups" /\ Launched(p)' /\ Running(p)' /\ Outcome(p)' /\ Kept(p)'
      BY <1>0, <1>b, <2>1, <2>3, MoveKeeps DEF Inside, Online, Reaches
    <3>2. Sent(p)' /\ Checked(p)'
      BY <1>0, <2>1, <2>3, <3>1 DEF LocalInv, Sent, Checked, Labels
    <3>3. Looked(p)'
      <4>1. todo'[p] = PerDoc[call[p].proof]
        BY <1>0, <2>3 DEF TypeOK
      <4>2. QED BY <2>1, <3>1, <4>1 DEF Looked
    <3>4. QED BY <3>1, <3>2, <3>3 DEF LocalInv
  <2>4. QED BY <1>14, <2>2, <2>3 DEF StartLookups
<1>15. CASE SkipCopy(p)
  <2>1. /\ pc[p] = "lookups" /\ pc' = pc /\ todo'[p] = todo[p] \ {NoId}
        /\ UNCHANGED <<launch, config, call, got, result, code, wire, shipped, before, edited, disk,
                       checks>>
    BY <1>0, <1>15 DEF SkipCopy, TypeOK
  <2>2. Launched(p)' /\ Running(p)' /\ Outcome(p)' /\ Sent(p)' /\ Checked(p)' /\ Kept(p)'
    BY <1>0, <2>1 DEF LocalInv, Launched, Running, Reaches, Outcome, Sent, Checked, Kept
  <2>3. Looked(p)'
    BY <1>0, <2>1 DEF LocalInv, Looked
  <2>4. QED BY <2>2, <2>3 DEF LocalInv
<1>16. CASE LookUp(p)
  <2>1. PICK d \in todo[p] \ {NoId} :
            /\ todo' = [todo EXCEPT ![p] = @ \ {d}]
            /\ \/ /\ call[p].command = "tracking"
                  /\ got' = [got EXCEPT ![p] = @ \cup {d}]
                  /\ UNCHANGED <<pc, disk, edited>>
               \/ /\ call[p].command = "download_proofs"
                  /\ WriteFile(ProofFile[d], NoPdf)
                  /\ Goto(p, "storing")
                  /\ UNCHANGED got
    BY <1>16 DEF LookUp
  <2>2. /\ pc[p] = "lookups" /\ Send(p, {"doc_id"})
        /\ UNCHANGED <<launch, config, call, result, code, shipped, before, checks>>
    BY <1>16 DEF LookUp
  <2>3. /\ call[p] # None /\ call[p].command \in {"download_proofs", "tracking"}
        /\ config[p] # None /\ config[p].live /\ result[p] = "none"
    BY <1>0, <2>2 DEF LocalInv, Running, Inside, Online, Reaches, Outcome, Labels
  <2>4. ProofFile[d] \in Paths
    BY <1>0, <2>1, ProgramAssumption DEF TypeOK
  <2>5. Undisturbed(p)
    BY <1>0, <1>b, <2>1, <2>4, WritesAreSeen, FilesAreTyped
  <2>6. /\ pc'[p] \in {"lookups", "storing"}
        /\ pc'[p] = "storing" => call[p].command = "download_proofs"
        /\ Launched(p)' /\ Running(p)' /\ Outcome(p)'
    <3>1. CASE Goto(p, "storing") /\ call[p].command = "download_proofs"
      BY <1>0, <2>2, <2>3, <2>5, <3>1, MoveKeeps DEF Inside, Online, Reaches
    <3>2. CASE UNCHANGED pc
      BY <1>0, <2>2, <3>2 DEF LocalInv, Launched, Running, Reaches, Outcome
    <3>3. QED BY <2>1, <3>1, <3>2
  <2>7. Sent(p)'
    BY <1>0, <2>2, <2>3, <2>6, SendKeeps, RequestsAreTyped DEF Requests
  <2>8. Checked(p)'
    BY <1>0, <2>2, <2>5, <2>6 DEF LocalInv, Checked, Undisturbed, Labels
  <2>9. Kept(p)'
    BY <1>0, <2>2, <2>5, <2>6 DEF LocalInv, Kept, Undisturbed, TypeOK
  <2>10. Looked(p)'
    <3>1. todo'[p] = todo[p] \ {d} /\ d \in DocIds
      BY <1>0, <2>1 DEF TypeOK
    <3>2. got[p] \cup (todo[p] \ {NoId}) = PerDoc[call[p].proof] \ {NoId}
      BY <1>0, <2>2 DEF LocalInv, Looked
    <3>3. CASE call[p].command = "tracking" /\ got' = [got EXCEPT ![p] = @ \cup {d}]
               /\ UNCHANGED pc
      <4>1. got'[p] = got[p] \cup {d} /\ pc'[p] = "lookups"
        BY <1>0, <2>2, <3>3 DEF TypeOK
      <4>2. QED BY <2>1, <2>2, <3>1, <3>2, <3>3, <4>1 DEF Looked
    <3>4. CASE call[p].command = "download_proofs" /\ Goto(p, "storing") /\ UNCHANGED got
      <4>1. pc'[p] = "storing"
        BY <1>0, <3>4 DEF Goto, TypeOK
      <4>2. PerDoc[call[p].proof] \ {NoId} = got[p] \cup (todo'[p] \ {NoId}) \cup {d}
        BY <2>1, <3>1, <3>2
      <4>3. \A c \in got[p] : disk'[ProofFile[c]] # Absent
        <5>1. \A c \in got[p] : ProofFile[c] \in Paths /\ disk[ProofFile[c]] # Absent
          BY <1>0, <2>2, <3>4, ProgramAssumption DEF LocalInv, Looked, TypeOK
        <5>2. QED BY <2>5, <5>1 DEF Undisturbed
      <4>4. QED BY <2>2, <3>1, <3>4, <4>1, <4>2, <4>3 DEF Looked
    <3>5. QED BY <2>1, <3>3, <3>4
  <2>11. QED BY <2>6, <2>7, <2>8, <2>9, <2>10 DEF LocalInv
<1>17. CASE LookUpFails(p)
  <2>1. PICK r \in {"error", "traceback"} : Answer(p, r)
    BY <1>17 DEF LookUpFails
  <2>2. /\ pc[p] = "lookups" /\ call[p] # None /\ config[p] # None /\ config[p].live
        /\ call[p].command \in {"download_proofs", "tracking"}
        /\ UNCHANGED <<launch, config, call, got, shipped, before, edited, disk, checks>>
    BY <1>0, <1>17 DEF LookUpFails, LocalInv, Running, Inside, Online, Reaches
  <2>3. pc'[p] = "answered" /\ result'[p] = r /\ (Send(p, {"doc_id"}) \/ UNCHANGED wire)
    BY <1>0, <1>17, <2>1 DEF LookUpFails, Answer, Goto, TypeOK
  <2>4. Sent(p)'
    BY <1>0, <2>1, <2>2, <2>3, SendKeeps, SilenceKeeps, RequestsAreTyped DEF Requests
  <2>5. QED BY <1>0, <1>a, <1>b, <2>1, <2>2, <2>4, AnswerKeeps DEF Inside, Online, Results
<1>18. CASE LookupsEnd(p)
  <2>1. Answer(p, "ok") /\ pc[p] = "lookups" /\ todo[p] = {}
    BY <1>18 DEF LookupsEnd
  <2>2. UNCHANGED <<launch, config, call, got, shipped, before, edited, disk, checks, wire>>
    BY <1>18 DEF LookupsEnd
  <2>3. QED BY <1>0, <1>a, <1>b, <2>1, <2>2, AnswerKeeps, SilenceKeeps DEF Inside, Online, Results
<1>19. CASE Preflight(p)
  <2>1. /\ pc[p] = "dispatch" /\ call[p] # None /\ call[p].command = "preflight"
        /\ config[p] # None /\ config[p].live /\ wire[p] = {}
        /\ UNCHANGED <<launch, config, call, got, shipped, before, edited, disk, checks, wire>>
    BY <1>0, <1>19 DEF Preflight, Runs, RequireLive, LocalInv, Running, Inside, Sent
  <2>2. CASE \E r \in {"error", "traceback"} : Answer(p, r)
    BY <1>0, <1>a, <1>b, <2>1, <2>2, AnswerKeeps, SilenceKeeps DEF Inside, Results
  <2>3. CASE disk[call[p].out] = Absent /\ Goto(p, "uploading") /\ UNCHANGED result
    <3>1. call[p].out \notin before[p]
      BY <1>0, <2>3 DEF LocalInv, Kept
    <3>2. pc'[p] = "uploading" /\ Launched(p)' /\ Running(p)' /\ Outcome(p)' /\ Kept(p)'
      BY <1>0, <1>b, <2>1, <2>3, <3>1, MoveKeeps DEF Inside, Online, Reaches
    <3>3. Sent(p)' /\ Looked(p)'
      BY <1>0, <2>1, <2>3, <3>2 DEF LocalInv, Sent, Looked
    <3>4. Checked(p)'
      BY <1>0, <2>1, <3>2 DEF LocalInv, Checked, Labels
    <3>5. QED BY <3>2, <3>3, <3>4 DEF LocalInv
  <2>4. QED BY <1>19, <2>2, <2>3 DEF Preflight
<1>20. CASE UploadPreflight(p)
  <2>1. /\ pc[p] = "uploading" /\ call[p] # None /\ call[p].command = "preflight"
        /\ config[p] # None /\ config[p].live /\ result[p] = "none"
        /\ call[p].out \notin before[p] /\ Send(p, PreflightFields) /\ Goto(p, "asking")
        /\ UNCHANGED <<launch, config, call, got, result, shipped, before, edited, disk, checks>>
    BY <1>0, <1>20 DEF UploadPreflight, LocalInv, Running, Inside, Online, Reaches, Outcome, Labels,
                      Kept
  <2>2. pc'[p] = "asking" /\ Launched(p)' /\ Running(p)' /\ Outcome(p)' /\ Kept(p)'
    BY <1>0, <1>b, <2>1, MoveKeeps DEF Inside, Online, Reaches
  <2>3. Sent(p)'
    BY <1>0, <2>1, <2>2, SendKeeps, RequestsAreTyped DEF Requests
  <2>4. Checked(p)' /\ Looked(p)'
    BY <1>0, <2>1, <2>2 DEF LocalInv, Checked, Looked, Labels
  <2>5. QED BY <2>2, <2>3, <2>4 DEF LocalInv
<1>21. CASE Save(p)
  <2>1. /\ pc[p] = "saving" /\ call[p] \in Call /\ call[p].command = "preflight"
        /\ config[p] # None /\ config[p].live /\ call[p].out \notin before[p]
        /\ Goto(p, "writing") /\ WriteFile(call[p].out, NoPdf)
        /\ UNCHANGED <<launch, config, call, got, result, shipped, before, checks, wire>>
    BY <1>0, <1>21 DEF Save, LocalInv, Running, Inside, Online, Reaches, Kept, TypeOK
  <2>2. Undisturbed(p)
    BY <1>0, <2>1, WritesAreSeen, FilesAreTyped DEF Call
  <2>3. pc'[p] = "writing" /\ Launched(p)' /\ Running(p)' /\ Outcome(p)' /\ Kept(p)'
    BY <1>0, <2>1, <2>2, MoveKeeps DEF Inside, Online, Reaches
  <2>4. Sent(p)' /\ Looked(p)'
    BY <1>0, <2>1, <2>3 DEF LocalInv, Sent, Looked
  <2>5. Checked(p)'
    BY <1>0, <2>1, <2>3 DEF LocalInv, Checked, Labels
  <2>6. QED BY <2>3, <2>4, <2>5 DEF LocalInv
<1>22. CASE Write(p)
  <2>1. /\ pc[p] = "writing" /\ call[p] \in Call /\ call[p].command = "preflight"
        /\ Answer(p, "ok") /\ \E f \in Prints : WriteFile(call[p].out, f)
        /\ UNCHANGED <<launch, config, call, got, shipped, before, checks, wire>>
    BY <1>0, <1>22 DEF Write, LocalInv, Running, Inside, Online, Reaches, TypeOK
  <2>2. Undisturbed(p)
    BY <1>0, <2>1, WritesAreSeen, FilesAreTyped DEF Call
  <2>3. QED BY <1>0, <1>a, <2>1, <2>2, AnswerKeeps, SilenceKeeps DEF Inside, Online, Results
<1>23. CASE SaveFails(p)
  <2>1. Answer(p, "traceback")
    BY <1>23 DEF SaveFails
  <2>2. /\ pc[p] \in {"saving", "writing", "storing"}
        /\ UNCHANGED <<launch, config, call, got, shipped, before, edited, disk, checks, wire>>
    BY <1>23 DEF SaveFails
  <2>3. QED BY <1>0, <1>a, <1>b, <2>1, <2>2, AnswerKeeps, SilenceKeeps DEF Inside, Online, Results
<1>24. CASE CheckWindows(p)
  <2>1. /\ pc[p] = "dispatch" /\ call[p].command = "check_windows" /\ checks[p] = Idle
        /\ Goto(p, "checking")
        /\ UNCHANGED <<launch, config, call, got, result, shipped, before, edited, disk, checks, wire>>
    BY <1>0, <1>a, <1>24 DEF CheckWindows, Runs
  <2>2. pc'[p] = "checking" /\ Launched(p)' /\ Running(p)' /\ Outcome(p)' /\ Kept(p)'
    BY <1>0, <1>b, <2>1, MoveKeeps DEF Inside, Online, Reaches
  <2>3. Sent(p)' /\ Looked(p)'
    BY <1>0, <2>1, <2>2 DEF LocalInv, Sent, Looked
  <2>4. Checked(p)'
    BY <1>0, <2>1, <2>2 DEF LocalInv, Checked, Labels, Idle
  <2>5. QED BY <2>2, <2>3, <2>4 DEF LocalInv
<1>25. CASE ReadPage(p)
  <2>1. /\ pc[p] = "checking"
        /\ UNCHANGED <<pc, launch, config, call, todo, got, result, code, wire, shipped, before, edited,
                       disk>>
    BY <1>25 DEF ReadPage
  <2>2. /\ Launched(p)' /\ Running(p)' /\ Outcome(p)'
        /\ Sent(p)' /\ Kept(p)' /\ Looked(p)'
    <3>1. Launched(p)' /\ Running(p)' /\ Outcome(p)'
      BY <1>0, <2>1 DEF LocalInv, Launched, Running, Reaches, Outcome
    <3>2. Sent(p)' /\ Kept(p)' /\ Looked(p)'
      BY <1>0, <2>1 DEF LocalInv, Sent, Kept, Looked
    <3>3. QED BY <3>1, <3>2
  <2>3. /\ disk[call[p].document].kind = "pdf"
        /\ checks'[p].at = "grouping" => checks'[p].page = disk[call[p].document].page
        /\ checks'[p].at # "done"
    BY <1>0, <1>25 DEF ReadPage, OpenPage, CheckInv, ChecksTypeOK, Idle
  <2>4. Checked(p)'
    BY <1>0, <2>1, <2>3 DEF LocalInv, Checked, Labels
  <2>5. QED BY <2>2, <2>4 DEF LocalInv
<1>26. CASE ReadPageFails(p)
  <2>1. PICK r \in {"error", "traceback"} : Answer(p, r)
    BY <1>26 DEF ReadPageFails
  <2>2. /\ pc[p] = "checking" /\ checks[p] = Idle
        /\ UNCHANGED <<launch, config, call, got, shipped, before, edited, disk, checks, wire>>
    BY <1>26 DEF ReadPageFails
  <2>3. r \in Results \ {"none", "not configured", "refused"} /\ r # "ok"
    BY <2>1 DEF Results
  <2>4. QED BY <1>0, <1>b, <2>1, <2>2, <2>3, AnswerKeeps, SilenceKeeps DEF Inside, Online, Results
<1>27. CASE GroupWord(p)
  <2>1. UNCHANGED <<pc, launch, config, call, todo, got, result, code, wire, shipped, before, edited, disk>>
    BY <1>27 DEF GroupWord
  <2>2. /\ Launched(p)' /\ Running(p)' /\ Outcome(p)'
        /\ Sent(p)' /\ Kept(p)' /\ Looked(p)'
    <3>1. Launched(p)' /\ Running(p)' /\ Outcome(p)'
      BY <1>0, <2>1 DEF LocalInv, Launched, Running, Reaches, Outcome
    <3>2. Sent(p)' /\ Kept(p)' /\ Looked(p)'
      BY <1>0, <2>1 DEF LocalInv, Sent, Kept, Looked
    <3>3. QED BY <3>1, <3>2
  <2>3. checks[p].at = "grouping" /\ checks'[p].at = "grouping" /\ checks'[p].page = checks[p].page
    BY <1>0, <1>27 DEF GroupWord, NextWord, CheckInv, ChecksTypeOK, Check
  <2>4. pc[p] = "checking"
    BY <1>a, <2>3 DEF Idle
  <2>5. Checked(p)'
    BY <1>0, <2>1, <2>3, <2>4 DEF LocalInv, Checked, Labels
  <2>6. QED BY <2>2, <2>5 DEF LocalInv
<1>28. CASE ReportProblems(p)
  <2>1. UNCHANGED <<pc, launch, config, call, todo, got, result, code, wire, shipped, before, edited, disk>>
    BY <1>28 DEF ReportProblems
  <2>2. /\ Launched(p)' /\ Running(p)' /\ Outcome(p)'
        /\ Sent(p)' /\ Kept(p)' /\ Looked(p)'
    <3>1. Launched(p)' /\ Running(p)' /\ Outcome(p)'
      BY <1>0, <2>1 DEF LocalInv, Launched, Running, Reaches, Outcome
    <3>2. Sent(p)' /\ Kept(p)' /\ Looked(p)'
      BY <1>0, <2>1 DEF LocalInv, Sent, Kept, Looked
    <3>3. QED BY <3>1, <3>2
  <2>3. checks[p].at = "grouping" /\ checks'[p].at = "done" /\ checks'[p].page = checks[p].page
    BY <1>0, <1>28 DEF ReportProblems, Report, CheckInv, ChecksTypeOK, Check
  <2>4. pc[p] = "checking"
    BY <1>a, <2>3 DEF Idle
  <2>5. Checked(p)'
    BY <1>0, <2>1, <2>3, <2>4 DEF LocalInv, Checked, Labels
  <2>6. QED BY <2>2, <2>5 DEF LocalInv
<1>29. CASE EndCheck(p)
  <2>1. /\ pc[p] = "checking" /\ call[p].command \in {"check_windows", "submit"} /\ wire[p] = {}
        /\ checks[p].at \in {"done", "failed"} /\ checks'[p] = Idle
        /\ UNCHANGED <<launch, config, call, got, shipped, before, edited, disk, wire>>
    BY <1>0, <1>29 DEF EndCheck, Leave, LocalInv, Running, Inside, Reaches, Sent, CheckInv,
                      ChecksTypeOK
  <2>2. CASE \E r \in {"ok", "error", "refused"} : Answer(p, r)
    BY <1>0, <1>b, <2>1, <2>2, AnswerKeeps, SilenceKeeps DEF Inside, Results
  <2>3. CASE /\ checks[p].at # "failed" /\ call[p].command # "check_windows" /\ ~RefusesLayout(p)
             /\ Goto(p, "submitting") /\ UNCHANGED result
    <3>1. /\ pc'[p] = "submitting"
          /\ Launched(p)' /\ Running(p)' /\ Outcome(p)' /\ Kept(p)'
      BY <1>0, <1>b, <2>1, <2>3, MoveKeeps DEF Inside, Online, Reaches
    <3>2. Sent(p)' /\ Looked(p)'
      BY <1>0, <2>1, <2>3, <3>1 DEF LocalInv, Sent, Looked
    <3>3. Coversheet(p) \in {"N", "n"} => SafePage(checks[p].page)
      BY <1>0, <2>1, <2>3, CheckInvSuffices DEF RefusesLayout, EveryBreachIsReported
    <3>4. edited[p] \/ (/\ disk[call[p].document].kind = "pdf"
                        /\ disk[call[p].document].page = checks[p].page)
      BY <1>0, <2>1, <2>3 DEF LocalInv, Checked
    <3>5. Coversheet(p)' = Coversheet(p)
      BY <2>1 DEF Coversheet
    <3>6. shipped[p] = None
      BY <1>0, <2>1 DEF LocalInv, Checked, Labels
    <3>7. Checked(p)'
      BY <2>1, <3>1, <3>3, <3>4, <3>5, <3>6 DEF Checked
    <3>8. QED BY <3>1, <3>2, <3>7 DEF LocalInv
  <2>4. QED BY <1>29, <2>2, <2>3 DEF EndCheck
<1>30. CASE Submit(p)
  <2>1. /\ pc[p] = "dispatch" /\ call[p].command = "submit" /\ wire[p] = {} /\ checks[p] = Idle
        /\ UNCHANGED <<launch, config, call, got, shipped, before, edited, disk, wire, checks>>
    BY <1>0, <1>a, <1>30 DEF Submit, Runs, LocalInv, Sent
  <2>2. CASE \E r \in {"no json", "error"} : Answer(p, r)
    BY <1>0, <1>b, <2>1, <2>2, AnswerKeeps, SilenceKeeps DEF Inside, Results
  <2>3. CASE /\ Goto(p, IF call[p].windowCheck THEN "checking" ELSE "submitting")
             /\ UNCHANGED result
    <3>1. /\ pc'[p] = IF call[p].windowCheck THEN "checking" ELSE "submitting"
          /\ Launched(p)' /\ Running(p)' /\ Outcome(p)' /\ Kept(p)'
      BY <1>0, <1>b, <2>1, <2>3, MoveKeeps DEF Inside, Online, Reaches
    <3>2. Sent(p)' /\ Looked(p)'
      BY <1>0, <2>1, <2>3, <3>1 DEF LocalInv, Sent, Looked
    <3>3. Checked(p)'
      BY <1>0, <2>1, <3>1 DEF LocalInv, Checked, Labels, Idle
    <3>4. QED BY <3>1, <3>2, <3>3 DEF LocalInv
  <2>4. QED BY <1>30, <2>2, <2>3 DEF Submit
<1>31. CASE SubmitLocally(p)
  <2>1. \E r \in {"ok", "error"} : Answer(p, r)
    BY <1>31 DEF SubmitLocally
  <2>2. /\ pc[p] = "submitting" /\ call[p].command = "submit"
        /\ UNCHANGED <<launch, config, call, got, shipped, before, edited, disk, checks, wire>>
    BY <1>0, <1>31 DEF SubmitLocally, LocalInv, Running, Inside, Reaches
  <2>3. QED BY <1>0, <1>a, <1>b, <2>1, <2>2, AnswerKeeps, SilenceKeeps DEF Inside, Online, Results
<1>32. CASE SubmitStops(p)
  <2>1. PICK r \in {"refused", "error", "traceback"} : Answer(p, r)
    BY <1>32 DEF SubmitStops
  <2>2. /\ pc[p] = "submitting" /\ call[p] # None /\ call[p].command = "submit" /\ wire[p] = {}
        /\ UNCHANGED <<launch, config, call, got, shipped, before, edited, disk, checks>>
    BY <1>0, <1>32 DEF SubmitStops, LocalInv, Running, Inside, Reaches, Sent
  <2>3. config[p] # None /\ config[p].live
    BY <1>0, <1>32, <2>2 DEF SubmitStops, LocalInv, Running, Inside
  <2>4. Sent(p)'
    <3>1. pc'[p] = "answered" /\ wire'[p] \subseteq {{"jobstatus"}}
      BY <1>0, <1>32, <2>1, <2>2 DEF SubmitStops, Answer, Goto, TypeOK
    <3>2. QED BY <2>2, <2>3, <3>1 DEF Sent, Requests
  <2>5. QED BY <1>0, <1>a, <1>b, <2>1, <2>2, <2>4, AnswerKeeps DEF Inside, Results
<1>33. CASE SendSubmission(p)
  <2>1. /\ pc[p] = "submitting" /\ call[p] \in Call /\ call[p].command = "submit"
        /\ config[p] # None /\ config[p].live /\ result[p] = "none"
        /\ Send(p, SubmissionFields) /\ Goto(p, "waiting")
        /\ UNCHANGED <<launch, config, call, got, result, before, edited, disk, checks>>
    BY <1>0, <1>33 DEF SendSubmission, LocalInv, Running, Inside, Reaches, Outcome, Labels, TypeOK
  <2>2. pc'[p] = "waiting" /\ Launched(p)' /\ Running(p)' /\ Outcome(p)' /\ Kept(p)'
    BY <1>0, <1>b, <2>1, MoveKeeps DEF Inside, Online, Reaches
  <2>3. call[p] # None
    BY <2>1, NonesAreApart
  <2>4. Sent(p)'
    BY <1>0, <2>1, <2>2, <2>3, SendKeeps, RequestsAreTyped DEF Requests
  <2>5. Looked(p)'
    BY <2>1, <2>2 DEF Looked
  <2>6. Checked(p)'
    <3>1. /\ shipped'[p].page = disk[call[p].document].page
          /\ shipped'[p].coversheet = Coversheet(p)
      BY <1>0, <1>33 DEF SendSubmission, TypeOK
    <3>2. disk[call[p].document].kind = "pdf" => disk[call[p].document].page # None
      <4>1. disk[call[p].document] \in File
        BY <1>0, <2>1 DEF TypeOK, Call
      <4>2. QED BY <4>1, NonesAreApart DEF File
    <3>3. call[p].windowCheck /\ Coversheet(p) \in {"N", "n"} =>
              \/ edited[p]
              \/ /\ disk[call[p].document].kind = "pdf"
                 /\ SafePage(disk[call[p].document].page)
      BY <1>0, <2>1 DEF LocalInv, Checked
    <3>4. checks[p] = Idle
      BY <1>a, <2>1
    <3>5. QED BY <2>1, <2>2, <2>3, <3>1, <3>2, <3>3, <3>4 DEF Checked
  <2>7. QED BY <2>2, <2>4, <2>5, <2>6 DEF LocalInv
<1>34. CASE AuthorizeStops(p)
  <2>1. \E r \in {"refused", "error", "traceback"} : Answer(p, r)
    BY <1>34 DEF AuthorizeStops
  <2>2. /\ pc[p] = "dispatch" /\ wire[p] = {}
        /\ UNCHANGED <<launch, config, call, got, shipped, before, edited, disk, checks, wire>>
    BY <1>0, <1>34 DEF AuthorizeStops, Runs, LocalInv, Sent
  <2>3. QED BY <1>0, <1>a, <1>b, <2>1, <2>2, AnswerKeeps, SilenceKeeps DEF Inside, Results
<1>35. CASE SendRelease(p)
  <2>1. /\ pc[p] = "dispatch" /\ call[p] # None /\ call[p].command = "authorize" /\ config[p] # None
        /\ config[p].live /\ result[p] = "none" /\ Send(p, ReleaseFields) /\ Goto(p, "waiting")
        /\ UNCHANGED <<launch, config, call, got, result, shipped, before, edited, disk, checks>>
    BY <1>0, <1>35 DEF SendRelease, Runs, RequireLive, LocalInv, Running, Inside, Outcome, Labels
  <2>2. pc'[p] = "waiting" /\ Launched(p)' /\ Running(p)' /\ Outcome(p)' /\ Kept(p)'
    BY <1>0, <1>b, <2>1, MoveKeeps DEF Inside, Online, Reaches
  <2>3. Sent(p)'
    BY <1>0, <2>1, <2>2, SendKeeps, RequestsAreTyped DEF Requests
  <2>4. Checked(p)' /\ Looked(p)'
    BY <1>0, <2>1, <2>2 DEF LocalInv, Checked, Looked, Labels
  <2>5. QED BY <2>2, <2>3, <2>4 DEF LocalInv
<1>36. CASE GateAnswers(p)
  <2>1. \E r \in {"ok", "error", "refused late", "traceback"} : Answer(p, r)
    BY <1>36 DEF GateAnswers
  <2>2. /\ pc[p] = "waiting" /\ call[p].command \in {"submit", "authorize"}
        /\ UNCHANGED <<launch, config, call, got, shipped, before, edited, disk, checks, wire>>
    BY <1>0, <1>36 DEF GateAnswers, LocalInv, Running, Inside, Online, Reaches
  <2>3. QED BY <1>0, <1>a, <1>b, <2>1, <2>2, AnswerKeeps, SilenceKeeps DEF Inside, Online, Results
<1>37. CASE AlreadyDone(p)
  <2>1. Answer(p, "ok")
    BY <1>37 DEF AlreadyDone
  <2>2. /\ pc[p] \in {"submitting", "dispatch"} /\ call[p].command \in {"submit", "authorize"}
        /\ UNCHANGED <<launch, config, call, got, shipped, before, edited, disk, checks, wire>>
    BY <1>0, <1>37 DEF AlreadyDone, Runs, LocalInv, Running, Inside, Online, Reaches
  <2>3. QED BY <1>0, <1>a, <1>b, <2>1, <2>2, AnswerKeeps, SilenceKeeps DEF Inside, Online, Results
<1>38. CASE RequestFails(p)
  <2>1. PICK r \in {"error", "traceback"} : Answer(p, r)
    BY <1>38 DEF RequestFails
  <2>2. /\ pc[p] \in {"dispatch", "uploading"}
        /\ UNCHANGED <<launch, config, call, got, shipped, before, edited, disk, checks, wire>>
    BY <1>38 DEF RequestFails, Runs
  <2>3. QED BY <1>0, <1>a, <1>b, <2>1, <2>2, AnswerKeeps, SilenceKeeps DEF Inside, Online, Results
<1>39. CASE StoreProof(p)
  <2>1. PICK d \in PerDoc[call[p].proof] \ (todo[p] \cup got[p] \cup {NoId}) :
            /\ \E f \in Prints : WriteFile(ProofFile[d], f)
            /\ got' = [got EXCEPT ![p] = @ \cup {d}]
    BY <1>39 DEF StoreProof
  <2>2. PICK f \in Prints : WriteFile(ProofFile[d], f)
    BY <2>1
  <2>3. /\ pc[p] = "storing" /\ Goto(p, "lookups") /\ call[p] \in Call
        /\ call[p].command = "download_proofs" /\ config[p] # None /\ config[p].live
        /\ UNCHANGED <<launch, config, call, todo, result, code, wire, shipped, before, checks>>
    BY <1>0, <1>39 DEF StoreProof, LocalInv, Running, Inside, Online, Reaches, TypeOK
  <2>4. d \in DocIds /\ ProofFile[d] \in Paths
    <3>1. call[p].proof \in ProofIds
      BY <2>3 DEF Call
    <3>2. QED BY <2>1, <3>1, ProgramAssumption
  <2>5. Undisturbed(p)
    BY <1>0, <2>2, <2>4, WritesAreSeen, FilesAreTyped
  <2>6. pc'[p] = "lookups" /\ Launched(p)' /\ Running(p)' /\ Outcome(p)' /\ Kept(p)'
    BY <1>0, <2>3, <2>5, MoveKeeps DEF Inside, Online, Reaches
  <2>7. Sent(p)'
    BY <1>0, <2>3, <2>6 DEF LocalInv, Sent
  <2>8. Checked(p)'
    BY <1>0, <2>3, <2>6 DEF LocalInv, Checked, Labels
  <2>9. Looked(p)'
    <3>1. got'[p] = got[p] \cup {d}
      BY <1>0, <2>1 DEF TypeOK
    <3>2. PICK e \in DocIds :
              PerDoc[call[p].proof] \ {NoId} = got[p] \cup (todo[p] \ {NoId}) \cup {e}
      BY <1>0, <2>3 DEF LocalInv, Looked
    <3>3. e = d
      BY <2>1, <3>2
    <3>4. got'[p] \cup (todo'[p] \ {NoId}) = PerDoc[call[p].proof] \ {NoId}
      BY <2>3, <3>1, <3>2, <3>3
    <3>5. ASSUME NEW c \in got'[p] PROVE disk'[ProofFile[c]] # Absent
      <4>1. disk'[ProofFile[d]] = f
        BY <1>0, <2>2, <2>4 DEF WriteFile, TypeOK
      <4>2. CASE c = d
        BY <4>1, <4>2, FilesAreTyped
      <4>3. CASE c # d
        <5>1. c \in DocIds /\ disk[ProofFile[c]] # Absent
          BY <1>0, <2>3, <3>1, <3>5, <4>3 DEF LocalInv, Looked, TypeOK
        <5>2. ProofFile[c] \in Paths
          BY <5>1, ProgramAssumption
        <5>3. QED BY <2>5, <5>1, <5>2 DEF Undisturbed
      <4>4. QED BY <4>2, <4>3
    <3>6. QED BY <2>3, <2>6, <3>4, <3>5 DEF Looked
  <2>10. QED BY <2>6, <2>7, <2>8, <2>9 DEF LocalInv
<1>40. QED
  BY <1>1, <1>2, <1>3, <1>4, <1>5, <1>6, <1>7, <1>8, <1>9, <1>10, <1>11, <1>12, <1>13,
       <1>14, <1>15, <1>16, <1>17, <1>18, <1>19, <1>20, <1>21, <1>22, <1>23, <1>24,
       <1>25, <1>26, <1>27, <1>28, <1>29, <1>30, <1>31, <1>32, <1>33, <1>34, <1>35,
       <1>36, <1>37, <1>38,
     <1>39 DEF Step

-----------------------------------------------------------------------------
(* The invariant *)

LEMMA InitHolds == Init => ProgramInv
<1>1. SUFFICES ASSUME Init PROVE ProgramInv
  OBVIOUS
<1>2. CheckInv
  BY <1>1, CheckInitHolds DEF Init
<1>3. TypeOK
  <2>1. disk \in [Paths -> File]
    BY <1>1, ProgramAssumption DEF Init
  <2>2. /\ pc \in [Procs -> Labels] /\ result \in [Procs -> Results]
        /\ code \in [Procs -> 0 .. 3] /\ edited \in [Procs -> BOOLEAN]
    BY <1>1 DEF Init, Labels, Results
  <2>3. ChecksTypeOK
    BY <1>2 DEF CheckInv
  <2>4. QED BY <1>1, <2>1, <2>2, <2>3 DEF Init, TypeOK
<1>4. ASSUME NEW p \in Procs PROVE LocalInv(p)
  <2>1. Launched(p) /\ Running(p) /\ Outcome(p) /\ Sent(p)
    BY <1>1 DEF Init, Launched, Running, Inside, Online, Outcome, Sent
  <2>2. Checked(p) /\ Kept(p) /\ Looked(p)
    BY <1>1 DEF Init, CheckInit, Checked, Idle, Kept, Looked
  <2>3. QED BY <2>1, <2>2 DEF LocalInv
<1>5. QED BY <1>2, <1>3, <1>4 DEF ProgramInv

LEMMA NextKeeps == ProgramInv /\ [Next]_vars => ProgramInv'
<1>1. ASSUME ProgramInv, NEW p \in Procs, Step(p) PROVE ProgramInv'
  <2>1. CheckInv' /\ TypeOK'
    BY <1>1, StepChecks, StepTypes
  <2>2. ASSUME NEW q \in Procs PROVE LocalInv(q)'
    <3>1. CASE q = p
      BY <1>1, <3>1, StepKeeps
    <3>2. CASE q # p
      BY <1>1, <3>2, OthersUnaffected, UnaffectedKeeps DEF ProgramInv
    <3>3. QED BY <3>1, <3>2
  <2>3. QED BY <2>1, <2>2 DEF ProgramInv
<1>2. ASSUME ProgramInv, Edit PROVE ProgramInv'
  <2>1. CheckInv'
    BY <1>2 DEF ProgramInv, Edit, CheckInv, ChecksTypeOK
  <2>2. \A q \in Procs : LocalInv(q)'
    BY <1>2, EditUnaffected, UnaffectedKeeps DEF ProgramInv
  <2>3. QED BY <1>2, <2>1, <2>2, EditTypes DEF ProgramInv
<1>3. ASSUME ProgramInv, UNCHANGED vars PROVE ProgramInv'
  <2>1. TypeOK' /\ CheckInv'
    BY <1>3 DEF vars, process, progress, files, history, ProgramInv, TypeOK, CheckInv, ChecksTypeOK
  <2>2. \A q \in Procs : Unaffected(q) /\ Undisturbed(q)
    BY <1>3 DEF vars, process, progress, files, history, Unaffected, Undisturbed
  <2>3. \A q \in Procs : LocalInv(q)'
    BY <1>3, <2>2, UnaffectedKeeps DEF ProgramInv
  <2>4. QED BY <2>1, <2>3 DEF ProgramInv
<1>4. QED BY <1>1, <1>2, <1>3 DEF Next

LEMMA Invariant == Spec => []ProgramInv
BY InitHolds, NextKeeps, PTL DEF Spec

-----------------------------------------------------------------------------
(* What the program promises *)

\* Every variable keeps its type, whatever is launched, called and edited.
THEOREM TypesHold == Spec => []TypeOK
<1>1. ProgramInv => TypeOK
  BY DEF ProgramInv
<1>2. QED BY <1>1, Invariant, PTL

\* The window check in the program, its document shared with editors and other
\* processes, names every word in breach and calls only safe pages clean.
THEOREM BreachesAreReported == Spec => []EveryBreachIsReported
<1>1. ProgramInv => EveryBreachIsReported
  BY CheckInvSuffices DEF ProgramInv
<1>2. QED BY <1>1, Invariant, PTL

\* No configuration and no call sends anything without a recorded live mode,
\* mails without authorize or makes a held job without submit.
THEOREM OnlyAskedRequestsAreSent == Spec => []OnlyWhatWasAsked
<1>1. ProgramInv => OnlyWhatWasAsked
  <2>1. SUFFICES ASSUME ProgramInv, NEW p \in Procs, NEW r \in wire[p]
                 PROVE  /\ LiveIsRecorded(launch[p].around)
                        /\ Effect(r) = "mail" => call[p].command = "authorize"
                        /\ Effect(r) = "hold" => call[p].command = "submit"
    BY DEF OnlyWhatWasAsked
  <2>2. /\ config[p] # None /\ config[p].live /\ r \in Requests(call[p].command)
        /\ launch[p] \in Launch /\ config[p] = LoadConfig(launch[p].around)
        /\ call[p] \in Call
    BY <2>1 DEF ProgramInv, LocalInv, Sent, Launched, TypeOK
  <2>3. launch[p].around \in Surroundings /\ IsLive(launch[p].around)
    BY <2>2 DEF Launch, LoadConfig
  <2>4. LiveIsRecorded(launch[p].around)
    BY <2>3, LiveWasRecorded
  <2>5. call[p].command \in Commands
    BY <2>2 DEF Call
  <2>6. /\ Effect(r) = "mail" => call[p].command = "authorize"
        /\ Effect(r) = "hold" => call[p].command = "submit"
    BY <2>2, <2>5 DEF Requests, Effect, SubmissionFields, ReleaseFields, PreflightFields, Commands
  <2>7. QED BY <2>4, <2>6
<1>2. QED BY <1>1, Invariant, PTL

\* A running program uses the file its operator named and, from the highest place
\* where they were written, the settings of its account and of the file, none of
\* them unusable.
THEOREM AccountHolds == Spec => []AccountIsTheOneNamed
<1>1. ProgramInv => AccountIsTheOneNamed
  <2>1. SUFFICES ASSUME ProgramInv, NEW p \in Procs, config[p] # None
                 PROVE  LET s == launch[p].around
                            c == config[p]
                        IN  /\ IsTheNamedFile(s, c.path)
                            /\ {c.from["api_id"], c.from["api_key"]} \subseteq Places
                            /\ \A setting \in Ordinary : ComesFromHighest(s, c, setting)
                            /\ \A setting \in Judged :
                                   c.from[setting] # "default" =>
                                       Read(s, c.path, c.from[setting], setting) # "bad"
    BY DEF AccountIsTheOneNamed
  <2> DEFINE s == launch[p].around
  <2>2. /\ s \in Surroundings /\ ConfigError(s) = "none" /\ config[p] = LoadConfig(s)
    BY <2>1 DEF ProgramInv, LocalInv, Launched, TypeOK, Launch
  <2>3. LoadConfig(s).path = FindConfigFile(s) /\ LoadConfig(s).from = PlaceOf(s)
    BY DEF LoadConfig
  <2>4. \A setting \in Ordinary : ComesFromHighest(s, LoadConfig(s), setting)
    BY <2>2, HighestPlaces DEF Ordinary, Settings
  <2>5. {PlaceOf(s)["api_id"], PlaceOf(s)["api_key"]} \subseteq Places
    BY <2>2, CredentialsAreSomewhere
  <2>6. ASSUME NEW setting \in Judged, PlaceOf(s)[setting] # "default"
        PROVE  Read(s, FindConfigFile(s), PlaceOf(s)[setting], setting) # "bad"
    <3>1. Read(s, FindConfigFile(s), PlaceOf(s)[setting], setting) = Used(s, setting)
      BY <2>6 DEF Read, Used, Written
    <3>2. QED BY <2>2, <3>1, JudgedAreUsable
  <2>7. IsTheNamedFile(s, FindConfigFile(s))
    BY <2>2, FileWasNamed
  <2>8. QED BY <2>2, <2>3, <2>4, <2>5, <2>6, <2>7
<1>2. QED BY <1>1, Invariant, PTL

\* Every setting comes from the highest place where it was written, as the
\* repository says, if nobody leaves LETTERSTREAM_TIMEOUT or LETTERSTREAM_LIVE
\* blank or gives a --state-dir of white space: the three ways to deviate that
\* there are.
THEOREM PrecedenceIsKept ==
    ASSUME \A p \in Procs : \A l \in Launches[p] : NoBlankHides(l.around)
    PROVE  Spec => []SettingsFollowPrecedence
<1> DEFINE Launchable == \A p \in Procs : launch[p] # None => launch[p] \in Launches[p]
<1>1. Init => Launchable
  BY DEF Init
<1>2. ProgramInv /\ Launchable /\ [Next]_vars => Launchable'
  <2> SUFFICES ASSUME ProgramInv, Launchable, [Next]_vars, NEW q \in Procs, launch'[q] # None
               PROVE  launch'[q] \in Launches[q]
    OBVIOUS
  <2>1. TypeOK
    BY DEF ProgramInv
  <2>2. CASE UNCHANGED launch
    BY <2>2
  <2>3. CASE \E p \in Procs : Start(p) \/ Ends(p)
    BY <2>1, <2>3 DEF Start, Ends, TypeOK
  <2>4. CASE \E p \in Procs : Step(p) /\ ~Start(p) /\ ~Ends(p)
    <3>1. UNCHANGED launch
      BY <2>4 DEF Step, process, Load, TakeCall, BeginCall, Fresh, Finish, ServerStops, CheckConfig,
         ListProofs, GetProof, LedgerFails, DryRunRefuses, Account, RequestFails, Reply,
         StartLookups, SkipCopy, LookUp, StoreProof, LookUpFails, LookupsEnd, Preflight,
         UploadPreflight, Save, Write, SaveFails, CheckWindows, ReadPage, ReadPageFails, GroupWord,
         ReportProblems, EndCheck, Submit, SubmitLocally, SubmitStops, SendSubmission,
         AuthorizeStops, SendRelease, GateAnswers, AlreadyDone
    <3>2. QED BY <2>2, <3>1
  <2>5. CASE Edit
    BY <2>2, <2>5 DEF Edit, process
  <2>6. CASE UNCHANGED vars
    BY <2>2, <2>6 DEF vars, process
  <2>7. QED BY <2>3, <2>4, <2>5, <2>6 DEF Next
<1>3. ProgramInv /\ Launchable => SettingsFollowPrecedence
  <2>1. SUFFICES ASSUME ProgramInv, Launchable, NEW p \in Procs, config[p] # None,
                        NEW setting \in Settings
                 PROVE  ComesFromHighest(launch[p].around, config[p], setting)
    BY DEF SettingsFollowPrecedence
  <2> DEFINE s == launch[p].around
  <2>2. /\ s \in Surroundings /\ ConfigError(s) = "none" /\ config[p] = LoadConfig(s)
    BY <2>1 DEF ProgramInv, LocalInv, Launched, TypeOK, Launch
  <2>3. NoBlankHides(s)
    BY <2>1 DEF ProgramInv, LocalInv, Launched
  <2>4. QED BY <2>2, <2>3, HighestPlaces
<1>4. QED BY <1>1, <1>2, <1>3, Invariant, PTL DEF Spec

\* A page submitted without a coversheet after a window check is safe, unless
\* its file changed during the call.
THEOREM SubmittedLayoutsAreSafe == Spec => []SubmittedLayoutIsSafe
<1>1. ProgramInv => SubmittedLayoutIsSafe
  BY DEF ProgramInv, LocalInv, Checked, SubmittedLayoutIsSafe
<1>2. QED BY <1>1, Invariant, PTL

\* A successful tracking or download is about every copy with an id.
THEOREM LookupsAreComplete == Spec => []LookupsAreWhole
<1>1. ProgramInv => LookupsAreWhole
  BY DEF ProgramInv, LocalInv, Looked, LookupsAreWhole
<1>2. QED BY <1>1, Invariant, PTL

\* The exit status of a command tells what its caller may read from it.
THEOREM ExitStatusHolds == Spec => []ExitStatusIsTrue
<1>1. ProgramInv => ExitStatusIsTrue
  <2>1. SUFFICES ASSUME ProgramInv, NEW p \in Procs, pc[p] = "exited", launch[p].kind = "cli"
                 PROVE  /\ code[p] = 0 <=> result[p] = "ok"
                        /\ code[p] = 2 => wire[p] = {} /\ config[p] = None
                        /\ code[p] = 3 => result[p] = "error"
                        /\ code[p] = 1 =>
                               \/ result[p] \in {"traceback", "refused late", "no json"}
                               \/ \A r \in wire[p] : Effect(r) = "none"
    BY DEF ExitStatusIsTrue
  <2>2. result[p] \in Results /\ code[p] \in 0 .. 3 /\ Outcome(p) /\ Sent(p)
    BY <2>1 DEF ProgramInv, LocalInv, TypeOK
  <2>3. result[p] = "refused" => \A r \in wire[p] : Effect(r) = "none"
    BY <2>2 DEF Sent, Effect
  <2>4. CASE result[p] = "not configured" /\ code[p] = 2 /\ wire[p] = {} /\ config[p] = None
    <3>1. code[p] # 0 /\ code[p] # 1 /\ code[p] # 3
      <4>1. code[p] = 2
        BY <2>4, Zenon
      <4>2. QED BY <4>1
    <3>2. result[p] # "ok"
      BY <2>4
    <3>3. QED BY <2>4, <3>1, <3>2, Zenon
  <2>5. CASE result[p] \notin {"none", "not configured"} /\ code[p] = ExitStatus(result[p])
    <3>1. result[p] \in {"ok", "refused", "refused late", "error", "traceback", "no json"}
      BY <2>2, <2>5 DEF Results
    <3>2. /\ result[p] = "ok" => code[p] = 0
          /\ result[p] \in {"refused", "refused late", "traceback", "no json"} => code[p] = 1
          /\ result[p] = "error" => code[p] = 3
      BY <2>5 DEF ExitStatus
    <3>3. /\ code[p] = 0 => code[p] # 1 /\ code[p] # 3
          /\ code[p] = 1 => code[p] # 0 /\ code[p] # 3
          /\ code[p] = 2 => code[p] # 0 /\ code[p] # 1 /\ code[p] # 3
          /\ code[p] = 3 => code[p] # 0 /\ code[p] # 1
      OBVIOUS
    <3>4. QED BY <2>3, <3>1, <3>2, <3>3, Zenon
  <2>6. QED BY <2>1, <2>2, <2>4, <2>5 DEF Outcome
<1>2. QED BY <1>1, Invariant, PTL

\* A preflight changes no file that was there when its call began.
THEOREM PreflightIsHarmless == Spec => PreflightKeepsFiles
<1> DEFINE Harmless == \A p \in Procs : pc[p] \in {"saving", "writing"} /\ pc'[p] # pc[p] =>
                           \A x \in before[p] : disk'[x] = disk[x]
<1>1. ProgramInv /\ [Next]_vars => [Harmless]_vars
  <2>1. SUFFICES ASSUME ProgramInv, Next, NEW p \in Procs, pc[p] \in {"saving", "writing"},
                        pc'[p] # pc[p], NEW x \in before[p]
                 PROVE  disk'[x] = disk[x]
    OBVIOUS
  <2>2. TypeOK /\ LocalInv(p)
    BY <2>1 DEF ProgramInv
  <2>3. x \in Paths /\ call[p].out \notin before[p]
    BY <2>1, <2>2 DEF TypeOK, LocalInv, Kept, Running, Inside, Online, Reaches
  <2>4. Step(p)
    <3>1. ~Edit
      BY <2>1 DEF Edit
    <3>2. \A q \in Procs : q # p /\ Step(q) => pc'[p] = pc[p]
      BY <2>1, OthersUnaffected DEF Unaffected
    <3>3. QED BY <2>1, <3>1, <3>2 DEF Next
  <2>5. \/ disk' = disk
        \/ \E f : disk' = [disk EXCEPT ![call[p].out] = f]
    BY <2>1, <2>4 DEF Step, Save, Write, WriteFile, SaveFails, Ends, files,
       Start, Load, TakeCall, Finish, ServerStops, CheckConfig, ListProofs, GetProof,
       LedgerFails, DryRunRefuses, Account, RequestFails, Reply, StartLookups, SkipCopy, LookUp,
       StoreProof, LookUpFails, LookupsEnd, Preflight, UploadPreflight, CheckWindows, ReadPage, ReadPageFails, GroupWord,
       ReportProblems, EndCheck, Submit, SubmitLocally, SubmitStops, SendSubmission,
       AuthorizeStops, SendRelease, GateAnswers, AlreadyDone, Runs
  <2>6. QED BY <2>2, <2>3, <2>5 DEF TypeOK
<1>2. QED BY <1>1, Invariant, PTL DEF Spec, PreflightKeepsFiles
=============================================================================
