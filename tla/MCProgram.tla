----------------------------- MODULE MCProgram -----------------------------
(* Program for two processes, some fifty documents and every way to write  *)
(* one setting in the three places.                                        *)
EXTENDS Program, TLC, FiniteSets

CONSTANTS p1, p2, i1, d1, d2, letter, marked, print

Word(x0, y0, x1, y1) == [x0 |-> x0, y0 |-> y0, x1 |-> x1, y1 |-> y1]

\* Words that are safe, that would be clipped, that stand in the barcode area
\* or outside the margins; some of them share a line, or nearly do.
ToWord == Word(1000, 2100, 2000, 2250)
FromWord == Word(900, 300, 1800, 420)
Body == Word(1000, 5000, 7000, 5200)
OddWords ==
    { Word(2100, 2090, 2600, 2260),     \* a second word of the addressee
      Word(3900, 2110, 4300, 2240),     \* over the edge of the TO window
      Word(4500, 2100, 5200, 2180),     \* same line, in the barcode area
      Word(4800, 2120, 6000, 2250),     \* same line, in the barcode area
      Word(1000, 2900, 1500, 3050),     \* below the TO safe zone
      Word(3600, 310, 3700, 400),       \* right of the FROM safe zone
      Word(7000, 280, 8300, 400),       \* past the right margin, same line
      Word(100, 5010, 240, 5150),       \* past the left margin
      Word(1000, 1172, 2000, 1300),     \* a sliver in the FROM window
      Word(1000, 2073, 1500, 2200) }    \* 27 thousandths above the addressee

Letter(words, drawings) ==
    [width |-> 8500, height |-> 11000, words |-> words,
     drawings |-> drawings, images |-> {}]

GoodPage == Letter({ToWord, FromWord}, {})
BadPage == Letter({ToWord, FromWord, Word(4800, 2120, 6000, 2250)}, {})
A4Page == [GoodPage EXCEPT !.width = 8268, !.height = 11693]

SomePages ==
    {GoodPage, BadPage, A4Page, Letter({}, {}), Letter({ToWord, Body}, {}),
     Letter({ToWord, FromWord}, {Word(8000, 2000, 8000, 2100)})}
    \cup {Letter({ToWord, FromWord} \cup odd, {}) :
            odd \in {o \in SUBSET OddWords : Cardinality(o) \in 1 .. 2}}

Pdf(page) == [kind |-> "pdf", page |-> page]
BrokenPdf == [kind |-> "broken", page |-> None]

SomePaths == {letter, marked, print}
DiskWith(f) == letter :> f @@ marked :> Absent @@ print :> Absent
PlainDisk == DiskWith(Pdf(GoodPage))
SomeDisks == {DiskWith(Pdf(page)) : page \in SomePages} \cup {DiskWith(BrokenPdf), DiskWith(Absent)}
SomeDocuments == {Pdf(BadPage)}
SomePrints == {Pdf(GoodPage)}

CopiesOf == i1 :> {d1, d2, NoId}
PrintOf == d1 :> print @@ d2 :> print

-----------------------------------------------------------------------------
(* Calls *)

Plain(command) ==
    [command |-> command, document |-> letter, out |-> marked, proof |-> i1,
     coversheet |-> "unset", windowCheck |-> FALSE, form |-> "sound"]

SubmitCalls ==
    {[Plain("submit") EXCEPT !.coversheet = cover, !.windowCheck = check] :
        cover \in {"unset", "Y", "n"}, check \in BOOLEAN}
    \cup {[Plain("submit") EXCEPT !.form = form] : form \in {"malformed", "invalid"}}

CommandCalls ==
    {Plain(command) : command \in Commands \ {"submit"}}
    \cup {[Plain("preflight") EXCEPT !.out = letter]}
    \cup SubmitCalls

ServerCalls == {Plain("preflight"), Plain("submit"), Plain("check_windows"),
                [Plain("submit") EXCEPT !.windowCheck = TRUE]}

-----------------------------------------------------------------------------
(* Launches *)

Nothing == [setting \in Settings |-> "unset"]

\* Credentials in the environment; the file turns live on and may give a
\* coversheet.
Usual(live, cover) ==
    [written |-> [args |-> Nothing,
                  env |-> [Nothing EXCEPT !["api_id"] = "set", !["api_key"] = "set"],
                  file |-> [Nothing EXCEPT !["live"] = live, !["coversheet"] = cover]],
     named |-> [args |-> "unset", env |-> "unset", search |-> "here"]]

Numbers == {"unset", "blank", "set", "bad", "nan"}
Texts == {"unset", "blank", "set"}
Switches == {"unset", "blank", "on", "off", "bad"}
Unset == {"unset"}

\* What the three places can hold for a setting.
CanBeWritten(setting) ==
    CASE setting \in {"api_id", "api_key", "state_dir"} -> Texts \X Texts \X Texts
      [] setting = "base_url" -> (Texts \cup {"bad"}) \X (Texts \cup {"bad"}) \X (Texts \cup {"bad"})
      [] setting = "timeout" -> {"unset", "set", "bad", "nan"} \X Numbers \X Numbers
      [] setting = "live" -> Unset \X Switches \X Switches
      [] setting \in {"ttl", "ceiling"} -> Unset \X Unset \X Numbers
      [] setting = "mail_type" -> Unset \X Unset \X (Texts \cup {"bad"})
      [] OTHER -> Unset \X Unset \X {"unset", "blank", "N"}

Varied(setting) ==
    {[Usual("on", "unset") EXCEPT !.written =
         [args |-> [@["args"] EXCEPT ![setting] = w[1]],
          env |-> [@["env"] EXCEPT ![setting] = w[2]],
          file |-> [@["file"] EXCEPT ![setting] = w[3]]]] : w \in CanBeWritten(setting)}

VariedFiles ==
    {[Usual("on", "unset") EXCEPT !.named = [args |-> a, env |-> e, search |-> f]] :
        a \in FileStates, e \in FileStates, f \in FileStates \ {"unset"}}

Run(around, c) == [kind |-> "cli", around |-> around, call |-> c]

ConfigLaunches ==
    {Run(around, Plain("check_config")) :
        around \in UNION {Varied(setting) : setting \in Settings} \cup VariedFiles}
    \cup {Run(around, Plain("account")) : around \in Varied("live")}

CommandLaunches ==
    {Run(Usual("on", "N"), c) : c \in CommandCalls \cup {[Plain("submit") EXCEPT !.form = "no json"]}}
    \cup {Run(Usual("off", "unset"), c) : c \in CommandCalls}

ServerLaunches ==
    {[kind |-> "server", around |-> Usual("on", "N"), call |-> None]}

LayoutCalls == {Plain("check_windows")} \cup
    {[Plain("submit") EXCEPT !.coversheet = cover, !.windowCheck = TRUE] :
        cover \in {"unset", "n"}}

LayoutLaunches == {Run(Usual("on", "N"), c) : c \in LayoutCalls}

SharedLaunches ==
    {Run(Usual("on", "N"), c) :
        c \in {Plain("preflight"), [Plain("submit") EXCEPT !.windowCheck = TRUE]}}

SomeLaunches ==
    p1 :> ConfigLaunches \cup CommandLaunches \cup ServerLaunches
    @@ p2 :> {Run(Usual("on", "N"), c) :
                 c \in {Plain("preflight"), Plain("download_proofs")}}

\* Every usable way to write the timeout, for one command.
TimeoutLaunches ==
    p1 :> {Run(around, Plain("check_config")) :
               around \in {s \in Varied("timeout") :
                              \A place \in Places : s.written[place]["timeout"] \in Texts}}
    @@ p2 :> {}

\* What varies varies alone: configurations with nobody else around, layouts
\* with the commands that look at them.  Two processes at a time run a few
\* commands; the documents that are edited are not the print proofs.
Sparing ==
    /\ launch'[p1] \in ConfigLaunches => disk' = PlainDisk /\ pc'[p2] = "off"
    /\ disk'[letter] \notin {Pdf(GoodPage), Pdf(BadPage)} =>
           launch'[p1] \in LayoutLaunches \cup {None} /\ pc'[p2] = "off"
    /\ pc'[p2] # "off" => launch'[p1] \in SharedLaunches \cup {None}
    /\ disk'[print] # disk[print] => pc' # pc
=============================================================================
