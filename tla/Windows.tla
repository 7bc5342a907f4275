------------------------------ MODULE Windows ------------------------------
(***************************************************************************)
(* The local envelope-window check of windows.py: the words of the first   *)
(* page are grouped into lines one by one, and the lines, drawings and     *)
(* images are compared with the zones LetterStream draws.                  *)
(*                                                                         *)
(* Lengths are integers, in thousandths of an inch from the top left       *)
(* corner.  A word is its box: the texts are left out, so two words with   *)
(* the same box are one.  Reading the PDF is external.                     *)
(***************************************************************************)
EXTENDS Integers

CONSTANTS
    Procs,      \* processes of the program
    Pages,      \* the first pages there may be
    None

Box == [x0 : Int, y0 : Int, x1 : Int, y1 : Int]

Page == [width : Int, height : Int, words : SUBSET Box,
         drawings : SUBSET Box, images : SUBSET Box]

\* A word has a height, and its left edge is not right of its right edge.
ASSUME WindowsAssumption ==
    /\ Pages \subseteq Page
    /\ \A page \in Pages : \A w \in page.words : w.x0 <= w.x1 /\ w.y0 < w.y1
    /\ None \notin Pages \cup Box

VARIABLE checks   \* checks[c]: the check process c is in

Idle == [at |-> "idle", page |-> None, left |-> {}, closed |-> {}, open |-> None,
         problems |-> {}]

-----------------------------------------------------------------------------
Zone(x0, y0, x1, y1) == [x0 |-> x0, y0 |-> y0, x1 |-> x1, y1 |-> y1]

Openings == {"TO", "FROM"}
Opening == [TO |-> Zone(720, 1890, 4150, 3070), FROM |-> Zone(720, 170, 3720, 1190)]
Safe == [TO |-> Zone(875, 2040, 4000, 2920), FROM |-> Zone(875, 170, 3570, 1040)]
CertArea == Zone(4750, 690, 8310, 2190)
MarginBox == Zone(250, 170, 8250, 10810)

Intersects(z, b) == b.x0 < z.x1 /\ b.x1 > z.x0 /\ b.y0 < z.y1 /\ b.y1 > z.y0

Contains(z, b) == b.x0 >= z.x0 /\ b.x1 <= z.x1 /\ b.y0 >= z.y0 /\ b.y1 <= z.y1

Distance(a, b) == IF a < b THEN b - a ELSE a - b

IsLetterSize(page) == Distance(page.width, 8500) <= 50 /\ Distance(page.height, 11000) <= 50

-----------------------------------------------------------------------------
(* _lines_of_text *)

\* round() of a word's top in points: a half goes to the even neighbour.
TopInPoints(w) ==
    LET whole == (72 * w.y0) \div 1000
        rest == (72 * w.y0) % 1000
    IN  IF rest < 500 \/ (rest = 500 /\ whole % 2 = 0) THEN whole ELSE whole + 1

SortsBefore(v, w) ==
    \/ TopInPoints(v) < TopInPoints(w)
    \/ TopInPoints(v) = TopInPoints(w) /\ v.x0 <= w.x0

\* The tops differ by less than two points.
SameLine(line, w) == 36 * Distance(line.y0, w.y0) < 1000

Lesser(a, b) == IF a < b THEN a ELSE b
Greater(a, b) == IF a < b THEN b ELSE a

Merge(line, w) ==
    [x0 |-> Lesser(line.x0, w.x0), y0 |-> Lesser(line.y0, w.y0),
     x1 |-> Greater(line.x1, w.x1), y1 |-> Greater(line.y1, w.y1)]

\* check_windows has read a page; any other size is a ValidationError.
OpenPage(c, page) ==
    /\ checks[c] = Idle
    /\ checks' = [checks EXCEPT ![c] =
           IF IsLetterSize(page)
           THEN [Idle EXCEPT !.at = "grouping", !.page = page, !.left = page.words]
           ELSE [Idle EXCEPT !.at = "failed"]]

\* One turn of the loop: the word joins the line before it or begins a new one.
NextWord(c) ==
    /\ checks[c].at = "grouping"
    /\ \E w \in checks[c].left :
           /\ \A v \in checks[c].left : SortsBefore(w, v)
           /\ LET line == checks[c].open
              IN  checks' =
                  IF line # None /\ SameLine(line, w)
                  THEN [checks EXCEPT ![c].left = @ \ {w}, ![c].open = Merge(line, w)]
                  ELSE [checks EXCEPT ![c].left = @ \ {w}, ![c].open = w,
                            ![c].closed = @ \cup ({line} \ {None})]

-----------------------------------------------------------------------------
(* The report *)

\* (variant) The line that is still open when the words end is forgotten.
LinesButTheLast(k) == k.closed

Lines(k) == k.closed \cup ({k.open} \ {None})

\* (variant) What stands in the safe zone counts as what shows.
VisibleInSafeZone(z, lines) == {l \in lines : Contains(Safe[z], l)}

Visible(z, lines) == {l \in lines : Intersects(Opening[z], l)}

\* What is wrong with the page: about a zone, and a line of it or the zone as
\* a whole.
Problems(lines, page) ==
    {[about |-> z, line |-> None] : z \in {o \in Openings : Visible(o, lines) = {}}}
    \cup (UNION {{[about |-> z, line |-> l] :
                   l \in {v \in Visible(z, lines) : ~Contains(Safe[z], v)}} : z \in Openings})
    \cup {[about |-> "CERT", line |-> l] : l \in {v \in lines : Intersects(CertArea, v)}}
    \cup {[about |-> "CERT", line |-> None] :
            g \in {d \in page.drawings \cup page.images : Intersects(CertArea, d)}}
    \cup {[about |-> "margins", line |-> l] : l \in {v \in lines : ~Contains(MarginBox, v)}}

Report(c) ==
    /\ checks[c].at = "grouping"
    /\ checks[c].left = {}
    /\ checks' = [checks EXCEPT ![c].at = "done",
                      ![c].problems = Problems(Lines(checks[c]), checks[c].page)]

\* The caller has the report, or the error, and goes on.
Leave(c) ==
    /\ checks[c].at \in {"done", "failed"}
    /\ checks' = [checks EXCEPT ![c] = Idle]

CheckInit == checks = [c \in Procs |-> Idle]

CheckNext ==
    \E c \in Procs :
        \/ \E page \in Pages : OpenPage(c, page)
        \/ NextWord(c)
        \/ Report(c)
        \/ Leave(c)

CheckSpec == CheckInit /\ [][CheckNext]_checks

-----------------------------------------------------------------------------
Rules == Openings \cup {"CERT", "margins"}

Check == [at : {"idle", "grouping", "done", "failed"}, page : Pages \cup {None},
          left : SUBSET Box, closed : SUBSET Box, open : Box \cup {None},
          problems : SUBSET [about : Rules, line : Box \cup {None}]]

ChecksTypeOK == checks \in [Procs -> Check]

\* What a safe page is, word by word: some text in each opening, all of it in
\* the safe zone, nothing in the barcode area, nothing outside the margins.
SafePage(page) ==
    /\ \A z \in Openings :
           /\ \E w \in page.words : Intersects(Opening[z], w)
           /\ \A w \in page.words : Intersects(Opening[z], w) => Contains(Safe[z], w)
    /\ \A w \in page.words : Contains(MarginBox, w)
    /\ \A b \in page.words \cup page.drawings \cup page.images : ~Intersects(CertArea, b)

ReportedFor(k, zone, w) ==
    \E p \in k.problems : p.about = zone /\ p.line # None /\ Contains(p.line, w)

\* Merging words into lines hides nothing (windows.py _lines_of_text and
\* check_windows): every word that would be clipped, is in the barcode area or
\* is outside the margins is in a line that the report names for that reason,
\* whatever else stands on that line; and no problems means a safe page.
EveryBreachIsReported ==
    \A c \in Procs :
        LET k == checks[c]
        IN  k.at = "done" =>
                /\ \A w \in k.page.words :
                       /\ \A z \in Openings :
                              Intersects(Opening[z], w) /\ ~Contains(Safe[z], w)
                                  => ReportedFor(k, z, w)
                       /\ Intersects(CertArea, w) => ReportedFor(k, "CERT", w)
                       /\ ~Contains(MarginBox, w) => ReportedFor(k, "margins", w)
                /\ k.problems = {} => SafePage(k.page)

\* Where a report names something, it is there (windows.py check_windows): a
\* line outside the margins has a word that is outside them itself, an opening
\* reported as empty shows no word, and a drawing or image reported in the
\* barcode area is in it.  Of a line named for an opening's safe zone, or for the
\* barcode area, this is not so: two words on either side of a zone make a line
\* that crosses it.
ReportsAreExact ==
    \A c \in Procs :
        LET k == checks[c]
        IN  k.at = "done" =>
                \A p \in k.problems :
                    /\ p.about = "margins" =>
                           \E w \in k.page.words : Contains(p.line, w) /\ ~Contains(MarginBox, w)
                    /\ p.about \in Openings /\ p.line = None =>
                           \A w \in k.page.words : ~Intersects(Opening[p.about], w)
                    /\ p.about = "CERT" /\ p.line = None =>
                           \E b \in k.page.drawings \cup k.page.images : Intersects(CertArea, b)
=============================================================================
