--------------------------- MODULE WindowsProofs ---------------------------
(***************************************************************************)
(* Proofs about Windows, for all sets of processes and of pages.           *)
(***************************************************************************)
EXTENDS Windows, TLAPS

(* The loop invariant of _lines_of_text, and what a report is made of.     *)
Grouped(k) == k.page.words \ k.left

\* The box of a line is no larger than its words: each edge is a word's.
IsHull(l, words) ==
    \E a, b, c, d \in words :
        /\ \A w \in {a, b, c, d} : Contains(l, w)
        /\ l.x0 = a.x0 /\ l.y0 = b.y0 /\ l.x1 = c.x1 /\ l.y1 = d.y1

LoopInv(k) ==
    k.at \in {"grouping", "done"} =>
        /\ k.page \in Pages
        /\ k.left \subseteq k.page.words
        /\ \A w \in Grouped(k) : \E l \in Lines(k) : Contains(l, w)
        /\ \A l \in Lines(k) : IsHull(l, Grouped(k))

ReportInv(k) ==
    k.at = "done" => k.left = {} /\ k.problems = Problems(Lines(k), k.page)

CheckInv ==
    /\ ChecksTypeOK
    /\ \A c \in Procs : LoopInv(checks[c]) /\ ReportInv(checks[c])

-----------------------------------------------------------------------------
(* Boxes *)

\* The box of a line with one more word holds both (windows.py:118).
LEMMA MergeCovers ==
    ASSUME NEW line \in Box, NEW w \in Box
    PROVE  /\ Merge(line, w) \in Box
           /\ Contains(Merge(line, w), line)
           /\ Contains(Merge(line, w), w)
BY DEF Merge, Contains, Box, Lesser, Greater

\* A box that holds a line holds its words.
LEMMA ContainsIsTransitive ==
    ASSUME NEW a \in Box, NEW b \in Box, NEW c \in Box, Contains(a, b), Contains(b, c)
    PROVE  Contains(a, c)
BY DEF Contains, Box

LEMMA ContainsItself == ASSUME NEW a \in Box PROVE Contains(a, a)
BY DEF Contains, Box

\* A breach of a word is a breach of every line that holds the word.
LEMMA BreachesSpread ==
    ASSUME NEW z \in Box, NEW l \in Box, NEW w \in Box, Contains(l, w)
    PROVE  /\ Intersects(z, w) => Intersects(z, l)
           /\ ~Contains(z, w) => ~Contains(z, l)
BY DEF Contains, Intersects, Box

LEMMA ZonesAreBoxes ==
    /\ \A z \in Openings : Opening[z] \in Box /\ Safe[z] \in Box
    /\ CertArea \in Box /\ MarginBox \in Box
BY DEF Openings, Opening, Safe, CertArea, MarginBox, Zone, Box

\* One word is a line as large as itself.
LEMMA WordIsHull ==
    ASSUME NEW w \in Box, NEW words, w \in words
    PROVE  IsHull(w, words)
BY ContainsItself DEF IsHull

LEMMA HullsGrow ==
    ASSUME NEW l, NEW words, NEW more, words \subseteq more, IsHull(l, words)
    PROVE  IsHull(l, more)
BY DEF IsHull

\* Each edge of a line with one more word is an edge of the line or of the word.
LEMMA MergeIsHull ==
    ASSUME NEW words \in SUBSET Box, NEW line \in Box, NEW w \in Box,
           IsHull(line, words)
    PROVE  IsHull(Merge(line, w), words \cup {w})
<1> DEFINE m == Merge(line, w)
<1>1. PICK a, b, c, d \in words :
          /\ \A v \in {a, b, c, d} : Contains(line, v)
          /\ line.x0 = a.x0 /\ line.y0 = b.y0 /\ line.x1 = c.x1 /\ line.y1 = d.y1
  BY DEF IsHull
<1>2. m \in Box /\ Contains(m, line) /\ Contains(m, w)
  BY MergeCovers
<1>3. \A v \in {a, b, c, d, w} : Contains(m, v)
  BY <1>1, <1>2, ContainsIsTransitive
<1>4. \E e \in {a, w} : m.x0 = e.x0
  BY <1>1 DEF Merge, Lesser
<1>5. \E e \in {b, w} : m.y0 = e.y0
  BY <1>1 DEF Merge, Lesser
<1>6. \E e \in {c, w} : m.x1 = e.x1
  BY <1>1 DEF Merge, Greater
<1>7. \E e \in {d, w} : m.y1 = e.y1
  BY <1>1 DEF Merge, Greater
<1>8. PICK e \in {a, w}, f \in {b, w}, g \in {c, w}, h \in {d, w} :
          m.x0 = e.x0 /\ m.y0 = f.y0 /\ m.x1 = g.x1 /\ m.y1 = h.y1
  BY <1>4, <1>5, <1>6, <1>7
<1>9. /\ e \in words \cup {w} /\ f \in words \cup {w}
      /\ g \in words \cup {w} /\ h \in words \cup {w}
      /\ \A v \in {e, f, g, h} : Contains(m, v)
  BY <1>3, <1>8
<1>10. QED BY <1>8, <1>9 DEF IsHull

\* A line that leaves a zone has a word that leaves it by the same edge.
LEMMA HullsLeaveByAWord ==
    ASSUME NEW words \in SUBSET Box, NEW l \in Box, NEW z \in Box,
           IsHull(l, words), ~Contains(z, l)
    PROVE  \E w \in words : Contains(l, w) /\ ~Contains(z, w)
<1>1. PICK a, b, c, d \in words :
          /\ \A v \in {a, b, c, d} : Contains(l, v)
          /\ l.x0 = a.x0 /\ l.y0 = b.y0 /\ l.x1 = c.x1 /\ l.y1 = d.y1
  BY DEF IsHull
<1>2. ~(/\ a.x0 >= z.x0 /\ b.y0 >= z.y0 /\ c.x1 <= z.x1 /\ d.y1 <= z.y1)
  BY <1>1 DEF Contains
<1>3. \E v \in {a, b, c, d} : ~Contains(z, v)
  BY <1>2 DEF Contains
<1>4. QED BY <1>1, <1>3

\* A word in a safe zone shows in its opening.
LEMMA SafeShows ==
    ASSUME NEW z \in Openings, NEW w \in Box, w.x0 <= w.x1, w.y0 < w.y1,
           Contains(Safe[z], w)
    PROVE  Intersects(Opening[z], w)
BY DEF Openings, Opening, Safe, Zone, Contains, Intersects, Box

LEMMA PagesHaveBoxes ==
    ASSUME NEW page \in Pages
    PROVE  /\ page.words \subseteq Box
           /\ page.drawings \subseteq Box
           /\ page.images \subseteq Box
           /\ \A w \in page.words : w.x0 <= w.x1 /\ w.y0 < w.y1
BY WindowsAssumption DEF Page

LEMMA LinesAreBoxes ==
    ASSUME NEW k \in Check PROVE Lines(k) \subseteq Box
BY DEF Check, Lines

-----------------------------------------------------------------------------
(* The report *)

LEMMA ProblemsTyped ==
    ASSUME NEW lines \in SUBSET Box, NEW page \in Pages
    PROVE  Problems(lines, page) \in SUBSET [about : Rules, line : Box \cup {None}]
BY DEF Problems, Rules, Visible, Openings

\* What the report names, problem by problem.
LEMMA ProblemsNameLines ==
    ASSUME NEW lines \in SUBSET Box, NEW page \in Pages, NEW l \in lines
    PROVE  /\ \A z \in Openings :
                 Intersects(Opening[z], l) /\ ~Contains(Safe[z], l)
                     => [about |-> z, line |-> l] \in Problems(lines, page)
           /\ Intersects(CertArea, l) => [about |-> "CERT", line |-> l] \in Problems(lines, page)
           /\ ~Contains(MarginBox, l) => [about |-> "margins", line |-> l] \in Problems(lines, page)
<1>1. ASSUME NEW z \in Openings, Intersects(Opening[z], l), ~Contains(Safe[z], l)
      PROVE  [about |-> z, line |-> l] \in Problems(lines, page)
  <2>1. l \in {v \in Visible(z, lines) : ~Contains(Safe[z], v)}
    BY <1>1 DEF Visible
  <2>2. [about |-> z, line |-> l] \in
            UNION {{[about |-> o, line |-> m] :
                       m \in {v \in Visible(o, lines) : ~Contains(Safe[o], v)}} : o \in Openings}
    BY <1>1, <2>1
  <2>3. QED BY <2>2 DEF Problems
<1>2. Intersects(CertArea, l) => [about |-> "CERT", line |-> l] \in Problems(lines, page)
  BY DEF Problems
<1>3. ~Contains(MarginBox, l) => [about |-> "margins", line |-> l] \in Problems(lines, page)
  BY DEF Problems
<1>4. QED BY <1>1, <1>2, <1>3

LEMMA ProblemsNameZones ==
    ASSUME NEW lines \in SUBSET Box, NEW page \in Pages, Problems(lines, page) = {}
    PROVE  /\ \A z \in Openings : \E l \in lines : Intersects(Opening[z], l)
           /\ \A b \in page.drawings \cup page.images : ~Intersects(CertArea, b)
<1>1. ASSUME NEW z \in Openings, Visible(z, lines) = {} PROVE FALSE
  <2>1. [about |-> z, line |-> None] \in Problems(lines, page)
    BY <1>1 DEF Problems
  <2>2. QED BY <2>1
<1>2. \A z \in Openings : \E l \in lines : Intersects(Opening[z], l)
  BY <1>1 DEF Visible
<1>3. ASSUME NEW b \in page.drawings \cup page.images, Intersects(CertArea, b) PROVE FALSE
  <2>1. [about |-> "CERT", line |-> None] \in Problems(lines, page)
    BY <1>3 DEF Problems
  <2>2. QED BY <2>1
<1>4. QED BY <1>2, <1>3

\* A finished check keeps its promise.
LEMMA DoneIsTrue ==
    ASSUME NEW k \in Check, LoopInv(k), ReportInv(k), k.at = "done"
    PROVE  /\ \A w \in k.page.words :
                  /\ \A z \in Openings :
                         Intersects(Opening[z], w) /\ ~Contains(Safe[z], w)
                             => ReportedFor(k, z, w)
                  /\ Intersects(CertArea, w) => ReportedFor(k, "CERT", w)
                  /\ ~Contains(MarginBox, w) => ReportedFor(k, "margins", w)
           /\ k.problems = {} => SafePage(k.page)
<1> DEFINE L == Lines(k)
<1>1. /\ k.page \in Pages /\ k.problems = Problems(L, k.page) /\ L \in SUBSET Box
      /\ Grouped(k) = k.page.words
  BY LinesAreBoxes DEF LoopInv, ReportInv, Grouped
<1>2. \A w \in k.page.words : w \in Box /\ \E l \in L : Contains(l, w)
  BY <1>1, PagesHaveBoxes DEF LoopInv
<1>3. \A l \in L : \E w \in k.page.words : Contains(l, w)
  BY <1>1 DEF LoopInv, IsHull
<1>4. ASSUME NEW w \in k.page.words
      PROVE  /\ \A z \in Openings :
                    Intersects(Opening[z], w) /\ ~Contains(Safe[z], w) => ReportedFor(k, z, w)
             /\ Intersects(CertArea, w) => ReportedFor(k, "CERT", w)
             /\ ~Contains(MarginBox, w) => ReportedFor(k, "margins", w)
  <2>1. PICK l \in L : Contains(l, w)
    BY <1>2
  <2>2. l \in Box /\ w \in Box /\ l # None
    BY <1>1, <1>2, WindowsAssumption
  <2>3. \A r : [about |-> r, line |-> l] \in Problems(L, k.page) => ReportedFor(k, r, w)
    <3>1. SUFFICES ASSUME NEW r, [about |-> r, line |-> l] \in Problems(L, k.page)
                   PROVE  ReportedFor(k, r, w)
      OBVIOUS
    <3>2. /\ [about |-> r, line |-> l].about = r
          /\ [about |-> r, line |-> l].line = l
      OBVIOUS
    <3>3. QED BY <1>1, <2>1, <2>2, <3>1, <3>2 DEF ReportedFor
  <2>4. \A z \in Box : /\ Intersects(z, w) => Intersects(z, l)
                       /\ ~Contains(z, w) => ~Contains(z, l)
    BY <2>1, <2>2, BreachesSpread
  <2>5. QED BY <1>1, <2>3, <2>4, ProblemsNameLines, ZonesAreBoxes
<1>5. ASSUME k.problems = {} PROVE SafePage(k.page)
  <2>1. \A w \in k.page.words :
            /\ \A z \in Openings : Intersects(Opening[z], w) => Contains(Safe[z], w)
            /\ ~Intersects(CertArea, w)
            /\ Contains(MarginBox, w)
    BY <1>4, <1>5 DEF ReportedFor
  <2>2. \A b \in k.page.drawings \cup k.page.images : ~Intersects(CertArea, b)
    BY <1>1, <1>5, ProblemsNameZones
  <2>3. ASSUME NEW z \in Openings
        PROVE  \E w \in k.page.words : Intersects(Opening[z], w)
    <3>1. PICK l \in L : Intersects(Opening[z], l)
      BY <1>1, <1>5, ProblemsNameZones
    <3>2. Contains(Safe[z], l)
      BY <1>1, <1>5, <3>1, ProblemsNameLines
    <3>3. PICK w \in k.page.words : Contains(l, w)
      BY <1>3
    <3>4. w \in Box /\ l \in Box /\ w.x0 <= w.x1 /\ w.y0 < w.y1
      BY <1>1, <1>2, PagesHaveBoxes
    <3>5. Contains(Safe[z], w)
      BY <3>2, <3>3, <3>4, ContainsIsTransitive, ZonesAreBoxes
    <3>6. QED BY <3>4, <3>5, SafeShows
  <2>4. QED BY <2>1, <2>2, <2>3 DEF SafePage
<1>6. QED BY <1>4, <1>5

\* What a finished report names is there.
LEMMA DoneIsExact ==
    ASSUME NEW k \in Check, LoopInv(k), ReportInv(k), k.at = "done", NEW p \in k.problems
    PROVE  /\ p.about = "margins" =>
                  \E w \in k.page.words : Contains(p.line, w) /\ ~Contains(MarginBox, w)
           /\ p.about \in Openings /\ p.line = None =>
                  \A w \in k.page.words : ~Intersects(Opening[p.about], w)
           /\ p.about = "CERT" /\ p.line = None =>
                  \E b \in k.page.drawings \cup k.page.images : Intersects(CertArea, b)
<1> DEFINE L == Lines(k)
<1>1. /\ k.page \in Pages /\ k.problems = Problems(L, k.page) /\ L \in SUBSET Box
      /\ Grouped(k) = k.page.words
  BY LinesAreBoxes DEF LoopInv, ReportInv, Grouped
<1>2. k.page.words \in SUBSET Box
  BY <1>1, PagesHaveBoxes
<1>3. /\ \A w \in k.page.words : \E l \in L : Contains(l, w)
      /\ \A l \in L : l # None /\ IsHull(l, k.page.words)
  BY <1>1, WindowsAssumption DEF LoopInv
<1>4. ASSUME p.about = "margins"
      PROVE  \E w \in k.page.words : Contains(p.line, w) /\ ~Contains(MarginBox, w)
  <2>1. p.line \in L /\ ~Contains(MarginBox, p.line)
    BY <1>1, <1>4 DEF Problems, Openings
  <2>2. QED BY <1>1, <1>2, <1>3, <2>1, HullsLeaveByAWord, ZonesAreBoxes
<1>5. ASSUME p.about \in Openings, p.line = None
      PROVE  \A w \in k.page.words : ~Intersects(Opening[p.about], w)
  <2>1. \A l \in L : ~Intersects(Opening[p.about], l)
    BY <1>1, <1>3, <1>5 DEF Problems, Openings, Visible
  <2>2. SUFFICES ASSUME NEW w \in k.page.words, Intersects(Opening[p.about], w) PROVE FALSE
    OBVIOUS
  <2>3. PICK l \in L : Contains(l, w)
    BY <1>3
  <2>4. QED BY <1>1, <1>2, <1>5, <2>1, <2>2, <2>3, BreachesSpread, ZonesAreBoxes
<1>6. ASSUME p.about = "CERT", p.line = None
      PROVE  \E b \in k.page.drawings \cup k.page.images : Intersects(CertArea, b)
  BY <1>1, <1>3, <1>6 DEF Problems, Openings
<1>7. QED BY <1>4, <1>5, <1>6

LEMMA CheckInvIsExact == CheckInv => ReportsAreExact
BY DoneIsExact DEF CheckInv, ReportsAreExact, ChecksTypeOK

LEMMA CheckInvSuffices == CheckInv => EveryBreachIsReported
BY DoneIsTrue DEF CheckInv, EveryBreachIsReported, ChecksTypeOK

-----------------------------------------------------------------------------
(* The steps *)

LEMMA IdleIsCheck == Idle \in Check /\ LoopInv(Idle) /\ ReportInv(Idle)
BY DEF Idle, Check, LoopInv, ReportInv

\* A step of one process changes its check to a sound one.
LEMMA OneChanges ==
    ASSUME CheckInv, NEW c \in Procs, NEW k \in Check, LoopInv(k), ReportInv(k),
           checks' = [checks EXCEPT ![c] = k]
    PROVE  CheckInv'
<1>1. checks' \in [Procs -> Check]
  BY DEF CheckInv, ChecksTypeOK
<1>2. \A d \in Procs : checks'[d] = IF d = c THEN k ELSE checks[d]
  BY DEF CheckInv, ChecksTypeOK
<1>3. QED BY <1>1, <1>2 DEF CheckInv, ChecksTypeOK

LEMMA OpenPageKeeps ==
    ASSUME CheckInv, NEW c \in Procs, NEW page \in Pages, OpenPage(c, page)
    PROVE  CheckInv'
<1> DEFINE k == IF IsLetterSize(page)
                THEN [Idle EXCEPT !.at = "grouping", !.page = page, !.left = page.words]
                ELSE [Idle EXCEPT !.at = "failed"]
<1>1. checks' = [checks EXCEPT ![c] = k]
  BY DEF OpenPage
<1>2. k \in Check
  BY PagesHaveBoxes DEF Idle, Check
<1>3. LoopInv(k) /\ ReportInv(k)
  BY DEF Idle, LoopInv, ReportInv, Grouped, Lines
<1>4. QED BY <1>1, <1>2, <1>3, OneChanges

LEMMA NextWordKeeps ==
    ASSUME CheckInv, NEW c \in Procs, NextWord(c)
    PROVE  CheckInv'
<1> DEFINE k == checks[c]
<1>1. k \in Check /\ LoopInv(k) /\ k.at = "grouping"
  BY DEF CheckInv, ChecksTypeOK, NextWord
<1>2. PICK w \in k.left :
          checks' = IF k.open # None /\ SameLine(k.open, w)
                    THEN [checks EXCEPT ![c].left = @ \ {w}, ![c].open = Merge(k.open, w)]
                    ELSE [checks EXCEPT ![c].left = @ \ {w}, ![c].open = w,
                              ![c].closed = @ \cup ({k.open} \ {None})]
  BY DEF NextWord
<1>3. /\ k.page \in Pages /\ k.left \subseteq k.page.words /\ w \in Box
      /\ k.page.words \subseteq Box
      /\ \A v \in k.page.words \ k.left : \E l \in Lines(k) : Contains(l, v)
      /\ \A l \in Lines(k) : IsHull(l, k.page.words \ k.left)
  BY <1>1, PagesHaveBoxes DEF LoopInv, Grouped
<1>4. CASE k.open # None /\ SameLine(k.open, w)
  <2> DEFINE j == [k EXCEPT !.left = @ \ {w}, !.open = Merge(k.open, w)]
  <2>1. checks' = [checks EXCEPT ![c] = j]
    BY <1>2, <1>4
  <2>2. k.open \in Box
    BY <1>1, <1>4 DEF Check
  <2>3. /\ Merge(k.open, w) \in Box /\ Merge(k.open, w) # None
        /\ Contains(Merge(k.open, w), k.open) /\ Contains(Merge(k.open, w), w)
    BY <1>3, <2>2, MergeCovers, WindowsAssumption
  <2>4. j \in Check /\ j.at = "grouping"
    BY <1>1, <2>3 DEF Check
  <2>5. /\ j.page = k.page /\ j.left = k.left \ {w}
        /\ Lines(j) = k.closed \cup {Merge(k.open, w)}
        /\ Lines(k) = k.closed \cup {k.open}
    BY <1>1, <1>4, <2>3 DEF Check, Lines
  <2>6. \A v \in j.page.words \ j.left : \E l \in Lines(j) : Contains(l, v)
    <3>1. SUFFICES ASSUME NEW v \in k.page.words, v \notin k.left \ {w}
                   PROVE  \E l \in Lines(j) : Contains(l, v)
      BY <2>5
    <3>2. CASE v = w
      BY <2>3, <2>5, <3>2
    <3>3. CASE v # w
      <4>1. PICK l \in Lines(k) : Contains(l, v)
        BY <1>3, <3>1, <3>3
      <4>2. CASE l \in k.closed
        BY <2>5, <4>1, <4>2
      <4>3. CASE l = k.open
        BY <1>3, <2>2, <2>3, <2>5, <3>1, <4>1, <4>3, ContainsIsTransitive
      <4>4. QED BY <2>5, <4>2, <4>3
    <3>4. QED BY <3>2, <3>3
  <2>7. \A l \in Lines(j) : IsHull(l, j.page.words \ j.left)
    <3>1. j.page.words \ j.left = (k.page.words \ k.left) \cup {w}
      BY <1>2, <1>3, <2>5
    <3>2. IsHull(Merge(k.open, w), j.page.words \ j.left)
      BY <1>3, <2>2, <2>5, <3>1, MergeIsHull
    <3>3. \A l \in k.closed : IsHull(l, j.page.words \ j.left)
      BY <1>3, <2>5, <3>1, HullsGrow
    <3>4. QED BY <2>5, <3>2, <3>3
  <2>8. LoopInv(j) /\ ReportInv(j)
    BY <1>3, <2>4, <2>5, <2>6, <2>7 DEF LoopInv, ReportInv, Grouped
  <2>9. QED BY <2>1, <2>4, <2>8, OneChanges
<1>5. CASE ~(k.open # None /\ SameLine(k.open, w))
  <2> DEFINE j == [k EXCEPT !.left = @ \ {w}, !.open = w,
                            !.closed = @ \cup ({k.open} \ {None})]
  <2>1. checks' = [checks EXCEPT ![c] = j]
    BY <1>2, <1>5
  <2>2. w # None
    BY <1>3, WindowsAssumption
  <2>3. j \in Check /\ j.at = "grouping"
    BY <1>1, <1>3 DEF Check
  <2>4. /\ j.page = k.page /\ j.left = k.left \ {w}
        /\ Lines(j) = Lines(k) \cup {w}
    BY <1>1, <2>2 DEF Check, Lines
  <2>5. Contains(w, w)
    BY <1>3, ContainsItself
  <2>6. \A v \in j.page.words \ j.left : \E l \in Lines(j) : Contains(l, v)
    BY <1>3, <2>4, <2>5
  <2>7. \A l \in Lines(j) : IsHull(l, j.page.words \ j.left)
    <3>1. j.page.words \ j.left = (k.page.words \ k.left) \cup {w}
      BY <1>2, <1>3, <2>4
    <3>2. QED BY <1>3, <2>4, <3>1, WordIsHull, HullsGrow
  <2>8. LoopInv(j) /\ ReportInv(j)
    BY <1>3, <2>3, <2>4, <2>6, <2>7 DEF LoopInv, ReportInv, Grouped
  <2>9. QED BY <2>1, <2>3, <2>8, OneChanges
<1>6. QED BY <1>4, <1>5

LEMMA ReportKeeps ==
    ASSUME CheckInv, NEW c \in Procs, Report(c)
    PROVE  CheckInv'
<1> DEFINE k == checks[c]
           j == [k EXCEPT !.at = "done", !.problems = Problems(Lines(k), k.page)]
<1>1. k \in Check /\ LoopInv(k) /\ k.at = "grouping" /\ k.left = {}
  BY DEF CheckInv, ChecksTypeOK, Report
<1>2. checks' = [checks EXCEPT ![c] = j]
  BY DEF Report
<1>3. k.page \in Pages /\ Lines(k) \in SUBSET Box
  BY <1>1, LinesAreBoxes DEF LoopInv
<1>4. j \in Check
  BY <1>1, <1>3, ProblemsTyped DEF Check
<1>5. /\ j.page = k.page /\ j.left = k.left /\ Lines(j) = Lines(k)
      /\ j.problems = Problems(Lines(j), j.page)
  BY <1>1 DEF Check, Lines
<1>6. LoopInv(j) /\ ReportInv(j)
  BY <1>1, <1>5 DEF LoopInv, ReportInv, Grouped
<1>7. QED BY <1>2, <1>4, <1>6, OneChanges

\* Every step of a check, the end of the process included.
LEMMA CheckSteps ==
    ASSUME CheckInv, NEW c \in Procs,
           \/ \E page \in Pages : OpenPage(c, page)
           \/ NextWord(c)
           \/ Report(c)
           \/ checks' = [checks EXCEPT ![c] = Idle]
           \/ UNCHANGED checks
    PROVE  CheckInv'
<1>1. ASSUME UNCHANGED checks PROVE CheckInv'
  BY <1>1 DEF CheckInv, ChecksTypeOK
<1>2. ASSUME checks' = [checks EXCEPT ![c] = Idle] PROVE CheckInv'
  BY <1>2, IdleIsCheck, OneChanges
<1>3. QED BY <1>1, <1>2, OpenPageKeeps, NextWordKeeps, ReportKeeps

LEMMA CheckInitHolds == CheckInit => CheckInv
BY IdleIsCheck DEF CheckInit, CheckInv, ChecksTypeOK

LEMMA CheckInvariant == CheckSpec => []CheckInv
<1>1. CheckInv /\ [CheckNext]_checks => CheckInv'
  <2>1. SUFFICES ASSUME CheckInv, [CheckNext]_checks PROVE CheckInv'
    OBVIOUS
  <2>2. ASSUME NEW c \in Procs, Leave(c) PROVE CheckInv'
    BY <2>1, <2>2, CheckSteps DEF Leave
  <2>3. ASSUME UNCHANGED checks PROVE CheckInv'
    BY <2>1, <2>3 DEF CheckInv, ChecksTypeOK
  <2>4. QED BY <2>1, <2>2, <2>3, OpenPageKeeps, NextWordKeeps, ReportKeeps DEF CheckNext
<1>2. QED BY <1>1, CheckInitHolds, PTL DEF CheckSpec

\* The window check by itself reports every breach, whatever words stand
\* together on a line.
THEOREM WindowCheckIsSound == CheckSpec => []EveryBreachIsReported
BY CheckInvariant, CheckInvSuffices, PTL

\* The window check by itself names no margin, no empty opening and no picture
\* that is in order.
THEOREM WindowReportsAreExact == CheckSpec => []ReportsAreExact
BY CheckInvariant, CheckInvIsExact, PTL
=============================================================================
