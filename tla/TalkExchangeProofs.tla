------------------------- MODULE TalkExchangeProofs -------------------------
(* One guest a week, for any number of weeks, entries, speakers and requests *)
(* whose calls mix in any order: whatever the journal, the line and the      *)
(* visit write, no week has two live entries.  A replacement or its undoing  *)
(* that fails leaves the week as it was, a guest set aside comes back, and a *)
(* visit leaves no trace.                                                    *)
EXTENDS TalkExchange, FiniteSetTheorems, WellFoundedInduction, TLAPS

----------------------------------------------------------------------------
(* The journal as a table.                                                  *)

\* A set of numbers has a least one.
LEMMA LeastOne ==
    ASSUME NEW T \in SUBSET Nat, T # {}
    PROVE \E x \in T : \A y \in T : x <= y
<1>1. IsWellFoundedOn(OpToRel(<, Nat), Nat)
  BY NatLessThanWellFounded
<1>2. PICK x \in T : \A y \in T : ~ (<<y, x>> \in OpToRel(<, Nat))
  BY <1>1, WFMin
<1>3. ASSUME NEW y \in T
      PROVE x <= y
  <2>1. ~(<<y, x>> \in OpToRel(<, Nat))
    BY <1>2
  <2>2. ~(y < x)
    BY <2>1 DEF OpToRel
  <2> QED
    BY <2>2
<1> QED
  BY <1>3
\* No two live entries stand in one week.
Single(d) ==
    \A e, f \in Ids :
      Standing(d.entry[e]) /\ Standing(d.entry[f]) /\ d.entry[e].week = d.entry[f].week => e = f

\* A database with its types and its one index.
Good(d) == d \in Database /\ Single(d)

\* What a call makes of a good database: a good one, with room where there was room.
Leads(d, x) == Good(x) /\ (Room(d) => Room(x))

LEMMA LeadsOn ==
    ASSUME NEW d, NEW x, NEW y, Leads(d, x), Leads(x, y)
    PROVE Leads(d, y)
BY DEF Leads

LEMMA LeadsToItself ==
    ASSUME NEW d, Good(d)
    PROVE Leads(d, d)
BY DEF Leads

\* Two live entries in a week are one: as counted, and as compared.
LEMMA SingleIsOne ==
    ASSUME NEW d \in Database
    PROVE Single(d) <=> \A w \in Week : Cardinality(Live(d, w)) <= 1
<1>0. Ids \subseteq Nat /\ IsFiniteSet(Ids)
  BY TalkConstants, FS_Interval DEF Ids
<1>1. ASSUME NEW w \in Week
      PROVE IsFiniteSet(Live(d, w)) /\ Cardinality(Live(d, w)) \in Nat
  <2>1. Live(d, w) \subseteq Ids
    BY DEF Live
  <2> QED
    BY <1>0, <2>1, FS_Subset, FS_CardinalityType
<1>2. ASSUME Single(d), NEW w \in Week
      PROVE Cardinality(Live(d, w)) <= 1
  <2>1. CASE Live(d, w) = {}
    BY <2>1, FS_EmptySet
  <2>2. CASE Live(d, w) # {}
    <3>1. PICK e \in Ids : e \in Live(d, w)
      BY <2>2 DEF Live
    <3>2. Live(d, w) = {e}
      BY <1>2, <3>1 DEF Live, Single
    <3>3. Cardinality({e}) = 1
      BY FS_Singleton
    <3> QED
      BY <3>2, <3>3
  <2> QED
    BY <2>1, <2>2
<1>3. ASSUME \A w \in Week : Cardinality(Live(d, w)) <= 1
      PROVE Single(d)
  <2> SUFFICES ASSUME NEW e \in Ids, NEW f \in Ids, Standing(d.entry[e]), Standing(d.entry[f]),
                      d.entry[e].week = d.entry[f].week, e # f
               PROVE FALSE
    BY DEF Single
  <2>1. PICK w \in Week : w = d.entry[e].week
    BY DEF Database, Row
  <2>2. {e, f} \subseteq Live(d, w)
    BY <2>1 DEF Live
  <2>3. IsFiniteSet({e, f}) /\ Cardinality({e, f}) = 2
    <3>1. {e, f} = {f} \cup {e}
      OBVIOUS
    <3>2. IsFiniteSet({f}) /\ Cardinality({f}) = 1
      BY FS_Singleton
    <3>3. IsFiniteSet({f} \cup {e}) /\ Cardinality({f} \cup {e}) = Cardinality({f}) + 1
      BY <3>2, FS_AddElement
    <3> QED
      BY <3>1, <3>2, <3>3
  <2>4. 2 <= Cardinality(Live(d, w))
    BY <1>1, <2>2, <2>3, FS_Subset
  <2> QED
    BY <1>1, <1>3, <2>4
<1> QED
  BY <1>2, <1>3

\* The entry a week has, if it has one.
LEMMA WeekEntryIs ==
    ASSUME NEW d \in Database, NEW w
    PROVE /\ weekEntry(d, w) \in Ids \cup {NoEntry}
          /\ weekEntry(d, w) # NoEntry =>
                /\ weekEntry(d, w) \in Ids
                /\ Standing(d.entry[weekEntry(d, w)])
                /\ d.entry[weekEntry(d, w)].week = w
          /\ weekEntry(d, w) = NoEntry => Live(d, w) = {}
<1>0. NoEntry \notin Ids
  BY TalkConstants DEF Ids, NoEntry
<1>1. CASE Live(d, w) = {}
  BY <1>1 DEF weekEntry
<1>2. CASE Live(d, w) # {}
  <2>1. weekEntry(d, w) \in Live(d, w)
    BY <1>2 DEF weekEntry
  <2> QED
    BY <1>0, <2>1 DEF Live
<1> QED
  BY <1>1, <1>2

\* Where there is room, a new row has a place.
LEMMA NewIdIs ==
    ASSUME NEW d \in Database, Room(d)
    PROVE NewId(d) \in Ids /\ d.entry[NewId(d)].at = "none"
<1>0. Ids \subseteq Nat /\ MaxEntries \in Nat
  BY TalkConstants DEF Ids
<1> DEFINE T == {e \in Ids : d.entry[e].at = "none"}
<1>1. T \in SUBSET Nat /\ T # {}
  BY <1>0 DEF Room
<1>2. PICK e \in T : \A x \in T : e <= x
  <2> HIDE DEF T
  <2> QED
    BY <1>1, LeastOne
<1>3. ASSUME NEW x \in 1..(e - 1)
      PROVE d.entry[x].at # "none"
  <2>1. x \in Ids /\ ~(e <= x)
    BY <1>0, <1>2 DEF Ids
  <2> QED
    BY <1>2, <2>1
<1>4. \E y \in Ids : d.entry[y].at = "none" /\ \A x \in 1..(y - 1) : d.entry[x].at # "none"
  BY <1>2, <1>3
<1> QED
  BY <1>4 DEF NewId

\* Of the entries removed, one is the latest.
LEMMA LastOfIs ==
    ASSUME NEW d \in Database, NEW S \in SUBSET Ids, S # {}
    PROVE LastOf(d, S) \in S
<1> DEFINE T == {MaxEntries - d.bin[e] : e \in S}
<1>0. MaxEntries \in Nat /\ \A e \in S : d.bin[e] \in 0..MaxEntries
  BY TalkConstants DEF Database
<1>1. T \in SUBSET Nat /\ T # {}
  BY <1>0
<1>2. PICK x \in T : \A y \in T : x <= y
  <2> HIDE DEF T
  <2> QED
    BY <1>1, LeastOne
<1>3. PICK e \in S : x = MaxEntries - d.bin[e]
  BY <1>2
<1>4. ASSUME NEW f \in S
      PROVE d.bin[f] <= d.bin[e]
  <2>1. MaxEntries - d.bin[e] <= MaxEntries - d.bin[f]
    BY <1>2, <1>3
  <2>2. d.bin[e] \in Nat /\ d.bin[f] \in Nat
    BY <1>0
  <2> QED
    BY <1>0, <2>1, <2>2
<1> QED
  BY <1>4 DEF LastOf

LEMMA BinsAreBins ==
    ASSUME NEW bin \in [Ids -> 0..MaxEntries], NEW e \in Ids
    PROVE OutOfBin(bin, e) \in [Ids -> 0..MaxEntries] /\ IntoBin(bin, e) \in [Ids -> 0..MaxEntries]
<1>0. MaxEntries \in Nat
  BY TalkConstants
<1>1. ASSUME NEW f \in Ids
      PROVE /\ (IF f = e THEN 0 ELSE IF 0 < bin[f] /\ bin[f] < bin[e] THEN bin[f] + 1 ELSE bin[f])
                 \in 0..MaxEntries
            /\ (IF f = e THEN MaxEntries ELSE IF bin[f] > bin[e] THEN bin[f] - 1 ELSE bin[f])
                 \in 0..MaxEntries
  BY <1>0
<1> QED
  BY <1>1 DEF OutOfBin, IntoBin

\* A week is taken by another's entry, or by none.
LEMMA NotTaken ==
    ASSUME NEW d, NEW e, NEW row, ~WeekTaken(d, e, row), Standing(row),
           NEW f \in Ids, Standing(d.entry[f]), d.entry[f].week = row.week
    PROVE f = e
BY DEF WeekTaken, Live

\* One row written, where it stands alone or does not stand, leaves the table in order.
LEMMA RowWritten ==
    ASSUME NEW d, Good(d), NEW e \in Ids, NEW row \in Row, ~WeekTaken(d, e, row),
           NEW bin \in [Ids -> 0..MaxEntries], NEW x, x \in Database,
           x.entry = [d.entry EXCEPT ![e] = row]
    PROVE Good(x)
<1>1. d \in Database /\ d.entry \in [Ids -> Row]
  BY DEF Good, Database
<1>2. ASSUME NEW f \in Ids, NEW g \in Ids, Standing(x.entry[f]), Standing(x.entry[g]),
             x.entry[f].week = x.entry[g].week
      PROVE f = g
  <2>1. \A h \in Ids : x.entry[h] = IF h = e THEN row ELSE d.entry[h]
    BY <1>1
  <2>2. CASE f = e /\ g # e
    BY <1>2, <2>1, <2>2, NotTaken
  <2>3. CASE f # e /\ g = e
    BY <1>2, <2>1, <2>3, NotTaken
  <2>4. CASE f # e /\ g # e
    BY <1>2, <2>1, <2>4 DEF Good, Single
  <2> QED
    BY <2>2, <2>3, <2>4
<1> QED
  BY <1>2 DEF Good, Single

LEMMA PutGood ==
    ASSUME NEW d, Good(d), NEW e \in Ids, NEW row \in Row, ~WeekTaken(d, e, row)
    PROVE Good(Put(d, e, row))
<1>1. d \in Database /\ d.entry \in [Ids -> Row] /\ d.bin \in [Ids -> 0..MaxEntries]
  BY DEF Good, Database
<1>2. OutOfBin(d.bin, e) \in [Ids -> 0..MaxEntries]
  BY <1>1, BinsAreBins
<1>3. Put(d, e, row).entry = [d.entry EXCEPT ![e] = row]
  BY <1>1 DEF Put, Database
<1>4. Put(d, e, row) \in Database
  BY <1>1, <1>2 DEF Put, Database
<1> QED
  BY <1>2, <1>3, <1>4, RowWritten

\* A row that is not taken: it does not stand, or its week is free.
LEMMA FreeWeek ==
    ASSUME NEW d, NEW e, NEW row, ~Standing(row) \/ Live(d, row.week) = {}
    PROVE ~WeekTaken(d, e, row)
BY DEF WeekTaken

LEMMA SetLineGood ==
    ASSUME NEW d, Good(d), NEW w \in Week, NEW l \in Line
    PROVE Leads(d, SetLine(d, w, l))
<1>1. SetLine(d, w, l) \in Database /\ SetLine(d, w, l).entry = d.entry
  BY DEF SetLine, Database, Good
<1> QED
  BY <1>1 DEF Leads, Good, Single, Room

\* A row rewritten that stands where it stood.
LEMMA RewrittenGood ==
    ASSUME NEW d, Good(d), NEW e \in Ids, NEW row \in Row,
           row.at = d.entry[e].at, row.held = d.entry[e].held, row.week = d.entry[e].week
    PROVE Leads(d, [d EXCEPT !.entry[e] = row])
<1> DEFINE x == [d EXCEPT !.entry[e] = row]
<1>1. x \in Database /\ x.entry = [d.entry EXCEPT ![e] = row] /\ d.entry \in [Ids -> Row]
  BY DEF Database, Good
<1>2. \A h \in Ids : x.entry[h].at = d.entry[h].at /\ x.entry[h].held = d.entry[h].held
                     /\ x.entry[h].week = d.entry[h].week
  BY <1>1
<1> HIDE DEF x
<1>3. Single(x)
  BY <1>2 DEF Single, Standing, Good
<1>4. Room(d) => Room(x)
  BY <1>2 DEF Room
<1> QED
  BY <1>1, <1>3, <1>4 DEF Leads, Good, x

LEMMA DeletedGood ==
    ASSUME NEW d, Good(d), NEW e \in Ids
    PROVE /\ Good(softDelete(d, e))
          /\ d.entry[e].at # "none" => Leads(d, softDelete(d, e))
          /\ \A f \in Ids : softDelete(d, e).entry[f]
                              = IF f = e THEN [d.entry[e] EXCEPT !.at = "gone"] ELSE d.entry[f]
<1> DEFINE x == softDelete(d, e)
           row == [d.entry[e] EXCEPT !.at = "gone"]
<1>1. d \in Database /\ d.entry \in [Ids -> Row] /\ d.bin \in [Ids -> 0..MaxEntries]
  BY DEF Good, Database
<1>2. row \in Row /\ row.at = "gone"
  <2>1. d.entry[e] \in Row
    BY <1>1
  <2> QED
    BY <2>1 DEF Row
<1>3. IntoBin(d.bin, e) \in [Ids -> 0..MaxEntries]
  BY <1>1, BinsAreBins
<1>4. x.entry = [d.entry EXCEPT ![e] = row]
  BY <1>1 DEF softDelete, Database
<1>5. x \in Database
  BY <1>1, <1>2, <1>3 DEF softDelete, Database
<1>6. ~WeekTaken(d, e, row)
  BY <1>2 DEF WeekTaken, Standing
<1> HIDE DEF x, row
<1>7. Good(x)
  BY <1>2, <1>3, <1>4, <1>5, <1>6, RowWritten
<1>8. \A f \in Ids : x.entry[f] = IF f = e THEN row ELSE d.entry[f]
  BY <1>1, <1>4
<1>9. d.entry[e].at # "none" => (Room(d) => Room(x))
  BY <1>8 DEF Room
<1> QED
  BY <1>7, <1>8, <1>9 DEF Leads, x, row

\* A removed entry put back where it does not stand beside another.
LEMMA BackGood ==
    ASSUME NEW d, Good(d), NEW e \in Ids, NEW row \in Row, ~WeekTaken(d, e, row),
           d.entry[e].at # "none"
    PROVE Leads(d, Put(d, e, row))
<1> DEFINE x == Put(d, e, row)
<1>1. d.entry \in [Ids -> Row] /\ x.entry = [d.entry EXCEPT ![e] = row]
  BY DEF Good, Database, Put
<1>2. Good(x)
  BY PutGood
<1>3. \A f \in Ids : f # e => x.entry[f] = d.entry[f]
  BY <1>1
<1> HIDE DEF x
<1>4. Room(d) => Room(x)
  BY <1>3 DEF Room
<1> QED
  BY <1>2, <1>4 DEF Leads, x

\* In a week with no entry, a row that says that week is not taken.
LEMMA FreeRow ==
    ASSUME NEW d \in Database, NEW w \in Week, weekEntry(d, w) = NoEntry,
           NEW e, NEW row, row.week = w
    PROVE ~WeekTaken(d, e, row)
BY WeekEntryIs, FreeWeek

----------------------------------------------------------------------------
(* What each operator makes of the tables.                                  *)

LEMMA ApplyGood ==
    ASSUME NEW d, Good(d), NEW e \in Ids, NEW row \in Row, NEW ow \in BOOLEAN
    PROVE Good(applyIncomingToProgram(d, e, row, ow))
<1> DEFINE w == row.week
           l == d.line[w]
           line == [l EXCEPT !.who = row.who, !.link = e]
           off == [row EXCEPT !.off = TRUE]
<1>1. w \in Week /\ l \in Line /\ row.who \in Speakers
  BY DEF Good, Database, Row
<1>2. line \in Line
  BY <1>1 DEF Line
<1>3. off \in Row /\ off.week = w /\ (Standing(off) <=> Standing(row))
  BY DEF Row, Standing
<1>4. ~WeekTaken(d, e, row) => ~WeekTaken(d, e, off)
  BY <1>3 DEF WeekTaken
<1>5. ~WeekTaken(d, e, row) => Good(Put(d, e, off))
  BY <1>3, <1>4, PutGood
<1>6. Good(SetLine(d, w, line))
  BY <1>1, <1>2, SetLineGood DEF Leads
<1>7. applyIncomingToProgram(d, e, row, ow) = d
      \/ (~WeekTaken(d, e, row) /\ applyIncomingToProgram(d, e, row, ow) = Put(d, e, off))
      \/ applyIncomingToProgram(d, e, row, ow) = SetLine(d, w, line)
  BY DEF applyIncomingToProgram
<1> QED
  BY <1>5, <1>6, <1>7

LEMMA ApplyNowGood ==
    ASSUME NEW d, Good(d), NEW e \in Ids
    PROVE Good(ApplyNow(d, e))
<1>1. d.entry[e] \in Row
  BY DEF Good, Database
<1> QED
  BY <1>1, ApplyGood DEF ApplyNow

LEMMA FillGood ==
    ASSUME NEW d, Good(d), NEW w \in Week
    PROVE Good(fillEmptySlot(d, w))
<1>1. weekEntry(d, w) # NoEntry => weekEntry(d, w) \in Ids
  BY WeekEntryIs DEF Good
<1> QED
  BY <1>1, ApplyNowGood DEF fillEmptySlot

LEMMA ClearGood ==
    ASSUME NEW d, Good(d), NEW e \in Ids, NEW row \in Row
    PROVE Good(clearProgramSlot(d, e, row))
<1> DEFINE l == [d.line[row.week] EXCEPT !.who = NoOne, !.link = NoEntry]
<1>1. row.week \in Week /\ d.line[row.week] \in Line
  BY DEF Good, Database, Row
<1>2. l \in Line
  BY <1>1 DEF Line
<1>3. Good(SetLine(d, row.week, l))
  BY <1>1, <1>2, SetLineGood DEF Leads
<1> QED
  BY <1>3 DEF clearProgramSlot

LEMMA ReleaseGood ==
    ASSUME NEW d, Good(d), NEW w \in Week, NEW e \in Ids
    PROVE Good(releaseLine(d, w, e))
<1>1. d.entry[e] \in Row
  BY DEF Good, Database
<1>2. [d.entry[e] EXCEPT !.week = w] \in Row
  BY <1>1 DEF Row
<1> QED
  BY <1>2, ClearGood DEF releaseLine

LEMMA UndeleteGood ==
    ASSUME NEW d, Good(d), NEW w \in Week, NEW e \in Ids, weekEntry(d, w) = NoEntry,
           d.entry[e].at = "gone", d.entry[e].week = w
    PROVE Leads(d, Undelete(d, e))
<1> DEFINE row == [d.entry[e] EXCEPT !.at = "live"]
<1>1. d \in Database /\ d.entry[e] \in Row
  BY DEF Good, Database
<1>2. row \in Row /\ row.week = w
  BY <1>1 DEF Row
<1>3. ~WeekTaken(d, e, row)
  BY <1>1, <1>2, FreeRow
<1> QED
  BY <1>2, <1>3, BackGood DEF Undelete

LEMMA LineRestoredGood ==
    ASSUME NEW d, Good(d), NEW w \in Week, NEW restored \in BOOLEAN
    PROVE Leads(d, LineRestored(d, w, restored))
<1>1. d.line[w].link \in Ids \cup {NoEntry}
  BY DEF Good, Database, Line
<1> QED
  BY <1>1, UndeleteGood, LeadsToItself DEF LineRestored

LEMMA EmptiedGood ==
    ASSUME NEW d, Good(d), NEW w \in Week, NEW e \in Ids \cup {NoEntry}
    PROVE Good(Emptied(d, w, e))
<1>1. [d.line[w] EXCEPT !.link = NoEntry] \in Line
  BY DEF Good, Database, Line
<1>2. Good(SetLine(d, w, [d.line[w] EXCEPT !.link = NoEntry]))
  BY <1>1, SetLineGood DEF Leads
<1>3. e # NoEntry => Good(softDelete(d, e))
  BY DeletedGood
<1> QED
  BY <1>2, <1>3 DEF Emptied

\* The application's own row for a speaker the line names.
LEMMA NewRowIs ==
    ASSUME NEW w \in Week, NEW g \in Speakers, NEW hand \in {"app", "own", "noted"}
    PROVE NewRow(w, g, hand) \in Row /\ NewRow(w, g, hand).week = w
BY DEF NewRow, Row

LEMMA MirroredGood ==
    ASSUME NEW d, Good(d), Room(d), NEW w \in Week, NEW e \in Ids \cup {NoEntry},
           e = NoEntry => weekEntry(d, w) = NoEntry,
           d.line[w].who # NoOne
    PROVE Good(Mirrored(d, w, e))
<1> DEFINE g == d.line[w].who
           x == IF e = NoEntry THEN NewId(d) ELSE e
           d2 == IF e = NoEntry THEN Put(d, x, NewRow(w, g, "app")) ELSE [d EXCEPT !.entry[e].who = g]
           l == [d.line[w] EXCEPT !.link = x]
<1>0. d \in Database /\ g \in Speakers /\ d.line[w] \in Line /\ NoEntry \notin Ids
  BY TalkConstants DEF Good, Database, Line, Ids, NoEntry
<1>1. x \in Ids
  BY <1>0, NewIdIs
<1>2. l \in Line
  BY <1>0, <1>1 DEF Line
<1>3. Good(d2)
  <2>1. CASE e = NoEntry
    <3>1. NewRow(w, g, "app") \in Row /\ NewRow(w, g, "app").week = w
      BY <1>0, NewRowIs
    <3>2. ~WeekTaken(d, x, NewRow(w, g, "app"))
      BY <1>0, <2>1, <3>1, FreeRow
    <3> QED
      BY <1>1, <2>1, <3>1, <3>2, PutGood
  <2>2. CASE e # NoEntry
    <3>1. d.entry[e] \in Row /\ e \in Ids
      BY <1>0, <2>2 DEF Database
    <3> DEFINE row == [d.entry[e] EXCEPT !.who = g]
    <3>2. /\ row \in Row
          /\ row.at = d.entry[e].at /\ row.held = d.entry[e].held /\ row.week = d.entry[e].week
      BY <1>0, <3>1 DEF Row
    <3>3. d2 = [d EXCEPT !.entry[e] = row]
      BY <2>2
    <3> HIDE DEF row, d2
    <3> QED
      BY <3>1, <3>2, <3>3, RewrittenGood DEF Leads
  <2> QED
    BY <2>1, <2>2
<1> HIDE DEF l, d2, x
<1>4. Good(SetLine(d2, w, l))
  BY <1>2, <1>3, SetLineGood DEF Leads
<1> QED
  BY <1>3, <1>4 DEF Mirrored, l, d2, x

\* The mark "no talk" of an entry changes nothing of where it stands.
LEMMA OffGood ==
    ASSUME NEW d, Good(d), NEW e \in Ids, NEW off \in BOOLEAN
    PROVE Good([d EXCEPT !.entry[e].off = off])
<1> DEFINE row == [d.entry[e] EXCEPT !.off = off]
<1>1. /\ row \in Row
      /\ row.at = d.entry[e].at /\ row.held = d.entry[e].held /\ row.week = d.entry[e].week
  BY DEF Good, Database, Row
<1>2. [d EXCEPT !.entry[e].off = off] = [d EXCEPT !.entry[e] = row]
  OBVIOUS
<1> HIDE DEF row
<1> QED
  BY <1>1, <1>2, RewrittenGood DEF Leads

LEMMA SyncGood ==
    ASSUME NEW d, Good(d), Room(d), NEW w \in Week, NEW changed \in BOOLEAN, NEW restored \in BOOLEAN
    PROVE Good(syncProgramToJournal(d, w, changed, restored))
<1> DEFINE x == LineRestored(d, w, restored)
           l == x.line[w]
           e == weekEntry(x, w)
           marked == [x EXCEPT !.entry[e].off = TRUE]
           unmarked == ApplyNow([x EXCEPT !.entry[e].off = FALSE], e)
<1>1. Good(x) /\ Room(x)
  BY LineRestoredGood DEF Leads
<1>2. e \in Ids \cup {NoEntry} /\ (e # NoEntry => e \in Ids)
  BY <1>1, WeekEntryIs DEF Good
<1>3. e # NoEntry => Good(marked)
  BY <1>1, <1>2, OffGood
<1>4. e # NoEntry => Good(unmarked)
  BY <1>1, <1>2, OffGood, ApplyNowGood
<1>5. e # NoEntry => Good(ApplyNow(x, e))
  BY <1>1, <1>2, ApplyNowGood
<1>6. Good(Emptied(x, w, e))
  BY <1>1, <1>2, EmptiedGood
<1>7. l.who # NoOne => Good(Mirrored(x, w, e))
  BY <1>1, <1>2, MirroredGood
<1>8. syncProgramToJournal(d, w, changed, restored)
        = CASE Seen(l) /\ l.at = "cancelled" -> IF e = NoEntry THEN x ELSE marked
            [] e # NoEntry /\ x.entry[e].off /\ ~weekCancelled(x, w) -> unmarked
            [] OTHER ->
                 IF ~changed
                 THEN IF e # NoEntry /\ (l.link # e \/ l.who = NoOne) THEN ApplyNow(x, e) ELSE x
                 ELSE IF ~Seen(l) \/ l.who = NoOne THEN Emptied(x, w, e) ELSE Mirrored(x, w, e)
  BY DEF syncProgramToJournal
<1> HIDE DEF x, l, e, marked, unmarked
<1> QED
  BY <1>1, <1>3, <1>4, <1>5, <1>6, <1>7, <1>8

----------------------------------------------------------------------------
(* The visit.                                                               *)

LEMMA SetAsideGood ==
    ASSUME NEW d, Good(d), NEW e \in Ids, d.entry[e].at # "none"
    PROVE Leads(d, setAside(d, e))
<1> DEFINE row == [d.entry[e] EXCEPT !.aside = TRUE]
           x == [d EXCEPT !.entry[e] = row]
<1>1. /\ row \in Row
      /\ row.at = d.entry[e].at /\ row.held = d.entry[e].held /\ row.week = d.entry[e].week
  BY ZenonT(40) DEF Good, Database, Row
<1>2. [d EXCEPT !.entry[e].aside = TRUE] = x
  OBVIOUS
<1>3. x.entry[e].at = d.entry[e].at
  BY <1>1 DEF Good, Database
<1>4. Leads(d, x)
  <2> HIDE DEF row
  <2> QED
    BY <1>1, RewrittenGood
<1> HIDE DEF x, row
<1>5. Leads(x, softDelete(x, e))
  BY <1>3, <1>4, DeletedGood DEF Leads
<1> QED
  BY <1>2, <1>4, <1>5, LeadsOn DEF setAside

LEMMA StepAsideGood ==
    ASSUME NEW d, Good(d), NEW w \in Week
    PROVE Leads(d, StepAside(d, w))
<1>1. weekEntry(d, w) # NoEntry => weekEntry(d, w) \in Ids /\ d.entry[weekEntry(d, w)].at # "none"
  BY WeekEntryIs DEF Good, Standing
<1> QED
  BY <1>1, SetAsideGood, LeadsToItself DEF StepAside

LEMMA LinkedGood ==
    ASSUME NEW d, Good(d), NEW w \in Week
    PROVE Leads(d, Linked(d, w))
<1> DEFINE e == weekEntry(d, w)
           row == [d.entry[e] EXCEPT !.his = TRUE]
<1>1. e # NoEntry => e \in Ids
  BY WeekEntryIs DEF Good
<1>2. e # NoEntry => /\ row \in Row
                     /\ row.at = d.entry[e].at /\ row.held = d.entry[e].held /\ row.week = d.entry[e].week
  BY <1>1 DEF Good, Database, Row
<1>3. [d EXCEPT !.entry[e].his = TRUE] = [d EXCEPT !.entry[e] = row]
  OBVIOUS
<1>4. e # NoEntry => Leads(d, [d EXCEPT !.entry[e] = row])
  <2> HIDE DEF row, e
  <2> QED
    BY <1>1, <1>2, RewrittenGood
<1> QED
  BY <1>3, <1>4, LeadsToItself DEF Linked

LEMMA OwnBackGood ==
    ASSUME NEW d, Good(d), NEW w \in Week
    PROVE Leads(d, OwnBack(d, w))
<1> DEFINE gone == overseerEntries(d, w, "gone")
           back == LastOf(d, gone)
           row == [d.entry[back] EXCEPT !.at = "live", !.his = TRUE]
<1>1. CASE weekEntry(d, w) = NoEntry /\ gone # {}
  <2>1. d \in Database /\ gone \in SUBSET Ids
    BY DEF Good, overseerEntries
  <2>2. back \in gone
    <3> HIDE DEF gone
    <3> QED
      BY <1>1, <2>1, LastOfIs
  <2>3. back \in Ids /\ d.entry[back].at = "gone" /\ d.entry[back].week = w
    BY <2>2 DEF overseerEntries
  <2> HIDE DEF back, gone
  <2>4. row \in Row /\ row.week = w
    BY <2>1, <2>3, ZenonT(40) DEF Database, Row
  <2>5. ~WeekTaken(d, back, row)
    BY <1>1, <2>1, <2>4, FreeRow
  <2>6. Leads(d, Put(d, back, row))
    BY <2>3, <2>4, <2>5, BackGood
  <2> QED
    BY <1>1, <2>6 DEF OwnBack, back, gone
<1>2. CASE ~(weekEntry(d, w) = NoEntry /\ gone # {})
  BY <1>2, LeadsToItself DEF OwnBack
<1> QED
  BY <1>1, <1>2

LEMMA FromVisitGood ==
    ASSUME NEW d, Good(d), Room(d), NEW w \in Week
    PROVE Good(FromVisit(d, w))
<1> DEFINE e == weekEntry(d, w)
           new == [NewRow(w, Overseer, "own") EXCEPT !.his = TRUE]
           row == [d.entry[e] EXCEPT !.who = Overseer]
<1>0. d \in Database
  BY DEF Good
<1>1. e # NoEntry => e \in Ids
  BY <1>0, WeekEntryIs
<1>2. new \in Row /\ new.week = w
  BY DEF NewRow, Row, Speakers
<1>3. e = NoEntry => Good(Put(d, NewId(d), new))
  <2> HIDE DEF new
  <2> QED
    BY <1>0, <1>2, FreeRow, NewIdIs, PutGood
<1>4. e # NoEntry => /\ row \in Row
                     /\ row.at = d.entry[e].at /\ row.held = d.entry[e].held /\ row.week = d.entry[e].week
  BY <1>0, <1>1 DEF Database, Row, Speakers
<1>5. [d EXCEPT !.entry[e].who = Overseer] = [d EXCEPT !.entry[e] = row]
  OBVIOUS
<1>6. e # NoEntry => Good([d EXCEPT !.entry[e] = row])
  <2> HIDE DEF row, e
  <2> QED
    BY <1>1, <1>4, RewrittenGood DEF Leads
<1> QED
  BY <1>3, <1>5, <1>6 DEF FromVisit

LEMMA AppliedGood ==
    ASSUME NEW d, Good(d), Room(d), NEW w \in Week
    PROVE Good(circuitVisitApplied(d, w))
<1> DEFINE a == StepAside(d, w)
           b == Linked(a, w)
           c == OwnBack(b, w)
           s == syncProgramToJournal(c, w, TRUE, FALSE)
<1>1. Good(a) /\ Room(a)
  BY StepAsideGood DEF Leads
<1> HIDE DEF a
<1>2. Good(b) /\ Room(b)
  BY <1>1, LinkedGood DEF Leads
<1> HIDE DEF b
<1>3. Good(c) /\ Room(c)
  BY <1>2, OwnBackGood DEF Leads
<1> HIDE DEF c
<1>4. Good(s) /\ Good(FromVisit(c, w))
  BY <1>3, SyncGood, FromVisitGood
<1> HIDE DEF s
<1>5. Good(Linked(s, w))
  BY <1>4, LinkedGood DEF Leads
<1> QED
  BY <1>4, <1>5 DEF circuitVisitApplied, s, c, b, a

LEMMA ReturnGood ==
    ASSUME NEW d, Good(d), NEW w \in Week
    PROVE Leads(d, returnEntry(d, w))
<1> DEFINE marked == {e \in Ids : d.entry[e].aside /\ d.entry[e].at = "gone" /\ d.entry[e].week = w}
           named == {e \in Ids : /\ Seen(d.line[w]) /\ d.entry[e].at = "gone" /\ d.entry[e].held
                                 /\ d.entry[e].week = w /\ d.entry[e].who = d.line[w].who}
           m == LastOf(d, marked)
           n == LastOf(d, named)
           row == [d.entry[m] EXCEPT !.at = "live", !.aside = FALSE]
<1>0. d \in Database /\ marked \in SUBSET Ids /\ named \in SUBSET Ids
  BY DEF Good
<1>1. marked # {} => m \in marked
  <2> HIDE DEF marked
  <2> QED
    BY <1>0, LastOfIs
<1>2. named # {} => n \in named
  <2> HIDE DEF named
  <2> QED
    BY <1>0, LastOfIs
<1>3. CASE weekEntry(d, w) = NoEntry /\ marked # {}
  <2>1. m \in Ids /\ d.entry[m].at = "gone" /\ d.entry[m].week = w
    BY <1>1, <1>3
  <2>2. row \in Row /\ row.week = w
    BY <1>0, <2>1, ZenonT(40) DEF Database, Row
  <2> HIDE DEF row, m
  <2>3. ~WeekTaken(d, m, row)
    BY <1>0, <1>3, <2>2, FreeRow
  <2>4. Leads(d, Put(d, m, row))
    BY <2>1, <2>2, <2>3, BackGood
  <2>5. returnEntry(d, w) = Bring(d, m)
    BY <1>3 DEF returnEntry, m
  <2> QED
    BY <2>4, <2>5 DEF Bring, row
<1>4. CASE weekEntry(d, w) = NoEntry /\ marked = {} /\ named # {}
  <2>1. n \in Ids /\ d.entry[n].at = "gone" /\ d.entry[n].week = w
    BY <1>2, <1>4
  <2> HIDE DEF n
  <2>2. Leads(d, Undelete(d, n))
    BY <1>4, <2>1, UndeleteGood
  <2>3. returnEntry(d, w) = Undelete(d, n)
    BY <1>4 DEF returnEntry, n
  <2> QED
    BY <2>2, <2>3
<1>5. CASE weekEntry(d, w) # NoEntry \/ (marked = {} /\ named = {})
  <2>1. returnEntry(d, w) = d
    BY <1>5 DEF returnEntry
  <2> QED
    BY <2>1, LeadsToItself
<1> QED
  BY <1>3, <1>4, <1>5

LEMMA GoneGood ==
    ASSUME NEW d, Good(d), NEW w \in Week
    PROVE Leads(d, Gone(d, overseerEntries(d, w, "live")))
<1> DEFINE S == overseerEntries(d, w, "live")
           e == CHOOSE x \in S : TRUE
<1>1. S # {} => e \in Ids /\ d.entry[e].at # "none"
  BY DEF overseerEntries
<1> HIDE DEF e
<1>2. S # {} => Leads(d, softDelete(d, e))
  BY <1>1, DeletedGood
<1>3. Gone(d, S) = IF S = {} THEN d ELSE softDelete(d, e)
  BY DEF Gone, e
<1> QED
  BY <1>2, <1>3, LeadsToItself

LEMMA RemovedGood ==
    ASSUME NEW d, Good(d), Room(d), NEW w \in Week
    PROVE Good(circuitVisitRemoved(d, w))
<1> DEFINE a == Gone(d, overseerEntries(d, w, "live"))
           b == returnEntry(a, w)
<1>1. Good(a) /\ Room(a)
  BY GoneGood DEF Leads
<1> HIDE DEF a
<1>2. Good(b) /\ Room(b)
  BY <1>1, ReturnGood DEF Leads
<1> HIDE DEF b
<1>3. Good(syncProgramToJournal(b, w, TRUE, FALSE))
  BY <1>2, SyncGood
<1> QED
  BY <1>3 DEF circuitVisitRemoved, b, a

\* An entry goes with the visit to a week that nobody stands in.
LEMMA GoesWithGood ==
    ASSUME NEW d, Good(d), NEW e \in Ids, Standing(d.entry[e]), NEW to \in Week, Live(d, to) = {}
    PROVE Leads(d, [d EXCEPT !.entry[e].week = to])
<1> DEFINE row == [d.entry[e] EXCEPT !.week = to]
           x == [d EXCEPT !.entry[e].week = to]
<1>1. d \in Database /\ d.entry \in [Ids -> Row] /\ d.entry[e] \in Row
  BY DEF Good, Database
<1>2. row \in Row /\ row.week = to /\ row.at = "live"
  BY <1>1 DEF Row, Standing
<1>3. x \in Database /\ x.entry = [d.entry EXCEPT ![e] = row]
  BY <1>1, <1>2 DEF Database
<1> HIDE DEF row, x
<1>4. ~WeekTaken(d, e, row)
  BY <1>2, FreeWeek
<1>5. d.bin \in [Ids -> 0..MaxEntries]
  BY <1>1 DEF Database
<1>6. Good(x)
  BY <1>2, <1>3, <1>4, <1>5, RowWritten
<1>7. \A f \in Ids : f # e => x.entry[f] = d.entry[f]
  BY <1>1, <1>3
<1>8. Room(d) => Room(x)
  BY <1>7 DEF Room, Standing
<1> QED
  BY <1>6, <1>8 DEF Leads, x

LEMMA VisitMovedGood ==
    ASSUME NEW d, Good(d), Room(d), NEW from \in Week, NEW to \in Week
    PROVE Good(circuitVisitMoved(d, from, to))
<1> DEFINE S == overseerEntries(d, from, "live")
           e == CHOOSE x \in S : TRUE
           a == IF Live(d, to) # {} \/ S = {} THEN Gone(d, S) ELSE [d EXCEPT !.entry[e].week = to]
           b == returnEntry(a, from)
<1>1. S # {} => e \in Ids /\ Standing(d.entry[e])
  BY DEF overseerEntries, Standing
<1>2. Leads(d, Gone(d, S))
  BY GoneGood
<1> HIDE DEF e
<1>3. S # {} /\ Live(d, to) = {} => Leads(d, [d EXCEPT !.entry[e].week = to])
  BY <1>1, GoesWithGood
<1>4. Good(a) /\ Room(a)
  BY <1>2, <1>3 DEF Leads
<1>5. circuitVisitMoved(d, from, to) = syncProgramToJournal(b, from, TRUE, FALSE)
  BY DEF circuitVisitMoved, e
<1> HIDE DEF a
<1>6. Good(b) /\ Room(b)
  BY <1>4, ReturnGood DEF Leads
<1> HIDE DEF b
<1> QED
  BY <1>5, <1>6, SyncGood

\* Lines and visit rewritten: the journal stays as it is.
LEMMA JournalKept ==
    ASSUME NEW d, Good(d), NEW x, x \in Database, x.entry = d.entry
    PROVE Good(x)
BY DEF Good, Single

LEMMA TemplateGood ==
    ASSUME NEW d, Good(d)
    PROVE Good(templateApply(d))
<1> DEFINE v == d.visit
           w == v.week
           l == d.line[w]
           handOver == Seen(l) /\ v.prev = NoPrev /\ (v.done => l.who # Overseer)
           prev == IF ~handOver THEN v.prev ELSE IF l.who = Overseer THEN NoOne ELSE l.who
           who == IF handOver THEN Overseer ELSE l.who
           x == [d EXCEPT !.visit.done = TRUE, !.visit.prev = prev, !.line[w].who = who]
<1>1. d \in Database /\ v \in Visit /\ w \in Week /\ l \in Line
  BY DEF Good, Database, Visit
<1>2. prev \in Speakers \cup {NoOne, NoPrev} /\ who \in Speakers \cup {NoOne}
  BY <1>1 DEF Visit, Line, Speakers
<1>3. templateApply(d) = d \/ templateApply(d) = x
  BY DEF templateApply
<1> HIDE DEF prev, who, handOver
<1>4. [v EXCEPT !.done = TRUE, !.prev = prev] \in Visit
  BY <1>1, <1>2 DEF Visit
<1>5. [l EXCEPT !.who = who] \in Line
  BY <1>1, <1>2 DEF Line
<1>6. x \in Database /\ x.entry = d.entry
  BY <1>1, <1>4, <1>5 DEF Database
<1> HIDE DEF x
<1> QED
  BY <1>3, <1>6, JournalKept

LEMMA RevertGood ==
    ASSUME NEW d, Good(d), NEW v \in Visit
    PROVE Good(templateRevert(d, v))
<1> DEFINE l == d.line[v.week]
           who == IF v.prev # NoPrev /\ Seen(l) THEN v.prev ELSE l.who
           visit == [v EXCEPT !.done = FALSE, !.prev = NoPrev]
           x == [d EXCEPT !.visit = visit, !.line[v.week].who = who]
<1>1. d \in Database /\ v.week \in Week /\ l \in Line
  BY DEF Good, Database, Visit
<1>2. who \in Speakers \cup {NoOne} /\ visit \in Visit
  BY <1>1 DEF Visit, Line
<1>3. templateRevert(d, v) = d \/ templateRevert(d, v) = x
  BY DEF templateRevert
<1> HIDE DEF who, visit
<1>4. [l EXCEPT !.who = who] \in Line
  BY <1>1, <1>2 DEF Line
<1>5. x \in Database /\ x.entry = d.entry
  BY <1>1, <1>2, <1>4 DEF Database
<1> HIDE DEF x
<1> QED
  BY <1>3, <1>5, JournalKept

LEMMA SpeakerGood ==
    ASSUME NEW d, Good(d)
    PROVE Good(syncSpeaker(d))
<1> DEFINE w == d.visit.week
           x == [d EXCEPT !.line[w].who = Overseer]
<1>1. d \in Database /\ w \in Week /\ d.line[w] \in Line
  BY DEF Good, Database, Visit
<1>2. [d.line[w] EXCEPT !.who = Overseer] \in Line
  BY <1>1 DEF Line, Speakers
<1>3. x \in Database /\ x.entry = d.entry
  BY <1>1, <1>2 DEF Database
<1>4. Good(x)
  <2> HIDE DEF x
  <2> QED
    BY <1>3, JournalKept
<1> QED
  BY <1>4 DEF syncSpeaker

----------------------------------------------------------------------------
(* Moves, and what is put back.                                             *)

LEMMA MovedToTyped ==
    ASSUME NEW d \in Database, NEW e \in Ids \cup {NoEntry}, NEW w \in Week
    PROVE MovedTo(d, e, w) \in Database
<1> DEFINE row == [d.entry[e] EXCEPT !.at = "live", !.week = w]
<1>1. e # NoEntry => row \in Row
  BY ZenonT(40) DEF Database, Row
<1>2. e # NoEntry => OutOfBin(d.bin, e) \in [Ids -> 0..MaxEntries]
  BY BinsAreBins DEF Database
<1> HIDE DEF row
<1>3. e # NoEntry => Put(d, e, row) \in Database
  BY <1>1, <1>2 DEF Put, Database
<1> QED
  BY <1>3 DEF MovedTo, row

LEMMA MovedGood ==
    ASSUME NEW d, Good(d), NEW c,
           c.e \in Ids \cup {NoEntry}, c.x \in Ids \cup {NoEntry}, c.to \in Week, c.from \in Week,
           ~(\E w \in Week : Cardinality(Live(Moved(d, c), w)) > 1)
    PROVE Good(Moved(d, c))
<1> DEFINE x == Moved(d, c)
<1>1. x \in Database
  <2>1. MovedTo(d, c.e, c.to) \in Database
    BY MovedToTyped DEF Good
  <2> QED
    BY <2>1, MovedToTyped DEF Moved
<1>2. \A w \in Week : Cardinality(Live(x, w)) \in Nat
  <2>1. IsFiniteSet(Ids)
    <3>1. MaxEntries \in Nat
      BY TalkConstants
    <3> QED
      BY <3>1, FS_Interval DEF Ids
  <2>2. \A w \in Week : Live(x, w) \subseteq Ids
    BY DEF Live
  <2> QED
    BY <2>1, <2>2, FS_Subset, FS_CardinalityType
<1> HIDE DEF x
<1>3. \A w \in Week : Cardinality(Live(x, w)) <= 1
  BY <1>2 DEF x
<1>4. Single(x)
  BY <1>1, <1>3, SingleIsOne
<1> QED
  BY <1>1, <1>4 DEF Good, x

LEMMA RowBackGood ==
    ASSUME NEW d, Good(d), NEW x \in Ids \X Row
    PROVE Good(RowBack(d, x))
<1>1. x[1] \in Ids /\ x[2] \in Row
  OBVIOUS
<1> QED
  BY <1>1, PutGood DEF RowBack

LEMMA RestoredGood ==
    ASSUME NEW d, Good(d), NEW rows \in Seq(Ids \X Row)
    PROVE Good(Restored(d, rows))
<1>1. Len(rows) \in Nat /\ \A i \in 1..Len(rows) : rows[i] \in Ids \X Row
  OBVIOUS
<1>2. CASE Len(rows) = 0
  BY <1>2 DEF Restored
<1>3. CASE Len(rows) = 1
  BY <1>1, <1>3, RowBackGood DEF Restored
<1>4. CASE Len(rows) # 0 /\ Len(rows) # 1
  <2>a. \A n \in Nat : n # 0 /\ n # 1 => 1 \in 1..n /\ 2 \in 1..n
    OBVIOUS
  <2>0. 1 \in 1..Len(rows) /\ 2 \in 1..Len(rows)
    BY <1>1, <1>4, <2>a
  <2>1. rows[1] \in Ids \X Row /\ rows[2] \in Ids \X Row
    BY <1>1, <2>0
  <2>2. Good(RowBack(RowBack(d, rows[1]), rows[2]))
    BY <2>1, RowBackGood
  <2>3. Restored(d, rows) = RowBack(RowBack(d, rows[1]), rows[2])
    BY <1>4 DEF Restored
  <2> QED
    BY <2>2, <2>3
<1> QED
  BY <1>2, <1>3, <1>4

LEMMA FreshGoneGood ==
    ASSUME NEW d, Good(d), NEW b \in Back
    PROVE Good(FreshGone(d, b))
<1> DEFINE e == weekEntry(d, b.w)
<1>1. e # NoEntry => e \in Ids
  BY WeekEntryIs DEF Good
<1>2. e # NoEntry => Good(softDelete(d, e))
  BY <1>1, DeletedGood
<1> HIDE DEF e
<1> QED
  BY <1>2 DEF FreshGone, e

----------------------------------------------------------------------------
(* The calls.                                                               *)

LEMMA EntryCalls ==
    ASSUME NEW e \in Ids, NEW row \in Row, NEW was \in Row, NEW ow \in BOOLEAN
    PROVE /\ Apply(e, row, ow) \in Call
          /\ [call |-> "saveEntry", e |-> e, row |-> row, was |-> was, ow |-> ow] \in Call
          /\ [call |-> "write", e |-> e, row |-> row] \in Call
          /\ [call |-> "clear", e |-> e, row |-> row] \in Call
          /\ [call |-> "delete", e |-> e] \in Call
BY DEF Apply, Call

LEMMA WeekCalls ==
    ASSUME NEW w \in Week
    PROVE /\ \A e \in Ids : [call |-> "release", w |-> w, e |-> e] \in Call
          /\ \A e \in Ids : [call |-> "name", w |-> w, e |-> e] \in Call
          /\ On("fill", w) \in Call /\ On("template", w) \in Call /\ On("applied", w) \in Call
          /\ On("adopt", w) \in Call /\ On("speaker", w) \in Call /\ On("visitRemoved", w) \in Call
          /\ \A l \in Line : [call |-> "saveLine", w |-> w, l |-> l] \in Call
          /\ \A changed \in BOOLEAN : Sync(w, changed) \in Call
          /\ [call |-> "sync", w |-> w, changed |-> FALSE, restored |-> TRUE] \in Call
BY DEF On, Sync, Call

LEMMA MoveCalls ==
    ASSUME NEW from \in Week, NEW to \in Week
    PROVE /\ \A e, x \in Ids \cup {NoEntry} :
                [call |-> "move", e |-> e, to |-> to, x |-> x, from |-> from] \in Call
          /\ [call |-> "visitMoved", from |-> from, to |-> to] \in Call
BY DEF Call

LEMMA VisitCalls ==
    ASSUME NEW v \in Visit
    PROVE /\ [call |-> "saveVisit", v |-> v] \in Call
          /\ [call |-> "revert", v |-> v] \in Call
          /\ [call |-> "deleteVisit"] \in Call
BY DEF Call

\* What a call carries.
LEMMA CallFields ==
    ASSUME NEW c \in Call
    PROVE /\ c.call = "apply" => c.e \in Ids /\ c.row \in Row /\ c.ow \in BOOLEAN
          /\ c.call = "saveEntry" => c.e \in Ids /\ c.row \in Row /\ c.was \in Row /\ c.ow \in BOOLEAN
          /\ c.call \in {"write", "clear"} => c.e \in Ids /\ c.row \in Row
          /\ c.call = "delete" => c.e \in Ids
          /\ c.call \in {"release", "name"} => c.w \in Week /\ c.e \in Ids
          /\ c.call \in {"fill", "template", "applied", "adopt", "speaker", "visitRemoved"}
               => c.w \in Week
          /\ c.call = "saveLine" => c.w \in Week /\ c.l \in Line
          /\ c.call = "sync" => c.w \in Week /\ c.changed \in BOOLEAN /\ c.restored \in BOOLEAN
          /\ c.call = "move" => /\ c.e \in Ids \cup {NoEntry} /\ c.x \in Ids \cup {NoEntry}
                                /\ c.to \in Week /\ c.from \in Week
          /\ c.call \in {"saveVisit", "revert"} => c.v \in Visit
          /\ c.call = "visitMoved" => c.from \in Week /\ c.to \in Week
BY DEF Call

\* Lists of calls.
LEMMA ListOfOne ==
    ASSUME NEW a \in Call
    PROVE <<a>> \in Seq(Call)
OBVIOUS

LEMMA ListOfTwo ==
    ASSUME NEW a \in Call, NEW b \in Call
    PROVE <<a, b>> \in Seq(Call)
OBVIOUS

LEMMA ListOfThree ==
    ASSUME NEW a \in Call, NEW b \in Call, NEW c \in Call
    PROVE <<a, b, c>> \in Seq(Call)
OBVIOUS

LEMMA ListOfFour ==
    ASSUME NEW a \in Call, NEW b \in Call, NEW c \in Call, NEW e \in Call
    PROVE <<a, b, c, e>> \in Seq(Call)
OBVIOUS

LEMMA ListOfFive ==
    ASSUME NEW a \in Call, NEW b \in Call, NEW c \in Call, NEW e \in Call, NEW f \in Call
    PROVE <<a, b, c, e, f>> \in Seq(Call)
OBVIOUS

LEMMA ListsJoined ==
    ASSUME NEW s \in Seq(Call), NEW t \in Seq(Call)
    PROVE s \o t \in Seq(Call)
OBVIOUS

\* The entries a replacement takes down.
LEMMA TakenDown ==
    ASSUME NEW T, NEW p \in T, NEW q \in T
    PROVE <<p>> \in Seq(T) /\ <<p, q>> \in Seq(T)
OBVIOUS

----------------------------------------------------------------------------
(* The invariant: the types, and one live entry a week.                     *)

TalkInv == TypeOK /\ Single(db)

LEMMA InvIsGood ==
    TalkInv => Good(db) /\ db \in Database
BY DEF TalkInv, TypeOK, Good

\* A request that begins from a good table, with calls of their types.
LEMMA BeginsGood ==
    ASSUME TalkInv, NEW r \in Requests, NEW kind, NEW d, NEW calls, NEW back,
           BeginWith(r, kind, d, calls, back),
           Good(d), calls \in Seq(Call), back \in Back \cup {NoBack}
    PROVE TalkInv'
<1>1. used' \in 0..MaxUsed
  BY TalkConstants DEF TalkInv, TypeOK, BeginWith
<1>2. past' \subseteq Causes
  BY DEF TalkInv, TypeOK, BeginWith, LeavesBehind
<1>3. job' \in [Requests -> Job]
  <2>1. [todo |-> calls, back |-> back] \in Job
    BY DEF Job
  <2>2. job' = [job EXCEPT ![r] = [todo |-> calls, back |-> back]]
    BY DEF BeginWith
  <2> QED
    BY <2>1, <2>2 DEF TalkInv, TypeOK
<1>4. db' = d /\ over' = over
  BY DEF BeginWith
<1> QED
  BY <1>1, <1>2, <1>3, <1>4 DEF TalkInv, TypeOK, Good

LEMMA SimplyBegins ==
    ASSUME TalkInv, NEW r \in Requests, NEW kind, NEW d, NEW calls,
           Begin(r, kind, d, calls), Good(d), calls \in Seq(Call)
    PROVE TalkInv'
BY BeginsGood DEF Begin

\* The list of a request, and the call at its head.
LEMMA HeadIs ==
    ASSUME TalkInv, NEW r \in Requests, Busy(r)
    PROVE /\ job[r] \in Job /\ Args(r) \in Call /\ Tail(job[r].todo) \in Seq(Call)
          /\ job[r].back \in Back \cup {NoBack}
<1>1. job[r] \in Job
  BY DEF TalkInv, TypeOK
<1>2. job[r].todo \in Seq(Call) /\ job[r].todo # <<>> /\ job[r].back \in Back \cup {NoBack}
  BY <1>1 DEF Job, Busy
<1>3. job[r].todo[1] \in Call /\ Tail(job[r].todo) \in Seq(Call)
  BY <1>2
<1> QED
  BY <1>1, <1>2, <1>3 DEF Args

\* A call that leaves a good table.
LEMMA EndsGood ==
    ASSUME TalkInv, NEW r \in Requests, NEW d, NEW calls, Ends(r, d, calls), Busy(r),
           Good(d), calls \in Seq(Call)
    PROVE TalkInv'
<1>1. job' \in [Requests -> Job]
  <2>1. job[r] \in Job
    BY HeadIs
  <2>2. [job[r] EXCEPT !.todo = calls] \in Job
    BY <2>1 DEF Job
  <2>3. Idle \in Job
    BY DEF Idle, Job
  <2>4. job' = [job EXCEPT ![r] = IF calls = <<>> THEN Idle ELSE [job[r] EXCEPT !.todo = calls]]
    BY DEF Ends
  <2> QED
    BY <2>2, <2>3, <2>4 DEF TalkInv, TypeOK
<1>2. db' = d /\ over' = over /\ used' = used /\ past' = past
  BY DEF Ends, history
<1> QED
  BY <1>1, <1>2 DEF TalkInv, TypeOK, Good

LEMMA DoneGood ==
    ASSUME TalkInv, NEW r \in Requests, NEW d, Done(r, d), Busy(r), Good(d)
    PROVE TalkInv'
BY HeadIs, EndsGood DEF Done

----------------------------------------------------------------------------
(* Each request begins well.                                                *)

\* A row as it is read.
LEMMA RowRead ==
    ASSUME TalkInv, NEW e \in Ids
    PROVE db.entry[e] \in Row
BY DEF TalkInv, TypeOK, Database

LEMMA LineRead ==
    ASSUME TalkInv, NEW w \in Week
    PROVE db.line[w] \in Line
BY DEF TalkInv, TypeOK, Database

LEMMA VisitRead ==
    ASSUME TalkInv
    PROVE db.visit \in Visit /\ db.visit.week \in Week
BY DEF TalkInv, TypeOK, Database, Visit

LEMMA CreateBegins ==
    ASSUME TalkInv, NEW r \in Requests, CreateEntry(r)
    PROVE TalkInv'
<1>1. PICK w \in Week, g \in Guests, hand \in {"own", "noted"}, ow \in BOOLEAN :
        /\ Live(db, w) = {} /\ Room(db)
        /\ Begin(r, "create", Put(db, NewId(db), [NewRow(w, g, hand) EXCEPT !.off = weekCancelled(db, w)]),
                 <<Apply(NewId(db), [NewRow(w, g, hand) EXCEPT !.off = weekCancelled(db, w)], ow)>>)
  BY DEF CreateEntry
<1> DEFINE row == [NewRow(w, g, hand) EXCEPT !.off = weekCancelled(db, w)]
           e == NewId(db)
<1>2. row \in Row /\ row.week = w
  BY DEF NewRow, Row, Speakers, weekCancelled, Seen
<1>3. e \in Ids
  BY <1>1, InvIsGood, NewIdIs
<1> HIDE DEF row, e
<1>4. ~WeekTaken(db, e, row)
  BY <1>1, <1>2, FreeWeek
<1>5. Good(Put(db, e, row))
  BY <1>2, <1>3, <1>4, InvIsGood, PutGood
<1>6. <<Apply(e, row, ow)>> \in Seq(Call)
  BY <1>2, <1>3, EntryCalls, ListOfOne
<1> QED
  BY <1>1, <1>5, <1>6, SimplyBegins DEF row, e

\* An entry to be saved whole.
LEMMA SaveAsBegins ==
    ASSUME TalkInv, NEW r \in Requests, NEW kind, NEW e \in Ids, NEW row \in Row, NEW ow \in BOOLEAN,
           SaveAs(r, kind, e, row, ow)
    PROVE TalkInv'
<1>1. db.entry[e] \in Row
  BY RowRead
<1>2. <<[call |-> "saveEntry", e |-> e, row |-> row, was |-> db.entry[e], ow |-> ow]>> \in Seq(Call)
  BY <1>1, EntryCalls, ListOfOne
<1> QED
  BY <1>2, InvIsGood, SimplyBegins DEF SaveAs

LEMMA ChangeBegins ==
    ASSUME TalkInv, NEW r \in Requests, ChangeSpeaker(r)
    PROVE TalkInv'
<1>1. PICK e \in Ids, g \in Guests, ow \in BOOLEAN :
        SaveAs(r, "change", e, [db.entry[e] EXCEPT !.who = g], ow)
  BY DEF ChangeSpeaker
<1>2. [db.entry[e] EXCEPT !.who = g] \in Row
  BY RowRead DEF Row, Speakers
<1> QED
  BY <1>1, <1>2, SaveAsBegins

LEMMA ShiftBegins ==
    ASSUME TalkInv, NEW r \in Requests, ShiftWeek(r)
    PROVE TalkInv'
<1>1. PICK e \in Ids, w \in Week, ow \in BOOLEAN :
        SaveAs(r, "shift", e, [db.entry[e] EXCEPT !.week = w, !.off = weekCancelled(db, w)], ow)
  BY DEF ShiftWeek
<1>2. db.entry[e] \in Row /\ weekCancelled(db, w) \in BOOLEAN
  BY RowRead DEF weekCancelled, Seen
<1>3. [db.entry[e] EXCEPT !.week = w, !.off = weekCancelled(db, w)] \in Row
  BY <1>2 DEF Row
<1> QED
  BY <1>1, <1>3, SaveAsBegins

LEMMA MissedBegins ==
    ASSUME TalkInv, NEW r \in Requests, Missed(r)
    PROVE TalkInv'
<1>1. PICK e \in Ids :
        SaveAs(r, "missed", e,
               [db.entry[e] EXCEPT !.held = ~@,
                  !.off = IF db.entry[e].held THEN @ ELSE weekCancelled(db, db.entry[e].week)], FALSE)
  BY DEF Missed
<1> DEFINE off == IF db.entry[e].held THEN db.entry[e].off ELSE weekCancelled(db, db.entry[e].week)
<1>2. db.entry[e] \in Row /\ off \in BOOLEAN
  BY RowRead DEF weekCancelled, Seen, Row
<1>3. [db.entry[e] EXCEPT !.held = ~@, !.off = off] \in Row
  <2> HIDE DEF off
  <2> QED
    BY <1>2 DEF Row
<1> QED
  BY <1>1, <1>3, SaveAsBegins

LEMMA RemoveBegins ==
    ASSUME TalkInv, NEW r \in Requests, RemoveEntry(r)
    PROVE TalkInv'
<1>1. PICK e \in Ids :
        Begin(r, "remove", db, <<[call |-> "clear", e |-> e, row |-> db.entry[e]],
                                 [call |-> "delete", e |-> e]>>)
  BY DEF RemoveEntry
<1>2. <<[call |-> "clear", e |-> e, row |-> db.entry[e]], [call |-> "delete", e |-> e]>> \in Seq(Call)
  BY RowRead, EntryCalls, ListOfTwo
<1> QED
  BY <1>1, <1>2, InvIsGood, SimplyBegins

LEMMA ElsewhereBegins ==
    ASSUME TalkInv, NEW r \in Requests, moveSetAside(r)
    PROVE TalkInv'
<1>1. PICK e \in Ids, w \in Week :
        LET row == [db.entry[e] EXCEPT !.week = w, !.at = "live", !.aside = FALSE,
                                       !.off = weekCancelled(db, w)]
            d == Put(db, e, row)
        IN  /\ Live(db, w) = {}
            /\ Begin(r, "elsewhere",
                     [d EXCEPT !.visit.prev = IF d.visit.at = "on" /\ @ # NoPrev THEN NoOne ELSE @],
                     <<Apply(e, row, FALSE)>>)
  BY Zenon DEF moveSetAside
<1> DEFINE row == [db.entry[e] EXCEPT !.week = w, !.at = "live", !.aside = FALSE,
                                      !.off = weekCancelled(db, w)]
           d == Put(db, e, row)
           prev == IF d.visit.at = "on" /\ d.visit.prev # NoPrev THEN NoOne ELSE d.visit.prev
           x == [d EXCEPT !.visit.prev = prev]
<1>2. db.entry[e] \in Row /\ weekCancelled(db, w) \in BOOLEAN
  BY RowRead DEF weekCancelled, Seen
<1>3. row \in Row /\ row.week = w
  BY <1>2 DEF Row
<1>4. Live(db, w) = {} /\ Begin(r, "elsewhere", x, <<Apply(e, row, FALSE)>>)
  BY <1>1
<1> HIDE DEF row
<1>5. Good(d)
  BY <1>3, <1>4, InvIsGood, FreeWeek, PutGood
<1> HIDE DEF d
<1>6. x \in Database /\ x.entry = d.entry
  <2>1. d \in Database /\ d.visit \in Visit
    BY <1>5 DEF Good, Database
  <2>2. [d.visit EXCEPT !.prev = prev] \in Visit
    BY <2>1 DEF Visit
  <2> QED
    BY <2>1, <2>2 DEF Database
<1> HIDE DEF x
<1>7. Good(x)
  BY <1>5, <1>6, JournalKept
<1>8. <<Apply(e, row, FALSE)>> \in Seq(Call)
  BY <1>3, EntryCalls, ListOfOne
<1> QED
  BY <1>4, <1>7, <1>8, SimplyBegins

LEMMA NewLineBegins ==
    ASSUME TalkInv, NEW r \in Requests, NewLine(r)
    PROVE TalkInv'
<1>1. PICK w \in Week, g \in Guests \cup {NoOne} :
        Begin(r, "newLine",
              SetLine(db, w, [at |-> "on", removed |-> FALSE, who |-> g, link |-> NoEntry]),
              <<On("fill", w), Sync(w, g # NoOne), On("template", w), On("applied", w)>>)
  BY DEF NewLine
<1> DEFINE l == [at |-> "on", removed |-> FALSE, who |-> g, link |-> NoEntry]
<1>2. l \in Line
  BY DEF Line, Speakers
<1> HIDE DEF l
<1>3. Good(SetLine(db, w, l))
  BY <1>2, InvIsGood, SetLineGood DEF Leads
<1>4. Sync(w, g # NoOne) \in Call
  BY WeekCalls
<1>5. <<On("fill", w), Sync(w, g # NoOne), On("template", w), On("applied", w)>> \in Seq(Call)
  BY <1>4, WeekCalls, ListOfFour
<1> QED
  BY <1>1, <1>3, <1>5, SimplyBegins DEF l

LEMMA SaveLineBegins ==
    ASSUME TalkInv, NEW r \in Requests, NEW kind, NEW w \in Week, NEW l \in Line,
           SaveLineAs(r, kind, w, l)
    PROVE TalkInv'
<1>1. Begin(r, kind, db, <<[call |-> "saveLine", w |-> w, l |-> l], Sync(w, l.who # db.line[w].who)>>)
  BY DEF SaveLineAs
<1>2. <<[call |-> "saveLine", w |-> w, l |-> l], Sync(w, l.who # db.line[w].who)>> \in Seq(Call)
  BY WeekCalls, ListOfTwo
<1> QED
  BY <1>1, <1>2, InvIsGood, SimplyBegins

LEMMA EditLineBegins ==
    ASSUME TalkInv, NEW r \in Requests, EditLine(r)
    PROVE TalkInv'
<1>1. PICK w \in Week, g \in Guests \cup {NoOne} :
        SaveLineAs(r, "editLine", w, [db.line[w] EXCEPT !.who = g])
  BY DEF EditLine
<1>2. [db.line[w] EXCEPT !.who = g] \in Line
  BY LineRead DEF Line, Speakers
<1> QED
  BY <1>1, <1>2, SaveLineBegins

LEMMA CancelLineBegins ==
    ASSUME TalkInv, NEW r \in Requests, CancelLine(r)
    PROVE TalkInv'
<1>1. PICK w \in Week :
        SaveLineAs(r, "cancelLine", w, [db.line[w] EXCEPT !.at = IF @ = "on" THEN "cancelled" ELSE "on"])
  BY DEF CancelLine
<1>2. [db.line[w] EXCEPT !.at = IF @ = "on" THEN "cancelled" ELSE "on"] \in Line
  BY LineRead DEF Line
<1> QED
  BY <1>1, <1>2, SaveLineBegins

LEMMA RemoveLineBegins ==
    ASSUME TalkInv, NEW r \in Requests, RemoveLine(r)
    PROVE TalkInv'
<1>1. PICK w \in Week :
        Begin(r, "removeLine", SetLine(db, w, [db.line[w] EXCEPT !.removed = TRUE]), <<Sync(w, TRUE)>>)
  BY DEF RemoveLine
<1>2. [db.line[w] EXCEPT !.removed = TRUE] \in Line
  BY LineRead DEF Line
<1>3. Good(SetLine(db, w, [db.line[w] EXCEPT !.removed = TRUE]))
  BY <1>2, InvIsGood, SetLineGood DEF Leads
<1>4. <<Sync(w, TRUE)>> \in Seq(Call)
  BY WeekCalls, ListOfOne
<1> QED
  BY <1>1, <1>3, <1>4, SimplyBegins

LEMMA RestoreLineBegins ==
    ASSUME TalkInv, NEW r \in Requests, RestoreLine(r)
    PROVE TalkInv'
<1>1. PICK w \in Week :
        Begin(r, "restoreLine", SetLine(db, w, [db.line[w] EXCEPT !.removed = FALSE]),
              <<[call |-> "sync", w |-> w, changed |-> FALSE, restored |-> TRUE]>>)
  BY DEF RestoreLine
<1>2. [db.line[w] EXCEPT !.removed = FALSE] \in Line
  BY LineRead DEF Line
<1>3. Good(SetLine(db, w, [db.line[w] EXCEPT !.removed = FALSE]))
  BY <1>2, InvIsGood, SetLineGood DEF Leads
<1>4. <<[call |-> "sync", w |-> w, changed |-> FALSE, restored |-> TRUE]>> \in Seq(Call)
  BY WeekCalls, ListOfOne
<1> QED
  BY <1>1, <1>3, <1>4, SimplyBegins

LEMMA SwapBegins ==
    ASSUME TalkInv, NEW r \in Requests, SwapTalks(r)
    PROVE TalkInv'
<1>1. PICK s \in Week, t \in Week, swap \in BOOLEAN :
        LET ls == db.line[s]
            lt == db.line[t]
            es == weekEntry(db, s)
            et == weekEntry(db, t)
            back == IF swap THEN et ELSE NoEntry
        IN  Begin(r, "swap",
                  [db EXCEPT !.line[t] = [lt EXCEPT !.who = ls.who, !.link = ls.link],
                             !.line[s] = IF swap THEN [ls EXCEPT !.who = lt.who, !.link = lt.link]
                                         ELSE [ls EXCEPT !.who = NoOne, !.link = NoEntry]],
                  <<[call |-> "move", e |-> es, to |-> t, x |-> back, from |-> s],
                    Sync(s, TRUE), Sync(t, TRUE)>>)
  BY ZenonT(40) DEF SwapTalks
<1> DEFINE ls == db.line[s]
           lt == db.line[t]
           back == IF swap THEN weekEntry(db, t) ELSE NoEntry
           nt == [lt EXCEPT !.who = ls.who, !.link = ls.link]
           ns == IF swap THEN [ls EXCEPT !.who = lt.who, !.link = lt.link]
                 ELSE [ls EXCEPT !.who = NoOne, !.link = NoEntry]
           x == [db EXCEPT !.line[t] = nt, !.line[s] = ns]
           calls == <<[call |-> "move", e |-> weekEntry(db, s), to |-> t, x |-> back, from |-> s],
                      Sync(s, TRUE), Sync(t, TRUE)>>
<1>2. Begin(r, "swap", x, calls)
  BY <1>1
<1>3. ls \in Line /\ lt \in Line
  BY LineRead
<1>4. nt \in Line /\ ns \in Line
  <2> HIDE DEF ls, lt
  <2> QED
    BY <1>3 DEF Line
<1> HIDE DEF nt, ns
<1>5. x \in Database /\ x.entry = db.entry
  BY <1>4, InvIsGood DEF Database
<1> HIDE DEF x
<1>6. Good(x)
  BY <1>5, InvIsGood, JournalKept
<1>7. weekEntry(db, s) \in Ids \cup {NoEntry} /\ back \in Ids \cup {NoEntry}
  BY InvIsGood, WeekEntryIs
<1>8. calls \in Seq(Call)
  <2> HIDE DEF back
  <2> QED
    BY <1>7, MoveCalls, WeekCalls, ListOfThree
<1> HIDE DEF calls
<1> QED
  BY <1>2, <1>6, <1>8, SimplyBegins

\* A replacement: the entry closed, the line and the entries taken down to be put back.
LEMMA ReplaceBegins ==
    ASSUME TalkInv, NEW r \in Requests, replaceSpeaker(r)
    PROVE TalkInv'
<1>1. PICK w \in Week, g \in Guests :
        LET l == db.line[w]
            e == weekEntry(db, w)
            close == IF e = NoEntry THEN <<>>
                     ELSE <<[call |-> "write", e |-> e, row |-> [db.entry[e] EXCEPT !.held = FALSE]]>>
            was == IF e = NoEntry THEN <<>> ELSE <<<<e, db.entry[e]>>>>
        IN  BeginWith(r, "replace", db,
                close \o <<[call |-> "saveLine", w |-> w, l |-> [l EXCEPT !.who = g, !.link = NoEntry]],
                           Sync(w, TRUE), On("adopt", w)>>,
                [w |-> w, lines |-> <<l>>, rows |-> was])
  BY Zenon DEF replaceSpeaker
<1> DEFINE l == db.line[w]
           e == weekEntry(db, w)
           close == IF e = NoEntry THEN <<>>
                    ELSE <<[call |-> "write", e |-> e, row |-> [db.entry[e] EXCEPT !.held = FALSE]]>>
           was == IF e = NoEntry THEN <<>> ELSE <<<<e, db.entry[e]>>>>
           nl == [l EXCEPT !.who = g, !.link = NoEntry]
           rest == <<[call |-> "saveLine", w |-> w, l |-> nl], Sync(w, TRUE), On("adopt", w)>>
           back == [w |-> w, lines |-> <<l>>, rows |-> was]
<1>2. BeginWith(r, "replace", db, close \o rest, back)
  BY <1>1
<1>3. l \in Line /\ (e # NoEntry => e \in Ids /\ db.entry[e] \in Row)
  BY LineRead, InvIsGood, WeekEntryIs, RowRead
<1> HIDE DEF e, l
<1>4. nl \in Line
  BY <1>3 DEF Line, Speakers
<1>5. close \in Seq(Call)
  <2>1. CASE e = NoEntry
    BY <2>1
  <2>2. CASE e # NoEntry
    <3>1. [db.entry[e] EXCEPT !.held = FALSE] \in Row
      BY <1>3, <2>2 DEF Row
    <3> QED
      BY <1>3, <2>2, <3>1, EntryCalls, ListOfOne
  <2> QED
    BY <2>1, <2>2
<1>6. rest \in Seq(Call)
  <2> HIDE DEF nl
  <2> QED
    BY <1>4, WeekCalls, ListOfThree
<1>7. back \in Back
  <2>1. was \in Seq(Ids \X Row)
    <3>1. e # NoEntry => <<e, db.entry[e]>> \in Ids \X Row
      BY <1>3
    <3>2. <<>> \in Seq(Ids \X Row)
      OBVIOUS
    <3> QED
      BY <3>1, <3>2, TakenDown
  <2>2. <<l>> \in Seq(Line)
    BY <1>3
  <2> HIDE DEF was
  <2> QED
    BY <2>1, <2>2 DEF Back
<1> HIDE DEF close, rest, back
<1>8. close \o rest \in Seq(Call)
  BY <1>5, <1>6, ListsJoined
<1> QED
  BY <1>2, <1>7, <1>8, InvIsGood, BeginsGood

LEMMA UndoBegins ==
    ASSUME TalkInv, NEW r \in Requests, undoReplacement(r)
    PROVE TalkInv'
<1>1. PICK e \in Ids :
        LET row == db.entry[e]
            w == row.week
            x == weekEntry(db, w)
            free == CASE x = NoEntry -> <<>>
                      [] x # NoEntry /\ db.entry[x].hand = "noted" ->
                           <<[call |-> "write", e |-> x, row |-> [db.entry[x] EXCEPT !.held = FALSE]]>>
                      [] OTHER -> <<[call |-> "delete", e |-> x]>>
            was == IF x = NoEntry THEN <<<<e, row>>>> ELSE <<<<e, row>>, <<x, db.entry[x]>>>>
        IN  BeginWith(r, "undo", db,
                free \o <<[call |-> "write", e |-> e, row |-> [row EXCEPT !.held = TRUE]],
                          [call |-> "name", w |-> w, e |-> e]>>,
                [w |-> w, lines |-> <<>>, rows |-> was])
  BY Zenon DEF undoReplacement
<1> DEFINE row == db.entry[e]
           w == row.week
           x == weekEntry(db, w)
           free == CASE x = NoEntry -> <<>>
                     [] x # NoEntry /\ db.entry[x].hand = "noted" ->
                          <<[call |-> "write", e |-> x, row |-> [db.entry[x] EXCEPT !.held = FALSE]]>>
                     [] OTHER -> <<[call |-> "delete", e |-> x]>>
           was == IF x = NoEntry THEN <<<<e, row>>>> ELSE <<<<e, row>>, <<x, db.entry[x]>>>>
           nr == [row EXCEPT !.held = TRUE]
           rest == <<[call |-> "write", e |-> e, row |-> nr], [call |-> "name", w |-> w, e |-> e]>>
           back == [w |-> w, lines |-> <<>>, rows |-> was]
<1>2. BeginWith(r, "undo", db, free \o rest, back)
  BY <1>1
<1>3. row \in Row /\ w \in Week /\ nr \in Row
  BY RowRead DEF Row
<1>4. x # NoEntry => x \in Ids /\ db.entry[x] \in Row
  BY InvIsGood, WeekEntryIs, RowRead
<1> HIDE DEF x, row, w
<1>5. free \in Seq(Call)
  <2>1. CASE x = NoEntry
    BY <2>1
  <2>2. CASE x # NoEntry /\ db.entry[x].hand = "noted"
    <3>1. [db.entry[x] EXCEPT !.held = FALSE] \in Row
      BY <1>4, <2>2 DEF Row
    <3>2. free = <<[call |-> "write", e |-> x, row |-> [db.entry[x] EXCEPT !.held = FALSE]]>>
      BY <2>2
    <3> QED
      BY <1>4, <2>2, <3>1, <3>2, EntryCalls, ListOfOne
  <2>3. CASE x # NoEntry /\ db.entry[x].hand # "noted"
    <3>1. free = <<[call |-> "delete", e |-> x]>>
      BY <2>3
    <3> QED
      BY <1>4, <2>3, <3>1, EntryCalls, ListOfOne
  <2> QED
    BY <2>1, <2>2, <2>3
<1>6. rest \in Seq(Call)
  <2> HIDE DEF nr
  <2> QED
    BY <1>3, EntryCalls, WeekCalls, ListOfTwo
<1>7. back \in Back
  <2>1. was \in Seq(Ids \X Row)
    <3>1. <<e, row>> \in Ids \X Row /\ (x # NoEntry => <<x, db.entry[x]>> \in Ids \X Row)
      BY <1>3, <1>4
    <3> QED
      BY <3>1, TakenDown
  <2>2. <<>> \in Seq(Line)
    OBVIOUS
  <2> HIDE DEF was
  <2> QED
    BY <1>3, <2>1, <2>2 DEF Back
<1> HIDE DEF free, rest, back
<1>8. free \o rest \in Seq(Call)
  BY <1>5, <1>6, ListsJoined
<1> QED
  BY <1>2, <1>7, <1>8, InvIsGood, BeginsGood

LEMMA AddVisitBegins ==
    ASSUME TalkInv, NEW r \in Requests, AddVisit(r)
    PROVE TalkInv'
<1>1. PICK w \in Week :
        Begin(r, "addVisit", [db EXCEPT !.visit = [at |-> "on", week |-> w, done |-> FALSE, prev |-> NoPrev]],
              <<On("template", w), On("applied", w)>>)
  BY DEF AddVisit
<1> DEFINE v == [at |-> "on", week |-> w, done |-> FALSE, prev |-> NoPrev]
           x == [db EXCEPT !.visit = v]
<1>2. v \in Visit
  BY DEF Visit
<1> HIDE DEF v
<1>3. x \in Database /\ x.entry = db.entry
  BY <1>2, InvIsGood DEF Database
<1>4. Good(x)
  <2> HIDE DEF x
  <2> QED
    BY <1>3, InvIsGood, JournalKept
<1>5. <<On("template", w), On("applied", w)>> \in Seq(Call)
  BY WeekCalls, ListOfTwo
<1> QED
  BY <1>1, <1>4, <1>5, SimplyBegins DEF v

LEMMA SaveVisitBegins ==
    ASSUME TalkInv, NEW r \in Requests, SaveVisit(r)
    PROVE TalkInv'
<1> DEFINE w == db.visit.week
           calls == <<[call |-> "saveVisit", v |-> db.visit], On("template", w), On("speaker", w),
                      On("applied", w)>>
<1>1. Begin(r, "saveVisit", db, calls)
  BY DEF SaveVisit
<1>2. db.visit \in Visit /\ w \in Week
  BY VisitRead
<1> HIDE DEF w
<1>3. calls \in Seq(Call)
  BY <1>2, VisitCalls, WeekCalls, ListOfFour
<1> QED
  BY <1>1, <1>3, InvIsGood, SimplyBegins

LEMMA MoveVisitBegins ==
    ASSUME TalkInv, NEW r \in Requests, MoveVisit(r)
    PROVE TalkInv'
<1>1. PICK w \in Week :
        Begin(r, "moveVisit", db,
              <<[call |-> "revert", v |-> db.visit],
                [call |-> "saveVisit", v |-> [db.visit EXCEPT !.week = w, !.done = FALSE, !.prev = NoPrev]],
                On("template", w), [call |-> "visitMoved", from |-> db.visit.week, to |-> w],
                On("applied", w)>>)
  BY DEF MoveVisit
<1> DEFINE v == db.visit
           nv == [v EXCEPT !.week = w, !.done = FALSE, !.prev = NoPrev]
           calls == <<[call |-> "revert", v |-> v], [call |-> "saveVisit", v |-> nv],
                      On("template", w), [call |-> "visitMoved", from |-> v.week, to |-> w],
                      On("applied", w)>>
<1>2. v \in Visit /\ v.week \in Week
  BY VisitRead
<1> HIDE DEF v
<1>3. nv \in Visit
  BY <1>2 DEF Visit
<1> HIDE DEF nv
<1>4. calls \in Seq(Call)
  BY <1>2, <1>3, VisitCalls, WeekCalls, MoveCalls, ListOfFive
<1> HIDE DEF calls
<1>5. Begin(r, "moveVisit", db, calls)
  BY <1>1 DEF calls, nv, v
<1> QED
  BY <1>4, <1>5, InvIsGood, SimplyBegins

LEMMA RemoveVisitBegins ==
    ASSUME TalkInv, NEW r \in Requests, RemoveVisit(r)
    PROVE TalkInv'
<1> DEFINE v == db.visit
           calls == <<[call |-> "revert", v |-> v], On("visitRemoved", v.week), [call |-> "deleteVisit"]>>
<1>1. Begin(r, "removeVisit", db, calls)
  BY DEF RemoveVisit
<1>2. v \in Visit /\ v.week \in Week
  BY VisitRead
<1> HIDE DEF v
<1>3. calls \in Seq(Call)
  BY <1>2, VisitCalls, WeekCalls, ListOfThree
<1> QED
  BY <1>1, <1>3, InvIsGood, SimplyBegins

\* The visit's record marked: it stands again, or is gone.
LEMMA VisitAtGood ==
    ASSUME TalkInv, NEW at \in {"none", "on", "gone"}
    PROVE Good([db EXCEPT !.visit.at = at])
<1> DEFINE v == [db.visit EXCEPT !.at = at]
           x == [db EXCEPT !.visit.at = at]
<1>1. v \in Visit
  BY VisitRead DEF Visit
<1>2. x \in Database /\ x.entry = db.entry
  BY <1>1, InvIsGood DEF Database
<1> HIDE DEF x
<1>3. Good(x)
  BY <1>2, InvIsGood, JournalKept
<1> QED
  BY <1>3 DEF x

LEMMA RestoreVisitBegins ==
    ASSUME TalkInv, NEW r \in Requests, RestoreVisit(r)
    PROVE TalkInv'
<1> DEFINE w == db.visit.week
           calls == <<On("template", w), On("applied", w)>>
<1>1. Begin(r, "restoreVisit", [db EXCEPT !.visit.at = "on"], calls)
  BY DEF RestoreVisit
<1>2. calls \in Seq(Call)
  BY VisitRead, WeekCalls, ListOfTwo
<1> HIDE DEF calls
<1> QED
  BY <1>1, <1>2, VisitAtGood, SimplyBegins

LEMMA BeginningsKeep ==
    ASSUME TalkInv, NEW r \in Requests, Begins(r)
    PROVE TalkInv'
BY CreateBegins, ChangeBegins, ShiftBegins, MissedBegins, RemoveBegins, ElsewhereBegins,
   NewLineBegins, EditLineBegins, CancelLineBegins, RemoveLineBegins, RestoreLineBegins,
   SwapBegins, ReplaceBegins, UndoBegins, AddVisitBegins, SaveVisitBegins, MoveVisitBegins,
   RemoveVisitBegins, RestoreVisitBegins
   DEF Begins

----------------------------------------------------------------------------
(* Each call ends well.                                                     *)

LEMMA JournalCallsKeep ==
    ASSUME TalkInv, NEW r \in Requests,
           RunApply(r) \/ RunRelease(r) \/ RunClear(r) \/ RunDelete(r) \/ RunWrite(r)
    PROVE TalkInv'
<1> DEFINE c == Args(r)
<1>0. Busy(r) /\ Good(db)
  BY InvIsGood DEF RunApply, RunRelease, RunClear, RunDelete, RunWrite, Doing
<1>1. c \in Call
  BY <1>0, HeadIs
<1>2. CASE RunApply(r)
  <2>1. c.call = "apply" /\ Done(r, applyIncomingToProgram(db, c.e, c.row, c.ow))
    BY <1>2 DEF RunApply, Doing, Args
  <2> HIDE DEF c
  <2>2. Good(applyIncomingToProgram(db, c.e, c.row, c.ow))
    BY <1>0, <1>1, <2>1, CallFields, ApplyGood
  <2> QED
    BY <1>0, <2>1, <2>2, DoneGood
<1>3. CASE RunRelease(r)
  <2>1. c.call = "release" /\ Done(r, releaseLine(db, c.w, c.e))
    BY <1>3 DEF RunRelease, Doing, Args
  <2> HIDE DEF c
  <2>2. Good(releaseLine(db, c.w, c.e))
    BY <1>0, <1>1, <2>1, CallFields, ReleaseGood
  <2> QED
    BY <1>0, <2>1, <2>2, DoneGood
<1>4. CASE RunClear(r)
  <2>1. c.call = "clear" /\ Done(r, clearProgramSlot(db, c.e, c.row))
    BY <1>4 DEF RunClear, Doing, Args
  <2> HIDE DEF c
  <2>2. Good(clearProgramSlot(db, c.e, c.row))
    BY <1>0, <1>1, <2>1, CallFields, ClearGood
  <2> QED
    BY <1>0, <2>1, <2>2, DoneGood
<1>5. CASE RunDelete(r)
  <2>1. c.call = "delete" /\ Done(r, softDelete(db, c.e))
    BY <1>5 DEF RunDelete, Doing, Args
  <2> HIDE DEF c
  <2>2. Good(softDelete(db, c.e))
    BY <1>0, <1>1, <2>1, CallFields, DeletedGood
  <2> QED
    BY <1>0, <2>1, <2>2, DoneGood
<1>6. CASE RunWrite(r)
  <2>1. c.call = "write" /\ ~WeekTaken(db, c.e, c.row) /\ Done(r, Put(db, c.e, c.row))
    BY <1>6 DEF RunWrite, Doing, Args
  <2> HIDE DEF c
  <2>2. Good(Put(db, c.e, c.row))
    BY <1>0, <1>1, <2>1, CallFields, PutGood
  <2> QED
    BY <1>0, <2>1, <2>2, DoneGood
<1> QED
  BY <1>2, <1>3, <1>4, <1>5, <1>6

LEMMA SaveEntryKeeps ==
    ASSUME TalkInv, NEW r \in Requests, saveEntry(r)
    PROVE TalkInv'
<1> DEFINE c == Args(r)
           left == Standing(c.was) /\ (~c.row.held \/ c.row.week # c.was.week)
           release == IF left THEN <<[call |-> "release", w |-> c.was.week, e |-> c.e]>> ELSE <<>>
           calls == release \o <<Apply(c.e, c.row, c.ow)>>
<1>0. Busy(r) /\ Good(db) /\ c \in Call /\ c.call = "saveEntry"
  BY InvIsGood, HeadIs DEF saveEntry, Doing, Args
<1>1. \/ Ends(r, db, <<>>)
      \/ ~WeekTaken(db, c.e, c.row) /\ Ends(r, Put(db, c.e, c.row), calls)
  BY DEF saveEntry
<1> HIDE DEF c
<1>2. c.e \in Ids /\ c.row \in Row /\ c.was \in Row /\ c.ow \in BOOLEAN
  BY <1>0, CallFields
<1>3. c.was.week \in Week
  BY <1>2 DEF Row
<1>4. release \in Seq(Call)
  <2>1. [call |-> "release", w |-> c.was.week, e |-> c.e] \in Call
    BY <1>2, <1>3, WeekCalls
  <2>2. <<[call |-> "release", w |-> c.was.week, e |-> c.e]>> \in Seq(Call)
    BY <2>1, ListOfOne
  <2>3. <<>> \in Seq(Call)
    OBVIOUS
  <2> QED
    BY <2>2, <2>3
<1>5. <<Apply(c.e, c.row, c.ow)>> \in Seq(Call)
  BY <1>2, EntryCalls, ListOfOne
<1> HIDE DEF release
<1>6. calls \in Seq(Call) /\ <<>> \in Seq(Call)
  BY <1>4, <1>5, ListsJoined
<1> HIDE DEF calls
<1>7. ~WeekTaken(db, c.e, c.row) => Good(Put(db, c.e, c.row))
  BY <1>0, <1>2, PutGood
<1> QED
  BY <1>0, <1>1, <1>6, <1>7, EndsGood

LEMMA LineCallsKeep ==
    ASSUME TalkInv, NEW r \in Requests,
           RunFill(r) \/ SaveLine(r) \/ RunSync(r) \/ RunName(r) \/ RunAdopt(r)
    PROVE TalkInv'
<1> DEFINE c == Args(r)
<1>0. Busy(r) /\ Good(db)
  BY InvIsGood DEF RunFill, SaveLine, RunSync, RunName, RunAdopt, Doing
<1>1. c \in Call
  BY <1>0, HeadIs
<1>2. CASE RunFill(r)
  <2>1. c.call = "fill" /\ Done(r, fillEmptySlot(db, c.w))
    BY <1>2 DEF RunFill, Doing, Args
  <2> HIDE DEF c
  <2>2. Good(fillEmptySlot(db, c.w))
    BY <1>0, <1>1, <2>1, CallFields, FillGood
  <2> QED
    BY <1>0, <2>1, <2>2, DoneGood
<1>3. CASE SaveLine(r)
  <2>1. c.call = "saveLine" /\ Done(r, SetLine(db, c.w, c.l))
    BY <1>3 DEF SaveLine, Doing, Args
  <2> HIDE DEF c
  <2>2. Good(SetLine(db, c.w, c.l))
    BY <1>0, <1>1, <2>1, CallFields, SetLineGood DEF Leads
  <2> QED
    BY <1>0, <2>1, <2>2, DoneGood
<1>4. CASE RunSync(r)
  <2>1. c.call = "sync" /\ Room(db) /\ Done(r, syncProgramToJournal(db, c.w, c.changed, c.restored))
    BY <1>4 DEF RunSync, Doing, Args
  <2> HIDE DEF c
  <2>2. Good(syncProgramToJournal(db, c.w, c.changed, c.restored))
    BY <1>0, <1>1, <2>1, CallFields, SyncGood
  <2> QED
    BY <1>0, <2>1, <2>2, DoneGood
<1>5. CASE RunName(r)
  <2> DEFINE l == [db.line[c.w] EXCEPT !.who = db.entry[c.e].who, !.link = c.e]
             x == IF Seen(db.line[c.w]) THEN SetLine(db, c.w, l) ELSE db
  <2>1. c.call = "name" /\ Done(r, x)
    BY <1>5 DEF RunName, Doing, Args
  <2> HIDE DEF c
  <2>2. c.w \in Week /\ c.e \in Ids
    BY <1>1, <2>1, CallFields
  <2>3. db.line[c.w] \in Line /\ db.entry[c.e].who \in Speakers
    BY <2>2, LineRead, RowRead DEF Row
  <2>4. l \in Line
    BY <2>2, <2>3 DEF Line
  <2> HIDE DEF l
  <2>5. Good(x)
    BY <1>0, <2>2, <2>4, SetLineGood DEF Leads
  <2> HIDE DEF x
  <2> QED
    BY <1>0, <2>1, <2>5, DoneGood
<1>6. CASE RunAdopt(r)
  <2> DEFINE e == weekEntry(db, c.w)
             row == [db.entry[e] EXCEPT !.hand = "own"]
             x == IF e # NoEntry /\ db.entry[e].hand = "app" THEN [db EXCEPT !.entry[e].hand = "own"] ELSE db
  <2>1. Done(r, x)
    BY <1>6 DEF RunAdopt
  <2>2. e # NoEntry => e \in Ids /\ db.entry[e] \in Row
    BY InvIsGood, WeekEntryIs, RowRead
  <2> HIDE DEF e
  <2>3. e # NoEntry => /\ row \in Row /\ row.at = db.entry[e].at
                       /\ row.held = db.entry[e].held /\ row.week = db.entry[e].week
    BY <2>2 DEF Row
  <2>4. [db EXCEPT !.entry[e].hand = "own"] = [db EXCEPT !.entry[e] = row]
    OBVIOUS
  <2> HIDE DEF row
  <2>5. e # NoEntry => Good([db EXCEPT !.entry[e] = row])
    BY <1>0, <2>2, <2>3, RewrittenGood DEF Leads
  <2>6. Good(x)
    BY <1>0, <2>4, <2>5
  <2> HIDE DEF x
  <2> QED
    BY <1>0, <2>1, <2>6, DoneGood
<1> QED
  BY <1>2, <1>3, <1>4, <1>5, <1>6

LEMMA MoveKeeps ==
    ASSUME TalkInv, NEW r \in Requests, moveWeekEntries(r)
    PROVE TalkInv'
<1> DEFINE c == Args(r)
<1>0. Busy(r) /\ Good(db) /\ c \in Call /\ c.call = "move"
  BY InvIsGood, HeadIs DEF moveWeekEntries, Doing, Args
<1>1. \/ Ends(r, db, <<>>)
      \/ ~(\E w \in Week : Cardinality(Live(Moved(db, c), w)) > 1) /\ Done(r, Moved(db, c))
  BY DEF moveWeekEntries
<1> HIDE DEF c
<1>2. ~(\E w \in Week : Cardinality(Live(Moved(db, c), w)) > 1) => Good(Moved(db, c))
  BY <1>0, CallFields, MovedGood
<1>3. <<>> \in Seq(Call)
  OBVIOUS
<1> QED
  BY <1>0, <1>1, <1>2, <1>3, EndsGood, DoneGood

LEMMA VisitCallsKeep ==
    ASSUME TalkInv, NEW r \in Requests,
           RunTemplate(r) \/ RunApplied(r) \/ RunSaveVisit(r) \/ RunSpeaker(r) \/ RunRevert(r)
             \/ RunVisitMoved(r) \/ RunVisitRemoved(r) \/ DeleteVisit(r)
    PROVE TalkInv'
<1> DEFINE c == Args(r)
<1>0. Busy(r) /\ Good(db)
  BY InvIsGood DEF RunTemplate, RunApplied, RunSaveVisit, RunSpeaker, RunRevert, RunVisitMoved,
                   RunVisitRemoved, DeleteVisit, Doing
<1>1. c \in Call
  BY <1>0, HeadIs
<1>2. CASE RunTemplate(r)
  <2>1. Done(r, IF visitOfWeek(db, c.w) THEN templateApply(db) ELSE db)
    BY <1>2 DEF RunTemplate
  <2>2. Good(IF visitOfWeek(db, c.w) THEN templateApply(db) ELSE db)
    BY <1>0, TemplateGood
  <2> QED
    BY <1>0, <2>1, <2>2, DoneGood
<1>3. CASE RunApplied(r)
  <2> DEFINE x == IF programmeOpen(c.w) THEN circuitVisitApplied(db, c.w) ELSE db
  <2>1. c.call = "applied" /\ Room(db) /\ Done(r, x)
    BY <1>3 DEF RunApplied, Doing, Args
  <2>2. c.w \in Week
    BY <1>1, <2>1, CallFields
  <2>3. Good(x)
    BY <1>0, <2>1, <2>2, AppliedGood
  <2> HIDE DEF x
  <2> QED
    BY <1>0, <2>1, <2>3, DoneGood
<1>4. CASE RunSaveVisit(r)
  <2> DEFINE x == [db EXCEPT !.visit = c.v]
  <2>1. c.call = "saveVisit" /\ Done(r, x)
    BY <1>4 DEF RunSaveVisit, Doing, Args
  <2>2. c.v \in Visit
    BY <1>1, <2>1, CallFields
  <2>3. x \in Database /\ x.entry = db.entry
    BY <2>2, InvIsGood DEF Database
  <2> HIDE DEF x
  <2>4. Good(x)
    BY <1>0, <2>3, JournalKept
  <2> QED
    BY <1>0, <2>1, <2>4, DoneGood
<1>5. CASE RunSpeaker(r)
  BY <1>0, <1>5, SpeakerGood, DoneGood DEF RunSpeaker
<1>6. CASE RunRevert(r)
  <2>1. c.call = "revert" /\ Done(r, templateRevert(db, c.v))
    BY <1>6 DEF RunRevert, Doing, Args
  <2> HIDE DEF c
  <2>2. Good(templateRevert(db, c.v))
    BY <1>0, <1>1, <2>1, CallFields, RevertGood
  <2> QED
    BY <1>0, <2>1, <2>2, DoneGood
<1>7. CASE RunVisitMoved(r)
  <2>1. c.call = "visitMoved" /\ Room(db) /\ Done(r, circuitVisitMoved(db, c.from, c.to))
    BY <1>7 DEF RunVisitMoved, Doing, Args
  <2> HIDE DEF c
  <2>2. Good(circuitVisitMoved(db, c.from, c.to))
    BY <1>0, <1>1, <2>1, CallFields, VisitMovedGood
  <2> QED
    BY <1>0, <2>1, <2>2, DoneGood
<1>8. CASE RunVisitRemoved(r)
  <2>1. c.call = "visitRemoved" /\ Room(db) /\ Done(r, circuitVisitRemoved(db, c.w))
    BY <1>8 DEF RunVisitRemoved, Doing, Args
  <2> HIDE DEF c
  <2>2. Good(circuitVisitRemoved(db, c.w))
    BY <1>0, <1>1, <2>1, CallFields, RemovedGood
  <2> QED
    BY <1>0, <2>1, <2>2, DoneGood
<1>9. CASE DeleteVisit(r)
  BY <1>0, <1>9, VisitAtGood, DoneGood DEF DeleteVisit
<1> QED
  BY <1>2, <1>3, <1>4, <1>5, <1>6, <1>7, <1>8, <1>9

LEMMA PutBackKeeps ==
    ASSUME TalkInv, NEW r \in Requests, PutBack(r)
    PROVE TalkInv'
<1> DEFINE b == job[r].back
           d == IF b.lines = <<>> THEN db ELSE SetLine(db, b.w, b.lines[1])
<1>0. Busy(r) /\ Good(db) /\ b # NoBack
  BY InvIsGood DEF PutBack
<1>1. b \in Back
  BY <1>0, HeadIs
<1>2. /\ db' = Restored(FreshGone(d, b), b.rows)
      /\ job' = [job EXCEPT ![r] = Idle] /\ over' = over
      /\ used' \in 0..MaxUsed /\ past' \subseteq Causes
  <2>1. used' \in 0..MaxUsed
    <3>1. MaxUsed \in Nat /\ used \in 0..MaxUsed
      BY TalkConstants DEF TalkInv, TypeOK
    <3>2. used' = used \/ (used < MaxUsed /\ used' = used + 1)
      BY DEF PutBack
    <3> QED
      BY <3>1, <3>2
  <2>2. past' \subseteq Causes
    BY DEF PutBack, TalkInv, TypeOK, Causes
  <2> QED
    BY <2>1, <2>2 DEF PutBack
<1> HIDE DEF b
<1>3. b.w \in Week /\ b.lines \in Seq(Line) /\ b.rows \in Seq(Ids \X Row)
  BY <1>1 DEF Back
<1>4. Good(d)
  <2>1. b.lines # <<>> => b.lines[1] \in Line
    BY <1>3
  <2> QED
    BY <1>0, <1>3, <2>1, SetLineGood DEF Leads
<1> HIDE DEF d
<1>5. Good(FreshGone(d, b))
  BY <1>1, <1>4, FreshGoneGood
<1>6. Good(db')
  BY <1>2, <1>3, <1>5, RestoredGood
<1>7. job' \in [Requests -> Job]
  <2>1. Idle \in Job
    BY DEF Idle, Job
  <2> QED
    BY <1>2, <2>1 DEF TalkInv, TypeOK
<1> QED
  BY <1>2, <1>6, <1>7 DEF TalkInv, TypeOK, Good

LEMMA LoseKeeps ==
    ASSUME TalkInv, NEW r \in Requests, Lose(r)
    PROVE TalkInv'
<1>1. Idle \in Job
  BY DEF Idle, Job
<1>2. job' \in [Requests -> Job]
  BY <1>1 DEF Lose, TalkInv, TypeOK
<1>3. used' \in 0..MaxUsed /\ past' \subseteq Causes
  <2>1. MaxUsed \in Nat /\ used \in 0..MaxUsed /\ past \subseteq Causes
    BY TalkConstants DEF TalkInv, TypeOK
  <2>2. used < MaxUsed /\ used' = used + 1 /\ past' = past \cup {"overlap"}
    BY DEF Lose
  <2>3. past' \subseteq Causes
    BY <2>1, <2>2 DEF Causes
  <2>4. used' \in 0..MaxUsed
    BY <2>1, <2>2
  <2> QED
    BY <2>3, <2>4
<1> QED
  BY <1>2, <1>3 DEF Lose, TalkInv, TypeOK

LEMMA TickKeeps ==
    ASSUME TalkInv, Tick
    PROVE TalkInv'
<1>1. over' \in 0..Weeks /\ past' \subseteq Causes
  <2>1. Weeks \in Nat /\ over \in 0..Weeks /\ past \subseteq Causes
    BY TalkConstants DEF TalkInv, TypeOK
  <2>2. over < Weeks /\ over' = over + 1 /\ past' \subseteq past \cup {"overlap"}
    BY DEF Tick
  <2>3. past' \subseteq Causes
    BY <2>1, <2>2 DEF Causes
  <2>4. over' \in 0..Weeks
    BY <2>1, <2>2
  <2> QED
    BY <2>3, <2>4
<1> QED
  BY <1>1 DEF Tick, TalkInv, TypeOK

LEMMA TalkInit ==
    ASSUME Init
    PROVE TalkInv
<1>1. db \in Database /\ \A w \in Week : Cardinality(Live(db, w)) <= 1
  BY TalkSetups DEF Init
<1>2. Single(db)
  BY <1>1, SingleIsOne
<1>3. Idle \in Job
  BY DEF Idle, Job
<1>4. job \in [Requests -> Job]
  BY <1>3 DEF Init
<1> QED
  BY <1>1, <1>2, <1>4, TalkConstants DEF Init, TalkInv, TypeOK

LEMMA TalkStep ==
    ASSUME TalkInv, [Next]_vars
    PROVE TalkInv'
<1>1. CASE UNCHANGED vars
  BY <1>1 DEF TalkInv, TypeOK, vars, history
<1>2. CASE Tick
  BY <1>2, TickKeeps
<1>3. ASSUME NEW r \in Requests, Begins(r) \/ Steps(r) \/ PutBack(r) \/ Lose(r)
      PROVE TalkInv'
  BY <1>3, BeginningsKeep, JournalCallsKeep, SaveEntryKeeps, LineCallsKeep, MoveKeeps,
     VisitCallsKeep, PutBackKeeps, LoseKeeps
     DEF Steps
<1> QED
  BY <1>1, <1>2, <1>3 DEF Next

LEMMA TalkAlways ==
    Spec => []TalkInv
BY TalkInit, TalkStep, PTL DEF Spec

\* The journal, the lines, the visit and the calls of the requests keep their types - whatever
\* calls of whatever requests mix.
THEOREM TalkTypeCorrect == Spec => []TypeOK
<1>1. TalkInv => TypeOK
  BY DEF TalkInv
<1> QED
  BY <1>1, TalkAlways, PTL

\* No week ever has two live entries, whichever of the journal, the programme's line and the
\* visit of the circuit overseer writes them: every writer either finds the week free, rewrites
\* the entry that stands in it, or is refused.
THEOREM OneGuestEachWeek == Spec => []OneGuestAWeek
<1>1. TalkInv => OneGuestAWeek
  BY SingleIsOne DEF TalkInv, TypeOK, OneGuestAWeek
<1> QED
  BY <1>1, TalkAlways, PTL

----------------------------------------------------------------------------
(* A replacement that fails.  What it took down is put back whole, because   *)
(* the only entries that can stand in the week by then are its own.          *)

RowIds(b) == {b.rows[i][1] : i \in 1..Len(b.rows)}

\* A replacement remembers the line, and the entry that stood in the week.
ReplaceBack(b) ==
    b.lines # <<>> /\ (b.rows # <<>> => Len(b.rows) = 1 /\ b.rows[1][2].week = b.w)

\* Its undoing remembers the entry it lets stand again, and the one that stands in its place.
UndoBack(b) ==
    /\ b.lines = <<>> /\ Len(b.rows) \in {1, 2} /\ ~Standing(b.rows[1][2])
    /\ Len(b.rows) = 2 => b.rows[2][1] # b.rows[1][1] /\ b.rows[2][2].week = b.w

UndoCall(b, c) ==
    c.call \in {"write", "delete", "name"} /\ (c.call # "name" => c.e \in RowIds(b))

UndoKept(j) ==
    UndoBack(j.back) /\ \A i \in 1..Len(j.todo) : UndoCall(j.back, j.todo[i])

\* While requests come one at a time, one is busy, and the undoing has its week to itself.
Alone == OneAtATime => \A r, x \in Requests : Busy(r) /\ Busy(x) => r = x
BacksKept ==
    \A r \in Requests : Busy(r) /\ job[r].back # NoBack =>
      \/ ReplaceBack(job[r].back)
      \/ UndoKept(job[r]) /\ (OneAtATime => Live(db, job[r].back.w) \subseteq RowIds(job[r].back))
WholeInv == TalkInv /\ Alone /\ BacksKept

\* What a request's beginning does to the others.
BeginsAmong(r) ==
    /\ ~Busy(r) /\ \A x \in Requests \ {r} : job'[x] = job[x]
    /\ past \subseteq past' /\ ((\E x \in Requests \ {r} : Busy(x)) => "overlap" \in past')

LEMMA BeginIsAmong ==
    ASSUME TalkInv, NEW r \in Requests, NEW kind, NEW d, NEW calls, NEW back,
           BeginWith(r, kind, d, calls, back)
    PROVE BeginsAmong(r) /\ job'[r] = [todo |-> calls, back |-> back] /\ db' = d
<1>1. job' = [job EXCEPT ![r] = [todo |-> calls, back |-> back]] /\ job \in [Requests -> Job]
  BY DEF BeginWith, TalkInv, TypeOK
<1>2. past' = past \cup LeavesBehind(r, kind, d, calls)
  BY DEF BeginWith
<1>3. (\E x \in Requests \ {r} : Busy(x)) => "overlap" \in LeavesBehind(r, kind, d, calls)
  BY DEF LeavesBehind, Causes
<1> QED
  BY <1>1, <1>2, <1>3 DEF BeginsAmong, BeginWith

\* A request that remembers nothing to put back.
PlainBegin(r) == BeginsAmong(r) /\ job'[r].back = NoBack

LEMMA BeginIsPlain ==
    ASSUME TalkInv, NEW r \in Requests, NEW kind, NEW d, NEW calls, Begin(r, kind, d, calls)
    PROVE PlainBegin(r)
<1>1. BeginWith(r, kind, d, calls, NoBack)
  BY DEF Begin
<1>2. BeginsAmong(r) /\ job'[r] = [todo |-> calls, back |-> NoBack]
  BY <1>1, BeginIsAmong
<1> QED
  BY <1>2 DEF PlainBegin

LEMMA SaveAsIsPlain ==
    ASSUME TalkInv, NEW r \in Requests, NEW kind, NEW e, NEW row, NEW ow, SaveAs(r, kind, e, row, ow)
    PROVE PlainBegin(r)
BY BeginIsPlain DEF SaveAs

LEMMA SaveLineAsIsPlain ==
    ASSUME TalkInv, NEW r \in Requests, NEW kind, NEW w, NEW l, SaveLineAs(r, kind, w, l)
    PROVE PlainBegin(r)
BY BeginIsPlain DEF SaveLineAs

LEMMA MostBeginPlainly ==
    ASSUME TalkInv, NEW r \in Requests, Begins(r), ~replaceSpeaker(r), ~undoReplacement(r)
    PROVE PlainBegin(r)
<1>1. CreateEntry(r) => PlainBegin(r)
  BY BeginIsPlain, Zenon DEF CreateEntry
<1>2. ChangeSpeaker(r) \/ ShiftWeek(r) \/ Missed(r) => PlainBegin(r)
  <2>1. ChangeSpeaker(r) => PlainBegin(r)
    BY SaveAsIsPlain, Zenon DEF ChangeSpeaker
  <2>2. ShiftWeek(r) => PlainBegin(r)
    BY SaveAsIsPlain, Zenon DEF ShiftWeek
  <2>3. Missed(r) => PlainBegin(r)
    BY SaveAsIsPlain, Zenon DEF Missed
  <2> QED
    BY <2>1, <2>2, <2>3
<1>3. RemoveEntry(r) => PlainBegin(r)
  BY BeginIsPlain, Zenon DEF RemoveEntry
<1>4. moveSetAside(r) => PlainBegin(r)
  BY BeginIsPlain, Zenon DEF moveSetAside
<1>5. NewLine(r) => PlainBegin(r)
  BY BeginIsPlain, Zenon DEF NewLine
<1>6. EditLine(r) \/ CancelLine(r) => PlainBegin(r)
  BY SaveLineAsIsPlain, Zenon DEF EditLine, CancelLine
<1>7. RemoveLine(r) => PlainBegin(r)
  BY BeginIsPlain, Zenon DEF RemoveLine
<1>8. RestoreLine(r) => PlainBegin(r)
  BY BeginIsPlain, Zenon DEF RestoreLine
<1>9. SwapTalks(r) => PlainBegin(r)
  BY BeginIsPlain, ZenonT(40) DEF SwapTalks
<1>10. AddVisit(r) => PlainBegin(r)
  BY BeginIsPlain, Zenon DEF AddVisit
<1>11. SaveVisit(r) => PlainBegin(r)
  BY BeginIsPlain, Zenon DEF SaveVisit
<1>12. MoveVisit(r) => PlainBegin(r)
  BY BeginIsPlain, Zenon DEF MoveVisit
<1>13. RemoveVisit(r) => PlainBegin(r)
  BY BeginIsPlain, Zenon DEF RemoveVisit
<1>14. RestoreVisit(r) => PlainBegin(r)
  BY BeginIsPlain, Zenon DEF RestoreVisit
<1> QED
  BY <1>1, <1>2, <1>3, <1>4, <1>5, <1>6, <1>7, <1>8, <1>9, <1>10, <1>11, <1>12, <1>13, <1>14
     DEF Begins

\* Whoever begins beside another that is busy leaves a mark of it.
LEMMA AmongKeeps ==
    ASSUME WholeInv, NEW r \in Requests, BeginsAmong(r),
           \/ job'[r].back = NoBack
           \/ ReplaceBack(job'[r].back)
           \/ UndoKept(job'[r]) /\ Live(db', job'[r].back.w) \subseteq RowIds(job'[r].back)
    PROVE Alone' /\ BacksKept'
<1>1. \A x \in Requests \ {r} : job'[x] = job[x] /\ Busy(x)' = Busy(x)
  BY DEF BeginsAmong, Busy
<1>2. OneAtATime' => OneAtATime /\ \A x \in Requests \ {r} : ~Busy(x)
  BY DEF BeginsAmong, OneAtATime
<1>3. Alone'
  BY <1>1, <1>2 DEF Alone
<1>4. ASSUME NEW x \in Requests, Busy(x)', job'[x].back # NoBack
      PROVE \/ ReplaceBack(job'[x].back)
            \/ UndoKept(job'[x]) /\ (OneAtATime' => Live(db', job'[x].back.w) \subseteq RowIds(job'[x].back))
  <2>1. CASE x = r
    BY <1>4, <2>1
  <2>2. CASE x # r
    <3>1. job'[x] = job[x] /\ Busy(x) /\ ~OneAtATime'
      BY <1>1, <1>2, <1>4, <2>2
    <3> QED
      BY <1>4, <3>1 DEF WholeInv, BacksKept
  <2> QED
    BY <2>1, <2>2
<1> QED
  BY <1>3, <1>4 DEF BacksKept

LEMMA ReplaceIsKept ==
    ASSUME TalkInv, NEW r \in Requests, replaceSpeaker(r)
    PROVE BeginsAmong(r) /\ ReplaceBack(job'[r].back)
<1>1. PICK w \in Week, g \in Guests :
        LET l == db.line[w]
            e == weekEntry(db, w)
            close == IF e = NoEntry THEN <<>>
                     ELSE <<[call |-> "write", e |-> e, row |-> [db.entry[e] EXCEPT !.held = FALSE]]>>
            was == IF e = NoEntry THEN <<>> ELSE <<<<e, db.entry[e]>>>>
        IN  BeginWith(r, "replace", db,
                close \o <<[call |-> "saveLine", w |-> w, l |-> [l EXCEPT !.who = g, !.link = NoEntry]],
                           Sync(w, TRUE), On("adopt", w)>>,
                [w |-> w, lines |-> <<l>>, rows |-> was])
  BY Zenon DEF replaceSpeaker
<1> DEFINE l == db.line[w]
           e == weekEntry(db, w)
           close == IF e = NoEntry THEN <<>>
                    ELSE <<[call |-> "write", e |-> e, row |-> [db.entry[e] EXCEPT !.held = FALSE]]>>
           was == IF e = NoEntry THEN <<>> ELSE <<<<e, db.entry[e]>>>>
           calls == close \o <<[call |-> "saveLine", w |-> w, l |-> [l EXCEPT !.who = g, !.link = NoEntry]],
                               Sync(w, TRUE), On("adopt", w)>>
           back == [w |-> w, lines |-> <<l>>, rows |-> was]
<1>2. BeginWith(r, "replace", db, calls, back)
  BY <1>1
<1>3. e # NoEntry => db.entry[e].week = w
  BY InvIsGood, WeekEntryIs
<1>4. ReplaceBack(back)
  <2> HIDE DEF e, l
  <2>1. back.lines # <<>> /\ back.rows = was /\ back.w = w
    OBVIOUS
  <2>2. was # <<>> => e # NoEntry /\ Len(was) = 1 /\ was[1][2] = db.entry[e]
    OBVIOUS
  <2> HIDE DEF back, was
  <2> QED
    BY <1>3, <2>1, <2>2 DEF ReplaceBack
<1> HIDE DEF calls, back
<1>5. BeginsAmong(r) /\ job'[r] = [todo |-> calls, back |-> back]
  BY <1>2, BeginIsAmong
<1> QED
  BY <1>4, <1>5

LEMMA JoinedToTwo ==
    ASSUME NEW a, NEW b, NEW c, NEW i \in 1..Len(<<a>> \o <<b, c>>)
    PROVE (<<a>> \o <<b, c>>)[i] \in {a, b, c}
<1>1. Len(<<a>> \o <<b, c>>) = 3
  OBVIOUS
<1>2. i \in {1, 2, 3}
  BY <1>1
<1>3. (<<a>> \o <<b, c>>)[1] = a /\ (<<a>> \o <<b, c>>)[2] = b /\ (<<a>> \o <<b, c>>)[3] = c
  OBVIOUS
<1> QED
  BY <1>2, <1>3

LEMMA UndoIsKept ==
    ASSUME TalkInv, NEW r \in Requests, undoReplacement(r)
    PROVE /\ BeginsAmong(r) /\ UndoKept(job'[r])
          /\ Live(db', job'[r].back.w) \subseteq RowIds(job'[r].back)
<1>1. PICK e \in Ids :
        LET row == db.entry[e]
            w == row.week
            x == weekEntry(db, w)
            free == CASE x = NoEntry -> <<>>
                      [] x # NoEntry /\ db.entry[x].hand = "noted" ->
                           <<[call |-> "write", e |-> x, row |-> [db.entry[x] EXCEPT !.held = FALSE]]>>
                      [] OTHER -> <<[call |-> "delete", e |-> x]>>
            was == IF x = NoEntry THEN <<<<e, row>>>> ELSE <<<<e, row>>, <<x, db.entry[x]>>>>
        IN  /\ ~row.held
            /\ BeginWith(r, "undo", db,
                free \o <<[call |-> "write", e |-> e, row |-> [row EXCEPT !.held = TRUE]],
                          [call |-> "name", w |-> w, e |-> e]>>,
                [w |-> w, lines |-> <<>>, rows |-> was])
  BY Zenon DEF undoReplacement
<1> DEFINE row == db.entry[e]
           w == row.week
           x == weekEntry(db, w)
           free == CASE x = NoEntry -> <<>>
                     [] x # NoEntry /\ db.entry[x].hand = "noted" ->
                          <<[call |-> "write", e |-> x, row |-> [db.entry[x] EXCEPT !.held = FALSE]]>>
                     [] OTHER -> <<[call |-> "delete", e |-> x]>>
           was == IF x = NoEntry THEN <<<<e, row>>>> ELSE <<<<e, row>>, <<x, db.entry[x]>>>>
           rest == <<[call |-> "write", e |-> e, row |-> [row EXCEPT !.held = TRUE]],
                     [call |-> "name", w |-> w, e |-> e]>>
           back == [w |-> w, lines |-> <<>>, rows |-> was]
<1>2. ~row.held /\ BeginWith(r, "undo", db, free \o rest, back)
  BY <1>1
<1>3. /\ x # NoEntry => x \in Ids /\ Standing(db.entry[x]) /\ db.entry[x].week = w
      /\ x = NoEntry => Live(db, w) = {}
  BY InvIsGood, WeekEntryIs
<1>4. x # e
  <2>1. e # NoEntry
    BY TalkConstants DEF Ids, NoEntry
  <2> QED
    BY <1>2, <1>3, <2>1 DEF Standing
<1>5. Live(db, w) \subseteq {x} \ {NoEntry}
  <2>1. w \in Week
    BY RowRead DEF Row
  <2>2. x # NoEntry => Live(db, w) = {x}
    BY <1>3, InvIsGood DEF Good, Single, Live
  <2>3. NoEntry \notin Live(db, w)
    BY TalkConstants DEF Live, Ids, NoEntry
  <2> QED
    BY <1>3, <2>2, <2>3
<1> HIDE DEF x
<1>6. RowIds(back) = {e} \cup ({x} \ {NoEntry})
  <2>1. CASE x = NoEntry
    <3>1. back.rows = <<<<e, row>>>>
      BY <2>1
    <3>2. Len(back.rows) = 1 /\ back.rows[1][1] = e
      BY <3>1
    <3> HIDE DEF back
    <3> QED
      BY <2>1, <3>2 DEF RowIds
  <2>2. CASE x # NoEntry
    <3>1. back.rows = <<<<e, row>>, <<x, db.entry[x]>>>>
      BY <2>2
    <3>2. Len(back.rows) = 2 /\ back.rows[1][1] = e /\ back.rows[2][1] = x
      BY <3>1
    <3> HIDE DEF back
    <3> QED
      BY <2>2, <3>2 DEF RowIds
  <2> QED
    BY <2>1, <2>2
<1>7. UndoBack(back)
  <2>1. CASE x = NoEntry
    <3>1. back.rows = <<<<e, row>>>> /\ back.lines = <<>>
      BY <2>1
    <3>2. Len(back.rows) = 1 /\ back.rows[1][2] = row
      BY <3>1
    <3> HIDE DEF back
    <3> QED
      BY <1>2, <3>1, <3>2 DEF UndoBack, Standing
  <2>2. CASE x # NoEntry
    <3>1. back.rows = <<<<e, row>>, <<x, db.entry[x]>>>> /\ back.lines = <<>> /\ back.w = w
      BY <2>2
    <3>2. /\ Len(back.rows) = 2 /\ back.rows[1][1] = e /\ back.rows[2][1] = x
          /\ back.rows[1][2] = row /\ back.rows[2][2] = db.entry[x]
      BY <3>1
    <3> HIDE DEF back
    <3> QED
      BY <1>2, <1>3, <1>4, <2>2, <3>1, <3>2 DEF UndoBack, Standing
  <2> QED
    BY <2>1, <2>2
<1>8. ASSUME NEW i \in 1..Len(free \o rest)
      PROVE UndoCall(back, (free \o rest)[i])
  <2>1. UndoCall(back, rest[1]) /\ UndoCall(back, rest[2])
    <3> HIDE DEF back
    <3> QED
      BY <1>6 DEF UndoCall
  <2>2. CASE x = NoEntry
    <3>1. free = <<>>
      BY <2>2
    <3>2. (free \o rest)[i] = rest[i] /\ i \in {1, 2}
      BY <3>1
    <3> HIDE DEF rest, free, back
    <3> QED
      BY <2>1, <3>2
  <2>3. CASE x # NoEntry
    <3> DEFINE a == free[1]
    <3>1. free = <<a>> /\ a.call \in {"write", "delete"} /\ a.e = x
      <4>1. CASE db.entry[x].hand = "noted"
        <5>1. free = <<[call |-> "write", e |-> x, row |-> [db.entry[x] EXCEPT !.held = FALSE]]>>
          BY <2>3, <4>1
        <5> QED
          BY <5>1
      <4>2. CASE db.entry[x].hand # "noted"
        <5>1. free = <<[call |-> "delete", e |-> x]>>
          BY <2>3, <4>2
        <5> QED
          BY <5>1
      <4> QED
        BY <4>1, <4>2
    <3>2. UndoCall(back, a)
      <4> HIDE DEF a, back
      <4> QED
        BY <1>6, <2>3, <3>1 DEF UndoCall
    <3> DEFINE b == rest[1]
               c == rest[2]
    <3>a. rest = <<b, c>>
      OBVIOUS
    <3> HIDE DEF free, rest, a, b, c
    <3>b. i \in 1..Len(<<a>> \o <<b, c>>)
      BY <1>8, <3>1, <3>a
    <3>3. (free \o rest)[i] \in {a, b, c}
      BY <3>1, <3>a, <3>b, JoinedToTwo
    <3> HIDE DEF back
    <3> QED
      BY <2>1, <3>2, <3>3 DEF b, c
  <2> QED
    BY <2>2, <2>3
<1> DEFINE calls == free \o rest
<1>9. back.w = w
  OBVIOUS
<1> HIDE DEF free, rest, back
<1>10. \A i \in 1..Len(calls) : UndoCall(back, calls[i])
  BY <1>8
<1> HIDE DEF calls
<1>11. BeginWith(r, "undo", db, calls, back)
  BY <1>2 DEF calls
<1>12. BeginsAmong(r) /\ job'[r] = [todo |-> calls, back |-> back] /\ db' = db
  BY <1>11, BeginIsAmong
<1>13. UndoKept(job'[r])
  BY <1>7, <1>10, <1>12 DEF UndoKept
<1> QED
  BY <1>5, <1>6, <1>9, <1>12, <1>13

LEMMA BeginningsKeepWhole ==
    ASSUME WholeInv, NEW r \in Requests, Begins(r)
    PROVE WholeInv'
<1>0. TalkInv /\ TalkInv'
  BY BeginningsKeep DEF WholeInv
<1>1. CASE replaceSpeaker(r)
  BY <1>0, <1>1, ReplaceIsKept, AmongKeeps DEF WholeInv
<1>2. CASE undoReplacement(r)
  BY <1>0, <1>2, UndoIsKept, AmongKeeps DEF WholeInv
<1>3. CASE ~replaceSpeaker(r) /\ ~undoReplacement(r)
  <2>1. PlainBegin(r)
    BY <1>0, <1>3, MostBeginPlainly
  <2> QED
    BY <1>0, <2>1, AmongKeeps DEF PlainBegin, WholeInv
<1> QED
  BY <1>1, <1>2, <1>3

\* A call of a request touches no other, and the request goes on with the calls that are left, or ends.
GoesOn(r) ==
    /\ Busy(r) /\ past' = past /\ \A x \in Requests \ {r} : job'[x] = job[x]
    /\ ~Busy(r)' \/ job'[r].back = job[r].back

LEMMA EndsGoesOn ==
    ASSUME TalkInv, NEW r \in Requests, NEW d, NEW calls, Busy(r), Ends(r, d, calls)
    PROVE GoesOn(r) /\ db' = d /\ (Busy(r)' => job'[r].todo = calls)
<1>1. job' = [job EXCEPT ![r] = IF calls = <<>> THEN Idle ELSE [job[r] EXCEPT !.todo = calls]]
  BY DEF Ends
<1>2. job \in [Requests -> Job] /\ job[r] \in Job
  BY DEF TalkInv, TypeOK
<1>3. \A x \in Requests \ {r} : job'[x] = job[x]
  BY <1>1, <1>2
<1>4. job'[r] = IF calls = <<>> THEN Idle ELSE [job[r] EXCEPT !.todo = calls]
  BY <1>1, <1>2
<1>5. CASE calls = <<>>
  BY <1>3, <1>4, <1>5 DEF GoesOn, Ends, history, Busy, Idle
<1>6. CASE calls # <<>>
  <2>1. job'[r].back = job[r].back /\ job'[r].todo = calls
    BY <1>2, <1>4, <1>6 DEF Job
  <2> QED
    BY <1>3, <2>1 DEF GoesOn, Ends, history
<1> QED
  BY <1>5, <1>6

LEMMA StepGoesOn ==
    ASSUME TalkInv, NEW r \in Requests, Steps(r)
    PROVE GoesOn(r)
<1>1. ASSUME NEW d, Busy(r), Done(r, d)
      PROVE GoesOn(r)
  BY <1>1, EndsGoesOn DEF Done
<1>2. CASE saveEntry(r)
  BY <1>2, EndsGoesOn DEF saveEntry, Doing
<1>3. CASE moveWeekEntries(r)
  BY <1>1, <1>3, EndsGoesOn DEF moveWeekEntries, Doing
<1>4. CASE RunApply(r) \/ RunRelease(r) \/ RunClear(r) \/ RunDelete(r) \/ RunFill(r)
  BY <1>1, <1>4 DEF RunApply, RunRelease, RunClear, RunDelete, RunFill, Doing
<1>5. CASE SaveLine(r) \/ RunSync(r) \/ RunWrite(r) \/ RunAdopt(r) \/ RunName(r)
  BY <1>1, <1>5, Zenon DEF SaveLine, RunSync, RunWrite, RunAdopt, RunName, Doing
<1>6. CASE RunTemplate(r) \/ RunApplied(r) \/ RunSaveVisit(r) \/ RunSpeaker(r)
  BY <1>1, <1>6, Zenon DEF RunTemplate, RunApplied, RunSaveVisit, RunSpeaker, Doing
<1>7. CASE RunRevert(r) \/ RunVisitMoved(r) \/ RunVisitRemoved(r) \/ DeleteVisit(r)
  BY <1>1, <1>7, Zenon DEF RunRevert, RunVisitMoved, RunVisitRemoved, DeleteVisit, Doing
<1> QED
  BY <1>2, <1>3, <1>4, <1>5, <1>6, <1>7 DEF Steps

\* What an undoing's own calls do: its list grows shorter, and nobody else enters its week.
LEMMA UndoGoesOn ==
    ASSUME TalkInv, NEW r \in Requests, Steps(r), UndoKept(job[r]), job[r].back # NoBack
    PROVE /\ Busy(r)' => UndoKept(job'[r])
          /\ Live(db, job[r].back.w) \subseteq RowIds(job[r].back)
               => Live(db', job[r].back.w) \subseteq RowIds(job[r].back)
<1> DEFINE b == job[r].back
           t == job[r].todo
           c == t[1]
<1>0. GoesOn(r) /\ Busy(r) /\ t # <<>>
  BY StepGoesOn DEF GoesOn, Busy
<1>1. job[r] \in Job /\ t \in Seq(Call) /\ c \in Call /\ b \in Back
  BY <1>0, HeadIs DEF Args, Job
<1>2. Len(t) \in Nat /\ Len(t) >= 1 /\ 1 \in 1..Len(t)
  BY <1>0, <1>1
<1>3. UndoCall(b, c)
  BY <1>2 DEF UndoKept
<1>4. RunWrite(r) \/ RunDelete(r) \/ RunName(r)
  <2>1. c.call \in {"write", "delete", "name"}
    BY <1>3 DEF UndoCall
  <2> QED
    BY <2>1 DEF Steps, Doing, Args, RunApply, saveEntry, RunRelease, RunClear, RunFill, SaveLine, RunSync,
       moveWeekEntries, RunAdopt, RunTemplate, RunApplied, RunSaveVisit, RunSpeaker, RunRevert,
       RunVisitMoved, RunVisitRemoved, DeleteVisit
<1>5. Busy(r)' => job'[r].todo = Tail(t) /\ job'[r].back = b
  <2>1. PICK d : Done(r, d)
    BY <1>4 DEF RunWrite, RunDelete, RunName
  <2>2. Busy(r)' => job'[r].todo = Tail(t)
    BY <1>0, <2>1, EndsGoesOn DEF Done
  <2> QED
    BY <1>0, <2>2 DEF GoesOn
<1>6. Busy(r)' => UndoKept(job'[r])
  <2> SUFFICES ASSUME Busy(r)'
               PROVE UndoKept(job'[r])
    OBVIOUS
  <2>1. Len(Tail(t)) = Len(t) - 1 /\ \A i \in 1..Len(Tail(t)) : Tail(t)[i] = t[i + 1]
    BY <1>0, <1>1
  <2>2. ASSUME NEW i \in 1..Len(Tail(t))
        PROVE UndoCall(b, Tail(t)[i])
    <3>1. i + 1 \in 1..Len(t)
      BY <1>2, <2>1
    <3> QED
      BY <2>1, <3>1 DEF UndoKept
  <2> HIDE DEF b, t
  <2> QED
    BY <1>5, <2>2 DEF UndoKept, b, t
<1>7. ASSUME Live(db, b.w) \subseteq RowIds(b)
      PROVE Live(db', b.w) \subseteq RowIds(b)
  <2> HIDE DEF b
  <2>0. db \in Database /\ db.entry \in [Ids -> Row]
    BY InvIsGood DEF Database
  <2>1. CASE RunWrite(r)
    <3>1. c.e \in RowIds(b) /\ c.e \in Ids /\ db' = Put(db, c.e, c.row)
      <4>1. c.call = "write" /\ Done(r, Put(db, c.e, c.row))
        BY <2>1 DEF RunWrite, Doing, Args
      <4> HIDE DEF c
      <4> QED
        BY <1>1, <1>3, <4>1, CallFields DEF UndoCall, Done, Ends
    <3> HIDE DEF c
    <3>2. \A f \in Ids : f # c.e => db'.entry[f] = db.entry[f]
      BY <2>0, <3>1 DEF Put, Database
    <3> QED
      BY <1>7, <3>1, <3>2 DEF Live
  <2>2. CASE RunDelete(r)
    <3>1. c.e \in Ids /\ db' = softDelete(db, c.e)
      <4>1. c.call = "delete" /\ Done(r, softDelete(db, c.e))
        BY <2>2 DEF RunDelete, Doing, Args
      <4> HIDE DEF c
      <4> QED
        BY <1>1, <4>1, CallFields DEF Done, Ends
    <3> HIDE DEF c
    <3>2. \A f \in Ids : db'.entry[f] = IF f = c.e THEN [db.entry[c.e] EXCEPT !.at = "gone"] ELSE db.entry[f]
      BY <3>1, InvIsGood, DeletedGood
    <3>3. ~Standing(db'.entry[c.e])
      BY <2>0, <3>1, <3>2 DEF Standing, Row
    <3> QED
      BY <1>7, <3>2, <3>3 DEF Live
  <2>3. CASE RunName(r)
    <3>1. db'.entry = db.entry
      BY <2>0, <2>3 DEF RunName, Done, Ends, SetLine, Database
    <3> QED
      BY <1>7, <3>1 DEF Live
  <2> QED
    BY <1>4, <2>1, <2>2, <2>3
<1> QED
  BY <1>6, <1>7

LEMMA StepsKeepWhole ==
    ASSUME WholeInv, NEW r \in Requests, Steps(r)
    PROVE WholeInv'
<1>0. TalkInv /\ GoesOn(r) /\ TalkInv'
  <2>1. TalkInv
    BY DEF WholeInv
  <2>2. TalkInv'
    BY <2>1, JournalCallsKeep, SaveEntryKeeps, LineCallsKeep, MoveKeeps, VisitCallsKeep DEF Steps
  <2> QED
    BY <2>1, <2>2, StepGoesOn
<1>1. (\A x \in Requests \ {r} : Busy(x)' = Busy(x)) /\ (OneAtATime' <=> OneAtATime) /\ Busy(r)
  BY <1>0 DEF GoesOn, Busy, OneAtATime
<1>2. Alone'
  BY <1>1 DEF WholeInv, Alone
<1>3. ASSUME NEW x \in Requests, Busy(x)', job'[x].back # NoBack
      PROVE \/ ReplaceBack(job'[x].back)
            \/ UndoKept(job'[x]) /\ (OneAtATime' => Live(db', job'[x].back.w) \subseteq RowIds(job'[x].back))
  <2>1. CASE x # r
    <3>1. job'[x] = job[x] /\ Busy(x) /\ ~OneAtATime
      BY <1>0, <1>1, <1>3, <2>1 DEF GoesOn, WholeInv, Alone
    <3> QED
      BY <1>1, <1>3, <3>1 DEF WholeInv, BacksKept
  <2>2. CASE x = r
    <3>1. job'[r].back = job[r].back /\ job[r].back # NoBack
      BY <1>0, <1>3, <2>2 DEF GoesOn
    <3>2. CASE ReplaceBack(job[r].back)
      BY <2>2, <3>1, <3>2
    <3>3. CASE ~ReplaceBack(job[r].back)
      <4>1. UndoKept(job[r]) /\ (OneAtATime => Live(db, job[r].back.w) \subseteq RowIds(job[r].back))
        BY <1>1, <3>1, <3>3 DEF WholeInv, BacksKept
      <4>2. UndoKept(job'[r])
        BY <1>0, <1>3, <2>2, <3>1, <4>1, UndoGoesOn
      <4>3. OneAtATime => Live(db', job[r].back.w) \subseteq RowIds(job[r].back)
        BY <1>0, <3>1, <4>1, UndoGoesOn
      <4> QED
        BY <1>1, <2>2, <3>1, <4>2, <4>3
    <3> QED
      BY <3>2, <3>3
  <2> QED
    BY <2>1, <2>2
<1> QED
  BY <1>0, <1>2, <1>3 DEF WholeInv, BacksKept

\* A request ends all at once, and the others stay as they are.
LEMMA OneEndsKeepsWhole ==
    ASSUME WholeInv, TalkInv', NEW r \in Requests, Busy(r), job' = [job EXCEPT ![r] = Idle],
           past \subseteq past'
    PROVE WholeInv'
<1>0. job \in [Requests -> Job]
  BY DEF WholeInv, TalkInv, TypeOK
<1>1. (\A x \in Requests \ {r} : job'[x] = job[x] /\ Busy(x)' = Busy(x)) /\ ~Busy(r)'
  BY <1>0 DEF Busy, Idle
<1>2. OneAtATime' => OneAtATime
  BY DEF OneAtATime
<1>3. Alone'
  BY <1>1, <1>2 DEF Alone, WholeInv
<1>4. ASSUME NEW x \in Requests, Busy(x)', job'[x].back # NoBack
      PROVE \/ ReplaceBack(job'[x].back)
            \/ UndoKept(job'[x]) /\ (OneAtATime' => Live(db', job'[x].back.w) \subseteq RowIds(job'[x].back))
  <2>1. x # r /\ job'[x] = job[x] /\ Busy(x)
    BY <1>1, <1>4
  <2>2. ~OneAtATime'
    BY <1>2, <2>1 DEF WholeInv, Alone
  <2> QED
    BY <1>4, <2>1, <2>2 DEF WholeInv, BacksKept
<1> QED
  BY <1>3, <1>4 DEF WholeInv, BacksKept

LEMMA TickKeepsWhole ==
    ASSUME WholeInv, Tick
    PROVE WholeInv'
<1>1. TalkInv' /\ job' = job /\ db' = db /\ past \subseteq past'
  BY TickKeeps DEF WholeInv, Tick
<1>2. (\A x \in Requests : Busy(x)' = Busy(x)) /\ (OneAtATime' => OneAtATime)
  BY <1>1 DEF Busy, OneAtATime
<1> QED
  BY <1>1, <1>2 DEF WholeInv, Alone, BacksKept

LEMMA WholeStep ==
    ASSUME WholeInv, [Next]_vars
    PROVE WholeInv'
<1>1. CASE UNCHANGED vars
  <2>1. TalkInv' /\ job' = job /\ db' = db /\ past' = past
    BY <1>1, TalkStep DEF WholeInv, vars, history
  <2> QED
    BY <2>1 DEF WholeInv, Alone, BacksKept, Busy, OneAtATime
<1>2. CASE Tick
  BY <1>2, TickKeepsWhole
<1>3. ASSUME NEW r \in Requests, PutBack(r) \/ Lose(r)
      PROVE WholeInv'
  <2>1. TalkInv'
    BY <1>3, PutBackKeeps, LoseKeeps DEF WholeInv
  <2>2. Busy(r) /\ job' = [job EXCEPT ![r] = Idle] /\ past \subseteq past'
    BY <1>3 DEF PutBack, Lose
  <2> QED
    BY <2>1, <2>2, OneEndsKeepsWhole
<1>4. ASSUME NEW r \in Requests, Begins(r) \/ Steps(r)
      PROVE WholeInv'
  BY <1>4, BeginningsKeepWhole, StepsKeepWhole
<1> QED
  BY <1>1, <1>2, <1>3, <1>4 DEF Next

LEMMA WholeInit ==
    ASSUME Init
    PROVE WholeInv
<1>1. TalkInv
  BY TalkInit
<1>2. \A r \in Requests : ~Busy(r)
  BY DEF Init, Busy, Idle
<1> QED
  BY <1>1, <1>2 DEF WholeInv, Alone, BacksKept

\* Putting a row back writes that row, or nothing where its week is taken.
LEMMA RowBackIs ==
    ASSUME NEW d, Good(d), NEW x \in Ids \X Row, ~WeekTaken(d, x[1], x[2])
    PROVE /\ \A f \in Ids : RowBack(d, x).entry[f] = IF f = x[1] THEN x[2] ELSE d.entry[f]
          /\ RowBack(d, x).line = d.line
<1>1. d \in Database /\ d.entry \in [Ids -> Row] /\ x[1] \in Ids
  BY DEF Good, Database
<1>2. RowBack(d, x) = Put(d, x[1], x[2])
  BY DEF RowBack
<1> QED
  BY <1>1, <1>2 DEF Put, Database

LEMMA PutBackIsWhole ==
    ASSUME WholeInv, NEW r \in Requests, OneAtATime, PutBack(r), job[r].back.rows # <<>>
    PROVE WeekAsRead(db', job[r].back)
<1> DEFINE b == job[r].back
           d == IF b.lines = <<>> THEN db ELSE SetLine(db, b.w, b.lines[1])
           g == FreshGone(d, b)
<1>0. TalkInv /\ Good(db) /\ Busy(r) /\ b # NoBack /\ db' = Restored(g, b.rows)
  BY InvIsGood DEF WholeInv, PutBack
<1>1. b \in Back /\ b.w \in Week /\ b.lines \in Seq(Line) /\ b.rows \in Seq(Ids \X Row) /\ b.rows # <<>>
  BY <1>0, HeadIs DEF Back
<1>2. ReplaceBack(b) \/ (UndoBack(b) /\ Live(db, b.w) \subseteq RowIds(b))
  BY <1>0 DEF WholeInv, BacksKept, UndoKept
<1> HIDE DEF b
<1>3. Good(d) /\ (b.lines # <<>> => d.line[b.w] = b.lines[1])
  <2>1. b.lines # <<>> => b.lines[1] \in Line
    BY <1>1
  <2>2. Good(d)
    BY <1>0, <1>1, <2>1, SetLineGood DEF Leads
  <2>3. b.lines # <<>> => d.line[b.w] = b.lines[1]
    BY <1>0, <1>1, <2>1 DEF SetLine, Good, Database
  <2> QED
    BY <2>2, <2>3
<1>4. CASE ReplaceBack(b)
  <2> DEFINE p == b.rows[1]
             x == weekEntry(d, b.w)
  <2>1. Len(b.rows) = 1 /\ p[2].week = b.w /\ b.lines # <<>> /\ p \in Ids \X Row
    BY <1>1, <1>4 DEF ReplaceBack
  <2> HIDE DEF d, p
  <2>2. x # NoEntry => x \in Ids /\ Live(d, b.w) = {x}
    BY <1>1, <1>3, WeekEntryIs DEF Good, Single, Live
  <2>3. x = NoEntry => Live(d, b.w) = {}
    BY <1>1, <1>3, WeekEntryIs DEF Good
  <2>4. g = IF x # NoEntry /\ x # p[1] THEN softDelete(d, x) ELSE d
    BY <1>1, <2>1 DEF FreshGone, p
  <2> HIDE DEF x, g
  <2>5. Good(g) /\ g.line = d.line /\ Live(g, b.w) \subseteq {p[1]}
    <3>1. CASE x # NoEntry /\ x # p[1]
      <4>1. g = softDelete(d, x)
        BY <2>4, <3>1
      <4>2. /\ Good(g)
            /\ \A f \in Ids : g.entry[f] = IF f = x THEN [d.entry[x] EXCEPT !.at = "gone"] ELSE d.entry[f]
        BY <1>3, <2>2, <3>1, <4>1, DeletedGood
      <4>3. g.line = d.line
        BY <1>3, <4>1 DEF softDelete, Good, Database
      <4>4. ~Standing(g.entry[x])
        BY <1>3, <2>2, <3>1, <4>2 DEF Standing, Row, Good, Database
      <4>5. Live(g, b.w) = {}
        BY <2>2, <3>1, <4>2, <4>4 DEF Live
      <4> QED
        BY <4>2, <4>3, <4>5
    <3>2. CASE ~(x # NoEntry /\ x # p[1])
      BY <1>3, <2>2, <2>3, <2>4, <3>2
    <3> QED
      BY <3>1, <3>2
  <2>6. ~WeekTaken(g, p[1], p[2])
    BY <2>1, <2>5 DEF WeekTaken
  <2>7. /\ \A f \in Ids : RowBack(g, p).entry[f] = IF f = p[1] THEN p[2] ELSE g.entry[f]
        /\ RowBack(g, p).line = g.line
    BY <2>1, <2>5, <2>6, RowBackIs
  <2>8. db' = RowBack(g, p)
    BY <1>0, <2>1 DEF Restored, p
  <2>9. db'.line[b.w] = b.lines[1] /\ db'.entry[p[1]] = p[2]
    BY <1>3, <2>1, <2>5, <2>7, <2>8
  <2>10. Live(db', b.w) \subseteq {p[1]}
    BY <2>5, <2>7, <2>8 DEF Live
  <2>11. \A i \in 1..Len(b.rows) : b.rows[i] = p
    <3>1. 1..Len(b.rows) = {1}
      BY <2>1
    <3> QED
      BY <3>1 DEF p
  <2>12. 1 \in 1..Len(b.rows) /\ p[1] \in {b.rows[i][1] : i \in 1..Len(b.rows)}
    BY <2>1, <2>11
  <2> QED
    BY <2>9, <2>10, <2>11, <2>12 DEF WeekAsRead, b
<1>5. CASE UndoBack(b) /\ Live(db, b.w) \subseteq RowIds(b)
  <2> DEFINE p == b.rows[1]
             q == b.rows[2]
             m == RowBack(db, p)
  <2>1. g = db /\ b.lines = <<>>
    BY <1>5 DEF UndoBack, FreshGone
  <2>2. p \in Ids \X Row /\ ~Standing(p[2]) /\ Len(b.rows) \in {1, 2}
    BY <1>1, <1>5 DEF UndoBack
  <2> HIDE DEF p
  <2>3. ~WeekTaken(db, p[1], p[2])
    BY <2>2 DEF WeekTaken
  <2>4. /\ \A f \in Ids : m.entry[f] = IF f = p[1] THEN p[2] ELSE db.entry[f]
        /\ Good(m)
    BY <1>0, <2>2, <2>3, RowBackIs, RowBackGood
  <2>5. Live(m, b.w) \subseteq Live(db, b.w) \ {p[1]}
    BY <2>2, <2>4 DEF Live
  <2>6. CASE Len(b.rows) = 1
    <3>1. db' = m
      BY <1>0, <2>1, <2>6 DEF Restored, p
    <3>2. 1..Len(b.rows) = {1}
      BY <2>6
    <3>3. RowIds(b) = {p[1]} /\ \A i \in 1..Len(b.rows) : b.rows[i] = p
      BY <3>2 DEF RowIds, p
    <3>4. Live(db', b.w) \subseteq RowIds(b)
      BY <1>5, <2>5, <3>1
    <3>5. db'.entry[p[1]] = p[2]
      BY <2>2, <2>4, <3>1
    <3> QED
      BY <2>1, <3>3, <3>4, <3>5 DEF WeekAsRead, RowIds, b
  <2>7. CASE Len(b.rows) = 2
    <3>1. db' = RowBack(m, q)
      BY <1>0, <2>1, <2>7 DEF Restored, p
    <3>2. 1..Len(b.rows) = {1, 2} /\ q \in Ids \X Row /\ q[1] # p[1] /\ q[2].week = b.w
      BY <1>1, <1>5, <2>7 DEF UndoBack, p
    <3>3. RowIds(b) = {p[1], q[1]}
      BY <3>2 DEF RowIds, p
    <3> HIDE DEF q, m
    <3>4. Live(m, b.w) \subseteq {q[1]}
      BY <1>5, <2>5, <3>3
    <3>5. ~WeekTaken(m, q[1], q[2])
      BY <3>2, <3>4 DEF WeekTaken
    <3>6. \A f \in Ids : db'.entry[f] = IF f = q[1] THEN q[2] ELSE m.entry[f]
      BY <2>4, <3>1, <3>2, <3>5, RowBackIs
    <3>7. db'.entry[q[1]] = q[2] /\ db'.entry[p[1]] = p[2]
      BY <2>2, <2>4, <3>2, <3>6
    <3>8. Live(db', b.w) \subseteq RowIds(b)
      BY <3>3, <3>4, <3>6 DEF Live
    <3>9. \A i \in 1..Len(b.rows) : db'.entry[b.rows[i][1]] = b.rows[i][2]
      BY <3>2, <3>7 DEF p, q
    <3> QED
      BY <2>1, <3>8, <3>9 DEF WeekAsRead, RowIds, b
  <2> QED
    BY <2>2, <2>6, <2>7
<1> QED
  BY <1>2, <1>4, <1>5

\* A replacement, or its undoing, that fails at whichever of its calls - for any weeks, entries
\* and requests, one at a time - leaves line and entries as it read them, and nobody of the new
\* man's in the week.
THEOREM ReplacementsAreWhole == Spec => ReplacementWhole
<1>1. Spec => []WholeInv
  BY WholeInit, WholeStep, PTL DEF Spec
<1>2. WholeInv /\ [Next]_vars =>
        [\A r \in Requests :
           OneAtATime /\ PutBack(r) /\ job[r].back.rows # <<>> => WeekAsRead(db', job[r].back)]_vars
  BY PutBackIsWhole
<1> QED
  BY <1>1, <1>2, PTL DEF Spec, ReplacementWhole

----------------------------------------------------------------------------
(* The guest a visit set aside.  His entry stays removed and held until the  *)
(* visit goes, because nothing but a line brought back revives it otherwise. *)

AsideRow(row) == row.aside => row.at = "gone" /\ row.held
AsideSound(d) == \A e \in Ids : AsideRow(d.entry[e])

LEMMA PutSound ==
    ASSUME NEW d, Good(d), AsideSound(d), NEW e \in Ids, NEW row, AsideRow(row)
    PROVE /\ AsideSound(Put(d, e, row))
          /\ \A f \in Ids : Put(d, e, row).entry[f] = IF f = e THEN row ELSE d.entry[f]
          /\ Put(d, e, row).line = d.line /\ Put(d, e, row).visit = d.visit
<1>1. /\ \A f \in Ids : Put(d, e, row).entry[f] = IF f = e THEN row ELSE d.entry[f]
      /\ Put(d, e, row).line = d.line /\ Put(d, e, row).visit = d.visit
  BY DEF Put, Good, Database
<1> QED
  BY <1>1 DEF AsideSound

LEMMA SameRowsSound ==
    ASSUME NEW d, AsideSound(d), NEW x, x.entry = d.entry
    PROVE AsideSound(x)
BY DEF AsideSound

LEMMA SetLineSame ==
    ASSUME NEW d, Good(d), NEW w \in Week, NEW l
    PROVE /\ SetLine(d, w, l).entry = d.entry /\ SetLine(d, w, l).visit = d.visit
          /\ SetLine(d, w, l).line[w] = l
          /\ AsideSound(d) => AsideSound(SetLine(d, w, l))
<1>1. SetLine(d, w, l).entry = d.entry /\ SetLine(d, w, l).visit = d.visit
  BY DEF SetLine, Good, Database
<1>2. SetLine(d, w, l).line = [d.line EXCEPT ![w] = l] /\ d.line \in [Week -> Line]
  BY DEF SetLine, Good, Database
<1>3. SetLine(d, w, l).line[w] = l
  BY <1>2
<1> QED
  BY <1>1, <1>3, SameRowsSound

\* One row rewritten in place.
LEMMA RewrittenIs ==
    ASSUME NEW d, Good(d), NEW e \in Ids, NEW row
    PROVE /\ \A f \in Ids : [d EXCEPT !.entry[e] = row].entry[f] = IF f = e THEN row ELSE d.entry[f]
          /\ [d EXCEPT !.entry[e] = row].line = d.line /\ [d EXCEPT !.entry[e] = row].visit = d.visit
BY DEF Good, Database

LEMMA RewrittenSound ==
    ASSUME NEW d, Good(d), AsideSound(d), NEW e \in Ids, NEW row, AsideRow(row)
    PROVE AsideSound([d EXCEPT !.entry[e] = row])
<1> DEFINE x == [d EXCEPT !.entry[e] = row]
<1>1. \A f \in Ids : x.entry[f] = IF f = e THEN row ELSE d.entry[f]
  BY RewrittenIs
<1> HIDE DEF x
<1>2. AsideSound(x)
  BY <1>1 DEF AsideSound
<1> QED
  BY <1>2 DEF x

LEMMA DeletedSound ==
    ASSUME NEW d, Good(d), AsideSound(d), NEW e \in Ids
    PROVE AsideSound(softDelete(d, e)) /\ softDelete(d, e).line = d.line /\ softDelete(d, e).visit = d.visit
<1> DEFINE row == [d.entry[e] EXCEPT !.at = "gone"]
<1>1. d.entry[e] \in Row /\ AsideRow(d.entry[e])
  BY DEF Good, Database, AsideSound
<1>2. AsideRow(row)
  BY <1>1 DEF AsideRow, Row
<1>3. \A f \in Ids : softDelete(d, e).entry[f] = IF f = e THEN row ELSE d.entry[f]
  BY DeletedGood
<1> HIDE DEF row
<1>4. AsideSound(softDelete(d, e))
  BY <1>2, <1>3 DEF AsideSound
<1>5. softDelete(d, e).line = d.line /\ softDelete(d, e).visit = d.visit
  BY DEF softDelete, Good, Database
<1> QED
  BY <1>4, <1>5

\* An entry of the application's calls keeps where it stands: what `apply` writes is a mark.
LEMMA ApplySound ==
    ASSUME NEW d, Good(d), AsideSound(d), NEW e \in Ids, NEW row \in Row, AsideRow(row), NEW ow
    PROVE /\ AsideSound(applyIncomingToProgram(d, e, row, ow))
          /\ applyIncomingToProgram(d, e, row, ow).visit = d.visit
<1> DEFINE w == row.week
           l == d.line[w]
           line == [l EXCEPT !.who = row.who, !.link = e]
           off == [row EXCEPT !.off = TRUE]
<1>1. AsideRow(off) /\ w \in Week
  BY DEF AsideRow, Row
<1>2. applyIncomingToProgram(d, e, row, ow) = d
      \/ applyIncomingToProgram(d, e, row, ow) = Put(d, e, off)
      \/ applyIncomingToProgram(d, e, row, ow) = SetLine(d, w, line)
  BY DEF applyIncomingToProgram
<1> HIDE DEF off, line, w
<1>3. AsideSound(Put(d, e, off)) /\ Put(d, e, off).visit = d.visit
  BY <1>1, PutSound
<1>4. AsideSound(SetLine(d, w, line)) /\ SetLine(d, w, line).visit = d.visit
  BY <1>1, SetLineSame
<1> QED
  BY <1>2, <1>3, <1>4

LEMMA ApplyNowSound ==
    ASSUME NEW d, Good(d), AsideSound(d), NEW e \in Ids
    PROVE /\ AsideSound(ApplyNow(d, e)) /\ ApplyNow(d, e).visit = d.visit
          /\ \A f \in Ids : Standing(d.entry[f]) => /\ Standing(ApplyNow(d, e).entry[f])
                                                    /\ ApplyNow(d, e).entry[f].week = d.entry[f].week
<1> DEFINE row == d.entry[e]
           w == row.week
           l == d.line[w]
           line == [l EXCEPT !.who = row.who, !.link = e]
           off == [row EXCEPT !.off = TRUE]
<1>0. row \in Row /\ AsideRow(row) /\ w \in Week
  BY DEF Good, Database, AsideSound, Row
<1>1. AsideSound(ApplyNow(d, e)) /\ ApplyNow(d, e).visit = d.visit
  BY <1>0, ApplySound DEF ApplyNow
<1>2. ApplyNow(d, e) = d \/ ApplyNow(d, e) = Put(d, e, off) \/ ApplyNow(d, e) = SetLine(d, w, line)
  BY DEF applyIncomingToProgram, ApplyNow
<1>3. AsideRow(off) /\ (Standing(row) => Standing(off)) /\ off.week = row.week
  BY <1>0 DEF AsideRow, Row, Standing
<1>4. \A f \in Ids : Put(d, e, off).entry[f] = IF f = e THEN off ELSE d.entry[f]
  <2> HIDE DEF off
  <2> QED
    BY <1>3, PutSound
<1>5. SetLine(d, w, line).entry = d.entry
  BY <1>0, SetLineSame
<1> HIDE DEF off, line, w
<1> QED
  BY <1>1, <1>2, <1>3, <1>4, <1>5 DEF row

LEMMA FillSound ==
    ASSUME NEW d, Good(d), AsideSound(d), NEW w \in Week
    PROVE AsideSound(fillEmptySlot(d, w)) /\ fillEmptySlot(d, w).visit = d.visit
<1>1. weekEntry(d, w) # NoEntry => weekEntry(d, w) \in Ids
  BY WeekEntryIs DEF Good
<1> QED
  BY <1>1, ApplyNowSound DEF fillEmptySlot

LEMMA ClearSound ==
    ASSUME NEW d, Good(d), AsideSound(d), NEW e, NEW row, row.week \in Week
    PROVE AsideSound(clearProgramSlot(d, e, row)) /\ clearProgramSlot(d, e, row).visit = d.visit
<1> DEFINE l == [d.line[row.week] EXCEPT !.who = NoOne, !.link = NoEntry]
<1>1. clearProgramSlot(d, e, row) = d \/ clearProgramSlot(d, e, row) = SetLine(d, row.week, l)
  BY DEF clearProgramSlot
<1> HIDE DEF l
<1> QED
  BY <1>1, SetLineSame

LEMMA ReleaseSound ==
    ASSUME NEW d, Good(d), AsideSound(d), NEW w \in Week, NEW e \in Ids
    PROVE AsideSound(releaseLine(d, w, e))
<1>1. d.entry[e] \in Row
  BY DEF Good, Database
<1>2. [d.entry[e] EXCEPT !.week = w].week \in Week
  BY <1>1 DEF Row
<1> QED
  BY <1>2, ClearSound DEF releaseLine

LEMMA EmptiedSound ==
    ASSUME NEW d, Good(d), AsideSound(d), NEW w \in Week, NEW e \in Ids \cup {NoEntry}
    PROVE /\ AsideSound(Emptied(d, w, e)) /\ Emptied(d, w, e).visit = d.visit
          /\ Emptied(d, w, e).line[w].who = d.line[w].who
          /\ Seen(Emptied(d, w, e).line[w]) <=> Seen(d.line[w])
<1> DEFINE l == [d.line[w] EXCEPT !.link = NoEntry]
<1>1. d.line \in [Week -> Line] /\ d.line[w] \in Line
  BY DEF Good, Database
<1>2. l.who = d.line[w].who /\ (Seen(l) <=> Seen(d.line[w]))
  BY <1>1 DEF Line, Seen
<1> HIDE DEF l
<1>3. Emptied(d, w, e) = d \/ (e \in Ids /\ Emptied(d, w, e) = softDelete(d, e))
      \/ Emptied(d, w, e) = SetLine(d, w, l)
  BY DEF Emptied, l
<1>4. CASE e \in Ids /\ Emptied(d, w, e) = softDelete(d, e)
  BY <1>4, DeletedSound
<1>5. CASE Emptied(d, w, e) = SetLine(d, w, l)
  <2>1. SetLine(d, w, l).line[w] = l
    BY SetLineSame
  <2> QED
    BY <1>2, <1>5, <2>1, SetLineSame
<1> QED
  BY <1>3, <1>4, <1>5

\* After the line is mirrored, the week has an entry.
LEMMA MirroredSound ==
    ASSUME NEW d, Good(d), Room(d), AsideSound(d), NEW w \in Week, d.line[w].who # NoOne
    PROVE LET m == Mirrored(d, w, weekEntry(d, w)) IN
          AsideSound(m) /\ m.visit = d.visit /\ Live(m, w) # {}
<1> DEFINE e == weekEntry(d, w)
           g == d.line[w].who
           n == NewRow(w, g, "app")
           row == [d.entry[e] EXCEPT !.who = g]
           x == IF e = NoEntry THEN NewId(d) ELSE e
           d2 == IF e = NoEntry THEN Put(d, x, n) ELSE [d EXCEPT !.entry[e] = row]
           l == [d.line[w] EXCEPT !.link = x]
<1>0. d \in Database /\ (e # NoEntry => e \in Ids /\ Standing(d.entry[e]) /\ d.entry[e].week = w)
  BY WeekEntryIs DEF Good
<1>1. x \in Ids
  BY <1>0, NewIdIs
<1>2. AsideSound(d2) /\ d2.visit = d.visit /\ Standing(d2.entry[x]) /\ d2.entry[x].week = w /\ Good(d2)
  <2>1. CASE e = NoEntry
    <3>1. n.week = w /\ n \in Row /\ AsideRow(n) /\ Standing(n)
      <4>1. g \in Speakers
        BY <1>0 DEF Database, Line
      <4> QED
        BY <4>1, NewRowIs DEF NewRow, AsideRow, Standing
    <3>2. ~WeekTaken(d, x, n)
      BY <1>0, <2>1, <3>1, FreeRow
    <3> HIDE DEF n, x
    <3> QED
      BY <1>1, <2>1, <3>1, <3>2, PutSound, PutGood
  <2>2. CASE e # NoEntry
    <3>1. d.entry[e] \in Row /\ AsideRow(d.entry[e]) /\ g \in Speakers
      BY <1>0, <2>2 DEF Database, AsideSound, Line
    <3>2. /\ row \in Row /\ AsideRow(row) /\ Standing(row) /\ row.week = w
          /\ row.at = d.entry[e].at /\ row.held = d.entry[e].held /\ row.week = d.entry[e].week
      BY <1>0, <2>2, <3>1 DEF Row, AsideRow, Standing
    <3>3. d2 = [d EXCEPT !.entry[e] = row] /\ x = e
      BY <2>2
    <3> HIDE DEF row, d2, x
    <3>4. Good(d2)
      <4>1. e \in Ids
        BY <1>0, <2>2
      <4> HIDE DEF e
      <4>2. Leads(d, [d EXCEPT !.entry[e] = row])
        BY <3>2, <4>1, RewrittenGood
      <4> QED
        BY <3>3, <4>2 DEF Leads
    <3> QED
      <4>1. e \in Ids
        BY <1>0, <2>2
      <4> HIDE DEF e
      <4>2. AsideSound(d2)
        BY <3>2, <3>3, <4>1, RewrittenSound
      <4>3. d2.visit = d.visit /\ d2.entry[e] = row
        BY <3>3, <4>1, RewrittenIs
      <4> QED
        BY <3>2, <3>3, <3>4, <4>2, <4>3
  <2> QED
    BY <2>1, <2>2
<1>3. Mirrored(d, w, e) = IF programmeOpen(w) THEN SetLine(d2, w, l) ELSE d2
  BY DEF Mirrored
<1> HIDE DEF d2, l, x, e
<1>4. AsideSound(Mirrored(d, w, e)) /\ Mirrored(d, w, e).visit = d.visit
      /\ Mirrored(d, w, e).entry = d2.entry
  BY <1>2, <1>3, SetLineSame
<1>5. x \in Live(Mirrored(d, w, e), w)
  BY <1>1, <1>2, <1>4 DEF Live
<1> QED
  BY <1>4, <1>5 DEF e

LEMMA OffSound ==
    ASSUME NEW d, Good(d), AsideSound(d), NEW e \in Ids, NEW off \in BOOLEAN
    PROVE /\ AsideSound([d EXCEPT !.entry[e].off = off]) /\ [d EXCEPT !.entry[e].off = off].visit = d.visit
          /\ [d EXCEPT !.entry[e].off = off].line = d.line
          /\ \A f \in Ids : Standing(d.entry[f]) =>
                /\ Standing([d EXCEPT !.entry[e].off = off].entry[f])
                /\ [d EXCEPT !.entry[e].off = off].entry[f].week = d.entry[f].week
<1> DEFINE row == [d.entry[e] EXCEPT !.off = off]
           x == [d EXCEPT !.entry[e] = row]
<1>1. AsideRow(row) /\ (Standing(d.entry[e]) => Standing(row)) /\ row.week = d.entry[e].week
  BY DEF Good, Database, Row, AsideSound, AsideRow, Standing
<1>2. [d EXCEPT !.entry[e].off = off] = x
  OBVIOUS
<1> HIDE DEF row
<1>3. AsideSound(x) /\ x.visit = d.visit /\ x.line = d.line
      /\ \A f \in Ids : x.entry[f] = IF f = e THEN row ELSE d.entry[f]
  BY <1>1, RewrittenSound, RewrittenIs
<1> HIDE DEF x
<1> QED
  BY <1>1, <1>2, <1>3

\* The guests still set aside for a week.
Marked(d, w) == {e \in Ids : d.entry[e].aside /\ d.entry[e].at = "gone" /\ d.entry[e].week = w}

\* The week's line does not name somebody while a guest stays set aside and nobody is entered.
Returned(d, w) ==
    Seen(d.line[w]) /\ d.line[w].who # NoOne /\ weekEntry(d, w) = NoEntry => Marked(d, w) = {}

LEMMA SomebodyStands ==
    ASSUME NEW d \in Database, NEW w, Live(d, w) # {}
    PROVE weekEntry(d, w) # NoEntry
BY WeekEntryIs

\* The journal brought after the line, as every request but the restoring of a line brings it.
LEMMA SyncSound ==
    ASSUME NEW d, Good(d), Room(d), AsideSound(d), NEW w \in Week, NEW changed \in BOOLEAN
    PROVE LET s == syncProgramToJournal(d, w, changed, FALSE) IN
          /\ AsideSound(s) /\ s.visit = d.visit
          /\ changed /\ (Live(d, w) # {} \/ Marked(d, w) = {}) => Returned(s, w)
<1> DEFINE l == d.line[w]
           e == weekEntry(d, w)
           marked == [d EXCEPT !.entry[e].off = TRUE]
           free == [d EXCEPT !.entry[e].off = FALSE]
           unmarked == ApplyNow(free, e)
           s == syncProgramToJournal(d, w, changed, FALSE)
<1>0. d \in Database /\ e \in Ids \cup {NoEntry}
      /\ (e # NoEntry => e \in Ids /\ e \in Live(d, w)) /\ (e = NoEntry => Live(d, w) = {})
  BY WeekEntryIs DEF Good, Live
<1>1. LineRestored(d, w, FALSE) = d
  BY DEF LineRestored
<1>2. s = CASE Seen(l) /\ l.at = "cancelled" -> IF e = NoEntry THEN d ELSE marked
            [] e # NoEntry /\ d.entry[e].off /\ ~weekCancelled(d, w) -> unmarked
            [] OTHER ->
                 IF ~changed
                 THEN IF e # NoEntry /\ (l.link # e \/ l.who = NoOne) THEN ApplyNow(d, e) ELSE d
                 ELSE IF ~Seen(l) \/ l.who = NoOne THEN Emptied(d, w, e) ELSE Mirrored(d, w, e)
  BY <1>1 DEF syncProgramToJournal
<1>3. ASSUME NEW x, Good(x), \A f \in Ids : Standing(d.entry[f]) =>
                        Standing(x.entry[f]) /\ x.entry[f].week = d.entry[f].week,
             e # NoEntry
      PROVE Returned(x, w)
  <2>1. e \in Live(x, w)
    BY <1>0, <1>3 DEF Live
  <2>2. weekEntry(x, w) # NoEntry
    BY <1>3, <2>1, SomebodyStands DEF Good
  <2> QED
    BY <2>2 DEF Returned
<1>4. e # NoEntry => AsideSound(marked) /\ marked.visit = d.visit /\ Returned(marked, w)
  <2> SUFFICES ASSUME e # NoEntry
               PROVE AsideSound(marked) /\ marked.visit = d.visit /\ Returned(marked, w)
    OBVIOUS
  <2>1. e \in Ids
    BY <1>0
  <2> HIDE DEF e
  <2>2. Good(marked)
    BY <2>1, OffGood
  <2>3. AsideSound(marked) /\ marked.visit = d.visit
        /\ \A f \in Ids : Standing(d.entry[f]) =>
              Standing(marked.entry[f]) /\ marked.entry[f].week = d.entry[f].week
    BY <2>1, OffSound
  <2> HIDE DEF marked
  <2> QED
    BY <1>3, <2>2, <2>3
<1>5. e # NoEntry => AsideSound(unmarked) /\ unmarked.visit = d.visit /\ Returned(unmarked, w)
  <2> SUFFICES ASSUME e # NoEntry
               PROVE AsideSound(unmarked) /\ unmarked.visit = d.visit /\ Returned(unmarked, w)
    OBVIOUS
  <2>1. e \in Ids
    BY <1>0
  <2> HIDE DEF e
  <2>2. Good(free)
    BY <2>1, OffGood
  <2>3. AsideSound(free) /\ free.visit = d.visit
        /\ \A f \in Ids : Standing(d.entry[f]) =>
              Standing(free.entry[f]) /\ free.entry[f].week = d.entry[f].week
    BY <2>1, OffSound
  <2> HIDE DEF free
  <2>4. Good(unmarked)
    BY <2>1, <2>2, ApplyNowGood
  <2>5. AsideSound(unmarked) /\ unmarked.visit = free.visit
        /\ \A f \in Ids : Standing(free.entry[f]) =>
              Standing(unmarked.entry[f]) /\ unmarked.entry[f].week = free.entry[f].week
    BY <2>1, <2>2, <2>3, ApplyNowSound
  <2> HIDE DEF unmarked
  <2>6. \A f \in Ids : Standing(d.entry[f]) =>
              Standing(unmarked.entry[f]) /\ unmarked.entry[f].week = d.entry[f].week
    BY <2>3, <2>5
  <2>7. Returned(unmarked, w)
    BY <1>3, <2>4, <2>6
  <2> QED
    BY <2>3, <2>5, <2>7
<1>6. e # NoEntry => AsideSound(ApplyNow(d, e)) /\ ApplyNow(d, e).visit = d.visit
  BY <1>0, ApplyNowSound
<1>7. /\ AsideSound(Emptied(d, w, e)) /\ Emptied(d, w, e).visit = d.visit
      /\ ~Seen(l) \/ l.who = NoOne => Returned(Emptied(d, w, e), w)
  <2> HIDE DEF e
  <2>1. /\ AsideSound(Emptied(d, w, e)) /\ Emptied(d, w, e).visit = d.visit
        /\ Emptied(d, w, e).line[w].who = l.who
        /\ Seen(Emptied(d, w, e).line[w]) <=> Seen(l)
    BY <1>0, EmptiedSound
  <2> QED
    BY <2>1 DEF Returned
<1>8. Seen(l) /\ l.who # NoOne =>
        AsideSound(Mirrored(d, w, e)) /\ Mirrored(d, w, e).visit = d.visit /\ Returned(Mirrored(d, w, e), w)
  <2> SUFFICES ASSUME l.who # NoOne
               PROVE AsideSound(Mirrored(d, w, e)) /\ Mirrored(d, w, e).visit = d.visit
                     /\ Returned(Mirrored(d, w, e), w)
    OBVIOUS
  <2>1. AsideSound(Mirrored(d, w, e)) /\ Mirrored(d, w, e).visit = d.visit /\ Live(Mirrored(d, w, e), w) # {}
    BY MirroredSound
  <2>2. Good(Mirrored(d, w, e))
    <3> HIDE DEF e
    <3>1. e = NoEntry => weekEntry(d, w) = NoEntry
      BY DEF e
    <3> QED
      BY <1>0, <3>1, MirroredGood
  <2>3. weekEntry(Mirrored(d, w, e), w) # NoEntry
    BY <2>1, <2>2, SomebodyStands DEF Good
  <2> QED
    BY <2>1, <2>3 DEF Returned
<1>9. e = NoEntry /\ Marked(d, w) = {} => Returned(d, w)
  BY DEF Returned
<1>10. Live(d, w) # {} => e # NoEntry
  BY <1>0
<1> HIDE DEF e, l, marked, free, unmarked, s
<1> QED
  BY <1>2, <1>4, <1>5, <1>6, <1>7, <1>8, <1>9, <1>10 DEF s

----------------------------------------------------------------------------
(* The visit comes and goes.                                                *)

LEMMA StepAsideSound ==
    ASSUME NEW d, Good(d), AsideSound(d), NEW w \in Week
    PROVE AsideSound(StepAside(d, w))
<1> DEFINE e == weekEntry(d, w)
           row == [d.entry[e] EXCEPT !.aside = TRUE]
           x == [d EXCEPT !.entry[e] = row]
           gone == [row EXCEPT !.at = "gone"]
<1>0. e # NoEntry => e \in Ids /\ Standing(d.entry[e]) /\ d.entry[e] \in Row
  BY WeekEntryIs DEF Good, Database
<1>1. StepAside(d, w) = d \/ (e # NoEntry /\ StepAside(d, w) = setAside(d, e))
  BY DEF StepAside
<1>2. ASSUME e # NoEntry
      PROVE AsideSound(setAside(d, e))
  <2>0. e \in Ids /\ Standing(d.entry[e]) /\ d.entry[e] \in Row
    BY <1>0, <1>2
  <2> HIDE DEF e
  <2>1. [d EXCEPT !.entry[e].aside = TRUE] = x
    OBVIOUS
  <2>2. /\ row \in Row
        /\ row.at = d.entry[e].at /\ row.held = d.entry[e].held /\ row.week = d.entry[e].week
    BY <2>0 DEF Row
  <2>3. AsideRow(gone)
    BY <2>0, <2>2 DEF AsideRow, Row, Standing
  <2> HIDE DEF row
  <2>4. Good(x)
    <3>1. Leads(d, x)
      BY <2>0, <2>2, RewrittenGood
    <3> HIDE DEF x
    <3> QED
      BY <3>1 DEF Leads
  <2>5. \A f \in Ids : x.entry[f] = IF f = e THEN row ELSE d.entry[f]
    BY <2>0 DEF Good, Database
  <2> HIDE DEF x
  <2>6. \A f \in Ids : softDelete(x, e).entry[f] = IF f = e THEN [x.entry[e] EXCEPT !.at = "gone"] ELSE x.entry[f]
    BY <2>0, <2>4, DeletedGood
  <2>7. \A f \in Ids : softDelete(x, e).entry[f] = IF f = e THEN gone ELSE d.entry[f]
    BY <2>0, <2>5, <2>6
  <2> HIDE DEF gone
  <2>8. AsideSound(softDelete(x, e))
    BY <2>3, <2>7 DEF AsideSound
  <2> QED
    BY <2>1, <2>8 DEF setAside
<1> QED
  BY <1>1, <1>2

LEMMA LinkedSound ==
    ASSUME NEW d, Good(d), AsideSound(d), NEW w \in Week
    PROVE AsideSound(Linked(d, w))
<1> DEFINE e == weekEntry(d, w)
           row == [d.entry[e] EXCEPT !.his = TRUE]
<1>1. e # NoEntry => e \in Ids
  BY WeekEntryIs DEF Good
<1>2. e # NoEntry => AsideRow(row)
  BY <1>1 DEF Good, Database, Row, AsideSound, AsideRow
<1>3. [d EXCEPT !.entry[e].his = TRUE] = [d EXCEPT !.entry[e] = row]
  OBVIOUS
<1>4. e # NoEntry => AsideSound([d EXCEPT !.entry[e] = row])
  <2> HIDE DEF row, e
  <2> QED
    BY <1>1, <1>2, RewrittenSound
<1> QED
  BY <1>3, <1>4 DEF Linked

LEMMA OwnBackSound ==
    ASSUME NEW d, Good(d), AsideSound(d), NEW w \in Week
    PROVE AsideSound(OwnBack(d, w))
<1> DEFINE gone == overseerEntries(d, w, "gone")
           back == LastOf(d, gone)
           row == [d.entry[back] EXCEPT !.at = "live", !.his = TRUE]
<1>1. CASE weekEntry(d, w) = NoEntry /\ gone # {}
  <2>1. d \in Database /\ gone \in SUBSET Ids
    BY DEF Good, overseerEntries
  <2>2. back \in gone
    <3> HIDE DEF gone
    <3> QED
      BY <1>1, <2>1, LastOfIs
  <2>3. back \in Ids /\ ~d.entry[back].aside
    BY <2>2 DEF overseerEntries
  <2> HIDE DEF back, gone
  <2>4. AsideRow(row)
    BY <2>1, <2>3 DEF Database, Row, AsideRow
  <2> HIDE DEF row
  <2>5. AsideSound(Put(d, back, row))
    BY <2>3, <2>4, PutSound
  <2> QED
    BY <1>1, <2>5 DEF OwnBack, back, gone, row
<1>2. CASE ~(weekEntry(d, w) = NoEntry /\ gone # {})
  BY <1>2 DEF OwnBack
<1> QED
  BY <1>1, <1>2

LEMMA FromVisitSound ==
    ASSUME NEW d, Good(d), Room(d), AsideSound(d), NEW w \in Week
    PROVE AsideSound(FromVisit(d, w))
<1> DEFINE e == weekEntry(d, w)
           new == [NewRow(w, Overseer, "own") EXCEPT !.his = TRUE]
           row == [d.entry[e] EXCEPT !.who = Overseer]
<1>0. d \in Database
  BY DEF Good
<1>1. e # NoEntry => e \in Ids
  BY <1>0, WeekEntryIs
<1>2. NewId(d) \in Ids /\ AsideRow(new)
  BY <1>0, NewIdIs DEF NewRow, AsideRow
<1>3. AsideSound(Put(d, NewId(d), new))
  <2> HIDE DEF new
  <2> QED
    BY <1>2, PutSound
<1>4. e # NoEntry => AsideRow(row)
  BY <1>0, <1>1 DEF Database, Row, AsideSound, AsideRow
<1>5. [d EXCEPT !.entry[e].who = Overseer] = [d EXCEPT !.entry[e] = row]
  OBVIOUS
<1>6. e # NoEntry => AsideSound([d EXCEPT !.entry[e] = row])
  <2> HIDE DEF row, e
  <2> QED
    BY <1>1, <1>4, RewrittenSound
<1> QED
  BY <1>3, <1>5, <1>6 DEF FromVisit

LEMMA AppliedSound ==
    ASSUME NEW d, Good(d), Room(d), AsideSound(d), NEW w \in Week
    PROVE AsideSound(circuitVisitApplied(d, w))
<1> DEFINE a == StepAside(d, w)
           b == Linked(a, w)
           c == OwnBack(b, w)
           s == syncProgramToJournal(c, w, TRUE, FALSE)
<1>1. Good(a) /\ Room(a) /\ AsideSound(a)
  BY StepAsideGood, StepAsideSound DEF Leads
<1> HIDE DEF a
<1>2. Good(b) /\ Room(b) /\ AsideSound(b)
  BY <1>1, LinkedGood, LinkedSound DEF Leads
<1> HIDE DEF b
<1>3. Good(c) /\ Room(c) /\ AsideSound(c)
  BY <1>2, OwnBackGood, OwnBackSound DEF Leads
<1> HIDE DEF c
<1>4. Good(s) /\ AsideSound(s) /\ AsideSound(FromVisit(c, w))
  BY <1>3, SyncGood, SyncSound, FromVisitSound
<1> HIDE DEF s
<1>5. AsideSound(Linked(s, w))
  BY <1>4, LinkedSound
<1> QED
  BY <1>4, <1>5 DEF circuitVisitApplied, s, c, b, a

\* Where nobody stands by now, the guest with the visit's mark is entered again.
LEMMA ReturnSound ==
    ASSUME NEW d, Good(d), AsideSound(d), NEW w \in Week
    PROVE LET x == returnEntry(d, w) IN
          AsideSound(x) /\ x.visit = d.visit /\ (Live(x, w) # {} \/ Marked(x, w) = {})
<1> DEFINE named == {e \in Ids : /\ Seen(d.line[w]) /\ d.entry[e].at = "gone" /\ d.entry[e].held
                                 /\ d.entry[e].week = w /\ d.entry[e].who = d.line[w].who}
           m == LastOf(d, Marked(d, w))
           n == LastOf(d, named)
           x == returnEntry(d, w)
<1>0. d \in Database /\ Marked(d, w) \in SUBSET Ids /\ named \in SUBSET Ids
  BY DEF Good, Marked
<1>1. x = CASE weekEntry(d, w) # NoEntry -> d
            [] weekEntry(d, w) = NoEntry /\ Marked(d, w) # {} -> Bring(d, m)
            [] OTHER -> IF named = {} THEN d ELSE Undelete(d, n)
  BY DEF returnEntry, Marked
<1>2. CASE weekEntry(d, w) # NoEntry
  <2>1. weekEntry(d, w) \in Live(d, w)
    BY <1>0, <1>2, WeekEntryIs DEF Live
  <2> QED
    BY <1>1, <1>2, <2>1
<1>3. CASE weekEntry(d, w) = NoEntry /\ Marked(d, w) # {}
  <2> DEFINE row == [d.entry[m] EXCEPT !.at = "live", !.aside = FALSE]
  <2>1. m \in Marked(d, w)
    BY <1>0, <1>3, LastOfIs
  <2>2. m \in Ids /\ d.entry[m].aside /\ d.entry[m].week = w /\ d.entry[m].held /\ d.entry[m] \in Row
    BY <1>0, <2>1 DEF Marked, AsideSound, AsideRow, Database
  <2> HIDE DEF m
  <2>3. AsideRow(row) /\ Standing(row) /\ row.week = w
    BY <2>2 DEF Row, AsideRow, Standing
  <2> HIDE DEF row
  <2>4. /\ AsideSound(Put(d, m, row)) /\ Put(d, m, row).visit = d.visit
        /\ \A f \in Ids : Put(d, m, row).entry[f] = IF f = m THEN row ELSE d.entry[f]
    BY <2>2, <2>3, PutSound
  <2>5. x = Put(d, m, row)
    BY <1>1, <1>3 DEF Bring, row
  <2> HIDE DEF x
  <2>6. m \in Live(x, w)
    BY <2>2, <2>3, <2>4, <2>5 DEF Live
  <2> QED
    BY <2>4, <2>5, <2>6 DEF x
<1>4. CASE weekEntry(d, w) = NoEntry /\ Marked(d, w) = {} /\ named # {}
  <2> DEFINE row == [d.entry[n] EXCEPT !.at = "live"]
  <2>1. n \in named
    <3> HIDE DEF named
    <3> QED
      BY <1>0, <1>4, LastOfIs
  <2>2. n \in Ids /\ d.entry[n].at = "gone" /\ d.entry[n].week = w /\ d.entry[n].held /\ d.entry[n] \in Row
    BY <1>0, <2>1 DEF Database
  <2>3. ~d.entry[n].aside
    BY <1>4, <2>2 DEF Marked
  <2> HIDE DEF n
  <2>4. AsideRow(row) /\ Standing(row) /\ row.week = w
    BY <2>2, <2>3 DEF Row, AsideRow, Standing
  <2> HIDE DEF row
  <2>5. /\ AsideSound(Put(d, n, row)) /\ Put(d, n, row).visit = d.visit
        /\ \A f \in Ids : Put(d, n, row).entry[f] = IF f = n THEN row ELSE d.entry[f]
    BY <2>2, <2>4, PutSound
  <2>6. x = Put(d, n, row)
    BY <1>1, <1>4 DEF Undelete, row
  <2> HIDE DEF x
  <2>7. n \in Live(x, w)
    BY <2>2, <2>4, <2>5, <2>6 DEF Live
  <2> QED
    BY <2>5, <2>6, <2>7 DEF x
<1>5. CASE weekEntry(d, w) = NoEntry /\ Marked(d, w) = {} /\ named = {}
  BY <1>1, <1>5
<1> QED
  BY <1>2, <1>3, <1>4, <1>5

LEMMA GoneSound ==
    ASSUME NEW d, Good(d), AsideSound(d), NEW w \in Week
    PROVE LET g == Gone(d, overseerEntries(d, w, "live")) IN AsideSound(g) /\ g.visit = d.visit
<1> DEFINE S == overseerEntries(d, w, "live")
           e == CHOOSE x \in S : TRUE
<1>1. S # {} => e \in Ids
  BY DEF overseerEntries
<1> HIDE DEF e
<1>2. S # {} => AsideSound(softDelete(d, e)) /\ softDelete(d, e).visit = d.visit
  BY <1>1, DeletedSound
<1>3. Gone(d, S) = IF S = {} THEN d ELSE softDelete(d, e)
  BY DEF Gone, e
<1> QED
  BY <1>2, <1>3

\* The visit leaves a week: the guest is back in the journal, or nobody was set aside, or the
\* line names nobody.
LEMMA RemovedSound ==
    ASSUME NEW d, Good(d), Room(d), AsideSound(d), NEW w \in Week
    PROVE LET x == circuitVisitRemoved(d, w) IN AsideSound(x) /\ x.visit = d.visit /\ Returned(x, w)
<1> DEFINE a == Gone(d, overseerEntries(d, w, "live"))
           b == returnEntry(a, w)
           s == syncProgramToJournal(b, w, TRUE, FALSE)
<1>1. Good(a) /\ Room(a) /\ AsideSound(a) /\ a.visit = d.visit
  BY GoneGood, GoneSound DEF Leads
<1> HIDE DEF a
<1>2. Good(b) /\ Room(b)
  BY <1>1, ReturnGood DEF Leads
<1>3. AsideSound(b) /\ b.visit = d.visit /\ (Live(b, w) # {} \/ Marked(b, w) = {})
  BY <1>1, ReturnSound
<1> HIDE DEF b
<1>4. AsideSound(s) /\ s.visit = d.visit /\ Returned(s, w)
  BY <1>2, <1>3, SyncSound
<1> QED
  BY <1>4 DEF circuitVisitRemoved, b, a

LEMMA VisitMovedSound ==
    ASSUME NEW d, Good(d), Room(d), AsideSound(d), NEW from \in Week, NEW to \in Week
    PROVE AsideSound(circuitVisitMoved(d, from, to))
<1> DEFINE S == overseerEntries(d, from, "live")
           e == CHOOSE x \in S : TRUE
           row == [d.entry[e] EXCEPT !.week = to]
           moved == [d EXCEPT !.entry[e].week = to]
           a == IF Live(d, to) # {} \/ S = {} THEN Gone(d, S) ELSE moved
           b == returnEntry(a, from)
<1>1. S # {} => e \in Ids /\ Standing(d.entry[e]) /\ ~d.entry[e].aside /\ d.entry[e] \in Row
  BY DEF overseerEntries, Standing, Good, Database
<1>2. Leads(d, Gone(d, S)) /\ AsideSound(Gone(d, S))
  BY GoneGood, GoneSound
<1> HIDE DEF e
<1>3. S # {} /\ Live(d, to) = {} => Leads(d, moved)
  BY <1>1, GoesWithGood
<1>4. S # {} => AsideSound(moved)
  <2>1. moved = [d EXCEPT !.entry[e] = row]
    OBVIOUS
  <2>2. S # {} => AsideRow(row)
    BY <1>1 DEF Row, AsideRow
  <2> HIDE DEF row, moved, S
  <2> QED
    BY <1>1, <2>1, <2>2, RewrittenSound
<1> HIDE DEF moved
<1>5. Good(a) /\ Room(a) /\ AsideSound(a)
  BY <1>2, <1>3, <1>4 DEF Leads
<1>6. circuitVisitMoved(d, from, to) = syncProgramToJournal(b, from, TRUE, FALSE)
  BY DEF circuitVisitMoved, e, moved
<1> HIDE DEF a
<1>7. Good(b) /\ Room(b) /\ AsideSound(b)
  BY <1>5, ReturnGood, ReturnSound DEF Leads
<1> HIDE DEF b
<1> QED
  BY <1>6, <1>7, SyncSound

----------------------------------------------------------------------------
(* The calls a request has left, as far as a guest set aside goes.          *)

\* A call that makes nothing of an entry set aside.
CallSound(c) ==
    /\ c.call \in {"apply", "saveEntry", "write"} => AsideRow(c.row)
    /\ c.call = "sync" => ~c.restored
    /\ c.call \notin {"move", "deleteVisit"}
AllSound(t) == \A i \in 1..Len(t) : CallSound(t[i])

\* Two weekends exchanged: the entries that change their weeks are not set aside.
Swaps(t, d) ==
    /\ t # <<>> /\ t[1].call = "move" /\ AllSound(Tail(t))
    /\ \A e \in {t[1].e, t[1].x} : e # NoEntry => ~d.entry[e].aside

\* The visit taken away: its week's guest comes back before its record goes.
Deleted == [call |-> "deleteVisit"]
TakesAway(t, d) ==
    LET w == d.visit.week IN
    \/ \E v \in Visit : v.week = w /\ t = <<[call |-> "revert", v |-> v], On("visitRemoved", w), Deleted>>
    \/ t = <<On("visitRemoved", w), Deleted>>
    \/ t = <<Deleted>> /\ Returned(d, w)

KeptList(t, d) == AllSound(t) \/ Swaps(t, d) \/ TakesAway(t, d)
BackSound(b) == b # NoBack => \A i \in 1..Len(b.rows) : ~b.rows[i][2].aside

LEMMA ShortListsSound ==
    ASSUME NEW a, NEW b, CallSound(a)
    PROVE /\ AllSound(<<a>>)
          /\ CallSound(b) => AllSound(<<a, b>>)
<1>1. Len(<<a>>) = 1 /\ Len(<<a, b>>) = 2
  OBVIOUS
<1>2. 1..1 = {1} /\ 1..2 = {1, 2}
  OBVIOUS
<1>3. <<a>>[1] = a /\ <<a, b>>[1] = a /\ <<a, b>>[2] = b
  OBVIOUS
<1>4. AllSound(<<a>>)
  BY <1>1, <1>2, <1>3 DEF AllSound
<1>5. CallSound(b) => AllSound(<<a, b>>)
  BY <1>1, <1>2, <1>3 DEF AllSound
<1> QED
  BY <1>4, <1>5

LEMMA LongListsSound ==
    ASSUME NEW a, NEW b, NEW c, NEW e, NEW f, CallSound(a), CallSound(b), CallSound(c)
    PROVE /\ AllSound(<<a, b, c>>)
          /\ CallSound(e) => AllSound(<<a, b, c, e>>)
          /\ CallSound(e) /\ CallSound(f) => AllSound(<<a, b, c, e, f>>)
<1>1. Len(<<a, b, c>>) = 3 /\ Len(<<a, b, c, e>>) = 4 /\ Len(<<a, b, c, e, f>>) = 5
  OBVIOUS
<1>2. 1..3 = {1, 2, 3} /\ 1..4 = {1, 2, 3, 4} /\ 1..5 = {1, 2, 3, 4, 5}
  OBVIOUS
<1>3. <<a, b, c>>[1] = a /\ <<a, b, c>>[2] = b /\ <<a, b, c>>[3] = c
  OBVIOUS
<1>4. AllSound(<<a, b, c>>)
  BY <1>1, <1>2, <1>3 DEF AllSound
<1>5. CallSound(e) => AllSound(<<a, b, c, e>>)
  <2>1. LET t == <<a, b, c, e>> IN t[1] = a /\ t[2] = b /\ t[3] = c /\ t[4] = e
    OBVIOUS
  <2> QED
    BY <1>1, <1>2, <2>1 DEF AllSound
<1>6. CallSound(e) /\ CallSound(f) => AllSound(<<a, b, c, e, f>>)
  <2>1. LET t == <<a, b, c, e, f>> IN t[1] = a /\ t[2] = b /\ t[3] = c /\ t[4] = e /\ t[5] = f
    OBVIOUS
  <2> QED
    BY <1>1, <1>2, <2>1 DEF AllSound
<1> QED
  BY <1>4, <1>5, <1>6

LEMMA JoinedSound ==
    ASSUME NEW s \in Seq(Call), NEW t \in Seq(Call), AllSound(s), AllSound(t)
    PROVE AllSound(s \o t)
<1>1. Len(s) \in Nat /\ Len(t) \in Nat /\ Len(s \o t) = Len(s) + Len(t)
  OBVIOUS
<1>2. ASSUME NEW i \in 1..(Len(s) + Len(t))
      PROVE CallSound((s \o t)[i])
  <2>1. CASE i <= Len(s)
    <3>1. i \in 1..Len(s) /\ (s \o t)[i] = s[i]
      BY <1>1, <2>1
    <3> QED
      BY <3>1 DEF AllSound
  <2>2. CASE i > Len(s)
    <3>1. i - Len(s) \in 1..Len(t) /\ (s \o t)[i] = t[i - Len(s)]
      BY <1>1, <2>2
    <3> QED
      BY <3>1 DEF AllSound
  <2> QED
    BY <1>1, <2>1, <2>2
<1> QED
  BY <1>1, <1>2 DEF AllSound

LEMMA RestSound ==
    ASSUME NEW t \in Seq(Call), t # <<>>, AllSound(t)
    PROVE AllSound(Tail(t)) /\ CallSound(t[1])
<1>1. Len(t) \in Nat /\ Len(t) >= 1 /\ Len(Tail(t)) = Len(t) - 1
      /\ \A i \in 1..Len(Tail(t)) : Tail(t)[i] = t[i + 1]
  OBVIOUS
<1>2. \A i \in 1..Len(Tail(t)) : i + 1 \in 1..Len(t)
  BY <1>1
<1> QED
  BY <1>1, <1>2 DEF AllSound

\* The calls that make nothing of it, whatever they carry.
LEMMA PlainCallsSound ==
    ASSUME NEW w, NEW e, NEW row, NEW v, NEW x
    PROVE /\ CallSound([call |-> "clear", e |-> e, row |-> row]) /\ CallSound([call |-> "delete", e |-> e])
          /\ CallSound([call |-> "release", w |-> w, e |-> e]) /\ CallSound([call |-> "name", w |-> w, e |-> e])
          /\ CallSound(On("fill", w)) /\ CallSound(On("template", w)) /\ CallSound(On("applied", w))
          /\ CallSound(On("adopt", w)) /\ CallSound(On("speaker", w))
          /\ CallSound([call |-> "saveLine", w |-> w, l |-> x]) /\ CallSound(Sync(w, x))
          /\ CallSound([call |-> "saveVisit", v |-> v]) /\ CallSound([call |-> "revert", v |-> v])
          /\ CallSound([call |-> "visitMoved", from |-> w, to |-> x])
BY DEF CallSound, On, Sync

LEMMA RowCallsSound ==
    ASSUME NEW e, NEW row, AsideRow(row), NEW was, NEW ow
    PROVE /\ CallSound(Apply(e, row, ow)) /\ CallSound([call |-> "write", e |-> e, row |-> row])
          /\ CallSound([call |-> "saveEntry", e |-> e, row |-> row, was |-> was, ow |-> ow])
BY DEF CallSound, Apply

----------------------------------------------------------------------------
(* Each request begins with such calls.                                     *)

Begun(r) == AsideSound(db') /\ KeptList(job'[r].todo, db') /\ BackSound(job'[r].back)

LEMMA BegunWith ==
    ASSUME TalkInv, NEW r \in Requests, NEW kind, NEW d, NEW calls, NEW back,
           BeginWith(r, kind, d, calls, back), AsideSound(d), KeptList(calls, d), BackSound(back)
    PROVE Begun(r)
<1>1. job'[r] = [todo |-> calls, back |-> back] /\ db' = d
  BY BeginIsAmong
<1> QED
  BY <1>1 DEF Begun

LEMMA SimplyBegun ==
    ASSUME TalkInv, NEW r \in Requests, NEW kind, NEW d, NEW calls,
           Begin(r, kind, d, calls), AsideSound(d), KeptList(calls, d)
    PROVE Begun(r)
<1>1. BeginWith(r, kind, d, calls, NoBack) /\ BackSound(NoBack)
  BY DEF Begin, BackSound
<1> QED
  BY <1>1, BegunWith

\* An entry that stands is not set aside.
LEMMA LiveIsNotAside ==
    ASSUME NEW d, AsideSound(d), NEW e \in Ids, d.entry[e].at = "live"
    PROVE ~d.entry[e].aside
BY DEF AsideSound, AsideRow

LEMMA CreateBegun ==
    ASSUME TalkInv, AsideSound(db), NEW r \in Requests, CreateEntry(r)
    PROVE Begun(r)
<1>1. PICK w \in Week, g \in Guests, hand \in {"own", "noted"}, ow \in BOOLEAN :
        /\ Live(db, w) = {} /\ Room(db)
        /\ Begin(r, "create", Put(db, NewId(db), [NewRow(w, g, hand) EXCEPT !.off = weekCancelled(db, w)]),
                 <<Apply(NewId(db), [NewRow(w, g, hand) EXCEPT !.off = weekCancelled(db, w)], ow)>>)
  BY DEF CreateEntry
<1> DEFINE row == [NewRow(w, g, hand) EXCEPT !.off = weekCancelled(db, w)]
           e == NewId(db)
<1>2. AsideRow(row)
  BY DEF NewRow, AsideRow
<1>3. e \in Ids
  BY <1>1, InvIsGood, NewIdIs
<1> HIDE DEF row, e
<1>4. AsideSound(Put(db, e, row))
  BY <1>2, <1>3, InvIsGood, PutSound
<1>5. KeptList(<<Apply(e, row, ow)>>, Put(db, e, row))
  BY <1>2, RowCallsSound, ShortListsSound DEF KeptList
<1> QED
  BY <1>1, <1>4, <1>5, SimplyBegun DEF row, e

LEMMA SaveAsBegun ==
    ASSUME TalkInv, AsideSound(db), NEW r \in Requests, NEW kind, NEW e, NEW row, NEW ow,
           AsideRow(row), SaveAs(r, kind, e, row, ow)
    PROVE Begun(r)
<1>1. KeptList(<<[call |-> "saveEntry", e |-> e, row |-> row, was |-> db.entry[e], ow |-> ow]>>, db)
  BY RowCallsSound, ShortListsSound DEF KeptList
<1> QED
  BY <1>1, SimplyBegun DEF SaveAs

LEMMA SavedBegun ==
    ASSUME TalkInv, AsideSound(db), NEW r \in Requests, ChangeSpeaker(r) \/ ShiftWeek(r) \/ Missed(r)
    PROVE Begun(r)
<1>0. ASSUME NEW e \in Ids, db.entry[e].at = "live"
      PROVE db.entry[e] \in Row /\ ~db.entry[e].aside
  BY <1>0, RowRead, LiveIsNotAside
<1>1. CASE ChangeSpeaker(r)
  <2>1. PICK e \in Ids, g \in Guests, ow \in BOOLEAN :
          db.entry[e].at = "live" /\ SaveAs(r, "change", e, [db.entry[e] EXCEPT !.who = g], ow)
    BY <1>1 DEF ChangeSpeaker
  <2>2. AsideRow([db.entry[e] EXCEPT !.who = g])
    BY <1>0, <2>1 DEF AsideRow, Row
  <2> QED
    BY <2>1, <2>2, SaveAsBegun
<1>2. CASE ShiftWeek(r)
  <2>1. PICK e \in Ids, w \in Week, ow \in BOOLEAN :
          /\ Standing(db.entry[e])
          /\ SaveAs(r, "shift", e, [db.entry[e] EXCEPT !.week = w, !.off = weekCancelled(db, w)], ow)
    BY <1>2 DEF ShiftWeek
  <2>2. AsideRow([db.entry[e] EXCEPT !.week = w, !.off = weekCancelled(db, w)])
    BY <1>0, <2>1 DEF AsideRow, Row, Standing
  <2> QED
    BY <2>1, <2>2, SaveAsBegun
<1>3. CASE Missed(r)
  <2>1. PICK e \in Ids :
          /\ db.entry[e].at = "live"
          /\ SaveAs(r, "missed", e,
                    [db.entry[e] EXCEPT !.held = ~@,
                       !.off = IF db.entry[e].held THEN @ ELSE weekCancelled(db, db.entry[e].week)], FALSE)
    BY <1>3 DEF Missed
  <2> DEFINE off == IF db.entry[e].held THEN db.entry[e].off ELSE weekCancelled(db, db.entry[e].week)
  <2>2. AsideRow([db.entry[e] EXCEPT !.held = ~@, !.off = off])
    <3> HIDE DEF off
    <3> QED
      BY <1>0, <2>1 DEF AsideRow, Row
  <2> QED
    BY <2>1, <2>2, SaveAsBegun
<1> QED
  BY <1>1, <1>2, <1>3

LEMMA RemoveBegun ==
    ASSUME TalkInv, AsideSound(db), NEW r \in Requests, RemoveEntry(r)
    PROVE Begun(r)
<1>1. PICK e \in Ids :
        Begin(r, "remove", db, <<[call |-> "clear", e |-> e, row |-> db.entry[e]],
                                 [call |-> "delete", e |-> e]>>)
  BY DEF RemoveEntry
<1>2. KeptList(<<[call |-> "clear", e |-> e, row |-> db.entry[e]], [call |-> "delete", e |-> e]>>, db)
  BY PlainCallsSound, ShortListsSound DEF KeptList
<1> QED
  BY <1>1, <1>2, SimplyBegun

LEMMA ElsewhereBegun ==
    ASSUME TalkInv, AsideSound(db), NEW r \in Requests, moveSetAside(r)
    PROVE Begun(r)
<1>1. PICK e \in Ids, w \in Week :
        LET row == [db.entry[e] EXCEPT !.week = w, !.at = "live", !.aside = FALSE,
                                       !.off = weekCancelled(db, w)]
            d == Put(db, e, row)
        IN  Begin(r, "elsewhere",
                  [d EXCEPT !.visit.prev = IF d.visit.at = "on" /\ @ # NoPrev THEN NoOne ELSE @],
                  <<Apply(e, row, FALSE)>>)
  BY Zenon DEF moveSetAside
<1> DEFINE row == [db.entry[e] EXCEPT !.week = w, !.at = "live", !.aside = FALSE,
                                      !.off = weekCancelled(db, w)]
           d == Put(db, e, row)
           prev == IF d.visit.at = "on" /\ d.visit.prev # NoPrev THEN NoOne ELSE d.visit.prev
           x == [d EXCEPT !.visit.prev = prev]
<1>2. AsideRow(row)
  BY RowRead DEF Row, AsideRow
<1>3. Begin(r, "elsewhere", x, <<Apply(e, row, FALSE)>>)
  BY <1>1
<1>4. x.entry = d.entry
  BY InvIsGood DEF Put, Database
<1> HIDE DEF row, x
<1>5. AsideSound(d)
  BY <1>2, InvIsGood, PutSound
<1>6. AsideSound(x)
  BY <1>4, <1>5 DEF AsideSound
<1>7. KeptList(<<Apply(e, row, FALSE)>>, x)
  BY <1>2, RowCallsSound, ShortListsSound DEF KeptList
<1> QED
  BY <1>3, <1>6, <1>7, SimplyBegun

LEMMA LinesBegun ==
    ASSUME TalkInv, AsideSound(db), NEW r \in Requests,
           NewLine(r) \/ EditLine(r) \/ CancelLine(r) \/ RemoveLine(r)
    PROVE Begun(r)
<1>0. ASSUME NEW w \in Week, NEW l
      PROVE AsideSound(SetLine(db, w, l))
  BY InvIsGood, SetLineSame
<1>1. ASSUME NEW kind, NEW w, NEW l, SaveLineAs(r, kind, w, l)
      PROVE Begun(r)
  <2>1. Begin(r, kind, db, <<[call |-> "saveLine", w |-> w, l |-> l], Sync(w, l.who # db.line[w].who)>>)
    BY <1>1 DEF SaveLineAs
  <2>2. KeptList(<<[call |-> "saveLine", w |-> w, l |-> l], Sync(w, l.who # db.line[w].who)>>, db)
    BY PlainCallsSound, ShortListsSound DEF KeptList
  <2> QED
    BY <2>1, <2>2, SimplyBegun
<1>2. CASE NewLine(r)
  <2>1. PICK w \in Week, g \in Guests \cup {NoOne} :
          Begin(r, "newLine",
                SetLine(db, w, [at |-> "on", removed |-> FALSE, who |-> g, link |-> NoEntry]),
                <<On("fill", w), Sync(w, g # NoOne), On("template", w), On("applied", w)>>)
    BY <1>2 DEF NewLine
  <2> DEFINE x == SetLine(db, w, [at |-> "on", removed |-> FALSE, who |-> g, link |-> NoEntry])
  <2>2. AsideSound(x)
    BY <1>0
  <2> HIDE DEF x
  <2>3. KeptList(<<On("fill", w), Sync(w, g # NoOne), On("template", w), On("applied", w)>>, x)
    BY PlainCallsSound, LongListsSound DEF KeptList
  <2> QED
    BY <2>1, <2>2, <2>3, SimplyBegun DEF x
<1>3. CASE EditLine(r)
  BY <1>1, <1>3, Zenon DEF EditLine
<1>4. CASE CancelLine(r)
  BY <1>1, <1>4, Zenon DEF CancelLine
<1>5. CASE RemoveLine(r)
  <2>1. PICK w \in Week :
          Begin(r, "removeLine", SetLine(db, w, [db.line[w] EXCEPT !.removed = TRUE]), <<Sync(w, TRUE)>>)
    BY <1>5 DEF RemoveLine
  <2> DEFINE x == SetLine(db, w, [db.line[w] EXCEPT !.removed = TRUE])
  <2>2. AsideSound(x)
    BY <1>0
  <2> HIDE DEF x
  <2>3. KeptList(<<Sync(w, TRUE)>>, x)
    BY PlainCallsSound, ShortListsSound DEF KeptList
  <2> QED
    BY <2>1, <2>2, <2>3, SimplyBegun DEF x
<1> QED
  BY <1>2, <1>3, <1>4, <1>5

LEMMA SwapBegun ==
    ASSUME TalkInv, AsideSound(db), NEW r \in Requests, SwapTalks(r)
    PROVE Begun(r)
<1>1. PICK s \in Week, t \in Week, swap \in BOOLEAN :
        LET ls == db.line[s]
            lt == db.line[t]
            es == weekEntry(db, s)
            et == weekEntry(db, t)
            back == IF swap THEN et ELSE NoEntry
        IN  Begin(r, "swap",
                  [db EXCEPT !.line[t] = [lt EXCEPT !.who = ls.who, !.link = ls.link],
                             !.line[s] = IF swap THEN [ls EXCEPT !.who = lt.who, !.link = lt.link]
                                         ELSE [ls EXCEPT !.who = NoOne, !.link = NoEntry]],
                  <<[call |-> "move", e |-> es, to |-> t, x |-> back, from |-> s],
                    Sync(s, TRUE), Sync(t, TRUE)>>)
  BY ZenonT(40) DEF SwapTalks
<1> DEFINE ls == db.line[s]
           lt == db.line[t]
           back == IF swap THEN weekEntry(db, t) ELSE NoEntry
           nt == [lt EXCEPT !.who = ls.who, !.link = ls.link]
           ns == IF swap THEN [ls EXCEPT !.who = lt.who, !.link = lt.link]
                 ELSE [ls EXCEPT !.who = NoOne, !.link = NoEntry]
           x == [db EXCEPT !.line[t] = nt, !.line[s] = ns]
           move == [call |-> "move", e |-> weekEntry(db, s), to |-> t, x |-> back, from |-> s]
           calls == <<move, Sync(s, TRUE), Sync(t, TRUE)>>
<1>2. Begin(r, "swap", x, calls)
  BY <1>1
<1> HIDE DEF nt, ns
<1>3. x.entry = db.entry
  BY InvIsGood DEF Database
<1> HIDE DEF x
<1>4. AsideSound(x)
  BY <1>3 DEF AsideSound
<1>5. \A e \in {move.e, move.x} : e # NoEntry => ~x.entry[e].aside
  <2>1. \A e \in {weekEntry(db, s), weekEntry(db, t)} : e # NoEntry => e \in Ids /\ db.entry[e].at = "live"
    BY InvIsGood, WeekEntryIs DEF Standing
  <2>2. \A e \in {weekEntry(db, s), weekEntry(db, t)} : e # NoEntry => ~db.entry[e].aside
    BY <2>1, LiveIsNotAside
  <2>3. move.e = weekEntry(db, s) /\ move.x = back /\ (back = weekEntry(db, t) \/ back = NoEntry)
    OBVIOUS
  <2> QED
    BY <1>3, <2>2, <2>3
<1>6. Swaps(calls, x)
  <2>1. move.call = "move"
    OBVIOUS
  <2> HIDE DEF move
  <2>2. calls # <<>> /\ calls[1] = move /\ Tail(calls) = <<Sync(s, TRUE), Sync(t, TRUE)>>
    <3>1. \A p, q, u : LET c == <<p, q, u>> IN c # <<>> /\ c[1] = p /\ Tail(c) = <<q, u>>
      OBVIOUS
    <3> QED
      BY <3>1
  <2>3. AllSound(<<Sync(s, TRUE), Sync(t, TRUE)>>)
    BY PlainCallsSound, ShortListsSound
  <2> HIDE DEF calls
  <2> QED
    BY <1>5, <2>1, <2>2, <2>3 DEF Swaps
<1> HIDE DEF calls
<1> QED
  BY <1>2, <1>4, <1>6, SimplyBegun DEF KeptList

LEMMA ReplaceBegun ==
    ASSUME TalkInv, AsideSound(db), NEW r \in Requests, replaceSpeaker(r)
    PROVE Begun(r)
<1>1. PICK w \in Week, g \in Guests :
        LET l == db.line[w]
            e == weekEntry(db, w)
            close == IF e = NoEntry THEN <<>>
                     ELSE <<[call |-> "write", e |-> e, row |-> [db.entry[e] EXCEPT !.held = FALSE]]>>
            was == IF e = NoEntry THEN <<>> ELSE <<<<e, db.entry[e]>>>>
        IN  BeginWith(r, "replace", db,
                close \o <<[call |-> "saveLine", w |-> w, l |-> [l EXCEPT !.who = g, !.link = NoEntry]],
                           Sync(w, TRUE), On("adopt", w)>>,
                [w |-> w, lines |-> <<l>>, rows |-> was])
  BY Zenon DEF replaceSpeaker
<1> DEFINE l == db.line[w]
           e == weekEntry(db, w)
           row == [db.entry[e] EXCEPT !.held = FALSE]
           close == IF e = NoEntry THEN <<>> ELSE <<[call |-> "write", e |-> e, row |-> row]>>
           was == IF e = NoEntry THEN <<>> ELSE <<<<e, db.entry[e]>>>>
           nl == [l EXCEPT !.who = g, !.link = NoEntry]
           rest == <<[call |-> "saveLine", w |-> w, l |-> nl], Sync(w, TRUE), On("adopt", w)>>
           back == [w |-> w, lines |-> <<l>>, rows |-> was]
<1>2. BeginWith(r, "replace", db, close \o rest, back)
  BY <1>1
<1>3. l \in Line /\ (e # NoEntry => /\ e \in Ids /\ db.entry[e] \in Row /\ row \in Row /\ AsideRow(row)
                                    /\ ~db.entry[e].aside)
  <2>1. e # NoEntry => e \in Ids /\ db.entry[e].at = "live"
    BY InvIsGood, WeekEntryIs DEF Standing
  <2>2. e # NoEntry => db.entry[e] \in Row /\ ~db.entry[e].aside
    BY <2>1, RowRead, LiveIsNotAside
  <2> HIDE DEF e
  <2>3. e # NoEntry => row \in Row /\ AsideRow(row)
    BY <2>2 DEF Row, AsideRow
  <2> QED
    BY <2>1, <2>2, <2>3, LineRead
<1> HIDE DEF e, l, row
<1>4. nl \in Line
  BY <1>3 DEF Line, Speakers
<1>5. close \in Seq(Call) /\ AllSound(close)
  <2>1. CASE e = NoEntry
    <3>1. Len(<<>>) = 0 /\ 1..0 = {}
      OBVIOUS
    <3>2. AllSound(<<>>)
      BY <3>1 DEF AllSound
    <3> QED
      BY <2>1, <3>2
  <2>2. CASE e # NoEntry
    <3>1. <<[call |-> "write", e |-> e, row |-> row]>> \in Seq(Call)
      BY <1>3, <2>2, EntryCalls, ListOfOne
    <3>2. AllSound(<<[call |-> "write", e |-> e, row |-> row]>>)
      BY <1>3, <2>2, RowCallsSound, ShortListsSound
    <3> QED
      BY <2>2, <3>1, <3>2
  <2> QED
    BY <2>1, <2>2
<1>6. rest \in Seq(Call) /\ AllSound(rest)
  <2> HIDE DEF nl
  <2>1. rest \in Seq(Call)
    BY <1>4, WeekCalls, ListOfThree
  <2>2. AllSound(rest)
    BY PlainCallsSound, LongListsSound
  <2> QED
    BY <2>1, <2>2
<1>7. BackSound(back)
  <2>1. CASE e = NoEntry
    <3>1. back.rows = <<>> /\ Len(<<>>) = 0 /\ 1..0 = {}
      BY <2>1
    <3> HIDE DEF back
    <3> QED
      BY <3>1 DEF BackSound
  <2>2. CASE e # NoEntry
    <3>1. back.rows = <<<<e, db.entry[e]>>>>
      BY <2>2
    <3>2. Len(back.rows) = 1 /\ back.rows[1][2] = db.entry[e] /\ 1..1 = {1}
      BY <3>1
    <3> HIDE DEF back
    <3> QED
      BY <1>3, <2>2, <3>2 DEF BackSound
  <2> QED
    BY <2>1, <2>2
<1> HIDE DEF close, rest, back
<1>8. KeptList(close \o rest, db)
  BY <1>5, <1>6, JoinedSound DEF KeptList
<1> QED
  BY <1>2, <1>7, <1>8, BegunWith

LEMMA UndoBegun ==
    ASSUME TalkInv, AsideSound(db), NEW r \in Requests, undoReplacement(r)
    PROVE Begun(r)
<1>1. PICK e \in Ids :
        LET row == db.entry[e]
            w == row.week
            x == weekEntry(db, w)
            free == CASE x = NoEntry -> <<>>
                      [] x # NoEntry /\ db.entry[x].hand = "noted" ->
                           <<[call |-> "write", e |-> x, row |-> [db.entry[x] EXCEPT !.held = FALSE]]>>
                      [] OTHER -> <<[call |-> "delete", e |-> x]>>
            was == IF x = NoEntry THEN <<<<e, row>>>> ELSE <<<<e, row>>, <<x, db.entry[x]>>>>
        IN  /\ row.at = "live"
            /\ BeginWith(r, "undo", db,
                free \o <<[call |-> "write", e |-> e, row |-> [row EXCEPT !.held = TRUE]],
                          [call |-> "name", w |-> w, e |-> e]>>,
                [w |-> w, lines |-> <<>>, rows |-> was])
  BY Zenon DEF undoReplacement
<1> DEFINE row == db.entry[e]
           w == row.week
           x == weekEntry(db, w)
           xr == [db.entry[x] EXCEPT !.held = FALSE]
           free == CASE x = NoEntry -> <<>>
                     [] x # NoEntry /\ db.entry[x].hand = "noted" ->
                          <<[call |-> "write", e |-> x, row |-> xr]>>
                     [] OTHER -> <<[call |-> "delete", e |-> x]>>
           was == IF x = NoEntry THEN <<<<e, row>>>> ELSE <<<<e, row>>, <<x, db.entry[x]>>>>
           nr == [row EXCEPT !.held = TRUE]
           rest == <<[call |-> "write", e |-> e, row |-> nr], [call |-> "name", w |-> w, e |-> e]>>
           back == [w |-> w, lines |-> <<>>, rows |-> was]
<1>2. row.at = "live" /\ BeginWith(r, "undo", db, free \o rest, back)
  BY <1>1
<1>3. row \in Row /\ w \in Week /\ nr \in Row /\ ~row.aside /\ AsideRow(nr)
  <2>1. row \in Row /\ w \in Week /\ nr \in Row
    BY RowRead DEF Row
  <2>2. ~row.aside
    BY <1>2, LiveIsNotAside
  <2> HIDE DEF row
  <2>3. AsideRow(nr)
    BY <2>1, <2>2 DEF AsideRow, Row
  <2> QED
    BY <2>1, <2>2, <2>3
<1>4. x # NoEntry => /\ x \in Ids /\ db.entry[x] \in Row /\ ~db.entry[x].aside
                     /\ xr \in Row /\ AsideRow(xr)
  <2>1. x # NoEntry => x \in Ids /\ db.entry[x].at = "live"
    BY InvIsGood, WeekEntryIs DEF Standing
  <2>2. x # NoEntry => db.entry[x] \in Row /\ ~db.entry[x].aside
    BY <2>1, RowRead, LiveIsNotAside
  <2> HIDE DEF x
  <2>3. x # NoEntry => xr \in Row /\ AsideRow(xr)
    BY <2>2 DEF Row, AsideRow
  <2> QED
    BY <2>1, <2>2, <2>3
<1> HIDE DEF x, row, w, xr, nr
<1>5. free \in Seq(Call) /\ AllSound(free)
  <2>1. CASE x = NoEntry
    <3>1. Len(<<>>) = 0 /\ 1..0 = {}
      OBVIOUS
    <3>2. AllSound(<<>>)
      BY <3>1 DEF AllSound
    <3> QED
      BY <2>1, <3>2
  <2>2. CASE x # NoEntry /\ db.entry[x].hand = "noted"
    <3>1. free = <<[call |-> "write", e |-> x, row |-> xr]>>
      BY <2>2
    <3>2. <<[call |-> "write", e |-> x, row |-> xr]>> \in Seq(Call)
      BY <1>4, <2>2, EntryCalls, ListOfOne
    <3>3. AllSound(<<[call |-> "write", e |-> x, row |-> xr]>>)
      BY <1>4, <2>2, RowCallsSound, ShortListsSound
    <3> QED
      BY <3>1, <3>2, <3>3
  <2>3. CASE x # NoEntry /\ db.entry[x].hand # "noted"
    <3>1. free = <<[call |-> "delete", e |-> x]>>
      BY <2>3
    <3>2. <<[call |-> "delete", e |-> x]>> \in Seq(Call)
      BY <1>3, <1>4, <2>3, EntryCalls, ListOfOne
    <3>3. AllSound(<<[call |-> "delete", e |-> x]>>)
      BY PlainCallsSound, ShortListsSound
    <3> QED
      BY <3>1, <3>2, <3>3
  <2> QED
    BY <2>1, <2>2, <2>3
<1>6. rest \in Seq(Call) /\ AllSound(rest)
  <2>1. rest \in Seq(Call)
    BY <1>3, EntryCalls, WeekCalls, ListOfTwo
  <2>2. AllSound(rest)
    BY <1>3, RowCallsSound, PlainCallsSound, ShortListsSound
  <2> QED
    BY <2>1, <2>2
<1>7. BackSound(back)
  <2>1. CASE x = NoEntry
    <3>1. back.rows = <<<<e, row>>>>
      BY <2>1
    <3>2. Len(back.rows) = 1 /\ back.rows[1][2] = row /\ 1..1 = {1}
      BY <3>1
    <3> HIDE DEF back
    <3> QED
      BY <1>3, <3>2 DEF BackSound
  <2>2. CASE x # NoEntry
    <3>1. back.rows = <<<<e, row>>, <<x, db.entry[x]>>>>
      BY <2>2
    <3>2. /\ Len(back.rows) = 2 /\ back.rows[1][2] = row /\ back.rows[2][2] = db.entry[x]
          /\ 1..2 = {1, 2}
      BY <3>1
    <3> HIDE DEF back
    <3> QED
      BY <1>3, <1>4, <2>2, <3>2 DEF BackSound
  <2> QED
    BY <2>1, <2>2
<1> HIDE DEF free, rest, back
<1>8. KeptList(free \o rest, db)
  BY <1>5, <1>6, JoinedSound DEF KeptList
<1>9. BeginWith(r, "undo", db, free \o rest, back)
  BY <1>2
<1> QED
  BY <1>7, <1>8, <1>9, BegunWith

LEMMA VisitsBegun ==
    ASSUME TalkInv, AsideSound(db), NEW r \in Requests,
           AddVisit(r) \/ SaveVisit(r) \/ MoveVisit(r) \/ RemoveVisit(r) \/ RestoreVisit(r)
    PROVE Begun(r)
<1>0. ASSUME NEW v
      PROVE AsideSound([db EXCEPT !.visit = v])
  BY InvIsGood DEF Database, AsideSound
<1>1. CASE AddVisit(r)
  <2>1. PICK w \in Week :
          Begin(r, "addVisit", [db EXCEPT !.visit = [at |-> "on", week |-> w, done |-> FALSE, prev |-> NoPrev]],
                <<On("template", w), On("applied", w)>>)
    BY <1>1 DEF AddVisit
  <2>2. KeptList(<<On("template", w), On("applied", w)>>,
                 [db EXCEPT !.visit = [at |-> "on", week |-> w, done |-> FALSE, prev |-> NoPrev]])
    BY PlainCallsSound, ShortListsSound DEF KeptList
  <2> QED
    BY <1>0, <2>1, <2>2, SimplyBegun
<1>2. CASE SaveVisit(r)
  <2> DEFINE w == db.visit.week
             calls == <<[call |-> "saveVisit", v |-> db.visit], On("template", w), On("speaker", w),
                        On("applied", w)>>
  <2>1. Begin(r, "saveVisit", db, calls)
    BY <1>2 DEF SaveVisit
  <2> HIDE DEF w
  <2>2. KeptList(calls, db)
    BY PlainCallsSound, LongListsSound DEF KeptList
  <2> HIDE DEF calls
  <2> QED
    BY <2>1, <2>2, SimplyBegun
<1>3. CASE MoveVisit(r)
  <2>1. PICK w \in Week :
          Begin(r, "moveVisit", db,
                <<[call |-> "revert", v |-> db.visit],
                  [call |-> "saveVisit", v |-> [db.visit EXCEPT !.week = w, !.done = FALSE, !.prev = NoPrev]],
                  On("template", w), [call |-> "visitMoved", from |-> db.visit.week, to |-> w],
                  On("applied", w)>>)
    BY <1>3 DEF MoveVisit
  <2> DEFINE v == db.visit
             nv == [v EXCEPT !.week = w, !.done = FALSE, !.prev = NoPrev]
             calls == <<[call |-> "revert", v |-> v], [call |-> "saveVisit", v |-> nv],
                        On("template", w), [call |-> "visitMoved", from |-> v.week, to |-> w],
                        On("applied", w)>>
  <2>2. Begin(r, "moveVisit", db, calls)
    BY <2>1
  <2> HIDE DEF nv, v
  <2>3. KeptList(calls, db)
    BY PlainCallsSound, LongListsSound DEF KeptList
  <2> HIDE DEF calls
  <2> QED
    BY <2>2, <2>3, SimplyBegun
<1>4. CASE RemoveVisit(r)
  <2> DEFINE v == db.visit
             calls == <<[call |-> "revert", v |-> v], On("visitRemoved", v.week), Deleted>>
  <2>1. Begin(r, "removeVisit", db, calls)
    BY <1>4 DEF RemoveVisit, Deleted
  <2>2. v \in Visit
    BY VisitRead
  <2>3. TakesAway(calls, db)
    BY <2>2 DEF TakesAway
  <2> HIDE DEF calls
  <2> QED
    BY <2>1, <2>3, SimplyBegun DEF KeptList
<1>5. CASE RestoreVisit(r)
  <2> DEFINE w == db.visit.week
             x == [db EXCEPT !.visit.at = "on"]
             calls == <<On("template", w), On("applied", w)>>
  <2>1. Begin(r, "restoreVisit", x, calls)
    BY <1>5 DEF RestoreVisit
  <2>2. x.entry = db.entry
    BY InvIsGood DEF Database
  <2> HIDE DEF w, x
  <2>3. AsideSound(x)
    BY <2>2 DEF AsideSound
  <2>4. KeptList(calls, x)
    BY PlainCallsSound, ShortListsSound DEF KeptList
  <2> HIDE DEF calls
  <2> QED
    BY <2>1, <2>3, <2>4, SimplyBegun
<1> QED
  BY <1>1, <1>2, <1>3, <1>4, <1>5

LEMMA BeginningsBegun ==
    ASSUME TalkInv, AsideSound(db), NEW r \in Requests, Begins(r), ~RestoreLine(r)
    PROVE Begun(r)
BY CreateBegun, SavedBegun, RemoveBegun, ElsewhereBegun, LinesBegun, SwapBegun, ReplaceBegun,
   UndoBegun, VisitsBegun DEF Begins

----------------------------------------------------------------------------
(* The calls themselves.                                                    *)

LEMMA TemplatesSound ==
    ASSUME NEW d, Good(d), AsideSound(d)
    PROVE /\ AsideSound(templateApply(d)) /\ AsideSound(syncSpeaker(d))
          /\ \A v \in Visit : AsideSound(templateRevert(d, v))
          /\ \A v \in Visit : v.week = d.visit.week => templateRevert(d, v).visit.week = d.visit.week
<1>1. templateApply(d).entry = d.entry
  BY DEF templateApply, Good, Database
<1>2. syncSpeaker(d).entry = d.entry
  BY DEF syncSpeaker, Good, Database
<1>3. ASSUME NEW v \in Visit
      PROVE /\ templateRevert(d, v).entry = d.entry
            /\ v.week = d.visit.week => templateRevert(d, v).visit.week = d.visit.week
  <2> DEFINE visit == [v EXCEPT !.done = FALSE, !.prev = NoPrev]
             who == IF v.prev # NoPrev /\ Seen(d.line[v.week]) THEN v.prev ELSE d.line[v.week].who
             x == [d EXCEPT !.visit = visit, !.line[v.week].who = who]
  <2>1. templateRevert(d, v) = d \/ templateRevert(d, v) = x
    BY DEF templateRevert
  <2>2. visit.week = v.week
    BY DEF Visit
  <2> HIDE DEF visit, who
  <2>3. x.entry = d.entry /\ x.visit = visit
    BY DEF Good, Database
  <2> HIDE DEF x
  <2> QED
    BY <2>1, <2>2, <2>3
<1>4. AsideSound(templateApply(d)) /\ AsideSound(syncSpeaker(d))
  BY <1>1, <1>2, SameRowsSound
<1>5. \A v \in Visit : AsideSound(templateRevert(d, v))
  BY <1>3, SameRowsSound
<1> QED
  BY <1>3, <1>4, <1>5

LEMMA MovedToSound ==
    ASSUME NEW d \in Database, AsideSound(d), NEW e \in Ids \cup {NoEntry}, NEW w \in Week,
           e # NoEntry => ~d.entry[e].aside
    PROVE /\ AsideSound(MovedTo(d, e, w))
          /\ \A f \in Ids : ~d.entry[f].aside => ~MovedTo(d, e, w).entry[f].aside
<1> DEFINE row == [d.entry[e] EXCEPT !.at = "live", !.week = w]
           x == Put(d, e, row)
<1>1. CASE e = NoEntry
  BY <1>1 DEF MovedTo
<1>2. CASE e # NoEntry
  <2>1. d.entry[e] \in Row /\ e \in Ids
    BY <1>2 DEF Database
  <2>2. ~row.aside
    BY <1>2, <2>1 DEF Row
  <2>3. MovedTo(d, e, w) = x
    BY <1>2 DEF MovedTo
  <2> HIDE DEF row
  <2>4. \A f \in Ids : x.entry[f] = IF f = e THEN row ELSE d.entry[f]
    BY <2>1 DEF Put, Database
  <2> HIDE DEF x
  <2> QED
    BY <2>2, <2>3, <2>4 DEF AsideSound, AsideRow
<1> QED
  BY <1>1, <1>2

LEMMA MovedSound ==
    ASSUME NEW d, Good(d), AsideSound(d), NEW c,
           c.e \in Ids \cup {NoEntry}, c.x \in Ids \cup {NoEntry}, c.to \in Week, c.from \in Week,
           \A e \in {c.e, c.x} : e # NoEntry => ~d.entry[e].aside
    PROVE AsideSound(Moved(d, c))
<1> DEFINE m == MovedTo(d, c.e, c.to)
<1>1. m \in Database
  BY MovedToTyped DEF Good
<1>2. AsideSound(m) /\ \A f \in Ids : ~d.entry[f].aside => ~m.entry[f].aside
  BY MovedToSound DEF Good
<1> HIDE DEF m
<1>3. c.x # NoEntry => ~m.entry[c.x].aside
  BY <1>2
<1>4. AsideSound(MovedTo(m, c.x, c.from))
  BY <1>1, <1>2, <1>3, MovedToSound
<1> QED
  BY <1>4 DEF Moved, m

LEMMA RowBackSound ==
    ASSUME NEW d, Good(d), AsideSound(d), NEW x \in Ids \X Row, ~x[2].aside
    PROVE AsideSound(RowBack(d, x))
<1>1. x[1] \in Ids /\ AsideRow(x[2])
  BY DEF AsideRow
<1>2. AsideSound(Put(d, x[1], x[2]))
  BY <1>1, PutSound
<1> QED
  BY <1>2 DEF RowBack

LEMMA RestoredSound ==
    ASSUME NEW d, Good(d), AsideSound(d), NEW rows \in Seq(Ids \X Row),
           \A i \in 1..Len(rows) : ~rows[i][2].aside
    PROVE AsideSound(Restored(d, rows))
<1>1. Len(rows) \in Nat /\ \A i \in 1..Len(rows) : rows[i] \in Ids \X Row
  OBVIOUS
<1>2. CASE Len(rows) = 0
  BY <1>2 DEF Restored
<1>3. CASE Len(rows) = 1
  <2>1. 1 \in 1..Len(rows)
    BY <1>3
  <2> QED
    BY <1>1, <1>3, <2>1, RowBackSound DEF Restored
<1>4. CASE Len(rows) # 0 /\ Len(rows) # 1
  <2>a. \A n \in Nat : n # 0 /\ n # 1 => 1 \in 1..n /\ 2 \in 1..n
    OBVIOUS
  <2>1. /\ rows[1] \in Ids \X Row /\ ~rows[1][2].aside
        /\ rows[2] \in Ids \X Row /\ ~rows[2][2].aside
    BY <1>1, <1>4, <2>a
  <2>2. Good(RowBack(d, rows[1])) /\ AsideSound(RowBack(d, rows[1]))
    BY <2>1, RowBackGood, RowBackSound
  <2>3. AsideSound(RowBack(RowBack(d, rows[1]), rows[2]))
    BY <2>1, <2>2, RowBackSound
  <2> QED
    BY <1>4, <2>3 DEF Restored
<1> QED
  BY <1>2, <1>3, <1>4

LEMMA FreshGoneSound ==
    ASSUME NEW d, Good(d), AsideSound(d), NEW b
    PROVE AsideSound(FreshGone(d, b))
<1> DEFINE e == weekEntry(d, b.w)
<1>1. e # NoEntry => e \in Ids
  BY WeekEntryIs DEF Good
<1> HIDE DEF e
<1>2. e # NoEntry => AsideSound(softDelete(d, e))
  BY <1>1, DeletedSound
<1> QED
  BY <1>2 DEF FreshGone, e

\* What a step leaves behind where its request goes on with the rest of its calls, or ends.
GoesOnTo(r, d, calls) == db' = d /\ (Busy(r)' => job'[r].todo = calls)
Rest(r) == Tail(job[r].todo)
LeavesSound(r) == AsideSound(db') /\ (Busy(r)' => job'[r].todo = Rest(r) \/ AllSound(job'[r].todo))

LEMMA DoneGoesOn ==
    ASSUME TalkInv, NEW r \in Requests, NEW d, Busy(r), Done(r, d)
    PROVE GoesOnTo(r, d, Rest(r))
BY EndsGoesOn DEF Done, GoesOnTo, Rest

LEMMA DoneSound ==
    ASSUME TalkInv, NEW r \in Requests, NEW d, Busy(r), Done(r, d), AsideSound(d)
    PROVE LeavesSound(r)
BY DoneGoesOn DEF GoesOnTo, LeavesSound

LEMMA JournalCallsSound ==
    ASSUME TalkInv, AsideSound(db), NEW r \in Requests, CallSound(Args(r)),
           RunApply(r) \/ RunRelease(r) \/ RunClear(r) \/ RunDelete(r) \/ RunWrite(r)
    PROVE LeavesSound(r)
<1> DEFINE c == Args(r)
<1>0. Busy(r) /\ Good(db)
  BY InvIsGood DEF RunApply, RunRelease, RunClear, RunDelete, RunWrite, Doing
<1>1. c \in Call /\ CallSound(c)
  BY <1>0, HeadIs
<1>2. CASE RunApply(r)
  <2>1. c.call = "apply" /\ Done(r, applyIncomingToProgram(db, c.e, c.row, c.ow))
    BY <1>2 DEF RunApply, Doing, Args
  <2> HIDE DEF c
  <2>2. AsideRow(c.row) /\ c.e \in Ids /\ c.row \in Row
    BY <1>1, <2>1, CallFields DEF CallSound
  <2>3. AsideSound(applyIncomingToProgram(db, c.e, c.row, c.ow))
    BY <1>0, <2>2, ApplySound
  <2> QED
    BY <1>0, <2>1, <2>3, DoneSound
<1>3. CASE RunRelease(r)
  <2>1. c.call = "release" /\ Done(r, releaseLine(db, c.w, c.e))
    BY <1>3 DEF RunRelease, Doing, Args
  <2> HIDE DEF c
  <2>2. AsideSound(releaseLine(db, c.w, c.e))
    BY <1>0, <1>1, <2>1, CallFields, ReleaseSound
  <2> QED
    BY <1>0, <2>1, <2>2, DoneSound
<1>4. CASE RunClear(r)
  <2>1. c.call = "clear" /\ Done(r, clearProgramSlot(db, c.e, c.row))
    BY <1>4 DEF RunClear, Doing, Args
  <2> HIDE DEF c
  <2>2. c.row.week \in Week
    BY <1>1, <2>1, CallFields DEF Row
  <2>3. AsideSound(clearProgramSlot(db, c.e, c.row))
    BY <1>0, <2>2, ClearSound
  <2> QED
    BY <1>0, <2>1, <2>3, DoneSound
<1>5. CASE RunDelete(r)
  <2>1. c.call = "delete" /\ Done(r, softDelete(db, c.e))
    BY <1>5 DEF RunDelete, Doing, Args
  <2> HIDE DEF c
  <2>2. AsideSound(softDelete(db, c.e))
    BY <1>0, <1>1, <2>1, CallFields, DeletedSound
  <2> QED
    BY <1>0, <2>1, <2>2, DoneSound
<1>6. CASE RunWrite(r)
  <2>1. c.call = "write" /\ Done(r, Put(db, c.e, c.row))
    BY <1>6 DEF RunWrite, Doing, Args
  <2> HIDE DEF c
  <2>2. AsideRow(c.row) /\ c.e \in Ids
    BY <1>1, <2>1, CallFields DEF CallSound
  <2>3. AsideSound(Put(db, c.e, c.row))
    BY <1>0, <2>2, PutSound
  <2> QED
    BY <1>0, <2>1, <2>3, DoneSound
<1> QED
  BY <1>2, <1>3, <1>4, <1>5, <1>6

LEMMA SaveEntrySound ==
    ASSUME TalkInv, AsideSound(db), NEW r \in Requests, CallSound(Args(r)), saveEntry(r)
    PROVE LeavesSound(r)
<1> DEFINE c == Args(r)
           left == Standing(c.was) /\ (~c.row.held \/ c.row.week # c.was.week)
           one == [call |-> "release", w |-> c.was.week, e |-> c.e]
           calls == (IF left THEN <<one>> ELSE <<>>) \o <<Apply(c.e, c.row, c.ow)>>
<1>0. Busy(r) /\ Good(db) /\ c \in Call /\ c.call = "saveEntry" /\ CallSound(c)
  BY InvIsGood, HeadIs DEF saveEntry, Doing, Args
<1>1. Ends(r, db, <<>>) \/ Ends(r, Put(db, c.e, c.row), calls)
  BY DEF saveEntry
<1> HIDE DEF c
<1>2. AsideRow(c.row) /\ c.e \in Ids
  BY <1>0, CallFields DEF CallSound
<1>3. AsideSound(Put(db, c.e, c.row))
  BY <1>0, <1>2, PutSound
<1>4. c.row \in Row /\ c.ow \in BOOLEAN /\ c.was.week \in Week
  BY <1>0, CallFields DEF Row
<1>5. CallSound(one) /\ CallSound(Apply(c.e, c.row, c.ow))
      /\ one \in Call /\ Apply(c.e, c.row, c.ow) \in Call
  BY <1>2, <1>4, PlainCallsSound, RowCallsSound, WeekCalls, EntryCalls
<1>6. AllSound(calls)
  <2> DEFINE a == Apply(c.e, c.row, c.ow)
             release == IF left THEN <<one>> ELSE <<>>
  <2>1. calls = release \o <<a>>
    OBVIOUS
  <2> HIDE DEF one, calls, a, left
  <2>2. <<one>> \in Seq(Call) /\ AllSound(<<one>>) /\ <<a>> \in Seq(Call) /\ AllSound(<<a>>)
    BY <1>5, ListOfOne, ShortListsSound DEF a
  <2>3. <<>> \in Seq(Call) /\ AllSound(<<>>)
    <3>1. Len(<<>>) = 0 /\ 1..0 = {} /\ <<>> \in Seq(Call)
      OBVIOUS
    <3> QED
      BY <3>1 DEF AllSound
  <2>4. release \in Seq(Call) /\ AllSound(release)
    BY <2>2, <2>3
  <2> HIDE DEF release
  <2> QED
    BY <2>1, <2>2, <2>4, JoinedSound
<1> HIDE DEF one, calls
<1>7. CASE Ends(r, db, <<>>)
  <2>1. db' = db /\ (Busy(r)' => job'[r].todo = <<>>)
    BY <1>0, <1>7, EndsGoesOn
  <2> QED
    BY <2>1 DEF LeavesSound, Busy
<1>8. CASE Ends(r, Put(db, c.e, c.row), calls)
  <2>1. db' = Put(db, c.e, c.row) /\ (Busy(r)' => job'[r].todo = calls)
    BY <1>0, <1>8, EndsGoesOn
  <2> QED
    BY <1>3, <1>6, <2>1 DEF LeavesSound
<1> QED
  BY <1>1, <1>7, <1>8

LEMMA LineCallsSound ==
    ASSUME TalkInv, AsideSound(db), NEW r \in Requests, CallSound(Args(r)),
           RunFill(r) \/ SaveLine(r) \/ RunSync(r) \/ RunName(r) \/ RunAdopt(r)
    PROVE LeavesSound(r)
<1> DEFINE c == Args(r)
<1>0. Busy(r) /\ Good(db)
  BY InvIsGood DEF RunFill, SaveLine, RunSync, RunName, RunAdopt, Doing
<1>1. c \in Call /\ CallSound(c)
  BY <1>0, HeadIs
<1>2. CASE RunFill(r)
  <2>1. c.call = "fill" /\ Done(r, fillEmptySlot(db, c.w))
    BY <1>2 DEF RunFill, Doing, Args
  <2> HIDE DEF c
  <2>2. AsideSound(fillEmptySlot(db, c.w))
    BY <1>0, <1>1, <2>1, CallFields, FillSound
  <2> QED
    BY <1>0, <2>1, <2>2, DoneSound
<1>3. CASE SaveLine(r)
  <2>1. c.call = "saveLine" /\ Done(r, SetLine(db, c.w, c.l))
    BY <1>3 DEF SaveLine, Doing, Args
  <2> HIDE DEF c
  <2>2. AsideSound(SetLine(db, c.w, c.l))
    BY <1>0, <1>1, <2>1, CallFields, SetLineSame
  <2> QED
    BY <1>0, <2>1, <2>2, DoneSound
<1>4. CASE RunSync(r)
  <2>1. c.call = "sync" /\ Room(db) /\ Done(r, syncProgramToJournal(db, c.w, c.changed, c.restored))
    BY <1>4 DEF RunSync, Doing, Args
  <2> HIDE DEF c
  <2>2. c.restored = FALSE /\ c.w \in Week /\ c.changed \in BOOLEAN
    BY <1>1, <2>1, CallFields DEF CallSound
  <2>3. AsideSound(syncProgramToJournal(db, c.w, c.changed, FALSE))
    BY <1>0, <2>1, <2>2, SyncSound
  <2>4. AsideSound(syncProgramToJournal(db, c.w, c.changed, c.restored))
    BY <2>2, <2>3
  <2> QED
    BY <1>0, <2>1, <2>4, DoneSound
<1>5. CASE RunName(r)
  <2> DEFINE l == [db.line[c.w] EXCEPT !.who = db.entry[c.e].who, !.link = c.e]
             x == IF Seen(db.line[c.w]) THEN SetLine(db, c.w, l) ELSE db
  <2>1. c.call = "name" /\ Done(r, x)
    BY <1>5 DEF RunName, Doing, Args
  <2> HIDE DEF c, l
  <2>2. AsideSound(x)
    BY <1>0, <1>1, <2>1, CallFields, SetLineSame
  <2> HIDE DEF x
  <2> QED
    BY <1>0, <2>1, <2>2, DoneSound
<1>6. CASE RunAdopt(r)
  <2> DEFINE e == weekEntry(db, c.w)
             row == [db.entry[e] EXCEPT !.hand = "own"]
             x == IF e # NoEntry /\ db.entry[e].hand = "app" THEN [db EXCEPT !.entry[e].hand = "own"] ELSE db
  <2>1. Done(r, x)
    BY <1>6 DEF RunAdopt
  <2>2. e # NoEntry => e \in Ids /\ db.entry[e] \in Row
    BY InvIsGood, WeekEntryIs, RowRead
  <2> HIDE DEF e
  <2>3. e # NoEntry => AsideRow(row)
    BY <2>2 DEF Row, AsideSound, AsideRow
  <2>4. [db EXCEPT !.entry[e].hand = "own"] = [db EXCEPT !.entry[e] = row]
    OBVIOUS
  <2> HIDE DEF row
  <2>5. e # NoEntry => AsideSound([db EXCEPT !.entry[e] = row])
    BY <1>0, <2>2, <2>3, RewrittenSound
  <2>6. AsideSound(x)
    BY <1>0, <2>4, <2>5
  <2> HIDE DEF x
  <2> QED
    BY <1>0, <2>1, <2>6, DoneSound
<1> QED
  BY <1>2, <1>3, <1>4, <1>5, <1>6

LEMMA VisitCallsSound ==
    ASSUME TalkInv, AsideSound(db), NEW r \in Requests,
           RunTemplate(r) \/ RunApplied(r) \/ RunSaveVisit(r) \/ RunSpeaker(r) \/ RunRevert(r)
             \/ RunVisitMoved(r)
    PROVE LeavesSound(r)
<1> DEFINE c == Args(r)
<1>0. Busy(r) /\ Good(db)
  BY InvIsGood DEF RunTemplate, RunApplied, RunSaveVisit, RunSpeaker, RunRevert, RunVisitMoved, Doing
<1>1. c \in Call
  BY <1>0, HeadIs
<1>2. CASE RunTemplate(r)
  <2>1. Done(r, IF visitOfWeek(db, c.w) THEN templateApply(db) ELSE db)
    BY <1>2 DEF RunTemplate
  <2>2. AsideSound(IF visitOfWeek(db, c.w) THEN templateApply(db) ELSE db)
    BY <1>0, TemplatesSound
  <2> QED
    BY <1>0, <2>1, <2>2, DoneSound
<1>3. CASE RunApplied(r)
  <2> DEFINE x == IF programmeOpen(c.w) THEN circuitVisitApplied(db, c.w) ELSE db
  <2>1. c.call = "applied" /\ Room(db) /\ Done(r, x)
    BY <1>3 DEF RunApplied, Doing, Args
  <2>2. c.w \in Week
    BY <1>1, <2>1, CallFields
  <2>3. AsideSound(x)
    BY <1>0, <2>1, <2>2, AppliedSound
  <2> HIDE DEF x
  <2> QED
    BY <1>0, <2>1, <2>3, DoneSound
<1>4. CASE RunSaveVisit(r)
  <2> DEFINE x == [db EXCEPT !.visit = c.v]
  <2>1. Done(r, x)
    BY <1>4 DEF RunSaveVisit
  <2> HIDE DEF c
  <2>2. x.entry = db.entry
    BY InvIsGood DEF Database
  <2> HIDE DEF x
  <2>3. AsideSound(x)
    BY <2>2, SameRowsSound
  <2> QED
    BY <1>0, <2>1, <2>3, DoneSound
<1>5. CASE RunSpeaker(r)
  BY <1>0, <1>5, TemplatesSound, DoneSound DEF RunSpeaker
<1>6. CASE RunRevert(r)
  <2>1. c.call = "revert" /\ Done(r, templateRevert(db, c.v))
    BY <1>6 DEF RunRevert, Doing, Args
  <2> HIDE DEF c
  <2>2. AsideSound(templateRevert(db, c.v))
    BY <1>0, <1>1, <2>1, CallFields, TemplatesSound
  <2> QED
    BY <1>0, <2>1, <2>2, DoneSound
<1>7. CASE RunVisitMoved(r)
  <2>1. c.call = "visitMoved" /\ Room(db) /\ Done(r, circuitVisitMoved(db, c.from, c.to))
    BY <1>7 DEF RunVisitMoved, Doing, Args
  <2> HIDE DEF c
  <2>2. AsideSound(circuitVisitMoved(db, c.from, c.to))
    BY <1>0, <1>1, <2>1, CallFields, VisitMovedSound
  <2> QED
    BY <1>0, <2>1, <2>2, DoneSound
<1> QED
  BY <1>2, <1>3, <1>4, <1>5, <1>6, <1>7

\* The visit leaves its week, and the request's next call finds the guest back.
LEMMA VisitRemovedSound ==
    ASSUME TalkInv, AsideSound(db), NEW r \in Requests, RunVisitRemoved(r)
    PROVE /\ LeavesSound(r) /\ (Busy(r)' => job'[r].todo = Rest(r))
          /\ db'.visit = db.visit /\ Returned(db', Args(r).w)
<1> DEFINE c == Args(r)
           x == circuitVisitRemoved(db, c.w)
<1>1. Busy(r) /\ Good(db) /\ c.call = "visitRemoved" /\ Room(db) /\ Done(r, x)
  BY InvIsGood DEF RunVisitRemoved, Doing, Args
<1>2. c.w \in Week
  <2>1. c \in Call
    BY <1>1, HeadIs
  <2> HIDE DEF c, x
  <2> QED
    BY <1>1, <2>1, CallFields
<1> HIDE DEF c
<1>3. AsideSound(x) /\ x.visit = db.visit /\ Returned(x, c.w)
  BY <1>1, <1>2, RemovedSound
<1> HIDE DEF x
<1>4. GoesOnTo(r, x, Rest(r))
  BY <1>1, DoneGoesOn
<1> QED
  BY <1>3, <1>4 DEF LeavesSound, GoesOnTo, c

\* Which action makes the call at the head.
LEMMA CallsSound ==
    ASSUME TalkInv, AsideSound(db), NEW r \in Requests, CallSound(Args(r)), Steps(r)
    PROVE LeavesSound(r)
<1>1. ~moveWeekEntries(r) /\ ~DeleteVisit(r)
  BY DEF CallSound, moveWeekEntries, DeleteVisit, Doing, Args
<1> QED
  BY <1>1, JournalCallsSound, SaveEntrySound, LineCallsSound, VisitCallsSound, VisitRemovedSound DEF Steps

LEMMA SoundListGoesOn ==
    ASSUME TalkInv, AsideSound(db), NEW r \in Requests, Steps(r), AllSound(job[r].todo)
    PROVE AsideSound(db') /\ (Busy(r)' => AllSound(job'[r].todo))
<1>1. Busy(r)
  BY StepGoesOn DEF GoesOn
<1>2. job[r].todo \in Seq(Call) /\ job[r].todo # <<>>
  BY <1>1, HeadIs DEF Job, Busy
<1>3. AllSound(Rest(r)) /\ CallSound(Args(r))
  BY <1>2, RestSound DEF Rest, Args
<1>4. LeavesSound(r)
  BY <1>3, CallsSound
<1> QED
  BY <1>3, <1>4 DEF LeavesSound

LEMMA SwapGoesOn ==
    ASSUME TalkInv, AsideSound(db), NEW r \in Requests, Steps(r), Swaps(job[r].todo, db)
    PROVE AsideSound(db') /\ (Busy(r)' => AllSound(job'[r].todo))
<1> DEFINE c == Args(r)
<1>1. c.call = "move" /\ AllSound(Rest(r)) /\ \A e \in {c.e, c.x} : e # NoEntry => ~db.entry[e].aside
  BY DEF Swaps, Args, Rest
<1>2. moveWeekEntries(r)
  BY <1>1 DEF Steps, Doing, Args, RunApply, saveEntry, RunRelease, RunClear, RunDelete, RunFill, SaveLine,
     RunSync, RunWrite, RunAdopt, RunName, RunTemplate, RunApplied, RunSaveVisit, RunSpeaker, RunRevert,
     RunVisitMoved, RunVisitRemoved, DeleteVisit
<1>3. Busy(r) /\ Good(db)
  BY <1>2, InvIsGood DEF moveWeekEntries, Doing
<1>4. c \in Call
  BY <1>3, HeadIs
<1>5. Ends(r, db, <<>>) \/ Done(r, Moved(db, c))
  BY <1>2 DEF moveWeekEntries
<1> HIDE DEF c
<1>6. AsideSound(Moved(db, c))
  BY <1>1, <1>3, <1>4, CallFields, MovedSound
<1>7. CASE Ends(r, db, <<>>)
  <2>1. db' = db /\ (Busy(r)' => job'[r].todo = <<>>)
    BY <1>3, <1>7, EndsGoesOn
  <2> QED
    BY <2>1 DEF Busy
<1>8. CASE Done(r, Moved(db, c))
  <2>1. GoesOnTo(r, Moved(db, c), Rest(r))
    BY <1>3, <1>8, DoneGoesOn
  <2> QED
    BY <1>1, <1>6, <2>1 DEF GoesOnTo
<1> QED
  BY <1>5, <1>7, <1>8

\* The three calls of a visit taken away.
LEMMA TailsOfThree ==
    \A p, q, u : /\ LET c == <<p, q, u>> IN c[1] = p /\ Tail(c) = <<q, u>>
                 /\ LET c == <<p, q>> IN c[1] = p /\ Tail(c) = <<q>>
                 /\ LET c == <<p>> IN c[1] = p /\ Tail(c) = <<>>
OBVIOUS

LEMMA TakingAwayGoesOn ==
    ASSUME TalkInv, AsideSound(db), NEW r \in Requests, Steps(r), TakesAway(job[r].todo, db)
    PROVE AsideSound(db') /\ (Busy(r)' => TakesAway(job'[r].todo, db'))
<1> DEFINE w == db.visit.week
           t == job[r].todo
<1>0. Good(db) /\ w \in Week
  BY InvIsGood, VisitRead
<1>1. ASSUME NEW v \in Visit, v.week = w,
             t = <<[call |-> "revert", v |-> v], On("visitRemoved", w), Deleted>>
      PROVE AsideSound(db') /\ (Busy(r)' => TakesAway(job'[r].todo, db'))
  <2> DEFINE p == [call |-> "revert", v |-> v]
             x == templateRevert(db, v)
  <2>1. p.call = "revert" /\ p.v = v
    OBVIOUS
  <2> HIDE DEF p
  <2>2. t[1] = p /\ Tail(t) = <<On("visitRemoved", w), Deleted>>
    <3> HIDE DEF t, w
    <3> QED
      BY <1>1, TailsOfThree DEF p
  <2>3. RunRevert(r)
    BY <2>1, <2>2 DEF Steps, Doing, Args, RunApply, saveEntry, RunRelease, RunClear, RunDelete, RunFill,
       SaveLine, RunSync, moveWeekEntries, RunWrite, RunAdopt, RunName, RunTemplate, RunApplied,
       RunSaveVisit, RunSpeaker, RunVisitMoved, RunVisitRemoved, DeleteVisit
  <2>4. Busy(r) /\ Done(r, x)
    BY <2>1, <2>2, <2>3 DEF RunRevert, Doing, Args
  <2>5. AsideSound(x) /\ x.visit.week = w
    BY <1>0, <1>1, TemplatesSound
  <2> HIDE DEF x, w
  <2>6. GoesOnTo(r, x, Tail(t))
    BY <2>4, DoneGoesOn DEF Rest
  <2> QED
    BY <2>2, <2>5, <2>6 DEF GoesOnTo, TakesAway
<1>2. CASE t = <<On("visitRemoved", w), Deleted>>
  <2> DEFINE p == On("visitRemoved", w)
  <2>1. p.call = "visitRemoved" /\ p.w = w
    BY DEF On
  <2> HIDE DEF p
  <2>2. t[1] = p /\ Tail(t) = <<Deleted>>
    <3> HIDE DEF t, w
    <3> QED
      BY <1>2, TailsOfThree DEF p
  <2>3. RunVisitRemoved(r)
    BY <2>1, <2>2 DEF Steps, Doing, Args, RunApply, saveEntry, RunRelease, RunClear, RunDelete, RunFill,
       SaveLine, RunSync, moveWeekEntries, RunWrite, RunAdopt, RunName, RunTemplate, RunApplied,
       RunSaveVisit, RunSpeaker, RunVisitMoved, RunRevert, DeleteVisit
  <2>4. /\ AsideSound(db') /\ (Busy(r)' => job'[r].todo = <<Deleted>>)
        /\ db'.visit = db.visit /\ Returned(db', w)
    BY <2>1, <2>2, <2>3, VisitRemovedSound DEF LeavesSound, Rest, Args
  <2> QED
    BY <2>4 DEF TakesAway
<1>3. CASE t = <<Deleted>>
  <2>1. t[1].call = "deleteVisit" /\ Tail(t) = <<>>
    BY <1>3 DEF Deleted
  <2>2. DeleteVisit(r)
    BY <2>1 DEF Steps, Doing, Args, RunApply, saveEntry, RunRelease, RunClear, RunDelete, RunFill,
       SaveLine, RunSync, moveWeekEntries, RunWrite, RunAdopt, RunName, RunTemplate, RunApplied,
       RunSaveVisit, RunSpeaker, RunVisitMoved, RunRevert, RunVisitRemoved
  <2> DEFINE x == [db EXCEPT !.visit.at = "gone"]
  <2>3. Busy(r) /\ Done(r, x)
    BY <2>2 DEF DeleteVisit, Doing
  <2>4. x.entry = db.entry
    BY InvIsGood DEF Database
  <2> HIDE DEF x
  <2>5. AsideSound(x)
    BY <2>4, SameRowsSound
  <2>6. GoesOnTo(r, x, <<>>)
    BY <2>1, <2>3, DoneGoesOn DEF Rest
  <2> QED
    BY <2>5, <2>6 DEF GoesOnTo, Busy
<1> QED
  BY <1>1, <1>2, <1>3 DEF TakesAway

LEMMA StepsSound ==
    ASSUME TalkInv, AsideSound(db), NEW r \in Requests, Steps(r), KeptList(job[r].todo, db)
    PROVE AsideSound(db') /\ (Busy(r)' => KeptList(job'[r].todo, db'))
BY SoundListGoesOn, SwapGoesOn, TakingAwayGoesOn DEF KeptList

LEMMA PutBackSound ==
    ASSUME TalkInv, AsideSound(db), NEW r \in Requests, PutBack(r), BackSound(job[r].back)
    PROVE AsideSound(db')
<1> DEFINE b == job[r].back
           d == IF b.lines = <<>> THEN db ELSE SetLine(db, b.w, b.lines[1])
           g == FreshGone(d, b)
<1>0. Busy(r) /\ Good(db) /\ b # NoBack /\ db' = Restored(g, b.rows)
  BY InvIsGood DEF PutBack
<1>1. b \in Back /\ b.w \in Week /\ b.lines \in Seq(Line) /\ b.rows \in Seq(Ids \X Row)
  BY <1>0, HeadIs DEF Back
<1>2. \A i \in 1..Len(b.rows) : ~b.rows[i][2].aside
  BY <1>0 DEF BackSound
<1> HIDE DEF b
<1>3. Good(d) /\ AsideSound(d)
  <2>1. b.lines # <<>> => b.lines[1] \in Line
    BY <1>1
  <2> QED
    BY <1>0, <1>1, <2>1, SetLineGood, SetLineSame DEF Leads
<1> HIDE DEF d
<1>4. Good(g) /\ AsideSound(g)
  BY <1>1, <1>3, FreshGoneGood, FreshGoneSound
<1> HIDE DEF g
<1>5. AsideSound(Restored(g, b.rows))
  BY <1>1, <1>2, <1>4, RestoredSound
<1> QED
  BY <1>0, <1>5

----------------------------------------------------------------------------
(* The invariant: while requests come one at a time and no line is brought  *)
(* back from removal, who is set aside is removed and was to come, and what *)
(* a request has left to do keeps it so.                                    *)

NoneBack == OneAtATime /\ "line back" \notin past
GuestInv ==
    NoneBack => AsideSound(db) /\ \A r \in Requests :
                  Busy(r) => KeptList(job[r].todo, db) /\ BackSound(job[r].back)

LEMMA GuestStep ==
    ASSUME WholeInv, GuestInv, [Next]_vars
    PROVE GuestInv'
<1> SUFFICES ASSUME NoneBack'
             PROVE /\ AsideSound(db')
                   /\ \A r \in Requests : Busy(r)' => KeptList(job'[r].todo, db') /\ BackSound(job'[r].back)
  BY DEF GuestInv
<1>0. TalkInv /\ Alone
  BY DEF WholeInv
<1>1. CASE UNCHANGED vars
  BY <1>1 DEF vars, history, GuestInv, NoneBack, OneAtATime, Busy
<1>2. CASE Tick
  <2>1. db' = db /\ job' = job /\ past \subseteq past'
    BY <1>2 DEF Tick
  <2> QED
    BY <2>1 DEF GuestInv, NoneBack, OneAtATime, Busy
<1>3. ASSUME NEW r \in Requests, Begins(r)
      PROVE /\ AsideSound(db')
            /\ \A x \in Requests : Busy(x)' => KeptList(job'[x].todo, db') /\ BackSound(job'[x].back)
  <2>1. BeginsAmong(r)
    <3>1. CASE replaceSpeaker(r)
      BY <1>0, <3>1, ReplaceIsKept
    <3>2. CASE undoReplacement(r)
      BY <1>0, <3>2, UndoIsKept
    <3>3. CASE ~replaceSpeaker(r) /\ ~undoReplacement(r)
      BY <1>0, <1>3, <3>3, MostBeginPlainly DEF PlainBegin
    <3> QED
      BY <3>1, <3>2, <3>3
  <2>2. NoneBack /\ \A x \in Requests \ {r} : job'[x] = job[x] /\ ~Busy(x)
    BY <2>1 DEF BeginsAmong, NoneBack, OneAtATime
  <2>3. ~RestoreLine(r)
    <3>1. RestoreLine(r) => "line back" \in past'
      BY DEF RestoreLine, Begin, BeginWith, LeavesBehind, Causes
    <3> QED
      BY <3>1 DEF NoneBack
  <2>4. Begun(r)
    BY <1>0, <1>3, <2>2, <2>3, BeginningsBegun DEF GuestInv
  <2>5. \A x \in Requests \ {r} : ~Busy(x)'
    BY <2>2 DEF Busy
  <2> QED
    BY <2>4, <2>5 DEF Begun
<1>4. ASSUME NEW r \in Requests, Steps(r)
      PROVE /\ AsideSound(db')
            /\ \A x \in Requests : Busy(x)' => KeptList(job'[x].todo, db') /\ BackSound(job'[x].back)
  <2>1. GoesOn(r)
    BY <1>0, <1>4, StepGoesOn
  <2>2. NoneBack /\ Busy(r) /\ \A x \in Requests \ {r} : job'[x] = job[x] /\ ~Busy(x)
    BY <1>0, <2>1 DEF GoesOn, NoneBack, OneAtATime, Alone
  <2>3. AsideSound(db') /\ (Busy(r)' => KeptList(job'[r].todo, db'))
    BY <1>0, <1>4, <2>2, StepsSound DEF GuestInv
  <2>4. Busy(r)' => BackSound(job'[r].back)
    BY <2>1, <2>2 DEF GoesOn, GuestInv
  <2>5. \A x \in Requests \ {r} : ~Busy(x)'
    BY <2>2 DEF Busy
  <2> QED
    BY <2>3, <2>4, <2>5
<1>5. ASSUME NEW r \in Requests, PutBack(r)
      PROVE /\ AsideSound(db')
            /\ \A x \in Requests : Busy(x)' => KeptList(job'[x].todo, db') /\ BackSound(job'[x].back)
  <2>1. Busy(r) /\ job' = [job EXCEPT ![r] = Idle] /\ past \subseteq past' /\ job \in [Requests -> Job]
    BY <1>0, <1>5 DEF PutBack, TalkInv, TypeOK
  <2>2. NoneBack /\ \A x \in Requests \ {r} : ~Busy(x)
    BY <1>0, <2>1 DEF NoneBack, OneAtATime, Alone
  <2>3. AsideSound(db')
    BY <1>0, <1>5, <2>1, <2>2, PutBackSound DEF GuestInv
  <2>4. \A x \in Requests : ~Busy(x)'
    BY <2>1, <2>2 DEF Busy, Idle
  <2> QED
    BY <2>3, <2>4
<1>6. ASSUME NEW r \in Requests
      PROVE ~Lose(r)
  BY DEF Lose, NoneBack, OneAtATime
<1> QED
  BY <1>1, <1>2, <1>3, <1>4, <1>5, <1>6 DEF Next

LEMMA GuestInit ==
    ASSUME Init
    PROVE GuestInv
<1>1. AsideSound(db)
  BY TalkSetups DEF Init, AsideSound, AsideRow
<1>2. \A r \in Requests : ~Busy(r)
  BY DEF Init, Busy, Idle
<1> QED
  BY <1>1, <1>2 DEF GuestInv

LEMMA GoingGivesBack ==
    ASSUME WholeInv, GuestInv, NEW r \in Requests, NEW e \in Ids, NoneBack, DeleteVisit(r),
           db.entry[e].aside, db.entry[e].at = "gone", db.entry[e].week = db.visit.week,
           Seen(db.line[db.visit.week]), db.line[db.visit.week].who # NoOne
    PROVE weekEntry(db', db.visit.week) # NoEntry
<1> DEFINE w == db.visit.week
           t == job[r].todo
           x == [db EXCEPT !.visit.at = "gone"]
<1>1. Busy(r) /\ t[1].call = "deleteVisit" /\ db' = x
  BY DEF DeleteVisit, Doing, Done, Ends
<1>2. KeptList(t, db) /\ t \in Seq(Call) /\ t # <<>>
  <2>1. TalkInv
    BY DEF WholeInv
  <2> QED
    BY <1>1, <2>1, HeadIs DEF GuestInv, Job, Busy
<1>3. ~AllSound(t)
  BY <1>1, <1>2, RestSound DEF CallSound
<1>4. ~Swaps(t, db)
  BY <1>1 DEF Swaps
<1>5. Returned(db, w)
  <2>1. TakesAway(t, db)
    BY <1>2, <1>3, <1>4 DEF KeptList
  <2>2. ASSUME NEW v \in Visit, t = <<[call |-> "revert", v |-> v], On("visitRemoved", w), Deleted>>
        PROVE FALSE
    BY <1>1, <2>2
  <2>3. t # <<On("visitRemoved", w), Deleted>>
    BY <1>1 DEF On
  <2> QED
    BY <2>1, <2>2, <2>3 DEF TakesAway
<1>6. Marked(db, w) # {}
  BY DEF Marked
<1>7. weekEntry(db, w) # NoEntry
  BY <1>5, <1>6 DEF Returned
<1>8. db'.entry = db.entry
  BY <1>1, InvIsGood DEF WholeInv, Database
<1>9. weekEntry(db', w) = weekEntry(db, w)
  BY <1>8 DEF weekEntry, Live
<1> QED
  BY <1>7, <1>9

\* Whatever was done while a visit stood - for any weeks, entries and requests, one at a time,
\* and no line brought back from removal - the visit's going leaves nobody set aside for a week
\* whose line names somebody and whom no entry stands for.
THEOREM GuestsComeBack == Spec => GuestComesBack
<1>1. Spec => [](WholeInv /\ GuestInv)
  <2>1. Init => WholeInv /\ GuestInv
    BY WholeInit, GuestInit
  <2>2. WholeInv /\ GuestInv /\ [Next]_vars => WholeInv' /\ GuestInv'
    BY WholeStep, GuestStep
  <2> QED
    BY <2>1, <2>2, PTL DEF Spec
<1>2. WholeInv /\ GuestInv /\ [Next]_vars =>
        [\A r \in Requests, e \in Ids :
           LET w == db.visit.week IN
           /\ OneAtATime /\ "line back" \notin past /\ DeleteVisit(r)
           /\ db.entry[e].aside /\ db.entry[e].at = "gone" /\ db.entry[e].week = w
           /\ Seen(db.line[w]) /\ db.line[w].who # NoOne
           => weekEntry(db', w) # NoEntry]_vars
  BY GoingGivesBack DEF NoneBack
<1> QED
  BY <1>1, <1>2, PTL DEF Spec, GuestComesBack

----------------------------------------------------------------------------
(* A visit leaves no trace.  What it found in a week - who spoke, and by     *)
(* which entry, if any - is told apart in four stages: the week as it was,   *)
(* its line handed to the overseer, the overseer entered and the guest set   *)
(* aside, and the line given back while the journal still waits.  Each call  *)
(* of a visit's requests takes the weeks it is about from one stage to the   *)
(* next, and leaves the others in theirs.                                    *)

\* A visit that does not stand, or has changed no line, remembers nobody.
VisitSound(v) == (v.at # "on" => ~v.done) /\ (~v.done => v.prev = NoPrev)
Forgotten(v) == ~v.done /\ v.prev = NoPrev

\* Found: the line showed `who`, and e, unless it is NoEntry, stood as `row`.
FoundAs(who, e, row) == [who |-> who, rows |-> IF e = NoEntry THEN {} ELSE {[id |-> e, row |-> row]}]
Orderly(l, w, who, e, row) ==
    /\ Seen(l) => l.at # "cancelled" /\ (e = NoEntry => who = NoOne) /\ (e # NoEntry => who = row.who)
    /\ ~Seen(l) => who = NoOne /\ l.who # Overseer /\ (e # NoEntry => row.hand # "app")
    /\ e # NoEntry => Standing(row) /\ row.week = w /\ ~IsHis(row) /\ ~row.off /\ ~row.aside

\* e stands as `row`, alone; or it waits, set aside, and nobody stands but the overseer.
Only(d, w, e, row) == Marked(d, w) = {} /\ weekEntry(d, w) = e /\ (e # NoEntry => d.entry[e] = row)
Waiting(d, w, e, row) ==
    /\ \A x \in Live(d, w) : IsHis(d.entry[x]) /\ ~d.entry[x].aside
    /\ Marked(d, w) = IF e = NoEntry THEN {} ELSE {e}
    /\ e # NoEntry => d.entry[e] = [row EXCEPT !.at = "gone", !.aside = TRUE]
\* (Nobody steps aside where there is no programme yet.)
Stays(l, e) == e # NoEntry /\ ~Seen(l)
Hidden(d, w, e, row) == IF Stays(d.line[w], e) THEN Only(d, w, e, row) ELSE Waiting(d, w, e, row)
Names(l, who) == Seen(l) => l.who = who
Remembers(v, l, who) == IF Seen(l) THEN v.done /\ v.prev = who ELSE v.prev = NoPrev

AsItWas(d, w, who, e, row) ==
    Orderly(d.line[w], w, who, e, row) /\ Names(d.line[w], who) /\ Only(d, w, e, row)
Handed(d, w, who, e, row) ==
    /\ Orderly(d.line[w], w, who, e, row) /\ Names(d.line[w], Overseer) /\ Remembers(d.visit, d.line[w], who)
    /\ Only(d, w, e, row) \/ (~Stays(d.line[w], e) /\ Waiting(d, w, e, row))
Hosted(d, w, who, e, row) ==
    /\ Orderly(d.line[w], w, who, e, row) /\ Remembers(d.visit, d.line[w], who) /\ Hidden(d, w, e, row)
Left(d, w, who, e, row) ==
    Orderly(d.line[w], w, who, e, row) /\ Names(d.line[w], who) /\ Hidden(d, w, e, row)

----------------------------------------------------------------------------
(* The rows of a week, and calls that do not touch them.                    *)

SameRows(d, y, w) ==
    /\ Live(y, w) = Live(d, w) /\ Marked(y, w) = Marked(d, w)
    /\ \A e \in Live(d, w) \cup Marked(d, w) : y.entry[e] = d.entry[e]
SameWeek(d, y, w) == y.line[w] = d.line[w] /\ SameRows(d, y, w)

\* A call about one week: its line, rows of its own, and the visit stays as it is.
OfWeek(row, w) == row.week = w \/ row.at = "none"
Touches(d, y, w) ==
    /\ y.visit = d.visit /\ \A x \in Week \ {w} : y.line[x] = d.line[x]
    /\ \A e \in Ids : y.entry[e] = d.entry[e] \/ (OfWeek(d.entry[e], w) /\ OfWeek(y.entry[e], w))

LEMMA TouchesOn ==
    ASSUME NEW d, NEW y, NEW z, NEW w, Touches(d, y, w), Touches(y, z, w)
    PROVE Touches(d, z, w)
BY DEF Touches

LEMMA TouchesNothing ==
    ASSUME NEW d, NEW w
    PROVE Touches(d, d, w)
BY DEF Touches

LEMMA OtherWeeksSame ==
    ASSUME NEW d, NEW y, NEW w, Touches(d, y, w), NEW x \in Week, x # w
    PROVE SameWeek(d, y, x)
<1>1. \A e \in Ids : y.entry[e] = d.entry[e]
                     \/ ((d.entry[e].week # x \/ d.entry[e].at = "none")
                         /\ (y.entry[e].week # x \/ y.entry[e].at = "none"))
  BY DEF Touches, OfWeek
<1>2. Live(y, x) = Live(d, x)
  BY <1>1 DEF Live, Standing
<1>3. Marked(y, x) = Marked(d, x)
  BY <1>1 DEF Marked
<1>4. \A e \in Live(d, x) \cup Marked(d, x) : y.entry[e] = d.entry[e]
  BY <1>1 DEF Live, Standing, Marked
<1>5. y.line[x] = d.line[x]
  BY DEF Touches
<1> QED
  BY <1>2, <1>3, <1>4, <1>5 DEF SameWeek, SameRows

LEMMA EntriesSame ==
    ASSUME NEW d, NEW y, y.entry = d.entry, NEW w
    PROVE SameRows(d, y, w)
BY DEF SameRows, Live, Marked

\* A week's one entry is its only live one.
LEMMA OneLive ==
    ASSUME NEW d, Good(d), NEW w
    PROVE LET e == weekEntry(d, w) IN
          /\ e \in Ids \cup {NoEntry} /\ NoEntry \notin Ids
          /\ e # NoEntry => e \in Ids /\ Live(d, w) = {e} /\ d.entry[e] \in Row
          /\ e = NoEntry => Live(d, w) = {}
          /\ Live(d, w) = {} => e = NoEntry
<1> DEFINE e == weekEntry(d, w)
<1>0. NoEntry \notin Ids /\ d \in Database
  BY TalkConstants DEF Ids, NoEntry, Good
<1>1. e \in Ids \cup {NoEntry} /\ (e = NoEntry => Live(d, w) = {})
      /\ (e # NoEntry => e \in Ids /\ Standing(d.entry[e]) /\ d.entry[e].week = w)
  BY <1>0, WeekEntryIs
<1>2. Live(d, w) = {} => e = NoEntry
  BY DEF weekEntry
<1> HIDE DEF e
<1>3. e # NoEntry => Live(d, w) = {e}
  BY <1>1 DEF Live, Good, Single
<1>4. e # NoEntry => d.entry[e] \in Row
  BY <1>0, <1>1 DEF Database
<1> QED
  BY <1>0, <1>1, <1>2, <1>3, <1>4 DEF e

LEMMA RowsCarry ==
    ASSUME NEW d, Good(d), NEW y, NEW w, SameRows(d, y, w), NEW e \in Ids \cup {NoEntry}, NEW row
    PROVE /\ Only(d, w, e, row) => Only(y, w, e, row)
          /\ Waiting(d, w, e, row) => Waiting(y, w, e, row)
<1>1. weekEntry(y, w) = weekEntry(d, w)
  BY DEF SameRows, weekEntry
<1>2. ASSUME Only(d, w, e, row)
      PROVE Only(y, w, e, row)
  <2>1. e # NoEntry => e \in Live(d, w)
    BY <1>2, OneLive DEF Only
  <2> QED
    BY <1>1, <1>2, <2>1 DEF Only, SameRows
<1>3. ASSUME Waiting(d, w, e, row)
      PROVE Waiting(y, w, e, row)
  BY <1>3 DEF Waiting, SameRows
<1> QED
  BY <1>2, <1>3

LEMMA WeekCarries ==
    ASSUME NEW d, Good(d), NEW y, NEW w, SameWeek(d, y, w),
           NEW who, NEW e \in Ids \cup {NoEntry}, NEW row
    PROVE /\ AsItWas(d, w, who, e, row) => AsItWas(y, w, who, e, row)
          /\ Left(d, w, who, e, row) => Left(y, w, who, e, row)
          /\ y.visit = d.visit /\ Handed(d, w, who, e, row) => Handed(y, w, who, e, row)
          /\ y.visit = d.visit /\ Hosted(d, w, who, e, row) => Hosted(y, w, who, e, row)
<1>1. y.line[w] = d.line[w]
  BY DEF SameWeek
<1>2. /\ Only(d, w, e, row) => Only(y, w, e, row)
      /\ Waiting(d, w, e, row) => Waiting(y, w, e, row)
  BY RowsCarry DEF SameWeek
<1> QED
  BY <1>1, <1>2 DEF AsItWas, Left, Handed, Hosted, Hidden

\* A row rewritten, and nothing else that is compared.
Rewrites(d, y, i, r) ==
    /\ y.line = d.line /\ y.visit = d.visit
    /\ \A f \in Ids : y.entry[f] = IF f = i THEN r ELSE d.entry[f]
SameShow(d, y, w) == y.line[w].at = d.line[w].at /\ y.line[w].removed = d.line[w].removed

\* While a guest waits, rows of the overseer's may come, change and go.
LEMMA StillWaiting ==
    ASSUME NEW d, NEW y, NEW w, NEW e \in Ids \cup {NoEntry}, NEW row, Waiting(d, w, e, row),
           NEW i \in Ids, i \notin Marked(d, w), NEW r, ~r.aside, Standing(r) => IsHis(r),
           Rewrites(d, y, i, r)
    PROVE Waiting(y, w, e, row)
<1>1. Marked(y, w) = Marked(d, w)
  BY DEF Marked, Rewrites
<1>2. \A x \in Live(y, w) : IsHis(y.entry[x]) /\ ~y.entry[x].aside
  BY DEF Live, Waiting, Rewrites
<1>3. e # NoEntry => e \in Marked(d, w)
  BY DEF Waiting
<1> QED
  BY <1>1, <1>2, <1>3 DEF Waiting, Rewrites

LEMMA PutRewrites ==
    ASSUME NEW d, Good(d), NEW e \in Ids, NEW row
    PROVE Rewrites(d, Put(d, e, row), e, row)
BY DEF Rewrites, Put, Good, Database

LEMMA DeletingRewrites ==
    ASSUME NEW d, Good(d), NEW e \in Ids
    PROVE Rewrites(d, softDelete(d, e), e, [d.entry[e] EXCEPT !.at = "gone"])
<1>1. softDelete(d, e).line = d.line /\ softDelete(d, e).visit = d.visit
  BY DEF softDelete, Good, Database
<1> QED
  BY <1>1, DeletedGood DEF Rewrites

LEMMA ChangingRewrites ==
    ASSUME NEW d, Good(d), NEW e \in Ids, NEW row
    PROVE Rewrites(d, [d EXCEPT !.entry[e] = row], e, row)
BY RewrittenIs DEF Rewrites

LEMMA RewritingTouches ==
    ASSUME NEW d, NEW y, NEW i \in Ids, NEW r, Rewrites(d, y, i, r),
           NEW w, OfWeek(d.entry[i], w), OfWeek(r, w)
    PROVE Touches(d, y, w) /\ SameShow(d, y, w)
BY DEF Rewrites, Touches, SameShow

LEMMA SetLineTouches ==
    ASSUME NEW d, Good(d), NEW w \in Week, NEW l, l.at = d.line[w].at, l.removed = d.line[w].removed
    PROVE /\ Touches(d, SetLine(d, w, l), w) /\ SameShow(d, SetLine(d, w, l), w)
          /\ SetLine(d, w, l).entry = d.entry /\ SetLine(d, w, l).line[w] = l
          /\ SetLine(d, w, l).visit = d.visit
<1> DEFINE y == SetLine(d, w, l)
<1>1. y.entry = d.entry /\ y.visit = d.visit /\ y.line = [d.line EXCEPT ![w] = l]
      /\ d.line \in [Week -> Line]
  BY DEF SetLine, Good, Database
<1>2. y.line[w] = l /\ \A x \in Week \ {w} : y.line[x] = d.line[x]
  BY <1>1
<1> HIDE DEF y
<1> QED
  BY <1>1, <1>2 DEF Touches, SameShow, y

LEMMA TouchesBoth ==
    ASSUME NEW d, NEW y, NEW z, NEW w, Touches(d, y, w), SameShow(d, y, w),
           Touches(y, z, w), SameShow(y, z, w)
    PROVE Touches(d, z, w) /\ SameShow(d, z, w)
BY TouchesOn DEF SameShow

LEMMA SameTouches ==
    ASSUME NEW d, NEW w
    PROVE Touches(d, d, w) /\ SameShow(d, d, w)
BY TouchesNothing DEF SameShow

LEMMA ApplyNowTouches ==
    ASSUME NEW d, Good(d), NEW e \in Ids, NEW w \in Week, d.entry[e].week = w
    PROVE Touches(d, ApplyNow(d, e), w) /\ SameShow(d, ApplyNow(d, e), w)
<1> DEFINE row == d.entry[e]
           l == d.line[w]
           line == [l EXCEPT !.who = row.who, !.link = e]
           off == [row EXCEPT !.off = TRUE]
<1>0. row \in Row /\ l \in Line
  BY DEF Good, Database
<1>1. ApplyNow(d, e) = d \/ ApplyNow(d, e) = Put(d, e, off) \/ ApplyNow(d, e) = SetLine(d, w, line)
  BY DEF applyIncomingToProgram, ApplyNow
<1>2. off.week = w /\ line.at = l.at /\ line.removed = l.removed
  BY <1>0 DEF Row, Line
<1> HIDE DEF off, line
<1>3. Touches(d, Put(d, e, off), w) /\ SameShow(d, Put(d, e, off), w)
  BY <1>2, PutRewrites, RewritingTouches DEF OfWeek
<1>4. Touches(d, SetLine(d, w, line), w) /\ SameShow(d, SetLine(d, w, line), w)
  BY <1>2, SetLineTouches
<1> QED
  BY <1>1, <1>3, <1>4, SameTouches

LEMMA EmptiedTouches ==
    ASSUME NEW d, Good(d), NEW w \in Week, NEW e \in Ids \cup {NoEntry}, e # NoEntry => d.entry[e].week = w
    PROVE Touches(d, Emptied(d, w, e), w) /\ SameShow(d, Emptied(d, w, e), w)
<1> DEFINE l == [d.line[w] EXCEPT !.link = NoEntry]
           gone == [d.entry[e] EXCEPT !.at = "gone"]
<1>1. d.line[w] \in Line /\ (e # NoEntry => d.entry[e] \in Row)
  BY DEF Good, Database
<1>2. l.at = d.line[w].at /\ l.removed = d.line[w].removed
  BY <1>1 DEF Line
<1>3. e # NoEntry => gone.week = w
  BY <1>1 DEF Row
<1>4. Emptied(d, w, e) = d \/ (e # NoEntry /\ Emptied(d, w, e) = softDelete(d, e))
      \/ Emptied(d, w, e) = SetLine(d, w, l)
  BY DEF Emptied
<1> HIDE DEF l, gone
<1>5. e # NoEntry => Touches(d, softDelete(d, e), w) /\ SameShow(d, softDelete(d, e), w)
  BY <1>3, DeletingRewrites, RewritingTouches DEF OfWeek, gone
<1>6. Touches(d, SetLine(d, w, l), w) /\ SameShow(d, SetLine(d, w, l), w)
  BY <1>2, SetLineTouches
<1> QED
  BY <1>4, <1>5, <1>6, SameTouches

\* The entry a line is mirrored to, and how it stands then.
MirroredTo(d, w, e, x, r, y) ==
    /\ Rewrites(d, y, x, r) /\ Good(y)
    /\ IF e = NoEntry THEN d.entry[x].at = "none" /\ r = NewRow(w, d.line[w].who, "app")
       ELSE x = e /\ r = [d.entry[e] EXCEPT !.who = d.line[w].who]
    /\ Mirrored(d, w, e) = IF programmeOpen(w) THEN SetLine(y, w, [d.line[w] EXCEPT !.link = x]) ELSE y

LEMMA MirroredIs ==
    ASSUME NEW d, Good(d), Room(d), NEW w \in Week, NEW e, e = weekEntry(d, w), d.line[w].who # NoOne
    PROVE \E x \in Ids, r \in Row, y \in Database : MirroredTo(d, w, e, x, r, y)
<1> DEFINE g == d.line[w].who
           x == IF e = NoEntry THEN NewId(d) ELSE e
           r == IF e = NoEntry THEN NewRow(w, g, "app") ELSE [d.entry[e] EXCEPT !.who = g]
           y == IF e = NoEntry THEN Put(d, x, r) ELSE [d EXCEPT !.entry[e] = r]
<1>0. d \in Database /\ g \in Speakers /\ NoEntry \notin Ids
  BY TalkConstants DEF Good, Database, Line, Ids, NoEntry
<1>1. e \in Ids \cup {NoEntry} /\ (e # NoEntry => d.entry[e] \in Row)
  BY OneLive
<1>2. x \in Ids /\ (e = NoEntry => d.entry[x].at = "none")
  BY <1>0, <1>1, NewIdIs
<1>3. r \in Row /\ (e = NoEntry => r.week = w)
      /\ (e # NoEntry => r.at = d.entry[e].at /\ r.held = d.entry[e].held /\ r.week = d.entry[e].week)
  <2>1. e = NoEntry => r \in Row /\ r.week = w
    BY <1>0, NewRowIs
  <2>2. e # NoEntry => r \in Row /\ r.at = d.entry[e].at /\ r.held = d.entry[e].held /\ r.week = d.entry[e].week
    BY <1>0, <1>1 DEF Row
  <2> QED
    BY <2>1, <2>2
<1>4. IF e = NoEntry THEN d.entry[x].at = "none" /\ r = NewRow(w, g, "app")
      ELSE x = e /\ r = [d.entry[e] EXCEPT !.who = g]
  BY <1>2
<1>5. Mirrored(d, w, e) = IF programmeOpen(w) THEN SetLine(y, w, [d.line[w] EXCEPT !.link = x]) ELSE y
  BY DEF Mirrored
<1>6. Rewrites(d, y, x, r) /\ Good(y)
  <2>1. CASE e = NoEntry
    <3>1. ~WeekTaken(d, x, r)
      BY <1>0, <1>3, <2>1, FreeRow
    <3>2. y = Put(d, x, r)
      BY <2>1
    <3> HIDE DEF x, r, y
    <3> QED
      BY <1>2, <1>3, <3>1, <3>2, PutRewrites, PutGood
  <2>2. CASE e # NoEntry
    <3>1. y = [d EXCEPT !.entry[e] = r] /\ x = e /\ e \in Ids
      BY <1>1, <2>2
    <3> HIDE DEF x, r, y
    <3>2. Leads(d, y)
      BY <1>3, <2>2, <3>1, RewrittenGood
    <3> QED
      BY <3>1, <3>2, ChangingRewrites DEF Leads
  <2> QED
    BY <2>1, <2>2
<1> HIDE DEF x, r, y, g
<1>7. y \in Database
  BY <1>6 DEF Good
<1> QED
  BY <1>2, <1>3, <1>4, <1>5, <1>6, <1>7 DEF g, MirroredTo

LEMMA MirroredTouches ==
    ASSUME NEW d, Good(d), Room(d), NEW w \in Week, NEW e, e = weekEntry(d, w), d.line[w].who # NoOne
    PROVE Touches(d, Mirrored(d, w, e), w) /\ SameShow(d, Mirrored(d, w, e), w)
<1>0. PICK x \in Ids, r \in Row, y \in Database : MirroredTo(d, w, e, x, r, y)
  BY MirroredIs
<1>1. /\ Rewrites(d, y, x, r) /\ Good(y)
      /\ IF e = NoEntry THEN d.entry[x].at = "none" /\ r = NewRow(w, d.line[w].who, "app")
         ELSE x = e /\ r = [d.entry[e] EXCEPT !.who = d.line[w].who]
      /\ Mirrored(d, w, e) = y \/ Mirrored(d, w, e) = SetLine(y, w, [d.line[w] EXCEPT !.link = x])
  BY <1>0 DEF MirroredTo
<1>2. OfWeek(d.entry[x], w) /\ OfWeek(r, w)
  <2>1. CASE e = NoEntry
    BY <1>1, <2>1 DEF OfWeek, NewRow
  <2>2. CASE e # NoEntry
    <3>1. d.entry[e].week = w /\ d.entry[e] \in Row
      BY <2>2, OneLive, WeekEntryIs DEF Good
    <3> QED
      BY <1>1, <2>2, <3>1 DEF OfWeek, Row
  <2> QED
    BY <2>1, <2>2
<1>3. Touches(d, y, w) /\ SameShow(d, y, w)
  BY <1>1, <1>2, RewritingTouches
<1> DEFINE l == [d.line[w] EXCEPT !.link = x]
<1>4. l.at = y.line[w].at /\ l.removed = y.line[w].removed
  <2>1. d.line[w] \in Line /\ y.line[w] = d.line[w]
    BY <1>1 DEF Good, Database, Rewrites
  <2> QED
    BY <2>1 DEF Line
<1>5. Mirrored(d, w, e) = y \/ Mirrored(d, w, e) = SetLine(y, w, l)
  BY <1>1
<1> HIDE DEF l
<1>6. Touches(y, SetLine(y, w, l), w) /\ SameShow(y, SetLine(y, w, l), w)
  BY <1>1, <1>4, SetLineTouches
<1> QED
  BY <1>3, <1>5, <1>6, TouchesBoth

\* The mark "no talk" set or taken off.
LEMMA OffIs ==
    ASSUME NEW d, Good(d), NEW e \in Ids, NEW off \in BOOLEAN
    PROVE LET r == [d.entry[e] EXCEPT !.off = off] IN
          /\ Rewrites(d, [d EXCEPT !.entry[e].off = off], e, r)
          /\ r \in Row /\ r.at = d.entry[e].at /\ r.held = d.entry[e].held /\ r.week = d.entry[e].week
          /\ r.aside = d.entry[e].aside /\ r.his = d.entry[e].his /\ r.who = d.entry[e].who
<1> DEFINE r == [d.entry[e] EXCEPT !.off = off]
<1>1. d.entry[e] \in Row
  BY DEF Good, Database
<1>2. /\ r \in Row /\ r.at = d.entry[e].at /\ r.held = d.entry[e].held /\ r.week = d.entry[e].week
      /\ r.aside = d.entry[e].aside /\ r.his = d.entry[e].his /\ r.who = d.entry[e].who
  BY <1>1 DEF Row
<1>3. [d EXCEPT !.entry[e].off = off] = [d EXCEPT !.entry[e] = r]
  OBVIOUS
<1> HIDE DEF r
<1>4. Rewrites(d, [d EXCEPT !.entry[e] = r], e, r)
  BY ChangingRewrites
<1> QED
  BY <1>2, <1>3, <1>4 DEF r

\* How the journal is brought after the line when no line is brought back from removal.
LEMMA SyncIs ==
    ASSUME NEW d, NEW w, NEW e, e = weekEntry(d, w)
    PROVE syncProgramToJournal(d, w, TRUE, FALSE) =
            CASE Seen(d.line[w]) /\ d.line[w].at = "cancelled" ->
                   IF e = NoEntry THEN d ELSE [d EXCEPT !.entry[e].off = TRUE]
              [] e # NoEntry /\ d.entry[e].off /\ ~weekCancelled(d, w) ->
                   ApplyNow([d EXCEPT !.entry[e].off = FALSE], e)
              [] OTHER -> IF ~Seen(d.line[w]) \/ d.line[w].who = NoOne THEN Emptied(d, w, e) ELSE Mirrored(d, w, e)
<1>1. LineRestored(d, w, FALSE) = d
  BY DEF LineRestored
<1> QED
  BY <1>1 DEF syncProgramToJournal

LEMMA SyncTouches ==
    ASSUME NEW d, Good(d), Room(d), NEW w \in Week
    PROVE LET s == syncProgramToJournal(d, w, TRUE, FALSE) IN Touches(d, s, w) /\ SameShow(d, s, w)
<1> DEFINE e == weekEntry(d, w)
           off == [d EXCEPT !.entry[e].off = TRUE]
           on == [d EXCEPT !.entry[e].off = FALSE]
           s == syncProgramToJournal(d, w, TRUE, FALSE)
           T(y) == Touches(d, y, w) /\ SameShow(d, y, w)
<1>0. e \in Ids \cup {NoEntry} /\ (e # NoEntry => e \in Ids /\ d.entry[e].week = w)
  BY WeekEntryIs DEF Good
<1>1. ASSUME e # NoEntry, NEW mark \in BOOLEAN
      PROVE LET y == [d EXCEPT !.entry[e].off = mark] IN Good(y) /\ T(y) /\ y.entry[e].week = w
  <2>1. e \in Ids /\ d.entry[e].week = w
    BY <1>0, <1>1
  <2> HIDE DEF e
  <2> DEFINE y == [d EXCEPT !.entry[e].off = mark]
             r == [d.entry[e] EXCEPT !.off = mark]
  <2>2. Rewrites(d, y, e, r) /\ r.week = w
    BY <2>1, OffIs
  <2>3. Good(y)
    BY <2>1, OffGood
  <2> HIDE DEF y, r
  <2>4. T(y)
    BY <2>1, <2>2, RewritingTouches DEF OfWeek
  <2>5. y.entry[e].week = w
    BY <2>1, <2>2 DEF Rewrites
  <2> QED
    BY <2>3, <2>4, <2>5 DEF y
<1>2. e # NoEntry => T(off) /\ T(ApplyNow(on, e))
  <2> SUFFICES ASSUME e # NoEntry
               PROVE T(off) /\ T(ApplyNow(on, e))
    OBVIOUS
  <2>1. T(off)
    BY <1>1
  <2>2. Good(on) /\ T(on) /\ on.entry[e].week = w /\ e \in Ids
    BY <1>0, <1>1
  <2> HIDE DEF on, off, e
  <2>3. Touches(on, ApplyNow(on, e), w) /\ SameShow(on, ApplyNow(on, e), w)
    BY <2>2, ApplyNowTouches
  <2> QED
    BY <2>1, <2>2, <2>3, TouchesBoth
<1>3. T(Emptied(d, w, e))
  <2> HIDE DEF e
  <2> QED
    BY <1>0, EmptiedTouches
<1>4. d.line[w].who # NoOne => T(Mirrored(d, w, e))
  BY MirroredTouches
<1>5. T(d)
  BY SameTouches
<1>6. s = CASE Seen(d.line[w]) /\ d.line[w].at = "cancelled" -> IF e = NoEntry THEN d ELSE off
            [] e # NoEntry /\ d.entry[e].off /\ ~weekCancelled(d, w) -> ApplyNow(on, e)
            [] OTHER -> IF ~Seen(d.line[w]) \/ d.line[w].who = NoOne THEN Emptied(d, w, e) ELSE Mirrored(d, w, e)
  BY SyncIs
<1> HIDE DEF s, off, on, e, T
<1> QED
  BY <1>2, <1>3, <1>4, <1>5, <1>6 DEF s, T

----------------------------------------------------------------------------
(* What the visit's calls write.                                            *)

\* What is written in a call about week w: nothing, or one row of w.
LEMMA OneRowTouches ==
    ASSUME NEW d, NEW y, NEW w,
           y = d \/ \E i \in Ids : \E r : Rewrites(d, y, i, r) /\ OfWeek(d.entry[i], w) /\ OfWeek(r, w)
    PROVE Touches(d, y, w) /\ SameShow(d, y, w)
BY RewritingTouches, SameTouches

LEMMA StepAsideIs ==
    ASSUME NEW d, Good(d), NEW w, NEW e, e = weekEntry(d, w)
    PROVE IF Seen(d.line[w]) /\ e # NoEntry /\ ~IsHis(d.entry[e])
          THEN Rewrites(d, StepAside(d, w), e, [d.entry[e] EXCEPT !.aside = TRUE, !.at = "gone"])
          ELSE StepAside(d, w) = d
<1> DEFINE row == [d.entry[e] EXCEPT !.aside = TRUE]
           x == [d EXCEPT !.entry[e] = row]
<1>1. CASE Seen(d.line[w]) /\ e # NoEntry /\ ~IsHis(d.entry[e])
  <2>1. e \in Ids /\ d.entry[e] \in Row
    BY <1>1, OneLive
  <2>2. StepAside(d, w) = softDelete(x, e)
    <3>1. [d EXCEPT !.entry[e].aside = TRUE] = x
      OBVIOUS
    <3> QED
      BY <1>1, <3>1 DEF StepAside, setAside
  <2>3. row \in Row /\ row.at = d.entry[e].at /\ row.held = d.entry[e].held /\ row.week = d.entry[e].week
    BY <2>1, ZenonT(40) DEF Row
  <2>4. [row EXCEPT !.at = "gone"] = [d.entry[e] EXCEPT !.aside = TRUE, !.at = "gone"]
    OBVIOUS
  <2> HIDE DEF row
  <2>5. Rewrites(d, x, e, row)
    BY <2>1, ChangingRewrites
  <2>6. Good(x)
    <3>1. Leads(d, x)
      BY <2>1, <2>3, RewrittenGood
    <3> HIDE DEF x
    <3> QED
      BY <3>1 DEF Leads
  <2> HIDE DEF x
  <2>7. Rewrites(x, softDelete(x, e), e, [x.entry[e] EXCEPT !.at = "gone"])
    BY <2>1, <2>6, DeletingRewrites
  <2>8. Rewrites(d, softDelete(x, e), e, [row EXCEPT !.at = "gone"])
    BY <2>1, <2>5, <2>7 DEF Rewrites
  <2> QED
    BY <1>1, <2>2, <2>4, <2>8
<1>2. CASE ~(Seen(d.line[w]) /\ e # NoEntry /\ ~IsHis(d.entry[e]))
  BY <1>2 DEF StepAside
<1> QED
  BY <1>1, <1>2

LEMMA LinkedIs ==
    ASSUME NEW d, Good(d), NEW w, NEW e, e = weekEntry(d, w)
    PROVE IF e # NoEntry /\ IsHis(d.entry[e])
          THEN Rewrites(d, Linked(d, w), e, [d.entry[e] EXCEPT !.his = TRUE])
          ELSE Linked(d, w) = d
<1> DEFINE row == [d.entry[e] EXCEPT !.his = TRUE]
<1>1. [d EXCEPT !.entry[e].his = TRUE] = [d EXCEPT !.entry[e] = row]
  OBVIOUS
<1>2. e # NoEntry => e \in Ids
  BY OneLive
<1> HIDE DEF row
<1>3. e # NoEntry => Rewrites(d, [d EXCEPT !.entry[e] = row], e, row)
  BY <1>2, ChangingRewrites
<1> QED
  BY <1>1, <1>3 DEF Linked, row

LEMMA OwnBackIs ==
    ASSUME NEW d, Good(d), NEW w
    PROVE \/ OwnBack(d, w) = d
          \/ \E i \in overseerEntries(d, w, "gone") :
               Rewrites(d, OwnBack(d, w), i, [d.entry[i] EXCEPT !.at = "live", !.his = TRUE])
<1> DEFINE gone == overseerEntries(d, w, "gone")
           i == LastOf(d, gone)
           row == [d.entry[i] EXCEPT !.at = "live", !.his = TRUE]
<1>1. CASE weekEntry(d, w) = NoEntry /\ gone # {}
  <2>1. d \in Database /\ gone \in SUBSET Ids
    BY DEF Good, overseerEntries
  <2>2. i \in gone /\ i \in Ids
    <3> HIDE DEF gone
    <3> QED
      BY <1>1, <2>1, LastOfIs
  <2>3. OwnBack(d, w) = Put(d, i, row)
    BY <1>1 DEF OwnBack
  <2> HIDE DEF i, gone
  <2>4. Rewrites(d, Put(d, i, row), i, row)
    <3> HIDE DEF row
    <3> QED
      BY <2>2, PutRewrites
  <2> QED
    BY <2>2, <2>3, <2>4 DEF gone
<1>2. CASE ~(weekEntry(d, w) = NoEntry /\ gone # {})
  BY <1>2 DEF OwnBack
<1> QED
  BY <1>1, <1>2

LEMMA FromVisitIs ==
    ASSUME NEW d, Good(d), Room(d), NEW w, NEW e, e = weekEntry(d, w)
    PROVE IF e = NoEntry
          THEN \E i \in Ids : d.entry[i].at = "none"
                 /\ Rewrites(d, FromVisit(d, w), i, [NewRow(w, Overseer, "own") EXCEPT !.his = TRUE])
          ELSE IF IsHis(d.entry[e]) THEN Rewrites(d, FromVisit(d, w), e, [d.entry[e] EXCEPT !.who = Overseer])
          ELSE FromVisit(d, w) = d
<1> DEFINE new == [NewRow(w, Overseer, "own") EXCEPT !.his = TRUE]
           row == [d.entry[e] EXCEPT !.who = Overseer]
           i == NewId(d)
<1>1. i \in Ids /\ d.entry[i].at = "none"
  BY NewIdIs DEF Good
<1>2. e # NoEntry => e \in Ids
  BY OneLive
<1>3. [d EXCEPT !.entry[e].who = Overseer] = [d EXCEPT !.entry[e] = row]
  OBVIOUS
<1>4. FromVisit(d, w) = IF e = NoEntry THEN Put(d, i, new)
                        ELSE IF IsHis(d.entry[e]) THEN [d EXCEPT !.entry[e] = row] ELSE d
  BY <1>3 DEF FromVisit
<1> HIDE DEF new, row, i
<1>5. Rewrites(d, Put(d, i, new), i, new)
  BY <1>1, PutRewrites
<1>6. e # NoEntry => Rewrites(d, [d EXCEPT !.entry[e] = row], e, row)
  BY <1>2, ChangingRewrites
<1> QED
  BY <1>1, <1>4, <1>5, <1>6 DEF new, row

LEMMA GoneIs ==
    ASSUME NEW d, Good(d), NEW w
    PROVE LET S == overseerEntries(d, w, "live") IN
          IF S = {} THEN Gone(d, S) = d
          ELSE \E i \in S : Rewrites(d, Gone(d, S), i, [d.entry[i] EXCEPT !.at = "gone"])
<1> DEFINE S == overseerEntries(d, w, "live")
           i == CHOOSE x \in S : TRUE
<1>1. S # {} => i \in S /\ i \in Ids
  BY DEF overseerEntries
<1>2. Gone(d, S) = IF S = {} THEN d ELSE softDelete(d, i)
  BY DEF Gone
<1> HIDE DEF i
<1>3. S # {} => Rewrites(d, softDelete(d, i), i, [d.entry[i] EXCEPT !.at = "gone"])
  BY <1>1, DeletingRewrites
<1> QED
  BY <1>1, <1>2, <1>3

\* Those removed whom the line names again.
Named(d, w) == {e \in Ids : /\ Seen(d.line[w]) /\ d.entry[e].at = "gone" /\ d.entry[e].held
                            /\ d.entry[e].week = w /\ d.entry[e].who = d.line[w].who}

LEMMA ReturnIs ==
    ASSUME NEW d, Good(d), NEW w
    PROVE IF weekEntry(d, w) # NoEntry THEN returnEntry(d, w) = d
          ELSE IF Marked(d, w) # {}
               THEN \E i \in Marked(d, w) :
                      Rewrites(d, returnEntry(d, w), i, [d.entry[i] EXCEPT !.at = "live", !.aside = FALSE])
          ELSE IF Named(d, w) # {}
               THEN \E i \in Named(d, w) :
                      Rewrites(d, returnEntry(d, w), i, [d.entry[i] EXCEPT !.at = "live"])
          ELSE returnEntry(d, w) = d
<1> DEFINE m == LastOf(d, Marked(d, w))
           n == LastOf(d, Named(d, w))
           back == [d.entry[m] EXCEPT !.at = "live", !.aside = FALSE]
           again == [d.entry[n] EXCEPT !.at = "live"]
<1>0. d \in Database /\ Marked(d, w) \in SUBSET Ids /\ Named(d, w) \in SUBSET Ids
  BY DEF Good, Marked, Named
<1>1. Marked(d, w) # {} => m \in Marked(d, w) /\ m \in Ids
  BY <1>0, LastOfIs
<1>2. Named(d, w) # {} => n \in Named(d, w) /\ n \in Ids
  BY <1>0, LastOfIs
<1>3. returnEntry(d, w) = IF weekEntry(d, w) # NoEntry THEN d
                          ELSE IF Marked(d, w) # {} THEN Put(d, m, back)
                          ELSE IF Named(d, w) # {} THEN Put(d, n, again) ELSE d
  BY DEF returnEntry, Marked, Named, Bring, Undelete
<1> HIDE DEF m, n
<1>4. Marked(d, w) # {} => Rewrites(d, Put(d, m, back), m, back)
  <2> HIDE DEF back
  <2> QED
    BY <1>1, PutRewrites
<1>5. Named(d, w) # {} => Rewrites(d, Put(d, n, again), n, again)
  <2> HIDE DEF again
  <2> QED
    BY <1>2, PutRewrites
<1> QED
  BY <1>1, <1>2, <1>3, <1>4, <1>5

\* None of them reaches into another week.
LEMMA VisitCallsTouch ==
    ASSUME NEW d, Good(d), NEW w \in Week
    PROVE /\ Touches(d, StepAside(d, w), w) /\ SameShow(d, StepAside(d, w), w)
          /\ Touches(d, Linked(d, w), w) /\ SameShow(d, Linked(d, w), w)
          /\ Touches(d, OwnBack(d, w), w) /\ SameShow(d, OwnBack(d, w), w)
          /\ Room(d) => Touches(d, FromVisit(d, w), w) /\ SameShow(d, FromVisit(d, w), w)
          /\ LET g == Gone(d, overseerEntries(d, w, "live")) IN Touches(d, g, w) /\ SameShow(d, g, w)
          /\ Touches(d, returnEntry(d, w), w) /\ SameShow(d, returnEntry(d, w), w)
<1> DEFINE e == weekEntry(d, w)
<1>1. e # NoEntry => e \in Ids /\ d.entry[e].week = w /\ d.entry[e] \in Row
  BY OneLive, WeekEntryIs DEF Good
<1>0. \A i \in Ids : d.entry[i] \in Row
  BY DEF Good, Database
<1> HIDE DEF e
<1>2. Touches(d, StepAside(d, w), w) /\ SameShow(d, StepAside(d, w), w)
  <2>1. [d.entry[e] EXCEPT !.aside = TRUE, !.at = "gone"].week = d.entry[e].week \/ e = NoEntry
    BY <1>1 DEF Row
  <2> QED
    BY <1>1, <2>1, StepAsideIs, OneRowTouches DEF e, OfWeek
<1>3. Touches(d, Linked(d, w), w) /\ SameShow(d, Linked(d, w), w)
  <2>1. [d.entry[e] EXCEPT !.his = TRUE].week = d.entry[e].week \/ e = NoEntry
    BY <1>1 DEF Row
  <2> QED
    BY <1>1, <2>1, LinkedIs, OneRowTouches DEF e, OfWeek
<1>4. Touches(d, OwnBack(d, w), w) /\ SameShow(d, OwnBack(d, w), w)
  <2>1. ASSUME NEW i \in overseerEntries(d, w, "gone"), NEW y,
               Rewrites(d, y, i, [d.entry[i] EXCEPT !.at = "live", !.his = TRUE])
        PROVE Touches(d, y, w) /\ SameShow(d, y, w)
    <3>1. i \in Ids /\ d.entry[i].week = w /\ [d.entry[i] EXCEPT !.at = "live", !.his = TRUE].week = w
      BY <1>0 DEF overseerEntries, Row
    <3> QED
      BY <2>1, <3>1, RewritingTouches DEF OfWeek
  <2> QED
    BY <2>1, OwnBackIs, SameTouches
<1>5. Room(d) => Touches(d, FromVisit(d, w), w) /\ SameShow(d, FromVisit(d, w), w)
  <2>1. [d.entry[e] EXCEPT !.who = Overseer].week = d.entry[e].week \/ e = NoEntry
    BY <1>1 DEF Row
  <2>2. [NewRow(w, Overseer, "own") EXCEPT !.his = TRUE].week = w
    BY DEF NewRow
  <2> QED
    BY <1>1, <2>1, <2>2, FromVisitIs, OneRowTouches DEF e, OfWeek
<1>6. LET g == Gone(d, overseerEntries(d, w, "live")) IN Touches(d, g, w) /\ SameShow(d, g, w)
  <2>1. ASSUME NEW i \in overseerEntries(d, w, "live"), NEW y,
               Rewrites(d, y, i, [d.entry[i] EXCEPT !.at = "gone"])
        PROVE Touches(d, y, w) /\ SameShow(d, y, w)
    <3>1. i \in Ids /\ d.entry[i].week = w /\ [d.entry[i] EXCEPT !.at = "gone"].week = w
      BY <1>0 DEF overseerEntries, Row
    <3> QED
      BY <2>1, <3>1, RewritingTouches DEF OfWeek
  <2> QED
    BY <2>1, GoneIs, SameTouches
<1>7. Touches(d, returnEntry(d, w), w) /\ SameShow(d, returnEntry(d, w), w)
  <2>1. ASSUME NEW i \in Marked(d, w), NEW y,
               Rewrites(d, y, i, [d.entry[i] EXCEPT !.at = "live", !.aside = FALSE])
        PROVE Touches(d, y, w) /\ SameShow(d, y, w)
    <3>1. i \in Ids /\ d.entry[i].week = w /\ [d.entry[i] EXCEPT !.at = "live", !.aside = FALSE].week = w
      BY <1>0 DEF Marked, Row
    <3> QED
      BY <2>1, <3>1, RewritingTouches DEF OfWeek
  <2>2. ASSUME NEW i \in Named(d, w), NEW y, Rewrites(d, y, i, [d.entry[i] EXCEPT !.at = "live"])
        PROVE Touches(d, y, w) /\ SameShow(d, y, w)
    <3>1. i \in Ids /\ d.entry[i].week = w /\ [d.entry[i] EXCEPT !.at = "live"].week = w
      BY <1>0 DEF Named, Row
    <3> QED
      BY <2>2, <3>1, RewritingTouches DEF OfWeek
  <2> QED
    BY <2>1, <2>2, ReturnIs, SameTouches
<1> QED
  BY <1>2, <1>3, <1>4, <1>5, <1>6, <1>7

----------------------------------------------------------------------------
(* A guest goes on waiting whatever is done to the overseer's entry.        *)

\* Who stands where a guest waits.
LEMMA StandsForHim ==
    ASSUME NEW d, Good(d), NEW w, NEW e \in Ids \cup {NoEntry}, NEW row, Waiting(d, w, e, row),
           NEW x, x = weekEntry(d, w), x # NoEntry
    PROVE x \in Ids /\ x \notin Marked(d, w) /\ d.entry[x] \in Row /\ IsHis(d.entry[x])
          /\ ~d.entry[x].aside /\ Standing(d.entry[x]) /\ d.entry[x].week = w
<1>1. x \in Ids /\ x \in Live(d, w) /\ d.entry[x] \in Row
  BY OneLive
<1>2. Standing(d.entry[x]) /\ d.entry[x].week = w
  BY <1>1 DEF Live
<1> QED
  BY <1>1, <1>2 DEF Waiting, Marked, Standing

LEMMA LinkedWaits ==
    ASSUME NEW d, Good(d), NEW w, NEW e \in Ids \cup {NoEntry}, NEW row, Waiting(d, w, e, row)
    PROVE Waiting(Linked(d, w), w, e, row)
<1> DEFINE x == weekEntry(d, w)
           r == [d.entry[x] EXCEPT !.his = TRUE]
<1>1. CASE x # NoEntry /\ IsHis(d.entry[x])
  <2>1. x \in Ids /\ x \notin Marked(d, w) /\ d.entry[x] \in Row /\ ~d.entry[x].aside
    BY <1>1, StandsForHim
  <2>2. Rewrites(d, Linked(d, w), x, r)
    BY <1>1, LinkedIs
  <2>3. ~r.aside /\ IsHis(r)
    BY <2>1 DEF Row, IsHis
  <2> HIDE DEF x, r
  <2> QED
    BY <2>1, <2>2, <2>3, StillWaiting
<1>2. CASE ~(x # NoEntry /\ IsHis(d.entry[x]))
  <2>1. Linked(d, w) = d
    BY <1>2, LinkedIs
  <2> QED
    BY <2>1
<1> QED
  BY <1>1, <1>2

LEMMA OwnBackWaits ==
    ASSUME NEW d, Good(d), NEW w, NEW e \in Ids \cup {NoEntry}, NEW row, Waiting(d, w, e, row)
    PROVE Waiting(OwnBack(d, w), w, e, row)
<1>1. ASSUME NEW i \in overseerEntries(d, w, "gone"),
             Rewrites(d, OwnBack(d, w), i, [d.entry[i] EXCEPT !.at = "live", !.his = TRUE])
      PROVE Waiting(OwnBack(d, w), w, e, row)
  <2> DEFINE r == [d.entry[i] EXCEPT !.at = "live", !.his = TRUE]
  <2>1. i \in Ids /\ i \notin Marked(d, w) /\ d.entry[i] \in Row /\ ~d.entry[i].aside
    BY DEF overseerEntries, Marked, Good, Database
  <2>2. ~r.aside /\ IsHis(r)
    BY <2>1 DEF Row, IsHis
  <2>3. Rewrites(d, OwnBack(d, w), i, r)
    BY <1>1
  <2> HIDE DEF r
  <2> QED
    BY <2>1, <2>2, <2>3, StillWaiting
<1> QED
  BY <1>1, OwnBackIs

LEMMA FromVisitWaits ==
    ASSUME NEW d, Good(d), Room(d), NEW w, NEW e \in Ids \cup {NoEntry}, NEW row, Waiting(d, w, e, row)
    PROVE Waiting(FromVisit(d, w), w, e, row)
<1> DEFINE x == weekEntry(d, w)
           new == [NewRow(w, Overseer, "own") EXCEPT !.his = TRUE]
           r == [d.entry[x] EXCEPT !.who = Overseer]
<1>1. CASE x = NoEntry
  <2>1. PICK i \in Ids : d.entry[i].at = "none" /\ Rewrites(d, FromVisit(d, w), i, new)
    BY <1>1, FromVisitIs
  <2>2. i \notin Marked(d, w)
    BY <2>1 DEF Marked
  <2>3. ~new.aside /\ IsHis(new)
    BY DEF NewRow, IsHis
  <2> HIDE DEF new
  <2> QED
    BY <2>1, <2>2, <2>3, StillWaiting
<1>2. CASE x # NoEntry
  <2>1. x \in Ids /\ x \notin Marked(d, w) /\ d.entry[x] \in Row /\ ~d.entry[x].aside /\ IsHis(d.entry[x])
    BY <1>2, StandsForHim
  <2>2. Rewrites(d, FromVisit(d, w), x, r)
    BY <1>2, <2>1, FromVisitIs
  <2>3. ~r.aside /\ IsHis(r)
    BY <2>1 DEF Row, IsHis
  <2> HIDE DEF x, r
  <2> QED
    BY <2>1, <2>2, <2>3, StillWaiting
<1> QED
  BY <1>1, <1>2

LEMMA SyncWaits ==
    ASSUME NEW d, Good(d), Room(d), NEW w \in Week, NEW e \in Ids \cup {NoEntry}, NEW row, Waiting(d, w, e, row),
           Seen(d.line[w]), d.line[w].at # "cancelled", d.line[w].who = Overseer
    PROVE Waiting(syncProgramToJournal(d, w, TRUE, FALSE), w, e, row)
<1> DEFINE x == weekEntry(d, w)
           on == [d EXCEPT !.entry[x].off = FALSE]
           s == syncProgramToJournal(d, w, TRUE, FALSE)
<1>0. Overseer # NoOne
  BY TalkConstants
<1>1. s = IF x # NoEntry /\ d.entry[x].off THEN ApplyNow(on, x) ELSE Mirrored(d, w, x)
  <2>1. ~weekCancelled(d, w)
    BY DEF weekCancelled
  <2> HIDE DEF x
  <2> QED
    BY <1>0, <2>1, SyncIs DEF x
<1>2. CASE x # NoEntry /\ d.entry[x].off
  <2> DEFINE r == [d.entry[x] EXCEPT !.off = FALSE]
             line == [on.line[w] EXCEPT !.who = on.entry[x].who, !.link = x]
             again == [on.entry[x] EXCEPT !.off = TRUE]
  <2>1. x \in Ids /\ x \notin Marked(d, w) /\ d.entry[x] \in Row /\ ~d.entry[x].aside /\ IsHis(d.entry[x])
        /\ d.entry[x].week = w
    BY <1>2, StandsForHim
  <2>2. s = ApplyNow(on, x)
    BY <1>2, <1>1
  <2> HIDE DEF x
  <2>3. Rewrites(d, on, x, r) /\ r \in Row /\ ~r.aside /\ IsHis(r) /\ r.week = w
    <3>1. r \in Row /\ ~r.aside /\ IsHis(r) /\ r.week = w
      BY <2>1 DEF Row, IsHis
    <3>2. on = [d EXCEPT !.entry[x] = r]
      OBVIOUS
    <3> HIDE DEF r, on
    <3>3. Rewrites(d, [d EXCEPT !.entry[x] = r], x, r)
      BY <2>1, ChangingRewrites
    <3> QED
      BY <3>1, <3>2, <3>3
  <2>4. Good(on)
    BY <2>1, OffGood
  <2> HIDE DEF on, r
  <2>5. Waiting(on, w, e, row)
    BY <2>1, <2>3, StillWaiting
  <2>6. on.entry[x] = r /\ on.line = d.line
    BY <2>1, <2>3 DEF Rewrites
  <2>7. ApplyNow(on, x) = on \/ ApplyNow(on, x) = SetLine(on, w, line)
    BY <2>3, <2>6 DEF ApplyNow, applyIncomingToProgram
  <2> HIDE DEF line
  <2>8. SetLine(on, w, line).entry = on.entry
    BY <2>4, SetLineSame
  <2>9. Waiting(SetLine(on, w, line), w, e, row)
    BY <2>4, <2>5, <2>8, EntriesSame, RowsCarry
  <2> QED
    BY <2>2, <2>5, <2>7, <2>9
<1>3. CASE x = NoEntry \/ ~d.entry[x].off
  <2>1. s = Mirrored(d, w, x)
    BY <1>3, <1>1
  <2>0. PICK i \in Ids, r \in Row, y \in Database : MirroredTo(d, w, x, i, r, y)
    BY <1>0, MirroredIs
  <2>2. /\ Rewrites(d, y, i, r) /\ Good(y)
        /\ IF x = NoEntry THEN d.entry[i].at = "none" /\ r = NewRow(w, Overseer, "app")
           ELSE i = x /\ r = [d.entry[x] EXCEPT !.who = Overseer]
        /\ Mirrored(d, w, x) = y \/ Mirrored(d, w, x) = SetLine(y, w, [d.line[w] EXCEPT !.link = i])
    BY <2>0 DEF MirroredTo
  <2> HIDE DEF s
  <2>3. i \notin Marked(d, w) /\ ~r.aside /\ IsHis(r)
    <3>1. CASE x = NoEntry
      BY <2>2, <3>1 DEF Marked, NewRow, IsHis
    <3>2. CASE x # NoEntry
      <4>1. x \notin Marked(d, w) /\ d.entry[x] \in Row /\ ~d.entry[x].aside
        BY <3>2, StandsForHim
      <4>2. i = x /\ r = [d.entry[x] EXCEPT !.who = Overseer]
        BY <2>2, <3>2
      <4> HIDE DEF x
      <4> QED
        BY <4>1, <4>2 DEF Row, IsHis
    <3> QED
      BY <3>1, <3>2
  <2>4. Waiting(y, w, e, row)
    BY <2>2, <2>3, StillWaiting
  <2>5. ASSUME NEW l
        PROVE Waiting(SetLine(y, w, l), w, e, row)
    <3>1. SetLine(y, w, l).entry = y.entry
      BY <2>2, SetLineSame
    <3> QED
      BY <2>2, <2>4, <3>1, EntriesSame, RowsCarry
  <2> QED
    BY <2>1, <2>2, <2>4, <2>5 DEF s
<1> QED
  BY <1>2, <1>3

----------------------------------------------------------------------------
(* From stage to stage.                                                     *)

LEMMA LinesStay ==
    ASSUME NEW d, Good(d), NEW w
    PROVE /\ StepAside(d, w).line = d.line /\ Linked(d, w).line = d.line /\ OwnBack(d, w).line = d.line
          /\ Room(d) => FromVisit(d, w).line = d.line
<1>1. StepAside(d, w).line = d.line
  BY StepAsideIs DEF Rewrites
<1>2. Linked(d, w).line = d.line
  BY LinkedIs DEF Rewrites
<1>3. OwnBack(d, w).line = d.line
  BY OwnBackIs DEF Rewrites
<1>4. Room(d) => FromVisit(d, w).line = d.line
  BY FromVisitIs DEF Rewrites
<1> QED
  BY <1>1, <1>2, <1>3, <1>4

\* In a stage, a line matters by what it shows of itself, and by whom it names.
LEMMA ShownOrderly ==
    ASSUME NEW l, NEW m, m.at = l.at, m.removed = l.removed, Seen(l) \/ m.who = l.who,
           NEW w, NEW who, NEW e, NEW row, Orderly(l, w, who, e, row)
    PROVE Orderly(m, w, who, e, row) /\ (Seen(m) <=> Seen(l)) /\ (Stays(m, e) <=> Stays(l, e))
BY DEF Orderly, Seen, Stays

LEMMA SteppedAside ==
    ASSUME NEW d, Good(d), NEW w, NEW e \in Ids \cup {NoEntry}, NEW row \in Row,
           e # NoEntry => Standing(row) /\ row.week = w /\ ~IsHis(row) /\ ~row.aside,
           ~Stays(d.line[w], e), Only(d, w, e, row) \/ Waiting(d, w, e, row)
    PROVE Waiting(StepAside(d, w), w, e, row)
<1> DEFINE x == weekEntry(d, w)
           a == StepAside(d, w)
<1>1. CASE Waiting(d, w, e, row)
  <2>1. x = NoEntry \/ IsHis(d.entry[x])
    BY <1>1, StandsForHim
  <2>2. a = d
    BY <2>1, StepAsideIs
  <2> QED
    BY <1>1, <2>2
<1>2. CASE Only(d, w, e, row) /\ e = NoEntry
  <2>1. a = d
    BY <1>2, StepAsideIs DEF Only
  <2>2. Live(d, w) = {} /\ Marked(d, w) = {}
    BY <1>2, OneLive DEF Only
  <2> QED
    BY <1>2, <2>1, <2>2 DEF Waiting
<1>3. CASE Only(d, w, e, row) /\ e # NoEntry
  <2> DEFINE r == [d.entry[e] EXCEPT !.aside = TRUE, !.at = "gone"]
  <2>1. e \in Ids /\ Live(d, w) = {e} /\ d.entry[e] = row /\ Marked(d, w) = {} /\ Seen(d.line[w]) /\ x = e
    BY <1>3, OneLive DEF Only, Stays
  <2>2. Rewrites(d, a, e, r)
    BY <1>3, <2>1, StepAsideIs
  <2>3. r.at = "gone" /\ r.aside /\ r.week = w /\ r = [row EXCEPT !.at = "gone", !.aside = TRUE]
    BY <1>3, <2>1 DEF Row
  <2> HIDE DEF a, r, x
  <2>4. a.entry[e] = r /\ \A f \in Ids : f # e => a.entry[f] = d.entry[f]
    BY <2>1, <2>2 DEF Rewrites
  <2>5. Live(a, w) = {}
    <3>1. \A f \in Ids : f # e => ~(Standing(d.entry[f]) /\ d.entry[f].week = w)
      BY <2>1 DEF Live
    <3>2. ~Standing(r)
      BY <2>3 DEF Standing
    <3> QED
      BY <2>4, <3>1, <3>2 DEF Live
  <2>6. Marked(a, w) = {e}
    <3>1. \A f \in Ids : ~(d.entry[f].aside /\ d.entry[f].at = "gone" /\ d.entry[f].week = w)
      BY <2>1 DEF Marked
    <3>2. a.entry[e].aside /\ a.entry[e].at = "gone" /\ a.entry[e].week = w
      BY <2>3, <2>4
    <3>3. \A f \in Ids : f # e => ~(a.entry[f].aside /\ a.entry[f].at = "gone" /\ a.entry[f].week = w)
      BY <2>4, <3>1
    <3> QED
      BY <2>1, <3>2, <3>3 DEF Marked
  <2>7. Waiting(a, w, e, row)
    BY <1>3, <2>3, <2>4, <2>5, <2>6 DEF Waiting
  <2> QED
    BY <2>7 DEF a
<1> QED
  BY <1>1, <1>2, <1>3

LEMMA AppliedHosts ==
    ASSUME NEW d, Good(d), Room(d), NEW w \in Week, visitOfWeek(d, w),
           NEW who, NEW e \in Ids \cup {NoEntry}, NEW row \in Row, Handed(d, w, who, e, row)
    PROVE Hosted(circuitVisitApplied(d, w), w, who, e, row)
<1> DEFINE a == StepAside(d, w)
           b == Linked(a, w)
           c == OwnBack(b, w)
           s == syncProgramToJournal(c, w, TRUE, FALSE)
           y == circuitVisitApplied(d, w)
           l == d.line[w]
<1>0. y = IF Seen(l) THEN Linked(s, w) ELSE FromVisit(c, w)
  BY DEF circuitVisitApplied
<1>1. Orderly(l, w, who, e, row) /\ Names(l, Overseer) /\ Remembers(d.visit, l, who)
  BY DEF Handed
<1>2. CASE Stays(l, e)
  <2>1. Only(d, w, e, row) /\ e # NoEntry /\ ~Seen(l)
    BY <1>2 DEF Handed, Stays
  <2>2. weekEntry(d, w) = e /\ d.entry[e] = row /\ ~IsHis(row)
    BY <1>1, <2>1 DEF Only, Orderly
  <2>3. a = d
    BY <2>1, StepAsideIs
  <2>4. b = d
    BY <2>2, <2>3, LinkedIs
  <2>5. c = d
    BY <2>1, <2>2, <2>4 DEF OwnBack
  <2>6. y = d
    BY <1>0, <2>1, <2>2, <2>5, FromVisitIs
  <2> QED
    BY <1>1, <1>2, <2>1, <2>6 DEF Hosted, Hidden
<1>3. CASE ~Stays(l, e)
  <2>1. Waiting(a, w, e, row) /\ Good(a) /\ Room(a) /\ a.line = d.line /\ Touches(d, a, w)
    <3>1. e # NoEntry => Standing(row) /\ row.week = w /\ ~IsHis(row) /\ ~row.aside
      BY <1>1 DEF Orderly
    <3>2. Waiting(a, w, e, row)
      BY <1>3, <3>1, SteppedAside DEF Handed
    <3> QED
      BY <3>2, StepAsideGood, LinesStay, VisitCallsTouch DEF Leads
  <2> HIDE DEF a
  <2>2. Waiting(b, w, e, row) /\ Good(b) /\ Room(b) /\ b.line = d.line /\ Touches(d, b, w)
    BY <2>1, LinkedWaits, LinkedGood, LinesStay, VisitCallsTouch, TouchesOn DEF Leads
  <2> HIDE DEF b
  <2>3. Waiting(c, w, e, row) /\ Good(c) /\ Room(c) /\ c.line = d.line /\ Touches(d, c, w)
    BY <2>2, OwnBackWaits, OwnBackGood, LinesStay, VisitCallsTouch, TouchesOn DEF Leads
  <2> HIDE DEF c, y
  <2>4. CASE Seen(l)
    <3>1. l.at # "cancelled" /\ l.who = Overseer
      BY <1>1, <2>4 DEF Orderly, Names
    <3>2. Waiting(s, w, e, row) /\ Good(s) /\ Touches(c, s, w) /\ SameShow(c, s, w)
      BY <2>3, <2>4, <3>1, SyncWaits, SyncGood, SyncTouches
    <3> HIDE DEF s
    <3>3. Waiting(Linked(s, w), w, e, row) /\ Linked(s, w).line = s.line /\ Touches(s, Linked(s, w), w)
      BY <3>2, LinkedWaits, LinesStay, VisitCallsTouch
    <3>4. y.line[w].at = l.at /\ y.line[w].removed = l.removed /\ Waiting(y, w, e, row) /\ y.visit = d.visit
      BY <1>0, <2>3, <2>4, <3>2, <3>3 DEF SameShow, Touches
    <3> HIDE DEF l
    <3>5. Orderly(y.line[w], w, who, e, row) /\ (Seen(y.line[w]) <=> Seen(l)) /\ (Stays(y.line[w], e) <=> Stays(l, e))
      BY <1>1, <2>4, <3>4, ShownOrderly
    <3>6. Remembers(y.visit, y.line[w], who)
      BY <1>1, <3>4, <3>5 DEF Remembers
    <3> QED
      BY <1>3, <3>4, <3>5, <3>6 DEF Hosted, Hidden, y
  <2>5. CASE ~Seen(l)
    <3>1. Waiting(y, w, e, row) /\ y.line = d.line /\ Touches(c, y, w)
      BY <1>0, <2>3, <2>5, FromVisitWaits, LinesStay, VisitCallsTouch
    <3>2. y.visit = d.visit
      BY <2>3, <3>1 DEF Touches
    <3> QED
      BY <1>1, <1>3, <3>1, <3>2 DEF Hosted, Hidden, y
  <2> QED
    BY <2>4, <2>5
<1> QED
  BY <1>2, <1>3

\* The journal stays as it is, and so do the lines of other weeks.
LineOf(d, y, w) ==
    y.entry = d.entry /\ SameShow(d, y, w) /\ \A x \in Week \ {w} : y.line[x] = d.line[x]

LEMMA LineOfOthers ==
    ASSUME NEW d, NEW y, NEW w, LineOf(d, y, w), NEW x \in Week, x # w
    PROVE SameWeek(d, y, x)
BY EntriesSame DEF LineOf, SameWeek

LEMMA TemplateIs ==
    ASSUME NEW d, Good(d)
    PROVE LET v == d.visit
              l == d.line[v.week]
              y == templateApply(d)
              handOver == Seen(l) /\ v.prev = NoPrev /\ (v.done => l.who # Overseer)
          IN  /\ LineOf(d, y, v.week) /\ y.visit.at = v.at /\ y.visit.week = v.week
              /\ \/ y = d /\ (v.at = "on" /\ programmeOpen(v.week) => ~Seen(l))
                 \/ /\ v.at = "on" /\ y.visit.done
                    /\ y.visit.prev = IF ~handOver THEN v.prev ELSE IF l.who = Overseer THEN NoOne ELSE l.who
                    /\ y.line[v.week].who = IF handOver THEN Overseer ELSE l.who
<1> DEFINE v == d.visit
           w == v.week
           l == d.line[w]
           handOver == Seen(l) /\ v.prev = NoPrev /\ (v.done => l.who # Overseer)
           prev == IF ~handOver THEN v.prev ELSE IF l.who = Overseer THEN NoOne ELSE l.who
           who == IF handOver THEN Overseer ELSE l.who
           x == [d EXCEPT !.visit.done = TRUE, !.visit.prev = prev, !.line[w].who = who]
           y == templateApply(d)
<1>1. d \in Database /\ v \in Visit /\ w \in Week /\ l \in Line
  BY DEF Good, Database, Visit
<1>2. CASE v.at # "on" \/ ~programmeOpen(w) \/ l.at = "none"
  <2>1. y = d
    BY <1>2 DEF templateApply
  <2>2. v.at = "on" /\ programmeOpen(w) => ~Seen(l)
    BY <1>2 DEF Seen
  <2> QED
    BY <2>1, <2>2 DEF LineOf, SameShow
<1>3. CASE ~(v.at # "on" \/ ~programmeOpen(w) \/ l.at = "none")
  <2>1. y = x
    BY <1>3 DEF templateApply
  <2> HIDE DEF prev, who, y
  <2>2. x.entry = d.entry /\ x.visit = [v EXCEPT !.done = TRUE, !.prev = prev]
        /\ x.line = [d.line EXCEPT ![w] = [l EXCEPT !.who = who]]
    BY <1>1 DEF Database
  <2> HIDE DEF x
  <2>3. x.visit.done /\ x.visit.prev = prev /\ x.visit.at = v.at /\ x.visit.week = w
    BY <1>1, <2>2 DEF Visit
  <2>4. d.line \in [Week -> Line]
    BY <1>1 DEF Database
  <2>5. x.line[w] = [l EXCEPT !.who = who] /\ \A z \in Week \ {w} : x.line[z] = d.line[z]
    BY <1>1, <2>2, <2>4
  <2>6. x.line[w].who = who /\ x.line[w].at = l.at /\ x.line[w].removed = l.removed
    BY <1>1, <2>5 DEF Line
  <2> QED
    BY <1>3, <2>1, <2>2, <2>3, <2>5, <2>6 DEF LineOf, SameShow, prev, who, y
<1> QED
  BY <1>2, <1>3

LEMMA RevertIs ==
    ASSUME NEW d, Good(d), NEW v, v = d.visit
    PROVE LET l == d.line[v.week]
              y == templateRevert(d, v)
          IN  /\ LineOf(d, y, v.week) /\ y.visit.at = v.at /\ y.visit.week = v.week
              /\ IF v.done
                 THEN /\ ~y.visit.done /\ y.visit.prev = NoPrev
                      /\ y.line[v.week].who = IF v.prev # NoPrev /\ Seen(l) THEN v.prev ELSE l.who
                 ELSE y = d
<1> DEFINE w == v.week
           l == d.line[w]
           who == IF v.prev # NoPrev /\ Seen(l) THEN v.prev ELSE l.who
           x == [d EXCEPT !.visit = [v EXCEPT !.done = FALSE, !.prev = NoPrev], !.line[w].who = who]
           y == templateRevert(d, v)
<1>1. d \in Database /\ v \in Visit /\ w \in Week /\ l \in Line
  BY DEF Good, Database, Visit
<1>2. CASE ~v.done
  <2>1. y = d
    BY <1>2 DEF templateRevert
  <2> QED
    BY <1>2, <2>1 DEF LineOf, SameShow
<1>3. CASE v.done
  <2>1. y = x
    BY <1>3 DEF templateRevert
  <2> HIDE DEF who, y
  <2>2. x.entry = d.entry /\ x.visit = [v EXCEPT !.done = FALSE, !.prev = NoPrev]
        /\ x.line = [d.line EXCEPT ![w] = [l EXCEPT !.who = who]]
    BY <1>1 DEF Database
  <2> HIDE DEF x
  <2>3. ~x.visit.done /\ x.visit.prev = NoPrev /\ x.visit.at = v.at /\ x.visit.week = w
    BY <1>1, <2>2 DEF Visit
  <2>4. d.line \in [Week -> Line]
    BY <1>1 DEF Database
  <2>5. x.line[w] = [l EXCEPT !.who = who] /\ \A z \in Week \ {w} : x.line[z] = d.line[z]
    BY <1>1, <2>2, <2>4
  <2>6. x.line[w].who = who /\ x.line[w].at = l.at /\ x.line[w].removed = l.removed
    BY <1>1, <2>5 DEF Line
  <2> QED
    BY <1>3, <2>1, <2>2, <2>3, <2>5, <2>6 DEF LineOf, SameShow, who, y
<1> QED
  BY <1>2, <1>3

LEMMA SpeakerIs ==
    ASSUME NEW d, Good(d)
    PROVE LET w == d.visit.week
              y == syncSpeaker(d)
          IN  /\ LineOf(d, y, w) /\ y.visit = d.visit
              /\ y.line[w].who = IF d.visit.done /\ Seen(d.line[w]) THEN Overseer ELSE d.line[w].who
<1> DEFINE w == d.visit.week
           l == d.line[w]
           x == [d EXCEPT !.line[w].who = Overseer]
           y == syncSpeaker(d)
<1>1. d \in Database /\ w \in Week /\ l \in Line /\ d.line \in [Week -> Line]
  BY DEF Good, Database, Visit
<1>2. x.entry = d.entry /\ x.visit = d.visit /\ x.line = [d.line EXCEPT ![w] = [l EXCEPT !.who = Overseer]]
  BY <1>1 DEF Database
<1>3. y = IF d.visit.done /\ Seen(l) THEN x ELSE d
  BY DEF syncSpeaker
<1> HIDE DEF x, y
<1>4. x.line[w] = [l EXCEPT !.who = Overseer] /\ \A z \in Week \ {w} : x.line[z] = d.line[z]
  BY <1>1, <1>2
<1>5. x.line[w].who = Overseer /\ x.line[w].at = l.at /\ x.line[w].removed = l.removed
  BY <1>1, <1>4 DEF Line
<1> QED
  BY <1>2, <1>3, <1>4, <1>5 DEF LineOf, SameShow, y

\* The template hands a week's line over, once.
LEMMA TemplateHandsOver ==
    ASSUME NEW d, Good(d), NEW w, w = d.visit.week, d.visit.at = "on", programmeOpen(w), Forgotten(d.visit),
           NEW who, NEW e \in Ids \cup {NoEntry}, NEW row, AsItWas(d, w, who, e, row), who # Overseer
    PROVE Handed(templateApply(d), w, who, e, row)
<1> DEFINE y == templateApply(d)
           l == d.line[w]
           m == y.line[w]
<1>1. LineOf(d, y, w)
  BY TemplateIs
<1>2. Only(y, w, e, row)
  BY <1>1, EntriesSame, RowsCarry DEF LineOf, AsItWas
<1>3. CASE Seen(l)
  <2>1. l.who = who /\ who # Overseer
    BY <1>3 DEF AsItWas, Names
  <2>2. y.visit.done /\ y.visit.prev = who /\ m.who = Overseer
    BY <1>3, <2>1, TemplateIs DEF Forgotten
  <2> HIDE DEF y
  <2>3. Orderly(m, w, who, e, row) /\ Seen(m)
    BY <1>1, <1>3, ShownOrderly DEF LineOf, SameShow, AsItWas
  <2> QED
    BY <1>2, <2>2, <2>3 DEF Handed, Names, Remembers, y
<1>4. CASE ~Seen(l)
  <2>1. y.visit.prev = NoPrev /\ m.who = l.who
    BY <1>4, TemplateIs DEF Forgotten
  <2> HIDE DEF y
  <2>2. Orderly(m, w, who, e, row) /\ ~Seen(m)
    BY <1>1, <1>4, <2>1, ShownOrderly DEF LineOf, SameShow, AsItWas
  <2> QED
    BY <1>2, <2>1, <2>2 DEF Handed, Names, Remembers, y
<1> QED
  BY <1>3, <1>4

\* Handed over already, it stays so.
LEMMA TemplateAgain ==
    ASSUME NEW d, Good(d), NEW w, w = d.visit.week,
           NEW who, who # NoPrev, NEW e \in Ids \cup {NoEntry}, NEW row, Hosted(d, w, who, e, row)
    PROVE Hosted(templateApply(d), w, who, e, row)
<1> DEFINE y == templateApply(d)
           l == d.line[w]
           m == y.line[w]
<1>1. LineOf(d, y, w)
  BY TemplateIs
<1>2. Remembers(d.visit, l, who) /\ Orderly(l, w, who, e, row) /\ Hidden(d, w, e, row)
  BY DEF Hosted
<1>3. y.visit.prev = d.visit.prev /\ (Seen(l) => y.visit.done) /\ m.who = l.who
  BY <1>2, TemplateIs DEF Remembers
<1> HIDE DEF y
<1>4. Orderly(m, w, who, e, row) /\ (Seen(m) <=> Seen(l)) /\ (Stays(m, e) <=> Stays(l, e))
  BY <1>1, <1>2, <1>3, ShownOrderly DEF LineOf, SameShow
<1>5. Hidden(y, w, e, row)
  BY <1>1, <1>2, <1>4, EntriesSame, RowsCarry DEF LineOf, Hidden
<1> QED
  BY <1>2, <1>3, <1>4, <1>5 DEF Hosted, Remembers, y

LEMMA SpeakerHandsOver ==
    ASSUME NEW d, Good(d), NEW w, w = d.visit.week,
           NEW who, NEW e \in Ids \cup {NoEntry}, NEW row, Hosted(d, w, who, e, row)
    PROVE Handed(syncSpeaker(d), w, who, e, row)
<1> DEFINE y == syncSpeaker(d)
           l == d.line[w]
           m == y.line[w]
<1>1. LineOf(d, y, w) /\ y.visit = d.visit
      /\ m.who = IF d.visit.done /\ Seen(l) THEN Overseer ELSE l.who
  BY SpeakerIs
<1>2. Remembers(d.visit, l, who) /\ Orderly(l, w, who, e, row) /\ Hidden(d, w, e, row)
  BY DEF Hosted
<1> HIDE DEF y
<1>3. Orderly(m, w, who, e, row) /\ (Seen(m) <=> Seen(l)) /\ (Stays(m, e) <=> Stays(l, e))
  BY <1>1, <1>2, ShownOrderly DEF LineOf, SameShow
<1>4. IF Stays(m, e) THEN Only(y, w, e, row) ELSE Waiting(y, w, e, row)
  BY <1>1, <1>2, <1>3, EntriesSame, RowsCarry DEF LineOf, Hidden
<1> QED
  BY <1>1, <1>2, <1>3, <1>4 DEF Handed, Names, Remembers, y

\* The line is given back to whom the visit had it from, and the visit forgets him.
LEMMA RevertLeaves ==
    ASSUME NEW d, Good(d), VisitSound(d.visit)
    PROVE Forgotten(templateRevert(d, d.visit).visit)
BY RevertIs DEF Forgotten, VisitSound

LEMMA RevertGivesBack ==
    ASSUME NEW d, Good(d), NEW w, w = d.visit.week,
           NEW who, who # NoPrev, NEW e \in Ids \cup {NoEntry}, NEW row, Hosted(d, w, who, e, row)
    PROVE Left(templateRevert(d, d.visit), w, who, e, row)
<1> DEFINE v == d.visit
           y == templateRevert(d, v)
           l == d.line[w]
           m == y.line[w]
<1>1. LineOf(d, y, w)
  BY RevertIs
<1>2. Remembers(v, l, who) /\ Orderly(l, w, who, e, row) /\ Hidden(d, w, e, row)
  BY DEF Hosted
<1>3. IF Seen(l) THEN m.who = who ELSE m.who = l.who
  BY <1>2, RevertIs DEF Remembers
<1> HIDE DEF y
<1>4. Orderly(m, w, who, e, row) /\ (Seen(m) <=> Seen(l)) /\ (Stays(m, e) <=> Stays(l, e))
  BY <1>1, <1>2, <1>3, ShownOrderly DEF LineOf, SameShow
<1>5. Hidden(y, w, e, row)
  BY <1>1, <1>2, <1>4, EntriesSame, RowsCarry DEF LineOf, Hidden
<1> QED
  BY <1>3, <1>4, <1>5 DEF Left, Names, y

----------------------------------------------------------------------------
(* The overseer's entry leaves the week, and the guest's comes back to it.  *)

\* The overseer's row leaves a week: removed, or gone with him to another.
HisGoes(d, a, w) ==
    LET S == overseerEntries(d, w, "live") IN
    IF S = {} THEN a = d
    ELSE \E i \in S : \E r : /\ Rewrites(d, a, i, r) /\ ~r.aside /\ (Standing(r) => IsHis(r))
                             /\ ~(Standing(r) /\ r.week = w)

LEMMA HisEntries ==
    ASSUME NEW d, Good(d), NEW w, NEW i \in overseerEntries(d, w, "live")
    PROVE i \in Ids /\ d.entry[i] \in Row /\ Live(d, w) = {i} /\ ~d.entry[i].aside /\ IsHis(d.entry[i])
          /\ Standing(d.entry[i]) /\ d.entry[i].week = w
<1>1. i \in Ids /\ ~d.entry[i].aside /\ IsHis(d.entry[i]) /\ Standing(d.entry[i]) /\ d.entry[i].week = w
  BY DEF overseerEntries, Standing
<1>2. Live(d, w) = {i}
  BY <1>1 DEF Live, Good, Single
<1> QED
  BY <1>1, <1>2 DEF Good, Database

LEMMA HisLeaves ==
    ASSUME NEW d, Good(d), NEW a, NEW w, HisGoes(d, a, w),
           NEW e \in Ids \cup {NoEntry}, NEW row, Waiting(d, w, e, row)
    PROVE Waiting(a, w, e, row) /\ Live(a, w) = {}
<1> DEFINE S == overseerEntries(d, w, "live")
<1>1. Live(d, w) \subseteq S
  BY DEF overseerEntries, Live, Standing, Waiting
<1>2. CASE S = {}
  BY <1>1, <1>2 DEF HisGoes
<1>3. CASE S # {}
  <2>0. PICK i \in S : \E r : /\ Rewrites(d, a, i, r) /\ ~r.aside /\ (Standing(r) => IsHis(r))
                               /\ ~(Standing(r) /\ r.week = w)
    BY <1>3 DEF HisGoes
  <2>1. PICK r : /\ Rewrites(d, a, i, r) /\ ~r.aside /\ (Standing(r) => IsHis(r))
                 /\ ~(Standing(r) /\ r.week = w)
    BY <2>0
  <2>2. i \in Ids /\ Live(d, w) = {i} /\ Standing(d.entry[i])
    BY HisEntries
  <2> HIDE DEF S
  <2>3. i \notin Marked(d, w)
    BY <2>2 DEF Marked, Standing
  <2>4. Waiting(a, w, e, row)
    BY <2>1, <2>2, <2>3, StillWaiting
  <2>5. a.entry[i] = r /\ \A f \in Ids : f # i => a.entry[f] = d.entry[f]
    BY <2>1, <2>2 DEF Rewrites
  <2>6. \A f \in Ids : f # i => ~(Standing(d.entry[f]) /\ d.entry[f].week = w)
    BY <2>2 DEF Live
  <2>7. Live(a, w) = {}
    BY <2>1, <2>5, <2>6 DEF Live
  <2> QED
    BY <2>4, <2>7
<1> QED
  BY <1>2, <1>3

\* Where nobody had to step aside, there is nothing of his to leave.
LEMMA NothingLeaves ==
    ASSUME NEW d, Good(d), NEW a, NEW w, HisGoes(d, a, w),
           NEW e \in Ids, NEW row, Only(d, w, e, row), ~IsHis(row)
    PROVE a = d
<1>1. e # NoEntry
  BY TalkConstants DEF Ids, NoEntry
<1>2. Live(d, w) = {e} /\ d.entry[e] = row
  BY <1>1, OneLive DEF Only
<1>3. overseerEntries(d, w, "live") = {}
  <2> SUFFICES ASSUME NEW i \in overseerEntries(d, w, "live")
               PROVE FALSE
    OBVIOUS
  <2> QED
    BY <1>2, HisEntries
<1> QED
  BY <1>3 DEF HisGoes

\* Nobody was entered when the visit came, and nobody is entered when it goes.
LEMMA NobodyReturns ==
    ASSUME NEW a, Good(a), NEW w \in Week, NEW who, NEW row, Live(a, w) = {},
           Orderly(a.line[w], w, who, NoEntry, row), Names(a.line[w], who), Waiting(a, w, NoEntry, row)
    PROVE AsItWas(syncProgramToJournal(returnEntry(a, w), w, TRUE, FALSE), w, who, NoEntry, row)
<1> DEFINE l == a.line[w]
<1>0. NoOne \notin Speakers
  BY TalkConstants DEF Speakers
<1>1. weekEntry(a, w) = NoEntry /\ Marked(a, w) = {}
  BY OneLive DEF Waiting
<1>2. Seen(l) => l.who = NoOne /\ l.at # "cancelled"
  BY DEF Orderly, Names
<1>3. Named(a, w) = {}
  <2>1. \A e \in Ids : a.entry[e].who \in Speakers
    BY DEF Good, Database, Row
  <2> QED
    BY <1>0, <1>2, <2>1 DEF Named
<1>4. returnEntry(a, w) = a
  BY <1>1, <1>3, ReturnIs
<1>5. syncProgramToJournal(a, w, TRUE, FALSE) = Emptied(a, w, NoEntry)
  <2> DEFINE e == weekEntry(a, w)
  <2>1. syncProgramToJournal(a, w, TRUE, FALSE)
          = IF ~Seen(l) \/ l.who = NoOne THEN Emptied(a, w, e) ELSE Mirrored(a, w, e)
    BY <1>1, <1>2, SyncIs
  <2> QED
    BY <1>1, <1>2, <2>1
<1>6. Emptied(a, w, NoEntry) = a
  BY DEF Emptied
<1>7. Only(a, w, NoEntry, row)
  BY <1>1 DEF Only
<1> QED
  BY <1>4, <1>5, <1>6, <1>7 DEF AsItWas

\* The guest set aside is entered again as he was, and the line, which names him, finds him so.
LEMMA GuestReturns ==
    ASSUME NEW a, Good(a), Room(a), NEW w \in Week, NEW who, NEW e \in Ids, NEW row \in Row, Live(a, w) = {},
           Orderly(a.line[w], w, who, e, row), Names(a.line[w], who), Seen(a.line[w]), Waiting(a, w, e, row)
    PROVE AsItWas(syncProgramToJournal(returnEntry(a, w), w, TRUE, FALSE), w, who, e, row)
<1> DEFINE l == a.line[w]
           b == returnEntry(a, w)
           back == [a.entry[e] EXCEPT !.at = "live", !.aside = FALSE]
<1>0. NoOne \notin Speakers /\ e # NoEntry
  BY TalkConstants DEF Speakers, Ids, NoEntry
<1>1. Marked(a, w) = {e} /\ a.entry[e] = [row EXCEPT !.at = "gone", !.aside = TRUE] /\ weekEntry(a, w) = NoEntry
  BY <1>0, OneLive DEF Waiting
<1>2. /\ Standing(row) /\ row.week = w /\ ~row.off /\ ~row.aside /\ who = row.who
      /\ l.at # "cancelled" /\ l.who = who
  BY <1>0 DEF Orderly, Names
<1>3. Rewrites(a, b, e, back)
  <2>1. \E i \in Marked(a, w) :
          Rewrites(a, b, i, [a.entry[i] EXCEPT !.at = "live", !.aside = FALSE])
    BY <1>1, ReturnIs
  <2> QED
    BY <1>1, <2>1
<1>4. back = row
  BY <1>1, <1>2 DEF Row, Standing
<1>5. Good(b) /\ Room(b)
  BY ReturnGood DEF Leads
<1> HIDE DEF b, back
<1>6. b.line = a.line /\ b.entry[e] = row /\ \A f \in Ids : f # e => b.entry[f] = a.entry[f]
  BY <1>3, <1>4 DEF Rewrites
<1>7. Only(b, w, e, row)
  <2>1. e \in Live(b, w)
    BY <1>2, <1>6 DEF Live
  <2>2. weekEntry(b, w) = e
    BY <1>5, <2>1, OneLive
  <2>3. \A f \in Ids : f # e => ~(a.entry[f].aside /\ a.entry[f].at = "gone" /\ a.entry[f].week = w)
    BY <1>1 DEF Marked
  <2>4. Marked(b, w) = {}
    BY <1>2, <1>6, <2>3 DEF Marked
  <2> QED
    BY <1>6, <2>2, <2>4 DEF Only
<1>8. syncProgramToJournal(b, w, TRUE, FALSE) = Mirrored(b, w, e)
  <2>1. weekEntry(b, w) = e /\ b.line[w] = l /\ ~b.entry[e].off /\ l.who # NoOne
    BY <1>0, <1>2, <1>6, <1>7 DEF Only, Row
  <2> HIDE DEF l
  <2> QED
    BY <1>2, <2>1, SyncIs DEF l
<1>9. PICK x \in Ids, r \in Row, y \in Database :
        /\ Rewrites(b, y, x, r) /\ Good(y) /\ x = e /\ r = [b.entry[e] EXCEPT !.who = l.who]
        /\ Mirrored(b, w, e) = y \/ Mirrored(b, w, e) = SetLine(y, w, [l EXCEPT !.link = x])
  <2>1. e = weekEntry(b, w) /\ b.line[w] = l /\ l.who # NoOne
    BY <1>0, <1>2, <1>6, <1>7 DEF Only, Row
  <2> HIDE DEF l
  <2>2. PICK x \in Ids, r \in Row, y \in Database : MirroredTo(b, w, e, x, r, y)
    BY <1>5, <2>1, MirroredIs
  <2> QED
    BY <1>0, <2>1, <2>2 DEF MirroredTo
<1>10. r = row
  BY <1>2, <1>6, <1>9 DEF Row
<1>11. SameRows(b, y, w)
  <2>1. \A f \in Ids : y.entry[f] = b.entry[f]
    BY <1>6, <1>9, <1>10 DEF Rewrites
  <2> QED
    BY <2>1 DEF SameRows, Live, Marked
<1>12. Only(y, w, e, row) /\ y.line[w] = l
  BY <1>5, <1>6, <1>7, <1>9, <1>11, RowsCarry DEF Rewrites
<1> DEFINE m == [l EXCEPT !.link = x]
<1>13. Only(SetLine(y, w, m), w, e, row) /\ SetLine(y, w, m).line[w] = m
  <2> HIDE DEF m
  <2>1. SetLine(y, w, m).entry = y.entry /\ SetLine(y, w, m).line[w] = m
    BY <1>9, SetLineSame
  <2> QED
    BY <1>9, <1>12, <2>1, EntriesSame, RowsCarry
<1>14. m.at = l.at /\ m.removed = l.removed /\ m.who = l.who
  BY DEF Good, Database, Line
<1>15. Mirrored(b, w, e) = y \/ Mirrored(b, w, e) = SetLine(y, w, m)
  BY <1>9
<1> HIDE DEF l, m
<1>16. Orderly(m, w, who, e, row) /\ Names(m, who)
  BY <1>2, <1>14, ShownOrderly DEF Names, l
<1> QED
  BY <1>8, <1>12, <1>13, <1>15, <1>16 DEF AsItWas, l, b

\* Where there was no programme, the entry stayed, and stays.
LEMMA WhoStayedStays ==
    ASSUME NEW d, Good(d), NEW w \in Week, NEW who, NEW e \in Ids, NEW row, Only(d, w, e, row),
           Orderly(d.line[w], w, who, e, row), ~Seen(d.line[w])
    PROVE AsItWas(syncProgramToJournal(returnEntry(d, w), w, TRUE, FALSE), w, who, e, row)
<1>0. e # NoEntry
  BY TalkConstants DEF Ids, NoEntry
<1>1. weekEntry(d, w) = e /\ d.entry[e] = row /\ ~row.off /\ row.hand # "app"
  BY <1>0 DEF Only, Orderly
<1>2. returnEntry(d, w) = d
  BY <1>0, <1>1, ReturnIs
<1>3. syncProgramToJournal(d, w, TRUE, FALSE) = Emptied(d, w, e)
  BY <1>1, SyncIs
<1>4. Emptied(d, w, e) = d
  BY <1>0, <1>1 DEF Emptied
<1> QED
  BY <1>2, <1>3, <1>4 DEF AsItWas, Names

LEMMA GivesBack ==
    ASSUME NEW d, Good(d), NEW a, Good(a), Room(a), NEW w \in Week, HisGoes(d, a, w),
           NEW who, NEW e \in Ids \cup {NoEntry}, NEW row \in Row, Left(d, w, who, e, row)
    PROVE AsItWas(syncProgramToJournal(returnEntry(a, w), w, TRUE, FALSE), w, who, e, row)
<1>1. a.line = d.line
  BY DEF HisGoes, Rewrites
<1>2. Orderly(a.line[w], w, who, e, row) /\ Names(a.line[w], who)
  BY <1>1 DEF Left
<1>3. CASE Stays(d.line[w], e)
  <2>1. Only(d, w, e, row) /\ e \in Ids /\ ~Seen(d.line[w]) /\ ~IsHis(row)
    BY <1>3 DEF Left, Hidden, Stays, Orderly
  <2>2. a = d
    BY <2>1, NothingLeaves
  <2> QED
    BY <1>2, <2>1, <2>2, WhoStayedStays
<1>4. CASE ~Stays(d.line[w], e)
  <2>1. Waiting(a, w, e, row) /\ Live(a, w) = {}
    BY <1>4, HisLeaves DEF Left, Hidden
  <2>2. CASE e = NoEntry
    BY <1>2, <2>1, <2>2, NobodyReturns
  <2>3. CASE e # NoEntry
    <3>1. e \in Ids /\ Seen(a.line[w])
      BY <1>1, <1>4, <2>3 DEF Stays
    <3> QED
      BY <1>2, <2>1, <3>1, GuestReturns
  <2> QED
    BY <2>2, <2>3
<1> QED
  BY <1>3, <1>4

LEMMA ReturningTouches ==
    ASSUME NEW a, Good(a), Room(a), NEW w \in Week
    PROVE Touches(a, syncProgramToJournal(returnEntry(a, w), w, TRUE, FALSE), w)
<1> DEFINE b == returnEntry(a, w)
           s == syncProgramToJournal(b, w, TRUE, FALSE)
<1>1. Good(b) /\ Room(b) /\ Touches(a, b, w)
  BY ReturnGood, VisitCallsTouch DEF Leads
<1> HIDE DEF b
<1>2. Touches(b, s, w)
  BY <1>1, SyncTouches
<1> HIDE DEF s
<1>3. Touches(a, s, w)
  BY <1>1, <1>2, TouchesOn
<1> QED
  BY <1>3 DEF s, b

LEMMA RemovedRestores ==
    ASSUME NEW d, Good(d), Room(d), NEW w \in Week
    PROVE LET y == circuitVisitRemoved(d, w) IN
          /\ Touches(d, y, w)
          /\ \A who : \A e \in Ids \cup {NoEntry}, row \in Row :
               Left(d, w, who, e, row) => AsItWas(y, w, who, e, row)
<1> DEFINE S == overseerEntries(d, w, "live")
           a == Gone(d, S)
           y == syncProgramToJournal(returnEntry(a, w), w, TRUE, FALSE)
<1>1. Good(a) /\ Room(a)
  BY GoneGood DEF Leads
<1>2. Touches(d, a, w)
  BY VisitCallsTouch
<1>3. HisGoes(d, a, w)
  <2>1. ASSUME NEW i \in S, Rewrites(d, a, i, [d.entry[i] EXCEPT !.at = "gone"])
        PROVE HisGoes(d, a, w)
    <3> DEFINE r == [d.entry[i] EXCEPT !.at = "gone"]
    <3>1. ~r.aside /\ ~Standing(r)
      BY HisEntries DEF Row, Standing
    <3>2. Rewrites(d, a, i, r)
      BY <2>1
    <3> HIDE DEF r, a
    <3> QED
      BY <3>1, <3>2 DEF HisGoes
  <2>2. S = {} => a = d
    BY DEF Gone
  <2>3. S # {} => \E i \in S : Rewrites(d, a, i, [d.entry[i] EXCEPT !.at = "gone"])
    BY GoneIs
  <2> HIDE DEF a
  <2> QED
    BY <2>1, <2>2, <2>3 DEF HisGoes
<1> HIDE DEF a
<1>4. Touches(d, y, w)
  BY <1>1, <1>2, ReturningTouches, TouchesOn
<1>5. \A who : \A e \in Ids \cup {NoEntry}, row \in Row : Left(d, w, who, e, row) => AsItWas(y, w, who, e, row)
  BY <1>1, <1>3, GivesBack
<1>6. circuitVisitRemoved(d, w) = y
  BY DEF circuitVisitRemoved, a
<1> HIDE DEF y
<1> QED
  BY <1>4, <1>5, <1>6

\* The visit moves: its entry goes with it, to a week that nobody stands in, or is removed.
LEMMA HandedOn ==
    ASSUME NEW d, Good(d), NEW from \in Week, NEW to \in Week, from # to,
           NEW i \in overseerEntries(d, from, "live"), Live(d, to) = {},
           NEW a, Rewrites(d, a, i, [d.entry[i] EXCEPT !.week = to]),
           NEW who, NEW e \in Ids \cup {NoEntry}, NEW row, Handed(d, to, who, e, row)
    PROVE Handed(a, to, who, e, row)
<1> DEFINE r == [d.entry[i] EXCEPT !.week = to]
<1>1. i \in Ids /\ i \notin Marked(d, to) /\ ~r.aside /\ IsHis(r)
  BY HisEntries DEF Marked, Row, IsHis
<1>2. Waiting(d, to, e, row) /\ ~Stays(d.line[to], e)
  <2>1. CASE Only(d, to, e, row)
    <3>1. e = NoEntry /\ Marked(d, to) = {}
      BY <2>1, OneLive DEF Only
    <3> QED
      BY <3>1 DEF Waiting, Stays
  <2>2. CASE ~Only(d, to, e, row)
    BY <2>2 DEF Handed
  <2> QED
    BY <2>1, <2>2
<1>3. Rewrites(d, a, i, r)
  OBVIOUS
<1> HIDE DEF r
<1>4. Waiting(a, to, e, row)
  BY <1>1, <1>2, <1>3, StillWaiting
<1> QED
  BY <1>2, <1>3, <1>4 DEF Handed, Rewrites

LEMMA MovedIs ==
    ASSUME NEW d, Good(d), Room(d), NEW from \in Week, NEW to \in Week, from # to
    PROVE \E a : /\ Good(a) /\ Room(a) /\ HisGoes(d, a, from) /\ a.visit = d.visit
                 /\ circuitVisitMoved(d, from, to) = syncProgramToJournal(returnEntry(a, from), from, TRUE, FALSE)
                 /\ \A x \in Week \ {from, to} : SameWeek(d, a, x)
                 /\ \A who : \A e \in Ids \cup {NoEntry}, row \in Row :
                      Handed(d, to, who, e, row) => Handed(a, to, who, e, row)
<1> DEFINE S == overseerEntries(d, from, "live")
           i == CHOOSE x \in S : TRUE
           r == [d.entry[i] EXCEPT !.week = to]
           moved == [d EXCEPT !.entry[i] = r]
           a == IF Live(d, to) # {} \/ S = {} THEN Gone(d, S) ELSE moved
<1>1. circuitVisitMoved(d, from, to) = syncProgramToJournal(returnEntry(a, from), from, TRUE, FALSE)
  <2>1. [d EXCEPT !.entry[i].week = to] = moved
    OBVIOUS
  <2> QED
    BY <2>1 DEF circuitVisitMoved
<1>2. CASE Live(d, to) # {} \/ S = {}
  <2> DEFINE g == Gone(d, S)
  <2>1. a = g
    BY <1>2
  <2> HIDE DEF a
  <2>2. Good(g) /\ Room(g) /\ Touches(d, g, from)
    BY GoneGood, VisitCallsTouch DEF Leads
  <2>3. HisGoes(d, g, from)
    <3>1. ASSUME NEW j \in S, Rewrites(d, g, j, [d.entry[j] EXCEPT !.at = "gone"])
          PROVE HisGoes(d, g, from)
      <4> DEFINE q == [d.entry[j] EXCEPT !.at = "gone"]
      <4>1. ~q.aside /\ ~Standing(q)
        BY HisEntries DEF Row, Standing
      <4>2. Rewrites(d, g, j, q)
        BY <3>1
      <4> HIDE DEF q, g
      <4> QED
        BY <4>1, <4>2 DEF HisGoes
    <3>2. S = {} => g = d
      BY DEF Gone
    <3>3. S # {} => \E j \in S : Rewrites(d, g, j, [d.entry[j] EXCEPT !.at = "gone"])
      BY GoneIs
    <3> HIDE DEF g
    <3> QED
      BY <3>1, <3>2, <3>3 DEF HisGoes
  <2> HIDE DEF g
  <2>4. g.visit = d.visit /\ \A x \in Week \ {from} : SameWeek(d, g, x)
    BY <2>2, OtherWeeksSame DEF Touches
  <2>5. \A who : \A e \in Ids \cup {NoEntry}, row \in Row :
          Handed(d, to, who, e, row) => Handed(g, to, who, e, row)
    BY <2>4, WeekCarries
  <2> QED
    BY <1>1, <2>1, <2>2, <2>3, <2>4, <2>5
<1>3. CASE ~(Live(d, to) # {} \/ S = {})
  <2>1. i \in S /\ a = moved
    BY <1>3
  <2>2. i \in Ids /\ d.entry[i] \in Row /\ ~d.entry[i].aside /\ IsHis(d.entry[i]) /\ Standing(d.entry[i])
        /\ d.entry[i].week = from
    BY <2>1, HisEntries
  <2>3. [d EXCEPT !.entry[i].week = to] = moved
    OBVIOUS
  <2> HIDE DEF i, a
  <2>4. ~r.aside /\ IsHis(r) /\ r.week = to
    BY <2>2 DEF Row, IsHis
  <2>5. Good(moved) /\ Room(moved)
    <3>1. Leads(d, [d EXCEPT !.entry[i].week = to])
      BY <1>3, <2>2, GoesWithGood
    <3> HIDE DEF moved
    <3> QED
      BY <2>3, <3>1 DEF Leads
  <2>6. Rewrites(d, moved, i, r)
    <3> HIDE DEF r
    <3> QED
      BY <2>2, ChangingRewrites
  <2> HIDE DEF moved, S
  <2>7. HisGoes(d, moved, from)
    <3>1. i \in overseerEntries(d, from, "live")
      BY <2>1 DEF S
    <3> HIDE DEF r
    <3> QED
      BY <2>4, <2>6, <3>1 DEF HisGoes
  <2>8. moved.visit = d.visit /\ moved.line = d.line
    BY <2>6 DEF Rewrites
  <2>9. \A x \in Week \ {from, to} : SameWeek(d, moved, x)
    <3> SUFFICES ASSUME NEW x \in Week \ {from, to}
                 PROVE SameWeek(d, moved, x)
      OBVIOUS
    <3>1. moved.entry[i] = r /\ \A f \in Ids : f # i => moved.entry[f] = d.entry[f]
      BY <2>2, <2>6 DEF Rewrites
    <3> HIDE DEF r
    <3>2. Live(moved, x) = Live(d, x) /\ i \notin Live(d, x)
      BY <2>2, <2>4, <3>1 DEF Live
    <3>3. Marked(moved, x) = Marked(d, x) /\ i \notin Marked(d, x)
      BY <2>2, <2>4, <3>1 DEF Marked
    <3> QED
      BY <2>8, <3>1, <3>2, <3>3 DEF SameWeek, SameRows, Live, Marked
  <2>10. \A who : \A e \in Ids \cup {NoEntry}, row \in Row :
          Handed(d, to, who, e, row) => Handed(moved, to, who, e, row)
    BY <1>3, <2>1, <2>6, HandedOn DEF S
  <2> QED
    BY <1>1, <2>1, <2>5, <2>7, <2>8, <2>9, <2>10
<1> QED
  BY <1>2, <1>3

----------------------------------------------------------------------------
(* What a visit found, whoever spoke and by whichever entry.                *)

FoundAsItWas(d, w, f) ==
    \E who \in Guests \cup {NoOne}, e \in Ids \cup {NoEntry}, row \in Row :
      f = FoundAs(who, e, row) /\ AsItWas(d, w, who, e, row)
FoundHanded(d, w, f) ==
    \E who \in Guests \cup {NoOne}, e \in Ids \cup {NoEntry}, row \in Row :
      f = FoundAs(who, e, row) /\ Handed(d, w, who, e, row)
FoundHosted(d, w, f) ==
    \E who \in Guests \cup {NoOne}, e \in Ids \cup {NoEntry}, row \in Row :
      f = FoundAs(who, e, row) /\ Hosted(d, w, who, e, row)
FoundLeft(d, w, f) ==
    \E who \in Guests \cup {NoOne}, e \in Ids \cup {NoEntry}, row \in Row :
      f = FoundAs(who, e, row) /\ Left(d, w, who, e, row)

\* The weeks but those in S are as they were found.
Others(F, d, S) == \A x \in Week \ S : F[x] # Unknown => FoundAsItWas(d, x, F[x])

LEMMA FoundCarries ==
    ASSUME NEW d, Good(d), NEW y, NEW w, SameWeek(d, y, w), NEW f
    PROVE /\ FoundAsItWas(d, w, f) => FoundAsItWas(y, w, f)
          /\ FoundLeft(d, w, f) => FoundLeft(y, w, f)
          /\ y.visit = d.visit /\ FoundHanded(d, w, f) => FoundHanded(y, w, f)
          /\ y.visit = d.visit /\ FoundHosted(d, w, f) => FoundHosted(y, w, f)
<1>1. FoundAsItWas(d, w, f) => FoundAsItWas(y, w, f)
  BY WeekCarries DEF FoundAsItWas
<1>2. FoundLeft(d, w, f) => FoundLeft(y, w, f)
  BY WeekCarries DEF FoundLeft
<1>3. y.visit = d.visit /\ FoundHanded(d, w, f) => FoundHanded(y, w, f)
  BY WeekCarries DEF FoundHanded
<1>4. y.visit = d.visit /\ FoundHosted(d, w, f) => FoundHosted(y, w, f)
  BY WeekCarries DEF FoundHosted
<1> QED
  BY <1>1, <1>2, <1>3, <1>4

LEMMA OthersCarry ==
    ASSUME NEW d, Good(d), NEW y, NEW F, NEW S, Others(F, d, S), \A x \in Week \ S : SameWeek(d, y, x)
    PROVE Others(F, y, S)
BY FoundCarries DEF Others

\* Nobody the overseer's name hides, and nobody a visit has forgotten.
LEMMA FoundNames ==
    ASSUME NEW who \in Guests \cup {NoOne}
    PROVE who # Overseer /\ who # NoPrev
BY TalkConstants

\* A week in order is as it was found.
LEMMA FoundIs ==
    ASSUME NEW d, Good(d), NEW w \in Week, AsFound(d, w) # Unknown
    PROVE FoundAsItWas(d, w, AsFound(d, w))
<1> DEFINE l == d.line[w]
           e == weekEntry(d, w)
           who == IF Seen(l) THEN l.who ELSE NoOne
           row == IF e = NoEntry THEN NewRow(w, Overseer, "own") ELSE d.entry[e]
<1>1. InOrder(d, w)
  BY DEF AsFound
<1>2. /\ e \in Ids \cup {NoEntry} /\ NoEntry \notin Ids
      /\ e # NoEntry => e \in Ids /\ Live(d, w) = {e} /\ d.entry[e] \in Row
      /\ e = NoEntry => Live(d, w) = {}
  BY OneLive
<1>3. l \in Line
  BY DEF Good, Database
<1>4. row \in Row
  BY <1>2 DEF NewRow, Row, Speakers
<1>5. e # NoEntry => /\ Standing(row) /\ row.week = w /\ ~IsHis(row) /\ ~row.off /\ ~row.aside
                     /\ row.hand = "app" => Seen(l)
  BY <1>1, <1>2 DEF InOrder, Live
<1>6. Marked(d, w) = {}
  BY <1>1 DEF InOrder, Marked
<1>7. l.who # Overseer /\ (Seen(l) => l.at # "cancelled")
  BY <1>1 DEF InOrder, weekCancelled
<1>8. e # NoEntry => row.who # Overseer /\ row.who \in Guests
  BY <1>2, <1>4, <1>5 DEF IsHis, Row, Speakers
<1>9. Seen(l) => (e = NoEntry => l.who = NoOne) /\ (e # NoEntry => l.who = row.who)
  <2>1. mismatch(d, w) = "none"
    BY <1>1 DEF InOrder
  <2> QED
    BY <1>5, <1>7, <1>8, <2>1 DEF mismatch
<1>10. who \in Guests \cup {NoOne}
  BY <1>3, <1>7 DEF Line, Speakers
<1>11. AsFound(d, w) = FoundAs(who, e, row)
  <2>1. {[id |-> x, row |-> d.entry[x]] : x \in Live(d, w)} = IF e = NoEntry THEN {} ELSE {[id |-> e, row |-> row]}
    BY <1>2
  <2> QED
    BY <1>1, <2>1 DEF AsFound, FoundAs
<1>12. Orderly(l, w, who, e, row)
  BY <1>5, <1>7, <1>9 DEF Orderly
<1>13. Only(d, w, e, row) /\ Names(l, who)
  BY <1>6 DEF Only, Names
<1> HIDE DEF who, e, row
<1> QED
  BY <1>2, <1>4, <1>10, <1>11, <1>12, <1>13 DEF FoundAsItWas, AsItWas

\* And a week that is as it was found is found so again.
LEMMA FoundAgain ==
    ASSUME NEW d, Good(d), NEW w \in Week, NEW f, FoundAsItWas(d, w, f)
    PROVE AsFound(d, w) = f
<1> PICK who \in Guests \cup {NoOne}, e \in Ids \cup {NoEntry}, row \in Row :
           f = FoundAs(who, e, row) /\ AsItWas(d, w, who, e, row)
  BY DEF FoundAsItWas
<1> DEFINE l == d.line[w]
<1>1. Orderly(l, w, who, e, row) /\ Names(l, who) /\ Only(d, w, e, row) /\ who # Overseer
  BY FoundNames DEF AsItWas
<1>2. /\ weekEntry(d, w) = e /\ (e # NoEntry => d.entry[e] = row) /\ Marked(d, w) = {}
      /\ e # NoEntry => Live(d, w) = {e}
      /\ e = NoEntry => Live(d, w) = {}
  BY <1>1, OneLive DEF Only
<1>3. e # NoEntry => ~IsHis(row) /\ ~row.off /\ ~row.aside /\ row.who # Overseer /\ (row.hand = "app" => Seen(l))
  BY <1>1 DEF Orderly, IsHis
<1>4. Seen(l) => l.at # "cancelled" /\ l.who = who /\ (e = NoEntry => who = NoOne) /\ (e # NoEntry => who = row.who)
  BY <1>1 DEF Orderly, Names
<1>5. l.who # Overseer
  BY <1>1, <1>4 DEF Orderly
<1>6. mismatch(d, w) = "none"
  BY <1>2, <1>3, <1>4, <1>5 DEF mismatch
<1>7. InOrder(d, w)
  BY <1>2, <1>3, <1>4, <1>5, <1>6 DEF InOrder, weekCancelled, Marked
<1>8. (IF Seen(l) THEN l.who ELSE NoOne) = who
  BY <1>1, <1>4 DEF Orderly
<1>9. {[id |-> x, row |-> d.entry[x]] : x \in Live(d, w)} = IF e = NoEntry THEN {} ELSE {[id |-> e, row |-> row]}
  BY <1>2
<1> QED
  BY <1>7, <1>8, <1>9 DEF AsFound, FoundAs

----------------------------------------------------------------------------
(* The calls of a visit, and the weeks they find.                           *)

LEMMA TemplateComes ==
    ASSUME NEW d, Good(d), NEW w \in Week, visitOfWeek(d, w), Forgotten(d.visit),
           NEW F, F[w] # Unknown => programmeOpen(w), NEW S, w \notin S, Others(F, d, S)
    PROVE LET y == templateApply(d) IN
          /\ Others(F, y, S \cup {w}) /\ (F[w] # Unknown => FoundHanded(y, w, F[w]))
          /\ VisitSound(y.visit) /\ visitOfWeek(y, w) /\ \A x \in Week \ {w} : SameWeek(d, y, x)
<1> DEFINE y == templateApply(d)
<1>1. d.visit.at = "on" /\ d.visit.week = w
  BY DEF visitOfWeek
<1>2. /\ LineOf(d, y, w) /\ y.visit.at = "on" /\ y.visit.week = w
      /\ y = d \/ y.visit.done
  BY <1>1, TemplateIs
<1>3. \A x \in Week \ {w} : SameWeek(d, y, x)
  BY <1>2, LineOfOthers
<1>4. VisitSound(y.visit)
  BY <1>1, <1>2 DEF VisitSound, Forgotten
<1>5. ASSUME F[w] # Unknown
      PROVE FoundHanded(y, w, F[w])
  <2>1. FoundAsItWas(d, w, F[w]) /\ programmeOpen(w)
    BY <1>5 DEF Others
  <2> QED
    BY <1>1, <2>1, TemplateHandsOver, FoundNames DEF FoundAsItWas, FoundHanded
<1> HIDE DEF y
<1>6. Others(F, y, S \cup {w})
  BY <1>3, FoundCarries DEF Others
<1> QED
  BY <1>2, <1>3, <1>4, <1>5, <1>6 DEF visitOfWeek, y

LEMMA AppliedTouches ==
    ASSUME NEW d, Good(d), Room(d), NEW w \in Week
    PROVE Touches(d, circuitVisitApplied(d, w), w)
<1> DEFINE a == StepAside(d, w)
           b == Linked(a, w)
           c == OwnBack(b, w)
           s == syncProgramToJournal(c, w, TRUE, FALSE)
<1>1. Good(a) /\ Room(a) /\ Touches(d, a, w)
  BY StepAsideGood, VisitCallsTouch DEF Leads
<1> HIDE DEF a
<1>2. Good(b) /\ Room(b) /\ Touches(d, b, w)
  BY <1>1, LinkedGood, VisitCallsTouch, TouchesOn DEF Leads
<1> HIDE DEF b
<1>3. Good(c) /\ Room(c) /\ Touches(d, c, w)
  BY <1>2, OwnBackGood, VisitCallsTouch, TouchesOn DEF Leads
<1> HIDE DEF c
<1>4. Good(s) /\ Touches(d, s, w)
  BY <1>3, SyncGood, SyncTouches, TouchesOn
<1> HIDE DEF s
<1>5. Touches(d, Linked(s, w), w)
  BY <1>4, VisitCallsTouch, TouchesOn
<1>6. Touches(d, FromVisit(c, w), w)
  BY <1>3, VisitCallsTouch, TouchesOn
<1>7. Touches(d, d, w)
  BY TouchesNothing
<1> QED
  BY <1>5, <1>6, <1>7 DEF circuitVisitApplied, s, c, b, a

\* The week and the visit at rest.
Rests(F, d) ==
    IF d.visit.at = "on"
    THEN LET w == d.visit.week IN Others(F, d, {w}) /\ (F[w] # Unknown => FoundHosted(d, w, F[w]))
    ELSE Others(F, d, {})

LEMMA AppliedRests ==
    ASSUME NEW d, Good(d), Room(d), NEW w \in Week, visitOfWeek(d, w), NEW F, Others(F, d, {w}),
           F[w] # Unknown => FoundHanded(d, w, F[w])
    PROVE LET y == circuitVisitApplied(d, w) IN Rests(F, y) /\ y.visit = d.visit
<1> DEFINE y == circuitVisitApplied(d, w)
<1>1. Touches(d, y, w)
  BY AppliedTouches
<1>2. F[w] # Unknown => FoundHosted(y, w, F[w])
  BY AppliedHosts DEF FoundHanded, FoundHosted
<1> HIDE DEF y
<1>3. \A x \in Week \ {w} : SameWeek(d, y, x)
  BY <1>1, OtherWeeksSame
<1>4. Others(F, y, {w}) /\ y.visit = d.visit
  BY <1>1, <1>3, OthersCarry DEF Touches
<1> QED
  BY <1>2, <1>4 DEF Rests, visitOfWeek, y

LEMMA TemplateRests ==
    ASSUME NEW d, Good(d), NEW w \in Week, visitOfWeek(d, w), VisitSound(d.visit), NEW F, Rests(F, d)
    PROVE LET y == templateApply(d) IN Rests(F, y) /\ VisitSound(y.visit) /\ visitOfWeek(y, w)
<1> DEFINE y == templateApply(d)
<1>1. d.visit.at = "on" /\ d.visit.week = w /\ Others(F, d, {w}) /\ (F[w] # Unknown => FoundHosted(d, w, F[w]))
  BY DEF visitOfWeek, Rests
<1>2. /\ LineOf(d, y, w) /\ y.visit.at = "on" /\ y.visit.week = w
      /\ y = d \/ y.visit.done
  BY <1>1, TemplateIs
<1>3. VisitSound(y.visit)
  BY <1>2 DEF VisitSound
<1>4. F[w] # Unknown => FoundHosted(y, w, F[w])
  BY <1>1, TemplateAgain, FoundNames DEF FoundHosted
<1> HIDE DEF y
<1>5. Others(F, y, {w})
  BY <1>1, <1>2, LineOfOthers, OthersCarry
<1> QED
  BY <1>2, <1>3, <1>4, <1>5 DEF Rests, visitOfWeek, y

LEMMA SpeakerComes ==
    ASSUME NEW d, Good(d), NEW w \in Week, visitOfWeek(d, w), NEW F, Rests(F, d)
    PROVE LET y == syncSpeaker(d) IN
          Others(F, y, {w}) /\ (F[w] # Unknown => FoundHanded(y, w, F[w])) /\ y.visit = d.visit
<1> DEFINE y == syncSpeaker(d)
<1>1. d.visit.week = w /\ Others(F, d, {w}) /\ (F[w] # Unknown => FoundHosted(d, w, F[w]))
  BY DEF visitOfWeek, Rests
<1>2. LineOf(d, y, w) /\ y.visit = d.visit
  BY <1>1, SpeakerIs
<1>3. F[w] # Unknown => FoundHanded(y, w, F[w])
  BY <1>1, SpeakerHandsOver DEF FoundHosted, FoundHanded
<1> HIDE DEF y
<1>4. Others(F, y, {w})
  BY <1>1, <1>2, LineOfOthers, OthersCarry
<1> QED
  BY <1>2, <1>3, <1>4 DEF y

LEMMA RevertGoes ==
    ASSUME NEW d, Good(d), NEW w \in Week, visitOfWeek(d, w), VisitSound(d.visit), NEW F, Rests(F, d)
    PROVE LET y == templateRevert(d, d.visit) IN
          /\ Others(F, y, {w}) /\ (F[w] # Unknown => FoundLeft(y, w, F[w]))
          /\ Forgotten(y.visit) /\ visitOfWeek(y, w)
<1> DEFINE y == templateRevert(d, d.visit)
<1>1. d.visit.at = "on" /\ d.visit.week = w /\ Others(F, d, {w}) /\ (F[w] # Unknown => FoundHosted(d, w, F[w]))
  BY DEF visitOfWeek, Rests
<1>2. LineOf(d, y, w) /\ y.visit.at = "on" /\ y.visit.week = w
  BY <1>1, RevertIs
<1>3. F[w] # Unknown => FoundLeft(y, w, F[w])
  BY <1>1, RevertGivesBack, FoundNames DEF FoundHosted, FoundLeft
<1>4. Forgotten(y.visit)
  BY RevertLeaves
<1> HIDE DEF y
<1>5. Others(F, y, {w})
  BY <1>1, <1>2, LineOfOthers, OthersCarry
<1> QED
  BY <1>2, <1>3, <1>4, <1>5 DEF visitOfWeek, y

LEMMA RemovedGivesBack ==
    ASSUME NEW d, Good(d), Room(d), NEW w \in Week, NEW F, Others(F, d, {w}),
           F[w] # Unknown => FoundLeft(d, w, F[w])
    PROVE LET y == circuitVisitRemoved(d, w) IN Others(F, y, {}) /\ y.visit = d.visit
<1> DEFINE y == circuitVisitRemoved(d, w)
<1>1. Touches(d, y, w)
      /\ \A who : \A e \in Ids \cup {NoEntry}, row \in Row : Left(d, w, who, e, row) => AsItWas(y, w, who, e, row)
  BY RemovedRestores
<1>2. F[w] # Unknown => FoundAsItWas(y, w, F[w])
  BY <1>1 DEF FoundLeft, FoundAsItWas
<1> HIDE DEF y
<1>3. \A x \in Week \ {w} : SameWeek(d, y, x)
  BY <1>1, OtherWeeksSame
<1>4. Others(F, y, {w}) /\ y.visit = d.visit
  BY <1>1, <1>3, OthersCarry DEF Touches
<1>5. Others(F, y, {})
  BY <1>2, <1>4 DEF Others
<1> QED
  BY <1>4, <1>5 DEF y

LEMMA MovedGivesBack ==
    ASSUME NEW d, Good(d), Room(d), NEW from \in Week, NEW to \in Week, from # to,
           NEW F, Others(F, d, {from, to}),
           F[from] # Unknown => FoundLeft(d, from, F[from]), F[to] # Unknown => FoundHanded(d, to, F[to])
    PROVE LET y == circuitVisitMoved(d, from, to) IN
          Others(F, y, {to}) /\ (F[to] # Unknown => FoundHanded(y, to, F[to])) /\ y.visit = d.visit
<1> DEFINE y == circuitVisitMoved(d, from, to)
<1>1. PICK a : /\ Good(a) /\ Room(a) /\ HisGoes(d, a, from) /\ a.visit = d.visit
               /\ y = syncProgramToJournal(returnEntry(a, from), from, TRUE, FALSE)
               /\ \A x \in Week \ {from, to} : SameWeek(d, a, x)
               /\ \A who : \A e \in Ids \cup {NoEntry}, row \in Row :
                    Handed(d, to, who, e, row) => Handed(a, to, who, e, row)
  BY MovedIs
<1> HIDE DEF y
<1>2. F[from] # Unknown => FoundAsItWas(y, from, F[from])
  BY <1>1, GivesBack DEF FoundLeft, FoundAsItWas
<1>3. Touches(a, y, from)
  BY <1>1, ReturningTouches
<1>4. F[to] # Unknown => FoundHanded(a, to, F[to])
  BY <1>1 DEF FoundHanded
<1>5. Others(F, a, {from, to})
  BY <1>1, OthersCarry
<1>6. \A x \in Week \ {from} : SameWeek(a, y, x)
  BY <1>3, OtherWeeksSame
<1>7. y.visit = a.visit
  BY <1>3 DEF Touches
<1>8. F[to] # Unknown => FoundHanded(y, to, F[to])
  BY <1>1, <1>4, <1>6, <1>7, FoundCarries
<1>9. Others(F, y, {from, to})
  BY <1>1, <1>5, <1>6, OthersCarry
<1>10. Others(F, y, {to})
  BY <1>2, <1>9 DEF Others
<1> QED
  BY <1>1, <1>7, <1>8, <1>10 DEF y

----------------------------------------------------------------------------
(* What a request of a visit has still to do, and where the weeks it found  *)
(* stand by then.  Any other request begins by forgetting what was found.   *)

Saves(v) == [call |-> "saveVisit", v |-> v]
Reverts(v) == [call |-> "revert", v |-> v]
MovesOn(from, to) == [call |-> "visitMoved", from |-> from, to |-> to]

OneHanded(F, d, w) == Others(F, d, {w}) /\ (F[w] # Unknown => FoundHanded(d, w, F[w]))
OneLeft(F, d, w) == Others(F, d, {w}) /\ (F[w] # Unknown => FoundLeft(d, w, F[w]))

Coming(F, d, t) ==
    \E w \in Week :
      /\ visitOfWeek(d, w)
      /\ \/ t = <<On("template", w), On("applied", w)>> /\ Forgotten(d.visit) /\ Others(F, d, {})
         \/ t = <<On("applied", w)>> /\ OneHanded(F, d, w)
Saving(F, d, t) ==
    \E w \in Week :
      /\ visitOfWeek(d, w) /\ Rests(F, d)
      /\ \/ t = <<Saves(d.visit), On("template", w), On("speaker", w), On("applied", w)>>
         \/ t = <<On("template", w), On("speaker", w), On("applied", w)>>
         \/ t = <<On("speaker", w), On("applied", w)>>
Going(F, d, t) ==
    \E w \in Week :
      /\ visitOfWeek(d, w)
      /\ \/ t = <<Reverts(d.visit), On("visitRemoved", w), Deleted>> /\ Rests(F, d)
         \/ t = <<On("visitRemoved", w), Deleted>> /\ Forgotten(d.visit) /\ OneLeft(F, d, w)
         \/ t = <<Deleted>> /\ Forgotten(d.visit) /\ Others(F, d, {})
Moving(F, d, t) ==
    \E from \in Week, to \in Week :
      /\ from # to
      /\ \/ \E v \in Visit :
              /\ v.at = "on" /\ v.week = to /\ Forgotten(v)
              /\ \/ /\ t = <<Reverts(d.visit), Saves(v), On("template", to), MovesOn(from, to), On("applied", to)>>
                    /\ visitOfWeek(d, from) /\ Rests(F, d)
                 \/ /\ t = <<Saves(v), On("template", to), MovesOn(from, to), On("applied", to)>>
                    /\ OneLeft(F, d, from)
         \/ /\ t = <<On("template", to), MovesOn(from, to), On("applied", to)>>
            /\ visitOfWeek(d, to) /\ Forgotten(d.visit) /\ OneLeft(F, d, from)
         \/ /\ t = <<MovesOn(from, to), On("applied", to)>>
            /\ visitOfWeek(d, to) /\ Others(F, d, {from, to})
            /\ F[from] # Unknown => FoundLeft(d, from, F[from])
            /\ F[to] # Unknown => FoundHanded(d, to, F[to])

\* Another request's calls leave the visit's own alone.
Nothing(F) == \A x \in Week : F[x] = Unknown
OfVisits == {"saveVisit", "revert", "visitMoved", "visitRemoved", "deleteVisit"}
Plain(t) == \A i \in 1..Len(t) : t[i].call \notin OfVisits

Round(F, d, t) ==
    \/ Nothing(F) /\ Plain(t)
    \/ Coming(F, d, t) \/ Saving(F, d, t) \/ Going(F, d, t) \/ Moving(F, d, t)

----------------------------------------------------------------------------
(* A call of a visit, taken for what it does.                               *)

LEMMA DoneTurns ==
    ASSUME TalkInv, NEW r \in Requests, NEW d, Done(r, d)
    PROVE db' = d /\ job'[r].todo = Rest(r)
<1>1. job' = [job EXCEPT ![r] = IF Rest(r) = <<>> THEN Idle ELSE [job[r] EXCEPT !.todo = Rest(r)]]
      /\ db' = d
  BY DEF Done, Ends, Rest
<1>2. job \in [Requests -> Job] /\ job[r] \in Job
  BY DEF TalkInv, TypeOK
<1>3. job'[r] = IF Rest(r) = <<>> THEN Idle ELSE [job[r] EXCEPT !.todo = Rest(r)]
  BY <1>1, <1>2
<1>4. [job[r] EXCEPT !.todo = Rest(r)].todo = Rest(r)
  BY <1>2 DEF Job
<1>5. Idle.todo = <<>>
  BY DEF Idle
<1> HIDE DEF Rest
<1> QED
  BY <1>1, <1>3, <1>4, <1>5

LEMMA VisitCallsRun ==
    ASSUME TalkInv, NEW r \in Requests, Steps(r), NEW c, c = Args(r)
    PROVE /\ c.call \in OfVisits \cup {"template", "speaker", "applied"} => job'[r].todo = Rest(r)
          /\ c.call = "template" => db' = IF visitOfWeek(db, c.w) THEN templateApply(db) ELSE db
          /\ c.call = "speaker" => db' = syncSpeaker(db)
          /\ c.call = "applied" =>
               Room(db) /\ db' = IF programmeOpen(c.w) THEN circuitVisitApplied(db, c.w) ELSE db
          /\ c.call = "saveVisit" => db' = [db EXCEPT !.visit = c.v]
          /\ c.call = "revert" => db' = templateRevert(db, c.v)
          /\ c.call = "visitMoved" => Room(db) /\ db' = circuitVisitMoved(db, c.from, c.to)
          /\ c.call = "visitRemoved" => Room(db) /\ db' = circuitVisitRemoved(db, c.w)
          /\ c.call = "deleteVisit" => db' = [db EXCEPT !.visit.at = "gone"]
<1>1. Busy(r)
  BY StepGoesOn DEF GoesOn
<1>2. /\ c.call = "template" => RunTemplate(r)
      /\ c.call = "speaker" => RunSpeaker(r)
      /\ c.call = "applied" => RunApplied(r)
      /\ c.call = "saveVisit" => RunSaveVisit(r)
      /\ c.call = "revert" => RunRevert(r)
      /\ c.call = "visitMoved" => RunVisitMoved(r)
      /\ c.call = "visitRemoved" => RunVisitRemoved(r)
      /\ c.call = "deleteVisit" => DeleteVisit(r)
  BY DEF Steps, Doing, Args, RunApply, saveEntry, RunRelease, RunClear, RunDelete, RunFill, SaveLine,
     RunSync, moveWeekEntries, RunWrite, RunAdopt, RunName, RunTemplate, RunApplied, RunSaveVisit,
     RunSpeaker, RunRevert, RunVisitMoved, RunVisitRemoved, DeleteVisit
<1>3. c.call = "template" => db' = (IF visitOfWeek(db, c.w) THEN templateApply(db) ELSE db) /\ job'[r].todo = Rest(r)
  BY <1>2, DoneTurns DEF RunTemplate
<1>4. c.call = "speaker" => db' = syncSpeaker(db) /\ job'[r].todo = Rest(r)
  BY <1>2, DoneTurns DEF RunSpeaker
<1>5. c.call = "applied" => /\ Room(db) /\ job'[r].todo = Rest(r)
                            /\ db' = IF programmeOpen(c.w) THEN circuitVisitApplied(db, c.w) ELSE db
  BY <1>2, DoneTurns DEF RunApplied
<1>6. c.call = "saveVisit" => db' = [db EXCEPT !.visit = c.v] /\ job'[r].todo = Rest(r)
  BY <1>2, DoneTurns DEF RunSaveVisit
<1>7. c.call = "revert" => db' = templateRevert(db, c.v) /\ job'[r].todo = Rest(r)
  BY <1>2, DoneTurns DEF RunRevert
<1>8. c.call = "visitMoved" =>
        Room(db) /\ db' = circuitVisitMoved(db, c.from, c.to) /\ job'[r].todo = Rest(r)
  BY <1>2, DoneTurns DEF RunVisitMoved
<1>9. c.call = "visitRemoved" => Room(db) /\ db' = circuitVisitRemoved(db, c.w) /\ job'[r].todo = Rest(r)
  BY <1>2, DoneTurns DEF RunVisitRemoved
<1>10. c.call = "deleteVisit" => db' = [db EXCEPT !.visit.at = "gone"] /\ job'[r].todo = Rest(r)
  BY <1>2, DoneTurns DEF DeleteVisit
<1> QED
  BY <1>3, <1>4, <1>5, <1>6, <1>7, <1>8, <1>9, <1>10 DEF OfVisits

LEMMA LongTails ==
    \A p, q, u, a, b : /\ LET c == <<p, q, u, a, b>> IN c[1] = p /\ Tail(c) = <<q, u, a, b>>
                       /\ LET c == <<p, q, u, a>> IN c[1] = p /\ Tail(c) = <<q, u, a>>
OBVIOUS

\* How a request stands: its week or weeks in their stage, or its end and everything at rest.
Keeps(F, d, t) == VisitSound(d.visit) /\ IF t = <<>> THEN Rests(F, d) ELSE Round(F, d, t)
OpenFound == \A w \in Week : found[w] # Unknown => programmeOpen(w)

LEMMA AppliedEnds ==
    ASSUME TalkInv, NEW r \in Requests, Steps(r), VisitSound(db.visit), OpenFound,
           NEW w \in Week, visitOfWeek(db, w), job[r].todo = <<On("applied", w)>>, OneHanded(found, db, w)
    PROVE Keeps(found, db', job'[r].todo)
<1> DEFINE c == On("applied", w)
<1>1. c.call = "applied" /\ c.w = w
  BY DEF On
<1> HIDE DEF c
<1>2. Args(r) = c /\ Rest(r) = <<>>
  BY TailsOfThree DEF Args, Rest, c
<1>3. /\ Room(db) /\ job'[r].todo = <<>>
      /\ db' = IF programmeOpen(w) THEN circuitVisitApplied(db, w) ELSE db
  BY <1>1, <1>2, VisitCallsRun
<1>4. CASE programmeOpen(w)
  BY <1>3, <1>4, InvIsGood, AppliedRests DEF OneHanded, Keeps
<1>5. CASE ~programmeOpen(w)
  <2>1. found[w] = Unknown
    BY <1>5 DEF OpenFound
  <2> QED
    BY <1>3, <1>5, <2>1 DEF OneHanded, Keeps, Rests, visitOfWeek
<1> QED
  BY <1>4, <1>5

LEMMA ComingGoesOn ==
    ASSUME TalkInv, NEW r \in Requests, Steps(r), VisitSound(db.visit), OpenFound,
           Coming(found, db, job[r].todo)
    PROVE Keeps(found, db', job'[r].todo)
<1> PICK w \in Week :
      /\ visitOfWeek(db, w)
      /\ \/ /\ job[r].todo = <<On("template", w), On("applied", w)>> /\ Forgotten(db.visit)
            /\ Others(found, db, {})
         \/ job[r].todo = <<On("applied", w)>> /\ OneHanded(found, db, w)
  BY DEF Coming
<1>1. CASE job[r].todo = <<On("applied", w)>> /\ OneHanded(found, db, w)
  BY <1>1, AppliedEnds
<1>2. CASE /\ job[r].todo = <<On("template", w), On("applied", w)>> /\ Forgotten(db.visit)
           /\ Others(found, db, {})
  <2> DEFINE c == On("template", w)
             y == templateApply(db)
  <2>1. c.call = "template" /\ c.w = w
    BY DEF On
  <2> HIDE DEF c
  <2>2. Args(r) = c /\ Rest(r) = <<On("applied", w)>>
    BY <1>2, TailsOfThree DEF Args, Rest, c
  <2>3. job'[r].todo = <<On("applied", w)>> /\ db' = y
    BY <2>1, <2>2, VisitCallsRun
  <2>4. /\ Others(found, y, {} \cup {w}) /\ (found[w] # Unknown => FoundHanded(y, w, found[w]))
        /\ VisitSound(y.visit) /\ visitOfWeek(y, w)
    BY <1>2, InvIsGood, TemplateComes DEF OpenFound
  <2> HIDE DEF y
  <2>5. OneHanded(found, y, w)
    BY <2>4 DEF OneHanded
  <2>6. Coming(found, y, <<On("applied", w)>>)
    BY <2>4, <2>5 DEF Coming
  <2> QED
    BY <2>3, <2>4, <2>6 DEF Keeps, Round
<1> QED
  BY <1>1, <1>2

LEMMA SavingGoesOn ==
    ASSUME TalkInv, NEW r \in Requests, Steps(r), VisitSound(db.visit), OpenFound,
           Saving(found, db, job[r].todo)
    PROVE Keeps(found, db', job'[r].todo)
<1> PICK w \in Week :
      /\ visitOfWeek(db, w) /\ Rests(found, db)
      /\ \/ job[r].todo = <<Saves(db.visit), On("template", w), On("speaker", w), On("applied", w)>>
         \/ job[r].todo = <<On("template", w), On("speaker", w), On("applied", w)>>
         \/ job[r].todo = <<On("speaker", w), On("applied", w)>>
  BY DEF Saving
<1>0. Good(db) /\ db \in Database
  BY InvIsGood
<1>1. CASE job[r].todo = <<Saves(db.visit), On("template", w), On("speaker", w), On("applied", w)>>
  <2> DEFINE c == Saves(db.visit)
             t == <<On("template", w), On("speaker", w), On("applied", w)>>
  <2>1. c.call = "saveVisit" /\ c.v = db.visit
    BY DEF Saves
  <2> HIDE DEF c
  <2>2. Args(r) = c /\ Rest(r) = t
    BY <1>1, LongTails DEF Args, Rest, c
  <2>3. job'[r].todo = t /\ db' = [db EXCEPT !.visit = db.visit]
    BY <2>1, <2>2, VisitCallsRun DEF OfVisits
  <2>4. db' = db
    BY <1>0, <2>3 DEF Database
  <2>5. Saving(found, db, t)
    BY DEF Saving
  <2> QED
    BY <2>3, <2>4, <2>5 DEF Keeps, Round
<1>2. CASE job[r].todo = <<On("template", w), On("speaker", w), On("applied", w)>>
  <2> DEFINE c == On("template", w)
             t == <<On("speaker", w), On("applied", w)>>
             y == templateApply(db)
  <2>1. c.call = "template" /\ c.w = w
    BY DEF On
  <2> HIDE DEF c
  <2>2. Args(r) = c /\ Rest(r) = t
    BY <1>2, TailsOfThree DEF Args, Rest, c
  <2>3. job'[r].todo = t /\ db' = y
    BY <2>1, <2>2, VisitCallsRun
  <2>4. Rests(found, y) /\ VisitSound(y.visit) /\ visitOfWeek(y, w)
    BY <1>0, TemplateRests
  <2> HIDE DEF y
  <2>5. Saving(found, y, t)
    BY <2>4 DEF Saving
  <2> QED
    BY <2>3, <2>4, <2>5 DEF Keeps, Round
<1>3. CASE job[r].todo = <<On("speaker", w), On("applied", w)>>
  <2> DEFINE c == On("speaker", w)
             t == <<On("applied", w)>>
             y == syncSpeaker(db)
  <2>1. c.call = "speaker" /\ c.w = w
    BY DEF On
  <2> HIDE DEF c
  <2>2. Args(r) = c /\ Rest(r) = t
    BY <1>3, TailsOfThree DEF Args, Rest, c
  <2>3. job'[r].todo = t /\ db' = y
    BY <2>1, <2>2, VisitCallsRun
  <2>4. OneHanded(found, y, w) /\ y.visit = db.visit
    BY <1>0, SpeakerComes DEF OneHanded
  <2> HIDE DEF y
  <2>5. Coming(found, y, t)
    BY <2>4 DEF Coming, visitOfWeek
  <2> QED
    BY <2>3, <2>4, <2>5 DEF Keeps, Round
<1> QED
  BY <1>1, <1>2, <1>3

LEMMA GoingGoesOn ==
    ASSUME TalkInv, NEW r \in Requests, Steps(r), VisitSound(db.visit), Going(found, db, job[r].todo)
    PROVE Keeps(found, db', job'[r].todo)
<1> PICK w \in Week :
      /\ visitOfWeek(db, w)
      /\ \/ job[r].todo = <<Reverts(db.visit), On("visitRemoved", w), Deleted>> /\ Rests(found, db)
         \/ job[r].todo = <<On("visitRemoved", w), Deleted>> /\ Forgotten(db.visit) /\ OneLeft(found, db, w)
         \/ job[r].todo = <<Deleted>> /\ Forgotten(db.visit) /\ Others(found, db, {})
  BY DEF Going
<1>0. Good(db) /\ db \in Database
  BY InvIsGood
<1>1. CASE job[r].todo = <<Reverts(db.visit), On("visitRemoved", w), Deleted>> /\ Rests(found, db)
  <2> DEFINE c == Reverts(db.visit)
             t == <<On("visitRemoved", w), Deleted>>
             y == templateRevert(db, db.visit)
  <2>1. c.call = "revert" /\ c.v = db.visit
    BY DEF Reverts
  <2> HIDE DEF c
  <2>2. Args(r) = c /\ Rest(r) = t
    BY <1>1, TailsOfThree DEF Args, Rest, c
  <2>3. job'[r].todo = t /\ db' = y
    BY <2>1, <2>2, VisitCallsRun DEF OfVisits
  <2>4. OneLeft(found, y, w) /\ Forgotten(y.visit) /\ visitOfWeek(y, w)
    BY <1>0, <1>1, RevertGoes DEF OneLeft
  <2> HIDE DEF y
  <2>5. Going(found, y, t)
    BY <2>4 DEF Going
  <2> QED
    BY <2>3, <2>4, <2>5 DEF Keeps, Round, VisitSound, Forgotten
<1>2. CASE job[r].todo = <<On("visitRemoved", w), Deleted>> /\ Forgotten(db.visit) /\ OneLeft(found, db, w)
  <2> DEFINE c == On("visitRemoved", w)
             t == <<Deleted>>
             y == circuitVisitRemoved(db, w)
  <2>1. c.call = "visitRemoved" /\ c.w = w
    BY DEF On
  <2> HIDE DEF c
  <2>2. Args(r) = c /\ Rest(r) = t
    BY <1>2, TailsOfThree DEF Args, Rest, c
  <2>3. job'[r].todo = t /\ Room(db) /\ db' = y
    BY <2>1, <2>2, VisitCallsRun DEF OfVisits
  <2>4. Others(found, y, {}) /\ y.visit = db.visit
    BY <1>0, <1>2, <2>3, RemovedGivesBack DEF OneLeft
  <2> HIDE DEF y
  <2>5. Going(found, y, t)
    BY <1>2, <2>4 DEF Going, visitOfWeek
  <2> QED
    BY <2>3, <2>4, <2>5 DEF Keeps, Round
<1>3. CASE job[r].todo = <<Deleted>> /\ Forgotten(db.visit) /\ Others(found, db, {})
  <2> DEFINE y == [db EXCEPT !.visit.at = "gone"]
  <2>1. Args(r) = Deleted /\ Rest(r) = <<>>
    BY <1>3, TailsOfThree DEF Args, Rest
  <2>2. job'[r].todo = <<>> /\ db' = y
    BY <2>1, VisitCallsRun DEF Deleted, OfVisits
  <2>3. y.entry = db.entry /\ y.line = db.line /\ y.visit = [db.visit EXCEPT !.at = "gone"] /\ db.visit \in Visit
    BY <1>0 DEF Database
  <2>4. y.visit.at = "gone" /\ Forgotten(y.visit)
    BY <1>3, <2>3 DEF Forgotten, Visit
  <2> HIDE DEF y
  <2>5. \A x \in Week : SameWeek(db, y, x)
    BY <2>3, EntriesSame DEF SameWeek
  <2>6. Others(found, y, {})
    BY <1>0, <1>3, <2>5, OthersCarry
  <2> QED
    BY <2>2, <2>4, <2>6 DEF Keeps, Rests, VisitSound, Forgotten
<1> QED
  BY <1>1, <1>2, <1>3

LEMMA MovingGoesOn ==
    ASSUME TalkInv, NEW r \in Requests, Steps(r), VisitSound(db.visit), OpenFound,
           Moving(found, db, job[r].todo)
    PROVE Keeps(found, db', job'[r].todo)
<1> PICK from \in Week, to \in Week :
      /\ from # to
      /\ \/ \E v \in Visit :
              /\ v.at = "on" /\ v.week = to /\ Forgotten(v)
              /\ \/ /\ job[r].todo = <<Reverts(db.visit), Saves(v), On("template", to), MovesOn(from, to),
                                       On("applied", to)>>
                    /\ visitOfWeek(db, from) /\ Rests(found, db)
                 \/ /\ job[r].todo = <<Saves(v), On("template", to), MovesOn(from, to), On("applied", to)>>
                    /\ OneLeft(found, db, from)
         \/ /\ job[r].todo = <<On("template", to), MovesOn(from, to), On("applied", to)>>
            /\ visitOfWeek(db, to) /\ Forgotten(db.visit) /\ OneLeft(found, db, from)
         \/ /\ job[r].todo = <<MovesOn(from, to), On("applied", to)>>
            /\ visitOfWeek(db, to) /\ Others(found, db, {from, to})
            /\ found[from] # Unknown => FoundLeft(db, from, found[from])
            /\ found[to] # Unknown => FoundHanded(db, to, found[to])
  BY DEF Moving
<1>0. Good(db) /\ db \in Database
  BY InvIsGood
<1>1. ASSUME NEW v \in Visit, v.at = "on", v.week = to, Forgotten(v), visitOfWeek(db, from), Rests(found, db),
             job[r].todo = <<Reverts(db.visit), Saves(v), On("template", to), MovesOn(from, to), On("applied", to)>>
      PROVE Keeps(found, db', job'[r].todo)
  <2> DEFINE c == Reverts(db.visit)
             t == <<Saves(v), On("template", to), MovesOn(from, to), On("applied", to)>>
             y == templateRevert(db, db.visit)
  <2>1. c.call = "revert" /\ c.v = db.visit
    BY DEF Reverts
  <2> HIDE DEF c
  <2>2. Args(r) = c /\ Rest(r) = t
    BY <1>1, LongTails DEF Args, Rest, c
  <2>3. job'[r].todo = t /\ db' = y
    BY <2>1, <2>2, VisitCallsRun DEF OfVisits
  <2>4. OneLeft(found, y, from) /\ Forgotten(y.visit)
    BY <1>0, <1>1, RevertGoes DEF OneLeft
  <2> HIDE DEF y
  <2>5. Moving(found, y, t)
    BY <1>1, <2>4 DEF Moving
  <2> QED
    BY <2>3, <2>4, <2>5 DEF Keeps, Round, VisitSound, Forgotten
<1>2. ASSUME NEW v \in Visit, v.at = "on", v.week = to, Forgotten(v), OneLeft(found, db, from),
             job[r].todo = <<Saves(v), On("template", to), MovesOn(from, to), On("applied", to)>>
      PROVE Keeps(found, db', job'[r].todo)
  <2> DEFINE c == Saves(v)
             t == <<On("template", to), MovesOn(from, to), On("applied", to)>>
             y == [db EXCEPT !.visit = v]
  <2>1. c.call = "saveVisit" /\ c.v = v
    BY DEF Saves
  <2> HIDE DEF c
  <2>2. Args(r) = c /\ Rest(r) = t
    BY <1>2, LongTails DEF Args, Rest, c
  <2>3. job'[r].todo = t /\ db' = y
    BY <2>1, <2>2, VisitCallsRun DEF OfVisits
  <2>4. y.entry = db.entry /\ y.line = db.line /\ y.visit = v
    BY <1>0 DEF Database
  <2> HIDE DEF y
  <2>5. \A x \in Week : SameWeek(db, y, x)
    BY <2>4, EntriesSame DEF SameWeek
  <2>6. OneLeft(found, y, from)
    BY <1>0, <1>2, <2>5, OthersCarry, FoundCarries DEF OneLeft
  <2>7. Moving(found, y, t)
    BY <1>2, <2>4, <2>6 DEF Moving, visitOfWeek
  <2> QED
    BY <1>2, <2>3, <2>4, <2>7 DEF Keeps, Round, VisitSound, Forgotten
<1>3. CASE /\ job[r].todo = <<On("template", to), MovesOn(from, to), On("applied", to)>>
           /\ visitOfWeek(db, to) /\ Forgotten(db.visit) /\ OneLeft(found, db, from)
  <2> DEFINE c == On("template", to)
             t == <<MovesOn(from, to), On("applied", to)>>
             y == templateApply(db)
  <2>1. c.call = "template" /\ c.w = to
    BY DEF On
  <2> HIDE DEF c
  <2>2. Args(r) = c /\ Rest(r) = t
    BY <1>3, TailsOfThree DEF Args, Rest, c
  <2>3. job'[r].todo = t /\ db' = y
    BY <1>3, <2>1, <2>2, VisitCallsRun
  <2>4. /\ Others(found, y, {from} \cup {to}) /\ (found[to] # Unknown => FoundHanded(y, to, found[to]))
        /\ VisitSound(y.visit) /\ visitOfWeek(y, to) /\ SameWeek(db, y, from)
    BY <1>0, <1>3, TemplateComes DEF OpenFound, OneLeft
  <2> HIDE DEF y
  <2>5. found[from] # Unknown => FoundLeft(y, from, found[from])
    BY <1>0, <1>3, <2>4, FoundCarries DEF OneLeft
  <2>6. {from} \cup {to} = {from, to}
    OBVIOUS
  <2>7. Moving(found, y, t)
    BY <2>4, <2>5, <2>6 DEF Moving
  <2> QED
    BY <2>3, <2>4, <2>7 DEF Keeps, Round
<1>4. CASE /\ job[r].todo = <<MovesOn(from, to), On("applied", to)>>
           /\ visitOfWeek(db, to) /\ Others(found, db, {from, to})
           /\ found[from] # Unknown => FoundLeft(db, from, found[from])
           /\ found[to] # Unknown => FoundHanded(db, to, found[to])
  <2> DEFINE c == MovesOn(from, to)
             t == <<On("applied", to)>>
             y == circuitVisitMoved(db, from, to)
  <2>1. c.call = "visitMoved" /\ c.from = from /\ c.to = to
    BY DEF MovesOn
  <2> HIDE DEF c
  <2>2. Args(r) = c /\ Rest(r) = t
    BY <1>4, TailsOfThree DEF Args, Rest, c
  <2>3. job'[r].todo = t /\ Room(db) /\ db' = y
    BY <2>1, <2>2, VisitCallsRun DEF OfVisits
  <2>4. OneHanded(found, y, to) /\ y.visit = db.visit
    BY <1>0, <1>4, <2>3, MovedGivesBack DEF OneHanded
  <2> HIDE DEF y
  <2>5. Coming(found, y, t)
    BY <1>4, <2>4 DEF Coming, visitOfWeek
  <2> QED
    BY <2>3, <2>4, <2>5 DEF Keeps, Round
<1> QED
  BY <1>1, <1>2, <1>3, <1>4

----------------------------------------------------------------------------
(* The calls of other requests: none of them touches what the visit         *)
(* remembers, but the template's, which hands over once for all of them.    *)

Whole(d) == "visit" \in DOMAIN d
Beside(d, y) == DOMAIN y = DOMAIN d /\ y.visit = d.visit

LEMMA WholeIs ==
    ASSUME NEW d \in Database
    PROVE Whole(d) /\ Beside(d, d)
BY DEF Database, Whole, Beside

LEMMA WritesBeside ==
    ASSUME NEW d, Whole(d)
    PROVE /\ \A e, row : Beside(d, Put(d, e, row))
          /\ \A w, l : Beside(d, SetLine(d, w, l))
          /\ \A e : Beside(d, softDelete(d, e)) /\ Beside(d, Undelete(d, e))
          /\ \A e, x : Beside(d, [d EXCEPT !.entry[e].off = x]) /\ Beside(d, [d EXCEPT !.entry[e].who = x])
                       /\ Beside(d, [d EXCEPT !.entry[e].hand = x])
<1>1. \A e, row : Beside(d, Put(d, e, row))
  BY DEF Put, Whole, Beside
<1>2. \A e : Beside(d, Undelete(d, e))
  BY <1>1 DEF Undelete
<1>3. \A w, l : Beside(d, SetLine(d, w, l))
  BY DEF SetLine, Whole, Beside
<1>4. \A e : Beside(d, softDelete(d, e))
  BY DEF softDelete, Whole, Beside
<1>5. \A e, x : Beside(d, [d EXCEPT !.entry[e].off = x]) /\ Beside(d, [d EXCEPT !.entry[e].who = x])
                /\ Beside(d, [d EXCEPT !.entry[e].hand = x])
  BY DEF Whole, Beside
<1> QED
  BY <1>1, <1>2, <1>3, <1>4, <1>5

LEMMA BesideOn ==
    ASSUME NEW d, NEW y, NEW z, Beside(d, y), Beside(y, z)
    PROVE Beside(d, z)
BY DEF Beside

LEMMA BesideWhole ==
    ASSUME NEW d, NEW y, Beside(d, y), Whole(d)
    PROVE Whole(y)
BY DEF Beside, Whole

LEMMA ApplyBeside ==
    ASSUME NEW d, Whole(d)
    PROVE /\ \A e, row, ow : Beside(d, applyIncomingToProgram(d, e, row, ow))
          /\ \A e : Beside(d, ApplyNow(d, e))
          /\ \A w : Beside(d, fillEmptySlot(d, w))
          /\ \A e, row : Beside(d, clearProgramSlot(d, e, row))
          /\ \A w, e : Beside(d, releaseLine(d, w, e))
<1>0. Beside(d, d)
  BY DEF Beside
<1>1. \A e, row, ow : Beside(d, applyIncomingToProgram(d, e, row, ow))
  BY <1>0, WritesBeside DEF applyIncomingToProgram
<1>2. \A e : Beside(d, ApplyNow(d, e))
  BY <1>1 DEF ApplyNow
<1>3. \A w : Beside(d, fillEmptySlot(d, w))
  BY <1>0, <1>2 DEF fillEmptySlot
<1>4. \A e, row : Beside(d, clearProgramSlot(d, e, row))
  BY <1>0, WritesBeside DEF clearProgramSlot
<1>5. \A w, e : Beside(d, releaseLine(d, w, e))
  BY <1>0, <1>4 DEF releaseLine
<1> QED
  BY <1>1, <1>2, <1>3, <1>4, <1>5

LEMMA MirrorBeside ==
    ASSUME NEW d, Whole(d), NEW w, NEW e
    PROVE Beside(d, Emptied(d, w, e)) /\ Beside(d, Mirrored(d, w, e))
<1>0. Beside(d, d)
  BY DEF Beside
<1>1. Beside(d, Emptied(d, w, e))
  BY <1>0, WritesBeside DEF Emptied
<1>2. Beside(d, Mirrored(d, w, e))
  <2> DEFINE x == IF e = NoEntry THEN NewId(d) ELSE e
             y == IF e = NoEntry THEN Put(d, x, NewRow(w, d.line[w].who, "app"))
                  ELSE [d EXCEPT !.entry[e].who = d.line[w].who]
             l == [d.line[w] EXCEPT !.link = x]
  <2>1. Beside(d, y)
    BY WritesBeside
  <2> HIDE DEF y
  <2>2. Beside(y, SetLine(y, w, l))
    BY <2>1, WritesBeside, BesideWhole
  <2>3. Mirrored(d, w, e) = IF programmeOpen(w) THEN SetLine(y, w, l) ELSE y
    BY DEF Mirrored, y
  <2> QED
    BY <2>1, <2>2, <2>3, BesideOn
<1> QED
  BY <1>1, <1>2

LEMMA SyncBeside ==
    ASSUME NEW d, Whole(d), NEW w, NEW changed, NEW restored
    PROVE Beside(d, syncProgramToJournal(d, w, changed, restored))
<1> DEFINE x == LineRestored(d, w, restored)
           e == weekEntry(x, w)
           y == [x EXCEPT !.entry[e].off = FALSE]
           s == syncProgramToJournal(d, w, changed, restored)
<1>1. Beside(d, x)
  BY WritesBeside DEF LineRestored, Beside
<1>2. s = CASE Seen(x.line[w]) /\ x.line[w].at = "cancelled" ->
                 IF e = NoEntry THEN x ELSE [x EXCEPT !.entry[e].off = TRUE]
            [] e # NoEntry /\ x.entry[e].off /\ ~weekCancelled(x, w) -> ApplyNow(y, e)
            [] OTHER ->
                 IF ~changed
                 THEN IF e # NoEntry /\ (x.line[w].link # e \/ x.line[w].who = NoOne) THEN ApplyNow(x, e) ELSE x
                 ELSE IF ~Seen(x.line[w]) \/ x.line[w].who = NoOne THEN Emptied(x, w, e) ELSE Mirrored(x, w, e)
  BY DEF syncProgramToJournal
<1> HIDE DEF x, s
<1>3. Whole(x) /\ Beside(x, x)
  BY <1>1, BesideWhole DEF Beside
<1> HIDE DEF e
<1>4. Beside(x, y)
  BY <1>3, WritesBeside
<1> HIDE DEF y
<1>5. Beside(x, ApplyNow(y, e))
  <2>1. Beside(y, ApplyNow(y, e))
    BY <1>3, <1>4, BesideWhole, ApplyBeside
  <2> QED
    BY <1>4, <2>1, BesideOn
<1>6. Beside(x, [x EXCEPT !.entry[e].off = TRUE])
  BY <1>3, WritesBeside
<1>7. Beside(x, ApplyNow(x, e)) /\ Beside(x, Emptied(x, w, e)) /\ Beside(x, Mirrored(x, w, e))
  BY <1>3, ApplyBeside, MirrorBeside
<1>8. Beside(x, s)
  BY <1>2, <1>3, <1>5, <1>6, <1>7
<1> QED
  BY <1>1, <1>8, BesideOn DEF s

LEMMA PlainRest ==
    ASSUME NEW t \in Seq(Call), t # <<>>, Plain(t)
    PROVE Plain(Tail(t)) /\ t[1].call \notin OfVisits
<1>1. Len(t) \in Nat /\ Len(t) >= 1 /\ Len(Tail(t)) = Len(t) - 1
      /\ \A i \in 1..Len(Tail(t)) : Tail(t)[i] = t[i + 1]
  OBVIOUS
<1>2. \A i \in 1..Len(Tail(t)) : i + 1 \in 1..Len(t)
  BY <1>1
<1> QED
  BY <1>1, <1>2 DEF Plain

LEMMA ShortListsPlain ==
    ASSUME NEW a, NEW b, NEW c, NEW e, a.call \notin OfVisits
    PROVE /\ Plain(<<>>) /\ Plain(<<a>>)
          /\ b.call \notin OfVisits => Plain(<<a, b>>)
          /\ b.call \notin OfVisits /\ c.call \notin OfVisits => Plain(<<a, b, c>>)
          /\ b.call \notin OfVisits /\ c.call \notin OfVisits /\ e.call \notin OfVisits => Plain(<<a, b, c, e>>)
<1>1. Len(<<>>) = 0 /\ Len(<<a>>) = 1 /\ Len(<<a, b>>) = 2 /\ Len(<<a, b, c>>) = 3 /\ Len(<<a, b, c, e>>) = 4
  OBVIOUS
<1>2. 1..0 = {} /\ 1..1 = {1} /\ 1..2 = {1, 2} /\ 1..3 = {1, 2, 3} /\ 1..4 = {1, 2, 3, 4}
  OBVIOUS
<1>3. /\ <<a>>[1] = a
      /\ LET t == <<a, b>> IN t[1] = a /\ t[2] = b
      /\ LET t == <<a, b, c>> IN t[1] = a /\ t[2] = b /\ t[3] = c
      /\ LET t == <<a, b, c, e>> IN t[1] = a /\ t[2] = b /\ t[3] = c /\ t[4] = e
  OBVIOUS
<1> QED
  BY <1>1, <1>2, <1>3 DEF Plain

LEMMA NonePlain == Plain(<<>>) /\ <<>> \in Seq(Call)
<1>1. Len(<<>>) = 0 /\ 1..0 = {} /\ <<>> \in Seq(Call)
  OBVIOUS
<1> QED
  BY <1>1 DEF Plain

LEMMA OnePlain ==
    ASSUME NEW a, a.call \notin OfVisits
    PROVE Plain(<<a>>)
BY ShortListsPlain

LEMMA JoinedPlain ==
    ASSUME NEW s \in Seq(Call), NEW t \in Seq(Call), Plain(s), Plain(t)
    PROVE Plain(s \o t)
<1>1. Len(s) \in Nat /\ Len(t) \in Nat /\ Len(s \o t) = Len(s) + Len(t)
  OBVIOUS
<1>2. ASSUME NEW i \in 1..(Len(s) + Len(t))
      PROVE (s \o t)[i].call \notin OfVisits
  <2>1. CASE i <= Len(s)
    <3>1. i \in 1..Len(s) /\ (s \o t)[i] = s[i]
      BY <1>1, <2>1
    <3> QED
      BY <3>1 DEF Plain
  <2>2. CASE i > Len(s)
    <3>1. i - Len(s) \in 1..Len(t) /\ (s \o t)[i] = t[i - Len(s)]
      BY <1>1, <2>2
    <3> QED
      BY <3>1 DEF Plain
  <2> QED
    BY <1>1, <2>1, <2>2
<1> QED
  BY <1>1, <1>2 DEF Plain

LEMMA EndsTurns ==
    ASSUME TalkInv, NEW r \in Requests, NEW d, NEW calls, Ends(r, d, calls)
    PROVE db' = d /\ job'[r].todo = calls
<1>1. job' = [job EXCEPT ![r] = IF calls = <<>> THEN Idle ELSE [job[r] EXCEPT !.todo = calls]] /\ db' = d
  BY DEF Ends
<1>2. job \in [Requests -> Job] /\ job[r] \in Job
  BY DEF TalkInv, TypeOK
<1>3. job'[r] = IF calls = <<>> THEN Idle ELSE [job[r] EXCEPT !.todo = calls]
  BY <1>1, <1>2
<1>4. [job[r] EXCEPT !.todo = calls].todo = calls
  BY <1>2 DEF Job
<1>5. Idle.todo = <<>>
  BY DEF Idle
<1> QED
  BY <1>1, <1>3, <1>4, <1>5

\* A call that is none of the visit's own leaves what the visit remembers sound.
PlainlyOn(r) ==
    VisitSound(db'.visit) /\ (job'[r].todo = Rest(r) \/ Plain(job'[r].todo))

LEMMA BesideIsPlain ==
    ASSUME TalkInv, VisitSound(db.visit), NEW r \in Requests, NEW d, Beside(db, d), Done(r, d)
    PROVE PlainlyOn(r)
BY DoneTurns DEF PlainlyOn, Beside

LEMMA PlainJournalCalls ==
    ASSUME TalkInv, VisitSound(db.visit), NEW r \in Requests,
           RunApply(r) \/ RunRelease(r) \/ RunClear(r) \/ RunDelete(r) \/ RunWrite(r) \/ RunAdopt(r)
    PROVE PlainlyOn(r)
<1>0. Whole(db) /\ Beside(db, db)
  BY InvIsGood, WholeIs
<1>1. CASE RunApply(r)
  BY <1>0, <1>1, ApplyBeside, BesideIsPlain DEF RunApply
<1>2. CASE RunRelease(r)
  BY <1>0, <1>2, ApplyBeside, BesideIsPlain DEF RunRelease
<1>3. CASE RunClear(r)
  BY <1>0, <1>3, ApplyBeside, BesideIsPlain DEF RunClear
<1>4. CASE RunDelete(r)
  BY <1>0, <1>4, WritesBeside, BesideIsPlain DEF RunDelete
<1>5. CASE RunWrite(r)
  BY <1>0, <1>5, WritesBeside, BesideIsPlain DEF RunWrite
<1>6. CASE RunAdopt(r)
  BY <1>0, <1>6, WritesBeside, BesideIsPlain DEF RunAdopt
<1> QED
  BY <1>1, <1>2, <1>3, <1>4, <1>5, <1>6

LEMMA PlainSaveEntry ==
    ASSUME TalkInv, VisitSound(db.visit), NEW r \in Requests, saveEntry(r)
    PROVE PlainlyOn(r)
<1> DEFINE c == Args(r)
           left == Standing(c.was) /\ (~c.row.held \/ c.row.week # c.was.week)
           release == [call |-> "release", w |-> c.was.week, e |-> c.e]
           calls == (IF left THEN <<release>> ELSE <<>>) \o <<Apply(c.e, c.row, c.ow)>>
<1>0. Whole(db) /\ Beside(db, db)
  BY InvIsGood, WholeIs
<1>1. Ends(r, db, <<>>) \/ Ends(r, Put(db, c.e, c.row), calls)
  BY DEF saveEntry
<1>2. Plain(calls)
  <2> DEFINE a == Apply(c.e, c.row, c.ow)
             first == IF left THEN <<release>> ELSE <<>>
  <2>1. Busy(r) /\ c.call = "saveEntry"
    BY DEF saveEntry, Doing, Args
  <2>2. c.e \in Ids /\ c.row \in Row /\ c.ow \in BOOLEAN /\ c.was.week \in Week
    BY <2>1, HeadIs, CallFields DEF Row
  <2>3. a \in Call /\ release \in Call /\ a.call \notin OfVisits /\ release.call \notin OfVisits
    BY <2>2, WeekCalls, EntryCalls DEF Apply, OfVisits
  <2>4. calls = first \o <<a>>
    OBVIOUS
  <2> HIDE DEF release, calls, a, left
  <2>5. <<release>> \in Seq(Call) /\ Plain(<<release>>) /\ <<a>> \in Seq(Call) /\ Plain(<<a>>)
    BY <2>3, ListOfOne, OnePlain
  <2>6. <<>> \in Seq(Call) /\ Plain(<<>>)
    BY NonePlain
  <2>7. first \in Seq(Call) /\ Plain(first)
    BY <2>5, <2>6
  <2> HIDE DEF first
  <2> QED
    BY <2>4, <2>5, <2>7, JoinedPlain
<1>3. Plain(<<>>)
  BY DEF Plain
<1>4. Beside(db, Put(db, c.e, c.row))
  BY <1>0, WritesBeside
<1> HIDE DEF calls, c
<1> QED
  BY <1>1, <1>2, <1>3, <1>4, EndsTurns DEF PlainlyOn, Beside

LEMMA PlainLineCalls ==
    ASSUME TalkInv, VisitSound(db.visit), NEW r \in Requests,
           RunFill(r) \/ SaveLine(r) \/ RunSync(r) \/ moveWeekEntries(r) \/ RunName(r)
    PROVE PlainlyOn(r)
<1>0. Whole(db) /\ Beside(db, db)
  BY InvIsGood, WholeIs
<1>1. CASE RunFill(r)
  BY <1>0, <1>1, ApplyBeside, BesideIsPlain DEF RunFill
<1>2. CASE SaveLine(r)
  BY <1>0, <1>2, WritesBeside, BesideIsPlain DEF SaveLine
<1>3. CASE RunSync(r)
  BY <1>0, <1>3, SyncBeside, BesideIsPlain DEF RunSync
<1>4. CASE moveWeekEntries(r)
  <2> DEFINE c == Args(r)
             d == MovedTo(db, c.e, c.to)
             m == MovedTo(d, c.x, c.from)
  <2>1. Beside(db, d)
    BY <1>0, WritesBeside DEF MovedTo
  <2>2. Beside(d, m)
    <3> HIDE DEF d
    <3>1. Whole(d) /\ Beside(d, d)
      BY <1>0, <2>1, BesideWhole DEF Beside
    <3> QED
      BY <3>1, WritesBeside DEF MovedTo
  <2>3. Ends(r, db, <<>>) \/ Done(r, m)
    BY <1>4 DEF moveWeekEntries, Moved
  <2> HIDE DEF d, m
  <2>4. Beside(db, m)
    BY <2>1, <2>2, BesideOn
  <2>5. Plain(<<>>)
    BY DEF Plain
  <2>6. CASE Ends(r, db, <<>>)
    BY <2>5, <2>6, EndsTurns DEF PlainlyOn
  <2> QED
    BY <2>3, <2>4, <2>6, BesideIsPlain
<1>5. CASE RunName(r)
  BY <1>0, <1>5, WritesBeside, BesideIsPlain DEF RunName
<1> QED
  BY <1>1, <1>2, <1>3, <1>4, <1>5

LEMMA PlainVisitCalls ==
    ASSUME TalkInv, VisitSound(db.visit), NEW r \in Requests, RunTemplate(r) \/ RunApplied(r) \/ RunSpeaker(r)
    PROVE PlainlyOn(r)
<1>0. Good(db)
  BY InvIsGood
<1>1. CASE RunTemplate(r)
  <2> DEFINE y == templateApply(db)
             d == IF visitOfWeek(db, Args(r).w) THEN y ELSE db
  <2>1. y.visit = db.visit \/ (y.visit.at = "on" /\ y.visit.done)
    BY <1>0, TemplateIs
  <2>2. VisitSound(d.visit)
    BY <2>1 DEF VisitSound
  <2> HIDE DEF d
  <2>3. Done(r, d)
    BY <1>1 DEF RunTemplate, d
  <2> QED
    BY <2>2, <2>3, DoneTurns DEF PlainlyOn
<1>2. CASE RunApplied(r)
  <2> DEFINE w == Args(r).w
             y == circuitVisitApplied(db, w)
             d == IF programmeOpen(w) THEN y ELSE db
  <2>1. Busy(r) /\ Room(db) /\ Args(r).call = "applied" /\ Done(r, d)
    BY <1>2 DEF RunApplied, Doing, Args
  <2>2. w \in Week
    BY <2>1, HeadIs, CallFields
  <2>3. y.visit = db.visit
    BY <1>0, <2>1, <2>2, AppliedTouches DEF Touches
  <2> HIDE DEF y
  <2>4. d.visit = db.visit
    BY <2>3
  <2> HIDE DEF d
  <2> QED
    BY <2>1, <2>4, DoneTurns DEF PlainlyOn
<1>3. CASE RunSpeaker(r)
  <2>1. syncSpeaker(db).visit = db.visit
    BY <1>0, SpeakerIs
  <2> QED
    BY <1>3, <2>1, DoneTurns DEF RunSpeaker, PlainlyOn
<1> QED
  BY <1>1, <1>2, <1>3

LEMMA PlainGoesOn ==
    ASSUME TalkInv, VisitSound(db.visit), NEW r \in Requests, Steps(r), Plain(job[r].todo)
    PROVE VisitSound(db'.visit) /\ Plain(job'[r].todo)
<1>1. Busy(r)
  BY StepGoesOn DEF GoesOn
<1>2. job[r].todo \in Seq(Call) /\ job[r].todo # <<>>
  BY <1>1, HeadIs DEF Job, Busy
<1>3. Plain(Rest(r)) /\ Args(r).call \notin OfVisits
  BY <1>2, PlainRest DEF Rest, Args
<1>4. ~(RunSaveVisit(r) \/ RunRevert(r) \/ RunVisitMoved(r) \/ RunVisitRemoved(r) \/ DeleteVisit(r))
  BY <1>3 DEF OfVisits, RunSaveVisit, RunRevert, RunVisitMoved, RunVisitRemoved, DeleteVisit, Doing, Args
<1>5. PlainlyOn(r)
  BY <1>4, PlainJournalCalls, PlainSaveEntry, PlainLineCalls, PlainVisitCalls DEF Steps
<1> QED
  BY <1>3, <1>5 DEF PlainlyOn

\* Every step of a request keeps its round.
LEMMA RoundGoesOn ==
    ASSUME TalkInv, TalkInv', NEW r \in Requests, Steps(r), VisitSound(db.visit), OpenFound,
           Round(found, db, job[r].todo)
    PROVE Keeps(found, db', job'[r].todo)
<1>1. CASE Nothing(found) /\ Plain(job[r].todo)
  <2>1. VisitSound(db'.visit) /\ Plain(job'[r].todo)
    BY <1>1, PlainGoesOn
  <2>2. Rests(found, db')
    <3>1. Others(found, db', {}) /\ \A w : Others(found, db', {w})
      BY <1>1 DEF Nothing, Others
    <3>2. db'.visit.week \in Week
      BY DEF TalkInv, TypeOK, Database, Visit
    <3> QED
      BY <1>1, <3>1, <3>2 DEF Rests, Nothing
  <2> QED
    BY <1>1, <2>1, <2>2 DEF Keeps, Round
<1> QED
  BY <1>1, ComingGoesOn, SavingGoesOn, GoingGoesOn, MovingGoesOn DEF Round

----------------------------------------------------------------------------
(* The rounds begin: a visit's with what it finds, any other request by     *)
(* forgetting what was found.                                               *)

Began(r) ==
    /\ VisitSound(db'.visit) /\ Round(found', db', job'[r].todo)
    /\ \A w \in Week : found'[w] # Unknown => programmeOpen(w)
    /\ job'[r].back # NoBack => Nothing(found')

LEMMA OtherBegins ==
    ASSUME TalkInv, NEW r \in Requests, NEW kind, NEW d, NEW calls, NEW back,
           BeginWith(r, kind, d, calls, back), kind \notin VisitKinds, VisitSound(d.visit), Plain(calls)
    PROVE Began(r)
<1>1. job'[r] = [todo |-> calls, back |-> back] /\ db' = d
  BY BeginIsAmong
<1>2. Nothing(found')
  BY DEF BeginWith, Nothing
<1> QED
  BY <1>1, <1>2 DEF Began, Round, Nothing

LEMMA OtherSimplyBegins ==
    ASSUME TalkInv, VisitSound(db.visit), NEW r \in Requests, NEW kind, NEW d, NEW calls,
           Begin(r, kind, d, calls), kind \notin VisitKinds, Beside(db, d), Plain(calls)
    PROVE Began(r)
<1>1. BeginWith(r, kind, d, calls, NoBack) /\ VisitSound(d.visit)
  BY DEF Begin, Beside
<1> QED
  BY <1>1, OtherBegins

\* The calls that are not the visit's own.
LEMMA CallsPlain ==
    ASSUME NEW w, NEW e, NEW row, NEW was, NEW x, NEW y
    PROVE /\ Apply(e, row, x).call \notin OfVisits /\ Sync(w, x).call \notin OfVisits
          /\ On("fill", w).call \notin OfVisits /\ On("template", w).call \notin OfVisits
          /\ On("applied", w).call \notin OfVisits /\ On("adopt", w).call \notin OfVisits
          /\ [call |-> "saveEntry", e |-> e, row |-> row, was |-> was, ow |-> x].call \notin OfVisits
          /\ [call |-> "clear", e |-> e, row |-> row].call \notin OfVisits
          /\ [call |-> "delete", e |-> e].call \notin OfVisits
          /\ [call |-> "write", e |-> e, row |-> row].call \notin OfVisits
          /\ [call |-> "name", w |-> w, e |-> e].call \notin OfVisits
          /\ [call |-> "saveLine", w |-> w, l |-> x].call \notin OfVisits
          /\ [call |-> "sync", w |-> w, changed |-> x, restored |-> y].call \notin OfVisits
          /\ [call |-> "move", e |-> e, to |-> w, x |-> x, from |-> y].call \notin OfVisits
BY DEF Apply, Sync, On, OfVisits

LEMMA CreateBegan ==
    ASSUME TalkInv, VisitSound(db.visit), NEW r \in Requests, CreateEntry(r)
    PROVE Began(r)
<1>1. PICK w \in Week, g \in Guests, hand \in {"own", "noted"}, ow \in BOOLEAN :
        /\ Live(db, w) = {} /\ Room(db)
        /\ Begin(r, "create", Put(db, NewId(db), [NewRow(w, g, hand) EXCEPT !.off = weekCancelled(db, w)]),
                 <<Apply(NewId(db), [NewRow(w, g, hand) EXCEPT !.off = weekCancelled(db, w)], ow)>>)
  BY DEF CreateEntry
<1> DEFINE row == [NewRow(w, g, hand) EXCEPT !.off = weekCancelled(db, w)]
           e == NewId(db)
<1> HIDE DEF row, e
<1>2. Beside(db, Put(db, e, row))
  BY InvIsGood, WholeIs, WritesBeside
<1>3. Plain(<<Apply(e, row, ow)>>)
  BY CallsPlain, OnePlain
<1>4. "create" \notin VisitKinds
  BY DEF VisitKinds
<1> QED
  BY <1>1, <1>2, <1>3, <1>4, OtherSimplyBegins DEF row, e

LEMMA SaveAsBegan ==
    ASSUME TalkInv, VisitSound(db.visit), NEW r \in Requests, NEW kind, NEW e, NEW row, NEW ow,
           kind \notin VisitKinds, SaveAs(r, kind, e, row, ow)
    PROVE Began(r)
<1>1. Plain(<<[call |-> "saveEntry", e |-> e, row |-> row, was |-> db.entry[e], ow |-> ow]>>)
  BY CallsPlain, OnePlain
<1> QED
  BY <1>1, InvIsGood, WholeIs, OtherSimplyBegins DEF SaveAs

LEMMA SavedBegan ==
    ASSUME TalkInv, VisitSound(db.visit), NEW r \in Requests, ChangeSpeaker(r) \/ ShiftWeek(r) \/ Missed(r)
    PROVE Began(r)
<1>1. "change" \notin VisitKinds /\ "shift" \notin VisitKinds /\ "missed" \notin VisitKinds
  BY DEF VisitKinds
<1>2. CASE ChangeSpeaker(r)
  BY <1>1, <1>2, SaveAsBegan, Zenon DEF ChangeSpeaker
<1>3. CASE ShiftWeek(r)
  BY <1>1, <1>3, SaveAsBegan, Zenon DEF ShiftWeek
<1>4. CASE Missed(r)
  BY <1>1, <1>4, SaveAsBegan, Zenon DEF Missed
<1> QED
  BY <1>2, <1>3, <1>4

LEMMA RemoveBegan ==
    ASSUME TalkInv, VisitSound(db.visit), NEW r \in Requests, RemoveEntry(r)
    PROVE Began(r)
<1>1. PICK e \in Ids :
        Begin(r, "remove", db, <<[call |-> "clear", e |-> e, row |-> db.entry[e]], [call |-> "delete", e |-> e]>>)
  BY DEF RemoveEntry
<1>2. Plain(<<[call |-> "clear", e |-> e, row |-> db.entry[e]], [call |-> "delete", e |-> e]>>)
  BY CallsPlain, ShortListsPlain
<1>3. "remove" \notin VisitKinds
  BY DEF VisitKinds
<1> QED
  BY <1>1, <1>2, <1>3, InvIsGood, WholeIs, OtherSimplyBegins

LEMMA ElsewhereBegan ==
    ASSUME TalkInv, VisitSound(db.visit), NEW r \in Requests, moveSetAside(r)
    PROVE Began(r)
<1>1. PICK e \in Ids, w \in Week :
        LET row == [db.entry[e] EXCEPT !.week = w, !.at = "live", !.aside = FALSE,
                                       !.off = weekCancelled(db, w)]
            d == Put(db, e, row)
        IN  Begin(r, "elsewhere",
                  [d EXCEPT !.visit.prev = IF d.visit.at = "on" /\ @ # NoPrev THEN NoOne ELSE @],
                  <<Apply(e, row, FALSE)>>)
  BY Zenon DEF moveSetAside
<1> DEFINE row == [db.entry[e] EXCEPT !.week = w, !.at = "live", !.aside = FALSE,
                                      !.off = weekCancelled(db, w)]
           d == Put(db, e, row)
           prev == IF d.visit.at = "on" /\ d.visit.prev # NoPrev THEN NoOne ELSE d.visit.prev
           x == [d EXCEPT !.visit.prev = prev]
<1>2. BeginWith(r, "elsewhere", x, <<Apply(e, row, FALSE)>>, NoBack)
  BY <1>1 DEF Begin
<1>3. d.visit = db.visit /\ db.visit \in Visit /\ Whole(d)
  <2>1. Beside(db, d)
    BY InvIsGood, WholeIs, WritesBeside
  <2> QED
    BY <2>1, InvIsGood, WholeIs, BesideWhole, VisitRead DEF Beside
<1> HIDE DEF row, d
<1>4. x.visit = [d.visit EXCEPT !.prev = prev]
  BY <1>3 DEF Whole
<1>5. VisitSound(x.visit)
  BY <1>3, <1>4 DEF VisitSound, Visit
<1> HIDE DEF x
<1>6. Plain(<<Apply(e, row, FALSE)>>)
  BY CallsPlain, OnePlain
<1>7. "elsewhere" \notin VisitKinds
  BY DEF VisitKinds
<1> QED
  BY <1>2, <1>5, <1>6, <1>7, OtherBegins

LEMMA LinesBegan ==
    ASSUME TalkInv, VisitSound(db.visit), NEW r \in Requests,
           NewLine(r) \/ EditLine(r) \/ CancelLine(r) \/ RemoveLine(r) \/ RestoreLine(r)
    PROVE Began(r)
<1>0. Beside(db, db) /\ \A w, l : Beside(db, SetLine(db, w, l))
  BY InvIsGood, WholeIs, WritesBeside
<1>1. "newLine" \notin VisitKinds /\ "editLine" \notin VisitKinds /\ "cancelLine" \notin VisitKinds
      /\ "removeLine" \notin VisitKinds /\ "restoreLine" \notin VisitKinds
  BY DEF VisitKinds
<1>2. ASSUME NEW kind, NEW w, NEW l, SaveLineAs(r, kind, w, l), kind \notin VisitKinds
      PROVE Began(r)
  <2>1. Begin(r, kind, db, <<[call |-> "saveLine", w |-> w, l |-> l], Sync(w, l.who # db.line[w].who)>>)
    BY <1>2 DEF SaveLineAs
  <2>2. Plain(<<[call |-> "saveLine", w |-> w, l |-> l], Sync(w, l.who # db.line[w].who)>>)
    BY CallsPlain, ShortListsPlain
  <2> QED
    BY <1>0, <1>2, <2>1, <2>2, OtherSimplyBegins
<1>3. CASE NewLine(r)
  <2>1. PICK w \in Week, g \in Guests \cup {NoOne} :
          Begin(r, "newLine",
                SetLine(db, w, [at |-> "on", removed |-> FALSE, who |-> g, link |-> NoEntry]),
                <<On("fill", w), Sync(w, g # NoOne), On("template", w), On("applied", w)>>)
    BY <1>3 DEF NewLine
  <2>2. Plain(<<On("fill", w), Sync(w, g # NoOne), On("template", w), On("applied", w)>>)
    BY CallsPlain, ShortListsPlain
  <2> QED
    BY <1>0, <1>1, <2>1, <2>2, OtherSimplyBegins
<1>4. CASE EditLine(r)
  BY <1>1, <1>2, <1>4, Zenon DEF EditLine
<1>5. CASE CancelLine(r)
  BY <1>1, <1>2, <1>5, Zenon DEF CancelLine
<1>6. CASE RemoveLine(r)
  <2>1. PICK w \in Week :
          Begin(r, "removeLine", SetLine(db, w, [db.line[w] EXCEPT !.removed = TRUE]), <<Sync(w, TRUE)>>)
    BY <1>6 DEF RemoveLine
  <2>2. Plain(<<Sync(w, TRUE)>>)
    BY CallsPlain, OnePlain
  <2> QED
    BY <1>0, <1>1, <2>1, <2>2, OtherSimplyBegins
<1>7. CASE RestoreLine(r)
  <2>1. PICK w \in Week :
          Begin(r, "restoreLine", SetLine(db, w, [db.line[w] EXCEPT !.removed = FALSE]),
                <<[call |-> "sync", w |-> w, changed |-> FALSE, restored |-> TRUE]>>)
    BY <1>7 DEF RestoreLine
  <2>2. Plain(<<[call |-> "sync", w |-> w, changed |-> FALSE, restored |-> TRUE]>>)
    BY CallsPlain, OnePlain
  <2> QED
    BY <1>0, <1>1, <2>1, <2>2, OtherSimplyBegins
<1> QED
  BY <1>3, <1>4, <1>5, <1>6, <1>7

LEMMA SwapBegan ==
    ASSUME TalkInv, VisitSound(db.visit), NEW r \in Requests, SwapTalks(r)
    PROVE Began(r)
<1>1. PICK s \in Week, t \in Week, swap \in BOOLEAN :
        LET ls == db.line[s]
            lt == db.line[t]
            es == weekEntry(db, s)
            et == weekEntry(db, t)
            back == IF swap THEN et ELSE NoEntry
        IN  Begin(r, "swap",
                  [db EXCEPT !.line[t] = [lt EXCEPT !.who = ls.who, !.link = ls.link],
                             !.line[s] = IF swap THEN [ls EXCEPT !.who = lt.who, !.link = lt.link]
                                         ELSE [ls EXCEPT !.who = NoOne, !.link = NoEntry]],
                  <<[call |-> "move", e |-> es, to |-> t, x |-> back, from |-> s],
                    Sync(s, TRUE), Sync(t, TRUE)>>)
  BY ZenonT(40) DEF SwapTalks
<1> DEFINE ls == db.line[s]
           lt == db.line[t]
           back == IF swap THEN weekEntry(db, t) ELSE NoEntry
           nt == [lt EXCEPT !.who = ls.who, !.link = ls.link]
           ns == IF swap THEN [ls EXCEPT !.who = lt.who, !.link = lt.link]
                 ELSE [ls EXCEPT !.who = NoOne, !.link = NoEntry]
           x == [db EXCEPT !.line[t] = nt, !.line[s] = ns]
           calls == <<[call |-> "move", e |-> weekEntry(db, s), to |-> t, x |-> back, from |-> s],
                      Sync(s, TRUE), Sync(t, TRUE)>>
<1>2. Begin(r, "swap", x, calls)
  BY <1>1
<1> HIDE DEF nt, ns
<1>3. Beside(db, x)
  BY InvIsGood, WholeIs DEF Beside, Whole
<1>4. Plain(calls)
  <2> HIDE DEF back
  <2> QED
    BY CallsPlain, ShortListsPlain
<1>5. "swap" \notin VisitKinds
  BY DEF VisitKinds
<1> HIDE DEF x, calls
<1> QED
  BY <1>2, <1>3, <1>4, <1>5, OtherSimplyBegins

LEMMA ReplaceBegan ==
    ASSUME TalkInv, VisitSound(db.visit), NEW r \in Requests, replaceSpeaker(r)
    PROVE Began(r)
<1>1. PICK w \in Week, g \in Guests :
        LET l == db.line[w]
            e == weekEntry(db, w)
            close == IF e = NoEntry THEN <<>>
                     ELSE <<[call |-> "write", e |-> e, row |-> [db.entry[e] EXCEPT !.held = FALSE]]>>
            was == IF e = NoEntry THEN <<>> ELSE <<<<e, db.entry[e]>>>>
        IN  BeginWith(r, "replace", db,
                close \o <<[call |-> "saveLine", w |-> w, l |-> [l EXCEPT !.who = g, !.link = NoEntry]],
                           Sync(w, TRUE), On("adopt", w)>>,
                [w |-> w, lines |-> <<l>>, rows |-> was])
  BY Zenon DEF replaceSpeaker
<1> DEFINE l == db.line[w]
           e == weekEntry(db, w)
           row == [db.entry[e] EXCEPT !.held = FALSE]
           one == [call |-> "write", e |-> e, row |-> row]
           close == IF e = NoEntry THEN <<>> ELSE <<one>>
           was == IF e = NoEntry THEN <<>> ELSE <<<<e, db.entry[e]>>>>
           nl == [l EXCEPT !.who = g, !.link = NoEntry]
           rest == <<[call |-> "saveLine", w |-> w, l |-> nl], Sync(w, TRUE), On("adopt", w)>>
           back == [w |-> w, lines |-> <<l>>, rows |-> was]
<1>2. BeginWith(r, "replace", db, close \o rest, back)
  BY <1>1
<1>3. l \in Line /\ (e # NoEntry => one \in Call)
  <2>1. e # NoEntry => e \in Ids
    BY InvIsGood, WeekEntryIs
  <2>2. e # NoEntry => db.entry[e] \in Row
    BY <2>1, RowRead
  <2> HIDE DEF e
  <2>3. e # NoEntry => row \in Row
    BY <2>2 DEF Row
  <2> QED
    BY <2>1, <2>3, LineRead, EntryCalls
<1> HIDE DEF l
<1>4. nl \in Line
  BY <1>3 DEF Line, Speakers
<1>5. one.call \notin OfVisits
  BY CallsPlain
<1> HIDE DEF e, nl, one
<1>6. close \in Seq(Call) /\ Plain(close)
  BY <1>3, <1>5, NonePlain, OnePlain, ListOfOne
<1>7. rest \in Seq(Call) /\ Plain(rest)
  <2>1. rest \in Seq(Call)
    BY <1>4, WeekCalls, ListOfThree
  <2>2. Plain(rest)
    BY CallsPlain, ShortListsPlain
  <2> QED
    BY <2>1, <2>2
<1> HIDE DEF close, rest, back
<1>8. Plain(close \o rest)
  BY <1>6, <1>7, JoinedPlain
<1>9. "replace" \notin VisitKinds
  BY DEF VisitKinds
<1> QED
  BY <1>2, <1>8, <1>9, OtherBegins

LEMMA UndoBegan ==
    ASSUME TalkInv, VisitSound(db.visit), NEW r \in Requests, undoReplacement(r)
    PROVE Began(r)
<1>1. PICK e \in Ids :
        LET row == db.entry[e]
            w == row.week
            x == weekEntry(db, w)
            free == CASE x = NoEntry -> <<>>
                      [] x # NoEntry /\ db.entry[x].hand = "noted" ->
                           <<[call |-> "write", e |-> x, row |-> [db.entry[x] EXCEPT !.held = FALSE]]>>
                      [] OTHER -> <<[call |-> "delete", e |-> x]>>
            was == IF x = NoEntry THEN <<<<e, row>>>> ELSE <<<<e, row>>, <<x, db.entry[x]>>>>
        IN  BeginWith(r, "undo", db,
                free \o <<[call |-> "write", e |-> e, row |-> [row EXCEPT !.held = TRUE]],
                          [call |-> "name", w |-> w, e |-> e]>>,
                [w |-> w, lines |-> <<>>, rows |-> was])
  BY Zenon DEF undoReplacement
<1> DEFINE row == db.entry[e]
           w == row.week
           x == weekEntry(db, w)
           xr == [db.entry[x] EXCEPT !.held = FALSE]
           write == [call |-> "write", e |-> x, row |-> xr]
           delete == [call |-> "delete", e |-> x]
           free == CASE x = NoEntry -> <<>>
                     [] x # NoEntry /\ db.entry[x].hand = "noted" -> <<write>>
                     [] OTHER -> <<delete>>
           was == IF x = NoEntry THEN <<<<e, row>>>> ELSE <<<<e, row>>, <<x, db.entry[x]>>>>
           nr == [row EXCEPT !.held = TRUE]
           rest == <<[call |-> "write", e |-> e, row |-> nr], [call |-> "name", w |-> w, e |-> e]>>
           back == [w |-> w, lines |-> <<>>, rows |-> was]
<1>2. BeginWith(r, "undo", db, free \o rest, back)
  BY <1>1
<1>3. w \in Week /\ nr \in Row
  BY RowRead DEF Row
<1>4. x # NoEntry => write \in Call /\ delete \in Call
  <2>1. x # NoEntry => x \in Ids
    BY InvIsGood, WeekEntryIs
  <2>2. x # NoEntry => db.entry[x] \in Row
    BY <2>1, RowRead
  <2> HIDE DEF x
  <2>3. x # NoEntry => xr \in Row
    BY <2>2 DEF Row
  <2> HIDE DEF xr
  <2> QED
    BY <1>3, <2>1, <2>3, EntryCalls
<1>5. write.call \notin OfVisits /\ delete.call \notin OfVisits
  BY CallsPlain
<1> HIDE DEF x, row, w, nr, write, delete
<1>6. free \in Seq(Call) /\ Plain(free)
  <2>1. free = <<>> \/ (x # NoEntry /\ (free = <<write>> \/ free = <<delete>>))
    OBVIOUS
  <2> HIDE DEF free
  <2> QED
    BY <1>4, <1>5, <2>1, NonePlain, OnePlain, ListOfOne
<1>7. rest \in Seq(Call) /\ Plain(rest)
  <2>1. rest \in Seq(Call)
    BY <1>3, EntryCalls, WeekCalls, ListOfTwo
  <2>2. Plain(rest)
    BY CallsPlain, ShortListsPlain
  <2> QED
    BY <2>1, <2>2
<1> HIDE DEF free, rest, back
<1>8. Plain(free \o rest)
  BY <1>6, <1>7, JoinedPlain
<1>9. "undo" \notin VisitKinds
  BY DEF VisitKinds
<1> QED
  BY <1>2, <1>8, <1>9, OtherBegins

----------------------------------------------------------------------------
\* The weeks a visit arrives in are taken down as it finds them, the others as they were.
LEMMA FoundOthers ==
    ASSUME NEW d, Good(d), NEW F, NEW S, Others(F, d, S),
           NEW G, \A x \in Week \ S : G[x] = F[x] \/ G[x] = AsFound(d, x)
    PROVE Others(G, d, S)
BY FoundIs DEF Others

LEMMA VisitBegins ==
    ASSUME TalkInv, NEW r \in Requests, NEW kind, NEW d, NEW calls,
           Begin(r, kind, d, calls), kind \in VisitKinds
    PROVE /\ db' = d /\ job'[r].todo = calls /\ job'[r].back = NoBack
          /\ \A x \in Week : found'[x] = IF Arrives(kind, d, calls, x) THEN AsFound(db, x) ELSE found[x]
<1>1. BeginWith(r, kind, d, calls, NoBack)
  BY DEF Begin
<1>2. job'[r] = [todo |-> calls, back |-> NoBack] /\ db' = d
  BY <1>1, BeginIsAmong
<1> QED
  BY <1>1, <1>2 DEF BeginWith

LEMMA ComesBegan ==
    ASSUME TalkInv, NEW r \in Requests, OpenFound, Rests(found, db), NEW w \in Week, programmeOpen(w),
           db.visit.at # "on", NEW kind \in {"addVisit", "restoreVisit"}, NEW d,
           d.entry = db.entry, d.line = db.line, visitOfWeek(d, w), Forgotten(d.visit),
           Begin(r, kind, d, <<On("template", w), On("applied", w)>>)
    PROVE Began(r)
<1> DEFINE calls == <<On("template", w), On("applied", w)>>
<1>1. kind \in VisitKinds /\ kind # "moveVisit"
  BY DEF VisitKinds
<1> HIDE DEF calls
<1>2. /\ db' = d /\ job'[r].todo = calls /\ job'[r].back = NoBack
      /\ \A x \in Week : found'[x] = IF Arrives(kind, d, calls, x) THEN AsFound(db, x) ELSE found[x]
  BY <1>1, VisitBegins DEF calls
<1>3. \A x : Arrives(kind, d, calls, x) <=> x = w
  BY <1>1 DEF Arrives, visitOfWeek
<1>4. Others(found', db, {})
  BY <1>2, InvIsGood, FoundOthers DEF Rests
<1>5. Others(found', d, {})
  <2>1. \A x \in Week : SameWeek(db, d, x)
    BY EntriesSame DEF SameWeek
  <2> QED
    BY <1>4, <2>1, InvIsGood, OthersCarry
<1>6. Coming(found', d, calls)
  BY <1>5 DEF Coming, calls
<1>7. \A x \in Week : found'[x] # Unknown => programmeOpen(x)
  BY <1>2, <1>3 DEF OpenFound
<1> QED
  BY <1>2, <1>6, <1>7 DEF Began, Round, VisitSound, Forgotten

LEMMA StaysBegan ==
    ASSUME TalkInv, NEW r \in Requests, OpenFound, VisitSound(db.visit),
           NEW kind \in {"saveVisit", "removeVisit"}, NEW calls, Begin(r, kind, db, calls),
           Saving(found, db, calls) \/ Going(found, db, calls)
    PROVE Began(r)
<1>1. kind \in VisitKinds /\ kind # "moveVisit"
  BY DEF VisitKinds
<1>2. /\ db' = db /\ job'[r].todo = calls /\ job'[r].back = NoBack
      /\ \A x \in Week : found'[x] = IF Arrives(kind, db, calls, x) THEN AsFound(db, x) ELSE found[x]
  BY <1>1, VisitBegins
<1>3. \A x \in Week : found'[x] = found[x]
  BY <1>1, <1>2 DEF Arrives
<1>4. Rests(found, db) => Rests(found', db)
  BY <1>3, VisitRead DEF Rests, Others
<1>5. \A S : Others(found, db, S) => Others(found', db, S)
  BY <1>3 DEF Others
<1>6. \A w \in Week : OneLeft(found, db, w) => OneLeft(found', db, w)
  BY <1>3, <1>5 DEF OneLeft
<1>7. Saving(found', db, calls) \/ Going(found', db, calls)
  BY <1>4, <1>5, <1>6 DEF Saving, Going
<1>8. \A x \in Week : found'[x] # Unknown => programmeOpen(x)
  BY <1>3 DEF OpenFound
<1> QED
  BY <1>2, <1>7, <1>8 DEF Began, Round

LEMMA MoveBegan ==
    ASSUME TalkInv, NEW r \in Requests, OpenFound, VisitSound(db.visit), Rests(found, db), MoveVisit(r)
    PROVE Began(r)
<1> DEFINE v == db.visit
           from == v.week
<1>1. PICK to \in Week :
        /\ v.at = "on" /\ from # to /\ programmeOpen(to)
        /\ Begin(r, "moveVisit", db,
                <<[call |-> "revert", v |-> v],
                  [call |-> "saveVisit", v |-> [v EXCEPT !.week = to, !.done = FALSE, !.prev = NoPrev]],
                  On("template", to), [call |-> "visitMoved", from |-> from, to |-> to],
                  On("applied", to)>>)
  BY DEF MoveVisit
<1> DEFINE nv == [v EXCEPT !.week = to, !.done = FALSE, !.prev = NoPrev]
           calls == <<Reverts(v), Saves(nv), On("template", to), MovesOn(from, to), On("applied", to)>>
<1>2. Begin(r, "moveVisit", db, calls)
  BY <1>1 DEF Reverts, Saves, MovesOn
<1>3. calls[2].v.week = to
  <2>1. calls[2] = Saves(nv)
    OBVIOUS
  <2>2. nv.week = to
    BY VisitRead DEF Visit
  <2> HIDE DEF calls, nv
  <2> QED
    BY <2>1, <2>2 DEF Saves
<1>4. nv \in Visit /\ nv.at = "on" /\ nv.week = to /\ Forgotten(nv)
  BY <1>1, VisitRead DEF Visit, Forgotten
<1>5. from \in Week
  BY VisitRead
<1>6. /\ db' = db /\ job'[r].todo = calls /\ job'[r].back = NoBack
      /\ \A x \in Week : found'[x] = IF Arrives("moveVisit", db, calls, x) THEN AsFound(db, x) ELSE found[x]
  <2>1. "moveVisit" \in VisitKinds
    BY DEF VisitKinds
  <2> HIDE DEF calls
  <2> QED
    BY <1>2, <2>1, VisitBegins
<1> HIDE DEF nv
<1>7. \A x \in Week : found'[x] = IF x = to THEN AsFound(db, x) ELSE found[x]
  <2> HIDE DEF calls
  <2> QED
    BY <1>3, <1>6 DEF Arrives
<1>8. Rests(found', db)
  <2>1. Others(found, db, {from}) /\ (found[from] # Unknown => FoundHosted(db, from, found[from]))
    BY <1>1 DEF Rests
  <2>2. Others(found', db, {from})
    BY <1>7, <2>1, InvIsGood, FoundOthers
  <2>3. found'[from] = found[from]
    BY <1>1, <1>5, <1>7
  <2> QED
    BY <1>1, <2>1, <2>2, <2>3 DEF Rests
<1>9. Moving(found', db, calls)
  BY <1>1, <1>4, <1>5, <1>8 DEF Moving, visitOfWeek
<1>10. \A x \in Week : found'[x] # Unknown => programmeOpen(x)
  BY <1>1, <1>7 DEF OpenFound
<1> QED
  BY <1>6, <1>9, <1>10 DEF Began, Round

LEMMA VisitsBegan ==
    ASSUME TalkInv, NEW r \in Requests, OpenFound, VisitSound(db.visit), Rests(found, db),
           AddVisit(r) \/ SaveVisit(r) \/ MoveVisit(r) \/ RemoveVisit(r) \/ RestoreVisit(r)
    PROVE Began(r)
<1>0. db \in Database /\ db.visit \in Visit /\ db.visit.week \in Week
  BY InvIsGood, VisitRead
<1>1. CASE AddVisit(r)
  <2>1. PICK w \in Week :
          /\ db.visit.at = "none" /\ programmeOpen(w)
          /\ Begin(r, "addVisit", [db EXCEPT !.visit = [at |-> "on", week |-> w, done |-> FALSE, prev |-> NoPrev]],
                   <<On("template", w), On("applied", w)>>)
    BY <1>1 DEF AddVisit
  <2> DEFINE v == [at |-> "on", week |-> w, done |-> FALSE, prev |-> NoPrev]
             d == [db EXCEPT !.visit = v]
  <2>2. d.entry = db.entry /\ d.line = db.line /\ d.visit = v
    BY <1>0 DEF Database
  <2>3. v.at = "on" /\ v.week = w /\ Forgotten(v)
    BY DEF Forgotten
  <2> HIDE DEF d, v
  <2> QED
    BY <2>1, <2>2, <2>3, ComesBegan DEF visitOfWeek, d, v
<1>2. CASE RestoreVisit(r)
  <2> DEFINE w == db.visit.week
             d == [db EXCEPT !.visit.at = "on"]
  <2>1. /\ db.visit.at = "gone" /\ programmeOpen(w)
        /\ Begin(r, "restoreVisit", d, <<On("template", w), On("applied", w)>>)
    BY <1>2 DEF RestoreVisit
  <2>2. d.entry = db.entry /\ d.line = db.line /\ d.visit = [db.visit EXCEPT !.at = "on"]
    BY <1>0 DEF Database
  <2>3. visitOfWeek(d, w) /\ Forgotten(d.visit)
    BY <1>0, <2>1, <2>2 DEF Visit, visitOfWeek, VisitSound, Forgotten
  <2> HIDE DEF d
  <2> QED
    BY <1>0, <2>1, <2>2, <2>3, ComesBegan
<1>3. CASE SaveVisit(r)
  <2> DEFINE w == db.visit.week
             calls == <<Saves(db.visit), On("template", w), On("speaker", w), On("applied", w)>>
  <2>1. db.visit.at = "on" /\ Begin(r, "saveVisit", db, calls)
    BY <1>3 DEF SaveVisit, Saves
  <2>2. Saving(found, db, calls)
    BY <1>0, <2>1 DEF Saving, visitOfWeek
  <2> HIDE DEF calls
  <2> QED
    BY <2>1, <2>2, StaysBegan
<1>4. CASE RemoveVisit(r)
  <2> DEFINE w == db.visit.week
             calls == <<Reverts(db.visit), On("visitRemoved", w), Deleted>>
  <2>1. db.visit.at = "on" /\ Begin(r, "removeVisit", db, calls)
    BY <1>4 DEF RemoveVisit, Reverts, Deleted
  <2>2. Going(found, db, calls)
    BY <1>0, <2>1 DEF Going, visitOfWeek
  <2> HIDE DEF calls
  <2> QED
    BY <2>1, <2>2, StaysBegan
<1>5. CASE MoveVisit(r)
  BY <1>5, MoveBegan
<1> QED
  BY <1>1, <1>2, <1>3, <1>4, <1>5

LEMMA AllBegan ==
    ASSUME TalkInv, NEW r \in Requests, OpenFound, VisitSound(db.visit), Rests(found, db), Begins(r)
    PROVE Began(r)
BY CreateBegan, SavedBegan, RemoveBegan, ElsewhereBegan, LinesBegan, SwapBegan, ReplaceBegan,
   UndoBegan, VisitsBegan DEF Begins

----------------------------------------------------------------------------
(* The invariant: while requests come one at a time, what a visit found is  *)
(* in its weeks in the stage its request has brought them to, and at rest   *)
(* once it has ended.                                                       *)

LEMMA PutBackBeside ==
    ASSUME TalkInv, NEW r \in Requests, PutBack(r)
    PROVE db'.visit = db.visit
<1> DEFINE b == job[r].back
           d == IF b.lines = <<>> THEN db ELSE SetLine(db, b.w, b.lines[1])
           g == FreshGone(d, b)
           p == b.rows
           one == RowBack(g, p[1])
<1>1. db' = Restored(g, p)
  BY DEF PutBack
<1>2. Whole(db) /\ Beside(db, db)
  BY InvIsGood, WholeIs
<1> HIDE DEF b
<1>3. Beside(db, d)
  BY <1>2, WritesBeside
<1>4. Whole(d) /\ Beside(d, d)
  BY <1>2, <1>3, BesideWhole DEF Beside
<1> HIDE DEF d
<1>5. Beside(d, g)
  BY <1>4, WritesBeside DEF FreshGone
<1>6. Whole(g) /\ Beside(g, g)
  BY <1>4, <1>5, BesideWhole DEF Beside
<1> HIDE DEF g
<1>7. ASSUME NEW y, Whole(y), NEW x
      PROVE Beside(y, RowBack(y, x))
  BY <1>7, WritesBeside DEF RowBack, Beside
<1>8. Beside(g, one) /\ Whole(one)
  BY <1>6, <1>7, BesideWhole
<1> HIDE DEF p, one
<1>9. Beside(one, RowBack(one, p[2]))
  BY <1>7, <1>8
<1>10. Restored(g, p) = g \/ Restored(g, p) = one \/ Restored(g, p) = RowBack(one, p[2])
  BY DEF Restored, one
<1> QED
  BY <1>1, <1>3, <1>5, <1>6, <1>8, <1>9, <1>10 DEF Beside

RoundKept ==
    /\ VisitSound(db.visit) /\ OpenFound
    /\ Quiet => Rests(found, db)
    /\ \A r \in Requests : Busy(r) => /\ Round(found, db, job[r].todo)
                                      /\ job[r].back # NoBack => Nothing(found)
RoundInv == OneAtATime => RoundKept

LEMMA NothingRests ==
    ASSUME NEW F, Nothing(F), NEW d, d.visit.week \in Week
    PROVE Rests(F, d)
BY DEF Nothing, Rests, Others

\* Only the clock moves `over`, and only a beginning and the loss of a request what was found.
LEMMA StepLeavesFound ==
    ASSUME NEW r \in Requests, Steps(r)
    PROVE found' = found /\ over' = over
<1>1. ASSUME NEW d, NEW calls, Ends(r, d, calls)
      PROVE found' = found /\ over' = over
  BY <1>1 DEF Ends, history
<1>2. ASSUME NEW d, Done(r, d)
      PROVE found' = found /\ over' = over
  BY <1>1, <1>2 DEF Done
<1>3. CASE RunApply(r) \/ RunRelease(r) \/ RunClear(r) \/ RunDelete(r) \/ RunFill(r)
  BY <1>2, <1>3, Zenon DEF RunApply, RunRelease, RunClear, RunDelete, RunFill
<1>4. CASE saveEntry(r)
  BY <1>1, <1>4 DEF saveEntry
<1>5. CASE moveWeekEntries(r)
  BY <1>1, <1>2, <1>5 DEF moveWeekEntries
<1>6. CASE SaveLine(r) \/ RunSync(r) \/ RunWrite(r) \/ RunAdopt(r) \/ RunName(r)
  BY <1>2, <1>6, Zenon DEF SaveLine, RunSync, RunWrite, RunAdopt, RunName
<1>7. CASE RunTemplate(r) \/ RunApplied(r) \/ RunSaveVisit(r) \/ RunSpeaker(r)
  BY <1>2, <1>7, Zenon DEF RunTemplate, RunApplied, RunSaveVisit, RunSpeaker
<1>8. CASE RunRevert(r) \/ RunVisitMoved(r) \/ RunVisitRemoved(r) \/ DeleteVisit(r)
  BY <1>2, <1>8, Zenon DEF RunRevert, RunVisitMoved, RunVisitRemoved, DeleteVisit
<1> QED
  BY <1>3, <1>4, <1>5, <1>6, <1>7, <1>8 DEF Steps

LEMMA BeginLeavesOver ==
    ASSUME NEW r \in Requests, Begins(r)
    PROVE over' = over
<1>1. ASSUME NEW kind, NEW d, NEW calls, NEW back, BeginWith(r, kind, d, calls, back)
      PROVE over' = over
  BY <1>1 DEF BeginWith
<1>2. ASSUME NEW kind, NEW d, NEW calls, Begin(r, kind, d, calls)
      PROVE over' = over
  BY <1>1, <1>2 DEF Begin
<1>3. CASE CreateEntry(r) \/ RemoveEntry(r) \/ moveSetAside(r)
  BY <1>2, <1>3, Zenon DEF CreateEntry, RemoveEntry, moveSetAside
<1>4. CASE ChangeSpeaker(r) \/ ShiftWeek(r) \/ Missed(r)
  BY <1>2, <1>4, Zenon DEF ChangeSpeaker, ShiftWeek, Missed, SaveAs
<1>5. CASE NewLine(r) \/ EditLine(r) \/ CancelLine(r) \/ RemoveLine(r) \/ RestoreLine(r)
  BY <1>2, <1>5, Zenon DEF NewLine, EditLine, CancelLine, RemoveLine, RestoreLine, SaveLineAs
<1>6. CASE SwapTalks(r)
  BY <1>2, <1>6, Zenon DEF SwapTalks
<1>7. CASE replaceSpeaker(r) \/ undoReplacement(r)
  BY <1>1, <1>7, Zenon DEF replaceSpeaker, undoReplacement
<1>8. CASE AddVisit(r) \/ SaveVisit(r) \/ MoveVisit(r) \/ RemoveVisit(r) \/ RestoreVisit(r)
  BY <1>2, <1>8, Zenon DEF AddVisit, SaveVisit, MoveVisit, RemoveVisit, RestoreVisit
<1> QED
  BY <1>3, <1>4, <1>5, <1>6, <1>7, <1>8 DEF Begins

LEMMA RoundOver ==
    ASSUME NEW F, NEW d, Round(F, d, <<>>)
    PROVE Nothing(F)
BY DEF Round, Coming, Saving, Going, Moving

LEMMA RoundStep ==
    ASSUME WholeInv, RoundInv, [Next]_vars
    PROVE RoundInv'
<1> SUFFICES ASSUME OneAtATime'
             PROVE RoundKept'
  BY DEF RoundInv
<1>0. TalkInv /\ Alone /\ TalkInv' /\ db'.visit.week \in Week
  <2>1. TalkInv /\ Alone /\ TalkInv'
    BY WholeStep DEF WholeInv
  <2> QED
    BY <2>1 DEF TalkInv, TypeOK, Database, Visit
<1>1. CASE UNCHANGED vars
  <2>1. RoundKept /\ db' = db /\ over' = over /\ job' = job /\ found' = found
    BY <1>1 DEF vars, history, RoundInv, OneAtATime
  <2> QED
    BY <2>1 DEF RoundKept, OpenFound, programmeOpen, Quiet, Busy
<1>2. CASE Tick
  <2>1. /\ db' = db /\ job' = job /\ past \subseteq past'
        /\ (\E r \in Requests : Busy(r)) => "overlap" \in past'
    BY <1>2 DEF Tick
  <2>2. RoundKept /\ \A r \in Requests : ~Busy(r)'
    BY <2>1 DEF RoundInv, OneAtATime, Busy
  <2>3. Nothing(found')
    BY <1>2 DEF Tick, Nothing
  <2>4. Rests(found', db')
    BY <1>0, <2>3, NothingRests
  <2> QED
    BY <2>1, <2>2, <2>3, <2>4 DEF RoundKept, OpenFound, Nothing
<1>3. ASSUME NEW r \in Requests, Begins(r)
      PROVE RoundKept'
  <2>1. BeginsAmong(r)
    <3>1. CASE replaceSpeaker(r)
      BY <1>0, <3>1, ReplaceIsKept
    <3>2. CASE undoReplacement(r)
      BY <1>0, <3>2, UndoIsKept
    <3>3. CASE ~replaceSpeaker(r) /\ ~undoReplacement(r)
      BY <1>0, <1>3, <3>3, MostBeginPlainly DEF PlainBegin
    <3> QED
      BY <3>1, <3>2, <3>3
  <2>2. RoundKept /\ \A x \in Requests \ {r} : job'[x] = job[x] /\ ~Busy(x)
    BY <2>1 DEF BeginsAmong, RoundInv, OneAtATime
  <2>3. Quiet
    BY <2>1, <2>2 DEF BeginsAmong, Quiet
  <2>4. Began(r)
    BY <1>0, <1>3, <2>2, <2>3, AllBegan DEF RoundKept
  <2>5. OpenFound'
    BY <1>3, <2>4, BeginLeavesOver DEF Began, OpenFound, programmeOpen
  <2>6. Quiet' => Rests(found', db')
    <3>1. SUFFICES ASSUME Quiet'
                   PROVE Nothing(found')
      BY <1>0, NothingRests
    <3>2. job'[r].todo = <<>>
      BY <3>1 DEF Quiet, Busy
    <3> QED
      BY <2>4, <3>2, RoundOver DEF Began
  <2>7. \A x \in Requests \ {r} : ~Busy(x)'
    BY <2>2 DEF Busy
  <2> QED
    BY <2>4, <2>5, <2>6, <2>7 DEF Began, RoundKept
<1>4. ASSUME NEW r \in Requests, Steps(r)
      PROVE RoundKept'
  <2>1. GoesOn(r) /\ found' = found /\ over' = over
    BY <1>0, <1>4, StepGoesOn, StepLeavesFound
  <2>2. RoundKept /\ Busy(r) /\ \A x \in Requests \ {r} : job'[x] = job[x] /\ ~Busy(x)
    BY <1>0, <2>1 DEF GoesOn, RoundInv, OneAtATime, Alone
  <2>3. Keeps(found, db', job'[r].todo)
    BY <1>0, <1>4, <2>2, RoundGoesOn DEF RoundKept
  <2>4. \A x \in Requests \ {r} : ~Busy(x)'
    BY <2>2 DEF Busy
  <2>5. Busy(r)' => /\ Round(found', db', job'[r].todo)
                    /\ job'[r].back # NoBack => Nothing(found')
    BY <2>1, <2>2, <2>3 DEF Keeps, Busy, GoesOn, RoundKept
  <2>6. Quiet' => Rests(found', db')
    BY <2>1, <2>3 DEF Keeps, Quiet, Busy
  <2>7. OpenFound'
    BY <2>1, <2>2 DEF RoundKept, OpenFound, programmeOpen
  <2> QED
    BY <2>3, <2>4, <2>5, <2>6, <2>7 DEF Keeps, RoundKept
<1>5. ASSUME NEW r \in Requests, PutBack(r)
      PROVE RoundKept'
  <2>1. /\ Busy(r) /\ job[r].back # NoBack /\ job' = [job EXCEPT ![r] = Idle] /\ past \subseteq past'
        /\ job \in [Requests -> Job] /\ found' = found /\ over' = over
    BY <1>0, <1>5 DEF PutBack, TalkInv, TypeOK
  <2>2. RoundKept /\ \A x \in Requests \ {r} : ~Busy(x)
    BY <1>0, <2>1 DEF RoundInv, OneAtATime, Alone
  <2>3. db'.visit = db.visit
    BY <1>0, <1>5, PutBackBeside
  <2>4. Nothing(found')
    BY <2>1, <2>2 DEF RoundKept
  <2>5. Rests(found', db')
    BY <1>0, <2>4, NothingRests
  <2>6. \A x \in Requests : ~Busy(x)'
    BY <2>1, <2>2 DEF Busy, Idle
  <2> QED
    BY <2>2, <2>3, <2>4, <2>5, <2>6 DEF RoundKept, OpenFound, Nothing
<1>6. ASSUME NEW r \in Requests
      PROVE ~Lose(r)
  BY DEF Lose, OneAtATime
<1> QED
  BY <1>1, <1>2, <1>3, <1>4, <1>5, <1>6 DEF Next

LEMMA RoundInit ==
    ASSUME Init
    PROVE RoundInv
<1>1. Nothing(found) /\ db \in Setups
  BY DEF Init, Nothing
<1>2. VisitSound(db.visit) /\ db.visit.week \in Week
  BY <1>1, TalkSetups DEF VisitSound, Database, Visit
<1>3. Rests(found, db) /\ OpenFound
  BY <1>1, <1>2, NothingRests DEF OpenFound, Nothing
<1>4. \A r \in Requests : ~Busy(r)
  BY DEF Init, Busy, Idle
<1> QED
  BY <1>2, <1>3, <1>4 DEF RoundInv, RoundKept

\* A week left to itself is as it was found.
LEMMA RestedRound ==
    ASSUME WholeInv, RoundInv
    PROVE RoundTrip
<1> SUFFICES ASSUME OneAtATime, Quiet, NEW w \in Week, ~visitOfWeek(db, w), found[w] # Unknown
             PROVE AsFound(db, w) = found[w]
  BY DEF RoundTrip
<1>1. Good(db) /\ Rests(found, db)
  BY InvIsGood DEF WholeInv, RoundInv, RoundKept
<1>2. FoundAsItWas(db, w, found[w])
  BY <1>1 DEF Rests, Others, visitOfWeek
<1> QED
  BY <1>1, <1>2, FoundAgain

\* A visit that comes to a week in order, and goes again - taken away or moved on, however often
\* it was saved, moved, removed and put back meanwhile -, leaves the man in the line and the
\* entries of the journal as it found them, whatever the weeks, entries and speakers.
THEOREM VisitsLeaveNoTrace == Spec => []RoundTrip
<1>1. Init => WholeInv /\ RoundInv
  BY WholeInit, RoundInit
<1>2. WholeInv /\ RoundInv /\ [Next]_vars => WholeInv' /\ RoundInv'
  BY WholeStep, RoundStep
<1>3. WholeInv /\ RoundInv => RoundTrip
  BY RestedRound
<1> QED
  BY <1>1, <1>2, <1>3, PTL DEF Spec

----------------------------------------------------------------------------
(* Journal and programme in agreement, and the weeks a request has yet to    *)
(* bring together.  (o is the last week that is over; c says that nothing    *)
(* was done yet that may leave a line empty beside an entry.)                *)

\* A line that names somebody is linked to his entry, which stands in the week.
Tied(o, d, w) ==
    LET l == d.line[w] IN
    w > o /\ Seen(l) /\ l.who # NoOne => l.link \in Live(d, w) /\ d.entry[l.link].who = l.who
\* Or to e, whatever has become of e.
TiedBut(o, d, w, e) ==
    LET l == d.line[w] IN
    w > o /\ Seen(l) /\ l.who # NoOne => l.link = e \/ (l.link \in Live(d, w) /\ d.entry[l.link].who = l.who)
\* A line that names nobody has no entry beside it.
Filled(o, d, w) == w > o /\ Seen(d.line[w]) /\ d.line[w].who = NoOne => Live(d, w) = {}
Agrees(o, c, d, w) == Tied(o, d, w) /\ (c => Filled(o, d, w))
AllBut(o, c, d, S) == \A x \in Week \ S : Agrees(o, c, d, x)
Uncancelled(d) == (\A w \in Week : d.line[w].at # "cancelled") /\ \A e \in Ids : ~d.entry[e].off

LEMMA AgreesCarries ==
    ASSUME NEW o, NEW c, NEW d, NEW y, NEW w, SameWeek(d, y, w)
    PROVE /\ Tied(o, d, w) => Tied(o, y, w)
          /\ Filled(o, d, w) => Filled(o, y, w)
          /\ Agrees(o, c, d, w) => Agrees(o, c, y, w)
BY DEF Agrees, Tied, Filled, SameWeek, SameRows

LEMMA AllButCarries ==
    ASSUME NEW o, NEW c, NEW d, NEW y, NEW S, AllBut(o, c, d, S), \A x \in Week \ S : SameWeek(d, y, x)
    PROVE AllBut(o, c, y, S)
BY AgreesCarries DEF AllBut

LEMMA TouchedAllBut ==
    ASSUME NEW o, NEW c, NEW d, NEW y, NEW w, Touches(d, y, w), NEW S, AllBut(o, c, d, S)
    PROVE /\ AllBut(o, c, y, S \cup {w})
          /\ Agrees(o, c, y, w) => AllBut(o, c, y, S \ {w})
<1>1. \A x \in Week \ (S \cup {w}) : SameWeek(d, y, x)
  BY OtherWeeksSame
<1>2. AllBut(o, c, d, S \cup {w})
  BY DEF AllBut
<1>3. AllBut(o, c, y, S \cup {w})
  BY <1>1, <1>2, AllButCarries
<1> QED
  BY <1>3 DEF AllBut

\* A line written.
LEMMA LineWritten ==
    ASSUME NEW d, Good(d), NEW w \in Week, NEW l
    PROVE LET y == SetLine(d, w, l) IN
          /\ Touches(d, y, w) /\ y.entry = d.entry /\ y.line[w] = l /\ y.visit = d.visit
          /\ \A x : Live(y, x) = Live(d, x)
          /\ Uncancelled(d) /\ l.at # "cancelled" => Uncancelled(y)
<1> DEFINE y == SetLine(d, w, l)
<1>1. y.entry = d.entry /\ y.visit = d.visit /\ y.line = [d.line EXCEPT ![w] = l]
      /\ d.line \in [Week -> Line]
  BY DEF SetLine, Good, Database
<1>2. y.line[w] = l /\ \A x \in Week \ {w} : y.line[x] = d.line[x]
  BY <1>1
<1> HIDE DEF y
<1> QED
  BY <1>1, <1>2 DEF Touches, Live, Uncancelled, y

\* A row written.
LEMMA RowPut ==
    ASSUME NEW d, Good(d), NEW e \in Ids, NEW row
    PROVE LET y == Put(d, e, row) IN
          /\ Rewrites(d, y, e, row)
          /\ Uncancelled(d) /\ ~row.off => Uncancelled(y)
<1>1. Rewrites(d, Put(d, e, row), e, row)
  BY PutRewrites
<1> QED
  BY <1>1 DEF Rewrites, Uncancelled

LEMMA CleanRewrites ==
    ASSUME NEW d, Uncancelled(d), NEW y, NEW i \in Ids, NEW r, Rewrites(d, y, i, r), ~r.off
    PROVE Uncancelled(y)
BY DEF Rewrites, Uncancelled

\* Whoever stands in a week stands there alone.
LEMMA StandsAlone ==
    ASSUME NEW d, Good(d), NEW w, NEW e \in Live(d, w)
    PROVE Live(d, w) = {e} /\ e \in Ids /\ d.entry[e] \in Row /\ d.entry[e].who # NoOne /\ Standing(d.entry[e])
          /\ d.entry[e].week = w /\ weekEntry(d, w) = e /\ e # NoEntry
<1>1. e \in Ids /\ Standing(d.entry[e]) /\ d.entry[e].week = w /\ d.entry[e] \in Row
  BY DEF Live, Good, Database
<1>2. Live(d, w) = {e}
  BY <1>1 DEF Live, Good, Single
<1>3. d.entry[e].who # NoOne
  BY <1>1, TalkConstants DEF Row, Speakers
<1>4. weekEntry(d, w) = e /\ e # NoEntry
  BY <1>1, <1>2, TalkConstants DEF weekEntry, Ids, NoEntry
<1> QED
  BY <1>1, <1>2, <1>3, <1>4

\* The journal into the programme: after it the line, if it is ahead, names the entry that stands.
LEMMA ApplyTies ==
    ASSUME NEW d, Good(d), Uncancelled(d), NEW e \in Ids, NEW row, row = d.entry[e], row.at = "live", NEW ow
    PROVE LET y == applyIncomingToProgram(d, e, row, ow)
              w == row.week IN
          /\ Touches(d, y, w) /\ Uncancelled(y) /\ y.entry = d.entry /\ y.visit = d.visit
          /\ ~Standing(row) => y = d
          /\ \A c : Standing(row) /\ TiedBut(over, d, w, e) => Agrees(over, c, y, w)
<1> DEFINE w == row.week
           l == d.line[w]
           m == [l EXCEPT !.who = row.who, !.link = e]
           y == applyIncomingToProgram(d, e, row, ow)
<1>0. row \in Row /\ w \in Week /\ l \in Line /\ ~row.off /\ l.at # "cancelled"
  <2>1. row \in Row
    BY DEF Good, Database
  <2>2. w \in Week
    BY <2>1 DEF Row
  <2> QED
    BY <2>1, <2>2 DEF Good, Database, Uncancelled
<1>1. m.who = row.who /\ m.link = e /\ m.at = l.at /\ m.removed = l.removed
  BY <1>0 DEF Line
<1>2. y = IF ~row.held \/ ~Seen(l) \/ (l.who = row.who /\ l.link = e) \/ ~programmeOpen(w)
             \/ (l.who # row.who /\ l.link # e /\ l.who # NoOne /\ ~ow)
          THEN d ELSE SetLine(d, w, m)
  BY <1>0 DEF applyIncomingToProgram
<1> HIDE DEF y, m
<1>3. LET z == SetLine(d, w, m) IN
      /\ Touches(d, z, w) /\ Uncancelled(z) /\ z.entry = d.entry /\ z.visit = d.visit
      /\ z.line[w] = m /\ Live(z, w) = Live(d, w)
  BY <1>0, <1>1, LineWritten
<1>4. Touches(d, y, w) /\ Uncancelled(y) /\ y.entry = d.entry /\ y.visit = d.visit
  BY <1>2, <1>3, TouchesNothing
<1>5. ~Standing(row) => y = d
  BY <1>2 DEF Standing
<1>6. ASSUME NEW c, Standing(row), TiedBut(over, d, w, e)
      PROVE Agrees(over, c, y, w)
  <2>1. e \in Live(d, w) /\ Live(d, w) = {e} /\ row.who # NoOne
    <3>1. e \in Live(d, w)
      BY <1>6 DEF Live
    <3> QED
      BY <3>1, StandsAlone
  <2>2. CASE y = d
    <3>1. ~Seen(l) \/ ~(w > over) \/ (l.who = row.who /\ l.link = e)
          \/ (l.who # row.who /\ l.link # e /\ l.who # NoOne)
      <4>1. CASE y = SetLine(d, w, m)
        <5>1. l = m
          BY <1>3, <2>2, <4>1
        <5> QED
          BY <5>1, <1>1
      <4>2. CASE y # SetLine(d, w, m)
        BY <1>2, <1>6, <4>2 DEF programmeOpen, Standing
      <4> QED
        BY <4>1, <4>2
    <3> QED
      BY <1>6, <2>1, <2>2, <3>1 DEF Agrees, Tied, Filled, TiedBut
  <2>3. CASE y = SetLine(d, w, m)
    BY <1>1, <1>3, <2>1, <2>3 DEF Agrees, Tied, Filled
  <2> QED
    BY <1>2, <2>2, <2>3
<1> QED
  BY <1>4, <1>5, <1>6 DEF y

LEMMA FillTies ==
    ASSUME NEW d, Good(d), Uncancelled(d), NEW w \in Week
    PROVE LET y == fillEmptySlot(d, w) IN
          /\ Touches(d, y, w) /\ Uncancelled(y)
          /\ d.line[w].who # NoOne => y = d
          /\ \A c : Tied(over, d, w) => Agrees(over, c, y, w)
<1> DEFINE e == weekEntry(d, w)
           y == fillEmptySlot(d, w)
           fills == d.line[w].at = "on" /\ ~d.line[w].removed /\ d.line[w].who = NoOne /\ e # NoEntry
<1>0. d.line[w] \in Line /\ d.line[w].at # "cancelled" /\ e \in Ids \cup {NoEntry}
      /\ (e # NoEntry => e \in Live(d, w)) /\ (e = NoEntry => Live(d, w) = {})
  <2>1. e # NoEntry => e \in Live(d, w)
    BY WeekEntryIs DEF Good, Live
  <2> QED
    BY <2>1, WeekEntryIs DEF Good, Database, Uncancelled
<1>1. CASE fills
  <2>1. y = applyIncomingToProgram(d, e, d.entry[e], FALSE)
    BY <1>1 DEF fillEmptySlot, ApplyNow
  <2>2. e \in Ids /\ d.entry[e].at = "live" /\ d.entry[e].week = w /\ Standing(d.entry[e])
    BY <1>0, <1>1 DEF Live, Standing
  <2>3. TiedBut(over, d, w, e)
    BY <1>1 DEF TiedBut
  <2> HIDE DEF e, y
  <2>4. /\ Touches(d, y, d.entry[e].week) /\ Uncancelled(y)
        /\ \A c : TiedBut(over, d, d.entry[e].week, e) => Agrees(over, c, y, d.entry[e].week)
    BY <2>1, <2>2, ApplyTies
  <2>5. d.line[w].who = NoOne
    BY <1>1
  <2> QED
    BY <2>2, <2>3, <2>4, <2>5 DEF y
<1>2. CASE ~fills
  <2>1. y = d
    BY <1>2 DEF fillEmptySlot
  <2>2. Seen(d.line[w]) /\ d.line[w].who = NoOne => Live(d, w) = {}
    BY <1>0, <1>2 DEF Seen, Line
  <2> HIDE DEF e, y
  <2> QED
    BY <2>1, <2>2, TouchesNothing DEF Agrees, Filled, y
<1> QED
  BY <1>1, <1>2

LEMMA QuietSyncTies ==
    ASSUME NEW d, Good(d), Uncancelled(d), NEW w \in Week
    PROVE LET y == syncProgramToJournal(d, w, FALSE, FALSE) IN
          /\ Touches(d, y, w) /\ Uncancelled(y)
          /\ \A c : Agrees(over, c, d, w) => Agrees(over, c, y, w)
<1> DEFINE e == weekEntry(d, w)
           y == syncProgramToJournal(d, w, FALSE, FALSE)
<1>0. d.line[w].at # "cancelled" /\ e \in Ids \cup {NoEntry}
      /\ (e # NoEntry => e \in Ids /\ e \in Live(d, w) /\ ~d.entry[e].off)
  <2>1. e # NoEntry => e \in Live(d, w)
    BY WeekEntryIs DEF Good, Live
  <2> QED
    BY <2>1, WeekEntryIs DEF Good, Database, Uncancelled, Live
<1>1. LineRestored(d, w, FALSE) = d
  BY DEF LineRestored
<1>2. y = d \/ (e # NoEntry /\ y = applyIncomingToProgram(d, e, d.entry[e], FALSE))
  BY <1>0, <1>1 DEF syncProgramToJournal, ApplyNow
<1> HIDE DEF y
<1>3. CASE y = d
  BY <1>3, TouchesNothing DEF y
<1>4. CASE e # NoEntry /\ y = applyIncomingToProgram(d, e, d.entry[e], FALSE)
  <2>1. e \in Ids /\ d.entry[e].at = "live" /\ d.entry[e].week = w /\ Standing(d.entry[e])
    BY <1>0, <1>4 DEF Live, Standing
  <2> HIDE DEF e
  <2>2. /\ Touches(d, y, w) /\ Uncancelled(y)
        /\ \A c : TiedBut(over, d, w, e) => Agrees(over, c, y, w)
    BY <1>4, <2>1, ApplyTies
  <2>3. \A c : Agrees(over, c, d, w) => TiedBut(over, d, w, e)
    BY DEF Agrees, Tied, TiedBut
  <2> QED
    BY <2>2, <2>3 DEF y
<1> QED
  BY <1>2, <1>3, <1>4

\* Nobody in the line.
LEMMA EmptiedIs ==
    ASSUME NEW d, Good(d), NEW w \in Week, NEW e, e = weekEntry(d, w)
    PROVE LET y == Emptied(d, w, e) IN
          /\ \/ y = d
             \/ e \in Live(d, w) /\ Rewrites(d, y, e, [d.entry[e] EXCEPT !.at = "gone"])
             \/ \E l : /\ y = SetLine(d, w, l) /\ l.who = d.line[w].who /\ l.at = d.line[w].at
                       /\ l.removed = d.line[w].removed
          /\ e = NoEntry => y = d
<1>1. e # NoEntry => e \in Live(d, w) /\ e \in Ids
  BY WeekEntryIs DEF Good, Live
<1>2. e # NoEntry => Rewrites(d, softDelete(d, e), e, [d.entry[e] EXCEPT !.at = "gone"])
  BY <1>1, DeletingRewrites
<1> DEFINE l == [d.line[w] EXCEPT !.link = NoEntry]
<1>3. l.who = d.line[w].who /\ l.at = d.line[w].at /\ l.removed = d.line[w].removed
  BY DEF Good, Database, Line
<1>4. Emptied(d, w, e) = d \/ (e # NoEntry /\ Emptied(d, w, e) = softDelete(d, e))
      \/ Emptied(d, w, e) = SetLine(d, w, l)
  BY DEF Emptied
<1>5. e = NoEntry => Emptied(d, w, e) = d
  BY DEF Emptied
<1> HIDE DEF l
<1> QED
  BY <1>1, <1>2, <1>3, <1>4, <1>5

\* The journal brought after the line.
LEMMA SyncTies ==
    ASSUME NEW d, Good(d), Uncancelled(d), Room(d), NEW w \in Week
    PROVE LET y == syncProgramToJournal(d, w, TRUE, FALSE) IN
          /\ Touches(d, y, w) /\ SameShow(d, y, w) /\ Uncancelled(y) /\ y.line[w].who = d.line[w].who
          /\ Tied(over, y, w) /\ (Filled(over, d, w) => Filled(over, y, w))
          /\ AsideSound(d) => Marked(y, w) = Marked(d, w)
<1> DEFINE e == weekEntry(d, w)
           y == syncProgramToJournal(d, w, TRUE, FALSE)
           l == d.line[w]
<1>0. l \in Line /\ l.at # "cancelled" /\ e \in Ids \cup {NoEntry}
      /\ (e # NoEntry => e \in Ids /\ e \in Live(d, w) /\ d.entry[e] \in Row /\ ~d.entry[e].off /\ d.entry[e].at = "live")
      /\ (e = NoEntry => Live(d, w) = {})
  <2>1. e # NoEntry => e \in Live(d, w)
    BY WeekEntryIs DEF Good, Live
  <2>2. e # NoEntry => d.entry[e].at = "live"
    BY <2>1 DEF Live, Standing
  <2> QED
    BY <2>1, <2>2, WeekEntryIs DEF Good, Database, Uncancelled, Live
<1>1. y = IF ~Seen(l) \/ l.who = NoOne THEN Emptied(d, w, e) ELSE Mirrored(d, w, e)
  BY <1>0, SyncIs
<1>2. Touches(d, y, w) /\ SameShow(d, y, w)
  BY SyncTouches
<1> HIDE DEF y
<1>3. CASE ~Seen(l) \/ l.who = NoOne
  <2> DEFINE gone == [d.entry[e] EXCEPT !.at = "gone"]
  <2>1. \/ y = d
        \/ e \in Live(d, w) /\ Rewrites(d, y, e, gone)
        \/ \E m : y = SetLine(d, w, m) /\ m.who = l.who /\ m.at = l.at /\ m.removed = l.removed
    BY <1>1, <1>3, EmptiedIs
  <2>2. e = NoEntry => y = d
    BY <1>1, <1>3, EmptiedIs
  <2>3. e # NoEntry => gone.off = FALSE /\ gone.at = "gone" /\ gone.aside = d.entry[e].aside /\ e \in Ids
    BY <1>0 DEF Row
  <2>4. e \in Live(d, w) => e # NoEntry
    BY StandsAlone
  <2> HIDE DEF gone, e
  <2>5. Uncancelled(y) /\ y.line[w].who = l.who
    <3>1. CASE y = d
      BY <3>1
    <3>2. CASE e \in Live(d, w) /\ Rewrites(d, y, e, gone)
      BY <2>3, <2>4, <3>2, CleanRewrites DEF Rewrites
    <3>3. CASE \E m : y = SetLine(d, w, m) /\ m.who = l.who /\ m.at = l.at /\ m.removed = l.removed
      BY <1>0, <3>3, LineWritten
    <3> QED
      BY <2>1, <3>1, <3>2, <3>3
  <2>6. AsideSound(d) => Marked(y, w) = Marked(d, w)
    <3>1. CASE y = d
      BY <3>1
    <3>2. CASE e \in Live(d, w) /\ Rewrites(d, y, e, gone)
      <4>1. AsideSound(d) => ~d.entry[e].aside
        BY <1>0, <2>4, <3>2, LiveIsNotAside
      <4> QED
        BY <2>3, <2>4, <3>2, <4>1 DEF Marked, Rewrites
    <3>3. CASE \E m : y = SetLine(d, w, m) /\ m.who = l.who /\ m.at = l.at /\ m.removed = l.removed
      <4>1. y.entry = d.entry
        BY <3>3, LineWritten
      <4> QED
        BY <4>1 DEF Marked
    <3> QED
      BY <2>1, <3>1, <3>2, <3>3
  <2>7. Tied(over, y, w)
    BY <1>2, <1>3, <2>5 DEF Tied, SameShow, Seen
  <2>8. Filled(over, d, w) => Filled(over, y, w)
    <3>1. CASE Seen(l) /\ w > over
      <4>1. Filled(over, d, w) => e = NoEntry
        BY <1>0, <1>3, <3>1 DEF Filled
      <4> QED
        BY <2>2, <4>1
    <3>2. CASE ~(Seen(l) /\ w > over)
      BY <1>2, <3>2 DEF Filled, SameShow, Seen
    <3> QED
      BY <3>1, <3>2
  <2> QED
    BY <1>2, <2>5, <2>6, <2>7, <2>8 DEF y
<1>4. CASE Seen(l) /\ l.who # NoOne
  <2>0. PICK x \in Ids, r \in Row, z \in Database : MirroredTo(d, w, e, x, r, z)
    BY <1>4, MirroredIs
  <2> DEFINE m == [l EXCEPT !.link = x]
  <2>1. /\ Rewrites(d, z, x, r) /\ Good(z)
        /\ IF e = NoEntry THEN d.entry[x].at = "none" /\ r = NewRow(w, l.who, "app")
           ELSE x = e /\ r = [d.entry[e] EXCEPT !.who = l.who]
        /\ y = IF programmeOpen(w) THEN SetLine(z, w, m) ELSE z
    BY <1>1, <1>4, <2>0 DEF MirroredTo
  <2>2. Standing(r) /\ r.week = w /\ r.who = l.who /\ r.off = FALSE
    <3>1. CASE e = NoEntry
      BY <2>1, <3>1 DEF NewRow, Standing
    <3>2. CASE e # NoEntry
      <4>1. Standing(d.entry[e]) /\ d.entry[e].week = w /\ d.entry[e].off = FALSE
        BY <1>0, <3>2 DEF Live, Row
      <4> QED
        BY <1>0, <2>1, <3>2, <4>1 DEF Standing, Row
    <3> QED
      BY <3>1, <3>2
  <2>3. m.who = l.who /\ m.link = x /\ m.at = l.at /\ m.removed = l.removed
    BY <1>0 DEF Line
  <2> HIDE DEF m
  <2>4. Uncancelled(z) /\ z.line = d.line /\ x \in Live(z, w) /\ z.entry[x].who = l.who
    <3>1. Uncancelled(z)
      BY <2>1, <2>2, CleanRewrites
    <3> QED
      BY <2>1, <2>2, <3>1 DEF Rewrites, Live
  <2>5. /\ SetLine(z, w, m).entry = z.entry /\ SetLine(z, w, m).line[w] = m
        /\ Live(SetLine(z, w, m), w) = Live(z, w) /\ Uncancelled(SetLine(z, w, m))
    <3>1. m.at # "cancelled" /\ Good(z)
      BY <1>0, <2>1, <2>3
    <3> HIDE DEF e
    <3>2. SetLine(z, w, m).entry = z.entry
      BY <3>1, LineWritten
    <3>3. SetLine(z, w, m).line[w] = m
      BY <3>1, LineWritten
    <3>4. Live(SetLine(z, w, m), w) = Live(z, w)
      BY <3>1, LineWritten
    <3>5. Uncancelled(SetLine(z, w, m))
      BY <2>4, <3>1, LineWritten
    <3> QED
      BY <3>2, <3>3, <3>4, <3>5
  <2>6. y.entry = z.entry /\ y.line[w].who = l.who /\ Uncancelled(y)
    BY <2>1, <2>3, <2>4, <2>5
  <2>7. Tied(over, y, w)
    BY <2>1, <2>3, <2>4, <2>5 DEF Tied, programmeOpen
  <2>8. Filled(over, y, w)
    BY <1>4, <2>6 DEF Filled
  <2>9. AsideSound(d) => Marked(y, w) = Marked(d, w)
    <3>1. AsideSound(d) => ~(d.entry[x].aside /\ d.entry[x].at = "gone")
      BY <1>0, <2>1
    <3>2. AsideSound(d) => r.at # "gone"
      BY <2>2 DEF Standing
    <3> QED
      BY <2>1, <2>6, <3>1, <3>2 DEF Marked, Rewrites
  <2> QED
    BY <1>2, <2>6, <2>7, <2>8, <2>9 DEF y
<1> QED
  BY <1>3, <1>4

----------------------------------------------------------------------------
(* The overseer is named and entered for his visit only.                     *)

NoHimIn(d, w) ==
    d.line[w].who # Overseer /\ \A e \in Ids : d.entry[e].at = "live" /\ d.entry[e].week = w => d.entry[e].who # Overseer
NoHim(d) == \A w \in Week : NoHimIn(d, w)

\* A call of the journal's or of the line's brings him into no week, and sets nobody aside.
Ours(d, y) ==
    /\ y.visit = d.visit
    /\ \A e \in Ids : y.entry[e].aside => d.entry[e].aside
    /\ \A x \in Week : NoHimIn(d, x) => NoHimIn(y, x)
    /\ NoHim(d) => \A e \in Ids : y.entry[e].who = Overseer => d.entry[e].who = Overseer

LEMMA OursOn ==
    ASSUME NEW d, NEW y, NEW z, Ours(d, y), Ours(y, z)
    PROVE Ours(d, z)
<1>1. NoHim(d) => NoHim(y)
  BY DEF NoHim, Ours
<1> QED
  BY <1>1 DEF Ours

LEMMA OursItself ==
    ASSUME NEW d
    PROVE Ours(d, d)
BY DEF Ours

LEMMA OursLine ==
    ASSUME NEW d, Good(d), NEW w \in Week, NEW l, l.who = Overseer => ~NoHimIn(d, w)
    PROVE Ours(d, SetLine(d, w, l))
<1> DEFINE y == SetLine(d, w, l)
<1>1. y.entry = d.entry /\ y.visit = d.visit /\ y.line[w] = l /\ \A x \in Week \ {w} : y.line[x] = d.line[x]
  BY LineWritten DEF Touches
<1> HIDE DEF y
<1> QED
  BY <1>1 DEF Ours, NoHimIn, y

LEMMA OursRow ==
    ASSUME NEW d, NEW y, NEW i \in Ids, NEW r, r.week \in Week, Rewrites(d, y, i, r), r.aside => d.entry[i].aside,
           \/ r.who # Overseer
           \/ ~NoHimIn(d, r.week)
           \/ r.who = d.entry[i].who /\ (r.at = "live" => d.entry[i].at = "live" /\ r.week = d.entry[i].week)
    PROVE Ours(d, y)
<1>1. /\ y.line = d.line /\ y.visit = d.visit
      /\ \A f \in Ids : y.entry[f] = IF f = i THEN r ELSE d.entry[f]
  BY DEF Rewrites
<1>2. ASSUME NEW x \in Week, NoHimIn(d, x)
      PROVE NoHimIn(y, x)
  <2>1. y.line[x].who # Overseer
    BY <1>1, <1>2 DEF NoHimIn
  <2>2. ASSUME NEW f \in Ids, y.entry[f].at = "live", y.entry[f].week = x
        PROVE y.entry[f].who # Overseer
    <3>1. CASE f # i
      BY <1>1, <1>2, <2>2, <3>1 DEF NoHimIn
    <3>2. CASE f = i
      <4>1. y.entry[f] = r
        BY <1>1, <3>2
      <4> QED
        BY <1>2, <2>2, <3>2, <4>1 DEF NoHimIn
    <3> QED
      BY <3>1, <3>2
  <2> QED
    BY <2>1, <2>2 DEF NoHimIn
<1>3. ASSUME NoHim(d), NEW f \in Ids, y.entry[f].who = Overseer
      PROVE d.entry[f].who = Overseer
  BY <1>1, <1>3 DEF NoHim
<1>4. \A f \in Ids : y.entry[f].aside => d.entry[f].aside
  BY <1>1
<1> QED
  BY <1>1, <1>2, <1>3, <1>4 DEF Ours

LEMMA OursApply ==
    ASSUME NEW d, Good(d), NEW e \in Ids, NEW row \in Row, NEW ow,
           row.aside => d.entry[e].aside, row.who = Overseer => ~NoHimIn(d, row.week)
    PROVE Ours(d, applyIncomingToProgram(d, e, row, ow))
<1> DEFINE w == row.week
           l == d.line[w]
           m == [l EXCEPT !.who = row.who, !.link = e]
           off == [row EXCEPT !.off = TRUE]
           y == applyIncomingToProgram(d, e, row, ow)
<1>0. w \in Week /\ l \in Line
  BY DEF Row, Good, Database
<1>1. y = d \/ y = Put(d, e, off) \/ y = SetLine(d, w, m)
  BY DEF applyIncomingToProgram
<1>2. off.week = w /\ off.aside = row.aside /\ off.who = row.who
  BY DEF Row
<1>3. m.who = row.who
  BY <1>0 DEF Line
<1> HIDE DEF off, m, w, y
<1>4. Ours(d, Put(d, e, off))
  <2>1. Rewrites(d, Put(d, e, off), e, off)
    BY PutRewrites
  <2>2. off.who # Overseer \/ ~NoHimIn(d, off.week)
    BY <1>2 DEF w
  <2> QED
    BY <1>0, <1>2, <2>1, <2>2, OursRow
<1>5. Ours(d, SetLine(d, w, m))
  <2>1. m.who = Overseer => ~NoHimIn(d, w)
    BY <1>3 DEF w
  <2> QED
    BY <1>0, <2>1, OursLine
<1> QED
  BY <1>1, <1>4, <1>5, OursItself DEF y

LEMMA OursApplyNow ==
    ASSUME NEW d, Good(d), NEW e \in Ids, d.entry[e].at = "live"
    PROVE Ours(d, ApplyNow(d, e))
<1>1. d.entry[e] \in Row /\ d.entry[e].week \in Week
  BY DEF Good, Database, Row
<1>2. d.entry[e].who = Overseer => ~NoHimIn(d, d.entry[e].week)
  BY DEF NoHimIn
<1> QED
  BY <1>1, <1>2, OursApply DEF ApplyNow

LEMMA OursFill ==
    ASSUME NEW d, Good(d), NEW w \in Week
    PROVE Ours(d, fillEmptySlot(d, w))
<1> DEFINE e == weekEntry(d, w)
<1>1. e # NoEntry => e \in Ids /\ d.entry[e].at = "live"
  BY WeekEntryIs DEF Good, Standing
<1>2. fillEmptySlot(d, w) = d \/ (e # NoEntry /\ fillEmptySlot(d, w) = ApplyNow(d, e))
  BY DEF fillEmptySlot
<1> HIDE DEF e
<1> QED
  BY <1>1, <1>2, OursApplyNow, OursItself

LEMMA NoOneIsHe == NoOne # Overseer
BY TalkConstants

LEMMA OursClear ==
    ASSUME NEW d, Good(d), NEW e, NEW row, row.week \in Week
    PROVE Ours(d, clearProgramSlot(d, e, row))
<1> DEFINE l == [d.line[row.week] EXCEPT !.who = NoOne, !.link = NoEntry]
<1>1. clearProgramSlot(d, e, row) = d \/ clearProgramSlot(d, e, row) = SetLine(d, row.week, l)
  BY DEF clearProgramSlot
<1>2. l.who # Overseer
  BY NoOneIsHe DEF Good, Database, Line
<1> HIDE DEF l
<1> QED
  BY <1>1, <1>2, OursLine, OursItself

LEMMA OursRelease ==
    ASSUME NEW d, Good(d), NEW w \in Week, NEW e \in Ids
    PROVE Ours(d, releaseLine(d, w, e))
<1>1. [d.entry[e] EXCEPT !.week = w].week \in Week
  BY DEF Row, Good, Database
<1> QED
  BY <1>1, OursClear, OursItself DEF releaseLine

LEMMA OursDelete ==
    ASSUME NEW d, Good(d), NEW e \in Ids
    PROVE Ours(d, softDelete(d, e))
<1> DEFINE r == [d.entry[e] EXCEPT !.at = "gone"]
<1>1. Rewrites(d, softDelete(d, e), e, r)
  BY DeletingRewrites
<1>2. r.week \in Week /\ r.aside = d.entry[e].aside /\ r.who = d.entry[e].who /\ r.at = "gone"
  BY DEF Row, Good, Database
<1> HIDE DEF r
<1> QED
  BY <1>1, <1>2, OursRow

\* Rows written whole.
LEMMA OursPut ==
    ASSUME NEW d, Good(d), NEW e \in Ids, NEW row \in Row, row.who # Overseer, row.aside => d.entry[e].aside
    PROVE Ours(d, Put(d, e, row))
<1>1. row.week \in Week
  BY DEF Row
<1> QED
  BY <1>1, PutRewrites, OursRow

LEMMA OursEmptied ==
    ASSUME NEW d, Good(d), NEW w \in Week, NEW e, e = weekEntry(d, w)
    PROVE Ours(d, Emptied(d, w, e))
<1>1. e # NoEntry => e \in Ids
  BY WeekEntryIs DEF Good
<1> DEFINE l == [d.line[w] EXCEPT !.link = NoEntry]
<1>2. l.who = d.line[w].who
  BY DEF Good, Database, Line
<1>3. Emptied(d, w, e) = d \/ (e # NoEntry /\ Emptied(d, w, e) = softDelete(d, e)) \/ Emptied(d, w, e) = SetLine(d, w, l)
  BY DEF Emptied
<1> HIDE DEF l
<1>4. l.who = Overseer => ~NoHimIn(d, w)
  BY <1>2 DEF NoHimIn
<1> QED
  BY <1>1, <1>3, <1>4, OursItself, OursDelete, OursLine

LEMMA OursMirrored ==
    ASSUME NEW d, Good(d), Room(d), NEW w \in Week, NEW e, e = weekEntry(d, w), d.line[w].who # NoOne
    PROVE Ours(d, Mirrored(d, w, e))
<1> PICK x \in Ids, r \in Row, z \in Database : MirroredTo(d, w, e, x, r, z)
  BY MirroredIs
<1> DEFINE m == [d.line[w] EXCEPT !.link = x]
<1>1. /\ Rewrites(d, z, x, r) /\ Good(z)
      /\ IF e = NoEntry THEN d.entry[x].at = "none" /\ r = NewRow(w, d.line[w].who, "app")
         ELSE x = e /\ r = [d.entry[e] EXCEPT !.who = d.line[w].who]
      /\ Mirrored(d, w, e) = IF programmeOpen(w) THEN SetLine(z, w, m) ELSE z
  BY DEF MirroredTo
<1>2. r.week = w /\ r.who = d.line[w].who /\ (r.aside => d.entry[x].aside)
  <2>1. CASE e = NoEntry
    BY <1>1, <2>1 DEF NewRow
  <2>2. CASE e # NoEntry
    <3>1. d.entry[e].week = w /\ d.entry[e] \in Row
      BY <2>2, WeekEntryIs DEF Good, Database
    <3> QED
      BY <1>1, <2>2, <3>1 DEF Row
  <2> QED
    BY <2>1, <2>2
<1>3. Ours(d, z)
  <2>1. r.who # Overseer \/ ~NoHimIn(d, r.week)
    BY <1>2 DEF NoHimIn
  <2> QED
    BY <1>1, <1>2, <2>1, OursRow
<1>4. m.who = z.line[w].who
  BY <1>1 DEF Rewrites, Good, Database, Line
<1> HIDE DEF m
<1>5. Ours(z, SetLine(z, w, m))
  <2>1. m.who = Overseer => ~NoHimIn(z, w)
    BY <1>4 DEF NoHimIn
  <2> QED
    BY <1>1, <2>1, OursLine
<1> QED
  BY <1>1, <1>3, <1>5, OursOn

LEMMA OursOff ==
    ASSUME NEW d, Good(d), NEW e \in Ids, NEW off \in BOOLEAN
    PROVE Ours(d, [d EXCEPT !.entry[e].off = off])
<1> DEFINE r == [d.entry[e] EXCEPT !.off = off]
<1>1. /\ Rewrites(d, [d EXCEPT !.entry[e].off = off], e, r)
      /\ r \in Row /\ r.at = d.entry[e].at /\ r.week = d.entry[e].week
      /\ r.aside = d.entry[e].aside /\ r.who = d.entry[e].who
  BY OffIs
<1>2. r.week \in Week
  BY <1>1 DEF Row
<1> HIDE DEF r
<1> QED
  BY <1>1, <1>2, OursRow

LEMMA OursSync ==
    ASSUME NEW d, Good(d), Room(d), NEW w \in Week, NEW changed
    PROVE Ours(d, syncProgramToJournal(d, w, changed, FALSE))
<1> DEFINE l == d.line[w]
           e == weekEntry(d, w)
           marked == [d EXCEPT !.entry[e].off = TRUE]
           free == [d EXCEPT !.entry[e].off = FALSE]
           s == syncProgramToJournal(d, w, changed, FALSE)
<1>0. e # NoEntry => e \in Ids /\ d.entry[e].at = "live"
  BY WeekEntryIs DEF Good, Standing
<1>1. LineRestored(d, w, FALSE) = d
  BY DEF LineRestored
<1>2. \/ s = d \/ (e # NoEntry /\ s = marked)
      \/ (e # NoEntry /\ s = ApplyNow(free, e)) \/ (e # NoEntry /\ s = ApplyNow(d, e))
      \/ s = Emptied(d, w, e) \/ (l.who # NoOne /\ s = Mirrored(d, w, e))
  <2>1. s = CASE Seen(l) /\ l.at = "cancelled" -> IF e = NoEntry THEN d ELSE marked
            [] e # NoEntry /\ d.entry[e].off /\ ~weekCancelled(d, w) -> ApplyNow(free, e)
            [] OTHER ->
                 IF ~changed
                 THEN IF e # NoEntry /\ (l.link # e \/ l.who = NoOne) THEN ApplyNow(d, e) ELSE d
                 ELSE IF ~Seen(l) \/ l.who = NoOne THEN Emptied(d, w, e) ELSE Mirrored(d, w, e)
    BY <1>1 DEF syncProgramToJournal
  <2> HIDE DEF s, marked, free, e, l
  <2> QED
    BY <2>1
<1>3. Ours(d, Emptied(d, w, e))
  BY OursEmptied
<1>4. l.who # NoOne => Ours(d, Mirrored(d, w, e))
  BY OursMirrored
<1> HIDE DEF e, s
<1>5. e # NoEntry => Ours(d, marked) /\ Ours(d, free) /\ Good(free) /\ free.entry[e].at = "live"
  <2> SUFFICES ASSUME e # NoEntry
               PROVE Ours(d, marked) /\ Ours(d, free) /\ Good(free) /\ free.entry[e].at = "live"
    OBVIOUS
  <2>1. Ours(d, marked) /\ Ours(d, free) /\ Good(free)
    BY <1>0, OursOff, OffGood
  <2>2. Rewrites(d, free, e, [d.entry[e] EXCEPT !.off = FALSE]) /\ [d.entry[e] EXCEPT !.off = FALSE].at = d.entry[e].at
    BY <1>0, OffIs
  <2>3. free.entry[e].at = "live"
    <3> HIDE DEF free
    <3> QED
      BY <1>0, <2>2 DEF Rewrites
  <2> QED
    BY <2>1, <2>3
<1> HIDE DEF marked, free
<1>6. e # NoEntry => Ours(d, ApplyNow(free, e)) /\ Ours(d, ApplyNow(d, e))
  <2> SUFFICES ASSUME e # NoEntry
               PROVE Ours(d, ApplyNow(free, e)) /\ Ours(d, ApplyNow(d, e))
    OBVIOUS
  <2>1. Ours(free, ApplyNow(free, e))
    BY <1>0, <1>5, OursApplyNow
  <2>2. Ours(d, ApplyNow(d, e))
    BY <1>0, OursApplyNow
  <2> QED
    BY <1>5, <2>1, <2>2, OursOn
<1> QED
  BY <1>2, <1>3, <1>4, <1>5, <1>6, OursItself DEF s

LEMMA OursMoved ==
    ASSUME NEW d, Good(d), NEW c,
           c.e \in Ids \cup {NoEntry}, c.x \in Ids \cup {NoEntry}, c.to \in Week, c.from \in Week,
           \A e \in {c.e, c.x} : e # NoEntry => d.entry[e].who # Overseer
    PROVE Ours(d, Moved(d, c))
<1>1. ASSUME NEW y \in Database, NEW e \in Ids \cup {NoEntry}, NEW w \in Week, e # NoEntry => y.entry[e].who # Overseer
      PROVE /\ Ours(y, MovedTo(y, e, w)) /\ MovedTo(y, e, w) \in Database
            /\ \A f \in Ids : MovedTo(y, e, w).entry[f].who = y.entry[f].who
  <2> DEFINE row == [y.entry[e] EXCEPT !.at = "live", !.week = w]
  <2>0. MovedTo(y, e, w) \in Database
    BY <1>1, MovedToTyped
  <2>1. CASE e = NoEntry
    BY <2>0, <2>1, OursItself DEF MovedTo
  <2>2. CASE e # NoEntry
    <3>1. y.entry[e] \in Row /\ e \in Ids
      BY <2>2 DEF Database
    <3>2. row.who = y.entry[e].who /\ row.aside = y.entry[e].aside /\ row.week = w
      BY <3>1 DEF Row
    <3>3. MovedTo(y, e, w) = Put(y, e, row)
      BY <2>2 DEF MovedTo
    <3> HIDE DEF row
    <3>4. Rewrites(y, Put(y, e, row), e, row)
      BY <3>1 DEF Rewrites, Put, Database
    <3>5. Ours(y, Put(y, e, row))
      BY <1>1, <2>2, <3>1, <3>2, <3>4, OursRow
    <3> QED
      BY <2>0, <3>2, <3>3, <3>4, <3>5 DEF Rewrites
  <2> QED
    BY <2>1, <2>2
<1> DEFINE m == MovedTo(d, c.e, c.to)
<1>2. Ours(d, m) /\ m \in Database /\ \A f \in Ids : m.entry[f].who = d.entry[f].who
  <2>1. d \in Database /\ (c.e # NoEntry => d.entry[c.e].who # Overseer)
    BY DEF Good
  <2> QED
    BY <1>1, <2>1
<1> HIDE DEF m
<1>3. Ours(m, MovedTo(m, c.x, c.from))
  <2>1. c.x # NoEntry => m.entry[c.x].who # Overseer
    BY <1>2
  <2> QED
    BY <1>1, <1>2, <2>1
<1> QED
  BY <1>2, <1>3, OursOn DEF Moved, m

LEMMA OursHand ==
    ASSUME NEW d, Good(d), NEW e \in Ids
    PROVE Ours(d, [d EXCEPT !.entry[e].hand = "own"])
<1> DEFINE r == [d.entry[e] EXCEPT !.hand = "own"]
<1>1. [d EXCEPT !.entry[e].hand = "own"] = [d EXCEPT !.entry[e] = r]
  OBVIOUS
<1>2. r.week \in Week /\ r.aside = d.entry[e].aside /\ r.who = d.entry[e].who /\ r.at = d.entry[e].at
      /\ r.week = d.entry[e].week
  BY DEF Row, Good, Database
<1> HIDE DEF r
<1>3. Rewrites(d, [d EXCEPT !.entry[e] = r], e, r)
  BY ChangingRewrites
<1> QED
  BY <1>1, <1>2, <1>3, OursRow

\* A call that names him nowhere, and sets nobody aside.
CallOurs(c, d) ==
    /\ c.call \in {"apply", "saveEntry", "write"} => c.row.who # Overseer /\ ~c.row.aside
    /\ c.call = "saveLine" => c.l.who # Overseer
    /\ c.call = "sync" => ~c.restored
    /\ c.call = "name" => d.entry[c.e].who # Overseer
    /\ c.call = "move" => \A e \in {c.e, c.x} : e # NoEntry => d.entry[e].who # Overseer
    /\ c.call \notin OfVisits \cup {"speaker"}
AllOurs(t, d) == \A i \in 1..Len(t) : CallOurs(t[i], d)

LEMMA RestOurs ==
    ASSUME NEW t \in Seq(Call), t # <<>>, NEW d, AllOurs(t, d)
    PROVE AllOurs(Tail(t), d) /\ CallOurs(t[1], d)
<1>1. Len(t) \in Nat /\ Len(t) >= 1 /\ Len(Tail(t)) = Len(t) - 1
      /\ \A i \in 1..Len(Tail(t)) : Tail(t)[i] = t[i + 1]
  OBVIOUS
<1>2. \A i \in 1..Len(Tail(t)) : i + 1 \in 1..Len(t)
  BY <1>1
<1>3. 1 \in 1..Len(t)
  BY <1>1
<1> QED
  BY <1>1, <1>2, <1>3 DEF AllOurs

\* Entries that were not his are not his, and the calls go on naming him nowhere.
LEMMA OursCarry ==
    ASSUME NEW t \in Seq(Call), NEW d, NoHim(d), NEW y, Ours(d, y), AllOurs(t, d)
    PROVE AllOurs(t, y) /\ NoHim(y)
<1>1. \A e \in Ids : y.entry[e].who = Overseer => d.entry[e].who = Overseer
  BY DEF Ours
<1>2. NoHim(y)
  BY DEF Ours, NoHim
<1>3. ASSUME NEW c \in Call, CallOurs(c, d)
      PROVE CallOurs(c, y)
  <2>1. c.call = "name" => c.e \in Ids
    BY CallFields
  <2>2. c.call = "move" => c.e \in Ids \cup {NoEntry} /\ c.x \in Ids \cup {NoEntry}
    BY CallFields
  <2> QED
    BY <1>1, <1>3, <2>1, <2>2 DEF CallOurs
<1>4. \A i \in 1..Len(t) : t[i] \in Call
  OBVIOUS
<1> QED
  BY <1>2, <1>3, <1>4 DEF AllOurs

LEMMA JoinedOurs ==
    ASSUME NEW s \in Seq(Call), NEW t \in Seq(Call), NEW d, AllOurs(s, d), AllOurs(t, d)
    PROVE AllOurs(s \o t, d)
<1>1. \A i \in 1..Len(s \o t) : (s \o t)[i] = IF i <= Len(s) THEN s[i] ELSE t[i - Len(s)]
  OBVIOUS
<1>2. \A i \in 1..Len(s \o t) : IF i <= Len(s) THEN i \in 1..Len(s) ELSE i - Len(s) \in 1..Len(t)
  OBVIOUS
<1> QED
  BY <1>1, <1>2 DEF AllOurs

LEMMA ShortListsOurs ==
    ASSUME NEW d, NEW a, NEW b, NEW c, NEW e, CallOurs(a, d)
    PROVE /\ AllOurs(<<>>, d) /\ AllOurs(<<a>>, d)
          /\ CallOurs(b, d) => AllOurs(<<a, b>>, d)
          /\ CallOurs(b, d) /\ CallOurs(c, d) => AllOurs(<<a, b, c>>, d)
          /\ CallOurs(b, d) /\ CallOurs(c, d) /\ CallOurs(e, d) => AllOurs(<<a, b, c, e>>, d)
<1>1. AllOurs(<<>>, d) /\ AllOurs(<<a>>, d)
  BY DEF AllOurs
<1>2. CallOurs(b, d) => AllOurs(<<a, b>>, d)
  BY DEF AllOurs
<1>3. CallOurs(b, d) /\ CallOurs(c, d) => AllOurs(<<a, b, c>>, d)
  <2> DEFINE t == <<a, b, c>>
  <2>1. \A i \in 1..Len(t) : t[i] \in {a, b, c}
    OBVIOUS
  <2> HIDE DEF t
  <2> QED
    BY <2>1 DEF AllOurs, t
<1>4. CallOurs(b, d) /\ CallOurs(c, d) /\ CallOurs(e, d) => AllOurs(<<a, b, c, e>>, d)
  <2> DEFINE t == <<a, b, c, e>>
  <2>1. \A i \in 1..Len(t) : t[i] \in {a, b, c, e}
    OBVIOUS
  <2> HIDE DEF t
  <2> QED
    BY <2>1 DEF AllOurs, t
<1> QED
  BY <1>1, <1>2, <1>3, <1>4

\* The calls that name nobody.
LEMMA NamelessOurs ==
    ASSUME NEW d, NEW w, NEW e, NEW row, NEW x
    PROVE /\ CallOurs(On("fill", w), d) /\ CallOurs(On("template", w), d) /\ CallOurs(On("applied", w), d)
          /\ CallOurs(On("adopt", w), d) /\ CallOurs(Sync(w, x), d)
          /\ CallOurs([call |-> "clear", e |-> e, row |-> row], d) /\ CallOurs([call |-> "delete", e |-> e], d)
          /\ CallOurs([call |-> "release", w |-> w, e |-> e], d)
BY DEF CallOurs, On, Sync, OfVisits

LEMMA RowCallsOurs ==
    ASSUME NEW d, NEW e, NEW row, row.who # Overseer, ~row.aside, NEW was, NEW ow
    PROVE /\ CallOurs(Apply(e, row, ow), d) /\ CallOurs([call |-> "write", e |-> e, row |-> row], d)
          /\ CallOurs([call |-> "saveEntry", e |-> e, row |-> row, was |-> was, ow |-> ow], d)
BY DEF CallOurs, Apply, OfVisits

----------------------------------------------------------------------------
\* What a step of such a request makes.
OursOnwards(r) == Ours(db, db') /\ (job'[r].todo = Rest(r) \/ AllOurs(job'[r].todo, db'))

LEMMA DoneOurs ==
    ASSUME TalkInv, NEW r \in Requests, NEW d, Done(r, d), Ours(db, d)
    PROVE OursOnwards(r)
BY DoneTurns DEF OursOnwards

LEMMA OursJournalCalls ==
    ASSUME TalkInv, NEW r \in Requests, CallOurs(Args(r), db),
           RunApply(r) \/ RunRelease(r) \/ RunClear(r) \/ RunDelete(r) \/ RunWrite(r) \/ RunAdopt(r)
    PROVE OursOnwards(r)
<1> DEFINE c == Args(r)
<1>0. Good(db) /\ Busy(r)
  BY InvIsGood DEF RunApply, RunRelease, RunClear, RunDelete, RunWrite, RunAdopt, Doing
<1>1. c \in Call
  BY <1>0, HeadIs
<1>2. CASE RunApply(r)
  <2>1. c.call = "apply" /\ Done(r, applyIncomingToProgram(db, c.e, c.row, c.ow))
    BY <1>2 DEF RunApply, Doing, Args
  <2>2. c.e \in Ids /\ c.row \in Row /\ c.row.who # Overseer /\ ~c.row.aside
    BY <1>1, <2>1, CallFields DEF CallOurs
  <2> QED
    BY <1>0, <2>1, <2>2, OursApply, DoneOurs
<1>3. CASE RunRelease(r)
  <2>1. c.call = "release" /\ Done(r, releaseLine(db, c.w, c.e))
    BY <1>3 DEF RunRelease, Doing, Args
  <2>2. c.e \in Ids /\ c.w \in Week
    BY <1>1, <2>1, CallFields
  <2> QED
    BY <1>0, <2>1, <2>2, OursRelease, DoneOurs
<1>4. CASE RunClear(r)
  <2>1. c.call = "clear" /\ Done(r, clearProgramSlot(db, c.e, c.row))
    BY <1>4 DEF RunClear, Doing, Args
  <2>2. c.e \in Ids /\ c.row.week \in Week
    BY <1>1, <2>1, CallFields DEF Row
  <2> QED
    BY <1>0, <2>1, <2>2, OursClear, DoneOurs
<1>5. CASE RunDelete(r)
  <2>1. c.call = "delete" /\ Done(r, softDelete(db, c.e))
    BY <1>5 DEF RunDelete, Doing, Args
  <2>2. c.e \in Ids
    BY <1>1, <2>1, CallFields
  <2> QED
    BY <1>0, <2>1, <2>2, OursDelete, DoneOurs
<1>6. CASE RunWrite(r)
  <2>1. c.call = "write" /\ Done(r, Put(db, c.e, c.row))
    BY <1>6 DEF RunWrite, Doing, Args
  <2>2. c.e \in Ids /\ c.row \in Row /\ c.row.who # Overseer /\ ~c.row.aside
    BY <1>1, <2>1, CallFields DEF CallOurs
  <2> QED
    BY <1>0, <2>1, <2>2, OursPut, DoneOurs
<1>7. CASE RunAdopt(r)
  <2> DEFINE e == weekEntry(db, c.w)
             y == IF e # NoEntry /\ db.entry[e].hand = "app" THEN [db EXCEPT !.entry[e].hand = "own"] ELSE db
  <2>1. e # NoEntry => e \in Ids
    BY <1>0, WeekEntryIs DEF Good
  <2>2. Done(r, y)
    BY <1>7 DEF RunAdopt
  <2> HIDE DEF e
  <2>3. Ours(db, y)
    BY <1>0, <2>1, OursHand, OursItself
  <2> QED
    BY <2>2, <2>3, DoneOurs
<1> QED
  BY <1>2, <1>3, <1>4, <1>5, <1>6, <1>7

LEMMA OursSaveEntry ==
    ASSUME TalkInv, NEW r \in Requests, CallOurs(Args(r), db), saveEntry(r)
    PROVE OursOnwards(r)
<1> DEFINE c == Args(r)
           left == Standing(c.was) /\ (~c.row.held \/ c.row.week # c.was.week)
           release == [call |-> "release", w |-> c.was.week, e |-> c.e]
           a == Apply(c.e, c.row, c.ow)
           first == IF left THEN <<release>> ELSE <<>>
           y == Put(db, c.e, c.row)
<1>1. Ends(r, db, <<>>) \/ Ends(r, y, first \o <<a>>)
  BY DEF saveEntry
<1>2. Busy(r) /\ c.call = "saveEntry" /\ Good(db)
  BY InvIsGood DEF saveEntry, Doing, Args
<1>3. /\ c.e \in Ids /\ c.row \in Row /\ c.ow \in BOOLEAN /\ c.was.week \in Week
      /\ c.row.who # Overseer /\ ~c.row.aside
  BY <1>2, HeadIs, CallFields DEF Row, CallOurs
<1>4. Ours(db, y)
  BY <1>2, <1>3, OursPut
<1>5. a \in Call /\ release \in Call
  BY <1>3, WeekCalls, EntryCalls
<1>6. CallOurs(a, y) /\ CallOurs(release, y)
  BY <1>3, RowCallsOurs, NamelessOurs
<1> HIDE DEF a, release, left, y, c
<1>7. AllOurs(<<a>>, y) /\ AllOurs(first, y) /\ <<a>> \in Seq(Call) /\ first \in Seq(Call)
  <2>1. AllOurs(<<a>>, y) /\ AllOurs(<<release>>, y) /\ AllOurs(<<>>, y)
    BY <1>6, ShortListsOurs
  <2>2. <<a>> \in Seq(Call) /\ <<release>> \in Seq(Call)
    BY <1>5, ListOfOne
  <2>3. <<>> \in Seq(Call)
    OBVIOUS
  <2> QED
    BY <2>1, <2>2, <2>3
<1> HIDE DEF first
<1>8. AllOurs(first \o <<a>>, y) /\ AllOurs(<<>>, db)
  BY <1>6, <1>7, JoinedOurs DEF AllOurs
<1> QED
  BY <1>1, <1>4, <1>8, EndsTurns, OursItself DEF OursOnwards

LEMMA OursLineCalls ==
    ASSUME TalkInv, NEW r \in Requests, CallOurs(Args(r), db),
           RunFill(r) \/ SaveLine(r) \/ RunSync(r) \/ moveWeekEntries(r) \/ RunName(r)
    PROVE OursOnwards(r)
<1> DEFINE c == Args(r)
<1>0. Good(db) /\ Busy(r)
  BY InvIsGood DEF RunFill, SaveLine, RunSync, moveWeekEntries, RunName, Doing
<1>1. c \in Call
  BY <1>0, HeadIs
<1>2. CASE RunFill(r)
  <2>1. c.call = "fill" /\ Done(r, fillEmptySlot(db, c.w))
    BY <1>2 DEF RunFill, Doing, Args
  <2>2. c.w \in Week
    BY <1>1, <2>1, CallFields
  <2> QED
    BY <1>0, <2>1, <2>2, OursFill, DoneOurs
<1>3. CASE SaveLine(r)
  <2>1. c.call = "saveLine" /\ Done(r, SetLine(db, c.w, c.l))
    BY <1>3 DEF SaveLine, Doing, Args
  <2>2. c.w \in Week /\ c.l.who # Overseer
    BY <1>1, <2>1, CallFields DEF CallOurs
  <2> QED
    BY <1>0, <2>1, <2>2, OursLine, DoneOurs
<1>4. CASE RunSync(r)
  <2>1. c.call = "sync" /\ Room(db) /\ Done(r, syncProgramToJournal(db, c.w, c.changed, c.restored))
    BY <1>4 DEF RunSync, Doing, Args
  <2>2. c.w \in Week /\ c.restored = FALSE
    BY <1>1, <2>1, CallFields DEF CallOurs
  <2> QED
    BY <1>0, <2>1, <2>2, OursSync, DoneOurs
<1>5. CASE moveWeekEntries(r)
  <2>1. c.call = "move" /\ (Ends(r, db, <<>>) \/ Done(r, Moved(db, c)))
    BY <1>5 DEF moveWeekEntries, Doing, Args
  <2>2. /\ c.e \in Ids \cup {NoEntry} /\ c.x \in Ids \cup {NoEntry} /\ c.to \in Week /\ c.from \in Week
        /\ \A e \in {c.e, c.x} : e # NoEntry => db.entry[e].who # Overseer
    BY <1>1, <2>1, CallFields DEF CallOurs
  <2> HIDE DEF c
  <2>3. Ours(db, Moved(db, c))
    BY <1>0, <2>2, OursMoved
  <2>4. AllOurs(<<>>, db)
    BY DEF AllOurs
  <2> QED
    BY <2>1, <2>3, <2>4, DoneOurs, EndsTurns, OursItself DEF OursOnwards
<1>6. CASE RunName(r)
  <2> DEFINE l == [db.line[c.w] EXCEPT !.who = db.entry[c.e].who, !.link = c.e]
             y == IF Seen(db.line[c.w]) THEN SetLine(db, c.w, l) ELSE db
  <2>1. c.call = "name" /\ Done(r, y)
    BY <1>6 DEF RunName, Doing, Args
  <2>2. c.w \in Week /\ db.entry[c.e].who # Overseer
    BY <1>1, <2>1, CallFields DEF CallOurs
  <2>3. l.who = db.entry[c.e].who
    BY <1>0, <2>2 DEF Good, Database, Line
  <2> HIDE DEF l
  <2>4. Ours(db, y)
    BY <1>0, <2>2, <2>3, OursLine, OursItself
  <2> QED
    BY <2>1, <2>4, DoneOurs
<1> QED
  BY <1>2, <1>3, <1>4, <1>5, <1>6

LEMMA OursVisitCalls ==
    ASSUME TalkInv, NEW r \in Requests, db.visit.at # "on", RunTemplate(r) \/ RunApplied(r)
    PROVE OursOnwards(r)
<1>1. \A w : circuitVisitApplied(db, w) = db /\ ~visitOfWeek(db, w)
  BY DEF circuitVisitApplied, visitOfWeek
<1>2. Done(r, db)
  BY <1>1 DEF RunTemplate, RunApplied
<1> QED
  BY <1>2, DoneOurs, OursItself

LEMMA OursGoesOn ==
    ASSUME TalkInv, NEW r \in Requests, Steps(r), db.visit.at # "on", NoHim(db), AllOurs(job[r].todo, db)
    PROVE Ours(db, db') /\ NoHim(db') /\ AllOurs(job'[r].todo, db')
<1>1. Busy(r)
  BY StepGoesOn DEF GoesOn
<1>2. job[r].todo \in Seq(Call) /\ job[r].todo # <<>> /\ Rest(r) \in Seq(Call)
  BY <1>1, HeadIs DEF Job, Busy, Rest
<1>3. AllOurs(Rest(r), db) /\ CallOurs(Args(r), db)
  BY <1>2, RestOurs DEF Rest, Args
<1>4. Args(r).call \notin OfVisits /\ Args(r).call # "speaker"
  BY <1>3 DEF CallOurs
<1>5. ~(RunSaveVisit(r) \/ RunRevert(r) \/ RunVisitMoved(r) \/ RunVisitRemoved(r) \/ DeleteVisit(r) \/ RunSpeaker(r))
  BY <1>4 DEF OfVisits, RunSaveVisit, RunRevert, RunVisitMoved, RunVisitRemoved, DeleteVisit, RunSpeaker, Doing, Args
<1>7. OursOnwards(r)
  BY <1>3, <1>5, OursJournalCalls, OursSaveEntry, OursLineCalls, OursVisitCalls DEF Steps
<1>8. AllOurs(Rest(r), db') /\ NoHim(db') /\ Ours(db, db')
  BY <1>2, <1>3, <1>7, OursCarry DEF OursOnwards
<1> QED
  BY <1>7, <1>8 DEF OursOnwards

----------------------------------------------------------------------------
(* The overseer's rows in a visit's calls.  Entered, he is to come; nobody   *)
(* of his is set aside; the line that names him remembers from whom.         *)

HisRow(row) == (row.at = "live" /\ row.who = Overseer => row.held) /\ (row.aside => row.who # Overseer)
HisRows(d) == \A e \in Ids : HisRow(d.entry[e])
Hands(v) == v.done /\ v.prev # NoPrev
HisLine(d, w) == d.line[w].who = Overseer => Seen(d.line[w]) /\ Hands(d.visit)
HandedTo(d, w) == IF Seen(d.line[w]) THEN d.line[w].who = Overseer /\ Hands(d.visit) ELSE d.line[w].who # Overseer
NoHimBut(d, S) == \A w \in Week \ S : NoHimIn(d, w)

LEMMA HisRowsCarry ==
    ASSUME NEW d, HisRows(d), NEW y, NEW i \in Ids, NEW r, Rewrites(d, y, i, r), HisRow(r)
    PROVE HisRows(y)
BY DEF HisRows, Rewrites

\* A call about one week brings him into no other.
LEMMA NoHimElsewhere ==
    ASSUME NEW d, NEW y, NEW w, Touches(d, y, w), NEW x \in Week, x # w, NoHimIn(d, x)
    PROVE NoHimIn(y, x)
<1>1. y.line[x].who # Overseer
  BY DEF Touches, NoHimIn
<1>2. ASSUME NEW e \in Ids, y.entry[e].at = "live", y.entry[e].week = x
      PROVE y.entry[e].who # Overseer
  <2>1. y.entry[e] = d.entry[e]
    BY <1>2 DEF Touches, OfWeek
  <2> QED
    BY <1>2, <2>1 DEF NoHimIn
<1> QED
  BY <1>1, <1>2 DEF NoHimIn

LEMMA NoHimButOn ==
    ASSUME NEW d, NEW y, NEW w, Touches(d, y, w), NEW S, NoHimBut(d, S)
    PROVE /\ NoHimBut(y, S \cup {w})
          /\ NoHimIn(y, w) => NoHimBut(y, S \ {w})
BY NoHimElsewhere DEF NoHimBut

\* The calls that write a line alone.
LEMMA NoHimLineOf ==
    ASSUME NEW d, NEW y, NEW w, LineOf(d, y, w)
    PROVE /\ \A S : NoHimBut(d, S) => NoHimBut(y, S \cup {w})
          /\ HisRows(d) => HisRows(y)
BY DEF LineOf, NoHimBut, NoHimIn, HisRows

LEMMA HisApplyNow ==
    ASSUME NEW d, Good(d), HisRows(d), NEW e \in Ids
    PROVE HisRows(ApplyNow(d, e))
<1> DEFINE row == d.entry[e]
           off == [row EXCEPT !.off = TRUE]
           m == [d.line[row.week] EXCEPT !.who = row.who, !.link = e]
           y == ApplyNow(d, e)
<1>0. row \in Row /\ row.week \in Week
  BY DEF Good, Database, Row
<1>1. y = d \/ y = Put(d, e, off) \/ y = SetLine(d, row.week, m)
  BY DEF ApplyNow, applyIncomingToProgram
<1>2. HisRow(off)
  BY <1>0 DEF HisRows, HisRow, Row
<1> HIDE DEF off, m, y
<1>3. HisRows(Put(d, e, off))
  BY <1>2, PutRewrites, HisRowsCarry
<1>4. SetLine(d, row.week, m).entry = d.entry
  BY <1>0, LineWritten
<1>5. HisRows(SetLine(d, row.week, m))
  BY <1>4 DEF HisRows
<1> QED
  BY <1>1, <1>3, <1>5 DEF y

LEMMA HisSync ==
    ASSUME NEW d, Good(d), Room(d), AsideSound(d), HisRows(d), NEW w \in Week
    PROVE HisRows(syncProgramToJournal(d, w, TRUE, FALSE))
<1> DEFINE e == weekEntry(d, w)
           l == d.line[w]
           marked == [d EXCEPT !.entry[e].off = TRUE]
           free == [d EXCEPT !.entry[e].off = FALSE]
           s == syncProgramToJournal(d, w, TRUE, FALSE)
<1>0. e # NoEntry => e \in Ids /\ Standing(d.entry[e]) /\ d.entry[e] \in Row /\ ~d.entry[e].aside
  <2>1. e # NoEntry => e \in Ids /\ Standing(d.entry[e])
    BY WeekEntryIs DEF Good
  <2> QED
    BY <2>1, LiveIsNotAside DEF Good, Database, Standing
<1>1. \/ s = d \/ (e # NoEntry /\ s = marked) \/ (e # NoEntry /\ s = ApplyNow(free, e))
      \/ s = Emptied(d, w, e) \/ (l.who # NoOne /\ s = Mirrored(d, w, e))
  <2>1. s = CASE Seen(l) /\ l.at = "cancelled" -> IF e = NoEntry THEN d ELSE marked
            [] e # NoEntry /\ d.entry[e].off /\ ~weekCancelled(d, w) -> ApplyNow(free, e)
            [] OTHER -> IF ~Seen(l) \/ l.who = NoOne THEN Emptied(d, w, e) ELSE Mirrored(d, w, e)
    BY SyncIs
  <2> HIDE DEF s, marked, free, e, l
  <2> QED
    BY <2>1
<1>2. e # NoEntry => HisRows(marked) /\ HisRows(free) /\ Good(free)
  <2> SUFFICES ASSUME e # NoEntry
               PROVE HisRows(marked) /\ HisRows(free) /\ Good(free)
    OBVIOUS
  <2>1. ASSUME NEW off \in BOOLEAN
        PROVE HisRows([d EXCEPT !.entry[e].off = off])
    <3> DEFINE r == [d.entry[e] EXCEPT !.off = off]
    <3>1. /\ Rewrites(d, [d EXCEPT !.entry[e].off = off], e, r)
          /\ r.at = d.entry[e].at /\ r.held = d.entry[e].held /\ r.aside = d.entry[e].aside /\ r.who = d.entry[e].who
      BY <1>0, OffIs
    <3>2. HisRow(r)
      <4> HIDE DEF r, e
      <4> QED
        BY <1>0, <3>1 DEF HisRows, HisRow
    <3> HIDE DEF r, e
    <3> QED
      BY <1>0, <3>1, <3>2, HisRowsCarry
  <2> QED
    BY <1>0, <2>1, OffGood
<1>3. e # NoEntry => HisRows(ApplyNow(free, e))
  <2> HIDE DEF free, e
  <2> QED
    BY <1>0, <1>2, HisApplyNow
<1>4. HisRows(Emptied(d, w, e))
  <2> DEFINE r == [d.entry[e] EXCEPT !.at = "gone"]
             y == Emptied(d, w, e)
  <2>1. y = d \/ (e \in Live(d, w) /\ Rewrites(d, y, e, r)) \/ \E m : y = SetLine(d, w, m)
    BY EmptiedIs
  <2>2. e \in Live(d, w) => e \in Ids /\ HisRow(r)
    BY DEF Live, HisRows, HisRow, Good, Database, Row
  <2> HIDE DEF y, r, e
  <2>3. \A m : HisRows(SetLine(d, w, m))
    BY LineWritten DEF HisRows
  <2> QED
    BY <2>1, <2>2, <2>3, HisRowsCarry DEF y
<1>5. l.who # NoOne => HisRows(Mirrored(d, w, e))
  <2> SUFFICES ASSUME l.who # NoOne
               PROVE HisRows(Mirrored(d, w, e))
    OBVIOUS
  <2> PICK x \in Ids, r \in Row, z \in Database : MirroredTo(d, w, e, x, r, z)
    BY MirroredIs
  <2>1. /\ Rewrites(d, z, x, r) /\ Good(z)
        /\ IF e = NoEntry THEN d.entry[x].at = "none" /\ r = NewRow(w, l.who, "app")
           ELSE x = e /\ r = [d.entry[e] EXCEPT !.who = l.who]
        /\ Mirrored(d, w, e) = z \/ Mirrored(d, w, e) = SetLine(z, w, [l EXCEPT !.link = x])
    BY DEF MirroredTo
  <2>2. r.held /\ ~r.aside
    <3>1. CASE e = NoEntry
      BY <2>1, <3>1 DEF NewRow
    <3>2. CASE e # NoEntry
      BY <1>0, <2>1, <3>2 DEF Standing, Row
    <3> QED
      BY <3>1, <3>2
  <2>3. HisRows(z)
    BY <2>1, <2>2, HisRowsCarry DEF HisRow
  <2>4. SetLine(z, w, [l EXCEPT !.link = x]).entry = z.entry
    BY <2>1, LineWritten
  <2> QED
    BY <2>1, <2>3, <2>4 DEF HisRows
<1> HIDE DEF s, marked, free, e, l
<1> QED
  BY <1>1, <1>2, <1>3, <1>4, <1>5 DEF s

LEMMA HisVisitRows ==
    ASSUME NEW d, Good(d), AsideSound(d), HisRows(d), NEW w
    PROVE /\ HisRows(StepAside(d, w)) /\ HisRows(Linked(d, w)) /\ HisRows(OwnBack(d, w))
          /\ Room(d) => HisRows(FromVisit(d, w))
          /\ HisRows(Gone(d, overseerEntries(d, w, "live")))
          /\ HisRows(returnEntry(d, w))
<1> DEFINE e == weekEntry(d, w)
<1>0. e # NoEntry => e \in Ids /\ Standing(d.entry[e]) /\ d.entry[e] \in Row /\ ~d.entry[e].aside
  <2>1. e # NoEntry => e \in Ids /\ Standing(d.entry[e])
    BY WeekEntryIs DEF Good
  <2> QED
    BY <2>1, LiveIsNotAside DEF Good, Database, Standing
<1>a. \A f \in Ids : d.entry[f] \in Row
  BY DEF Good, Database
<1>1. HisRows(StepAside(d, w))
  <2> DEFINE r == [d.entry[e] EXCEPT !.aside = TRUE, !.at = "gone"]
  <2>1. e # NoEntry /\ ~IsHis(d.entry[e]) => HisRow(r)
    BY <1>0 DEF HisRow, Row, IsHis
  <2>2. IF Seen(d.line[w]) /\ e # NoEntry /\ ~IsHis(d.entry[e]) THEN Rewrites(d, StepAside(d, w), e, r)
        ELSE StepAside(d, w) = d
    BY StepAsideIs
  <2> HIDE DEF r, e
  <2> QED
    BY <1>0, <2>1, <2>2, HisRowsCarry
<1>2. HisRows(Linked(d, w))
  <2> DEFINE r == [d.entry[e] EXCEPT !.his = TRUE]
  <2>1. e # NoEntry => HisRow(r)
    BY <1>0 DEF HisRow, HisRows, Row, Standing
  <2>2. IF e # NoEntry /\ IsHis(d.entry[e]) THEN Rewrites(d, Linked(d, w), e, r) ELSE Linked(d, w) = d
    BY LinkedIs
  <2> HIDE DEF r, e
  <2> QED
    BY <1>0, <2>1, <2>2, HisRowsCarry
<1>3. HisRows(OwnBack(d, w))
  <2>1. ASSUME NEW i \in overseerEntries(d, w, "gone"),
               Rewrites(d, OwnBack(d, w), i, [d.entry[i] EXCEPT !.at = "live", !.his = TRUE])
        PROVE HisRows(OwnBack(d, w))
    <3> DEFINE r == [d.entry[i] EXCEPT !.at = "live", !.his = TRUE]
    <3>1. i \in Ids /\ d.entry[i].held /\ ~d.entry[i].aside
      BY DEF overseerEntries
    <3>2. HisRow(r)
      BY <1>a, <3>1 DEF HisRow, Row
    <3>3. Rewrites(d, OwnBack(d, w), i, r)
      BY <2>1
    <3> HIDE DEF r
    <3> QED
      BY <3>1, <3>2, <3>3, HisRowsCarry
  <2> QED
    BY <2>1, OwnBackIs
<1>4. ASSUME Room(d) PROVE HisRows(FromVisit(d, w))
  <2>1. ASSUME e = NoEntry PROVE HisRows(FromVisit(d, w))
    <3> DEFINE r == [NewRow(w, Overseer, "own") EXCEPT !.his = TRUE]
    <3>1. HisRow(r)
      BY DEF NewRow, HisRow
    <3>2. \E i \in Ids : Rewrites(d, FromVisit(d, w), i, r)
      BY <1>4, <2>1, FromVisitIs
    <3> HIDE DEF r
    <3> QED
      BY <3>1, <3>2, HisRowsCarry
  <2>2. ASSUME e # NoEntry PROVE HisRows(FromVisit(d, w))
    <3> DEFINE r == [d.entry[e] EXCEPT !.who = Overseer]
    <3>1. HisRow(r)
      BY <1>0, <2>2 DEF HisRow, Row, Standing
    <3>2. Rewrites(d, FromVisit(d, w), e, r) \/ FromVisit(d, w) = d
      BY <1>4, <2>2, FromVisitIs
    <3> HIDE DEF r, e
    <3> QED
      BY <1>0, <2>2, <3>1, <3>2, HisRowsCarry
  <2> QED
    BY <2>1, <2>2
<1>5. HisRows(Gone(d, overseerEntries(d, w, "live")))
  <2> DEFINE S == overseerEntries(d, w, "live")
             g == Gone(d, S)
  <2>1. ASSUME NEW i \in S, Rewrites(d, g, i, [d.entry[i] EXCEPT !.at = "gone"])
        PROVE HisRows(g)
    <3> DEFINE r == [d.entry[i] EXCEPT !.at = "gone"]
    <3>1. i \in Ids
      BY DEF overseerEntries
    <3>2. HisRow(r)
      BY <1>a, <3>1 DEF HisRow, HisRows, Row
    <3>3. Rewrites(d, g, i, r)
      BY <2>1
    <3> HIDE DEF r, g
    <3> QED
      BY <3>1, <3>2, <3>3, HisRowsCarry
  <2>2. IF S = {} THEN g = d ELSE \E i \in S : Rewrites(d, g, i, [d.entry[i] EXCEPT !.at = "gone"])
    BY GoneIs
  <2> HIDE DEF g, S
  <2>3. HisRows(g)
    BY <2>1, <2>2
  <2> QED
    BY <2>3 DEF g, S
<1>6. HisRows(returnEntry(d, w))
  <2> DEFINE y == returnEntry(d, w)
  <2>1. ASSUME NEW i \in Marked(d, w), Rewrites(d, y, i, [d.entry[i] EXCEPT !.at = "live", !.aside = FALSE])
        PROVE HisRows(y)
    <3> DEFINE r == [d.entry[i] EXCEPT !.at = "live", !.aside = FALSE]
    <3>1. i \in Ids /\ d.entry[i].aside
      BY DEF Marked
    <3>2. HisRow(r)
      BY <1>a, <3>1 DEF HisRow, HisRows, Row
    <3>3. Rewrites(d, y, i, r)
      BY <2>1
    <3> HIDE DEF r, y
    <3> QED
      BY <3>1, <3>2, <3>3, HisRowsCarry
  <2>2. ASSUME NEW i \in Named(d, w), Rewrites(d, y, i, [d.entry[i] EXCEPT !.at = "live"])
        PROVE HisRows(y)
    <3> DEFINE r == [d.entry[i] EXCEPT !.at = "live"]
    <3>1. i \in Ids /\ d.entry[i].held
      BY DEF Named
    <3>2. HisRow(r)
      BY <1>a, <3>1 DEF HisRow, HisRows, Row
    <3>3. Rewrites(d, y, i, r)
      BY <2>2
    <3> HIDE DEF r, y
    <3> QED
      BY <3>1, <3>2, <3>3, HisRowsCarry
  <2>3. \/ y = d
        \/ \E i \in Marked(d, w) : Rewrites(d, y, i, [d.entry[i] EXCEPT !.at = "live", !.aside = FALSE])
        \/ \E i \in Named(d, w) : Rewrites(d, y, i, [d.entry[i] EXCEPT !.at = "live"])
    BY ReturnIs
  <2> HIDE DEF y
  <2> QED
    BY <2>1, <2>2, <2>3 DEF y
<1> QED
  BY <1>1, <1>2, <1>3, <1>4, <1>5, <1>6

\* The week's line in a visit's coming.
LEMMA HisApplied ==
    ASSUME NEW d, Good(d), Room(d), AsideSound(d), HisRows(d), NEW w \in Week, visitOfWeek(d, w), HandedTo(d, w)
    PROVE LET y == circuitVisitApplied(d, w) IN
          HisRows(y) /\ Touches(d, y, w) /\ SameShow(d, y, w) /\ HisLine(y, w)
<1> DEFINE a == StepAside(d, w)
           b == Linked(a, w)
           c == OwnBack(b, w)
           s == syncProgramToJournal(c, w, TRUE, FALSE)
           l == d.line[w]
           y == circuitVisitApplied(d, w)
<1>0. y = IF Seen(l) THEN Linked(s, w) ELSE FromVisit(c, w)
  BY DEF circuitVisitApplied
<1>1. Good(a) /\ Room(a) /\ AsideSound(a) /\ HisRows(a) /\ Touches(d, a, w) /\ SameShow(d, a, w) /\ a.line = d.line
  BY StepAsideGood, StepAsideSound, HisVisitRows, VisitCallsTouch, LinesStay DEF Leads
<1> HIDE DEF a
<1>2. Good(b) /\ Room(b) /\ AsideSound(b) /\ HisRows(b) /\ Touches(d, b, w) /\ SameShow(d, b, w) /\ b.line = d.line
  <2>1. Good(b) /\ Room(b) /\ AsideSound(b) /\ HisRows(b) /\ b.line = d.line
    BY <1>1, LinkedGood, LinkedSound, HisVisitRows, LinesStay DEF Leads
  <2>2. Touches(a, b, w) /\ SameShow(a, b, w)
    BY <1>1, VisitCallsTouch
  <2> QED
    BY <1>1, <2>1, <2>2, TouchesBoth
<1> HIDE DEF b
<1>3. Good(c) /\ Room(c) /\ AsideSound(c) /\ HisRows(c) /\ Touches(d, c, w) /\ SameShow(d, c, w) /\ c.line = d.line
  <2>1. Good(c) /\ Room(c) /\ AsideSound(c) /\ HisRows(c) /\ c.line = d.line
    BY <1>2, OwnBackGood, OwnBackSound, HisVisitRows, LinesStay DEF Leads
  <2>2. Touches(b, c, w) /\ SameShow(b, c, w)
    BY <1>2, VisitCallsTouch
  <2> QED
    BY <1>2, <2>1, <2>2, TouchesBoth
<1> HIDE DEF c
<1>4. Good(s) /\ AsideSound(s) /\ HisRows(s) /\ Touches(c, s, w) /\ SameShow(c, s, w)
  BY <1>3, SyncGood, SyncSound, HisSync, SyncTouches
<1>5. Touches(d, s, w) /\ SameShow(d, s, w)
  BY <1>3, <1>4, TouchesBoth
<1> HIDE DEF s
<1>6. HisRows(Linked(s, w)) /\ Touches(d, Linked(s, w), w) /\ SameShow(d, Linked(s, w), w)
  <2>1. HisRows(Linked(s, w)) /\ Touches(s, Linked(s, w), w) /\ SameShow(s, Linked(s, w), w)
    BY <1>4, HisVisitRows, VisitCallsTouch
  <2> QED
    BY <1>5, <2>1, TouchesBoth
<1>7. /\ HisRows(FromVisit(c, w)) /\ Touches(d, FromVisit(c, w), w) /\ SameShow(d, FromVisit(c, w), w)
      /\ FromVisit(c, w).line = d.line
  <2>1. HisRows(FromVisit(c, w)) /\ FromVisit(c, w).line = d.line
    BY <1>3, HisVisitRows, LinesStay
  <2>2. Touches(c, FromVisit(c, w), w) /\ SameShow(c, FromVisit(c, w), w)
    BY <1>3, VisitCallsTouch
  <2> QED
    BY <1>3, <2>1, <2>2, TouchesBoth
<1> HIDE DEF l, y
<1>8. HisRows(y) /\ Touches(d, y, w) /\ SameShow(d, y, w) /\ (~Seen(l) => y.line = d.line)
  BY <1>0, <1>6, <1>7
<1>9. HisLine(y, w)
  BY <1>8 DEF HisLine, HandedTo, SameShow, Touches, Seen, l
<1> QED
  BY <1>8, <1>9 DEF y

LEMMA HisTemplate ==
    ASSUME NEW d, Good(d), NEW w \in Week, visitOfWeek(d, w), programmeOpen(w), VisitSound(d.visit),
           HisRows(d), d.visit.prev # Overseer, HisLine(d, w)
    PROVE LET y == templateApply(d) IN
          /\ HisRows(y) /\ y.visit.prev # Overseer /\ HisLine(y, w)
          /\ (Seen(y.line[w]) => Hands(y.visit))
          /\ (Forgotten(d.visit) => HandedTo(y, w))
<1> DEFINE v == d.visit
           l == d.line[v.week]
           y == templateApply(d)
           handOver == Seen(l) /\ v.prev = NoPrev /\ (v.done => l.who # Overseer)
<1>1. /\ LineOf(d, y, v.week) /\ y.visit.at = v.at /\ y.visit.week = v.week
      /\ \/ y = d /\ (v.at = "on" /\ programmeOpen(v.week) => ~Seen(l))
         \/ /\ v.at = "on" /\ y.visit.done
            /\ y.visit.prev = IF ~handOver THEN v.prev ELSE IF l.who = Overseer THEN NoOne ELSE l.who
            /\ y.line[v.week].who = IF handOver THEN Overseer ELSE l.who
  BY TemplateIs
<1>2. v.at = "on" /\ v.week = w /\ l \in Line
  BY DEF visitOfWeek, Good, Database
<1>3. l.who # NoPrev /\ NoOne # Overseer /\ NoOne # NoPrev
  BY <1>2, TalkConstants DEF Line, Speakers
<1>4. HisRows(y)
  BY <1>1, NoHimLineOf
<1> HIDE DEF y
<1>5. Seen(y.line[w]) <=> Seen(l)
  BY <1>1, <1>2 DEF LineOf, SameShow, Seen
<1>6. CASE y = d /\ ~Seen(l)
  <2>1. l.who # Overseer
    BY <1>2, <1>6 DEF HisLine
  <2> QED
    BY <1>2, <1>4, <1>5, <1>6, <2>1 DEF HandedTo, HisLine, y
<1>7. CASE /\ y.visit.done
           /\ y.visit.prev = IF ~handOver THEN v.prev ELSE IF l.who = Overseer THEN NoOne ELSE l.who
           /\ y.line[v.week].who = IF handOver THEN Overseer ELSE l.who
  <2>1. y.visit.prev # Overseer
    BY <1>3, <1>7
  <2>2. Seen(l) => Hands(y.visit)
    BY <1>2, <1>3, <1>7 DEF HisLine, Hands, VisitSound
  <2>3. HisLine(y, w)
    BY <1>2, <1>5, <1>7, <2>2 DEF HisLine
  <2>4. Forgotten(v) => HandedTo(y, w)
    BY <1>2, <1>5, <1>7, <2>2 DEF HandedTo, HisLine, Forgotten
  <2> QED
    BY <1>4, <1>5, <2>1, <2>2, <2>3, <2>4 DEF y
<1> QED
  BY <1>1, <1>2, <1>6, <1>7

LEMMA HisSpeaker ==
    ASSUME NEW d, Good(d), NEW w \in Week, visitOfWeek(d, w), HisRows(d), HisLine(d, w),
           Seen(d.line[w]) => Hands(d.visit)
    PROVE LET y == syncSpeaker(d) IN HisRows(y) /\ y.visit = d.visit /\ HandedTo(y, w)
<1> DEFINE y == syncSpeaker(d)
<1>1. d.visit.week = w
  BY DEF visitOfWeek
<1>2. /\ LineOf(d, y, w) /\ y.visit = d.visit
      /\ y.line[w].who = IF d.visit.done /\ Seen(d.line[w]) THEN Overseer ELSE d.line[w].who
  BY <1>1, SpeakerIs
<1>3. HisRows(y)
  BY <1>2, NoHimLineOf
<1> HIDE DEF y
<1> QED
  BY <1>2, <1>3 DEF HandedTo, HisLine, Hands, LineOf, SameShow, Seen, y

LEMMA HisRevert ==
    ASSUME NEW d, Good(d), NEW w \in Week, visitOfWeek(d, w), HisRows(d), HisLine(d, w), d.visit.prev # Overseer
    PROVE LET y == templateRevert(d, d.visit) IN HisRows(y) /\ y.line[w].who # Overseer /\ y.visit.prev # Overseer
<1> DEFINE y == templateRevert(d, d.visit)
           v == d.visit
<1>1. v.week = w
  BY DEF visitOfWeek
<1>2. /\ LineOf(d, y, w)
      /\ IF v.done THEN /\ ~y.visit.done /\ y.visit.prev = NoPrev
                        /\ y.line[w].who = IF v.prev # NoPrev /\ Seen(d.line[w]) THEN v.prev ELSE d.line[w].who
         ELSE y = d
  BY <1>1, RevertIs
<1>3. HisRows(y)
  BY <1>2, NoHimLineOf
<1>4. NoPrev # Overseer
  BY TalkConstants
<1> HIDE DEF y, v
<1>5. y.line[w].who # Overseer
  BY <1>2 DEF HisLine, Hands, v
<1>6. y.visit.prev # Overseer
  BY <1>2, <1>4 DEF v
<1> QED
  BY <1>3, <1>5, <1>6 DEF y, v

\* His entry leaves a week whose line does not name him.
LEMMA HisGone ==
    ASSUME NEW d, Good(d), AsideSound(d), HisRows(d), NEW w \in Week, d.line[w].who # Overseer,
           NEW a, a.line = d.line, \A e \in Ids \ overseerEntries(d, w, "live") : a.entry[e] = d.entry[e],
           \A e \in overseerEntries(d, w, "live") : a.entry[e].at # "live" \/ a.entry[e].week # w
    PROVE NoHimIn(a, w)
<1>1. ASSUME NEW e \in Ids, a.entry[e].at = "live", a.entry[e].week = w, a.entry[e].who = Overseer
      PROVE FALSE
  <2>1. e \notin overseerEntries(d, w, "live")
    BY <1>1
  <2>2. a.entry[e] = d.entry[e]
    BY <2>1
  <2>3. d.entry[e].held /\ ~d.entry[e].aside
    BY <1>1, <2>2, LiveIsNotAside DEF HisRows, HisRow
  <2> QED
    BY <1>1, <2>1, <2>2, <2>3 DEF overseerEntries, IsHis
<1> QED
  BY <1>1 DEF NoHimIn

LEMMA HisReturns ==
    ASSUME NEW a, Good(a), Room(a), AsideSound(a), HisRows(a), NEW w \in Week, NoHimIn(a, w)
    PROVE LET y == syncProgramToJournal(returnEntry(a, w), w, TRUE, FALSE) IN
          HisRows(y) /\ NoHimIn(y, w) /\ Touches(a, y, w)
<1> DEFINE b == returnEntry(a, w)
           y == syncProgramToJournal(b, w, TRUE, FALSE)
<1>1. Good(b) /\ Room(b) /\ AsideSound(b) /\ HisRows(b) /\ b.line[w].who # Overseer
  <2>1. Good(b) /\ Room(b) /\ AsideSound(b) /\ HisRows(b)
    BY ReturnGood, ReturnSound, HisVisitRows DEF Leads
  <2>2. b.line = a.line
    BY ReturnIs DEF Rewrites
  <2> QED
    BY <2>1, <2>2 DEF NoHimIn
<1>2. NoHimIn(b, w)
  <2>1. ASSUME NEW i \in Marked(a, w), Rewrites(a, b, i, [a.entry[i] EXCEPT !.at = "live", !.aside = FALSE])
        PROVE NoHimIn(b, w)
    <3> DEFINE r == [a.entry[i] EXCEPT !.at = "live", !.aside = FALSE]
    <3>1. i \in Ids /\ a.entry[i].aside
      BY DEF Marked
    <3>2. r.who # Overseer
      BY <3>1 DEF HisRow, HisRows, Row, Good, Database
    <3>3. Rewrites(a, b, i, r)
      BY <2>1
    <3> HIDE DEF r, b
    <3> QED
      BY <1>1, <3>1, <3>2, <3>3 DEF NoHimIn, Rewrites
  <2>2. ASSUME NEW i \in Named(a, w), Rewrites(a, b, i, [a.entry[i] EXCEPT !.at = "live"])
        PROVE NoHimIn(b, w)
    <3> DEFINE r == [a.entry[i] EXCEPT !.at = "live"]
    <3>1. i \in Ids /\ a.entry[i].who = a.line[w].who
      BY DEF Named
    <3>2. r.who # Overseer
      BY <3>1 DEF NoHimIn, Row, Good, Database
    <3>3. Rewrites(a, b, i, r)
      BY <2>2
    <3> HIDE DEF r, b
    <3> QED
      BY <1>1, <3>1, <3>2, <3>3 DEF NoHimIn, Rewrites
  <2>3. \/ b = a
        \/ \E i \in Marked(a, w) : Rewrites(a, b, i, [a.entry[i] EXCEPT !.at = "live", !.aside = FALSE])
        \/ \E i \in Named(a, w) : Rewrites(a, b, i, [a.entry[i] EXCEPT !.at = "live"])
    BY ReturnIs
  <2> HIDE DEF b
  <2> QED
    BY <2>1, <2>2, <2>3
<1>3. Touches(a, y, w)
  BY ReturningTouches
<1> HIDE DEF b
<1>4. HisRows(y) /\ Ours(b, y)
  BY <1>1, HisSync, OursSync
<1>5. NoHimIn(y, w)
  BY <1>2, <1>4 DEF Ours
<1> HIDE DEF y
<1> QED
  BY <1>3, <1>4, <1>5 DEF y, b

\* The overseer's row leaves a week: removed, or gone with the visit to one that nobody stands in.
Leaving(d, a, from, to) ==
    LET S == overseerEntries(d, from, "live") IN
    /\ Good(a) /\ Room(a) /\ a.visit = d.visit /\ a.line = d.line
    /\ \/ a = d /\ S = {}
       \/ \E i \in S : Rewrites(d, a, i, [d.entry[i] EXCEPT !.at = "gone"])
       \/ Live(d, to) = {} /\ \E i \in S : Rewrites(d, a, i, [d.entry[i] EXCEPT !.week = to])

LEMMA MovedLeaves ==
    ASSUME NEW d, Good(d), Room(d), NEW from \in Week, NEW to \in Week, from # to
    PROVE \E a : /\ Leaving(d, a, from, to)
                 /\ circuitVisitMoved(d, from, to) = syncProgramToJournal(returnEntry(a, from), from, TRUE, FALSE)
<1> DEFINE S == overseerEntries(d, from, "live")
           i == CHOOSE x \in S : TRUE
           r == [d.entry[i] EXCEPT !.week = to]
           moved == [d EXCEPT !.entry[i] = r]
           a == IF Live(d, to) # {} \/ S = {} THEN Gone(d, S) ELSE moved
<1>1. circuitVisitMoved(d, from, to) = syncProgramToJournal(returnEntry(a, from), from, TRUE, FALSE)
  <2>1. [d EXCEPT !.entry[i].week = to] = moved
    OBVIOUS
  <2> QED
    BY <2>1 DEF circuitVisitMoved
<1>2. CASE Live(d, to) # {} \/ S = {}
  <2> DEFINE g == Gone(d, S)
  <2>1. a = g
    BY <1>2
  <2> HIDE DEF a
  <2>2. Good(g) /\ Room(g)
    BY GoneGood DEF Leads
  <2>3. IF S = {} THEN g = d ELSE \E j \in S : Rewrites(d, g, j, [d.entry[j] EXCEPT !.at = "gone"])
    BY GoneIs
  <2> HIDE DEF g
  <2>4. g.visit = d.visit /\ g.line = d.line
    BY <2>3 DEF Rewrites
  <2>5. Leaving(d, g, from, to)
    BY <2>2, <2>3, <2>4 DEF Leaving
  <2> QED
    BY <1>1, <2>1, <2>5
<1>3. CASE ~(Live(d, to) # {} \/ S = {})
  <2>1. i \in S /\ a = moved
    BY <1>3
  <2>2. i \in Ids /\ Standing(d.entry[i])
    BY <2>1, HisEntries
  <2>3. [d EXCEPT !.entry[i].week = to] = moved
    OBVIOUS
  <2> HIDE DEF i, a
  <2>5. Good(moved) /\ Room(moved)
    <3>1. Leads(d, [d EXCEPT !.entry[i].week = to])
      BY <1>3, <2>2, GoesWithGood
    <3> HIDE DEF moved
    <3> QED
      BY <2>3, <3>1 DEF Leads
  <2>6. Rewrites(d, moved, i, r)
    <3> HIDE DEF r
    <3> QED
      BY <2>2, ChangingRewrites
  <2> HIDE DEF moved, S
  <2>8. moved.visit = d.visit /\ moved.line = d.line
    BY <2>6 DEF Rewrites
  <2>9. Leaving(d, moved, from, to)
    BY <1>3, <2>1, <2>5, <2>6, <2>8 DEF Leaving, S
  <2> QED
    BY <1>1, <2>1, <2>9
<1> QED
  BY <1>2, <1>3

LEMMA RemovedLeaves ==
    ASSUME NEW d, Good(d), Room(d), NEW w \in Week
    PROVE \E a : /\ Leaving(d, a, w, w)
                 /\ circuitVisitRemoved(d, w) = syncProgramToJournal(returnEntry(a, w), w, TRUE, FALSE)
                 /\ \A i \in overseerEntries(d, w, "live") : a.entry[i].at # "live"
<1> DEFINE S == overseerEntries(d, w, "live")
           g == Gone(d, S)
<1>2. Good(g) /\ Room(g)
  BY GoneGood DEF Leads
<1>3. IF S = {} THEN g = d ELSE \E j \in S : Rewrites(d, g, j, [d.entry[j] EXCEPT !.at = "gone"])
  BY GoneIs
<1>4. circuitVisitRemoved(d, w) = syncProgramToJournal(returnEntry(g, w), w, TRUE, FALSE)
  BY DEF circuitVisitRemoved
<1> HIDE DEF g
<1>5. g.visit = d.visit /\ g.line = d.line
  BY <1>3 DEF Rewrites
<1>6. Leaving(d, g, w, w)
  BY <1>2, <1>3, <1>5 DEF Leaving
<1>7. ASSUME NEW i \in S, NEW j \in S, Rewrites(d, g, j, [d.entry[j] EXCEPT !.at = "gone"])
      PROVE g.entry[i].at # "live"
  <2>1. i = j /\ i \in Ids /\ d.entry[i] \in Row
    BY <1>7, HisEntries
  <2>2. g.entry[i] = [d.entry[i] EXCEPT !.at = "gone"]
    BY <1>7, <2>1 DEF Rewrites
  <2> QED
    BY <2>1, <2>2 DEF Row
<1>8. \A i \in S : g.entry[i].at # "live"
  BY <1>3, <1>7
<1> QED
  BY <1>4, <1>6, <1>8

LEMMA LeavingRows ==
    ASSUME NEW d, Good(d), NEW from \in Week, NEW to \in Week, NEW a, Leaving(d, a, from, to)
    PROVE LET S == overseerEntries(d, from, "live") IN
          /\ \A e \in Ids \ S : a.entry[e] = d.entry[e]
          /\ \A e \in S : a.entry[e].at # "live" \/ a.entry[e].week # from
          /\ \A x \in Week \ {from, to} : SameWeek(d, a, x)
          /\ HisGoes(d, a, from)
          /\ Uncancelled(d) => Uncancelled(a)
          /\ HisRows(d) => HisRows(a)
          /\ AsideSound(d) => AsideSound(a)
          /\ from # to /\ Live(d, to) # {} => SameWeek(d, a, to)
<1> DEFINE S == overseerEntries(d, from, "live")
<1>1. CASE a = d /\ S = {}
  <2>1. \A x : SameWeek(d, a, x)
    BY <1>1 DEF SameWeek, SameRows
  <2> QED
    BY <1>1, <2>1 DEF HisGoes
<1>2. ASSUME NEW i \in S, NEW r, Rewrites(d, a, i, r), ~r.aside, Standing(r) => IsHis(r), ~(Standing(r) /\ r.week = from),
             r.at # "live" \/ r.week # from, Uncancelled(d) => ~r.off, HisRows(d) => HisRow(r), r.at # "gone" => r.week = to
      PROVE /\ \A e \in Ids \ S : a.entry[e] = d.entry[e]
            /\ \A e \in S : a.entry[e].at # "live" \/ a.entry[e].week # from
            /\ \A x \in Week \ {from, to} : SameWeek(d, a, x)
            /\ HisGoes(d, a, from)
            /\ Uncancelled(d) => Uncancelled(a)
            /\ HisRows(d) => HisRows(a)
            /\ AsideSound(d) => AsideSound(a)
            /\ from # to /\ r.at = "gone" => SameWeek(d, a, to)
  <2>1. i \in Ids /\ Live(d, from) = {i} /\ Standing(d.entry[i]) /\ d.entry[i].week = from
    BY HisEntries
  <2>2. \A e \in S : e = i
    BY <2>1, HisEntries
  <2>3. /\ a.line = d.line /\ a.visit = d.visit
        /\ \A f \in Ids : a.entry[f] = IF f = i THEN r ELSE d.entry[f]
    BY <1>2 DEF Rewrites
  <2>4. \A e \in Ids \ S : a.entry[e] = d.entry[e]
    BY <2>3
  <2>5. \A e \in S : a.entry[e].at # "live" \/ a.entry[e].week # from
    BY <1>2, <2>1, <2>2, <2>3
  <2>6. ASSUME NEW x \in Week \ {from}, r.at = "gone" \/ x # to PROVE SameWeek(d, a, x)
    <3>1. Live(a, x) = Live(d, x) /\ i \notin Live(d, x)
      BY <1>2, <2>1, <2>3, <2>6 DEF Live, Standing
    <3>2. Marked(a, x) = Marked(d, x) /\ i \notin Marked(d, x)
      BY <1>2, <2>1, <2>3, <2>6 DEF Marked
    <3> QED
      BY <2>3, <3>1, <3>2 DEF SameWeek, SameRows, Live, Marked
  <2>7. HisGoes(d, a, from)
    BY <1>2 DEF HisGoes
  <2>8. Uncancelled(d) => Uncancelled(a)
    BY <1>2, <2>1, CleanRewrites
  <2>9. HisRows(d) => HisRows(a)
    BY <1>2, <2>1, HisRowsCarry
  <2>10. AsideSound(d) => AsideSound(a)
    BY <1>2, <2>3 DEF AsideSound, AsideRow
  <2> QED
    BY <2>4, <2>5, <2>6, <2>7, <2>8, <2>9, <2>10
<1>3. ASSUME NEW i \in S, Rewrites(d, a, i, [d.entry[i] EXCEPT !.at = "gone"])
      PROVE /\ \A e \in Ids \ S : a.entry[e] = d.entry[e]
            /\ \A e \in S : a.entry[e].at # "live" \/ a.entry[e].week # from
            /\ \A x \in Week \ {from, to} : SameWeek(d, a, x)
            /\ HisGoes(d, a, from)
            /\ Uncancelled(d) => Uncancelled(a)
            /\ HisRows(d) => HisRows(a)
            /\ AsideSound(d) => AsideSound(a)
            /\ from # to => SameWeek(d, a, to)
  <2> DEFINE r == [d.entry[i] EXCEPT !.at = "gone"]
  <2>1. i \in Ids /\ d.entry[i] \in Row /\ ~d.entry[i].aside
    BY HisEntries
  <2>2. r.at = "gone" /\ ~r.aside /\ r.off = d.entry[i].off /\ r.who = d.entry[i].who
    BY <2>1 DEF Row
  <2>3. Rewrites(d, a, i, r)
    BY <1>3
  <2> HIDE DEF r
  <2>4. /\ ~Standing(r) /\ (Uncancelled(d) => ~r.off) /\ HisRow(r)
    BY <2>1, <2>2 DEF Standing, Uncancelled, HisRow
  <2> HIDE DEF S
  <2> QED
    BY <1>2, <2>2, <2>3, <2>4
<1>4. ASSUME NEW i \in S, Live(d, to) = {}, Rewrites(d, a, i, [d.entry[i] EXCEPT !.week = to])
      PROVE /\ \A e \in Ids \ S : a.entry[e] = d.entry[e]
            /\ \A e \in S : a.entry[e].at # "live" \/ a.entry[e].week # from
            /\ \A x \in Week \ {from, to} : SameWeek(d, a, x)
            /\ HisGoes(d, a, from)
            /\ Uncancelled(d) => Uncancelled(a)
            /\ HisRows(d) => HisRows(a)
            /\ AsideSound(d) => AsideSound(a)
  <2> DEFINE r == [d.entry[i] EXCEPT !.week = to]
  <2>1. i \in Ids /\ d.entry[i] \in Row /\ ~d.entry[i].aside /\ IsHis(d.entry[i]) /\ Live(d, from) = {i}
        /\ Standing(d.entry[i])
    BY HisEntries
  <2>2. ~r.aside /\ r.off = d.entry[i].off /\ r.who = d.entry[i].who /\ r.week = to /\ IsHis(r) /\ r.at = "live" /\ r.held
    BY <2>1 DEF Row, IsHis, Standing
  <2>3. Rewrites(d, a, i, r)
    BY <1>4
  <2>4. to # from
    BY <1>4, <2>1
  <2> HIDE DEF r
  <2>5. (Uncancelled(d) => ~r.off) /\ HisRow(r)
    BY <2>1, <2>2 DEF Uncancelled, HisRow
  <2> HIDE DEF S
  <2> QED
    BY <1>2, <2>2, <2>3, <2>4, <2>5
<1>5. (a = d /\ S = {}) \/ (\E i \in S : Rewrites(d, a, i, [d.entry[i] EXCEPT !.at = "gone"]))
      \/ (Live(d, to) = {} /\ \E i \in S : Rewrites(d, a, i, [d.entry[i] EXCEPT !.week = to]))
  BY DEF Leaving
<1> HIDE DEF S
<1>6. CASE \E i \in S : Rewrites(d, a, i, [d.entry[i] EXCEPT !.at = "gone"])
  BY <1>3, <1>6 DEF S
<1>7. CASE Live(d, to) = {} /\ \E i \in S : Rewrites(d, a, i, [d.entry[i] EXCEPT !.week = to])
  BY <1>4, <1>7 DEF S
<1> QED
  BY <1>1, <1>5, <1>6, <1>7 DEF S
=============================================================================
