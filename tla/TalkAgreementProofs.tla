------------------------ MODULE TalkAgreementProofs ------------------------
(* Journal and programme say the same of every week ahead, while requests    *)
(* come one at a time and nothing was done that may part them.  Between its  *)
(* calls a request sets weeks apart, and brings them together by its last:   *)
(* its list of calls tells which weeks, and what is still known of them.     *)
(* The same is kept of the overseer, who is named and entered where his      *)
(* visit brings him, of the guest who steps aside for him, and of what a     *)
(* replacement that fails puts back.  (What each call does to a week that    *)
(* agrees, to him and to his guest, begins at the end of TalkExchangeProofs  *)
(* and goes on here.)                                                        *)
EXTENDS TalkExchangeProofs, SequenceTheorems

----------------------------------------------------------------------------
(* The overseer leaves a week.                                               *)

LEMMA SameWeekNoHim ==
    ASSUME NEW d, NEW y, HisRows(y), NEW x, SameWeek(d, y, x), NoHimIn(d, x)
    PROVE NoHimIn(y, x)
<1>1. ASSUME NEW e \in Ids, y.entry[e].at = "live", y.entry[e].week = x, y.entry[e].who = Overseer
      PROVE FALSE
  <2>1. e \in Live(y, x)
    BY <1>1 DEF HisRows, HisRow, Live, Standing
  <2>2. y.entry[e] = d.entry[e]
    BY <2>1 DEF SameWeek, SameRows
  <2> QED
    BY <1>1, <2>2 DEF NoHimIn
<1> QED
  BY <1>1 DEF NoHimIn, SameWeek

\* The overseer goes out of a week whose line is given back, and nobody else is touched.
LEMMA HisLeaving ==
    ASSUME NEW d, Good(d), AsideSound(d), HisRows(d), NEW from \in Week, NEW to \in Week,
           NEW a, Leaving(d, a, from, to), d.line[from].who # Overseer, NoHimBut(d, {from, to})
    PROVE LET y == syncProgramToJournal(returnEntry(a, from), from, TRUE, FALSE) IN
          /\ HisRows(y) /\ y.visit = d.visit /\ NoHimBut(y, {to} \ {from})
          /\ from # to => y.line[to] = d.line[to]
<1> DEFINE y == syncProgramToJournal(returnEntry(a, from), from, TRUE, FALSE)
<1>1. /\ \A e \in Ids \ overseerEntries(d, from, "live") : a.entry[e] = d.entry[e]
      /\ \A e \in overseerEntries(d, from, "live") : a.entry[e].at # "live" \/ a.entry[e].week # from
      /\ \A x \in Week \ {from, to} : SameWeek(d, a, x)
      /\ HisRows(a) /\ AsideSound(a)
  BY LeavingRows
<1>2. Good(a) /\ Room(a) /\ a.visit = d.visit /\ a.line = d.line
  BY DEF Leaving
<1>3. NoHimIn(a, from)
  BY <1>1, <1>2, HisGone
<1>4. HisRows(y) /\ NoHimIn(y, from) /\ Touches(a, y, from)
  BY <1>1, <1>2, <1>3, HisReturns
<1> HIDE DEF y
<1>5. NoHimBut(a, {from, to})
  BY <1>1, SameWeekNoHim DEF NoHimBut
<1>6. NoHimBut(y, {to} \ {from})
  BY <1>4, <1>5, NoHimElsewhere DEF NoHimBut
<1>7. y.visit = d.visit /\ (from # to => y.line[to] = d.line[to])
  BY <1>2, <1>4 DEF Touches
<1> QED
  BY <1>4, <1>6, <1>7 DEF y

----------------------------------------------------------------------------
(* Line and entry in a visit's calls.                                        *)

LEMMA LineOfTies ==
    ASSUME NEW d, NEW y, NEW w \in Week, LineOf(d, y, w)
    PROVE /\ \A o, c, S : AllBut(o, c, d, S) => AllBut(o, c, y, S \cup {w})
          /\ Uncancelled(d) => Uncancelled(y)
<1>1. \A x \in Week : x # w => SameWeek(d, y, x)
  BY LineOfOthers
<1>2. ASSUME NEW o, NEW c, NEW S, AllBut(o, c, d, S)
      PROVE AllBut(o, c, y, S \cup {w})
  <2>1. AllBut(o, c, d, S \cup {w})
    BY <1>2 DEF AllBut
  <2> QED
    BY <1>1, <2>1, AllButCarries
<1>3. Uncancelled(d) => Uncancelled(y)
  BY DEF Uncancelled, LineOf, SameShow
<1> QED
  BY <1>2, <1>3

LEMMA CleanVisitRows ==
    ASSUME NEW d, Good(d), Uncancelled(d), NEW w
    PROVE /\ Uncancelled(StepAside(d, w)) /\ Uncancelled(Linked(d, w)) /\ Uncancelled(OwnBack(d, w))
          /\ Room(d) => Uncancelled(FromVisit(d, w))
          /\ Uncancelled(returnEntry(d, w))
<1> DEFINE e == weekEntry(d, w)
<1>0. e # NoEntry => e \in Ids
  BY WeekEntryIs DEF Good
<1>a. \A f \in Ids : d.entry[f] \in Row /\ d.entry[f].off = FALSE
  BY DEF Good, Database, Uncancelled, Row
<1>1. Uncancelled(StepAside(d, w))
  <2> DEFINE r == [d.entry[e] EXCEPT !.aside = TRUE, !.at = "gone"]
  <2>1. e # NoEntry => ~r.off
    BY <1>0, <1>a DEF Row
  <2>2. (e # NoEntry /\ Rewrites(d, StepAside(d, w), e, r)) \/ StepAside(d, w) = d
    BY StepAsideIs
  <2> HIDE DEF r, e
  <2> QED
    BY <1>0, <2>1, <2>2, CleanRewrites
<1>2. Uncancelled(Linked(d, w))
  <2> DEFINE r == [d.entry[e] EXCEPT !.his = TRUE]
  <2>1. e # NoEntry => ~r.off
    BY <1>0, <1>a DEF Row
  <2>2. (e # NoEntry /\ Rewrites(d, Linked(d, w), e, r)) \/ Linked(d, w) = d
    BY LinkedIs
  <2> HIDE DEF r, e
  <2> QED
    BY <1>0, <2>1, <2>2, CleanRewrites
<1>3. Uncancelled(OwnBack(d, w))
  <2>1. ASSUME NEW i \in Ids, Rewrites(d, OwnBack(d, w), i, [d.entry[i] EXCEPT !.at = "live", !.his = TRUE])
        PROVE Uncancelled(OwnBack(d, w))
    <3> DEFINE r == [d.entry[i] EXCEPT !.at = "live", !.his = TRUE]
    <3>1. ~r.off
      BY <1>a DEF Row
    <3>2. Rewrites(d, OwnBack(d, w), i, r)
      BY <2>1
    <3> HIDE DEF r
    <3> QED
      BY <3>1, <3>2, CleanRewrites
  <2>2. \A i \in overseerEntries(d, w, "gone") : i \in Ids
    BY DEF overseerEntries
  <2> QED
    BY <2>1, <2>2, OwnBackIs
<1>4. ASSUME Room(d) PROVE Uncancelled(FromVisit(d, w))
  <2>1. ASSUME e = NoEntry PROVE Uncancelled(FromVisit(d, w))
    <3> DEFINE r == [NewRow(w, Overseer, "own") EXCEPT !.his = TRUE]
    <3>1. ~r.off
      BY DEF NewRow
    <3>2. \E i \in Ids : Rewrites(d, FromVisit(d, w), i, r)
      BY <1>4, <2>1, FromVisitIs
    <3> HIDE DEF r
    <3> QED
      BY <3>1, <3>2, CleanRewrites
  <2>2. ASSUME e # NoEntry PROVE Uncancelled(FromVisit(d, w))
    <3> DEFINE r == [d.entry[e] EXCEPT !.who = Overseer]
    <3>1. ~r.off
      BY <1>0, <1>a, <2>2 DEF Row
    <3>2. Rewrites(d, FromVisit(d, w), e, r) \/ FromVisit(d, w) = d
      BY <1>4, <2>2, FromVisitIs
    <3> HIDE DEF r, e
    <3> QED
      BY <1>0, <2>2, <3>1, <3>2, CleanRewrites
  <2> QED
    BY <2>1, <2>2
<1>6. Uncancelled(returnEntry(d, w))
  <2> DEFINE y == returnEntry(d, w)
  <2>1. ASSUME NEW i \in Ids, Rewrites(d, y, i, [d.entry[i] EXCEPT !.at = "live", !.aside = FALSE])
        PROVE Uncancelled(y)
    <3> DEFINE r == [d.entry[i] EXCEPT !.at = "live", !.aside = FALSE]
    <3>2. ~r.off
      BY <1>a DEF Row
    <3>3. Rewrites(d, y, i, r)
      BY <2>1
    <3> HIDE DEF r, y
    <3> QED
      BY <3>2, <3>3, CleanRewrites
  <2>2. ASSUME NEW i \in Ids, Rewrites(d, y, i, [d.entry[i] EXCEPT !.at = "live"])
        PROVE Uncancelled(y)
    <3> DEFINE r == [d.entry[i] EXCEPT !.at = "live"]
    <3>2. ~r.off
      BY <1>a DEF Row
    <3>3. Rewrites(d, y, i, r)
      BY <2>2
    <3> HIDE DEF r, y
    <3> QED
      BY <3>2, <3>3, CleanRewrites
  <2>3. \/ y = d
        \/ \E i \in Marked(d, w) : Rewrites(d, y, i, [d.entry[i] EXCEPT !.at = "live", !.aside = FALSE])
        \/ \E i \in Named(d, w) : Rewrites(d, y, i, [d.entry[i] EXCEPT !.at = "live"])
    BY ReturnIs
  <2>4. Marked(d, w) \subseteq Ids /\ Named(d, w) \subseteq Ids
    BY DEF Marked, Named
  <2> HIDE DEF y
  <2> QED
    BY <2>1, <2>2, <2>3, <2>4 DEF y
<1> QED
  BY <1>1, <1>2, <1>3, <1>4, <1>6

LEMMA LinkedTies ==
    ASSUME NEW d, Good(d), NEW w \in Week, Tied(over, d, w)
    PROVE Tied(over, Linked(d, w), w)
<1> DEFINE e == weekEntry(d, w)
           r == [d.entry[e] EXCEPT !.his = TRUE]
           y == Linked(d, w)
<1>0. e # NoEntry => e \in Ids /\ d.entry[e] \in Row
  BY WeekEntryIs DEF Good, Database
<1>1. (e # NoEntry /\ Rewrites(d, y, e, r)) \/ y = d
  BY LinkedIs
<1>2. e # NoEntry => r.who = d.entry[e].who /\ r.at = d.entry[e].at /\ r.held = d.entry[e].held /\ r.week = d.entry[e].week
  BY <1>0 DEF Row
<1> HIDE DEF r, e, y
<1>3. CASE e # NoEntry /\ Rewrites(d, y, e, r)
  <2>1. Live(y, w) = Live(d, w) /\ y.line = d.line /\ \A f \in Ids : y.entry[f].who = d.entry[f].who
    BY <1>0, <1>2, <1>3 DEF Rewrites, Live, Standing
  <2>2. Live(d, w) \subseteq Ids
    BY DEF Live
  <2> QED
    BY <2>1, <2>2 DEF Tied, y
<1> QED
  BY <1>1, <1>3 DEF y

LEMMA AppliedTies ==
    ASSUME NEW d, Good(d), Room(d), Uncancelled(d), NEW w \in Week, visitOfWeek(d, w)
    PROVE LET y == circuitVisitApplied(d, w) IN
          /\ Uncancelled(y) /\ Touches(d, y, w) /\ SameShow(d, y, w) /\ y.line[w].who = d.line[w].who
          /\ Tied(over, y, w)
<1> DEFINE a == StepAside(d, w)
           b == Linked(a, w)
           c == OwnBack(b, w)
           s == syncProgramToJournal(c, w, TRUE, FALSE)
           l == d.line[w]
           y == circuitVisitApplied(d, w)
<1>0. y = IF Seen(l) THEN Linked(s, w) ELSE FromVisit(c, w)
  BY DEF circuitVisitApplied
<1>1. Good(a) /\ Room(a) /\ Uncancelled(a) /\ Touches(d, a, w) /\ a.line = d.line
  BY StepAsideGood, CleanVisitRows, VisitCallsTouch, LinesStay DEF Leads
<1> HIDE DEF a
<1>2. Good(b) /\ Room(b) /\ Uncancelled(b) /\ Touches(d, b, w) /\ b.line = d.line
  BY <1>1, LinkedGood, CleanVisitRows, VisitCallsTouch, TouchesOn, LinesStay DEF Leads
<1> HIDE DEF b
<1>3. Good(c) /\ Room(c) /\ Uncancelled(c) /\ Touches(d, c, w) /\ c.line = d.line
  BY <1>2, OwnBackGood, CleanVisitRows, VisitCallsTouch, TouchesOn, LinesStay DEF Leads
<1> HIDE DEF c
<1>4. Good(s) /\ Uncancelled(s) /\ Touches(c, s, w) /\ SameShow(c, s, w) /\ s.line[w].who = c.line[w].who /\ Tied(over, s, w)
  BY <1>3, SyncGood, SyncTies
<1> HIDE DEF s
<1>5. LET z == Linked(s, w) IN /\ Uncancelled(z) /\ Touches(s, z, w) /\ z.line = s.line /\ Tied(over, z, w)
  BY <1>4, CleanVisitRows, VisitCallsTouch, LinesStay, LinkedTies
<1>6. LET z == FromVisit(c, w) IN Uncancelled(z) /\ Touches(c, z, w) /\ z.line = c.line
  BY <1>3, CleanVisitRows, VisitCallsTouch, LinesStay
<1> HIDE DEF y, l
<1>7. CASE Seen(l)
  <2>1. y = Linked(s, w)
    BY <1>0, <1>7
  <2>2. Touches(d, y, w)
    BY <1>3, <1>4, <1>5, <2>1, TouchesOn
  <2>3. SameShow(d, y, w) /\ y.line[w].who = d.line[w].who
    BY <1>3, <1>4, <1>5, <2>1 DEF SameShow
  <2> QED
    BY <1>5, <2>1, <2>2, <2>3 DEF y
<1>8. CASE ~Seen(l)
  <2>1. y = FromVisit(c, w)
    BY <1>0, <1>8
  <2>2. Touches(d, y, w)
    BY <1>3, <1>6, <2>1, TouchesOn
  <2>3. y.line = d.line
    BY <1>3, <1>6, <2>1
  <2> QED
    BY <1>6, <1>8, <2>1, <2>2, <2>3 DEF y, SameShow, Tied, l
<1> QED
  BY <1>7, <1>8

LEMMA ReturningTies ==
    ASSUME NEW a, Good(a), Room(a), Uncancelled(a), NEW w \in Week
    PROVE LET y == syncProgramToJournal(returnEntry(a, w), w, TRUE, FALSE) IN
          Uncancelled(y) /\ Touches(a, y, w) /\ Tied(over, y, w) /\ SameShow(a, y, w) /\ y.line[w].who = a.line[w].who
<1> DEFINE b == returnEntry(a, w)
           y == syncProgramToJournal(b, w, TRUE, FALSE)
<1>1. Good(b) /\ Room(b) /\ Uncancelled(b) /\ Touches(a, b, w) /\ b.line = a.line
  <2>1. b.line = a.line
    BY ReturnIs DEF Rewrites
  <2> QED
    BY <2>1, ReturnGood, CleanVisitRows, VisitCallsTouch DEF Leads
<1> HIDE DEF b
<1>2. Uncancelled(y) /\ Touches(b, y, w) /\ Tied(over, y, w) /\ SameShow(b, y, w) /\ y.line[w].who = b.line[w].who
  BY <1>1, SyncTies
<1> HIDE DEF y
<1>3. Touches(a, y, w)
  BY <1>1, <1>2, TouchesOn
<1> QED
  BY <1>1, <1>2, <1>3 DEF y, b, SameShow

----------------------------------------------------------------------------
(* The guest in a visit's calls.  Somebody is to step aside, or has, or       *)
(* nobody has to; and where the visit remembers that nobody spoke, nobody.   *)

Bare(d, S) == \A x \in Week \ S : Marked(d, x) = {}
Awaits(d, w, e) == \E row \in Row : Waiting(d, w, e, row)
IsToGo(d, w, e) ==
    e # NoEntry /\ \E row \in Row : /\ Only(d, w, e, row) /\ Standing(row) /\ row.week = w
                                    /\ ~IsHis(row) /\ ~row.aside
GuestToGo(d, w) ==
    IF Seen(d.line[w])
    THEN \E e \in Ids \cup {NoEntry} : (Awaits(d, w, e) \/ IsToGo(d, w, e)) /\ (d.visit.prev = NoOne => e = NoEntry)
    ELSE Marked(d, w) = {}
GuestGone(d, w) ==
    IF Seen(d.line[w])
    THEN \E e \in Ids \cup {NoEntry} : Awaits(d, w, e) /\ (d.visit.prev = NoOne => e = NoEntry)
    ELSE Marked(d, w) = {}
GuestToCome(d, w) ==
    IF Seen(d.line[w])
    THEN \E e \in Ids \cup {NoEntry} : Awaits(d, w, e) /\ (d.line[w].who = NoOne => e = NoEntry)
    ELSE Marked(d, w) = {}

LEMMA BareOn ==
    ASSUME NEW d, NEW y, NEW S, Bare(d, S), \A x \in Week \ S : SameWeek(d, y, x)
    PROVE Bare(y, S)
BY DEF Bare, SameWeek, SameRows

LEMMA AwaitsCarries ==
    ASSUME NEW d, Good(d), NEW y, NEW w, SameRows(d, y, w), NEW e \in Ids \cup {NoEntry}
    PROVE /\ Awaits(d, w, e) => Awaits(y, w, e)
          /\ IsToGo(d, w, e) => IsToGo(y, w, e)
<1>1. \A row : Waiting(d, w, e, row) => Waiting(y, w, e, row)
  BY RowsCarry
<1>2. \A row : Only(d, w, e, row) => Only(y, w, e, row)
  BY RowsCarry
<1> QED
  BY <1>1, <1>2 DEF Awaits, IsToGo

\* A call that writes the line alone.
LEMMA GuestLineOf ==
    ASSUME NEW d, Good(d), NEW y, NEW w, LineOf(d, y, w), NEW e \in Ids \cup {NoEntry}
    PROVE /\ Seen(y.line[w]) <=> Seen(d.line[w])
          /\ Marked(y, w) = Marked(d, w)
          /\ Awaits(d, w, e) => Awaits(y, w, e)
          /\ IsToGo(d, w, e) => IsToGo(y, w, e)
<1>1. SameRows(d, y, w)
  BY EntriesSame DEF LineOf
<1> QED
  BY <1>1, AwaitsCarries DEF LineOf, SameShow, Seen, SameRows

\* Whoever is entered when the visit comes is to step aside, unless he is the overseer.
LEMMA SomebodyOrNobody ==
    ASSUME NEW d, Good(d), AsideSound(d), NEW w \in Week, Marked(d, w) = {}
    PROVE \E e \in Ids \cup {NoEntry} : (Awaits(d, w, e) \/ IsToGo(d, w, e)) /\ (Live(d, w) = {} => e = NoEntry)
<1> DEFINE x == weekEntry(d, w)
<1>1. x = NoEntry <=> Live(d, w) = {}
  BY OneLive
<1>2. x # NoEntry => x \in Ids /\ Live(d, w) = {x} /\ d.entry[x] \in Row
  BY OneLive
<1>3. \A f \in Live(d, w) : f \in Ids /\ Standing(d.entry[f]) /\ d.entry[f].week = w /\ ~d.entry[f].aside
  BY LiveIsNotAside DEF Live, Standing
<1>a. \E row : row \in Row
  BY NewRowIs, TalkConstants DEF Speakers
<1>4. CASE x # NoEntry /\ ~IsHis(d.entry[x])
  <2>1. Only(d, w, x, d.entry[x])
    BY DEF Only
  <2> HIDE DEF x
  <2>2. IsToGo(d, w, x)
    BY <1>2, <1>3, <1>4, <2>1 DEF IsToGo
  <2> QED
    BY <1>1, <1>2, <1>4, <2>2
<1>5. CASE x = NoEntry \/ IsHis(d.entry[x])
  <2> HIDE DEF x
  <2>1. \A row : Waiting(d, w, NoEntry, row)
    BY <1>1, <1>2, <1>3, <1>5 DEF Waiting
  <2> QED
    BY <1>a, <2>1 DEF Awaits
<1> QED
  BY <1>4, <1>5

LEMMA GuestTemplate ==
    ASSUME NEW d, Good(d), AsideSound(d), NEW w \in Week, visitOfWeek(d, w), programmeOpen(w), Forgotten(d.visit),
           Filled(over, d, w), Marked(d, w) = {}, d.line[w].who # Overseer
    PROVE GuestToGo(templateApply(d), w)
<1> DEFINE v == d.visit
           l == d.line[w]
           y == templateApply(d)
<1>0. v.week = w /\ v.at = "on"
  BY DEF visitOfWeek
<1>1. /\ LineOf(d, y, w)
      /\ Seen(l) => y.visit.prev = l.who
  <2>1. /\ LineOf(d, y, v.week)
        /\ \/ y = d /\ (v.at = "on" /\ programmeOpen(v.week) => ~Seen(d.line[v.week]))
           \/ /\ v.at = "on" /\ y.visit.done
              /\ y.visit.prev = IF ~(Seen(d.line[v.week]) /\ v.prev = NoPrev /\ (v.done => d.line[v.week].who # Overseer))
                                THEN v.prev ELSE IF d.line[v.week].who = Overseer THEN NoOne ELSE d.line[v.week].who
    BY TemplateIs
  <2> HIDE DEF y
  <2> QED
    BY <1>0, <2>1 DEF Forgotten
<1> HIDE DEF y
<1>2. PICK e \in Ids \cup {NoEntry} : (Awaits(d, w, e) \/ IsToGo(d, w, e)) /\ (Live(d, w) = {} => e = NoEntry)
  BY SomebodyOrNobody
<1>3. /\ Seen(y.line[w]) <=> Seen(d.line[w])
      /\ Marked(y, w) = Marked(d, w)
      /\ Awaits(y, w, e) \/ IsToGo(y, w, e)
  BY <1>1, <1>2, GuestLineOf
<1>4. Seen(l) /\ y.visit.prev = NoOne => e = NoEntry
  BY <1>1, <1>2 DEF Filled, programmeOpen
<1> QED
  BY <1>3, <1>4 DEF GuestToGo, y

\* Handed over already.
LEMMA GuestTemplateAgain ==
    ASSUME NEW d, Good(d), NEW w \in Week, visitOfWeek(d, w), HandedTo(d, w), GuestGone(d, w)
    PROVE LET y == templateApply(d) IN HandedTo(y, w) /\ GuestGone(y, w)
<1> DEFINE v == d.visit
           l == d.line[v.week]
           y == templateApply(d)
           handOver == Seen(l) /\ v.prev = NoPrev /\ (v.done => l.who # Overseer)
<1>0. v.week = w /\ v.at = "on"
  BY DEF visitOfWeek
<1>1. /\ LineOf(d, y, w)
      /\ \/ y = d
         \/ /\ y.visit.done
            /\ y.visit.prev = IF ~handOver THEN v.prev ELSE IF l.who = Overseer THEN NoOne ELSE l.who
            /\ y.line[v.week].who = IF handOver THEN Overseer ELSE l.who
  BY <1>0, TemplateIs
<1> HIDE DEF y
<1>2. Seen(y.line[w]) <=> Seen(d.line[w])
  BY <1>1 DEF LineOf, SameShow, Seen
<1>3. ~handOver
  BY <1>0 DEF HandedTo, Hands
<1>4. HandedTo(y, w)
  BY <1>0, <1>1, <1>2, <1>3 DEF HandedTo, Hands
<1>5. Seen(l) => y.visit.prev = v.prev
  BY <1>1, <1>3
<1>6. \A e \in Ids \cup {NoEntry} : Awaits(d, w, e) => Awaits(y, w, e)
  BY <1>1, GuestLineOf
<1>7. Marked(y, w) = Marked(d, w)
  BY <1>1 DEF LineOf, Marked
<1>8. GuestGone(y, w)
  BY <1>0, <1>2, <1>5, <1>6, <1>7 DEF GuestGone
<1> QED
  BY <1>4, <1>8 DEF y

LEMMA GuestSpeaker ==
    ASSUME NEW d, Good(d), NEW w \in Week, visitOfWeek(d, w), GuestGone(d, w)
    PROVE GuestToGo(syncSpeaker(d), w)
<1> DEFINE y == syncSpeaker(d)
<1>1. LineOf(d, y, w) /\ y.visit = d.visit
  BY SpeakerIs DEF visitOfWeek
<1> HIDE DEF y
<1>2. \A e \in Ids \cup {NoEntry} : Awaits(d, w, e) => Awaits(y, w, e)
  BY <1>1, GuestLineOf
<1>3. Marked(y, w) = Marked(d, w) /\ (Seen(y.line[w]) <=> Seen(d.line[w]))
  BY <1>1 DEF LineOf, Marked, SameShow, Seen
<1> QED
  BY <1>1, <1>2, <1>3 DEF GuestGone, GuestToGo, y

LEMMA GuestRevert ==
    ASSUME NEW d, Good(d), NEW w \in Week, visitOfWeek(d, w), HandedTo(d, w), GuestGone(d, w)
    PROVE GuestToCome(templateRevert(d, d.visit), w)
<1> DEFINE y == templateRevert(d, d.visit)
           v == d.visit
<1>0. v.week = w
  BY DEF visitOfWeek
<1>1. /\ LineOf(d, y, w)
      /\ IF v.done THEN y.line[w].who = IF v.prev # NoPrev /\ Seen(d.line[w]) THEN v.prev ELSE d.line[w].who
         ELSE y = d
  BY <1>0, RevertIs
<1> HIDE DEF y
<1>2. \A e \in Ids \cup {NoEntry} : Awaits(d, w, e) => Awaits(y, w, e)
  BY <1>1, GuestLineOf
<1>3. Marked(y, w) = Marked(d, w) /\ (Seen(y.line[w]) <=> Seen(d.line[w]))
  BY <1>1 DEF LineOf, Marked, SameShow, Seen
<1>4. Seen(d.line[w]) => y.line[w].who = v.prev
  BY <1>1 DEF HandedTo, Hands
<1> QED
  BY <1>2, <1>3, <1>4 DEF GuestGone, GuestToCome, y

\* Where there is no programme, nobody is set aside.
LEMMA NobodySetAside ==
    ASSUME NEW d, Good(d), Room(d), AsideSound(d), NEW w \in Week, ~Seen(d.line[w]), Marked(d, w) = {}
    PROVE Marked(circuitVisitApplied(d, w), w) = {}
<1> DEFINE a == StepAside(d, w)
           b == Linked(a, w)
           c == OwnBack(b, w)
           f == FromVisit(c, w)
<1>1. a = d
  BY StepAsideIs
<1> HIDE DEF a
<1>2. Good(b) /\ Room(b) /\ AsideSound(b) /\ Marked(b, w) = {}
  <2>1. \/ b = d
        \/ /\ weekEntry(d, w) # NoEntry
           /\ Rewrites(d, b, weekEntry(d, w), [d.entry[weekEntry(d, w)] EXCEPT !.his = TRUE])
    BY <1>1, LinkedIs
  <2>2. Good(b) /\ Room(b) /\ AsideSound(b)
    BY <1>1, LinkedGood, LinkedSound DEF Leads
  <2>3. CASE weekEntry(d, w) # NoEntry /\ Rewrites(d, b, weekEntry(d, w), [d.entry[weekEntry(d, w)] EXCEPT !.his = TRUE])
    <3> DEFINE e == weekEntry(d, w)
               r == [d.entry[e] EXCEPT !.his = TRUE]
    <3>1. e \in Ids /\ d.entry[e] \in Row /\ Standing(d.entry[e])
      BY <2>3, WeekEntryIs DEF Good, Database
    <3>2. r.at # "gone"
      BY <3>1 DEF Row, Standing
    <3>3. Rewrites(d, b, e, r)
      BY <2>3
    <3> HIDE DEF e, r, b
    <3> QED
      BY <2>2, <3>1, <3>2, <3>3 DEF Marked, Rewrites
  <2> QED
    BY <1>1, <2>1, <2>2, <2>3
<1> HIDE DEF b
<1>3. Good(c) /\ Room(c) /\ AsideSound(c) /\ Marked(c, w) = {}
  <2>2. Good(c) /\ Room(c) /\ AsideSound(c)
    BY <1>2, OwnBackGood, OwnBackSound DEF Leads
  <2>3. ASSUME NEW i \in overseerEntries(b, w, "gone"),
               Rewrites(b, c, i, [b.entry[i] EXCEPT !.at = "live", !.his = TRUE])
        PROVE Marked(c, w) = {}
    <3> DEFINE r == [b.entry[i] EXCEPT !.at = "live", !.his = TRUE]
    <3>1. i \in Ids /\ b.entry[i] \in Row
      BY <1>2 DEF overseerEntries, Good, Database
    <3>2. r.at # "gone"
      BY <3>1 DEF Row
    <3>3. Rewrites(b, c, i, r)
      BY <2>3
    <3> HIDE DEF r, c
    <3> QED
      BY <1>2, <3>1, <3>2, <3>3 DEF Marked, Rewrites
  <2>4. c = b \/ \E i \in overseerEntries(b, w, "gone") :
                   Rewrites(b, c, i, [b.entry[i] EXCEPT !.at = "live", !.his = TRUE])
    BY <1>2, OwnBackIs
  <2> HIDE DEF c
  <2> QED
    BY <1>2, <2>2, <2>3, <2>4
<1> HIDE DEF c
<1>4. Marked(f, w) = {}
  <2> DEFINE e == weekEntry(c, w)
  <2>1. CASE e = NoEntry
    <3> DEFINE r == [NewRow(w, Overseer, "own") EXCEPT !.his = TRUE]
    <3>1. r.at # "gone"
      BY DEF NewRow
    <3>2. \E i \in Ids : Rewrites(c, f, i, r)
      BY <1>3, <2>1, FromVisitIs
    <3> HIDE DEF r, f
    <3> QED
      BY <1>3, <3>1, <3>2 DEF Marked, Rewrites
  <2>2. CASE e # NoEntry
    <3> DEFINE r == [c.entry[e] EXCEPT !.who = Overseer]
    <3>1. e \in Ids /\ c.entry[e] \in Row /\ Standing(c.entry[e])
      BY <1>3, <2>2, WeekEntryIs DEF Good, Database
    <3>2. r.at # "gone"
      BY <3>1 DEF Row, Standing
    <3>3. Rewrites(c, f, e, r) \/ f = c
      BY <1>3, <2>2, FromVisitIs
    <3> HIDE DEF r, f, e
    <3> QED
      BY <1>3, <3>1, <3>2, <3>3 DEF Marked, Rewrites
  <2> QED
    BY <2>1, <2>2
<1>5. circuitVisitApplied(d, w) = d \/ circuitVisitApplied(d, w) = f
  BY DEF circuitVisitApplied, f, c, b, a
<1> HIDE DEF f
<1> QED
  BY <1>4, <1>5

LEMMA GuestApplied ==
    ASSUME NEW d, Good(d), Room(d), AsideSound(d), Uncancelled(d), NEW w \in Week, visitOfWeek(d, w),
           HandedTo(d, w), GuestToGo(d, w)
    PROVE LET y == circuitVisitApplied(d, w) IN HandedTo(y, w) /\ GuestGone(y, w)
<1> DEFINE a == StepAside(d, w)
           b == Linked(a, w)
           c == OwnBack(b, w)
           s == syncProgramToJournal(c, w, TRUE, FALSE)
           y == circuitVisitApplied(d, w)
           l == d.line[w]
<1>0. Seen(l) => y = Linked(s, w)
  BY DEF circuitVisitApplied
<1>1. Touches(d, y, w) /\ SameShow(d, y, w) /\ y.line[w].who = d.line[w].who
  BY AppliedTies
<1>2. HandedTo(y, w)
  <2> HIDE DEF y
  <2> QED
    BY <1>1 DEF HandedTo, Touches, SameShow, Seen
<1>3. CASE ~Seen(l)
  <2>1. Marked(y, w) = {}
    BY <1>3, NobodySetAside DEF GuestToGo
  <2> HIDE DEF y
  <2> QED
    BY <1>1, <1>2, <1>3, <2>1 DEF GuestGone, SameShow, Seen, y
<1>4. CASE Seen(l)
  <2>1. PICK e \in Ids \cup {NoEntry} : (Awaits(d, w, e) \/ IsToGo(d, w, e)) /\ (d.visit.prev = NoOne => e = NoEntry)
    BY <1>4 DEF GuestToGo
  <2>2. \E row \in Row : Waiting(a, w, e, row)
    <3>1. CASE Awaits(d, w, e)
      <4>1. PICK row \in Row : Waiting(d, w, e, row)
        BY <3>1 DEF Awaits
      <4>2. \A x \in Live(d, w) : IsHis(d.entry[x])
        BY <4>1 DEF Waiting
      <4>3. weekEntry(d, w) # NoEntry => weekEntry(d, w) \in Live(d, w)
        BY WeekEntryIs DEF Good, Live
      <4>4. a = d
        BY <4>2, <4>3, StepAsideIs
      <4> QED
        BY <4>1, <4>4
    <3>2. CASE IsToGo(d, w, e)
      <4>1. PICK row \in Row : e # NoEntry /\ Only(d, w, e, row) /\ Standing(row) /\ row.week = w /\ ~IsHis(row) /\ ~row.aside
        BY <3>2 DEF IsToGo
      <4>2. ~Stays(l, e)
        BY <1>4 DEF Stays
      <4> QED
        BY <4>1, <4>2, SteppedAside
    <3> QED
      BY <2>1, <3>1, <3>2
  <2>3. PICK row \in Row : Waiting(a, w, e, row)
    BY <2>2
  <2>4. Good(a) /\ Room(a) /\ a.line = d.line
    BY StepAsideGood, LinesStay DEF Leads
  <2> HIDE DEF a
  <2>5. Waiting(b, w, e, row) /\ Good(b) /\ Room(b) /\ b.line = d.line
    BY <2>3, <2>4, LinkedWaits, LinkedGood, LinesStay DEF Leads
  <2> HIDE DEF b
  <2>6. Waiting(c, w, e, row) /\ Good(c) /\ Room(c) /\ c.line = d.line
    BY <2>5, OwnBackWaits, OwnBackGood, LinesStay DEF Leads
  <2> HIDE DEF c
  <2>7. l.at # "cancelled" /\ l.who = Overseer
    BY <1>4 DEF Uncancelled, HandedTo
  <2>8. Waiting(s, w, e, row) /\ Good(s)
    BY <1>4, <2>6, <2>7, SyncWaits, SyncGood
  <2> HIDE DEF s
  <2>9. Waiting(Linked(s, w), w, e, row)
    BY <2>8, LinkedWaits
  <2> HIDE DEF y, l
  <2>10. Waiting(y, w, e, row) /\ y.visit = d.visit /\ Seen(y.line[w])
    BY <1>0, <1>1, <1>4, <2>9 DEF SameShow, Touches, Seen, l
  <2> QED
    BY <1>2, <2>1, <2>10 DEF GuestGone, Awaits, y
<1> QED
  BY <1>3, <1>4

----------------------------------------------------------------------------
(* What a visit's request has still to do, and where the overseer stands by  *)
(* then.                                                                     *)

HimWhole(d) == HisRows(d) /\ d.visit.prev # Overseer
HimRests(d) ==
    LET w == d.visit.week IN
    IF d.visit.at = "on" THEN HisLine(d, w) /\ NoHimBut(d, {w}) ELSE NoHim(d)

HimComing(o, d, t) ==
    \E w \in Week :
      /\ visitOfWeek(d, w) /\ w > o /\ NoHimBut(d, {w})
      /\ \/ t = <<On("template", w), On("applied", w)>> /\ Forgotten(d.visit) /\ HisLine(d, w)
         \/ t = <<On("applied", w)>> /\ HandedTo(d, w)
HimSaving(o, d, t) ==
    \E w \in Week :
      /\ visitOfWeek(d, w) /\ w > o /\ NoHimBut(d, {w}) /\ HisLine(d, w)
      /\ \/ t = <<Saves(d.visit), On("template", w), On("speaker", w), On("applied", w)>>
         \/ t = <<On("template", w), On("speaker", w), On("applied", w)>>
         \/ t = <<On("speaker", w), On("applied", w)>> /\ (Seen(d.line[w]) => Hands(d.visit))
HimGoing(d, t) ==
    \E w \in Week :
      /\ visitOfWeek(d, w)
      /\ \/ /\ t = <<Reverts(d.visit), On("visitRemoved", w), Deleted>>
            /\ NoHimBut(d, {w}) /\ HisLine(d, w)
         \/ /\ t = <<On("visitRemoved", w), Deleted>>
            /\ NoHimBut(d, {w}) /\ d.line[w].who # Overseer
         \/ t = <<Deleted>> /\ NoHim(d)
HimMoving(o, d, t) ==
    \E from \in Week, to \in Week :
      /\ from # to /\ to > o
      /\ \/ \E v \in Visit :
              /\ v.at = "on" /\ v.week = to /\ Forgotten(v) /\ NoHimBut(d, {from})
              /\ \/ /\ t = <<Reverts(d.visit), Saves(v), On("template", to), MovesOn(from, to), On("applied", to)>>
                    /\ visitOfWeek(d, from) /\ HisLine(d, from)
                 \/ /\ t = <<Saves(v), On("template", to), MovesOn(from, to), On("applied", to)>>
                    /\ d.line[from].who # Overseer
         \/ /\ t = <<On("template", to), MovesOn(from, to), On("applied", to)>>
            /\ visitOfWeek(d, to) /\ Forgotten(d.visit) /\ NoHimBut(d, {from}) /\ d.line[from].who # Overseer
         \/ /\ t = <<MovesOn(from, to), On("applied", to)>>
            /\ visitOfWeek(d, to) /\ NoHimBut(d, {from, to}) /\ d.line[from].who # Overseer /\ HandedTo(d, to)

HimRound(o, d, t) ==
    \/ d.visit.at # "on" /\ NoHim(d) /\ AllOurs(t, d)
    \/ HimComing(o, d, t) \/ HimSaving(o, d, t) \/ HimGoing(d, t) \/ HimMoving(o, d, t)
HimKeeps(o, d, t) == HimWhole(d) /\ IF t = <<>> THEN HimRests(d) ELSE HimRound(o, d, t)

LEMMA NoPrevIsNotHe == NoPrev # Overseer
BY TalkConstants

LEMMA HimApplied ==
    ASSUME TalkInv, NEW r \in Requests, Steps(r), AsideSound(db), HimWhole(db),
           NEW w \in Week, visitOfWeek(db, w), programmeOpen(w), NoHimBut(db, {w}), HandedTo(db, w),
           job[r].todo = <<On("applied", w)>>
    PROVE HimKeeps(over, db', job'[r].todo)
<1> DEFINE c == On("applied", w)
           y == circuitVisitApplied(db, w)
<1>1. c.call = "applied" /\ c.w = w
  BY DEF On
<1> HIDE DEF c
<1>2. Args(r) = c /\ Rest(r) = <<>>
  BY TailsOfThree DEF Args, Rest, c
<1>3. Room(db) /\ job'[r].todo = <<>> /\ db' = y
  BY <1>1, <1>2, VisitCallsRun
<1>4. Good(db)
  BY InvIsGood
<1>5. HisRows(y) /\ Touches(db, y, w) /\ HisLine(y, w)
  BY <1>3, <1>4, HisApplied DEF HimWhole
<1> HIDE DEF y
<1>6. NoHimBut(y, {w} \cup {w}) /\ y.visit = db.visit
  BY <1>5, NoHimButOn DEF Touches
<1>7. {w} \cup {w} = {w}
  OBVIOUS
<1> QED
  BY <1>3, <1>5, <1>6, <1>7 DEF HimKeeps, HimWhole, HimRests, visitOfWeek

\* The template's call, as far as it goes for him.
LEMMA HimHandsOver ==
    ASSUME NEW d, Good(d), NEW w \in Week, visitOfWeek(d, w), programmeOpen(w), VisitSound(d.visit),
           HimWhole(d), HisLine(d, w)
    PROVE LET y == templateApply(d) IN
          /\ HimWhole(y) /\ HisLine(y, w) /\ visitOfWeek(y, w) /\ LineOf(d, y, w)
          /\ (Seen(y.line[w]) => Hands(y.visit))
          /\ (Forgotten(d.visit) => HandedTo(y, w))
          /\ \A S : NoHimBut(d, S) => NoHimBut(y, S \cup {w})
<1> DEFINE y == templateApply(d)
<1>1. /\ HisRows(y) /\ y.visit.prev # Overseer /\ HisLine(y, w)
      /\ (Seen(y.line[w]) => Hands(y.visit)) /\ (Forgotten(d.visit) => HandedTo(y, w))
  BY HisTemplate DEF HimWhole
<1>2. LineOf(d, y, w) /\ y.visit.at = d.visit.at /\ y.visit.week = d.visit.week
  BY TemplateIs DEF visitOfWeek
<1> HIDE DEF y
<1>3. \A S : NoHimBut(d, S) => NoHimBut(y, S \cup {w})
  BY <1>2, NoHimLineOf
<1> QED
  BY <1>1, <1>2, <1>3 DEF HimWhole, visitOfWeek, y

LEMMA HimComingGoesOn ==
    ASSUME TalkInv, NEW r \in Requests, Steps(r), VisitSound(db.visit), AsideSound(db), HimWhole(db),
           HimComing(over, db, job[r].todo)
    PROVE HimKeeps(over, db', job'[r].todo)
<1> PICK w \in Week :
      /\ visitOfWeek(db, w) /\ programmeOpen(w) /\ NoHimBut(db, {w})
      /\ \/ job[r].todo = <<On("template", w), On("applied", w)>> /\ Forgotten(db.visit) /\ HisLine(db, w)
         \/ job[r].todo = <<On("applied", w)>> /\ HandedTo(db, w)
  BY DEF HimComing, programmeOpen
<1>1. CASE job[r].todo = <<On("applied", w)>> /\ HandedTo(db, w)
  BY <1>1, HimApplied
<1>2. CASE job[r].todo = <<On("template", w), On("applied", w)>> /\ Forgotten(db.visit) /\ HisLine(db, w)
  <2> DEFINE c == On("template", w)
             y == templateApply(db)
             t == <<On("applied", w)>>
  <2>1. c.call = "template" /\ c.w = w
    BY DEF On
  <2> HIDE DEF c
  <2>2. Args(r) = c /\ Rest(r) = t
    BY <1>2, TailsOfThree DEF Args, Rest, c
  <2>3. job'[r].todo = t /\ db' = y
    BY <2>1, <2>2, VisitCallsRun
  <2>4. HimWhole(y) /\ visitOfWeek(y, w) /\ HandedTo(y, w) /\ NoHimBut(y, {w} \cup {w})
    BY <1>2, InvIsGood, HimHandsOver
  <2> HIDE DEF y
  <2>5. {w} \cup {w} = {w}
    OBVIOUS
  <2>6. HimComing(over, y, t)
    BY <2>4, <2>5 DEF HimComing, programmeOpen
  <2> QED
    BY <2>3, <2>4, <2>6 DEF HimKeeps, HimRound
<1> QED
  BY <1>1, <1>2

LEMMA HimSavingGoesOn ==
    ASSUME TalkInv, NEW r \in Requests, Steps(r), VisitSound(db.visit), AsideSound(db), HimWhole(db),
           HimSaving(over, db, job[r].todo)
    PROVE HimKeeps(over, db', job'[r].todo)
<1> PICK w \in Week :
      /\ visitOfWeek(db, w) /\ programmeOpen(w) /\ NoHimBut(db, {w}) /\ HisLine(db, w)
      /\ \/ job[r].todo = <<Saves(db.visit), On("template", w), On("speaker", w), On("applied", w)>>
         \/ job[r].todo = <<On("template", w), On("speaker", w), On("applied", w)>>
         \/ job[r].todo = <<On("speaker", w), On("applied", w)>> /\ (Seen(db.line[w]) => Hands(db.visit))
  BY DEF HimSaving, programmeOpen
<1>0. Good(db) /\ db \in Database /\ {w} \cup {w} = {w}
  BY InvIsGood
<1>1. CASE job[r].todo = <<Saves(db.visit), On("template", w), On("speaker", w), On("applied", w)>>
  <2> DEFINE c == Saves(db.visit)
             t == <<On("template", w), On("speaker", w), On("applied", w)>>
  <2>1. c.call = "saveVisit" /\ c.v = db.visit
    BY DEF Saves
  <2> HIDE DEF c
  <2>2. Args(r) = c /\ Rest(r) = t
    BY <1>1, LongTails DEF Args, Rest, c
  <2>3. job'[r].todo = t /\ db' = [db EXCEPT !.visit = db.visit]
    BY <2>1, <2>2, VisitCallsRun DEF OfVisits
  <2>4. db' = db
    BY <1>0, <2>3 DEF Database
  <2>5. HimSaving(over, db, t)
    BY DEF HimSaving, programmeOpen
  <2> QED
    BY <2>3, <2>4, <2>5 DEF HimKeeps, HimRound
<1>2. CASE job[r].todo = <<On("template", w), On("speaker", w), On("applied", w)>>
  <2> DEFINE c == On("template", w)
             t == <<On("speaker", w), On("applied", w)>>
             y == templateApply(db)
  <2>1. c.call = "template" /\ c.w = w
    BY DEF On
  <2> HIDE DEF c
  <2>2. Args(r) = c /\ Rest(r) = t
    BY <1>2, TailsOfThree DEF Args, Rest, c
  <2>3. job'[r].todo = t /\ db' = y
    BY <2>1, <2>2, VisitCallsRun
  <2>4. /\ HimWhole(y) /\ visitOfWeek(y, w) /\ HisLine(y, w) /\ NoHimBut(y, {w} \cup {w})
        /\ (Seen(y.line[w]) => Hands(y.visit))
    BY <1>0, HimHandsOver
  <2> HIDE DEF y
  <2>5. HimSaving(over, y, t)
    BY <1>0, <2>4 DEF HimSaving, programmeOpen
  <2> QED
    BY <2>3, <2>4, <2>5 DEF HimKeeps, HimRound
<1>3. CASE job[r].todo = <<On("speaker", w), On("applied", w)>> /\ (Seen(db.line[w]) => Hands(db.visit))
  <2> DEFINE c == On("speaker", w)
             t == <<On("applied", w)>>
             y == syncSpeaker(db)
  <2>1. c.call = "speaker" /\ c.w = w
    BY DEF On
  <2> HIDE DEF c
  <2>2. Args(r) = c /\ Rest(r) = t
    BY <1>3, TailsOfThree DEF Args, Rest, c
  <2>3. job'[r].todo = t /\ db' = y
    BY <2>1, <2>2, VisitCallsRun
  <2>4. HisRows(y) /\ y.visit = db.visit /\ HandedTo(y, w)
    BY <1>0, <1>3, HisSpeaker DEF HimWhole
  <2>5. LineOf(db, y, w)
    BY <1>0, SpeakerIs DEF visitOfWeek
  <2> HIDE DEF y
  <2>6. NoHimBut(y, {w} \cup {w})
    BY <2>5, NoHimLineOf
  <2>7. HimComing(over, y, t)
    BY <1>0, <2>4, <2>6 DEF HimComing, programmeOpen, visitOfWeek
  <2> QED
    BY <2>3, <2>4, <2>7 DEF HimKeeps, HimRound, HimWhole
<1> QED
  BY <1>1, <1>2, <1>3

LEMMA HimGoingGoesOn ==
    ASSUME TalkInv, NEW r \in Requests, Steps(r), VisitSound(db.visit), AsideSound(db), HimWhole(db),
           HimGoing(db, job[r].todo)
    PROVE HimKeeps(over, db', job'[r].todo)
<1> PICK w \in Week :
      /\ visitOfWeek(db, w)
      /\ \/ /\ job[r].todo = <<Reverts(db.visit), On("visitRemoved", w), Deleted>>
            /\ NoHimBut(db, {w}) /\ HisLine(db, w)
         \/ /\ job[r].todo = <<On("visitRemoved", w), Deleted>>
            /\ NoHimBut(db, {w}) /\ db.line[w].who # Overseer
         \/ job[r].todo = <<Deleted>> /\ NoHim(db)
  BY DEF HimGoing
<1>0. Good(db) /\ db \in Database /\ {w} \cup {w} = {w}
  BY InvIsGood
<1>1. CASE /\ job[r].todo = <<Reverts(db.visit), On("visitRemoved", w), Deleted>>
           /\ NoHimBut(db, {w}) /\ HisLine(db, w)
  <2> DEFINE c == Reverts(db.visit)
             t == <<On("visitRemoved", w), Deleted>>
             y == templateRevert(db, db.visit)
  <2>1. c.call = "revert" /\ c.v = db.visit
    BY DEF Reverts
  <2> HIDE DEF c
  <2>2. Args(r) = c /\ Rest(r) = t
    BY <1>1, TailsOfThree DEF Args, Rest, c
  <2>3. job'[r].todo = t /\ db' = y
    BY <2>1, <2>2, VisitCallsRun DEF OfVisits
  <2>4. HimWhole(y) /\ y.line[w].who # Overseer
    BY <1>0, <1>1, HisRevert DEF HimWhole
  <2>5. LineOf(db, y, w) /\ visitOfWeek(y, w)
    BY <1>0, RevertIs DEF visitOfWeek
  <2> HIDE DEF y
  <2>6. NoHimBut(y, {w} \cup {w})
    BY <1>1, <2>5, NoHimLineOf
  <2>7. HimGoing(y, t)
    BY <1>0, <2>4, <2>5, <2>6 DEF HimGoing
  <2> QED
    BY <2>3, <2>4, <2>7 DEF HimKeeps, HimRound
<1>2. CASE /\ job[r].todo = <<On("visitRemoved", w), Deleted>>
           /\ NoHimBut(db, {w}) /\ db.line[w].who # Overseer
  <2> DEFINE c == On("visitRemoved", w)
             t == <<Deleted>>
             y == circuitVisitRemoved(db, w)
  <2>1. c.call = "visitRemoved" /\ c.w = w
    BY DEF On
  <2> HIDE DEF c
  <2>2. Args(r) = c /\ Rest(r) = t
    BY <1>2, TailsOfThree DEF Args, Rest, c
  <2>3. job'[r].todo = t /\ Room(db) /\ db' = y
    BY <2>1, <2>2, VisitCallsRun DEF OfVisits
  <2>4. PICK a : Leaving(db, a, w, w) /\ y = syncProgramToJournal(returnEntry(a, w), w, TRUE, FALSE)
    BY <1>0, <2>3, RemovedLeaves
  <2>5. NoHimBut(db, {w, w})
    BY <1>0, <1>2
  <2> HIDE DEF y
  <2>6. HisRows(y) /\ y.visit = db.visit /\ NoHimBut(y, {w} \ {w})
    BY <1>0, <1>2, <2>4, <2>5, HisLeaving DEF HimWhole
  <2>7. NoHim(y)
    BY <2>6 DEF NoHim, NoHimBut
  <2>8. HimGoing(y, t)
    BY <2>6, <2>7 DEF HimGoing, visitOfWeek
  <2> QED
    BY <2>3, <2>6, <2>8 DEF HimKeeps, HimRound, HimWhole
<1>3. CASE job[r].todo = <<Deleted>> /\ NoHim(db)
  <2> DEFINE y == [db EXCEPT !.visit.at = "gone"]
  <2>1. Args(r) = Deleted /\ Rest(r) = <<>>
    BY <1>3, TailsOfThree DEF Args, Rest
  <2>2. job'[r].todo = <<>> /\ db' = y
    BY <2>1, VisitCallsRun DEF Deleted, OfVisits
  <2>3. y.entry = db.entry /\ y.line = db.line /\ y.visit = [db.visit EXCEPT !.at = "gone"] /\ db.visit \in Visit
    BY <1>0 DEF Database
  <2>4. y.visit.at = "gone" /\ y.visit.prev = db.visit.prev
    BY <2>3 DEF Visit
  <2> HIDE DEF y
  <2>5. HisRows(y) /\ NoHim(y)
    BY <1>3, <2>3 DEF HimWhole, HisRows, NoHim, NoHimIn
  <2> QED
    BY <2>2, <2>4, <2>5 DEF HimKeeps, HimRests, HimWhole
<1> QED
  BY <1>1, <1>2, <1>3

----------------------------------------------------------------------------
(* How each request opens: the database it leaves, its calls, and what it    *)
(* reads to put back.                                                        *)

Opens(r, d, calls, back) ==
    /\ db' = d /\ job'[r].todo = calls /\ job'[r].back = back
    /\ past \subseteq past' /\ (db.visit.at = "on" => "beside a visit" \in past')

LEMMA OpensSo ==
    ASSUME TalkInv, NEW r \in Requests, NEW kind, kind \notin VisitKinds, NEW d, NEW calls, NEW back,
           BeginWith(r, kind, d, calls, back)
    PROVE Opens(r, d, calls, back) /\ past' = past \cup LeavesBehind(r, kind, d, calls)
<1>1. job'[r] = [todo |-> calls, back |-> back] /\ db' = d
  BY BeginIsAmong
<1>2. past' = past \cup LeavesBehind(r, kind, d, calls)
  BY DEF BeginWith
<1>3. db.visit.at = "on" => "beside a visit" \in LeavesBehind(r, kind, d, calls)
  <2>1. "beside a visit" \in Causes
    BY DEF Causes
  <2> DEFINE P(c) ==
       \/ c = "overlap" /\ \E x \in Requests \ {r} : Busy(x)
       \/ c = "line back" /\ kind = "restoreLine"
       \/ c = "line emptied" /\ kind = "editLine" /\ calls[1].l.who = NoOne
       \/ c = "cancelled" /\ kind = "cancelLine"
       \/ c = "beside a visit" /\ kind \notin VisitKinds /\ db.visit.at = "on"
  <2>2. LeavesBehind(r, kind, d, calls) = {c \in Causes : P(c)}
    BY DEF LeavesBehind
  <2>3. db.visit.at = "on" => P("beside a visit")
    OBVIOUS
  <2> HIDE DEF P
  <2> QED
    BY <2>1, <2>2, <2>3
<1>4. job'[r].todo = calls /\ job'[r].back = back
  BY <1>1
<1>5. past \subseteq past' /\ (db.visit.at = "on" => "beside a visit" \in past')
  BY <1>2, <1>3
<1> QED
  BY <1>1, <1>2, <1>4, <1>5 DEF Opens

LEMMA SimplyOpens ==
    ASSUME TalkInv, NEW r \in Requests, NEW kind, kind \notin VisitKinds, NEW d, NEW calls, Begin(r, kind, d, calls)
    PROVE Opens(r, d, calls, NoBack) /\ past' = past \cup LeavesBehind(r, kind, d, calls)
BY OpensSo DEF Begin

\* A booking: a row of its own for a week nobody stands in.
Creates(r) ==
    \E e \in Ids, row \in Row, ow \in BOOLEAN :
      /\ db.entry[e].at = "none" /\ Live(db, row.week) = {}
      /\ row.at = "live" /\ row.held /\ row.who \in Guests /\ ~row.aside /\ row.off = weekCancelled(db, row.week)
      /\ Opens(r, Put(db, e, row), <<Apply(e, row, ow)>>, NoBack)

LEMMA CreateOpens ==
    ASSUME TalkInv, NEW r \in Requests, CreateEntry(r)
    PROVE Creates(r)
<1>1. PICK w \in Week, g \in Guests, hand \in {"own", "noted"}, ow \in BOOLEAN :
        /\ Live(db, w) = {} /\ Room(db)
        /\ Begin(r, "create", Put(db, NewId(db), [NewRow(w, g, hand) EXCEPT !.off = weekCancelled(db, w)]),
                 <<Apply(NewId(db), [NewRow(w, g, hand) EXCEPT !.off = weekCancelled(db, w)], ow)>>)
  BY DEF CreateEntry
<1> DEFINE row == [NewRow(w, g, hand) EXCEPT !.off = weekCancelled(db, w)]
           e == NewId(db)
<1>2. row \in Row /\ row.week = w
  BY DEF NewRow, Row, Speakers, weekCancelled, Seen
<1>3. row.at = "live" /\ row.held /\ row.who \in Guests /\ ~row.aside /\ row.off = weekCancelled(db, w)
  BY DEF NewRow
<1>4. e \in Ids /\ db.entry[e].at = "none"
  BY <1>1, InvIsGood, NewIdIs
<1>5. "create" \notin VisitKinds
  BY DEF VisitKinds
<1> HIDE DEF row, e
<1>6. Opens(r, Put(db, e, row), <<Apply(e, row, ow)>>, NoBack)
  BY <1>1, <1>5, SimplyOpens DEF row, e
<1> QED
  BY <1>1, <1>2, <1>3, <1>4, <1>6 DEF Creates

\* A row read, and to be saved whole: another speaker, another week, or missed and not.
Changes(r) ==
    \E e \in Ids, row \in Row, ow \in BOOLEAN :
      LET was == db.entry[e] IN
      /\ was.at = "live" /\ row.at = "live" /\ row.aside = was.aside
      /\ ~WeekTaken(db, e, row)
      /\ row.who = was.who \/ row.who \in Guests
      /\ row.off = was.off \/ row.off = weekCancelled(db, row.week)
      /\ row.held \/ row.week = was.week
      /\ Opens(r, db, <<[call |-> "saveEntry", e |-> e, row |-> row, was |-> was, ow |-> ow]>>, NoBack)

LEMMA SaveAsOpens ==
    ASSUME TalkInv, NEW r \in Requests, NEW kind, kind \notin VisitKinds, NEW e, NEW row, NEW ow,
           SaveAs(r, kind, e, row, ow)
    PROVE /\ ~WeekTaken(db, e, row)
          /\ Opens(r, db, <<[call |-> "saveEntry", e |-> e, row |-> row, was |-> db.entry[e], ow |-> ow]>>, NoBack)
BY SimplyOpens DEF SaveAs

LEMMA ChangesOpen ==
    ASSUME TalkInv, NEW r \in Requests, ChangeSpeaker(r) \/ ShiftWeek(r) \/ Missed(r)
    PROVE Changes(r)
<1>0. "change" \notin VisitKinds /\ "shift" \notin VisitKinds /\ "missed" \notin VisitKinds
  BY DEF VisitKinds
<1>1. CASE ChangeSpeaker(r)
  <2>1. PICK e \in Ids, g \in Guests, ow \in BOOLEAN :
          db.entry[e].at = "live" /\ SaveAs(r, "change", e, [db.entry[e] EXCEPT !.who = g], ow)
    BY <1>1, Zenon DEF ChangeSpeaker
  <2> DEFINE was == db.entry[e]
             row == [was EXCEPT !.who = g]
  <2>2. was \in Row
    BY RowRead
  <2>3. /\ row \in Row /\ row.at = was.at /\ row.aside = was.aside /\ row.who \in Guests /\ row.off = was.off
        /\ row.week = was.week
    <3> HIDE DEF was
    <3> QED
      BY <2>2 DEF Row, Speakers
  <2> HIDE DEF row
  <2>4. /\ ~WeekTaken(db, e, row)
        /\ Opens(r, db, <<[call |-> "saveEntry", e |-> e, row |-> row, was |-> was, ow |-> ow]>>, NoBack)
    BY <1>0, <2>1, SaveAsOpens DEF row
  <2> QED
    BY <2>1, <2>3, <2>4 DEF Changes
<1>2. CASE ShiftWeek(r)
  <2>1. PICK e \in Ids, w \in Week, ow \in BOOLEAN :
          /\ Standing(db.entry[e])
          /\ SaveAs(r, "shift", e, [db.entry[e] EXCEPT !.week = w, !.off = weekCancelled(db, w)], ow)
    BY <1>2, Zenon DEF ShiftWeek
  <2> DEFINE was == db.entry[e]
             row == [was EXCEPT !.week = w, !.off = weekCancelled(db, w)]
  <2>2. was \in Row /\ weekCancelled(db, w) \in BOOLEAN
    BY RowRead DEF weekCancelled, Seen
  <2>3. /\ row \in Row /\ row.at = was.at /\ row.aside = was.aside /\ row.who = was.who /\ row.held = was.held
        /\ row.off = weekCancelled(db, row.week)
    <3> HIDE DEF was
    <3> QED
      BY <2>2 DEF Row
  <2> HIDE DEF row
  <2>4. /\ ~WeekTaken(db, e, row)
        /\ Opens(r, db, <<[call |-> "saveEntry", e |-> e, row |-> row, was |-> was, ow |-> ow]>>, NoBack)
    BY <1>0, <2>1, SaveAsOpens DEF row
  <2> QED
    BY <2>1, <2>3, <2>4 DEF Changes, Standing
<1>3. CASE Missed(r)
  <2>1. PICK e \in Ids :
          LET row == db.entry[e] IN
          /\ row.at = "live"
          /\ SaveAs(r, "missed", e, [row EXCEPT !.held = ~@, !.off = IF row.held THEN @ ELSE weekCancelled(db, row.week)], FALSE)
    BY <1>3, Zenon DEF Missed
  <2> DEFINE was == db.entry[e]
             row == [was EXCEPT !.held = ~@, !.off = IF was.held THEN @ ELSE weekCancelled(db, was.week)]
  <2>2. was \in Row /\ weekCancelled(db, was.week) \in BOOLEAN
    BY RowRead DEF weekCancelled, Seen
  <2>3. /\ row \in Row /\ row.at = was.at /\ row.aside = was.aside /\ row.who = was.who /\ row.week = was.week
        /\ row.off = was.off \/ row.off = weekCancelled(db, row.week)
    <3> HIDE DEF was
    <3> QED
      BY <2>2 DEF Row
  <2> HIDE DEF row
  <2>4. /\ ~WeekTaken(db, e, row)
        /\ Opens(r, db, <<[call |-> "saveEntry", e |-> e, row |-> row, was |-> was, ow |-> FALSE]>>, NoBack)
    BY <1>0, <2>1, SaveAsOpens DEF row
  <2> QED
    BY <2>1, <2>3, <2>4 DEF Changes
<1> QED
  BY <1>1, <1>2, <1>3

Removes(r) ==
    \E e \in Ids :
      /\ db.entry[e].at = "live"
      /\ Opens(r, db, <<[call |-> "clear", e |-> e, row |-> db.entry[e]], [call |-> "delete", e |-> e]>>, NoBack)

LEMMA RemoveOpens ==
    ASSUME TalkInv, NEW r \in Requests, RemoveEntry(r)
    PROVE Removes(r)
<1>1. PICK e \in Ids :
        /\ db.entry[e].at = "live"
        /\ Begin(r, "remove", db, <<[call |-> "clear", e |-> e, row |-> db.entry[e]], [call |-> "delete", e |-> e]>>)
  BY DEF RemoveEntry
<1>2. "remove" \notin VisitKinds
  BY DEF VisitKinds
<1> QED
  BY <1>1, <1>2, SimplyOpens DEF Removes

\* A guest set aside goes elsewhere, and the visit, if it stands, forgets him.
Elsewhere(r) ==
    \E e \in Ids, row \in Row : \E d :
      /\ db.entry[e].at = "gone" /\ db.entry[e].aside /\ Live(db, row.week) = {}
      /\ row.at = "live" /\ ~row.aside /\ row.off = weekCancelled(db, row.week)
      /\ row.who = db.entry[e].who /\ row.held = db.entry[e].held
      /\ Rewrites(db, Put(db, e, row), e, row) /\ d.entry = Put(db, e, row).entry /\ d.line = db.line
      /\ db.visit.at # "on" => d = Put(db, e, row)
      /\ Opens(r, d, <<Apply(e, row, FALSE)>>, NoBack)

LEMMA ElsewhereOpens ==
    ASSUME TalkInv, NEW r \in Requests, moveSetAside(r)
    PROVE Elsewhere(r)
<1>1. PICK e \in Ids, w \in Week :
        LET row == [db.entry[e] EXCEPT !.week = w, !.at = "live", !.aside = FALSE,
                                       !.off = weekCancelled(db, w)]
            d == Put(db, e, row)
        IN  /\ db.entry[e].at = "gone" /\ db.entry[e].aside /\ Live(db, w) = {}
            /\ Begin(r, "elsewhere",
                  [d EXCEPT !.visit.prev = IF d.visit.at = "on" /\ @ # NoPrev THEN NoOne ELSE @],
                  <<Apply(e, row, FALSE)>>)
  BY ZenonT(40) DEF moveSetAside
<1> DEFINE was == db.entry[e]
           row == [was EXCEPT !.week = w, !.at = "live", !.aside = FALSE, !.off = weekCancelled(db, w)]
           d == Put(db, e, row)
           prev == IF d.visit.at = "on" /\ d.visit.prev # NoPrev THEN NoOne ELSE d.visit.prev
           x == [d EXCEPT !.visit.prev = prev]
<1>2. Begin(r, "elsewhere", x, <<Apply(e, row, FALSE)>>)
  BY <1>1
<1>3. was \in Row /\ weekCancelled(db, w) \in BOOLEAN
  BY RowRead DEF weekCancelled, Seen
<1>4. /\ row \in Row /\ row.week = w /\ row.at = "live" /\ ~row.aside /\ row.off = weekCancelled(db, row.week)
      /\ row.who = was.who /\ row.held = was.held
  <2> HIDE DEF was
  <2> QED
    BY <1>3 DEF Row
<1> HIDE DEF row
<1>5. d.visit = db.visit /\ d \in Database /\ Rewrites(db, d, e, row)
  <2>1. Rewrites(db, d, e, row)
    BY InvIsGood, PutRewrites
  <2>2. ~WeekTaken(db, e, row)
    BY <1>1, <1>4, FreeWeek
  <2> QED
    BY <1>4, <2>1, <2>2, InvIsGood, PutGood DEF Rewrites, Good
<1>11. Rewrites(db, Put(db, e, row), e, row)
  BY <1>5
<1> HIDE DEF d
<1>6. db.visit.at # "on" => x = d
  BY <1>5 DEF Database, Visit
<1>12. x.entry = d.entry /\ x.line = d.line
  BY <1>5 DEF Database
<1>13. x.entry = Put(db, e, row).entry /\ x.line = db.line
  BY <1>5, <1>12 DEF d, Rewrites
<1>7. "elsewhere" \notin VisitKinds
  BY DEF VisitKinds
<1> HIDE DEF x
<1>8. Opens(r, x, <<Apply(e, row, FALSE)>>, NoBack)
  BY <1>2, <1>7, SimplyOpens
<1>9. /\ db.entry[e].at = "gone" /\ db.entry[e].aside /\ Live(db, row.week) = {}
      /\ row.who = db.entry[e].who /\ row.held = db.entry[e].held
  BY <1>1, <1>4
<1>10. db.visit.at # "on" => x = Put(db, e, row)
  BY <1>6 DEF d
<1> QED
  BY <1>4, <1>8, <1>9, <1>10, <1>11, <1>13 DEF Elsewhere

\* The programme's line: a new one, an edited one, a cancelled one, one removed.
BringsLine(r) ==
    \E w \in Week, l \in Line, x \in BOOLEAN :
      /\ db.line[w].at = "none" /\ programmeOpen(w)
      /\ l.at = "on" /\ ~l.removed /\ l.who \in Guests \cup {NoOne} /\ l.link = NoEntry /\ (x <=> l.who # NoOne)
      /\ Opens(r, SetLine(db, w, l), <<On("fill", w), Sync(w, x), On("template", w), On("applied", w)>>, NoBack)
WritesLine(r) ==
    \E w \in Week, l \in Line, x \in BOOLEAN :
      /\ Seen(db.line[w]) /\ programmeOpen(w) /\ l.removed = db.line[w].removed /\ l.link = db.line[w].link
      /\ x <=> l.who # db.line[w].who
      /\ \/ l.at = db.line[w].at /\ l.who \in Guests \cup {NoOne} /\ (l.who = NoOne => "line emptied" \in past')
         \/ l.who = db.line[w].who /\ "cancelled" \in past'
      /\ Opens(r, db, <<[call |-> "saveLine", w |-> w, l |-> l], Sync(w, x)>>, NoBack)
RemovesLine(r) ==
    \E w \in Week, l \in Line :
      /\ Seen(db.line[w]) /\ programmeOpen(w)
      /\ l.removed /\ l.at = db.line[w].at /\ l.who = db.line[w].who /\ l.link = db.line[w].link
      /\ Opens(r, SetLine(db, w, l), <<Sync(w, TRUE)>>, NoBack)

LEMMA LinesOpen ==
    ASSUME TalkInv, NEW r \in Requests
    PROVE /\ NewLine(r) => BringsLine(r)
          /\ EditLine(r) \/ CancelLine(r) => WritesLine(r)
          /\ RemoveLine(r) => RemovesLine(r)
<1>0. /\ "newLine" \notin VisitKinds /\ "editLine" \notin VisitKinds /\ "cancelLine" \notin VisitKinds
      /\ "removeLine" \notin VisitKinds
  BY DEF VisitKinds
<1>1. ASSUME NewLine(r)
      PROVE BringsLine(r)
  <2>1. PICK w \in Week, g \in Guests \cup {NoOne} :
          /\ db.line[w].at = "none" /\ programmeOpen(w)
          /\ Begin(r, "newLine",
                SetLine(db, w, [at |-> "on", removed |-> FALSE, who |-> g, link |-> NoEntry]),
                <<On("fill", w), Sync(w, g # NoOne), On("template", w), On("applied", w)>>)
    BY <1>1 DEF NewLine
  <2> DEFINE l == [at |-> "on", removed |-> FALSE, who |-> g, link |-> NoEntry]
             x == g # NoOne
  <2>2. l \in Line /\ l.at = "on" /\ ~l.removed /\ l.who = g /\ l.link = NoEntry
    BY DEF Line, Speakers
  <2>3. x \in BOOLEAN /\ (x <=> l.who # NoOne) /\ l.who \in Guests \cup {NoOne}
    BY <2>2
  <2>4. Opens(r, SetLine(db, w, l), <<On("fill", w), Sync(w, x), On("template", w), On("applied", w)>>, NoBack)
    BY <1>0, <2>1, SimplyOpens
  <2> HIDE DEF l, x
  <2> QED
    BY <2>1, <2>2, <2>3, <2>4 DEF BringsLine
<1>2. ASSUME NEW kind \in {"editLine", "cancelLine"}, NEW w \in Week, NEW l \in Line, SaveLineAs(r, kind, w, l),
             l.removed = db.line[w].removed, l.link = db.line[w].link,
             \/ l.at = db.line[w].at /\ l.who \in Guests \cup {NoOne} /\ kind = "editLine"
             \/ l.who = db.line[w].who /\ kind = "cancelLine"
      PROVE WritesLine(r)
  <2> DEFINE x == l.who # db.line[w].who
             one == [call |-> "saveLine", w |-> w, l |-> l]
             calls == <<one, Sync(w, x)>>
  <2>1. Seen(db.line[w]) /\ programmeOpen(w) /\ Begin(r, kind, db, calls)
    BY <1>2 DEF SaveLineAs
  <2>2. calls[1].l = l
    <3>1. calls[1] = one
      OBVIOUS
    <3> QED
      BY <3>1
  <2> HIDE DEF calls
  <2>3. Opens(r, db, calls, NoBack) /\ past' = past \cup LeavesBehind(r, kind, db, calls)
    BY <1>0, <2>1, SimplyOpens
  <2>4. kind = "editLine" /\ l.who = NoOne => "line emptied" \in past'
    BY <2>2, <2>3 DEF LeavesBehind, Causes
  <2>5. kind = "cancelLine" => "cancelled" \in past'
    BY <2>3 DEF LeavesBehind, Causes
  <2>6. x \in BOOLEAN
    OBVIOUS
  <2>7. Opens(r, db, <<one, Sync(w, x)>>, NoBack) /\ (x <=> l.who # db.line[w].who)
    BY <2>3 DEF calls
  <2> HIDE DEF x
  <2> QED
    BY <1>2, <2>1, <2>4, <2>5, <2>6, <2>7 DEF WritesLine
<1>3. ASSUME EditLine(r)
      PROVE WritesLine(r)
  <2>1. PICK w \in Week, g \in Guests \cup {NoOne} : SaveLineAs(r, "editLine", w, [db.line[w] EXCEPT !.who = g])
    BY <1>3, Zenon DEF EditLine
  <2> DEFINE old == db.line[w]
             l == [old EXCEPT !.who = g]
  <2>2. old \in Line
    BY LineRead
  <2>3. l \in Line /\ l.removed = old.removed /\ l.link = old.link /\ l.at = old.at /\ l.who = g
    <3> HIDE DEF old
    <3> QED
      BY <2>2 DEF Line, Speakers
  <2>4. SaveLineAs(r, "editLine", w, l)
    BY <2>1
  <2> HIDE DEF l
  <2> QED
    BY <1>2, <2>3, <2>4
<1>4. ASSUME CancelLine(r)
      PROVE WritesLine(r)
  <2>1. PICK w \in Week :
          SaveLineAs(r, "cancelLine", w, [db.line[w] EXCEPT !.at = IF @ = "on" THEN "cancelled" ELSE "on"])
    BY <1>4, Zenon DEF CancelLine
  <2> DEFINE old == db.line[w]
             l == [old EXCEPT !.at = IF @ = "on" THEN "cancelled" ELSE "on"]
  <2>2. old \in Line
    BY LineRead
  <2>3. l \in Line /\ l.removed = old.removed /\ l.link = old.link /\ l.who = old.who
    <3> HIDE DEF old
    <3> QED
      BY <2>2 DEF Line
  <2>4. SaveLineAs(r, "cancelLine", w, l)
    BY <2>1
  <2> HIDE DEF l
  <2> QED
    BY <1>2, <2>3, <2>4
<1>5. ASSUME RemoveLine(r)
      PROVE RemovesLine(r)
  <2>1. PICK w \in Week :
          /\ Seen(db.line[w]) /\ programmeOpen(w)
          /\ Begin(r, "removeLine", SetLine(db, w, [db.line[w] EXCEPT !.removed = TRUE]), <<Sync(w, TRUE)>>)
    BY <1>5 DEF RemoveLine
  <2> DEFINE old == db.line[w]
             l == [old EXCEPT !.removed = TRUE]
  <2>2. old \in Line
    BY LineRead
  <2>3. l \in Line /\ l.removed /\ l.at = old.at /\ l.who = old.who /\ l.link = old.link
    <3> HIDE DEF old
    <3> QED
      BY <2>2 DEF Line
  <2>4. Opens(r, SetLine(db, w, l), <<Sync(w, TRUE)>>, NoBack)
    BY <1>0, <2>1, SimplyOpens
  <2> HIDE DEF l
  <2> QED
    BY <2>1, <2>3, <2>4 DEF RemovesLine
<1> QED
  BY <1>1, <1>3, <1>4, <1>5

\* Two weekends exchanged, or one moved: the lines at once.
Exchanges(r) ==
    \E s \in Week, t \in Week, swap \in BOOLEAN, ns \in Line, nt \in Line :
      LET ls == db.line[s]
          lt == db.line[t]
          es == weekEntry(db, s)
          et == weekEntry(db, t)
          back == IF swap THEN et ELSE NoEntry
      IN  /\ s # t /\ Seen(ls) /\ Seen(lt) /\ programmeOpen(s) /\ programmeOpen(t)
          /\ ~visitOfWeek(db, s) /\ ~visitOfWeek(db, t) /\ (swap \/ et = NoEntry)
          /\ nt.at = lt.at /\ nt.removed = lt.removed /\ nt.who = ls.who /\ nt.link = ls.link
          /\ ns.at = ls.at /\ ns.removed = ls.removed
          /\ IF swap THEN ns.who = lt.who /\ ns.link = lt.link ELSE ns.who = NoOne /\ ns.link = NoEntry
          /\ Opens(r, SetLine(SetLine(db, t, nt), s, ns),
                   <<[call |-> "move", e |-> es, to |-> t, x |-> back, from |-> s], Sync(s, TRUE), Sync(t, TRUE)>>,
                   NoBack)

LEMMA SwapOpens ==
    ASSUME TalkInv, NEW r \in Requests, SwapTalks(r)
    PROVE Exchanges(r)
<1>1. PICK s \in Week, t \in Week, swap \in BOOLEAN :
        LET ls == db.line[s]
            lt == db.line[t]
            es == weekEntry(db, s)
            et == weekEntry(db, t)
            back == IF swap THEN et ELSE NoEntry
        IN  /\ s # t /\ Seen(ls) /\ Seen(lt) /\ programmeOpen(s) /\ programmeOpen(t)
            /\ ~visitOfWeek(db, s) /\ ~visitOfWeek(db, t)
            /\ swap \/ et = NoEntry
            /\ Begin(r, "swap",
                  [db EXCEPT !.line[t] = [lt EXCEPT !.who = ls.who, !.link = ls.link],
                             !.line[s] = IF swap THEN [ls EXCEPT !.who = lt.who, !.link = lt.link]
                                         ELSE [ls EXCEPT !.who = NoOne, !.link = NoEntry]],
                  <<[call |-> "move", e |-> es, to |-> t, x |-> back, from |-> s],
                    Sync(s, TRUE), Sync(t, TRUE)>>)
  BY ZenonT(40) DEF SwapTalks
<1> DEFINE ls == db.line[s]
           lt == db.line[t]
           es == weekEntry(db, s)
           et == weekEntry(db, t)
           back == IF swap THEN et ELSE NoEntry
           nt == [lt EXCEPT !.who = ls.who, !.link = ls.link]
           ns == IF swap THEN [ls EXCEPT !.who = lt.who, !.link = lt.link]
                 ELSE [ls EXCEPT !.who = NoOne, !.link = NoEntry]
           x == [db EXCEPT !.line[t] = nt, !.line[s] = ns]
           calls == <<[call |-> "move", e |-> es, to |-> t, x |-> back, from |-> s],
                      Sync(s, TRUE), Sync(t, TRUE)>>
<1>2. /\ s # t /\ Seen(ls) /\ Seen(lt) /\ programmeOpen(s) /\ programmeOpen(t)
      /\ ~visitOfWeek(db, s) /\ ~visitOfWeek(db, t) /\ (swap \/ et = NoEntry)
      /\ Begin(r, "swap", x, calls)
  BY <1>1
<1>3. ls \in Line /\ lt \in Line
  BY LineRead
<1>4. /\ nt \in Line /\ nt.at = lt.at /\ nt.removed = lt.removed /\ nt.who = ls.who /\ nt.link = ls.link
      /\ ns \in Line /\ ns.at = ls.at /\ ns.removed = ls.removed
      /\ IF swap THEN ns.who = lt.who /\ ns.link = lt.link ELSE ns.who = NoOne /\ ns.link = NoEntry
  <2> HIDE DEF ls, lt
  <2> QED
    BY <1>3 DEF Line
<1> HIDE DEF nt, ns, calls
<1>5. x = SetLine(SetLine(db, t, nt), s, ns)
  BY InvIsGood DEF SetLine, Database
<1>6. "swap" \notin VisitKinds
  BY DEF VisitKinds
<1> HIDE DEF x
<1>7. Opens(r, SetLine(SetLine(db, t, nt), s, ns), calls, NoBack)
  BY <1>2, <1>5, <1>6, SimplyOpens
<1> HIDE DEF es, et
<1> QED
  BY <1>2, <1>4, <1>7 DEF Exchanges, calls, es, et

\* Another speaker came: the entry closed, the line saved, the journal after it.
Replaces(r) ==
    \E w \in Week, l \in Line :
      LET e == weekEntry(db, w)
          old == db.line[w]
          b == [call |-> "saveLine", w |-> w, l |-> l]
      IN  /\ Seen(old) /\ programmeOpen(w)
          /\ l.at = old.at /\ l.removed = old.removed /\ l.who \in Guests /\ l.link = NoEntry
          /\ e = NoEntry => Opens(r, db, <<b, Sync(w, TRUE), On("adopt", w)>>, [w |-> w, lines |-> <<old>>, rows |-> <<>>])
          /\ e # NoEntry => \E row \in Row :
               /\ ~row.held /\ row.who = db.entry[e].who /\ row.aside = db.entry[e].aside
               /\ row.week = db.entry[e].week /\ row.off = db.entry[e].off /\ row.at = db.entry[e].at
               /\ Opens(r, db, <<[call |-> "write", e |-> e, row |-> row], b, Sync(w, TRUE), On("adopt", w)>>,
                        [w |-> w, lines |-> <<old>>, rows |-> <<<<e, db.entry[e]>>>>])

\* Lists are the same that have the same calls.
LEMMA SameList ==
    ASSUME NEW S, NEW u \in Seq(S), NEW v \in Seq(S), Len(u) = Len(v), \A i \in 1..Len(u) : u[i] = v[i]
    PROVE u = v
OBVIOUS

LEMMA OneJoined ==
    ASSUME NEW S, NEW p \in Seq(S), NEW q \in Seq(S), Len(p) = 1
    PROVE /\ p \o q \in Seq(S) /\ Len(p \o q) = Len(q) + 1 /\ (p \o q)[1] = p[1]
          /\ \A i \in 1..Len(q) : (p \o q)[i + 1] = q[i]
<1>1. /\ p \o q \in Seq(S) /\ Len(p \o q) = Len(p) + Len(q)
      /\ \A i \in 1..(Len(p) + Len(q)) : (p \o q)[i] = IF i <= Len(p) THEN p[i] ELSE q[i - Len(p)]
  BY ConcatProperties
<1> DEFINE u == p \o q
<1> HIDE DEF u
<1>2. /\ u \in Seq(S) /\ Len(u) = 1 + Len(q) /\ Len(q) \in Nat
      /\ \A i \in 1..(1 + Len(q)) : u[i] = IF i <= 1 THEN p[i] ELSE q[i - 1]
  BY <1>1 DEF u
<1>3. ASSUME NEW i \in 1..Len(q)
      PROVE u[i + 1] = q[i]
  <2>1. i + 1 \in 1..(1 + Len(q)) /\ ~(i + 1 <= 1) /\ i + 1 - 1 = i
    BY <1>2
  <2> QED
    BY <1>2, <2>1
<1>4. u[1] = p[1]
  BY <1>2
<1> QED
  BY <1>2, <1>3, <1>4 DEF u

LEMMA OneAndThree ==
    ASSUME NEW a, NEW b, NEW c, NEW e, NEW p, p = <<a>>, NEW q, q = <<b, c, e>>
    PROVE p \o q = <<a, b, c, e>>
<1> DEFINE S == {a, b, c, e}
           u == p \o q
           v == <<a, b, c, e>>
<1>1. p \in Seq(S) /\ Len(p) = 1 /\ p[1] = a
  OBVIOUS
<1>2. q \in Seq(S) /\ Len(q) = 3 /\ q[1] = b /\ q[2] = c /\ q[3] = e
  OBVIOUS
<1>3. v \in Seq(S) /\ Len(v) = 4 /\ v[1] = a /\ v[2] = b /\ v[3] = c /\ v[4] = e
  OBVIOUS
<1> HIDE DEF S, v
<1>4. u \in Seq(S) /\ Len(u) = 4
  BY <1>1, <1>2, OneJoined
<1>5. u[1] = p[1] /\ u[2] = q[1] /\ u[3] = q[2] /\ u[4] = q[3]
  BY <1>1, <1>2, OneJoined
<1> HIDE DEF u
<1>6. \A i \in 1..Len(u) : u[i] = v[i]
  BY <1>1, <1>2, <1>3, <1>4, <1>5
<1>7. u = v
  BY <1>3, <1>4, <1>6, SameList
<1> QED
  BY <1>7 DEF u, v

LEMMA OneAndTwo ==
    ASSUME NEW a, NEW b, NEW c, NEW p, p = <<a>>, NEW q, q = <<b, c>>
    PROVE p \o q = <<a, b, c>>
<1> DEFINE S == {a, b, c}
           u == p \o q
           v == <<a, b, c>>
<1>1. p \in Seq(S) /\ Len(p) = 1 /\ p[1] = a
  OBVIOUS
<1>2. q \in Seq(S) /\ Len(q) = 2 /\ q[1] = b /\ q[2] = c
  OBVIOUS
<1>3. v \in Seq(S) /\ Len(v) = 3 /\ v[1] = a /\ v[2] = b /\ v[3] = c
  OBVIOUS
<1> HIDE DEF S, v
<1>4. u \in Seq(S) /\ Len(u) = 3
  BY <1>1, <1>2, OneJoined
<1>5. u[1] = p[1] /\ u[2] = q[1] /\ u[3] = q[2]
  BY <1>1, <1>2, OneJoined
<1> HIDE DEF u
<1>6. \A i \in 1..Len(u) : u[i] = v[i]
  BY <1>1, <1>2, <1>3, <1>4, <1>5
<1>7. u = v
  BY <1>3, <1>4, <1>6, SameList
<1> QED
  BY <1>7 DEF u, v

LEMMA ReplaceOpens ==
    ASSUME TalkInv, NEW r \in Requests, replaceSpeaker(r)
    PROVE Replaces(r)
<1>1. PICK w \in Week, g \in Guests :
        LET l == db.line[w]
            e == weekEntry(db, w)
            close == IF e = NoEntry THEN <<>>
                     ELSE <<[call |-> "write", e |-> e, row |-> [db.entry[e] EXCEPT !.held = FALSE]]>>
            was == IF e = NoEntry THEN <<>> ELSE <<<<e, db.entry[e]>>>>
        IN  /\ Seen(l) /\ programmeOpen(w) /\ l.who # g
            /\ BeginWith(r, "replace", db,
                  close \o <<[call |-> "saveLine", w |-> w, l |-> [l EXCEPT !.who = g, !.link = NoEntry]],
                             Sync(w, TRUE), On("adopt", w)>>,
                  [w |-> w, lines |-> <<l>>, rows |-> was])
  BY Zenon DEF replaceSpeaker
<1> DEFINE l == db.line[w]
           e == weekEntry(db, w)
           was == db.entry[e]
           row == [was EXCEPT !.held = FALSE]
           one == [call |-> "write", e |-> e, row |-> row]
           close == IF e = NoEntry THEN <<>> ELSE <<one>>
           rows == IF e = NoEntry THEN <<>> ELSE <<<<e, was>>>>
           nl == [l EXCEPT !.who = g, !.link = NoEntry]
           b == [call |-> "saveLine", w |-> w, l |-> nl]
           s == Sync(w, TRUE)
           a == On("adopt", w)
           back == [w |-> w, lines |-> <<l>>, rows |-> rows]
<1>2. Seen(l) /\ programmeOpen(w) /\ BeginWith(r, "replace", db, close \o <<b, s, a>>, back)
  BY <1>1
<1>3. nl \in Line /\ nl.at = l.at /\ nl.removed = l.removed /\ nl.who \in Guests /\ nl.link = NoEntry
  <2>1. l \in Line
    BY LineRead
  <2> HIDE DEF l
  <2> QED
    BY <2>1 DEF Line, Speakers
<1>4. ASSUME e # NoEntry
      PROVE /\ row \in Row /\ ~row.held /\ row.who = was.who /\ row.aside = was.aside
            /\ row.week = was.week /\ row.off = was.off /\ row.at = was.at
  <2>1. e \in Ids
    BY <1>4, InvIsGood, WeekEntryIs
  <2>2. was \in Row
    BY <2>1, RowRead
  <2> HIDE DEF was
  <2> QED
    BY <2>2 DEF Row
<1>5. "replace" \notin VisitKinds
  BY DEF VisitKinds
<1> HIDE DEF nl, row
<1>6. Opens(r, db, close \o <<b, s, a>>, back)
  BY <1>2, <1>5, OpensSo
<1>7. ASSUME e = NoEntry
      PROVE Opens(r, db, <<b, s, a>>, [w |-> w, lines |-> <<l>>, rows |-> <<>>])
  <2>1. close = <<>> /\ rows = <<>>
    BY <1>7
  <2> HIDE DEF close, rows, b, s, a
  <2>2. close \o <<b, s, a>> = <<b, s, a>>
    BY <2>1
  <2> QED
    BY <1>6, <2>1, <2>2
<1>8. ASSUME e # NoEntry
      PROVE Opens(r, db, <<one, b, s, a>>, [w |-> w, lines |-> <<l>>, rows |-> <<<<e, was>>>>])
  <2> DEFINE p == <<<<e, was>>>>
  <2>1. close = <<one>> /\ rows = p
    BY <1>8
  <2> HIDE DEF close, rows, b, s, a, one, p
  <2>2. close \o <<b, s, a>> = <<one, b, s, a>>
    BY <2>1, OneAndThree
  <2>3. Opens(r, db, <<one, b, s, a>>, [w |-> w, lines |-> <<l>>, rows |-> p])
    BY <1>6, <2>1, <2>2
  <2> QED
    BY <2>3 DEF p
<1> QED
  BY <1>2, <1>3, <1>4, <1>7, <1>8 DEF Replaces

\* And undone: the entry that stands goes or is closed, the other stands again, and is named.
Undoes(r) ==
    \E e \in Ids, row \in Row :
      LET was == db.entry[e]
          w == was.week
          x == weekEntry(db, w)
          one == [call |-> "write", e |-> e, row |-> row]
          two == [call |-> "name", w |-> w, e |-> e]
      IN  /\ was.at = "live" /\ ~was.held /\ programmeOpen(w)
          /\ row.at = "live" /\ row.held /\ row.week = w /\ row.who = was.who /\ row.aside = was.aside /\ row.off = was.off
          /\ x = NoEntry => Opens(r, db, <<one, two>>, [w |-> w, lines |-> <<>>, rows |-> <<<<e, was>>>>])
          /\ x # NoEntry => \E c :
               /\ \/ c = [call |-> "delete", e |-> x]
                  \/ \E xr \in Row : /\ c = [call |-> "write", e |-> x, row |-> xr] /\ ~xr.held /\ xr.at = "live"
                                     /\ xr.who = db.entry[x].who /\ xr.aside = db.entry[x].aside
                                     /\ xr.week = w /\ xr.off = db.entry[x].off
               /\ Opens(r, db, <<c, one, two>>, [w |-> w, lines |-> <<>>, rows |-> <<<<e, was>>, <<x, db.entry[x]>>>>])

LEMMA UndoOpens ==
    ASSUME TalkInv, NEW r \in Requests, undoReplacement(r)
    PROVE Undoes(r)
<1>1. PICK e \in Ids :
        LET row == db.entry[e]
            w == row.week
            x == weekEntry(db, w)
            free == CASE x = NoEntry -> <<>>
                      [] x # NoEntry /\ db.entry[x].hand = "noted" ->
                           <<[call |-> "write", e |-> x, row |-> [db.entry[x] EXCEPT !.held = FALSE]]>>
                      [] OTHER -> <<[call |-> "delete", e |-> x]>>
            was == IF x = NoEntry THEN <<<<e, row>>>> ELSE <<<<e, row>>, <<x, db.entry[x]>>>>
        IN  /\ row.at = "live" /\ ~row.held /\ programmeOpen(w)
            /\ BeginWith(r, "undo", db,
                  free \o <<[call |-> "write", e |-> e, row |-> [row EXCEPT !.held = TRUE]],
                            [call |-> "name", w |-> w, e |-> e]>>,
                  [w |-> w, lines |-> <<>>, rows |-> was])
  BY Zenon DEF undoReplacement
<1> DEFINE was == db.entry[e]
           w == was.week
           x == weekEntry(db, w)
           old == db.entry[x]
           xr == [old EXCEPT !.held = FALSE]
           write == [call |-> "write", e |-> x, row |-> xr]
           delete == [call |-> "delete", e |-> x]
           free == CASE x = NoEntry -> <<>>
                     [] x # NoEntry /\ db.entry[x].hand = "noted" -> <<write>>
                     [] OTHER -> <<delete>>
           rows == IF x = NoEntry THEN <<<<e, was>>>> ELSE <<<<e, was>>, <<x, old>>>>
           nr == [was EXCEPT !.held = TRUE]
           one == [call |-> "write", e |-> e, row |-> nr]
           two == [call |-> "name", w |-> w, e |-> e]
           back == [w |-> w, lines |-> <<>>, rows |-> rows]
<1>2. was.at = "live" /\ ~was.held /\ programmeOpen(w) /\ BeginWith(r, "undo", db, free \o <<one, two>>, back)
  BY <1>1
<1>3. was \in Row
  BY RowRead
<1>4. /\ nr \in Row /\ nr.at = "live" /\ nr.held /\ nr.week = w /\ nr.who = was.who /\ nr.aside = was.aside
      /\ nr.off = was.off
  <2>1. was.at = "live"
    BY <1>2
  <2> HIDE DEF was
  <2> QED
    BY <1>3, <2>1 DEF Row
<1>5. ASSUME x # NoEntry
      PROVE /\ xr \in Row /\ ~xr.held /\ xr.at = "live" /\ xr.who = old.who /\ xr.aside = old.aside
            /\ xr.week = w /\ xr.off = old.off
  <2>1. x \in Ids /\ Standing(old) /\ old.week = w
    BY <1>5, InvIsGood, WeekEntryIs
  <2>2. old \in Row
    BY <2>1, RowRead
  <2> HIDE DEF old, w
  <2> QED
    BY <2>1, <2>2 DEF Row, Standing
<1>6. "undo" \notin VisitKinds
  BY DEF VisitKinds
<1> HIDE DEF nr, xr
<1>7. Opens(r, db, free \o <<one, two>>, back)
  BY <1>2, <1>6, OpensSo
<1>8. ASSUME x = NoEntry
      PROVE Opens(r, db, <<one, two>>, [w |-> w, lines |-> <<>>, rows |-> <<<<e, was>>>>])
  <2>1. free = <<>> /\ rows = <<<<e, was>>>>
    BY <1>8
  <2> HIDE DEF free, rows, one, two
  <2>2. free \o <<one, two>> = <<one, two>>
    BY <2>1
  <2> QED
    BY <1>7, <2>1, <2>2
<1>9. ASSUME x # NoEntry
      PROVE \E c : /\ c = delete \/ c = write
                   /\ Opens(r, db, <<c, one, two>>, [w |-> w, lines |-> <<>>, rows |-> <<<<e, was>>, <<x, old>>>>])
  <2> DEFINE p == <<<<e, was>>, <<x, old>>>>
  <2>1. rows = p
    BY <1>9
  <2>2. free = <<delete>> \/ free = <<write>>
    BY <1>9
  <2>3. PICK c : (c = delete \/ c = write) /\ free = <<c>>
    BY <2>2
  <2> HIDE DEF free, rows, one, two, delete, write, p
  <2>4. free \o <<one, two>> = <<c, one, two>>
    BY <2>3, OneAndTwo
  <2>5. Opens(r, db, <<c, one, two>>, [w |-> w, lines |-> <<>>, rows |-> p])
    BY <1>7, <2>1, <2>3, <2>4
  <2>6. c = delete \/ c = write
    BY <2>3
  <2> QED
    BY <2>5, <2>6 DEF p
<1> QED
  BY <1>2, <1>4, <1>5, <1>8, <1>9 DEF Undoes

LEMMA HimMovingGoesOn ==
    ASSUME TalkInv, NEW r \in Requests, Steps(r), VisitSound(db.visit), AsideSound(db), HimWhole(db),
           HimMoving(over, db, job[r].todo)
    PROVE HimKeeps(over, db', job'[r].todo)
<1> PICK from \in Week, to \in Week :
      /\ from # to /\ programmeOpen(to)
      /\ \/ \E v \in Visit :
              /\ v.at = "on" /\ v.week = to /\ Forgotten(v) /\ NoHimBut(db, {from})
              /\ \/ /\ job[r].todo = <<Reverts(db.visit), Saves(v), On("template", to), MovesOn(from, to), On("applied", to)>>
                    /\ visitOfWeek(db, from) /\ HisLine(db, from)
                 \/ /\ job[r].todo = <<Saves(v), On("template", to), MovesOn(from, to), On("applied", to)>>
                    /\ db.line[from].who # Overseer
         \/ /\ job[r].todo = <<On("template", to), MovesOn(from, to), On("applied", to)>>
            /\ visitOfWeek(db, to) /\ Forgotten(db.visit) /\ NoHimBut(db, {from}) /\ db.line[from].who # Overseer
         \/ /\ job[r].todo = <<MovesOn(from, to), On("applied", to)>>
            /\ visitOfWeek(db, to) /\ NoHimBut(db, {from, to}) /\ db.line[from].who # Overseer /\ HandedTo(db, to)
  BY DEF HimMoving, programmeOpen
<1>0. Good(db) /\ db \in Database /\ {from} \cup {from} = {from} /\ {from} \cup {to} = {from, to}
  BY InvIsGood
<1>1. ASSUME NEW v \in Visit, v.at = "on", v.week = to, Forgotten(v), NoHimBut(db, {from}),
             visitOfWeek(db, from), HisLine(db, from),
             job[r].todo = <<Reverts(db.visit), Saves(v), On("template", to), MovesOn(from, to), On("applied", to)>>
      PROVE HimKeeps(over, db', job'[r].todo)
  <2> DEFINE c == Reverts(db.visit)
             t == <<Saves(v), On("template", to), MovesOn(from, to), On("applied", to)>>
             y == templateRevert(db, db.visit)
  <2>1. c.call = "revert" /\ c.v = db.visit
    BY DEF Reverts
  <2> HIDE DEF c
  <2>2. Args(r) = c /\ Rest(r) = t
    BY <1>1, LongTails DEF Args, Rest, c
  <2>3. job'[r].todo = t /\ db' = y
    BY <2>1, <2>2, VisitCallsRun DEF OfVisits
  <2>4. HimWhole(y) /\ y.line[from].who # Overseer
    BY <1>0, <1>1, HisRevert DEF HimWhole
  <2>5. LineOf(db, y, from)
    BY <1>0, <1>1, RevertIs DEF visitOfWeek
  <2> HIDE DEF y
  <2>6. NoHimBut(y, {from} \cup {from})
    BY <1>1, <2>5, NoHimLineOf
  <2>7. HimMoving(over, y, t)
    BY <1>0, <1>1, <2>4, <2>6 DEF HimMoving, programmeOpen
  <2> QED
    BY <2>3, <2>4, <2>7 DEF HimKeeps, HimRound
<1>2. ASSUME NEW v \in Visit, v.at = "on", v.week = to, Forgotten(v), NoHimBut(db, {from}),
             db.line[from].who # Overseer,
             job[r].todo = <<Saves(v), On("template", to), MovesOn(from, to), On("applied", to)>>
      PROVE HimKeeps(over, db', job'[r].todo)
  <2> DEFINE c == Saves(v)
             t == <<On("template", to), MovesOn(from, to), On("applied", to)>>
             y == [db EXCEPT !.visit = v]
  <2>1. c.call = "saveVisit" /\ c.v = v
    BY DEF Saves
  <2> HIDE DEF c
  <2>2. Args(r) = c /\ Rest(r) = t
    BY <1>2, LongTails DEF Args, Rest, c
  <2>3. job'[r].todo = t /\ db' = y
    BY <2>1, <2>2, VisitCallsRun DEF OfVisits
  <2>4. y.entry = db.entry /\ y.line = db.line /\ y.visit = v
    BY <1>0 DEF Database
  <2> HIDE DEF y
  <2>5. NoHimBut(y, {from})
    BY <1>2, <2>4 DEF NoHimBut, NoHimIn
  <2>6. HimWhole(y)
    BY <1>2, <2>4, NoPrevIsNotHe DEF HimWhole, HisRows, Forgotten
  <2>7. HimMoving(over, y, t)
    BY <1>2, <2>4, <2>5 DEF HimMoving, programmeOpen, visitOfWeek
  <2> QED
    BY <2>3, <2>6, <2>7 DEF HimKeeps, HimRound
<1>3. CASE /\ job[r].todo = <<On("template", to), MovesOn(from, to), On("applied", to)>>
           /\ visitOfWeek(db, to) /\ Forgotten(db.visit) /\ NoHimBut(db, {from}) /\ db.line[from].who # Overseer
  <2> DEFINE c == On("template", to)
             t == <<MovesOn(from, to), On("applied", to)>>
             y == templateApply(db)
  <2>1. c.call = "template" /\ c.w = to
    BY DEF On
  <2> HIDE DEF c
  <2>2. Args(r) = c /\ Rest(r) = t
    BY <1>3, TailsOfThree DEF Args, Rest, c
  <2>3. job'[r].todo = t /\ db' = y
    BY <1>3, <2>1, <2>2, VisitCallsRun
  <2>4. HisLine(db, to)
    BY <1>3 DEF HisLine, NoHimBut, NoHimIn
  <2>5. HimWhole(y) /\ visitOfWeek(y, to) /\ LineOf(db, y, to) /\ HandedTo(y, to) /\ NoHimBut(y, {from} \cup {to})
    BY <1>0, <1>3, <2>4, HimHandsOver
  <2> HIDE DEF y
  <2>6. y.line[from] = db.line[from]
    BY <2>5 DEF LineOf
  <2>7. HimMoving(over, y, t)
    BY <1>0, <1>3, <2>5, <2>6 DEF HimMoving, programmeOpen
  <2> QED
    BY <2>3, <2>5, <2>7 DEF HimKeeps, HimRound
<1>4. CASE /\ job[r].todo = <<MovesOn(from, to), On("applied", to)>>
           /\ visitOfWeek(db, to) /\ NoHimBut(db, {from, to}) /\ db.line[from].who # Overseer /\ HandedTo(db, to)
  <2> DEFINE c == MovesOn(from, to)
             t == <<On("applied", to)>>
             y == circuitVisitMoved(db, from, to)
  <2>1. c.call = "visitMoved" /\ c.from = from /\ c.to = to
    BY DEF MovesOn
  <2> HIDE DEF c
  <2>2. Args(r) = c /\ Rest(r) = t
    BY <1>4, TailsOfThree DEF Args, Rest, c
  <2>3. job'[r].todo = t /\ Room(db) /\ db' = y
    BY <2>1, <2>2, VisitCallsRun DEF OfVisits
  <2>4. PICK a : Leaving(db, a, from, to) /\ y = syncProgramToJournal(returnEntry(a, from), from, TRUE, FALSE)
    BY <1>0, <2>3, MovedLeaves
  <2> HIDE DEF y
  <2>5. HisRows(y) /\ y.visit = db.visit /\ NoHimBut(y, {to} \ {from}) /\ y.line[to] = db.line[to]
    <3>0. Good(db)
      BY <1>0
    <3>1. HisRows(db) /\ db.line[from].who # Overseer /\ NoHimBut(db, {from, to})
      BY <1>4 DEF HimWhole
    <3>2. HisRows(y)
      BY <3>0, <2>4, <3>1, HisLeaving
    <3>5. y.visit = db.visit
      BY <2>4, ReturningTouches DEF Leaving, Touches
    <3>4. NoHimBut(y, {to} \ {from})
      BY <3>0, <2>4, <3>1, HisLeaving
    <3>3. from # to => y.line[to] = db.line[to]
      BY <3>0, <2>4, <3>1, HisLeaving
    <3> QED
      BY <3>2, <3>3, <3>4, <3>5
  <2>6. {to} \ {from} = {to}
    OBVIOUS
  <2>7. HandedTo(y, to)
    BY <1>4, <2>5 DEF HandedTo
  <2>8. HimComing(over, y, t)
    BY <1>4, <2>5, <2>6, <2>7 DEF HimComing, programmeOpen, visitOfWeek
  <2> QED
    BY <2>3, <2>5, <2>8 DEF HimKeeps, HimRound, HimWhole
<1> QED
  BY <1>1, <1>2, <1>3, <1>4

\* Rows of his stay in order where nobody of his stands and nobody is newly set aside.
LEMMA OursRows ==
    ASSUME NEW d, NEW y \in Database, HisRows(d), NoHim(d), NoHim(y), Ours(d, y)
    PROVE HisRows(y)
<1> SUFFICES ASSUME NEW e \in Ids
             PROVE HisRow(y.entry[e])
  BY DEF HisRows
<1>1. y.entry[e] \in Row
  BY DEF Database
<1>2. y.entry[e].week \in Week
  BY <1>1 DEF Row
<1>3. y.entry[e].at = "live" => y.entry[e].who # Overseer
  BY <1>2 DEF NoHim, NoHimIn
<1>4. y.entry[e].aside => y.entry[e].who # Overseer
  BY DEF Ours, HisRows, HisRow
<1> QED
  BY <1>3, <1>4 DEF HisRow

\* Every step of a request keeps its round.
LEMMA HimRoundGoesOn ==
    ASSUME TalkInv, TalkInv', NEW r \in Requests, Steps(r), VisitSound(db.visit), AsideSound(db), HimWhole(db),
           HimRound(over, db, job[r].todo)
    PROVE /\ HimKeeps(over, db', job'[r].todo)
          /\ db.visit.at # "on" /\ NoHim(db) /\ AllOurs(job[r].todo, db) =>
               db'.visit = db.visit /\ NoHim(db') /\ AllOurs(job'[r].todo, db')
<1>1. CASE db.visit.at # "on" /\ NoHim(db) /\ AllOurs(job[r].todo, db)
  <2>1. Ours(db, db') /\ NoHim(db') /\ AllOurs(job'[r].todo, db')
    BY <1>1, OursGoesOn
  <2>2. db' \in Database
    BY DEF TalkInv, TypeOK
  <2>3. HisRows(db')
    BY <1>1, <2>1, <2>2, OursRows DEF HimWhole
  <2>4. db'.visit = db.visit
    BY <2>1 DEF Ours
  <2> QED
    BY <1>1, <2>1, <2>3, <2>4 DEF HimKeeps, HimWhole, HimRests, HimRound
<1>2. CASE ~(db.visit.at # "on" /\ NoHim(db) /\ AllOurs(job[r].todo, db))
  BY <1>2, HimComingGoesOn, HimSavingGoesOn, HimGoingGoesOn, HimMovingGoesOn DEF HimRound
<1> QED
  BY <1>1, <1>2

----------------------------------------------------------------------------
(* The requests begin: one of another kind beside no visit, a visit's with   *)
(* the overseer where he is expected.                                        *)

Apart(d, t) == d.visit.at # "on" /\ NoHim(d) /\ AllOurs(t, d)
HimBack(b) ==
    /\ \A i \in 1..Len(b.lines) : b.lines[i].who # Overseer
    /\ \A i \in 1..Len(b.rows) : b.rows[i][2].who # Overseer /\ ~b.rows[i][2].aside
HimBegan(r) ==
    /\ HimWhole(db') /\ HimRound(over, db', job'[r].todo)
    /\ job'[r].back # NoBack => HimBack(job'[r].back) /\ Apart(db', job'[r].todo)
\* What a beginning may count on.
HimReady == TalkInv /\ TalkInv' /\ AsideSound(db) /\ HimWhole(db) /\ HimRests(db) /\ "beside a visit" \notin past'

LEMMA NoVisitNoHim ==
    ASSUME HimReady, NEW r, NEW d, NEW calls, NEW back, Opens(r, d, calls, back)
    PROVE db.visit.at # "on" /\ NoHim(db)
BY DEF HimReady, Opens, HimRests

LEMMA LiveIsNotHe ==
    ASSUME TalkInv, AsideSound(db), NoHim(db)
    PROVE /\ \A e \in Ids : db.entry[e].at = "live" => db.entry[e].who # Overseer /\ ~db.entry[e].aside
          /\ \A w : LET e == weekEntry(db, w) IN
               e # NoEntry => e \in Ids /\ db.entry[e].who # Overseer /\ ~db.entry[e].aside /\ db.entry[e].at = "live"
          /\ \A w \in Week : db.line[w].who # Overseer
<1>1. ASSUME NEW e \in Ids, db.entry[e].at = "live"
      PROVE db.entry[e].who # Overseer /\ ~db.entry[e].aside
  <2>1. db.entry[e].week \in Week
    BY RowRead DEF Row
  <2> QED
    BY <1>1, <2>1, LiveIsNotAside DEF NoHim, NoHimIn
<1>2. ASSUME NEW w, weekEntry(db, w) # NoEntry
      PROVE weekEntry(db, w) \in Ids /\ db.entry[weekEntry(db, w)].at = "live"
  BY <1>2, InvIsGood, WeekEntryIs DEF Standing
<1>3. \A w \in Week : db.line[w].who # Overseer
  BY DEF NoHim, NoHimIn
<1> QED
  BY <1>1, <1>2, <1>3

LEMMA OursBegan ==
    ASSUME HimReady, NEW r \in Requests, NEW d, NEW calls, NEW back, Opens(r, d, calls, back),
           Ours(db, d), AllOurs(calls, db), back = NoBack \/ HimBack(back)
    PROVE HimBegan(r)
<1>1. db.visit.at # "on" /\ NoHim(db)
  BY NoVisitNoHim
<1>2. db' = d /\ job'[r].todo = calls /\ job'[r].back = back
  BY DEF Opens
<1>3. d \in Database /\ calls \in Seq(Call)
  BY <1>2 DEF HimReady, TalkInv, TypeOK, Job
<1>4. AllOurs(calls, d) /\ NoHim(d)
  BY <1>1, <1>3, OursCarry
<1>5. HisRows(d)
  BY <1>1, <1>3, <1>4, OursRows DEF HimReady, HimWhole
<1>6. d.visit = db.visit
  BY DEF Ours
<1>7. Apart(d, calls)
  BY <1>1, <1>4, <1>6 DEF Apart
<1>8. HimWhole(d)
  BY <1>5, <1>6 DEF HimReady, HimWhole
<1> QED
  BY <1>2, <1>7, <1>8 DEF HimBegan, HimRound, Apart

LEMMA GuestsAreNotHe == \A g \in Guests \cup {NoOne} : g # Overseer
BY TalkConstants

LEMMA LineCallOurs ==
    ASSUME NEW d, NEW w, NEW l, l.who # Overseer
    PROVE CallOurs([call |-> "saveLine", w |-> w, l |-> l], d)
BY DEF CallOurs, OfVisits

LEMMA NameCallOurs ==
    ASSUME NEW d, NEW w, NEW e, d.entry[e].who # Overseer
    PROVE CallOurs([call |-> "name", w |-> w, e |-> e], d)
BY DEF CallOurs, OfVisits

LEMMA MoveCallOurs ==
    ASSUME NEW d, NEW s, NEW t, NEW e, NEW x, e # NoEntry => d.entry[e].who # Overseer, x # NoEntry => d.entry[x].who # Overseer
    PROVE CallOurs([call |-> "move", e |-> e, to |-> t, x |-> x, from |-> s], d)
BY DEF CallOurs, OfVisits

LEMMA HimCreateBegan ==
    ASSUME HimReady, NEW r \in Requests, CreateEntry(r)
    PROVE HimBegan(r)
<1>1. PICK e \in Ids, row \in Row, ow \in BOOLEAN :
        /\ db.entry[e].at = "none" /\ Live(db, row.week) = {}
        /\ row.at = "live" /\ row.held /\ row.who \in Guests /\ ~row.aside /\ row.off = weekCancelled(db, row.week)
        /\ Opens(r, Put(db, e, row), <<Apply(e, row, ow)>>, NoBack)
  BY CreateOpens DEF HimReady, Creates
<1>2. row.who # Overseer
  BY <1>1, GuestsAreNotHe
<1>3. Ours(db, Put(db, e, row))
  BY <1>1, <1>2, InvIsGood, OursPut DEF HimReady
<1>4. CallOurs(Apply(e, row, ow), db)
  BY <1>1, <1>2, RowCallsOurs
<1>5. AllOurs(<<Apply(e, row, ow)>>, db)
  BY <1>4, ShortListsOurs
<1> QED
  BY <1>1, <1>3, <1>5, OursBegan

LEMMA HimChangesBegan ==
    ASSUME HimReady, NEW r \in Requests, ChangeSpeaker(r) \/ ShiftWeek(r) \/ Missed(r)
    PROVE HimBegan(r)
<1>1. PICK e \in Ids, row \in Row, ow \in BOOLEAN :
      LET was == db.entry[e] IN
      /\ was.at = "live" /\ row.at = "live" /\ row.aside = was.aside
      /\ ~WeekTaken(db, e, row)
      /\ row.who = was.who \/ row.who \in Guests
      /\ row.off = was.off \/ row.off = weekCancelled(db, row.week)
      /\ row.held \/ row.week = was.week
      /\ Opens(r, db, <<[call |-> "saveEntry", e |-> e, row |-> row, was |-> was, ow |-> ow]>>, NoBack)
  BY ChangesOpen DEF HimReady, Changes
<1> DEFINE c == [call |-> "saveEntry", e |-> e, row |-> row, was |-> db.entry[e], ow |-> ow]
<1>2. row.who # Overseer /\ ~row.aside
  BY <1>1, NoVisitNoHim, LiveIsNotHe, GuestsAreNotHe DEF HimReady
<1>3. CallOurs(c, db)
  BY <1>2, RowCallsOurs
<1>4. Opens(r, db, <<c>>, NoBack)
  BY <1>1
<1> HIDE DEF c
<1>5. AllOurs(<<c>>, db)
  BY <1>3, ShortListsOurs
<1> QED
  BY <1>4, <1>5, OursItself, OursBegan

LEMMA HimRemoveBegan ==
    ASSUME HimReady, NEW r \in Requests, RemoveEntry(r)
    PROVE HimBegan(r)
<1>1. PICK e \in Ids :
        Opens(r, db, <<[call |-> "clear", e |-> e, row |-> db.entry[e]], [call |-> "delete", e |-> e]>>, NoBack)
  BY RemoveOpens DEF HimReady, Removes
<1> DEFINE a == [call |-> "clear", e |-> e, row |-> db.entry[e]]
           b == [call |-> "delete", e |-> e]
<1>2. CallOurs(a, db) /\ CallOurs(b, db)
  BY NamelessOurs
<1>3. Opens(r, db, <<a, b>>, NoBack)
  BY <1>1
<1> HIDE DEF a, b
<1>4. AllOurs(<<a, b>>, db)
  BY <1>2, ShortListsOurs
<1> QED
  BY <1>3, <1>4, OursItself, OursBegan

LEMMA HimElsewhereBegan ==
    ASSUME HimReady, NEW r \in Requests, moveSetAside(r)
    PROVE HimBegan(r)
<1>1. PICK e \in Ids, row \in Row : \E d :
        /\ db.entry[e].aside /\ ~row.aside /\ row.who = db.entry[e].who
        /\ db.visit.at # "on" => d = Put(db, e, row)
        /\ Opens(r, d, <<Apply(e, row, FALSE)>>, NoBack)
  BY ElsewhereOpens DEF HimReady, Elsewhere
<1>2. PICK d :
        /\ db.entry[e].aside /\ ~row.aside /\ row.who = db.entry[e].who
        /\ db.visit.at # "on" => d = Put(db, e, row)
        /\ Opens(r, d, <<Apply(e, row, FALSE)>>, NoBack)
  BY <1>1
<1>3. d = Put(db, e, row)
  BY <1>2, NoVisitNoHim
<1>4. row.who # Overseer
  BY <1>2 DEF HimReady, HimWhole, HisRows, HisRow
<1>5. Ours(db, d)
  BY <1>2, <1>3, <1>4, InvIsGood, OursPut DEF HimReady
<1>6. CallOurs(Apply(e, row, FALSE), db)
  BY <1>2, <1>4, RowCallsOurs
<1>7. AllOurs(<<Apply(e, row, FALSE)>>, db)
  BY <1>6, ShortListsOurs
<1> QED
  BY <1>2, <1>5, <1>7, OursBegan

LEMMA HimLinesBegan ==
    ASSUME HimReady, NEW r \in Requests,
           NewLine(r) \/ EditLine(r) \/ CancelLine(r) \/ RemoveLine(r)
    PROVE HimBegan(r)
<1>0. Good(db) /\ TalkInv /\ AsideSound(db)
  BY InvIsGood DEF HimReady
<1>1. CASE NewLine(r)
  <2>1. PICK w \in Week, l \in Line, x \in BOOLEAN :
          /\ l.who \in Guests \cup {NoOne}
          /\ Opens(r, SetLine(db, w, l), <<On("fill", w), Sync(w, x), On("template", w), On("applied", w)>>, NoBack)
    BY <1>0, <1>1, LinesOpen DEF BringsLine
  <2>2. Ours(db, SetLine(db, w, l))
    BY <1>0, <2>1, GuestsAreNotHe, OursLine
  <2>3. AllOurs(<<On("fill", w), Sync(w, x), On("template", w), On("applied", w)>>, db)
    BY NamelessOurs, ShortListsOurs
  <2> QED
    BY <2>1, <2>2, <2>3, OursBegan
<1>2. CASE EditLine(r) \/ CancelLine(r)
  <2>1. PICK w \in Week, l \in Line, x \in BOOLEAN :
          /\ l.who \in Guests \cup {NoOne} \/ l.who = db.line[w].who
          /\ Opens(r, db, <<[call |-> "saveLine", w |-> w, l |-> l], Sync(w, x)>>, NoBack)
    BY <1>0, <1>2, LinesOpen DEF WritesLine
  <2> DEFINE c == [call |-> "saveLine", w |-> w, l |-> l]
  <2>2. l.who # Overseer
    BY <1>0, <2>1, GuestsAreNotHe, NoVisitNoHim, LiveIsNotHe
  <2>3. CallOurs(c, db) /\ CallOurs(Sync(w, x), db)
    BY <2>2, LineCallOurs, NamelessOurs
  <2>4. Opens(r, db, <<c, Sync(w, x)>>, NoBack)
    BY <2>1
  <2> HIDE DEF c
  <2>5. AllOurs(<<c, Sync(w, x)>>, db)
    BY <2>3, ShortListsOurs
  <2> QED
    BY <2>4, <2>5, OursItself, OursBegan
<1>3. CASE RemoveLine(r)
  <2>1. PICK w \in Week, l \in Line :
          l.who = db.line[w].who /\ Opens(r, SetLine(db, w, l), <<Sync(w, TRUE)>>, NoBack)
    BY <1>0, <1>3, LinesOpen DEF RemovesLine
  <2>2. l.who # Overseer
    BY <1>0, <2>1, NoVisitNoHim, LiveIsNotHe
  <2>3. Ours(db, SetLine(db, w, l))
    BY <1>0, <2>2, OursLine
  <2>4. AllOurs(<<Sync(w, TRUE)>>, db)
    BY NamelessOurs, ShortListsOurs
  <2> QED
    BY <2>1, <2>3, <2>4, OursBegan
<1> QED
  BY <1>1, <1>2, <1>3

LEMMA HimSwapBegan ==
    ASSUME HimReady, NEW r \in Requests, SwapTalks(r)
    PROVE HimBegan(r)
<1>0. Good(db) /\ TalkInv /\ AsideSound(db)
  BY InvIsGood DEF HimReady
<1>a. Exchanges(r)
  BY <1>0, SwapOpens
<1>1. PICK s \in Week, t \in Week, swap \in BOOLEAN, ns \in Line, nt \in Line :
      LET ls == db.line[s]
          lt == db.line[t]
          es == weekEntry(db, s)
          et == weekEntry(db, t)
          back == IF swap THEN et ELSE NoEntry
      IN  /\ s # t /\ Seen(ls) /\ Seen(lt) /\ programmeOpen(s) /\ programmeOpen(t)
          /\ ~visitOfWeek(db, s) /\ ~visitOfWeek(db, t) /\ (swap \/ et = NoEntry)
          /\ nt.at = lt.at /\ nt.removed = lt.removed /\ nt.who = ls.who /\ nt.link = ls.link
          /\ ns.at = ls.at /\ ns.removed = ls.removed
          /\ IF swap THEN ns.who = lt.who /\ ns.link = lt.link ELSE ns.who = NoOne /\ ns.link = NoEntry
          /\ Opens(r, SetLine(SetLine(db, t, nt), s, ns),
                   <<[call |-> "move", e |-> es, to |-> t, x |-> back, from |-> s], Sync(s, TRUE), Sync(t, TRUE)>>,
                   NoBack)
  BY <1>a DEF Exchanges
<1> DEFINE e == weekEntry(db, s)
           x == IF swap THEN weekEntry(db, t) ELSE NoEntry
           c == [call |-> "move", e |-> e, to |-> t, x |-> x, from |-> s]
           y == SetLine(db, t, nt)
           d == SetLine(y, s, ns)
<1>2. NoHim(db)
  BY <1>1, NoVisitNoHim
<1>3. (e # NoEntry => db.entry[e].who # Overseer) /\ (x # NoEntry => db.entry[x].who # Overseer)
  BY <1>0, <1>2, LiveIsNotHe
<1>4. nt.who # Overseer /\ ns.who # Overseer
  BY <1>0, <1>1, <1>2, LiveIsNotHe, NoOneIsHe
<1>5. Opens(r, d, <<c, Sync(s, TRUE), Sync(t, TRUE)>>, NoBack)
  BY <1>1
<1>6. CallOurs(c, db)
  <2> HIDE DEF e, x
  <2> QED
    BY <1>3, MoveCallOurs
<1>7. Ours(db, y) /\ Good(y)
  BY <1>0, <1>4, OursLine, SetLineGood DEF Leads
<1> HIDE DEF c, y
<1>8. Ours(y, d)
  BY <1>4, <1>7, OursLine
<1> HIDE DEF d
<1>9. Ours(db, d)
  BY <1>7, <1>8, OursOn
<1>10. AllOurs(<<c, Sync(s, TRUE), Sync(t, TRUE)>>, db)
  BY <1>6, NamelessOurs, ShortListsOurs
<1> QED
  BY <1>5, <1>9, <1>10, OursBegan

LEMMA HimReplaceBegan ==
    ASSUME HimReady, NEW r \in Requests, replaceSpeaker(r)
    PROVE HimBegan(r)
<1>0. Good(db) /\ TalkInv /\ AsideSound(db)
  BY InvIsGood DEF HimReady
<1>1. PICK w \in Week, l \in Line :
      LET e == weekEntry(db, w)
          old == db.line[w]
          b == [call |-> "saveLine", w |-> w, l |-> l]
      IN  /\ l.who \in Guests
          /\ e = NoEntry => Opens(r, db, <<b, Sync(w, TRUE), On("adopt", w)>>, [w |-> w, lines |-> <<old>>, rows |-> <<>>])
          /\ e # NoEntry => \E row \in Row :
               /\ row.who = db.entry[e].who /\ row.aside = db.entry[e].aside
               /\ Opens(r, db, <<[call |-> "write", e |-> e, row |-> row], b, Sync(w, TRUE), On("adopt", w)>>,
                        [w |-> w, lines |-> <<old>>, rows |-> <<<<e, db.entry[e]>>>>])
  BY <1>0, ReplaceOpens DEF Replaces
<1> DEFINE e == weekEntry(db, w)
           old == db.line[w]
           b == [call |-> "saveLine", w |-> w, l |-> l]
<1>2. CallOurs(b, db) /\ CallOurs(Sync(w, TRUE), db) /\ CallOurs(On("adopt", w), db)
  BY <1>1, GuestsAreNotHe, LineCallOurs, NamelessOurs
<1>3. CASE e = NoEntry
  <2> DEFINE k == [w |-> w, lines |-> <<old>>, rows |-> <<>>]
  <2>1. Opens(r, db, <<b, Sync(w, TRUE), On("adopt", w)>>, k)
    BY <1>1, <1>3
  <2>2. NoHim(db)
    <3> HIDE DEF k, b
    <3> QED
      BY <2>1, NoVisitNoHim
  <2>3. old.who # Overseer
    BY <1>0, <2>2, LiveIsNotHe
  <2>4. HimBack(k)
    <3> HIDE DEF old
    <3> QED
      BY <2>3 DEF HimBack
  <2> HIDE DEF b, k
  <2>5. AllOurs(<<b, Sync(w, TRUE), On("adopt", w)>>, db)
    BY <1>2, ShortListsOurs
  <2> QED
    BY <2>1, <2>4, <2>5, OursItself, OursBegan
<1>4. CASE e # NoEntry
  <2>1. PICK row \in Row :
               /\ row.who = db.entry[e].who /\ row.aside = db.entry[e].aside
               /\ Opens(r, db, <<[call |-> "write", e |-> e, row |-> row], b, Sync(w, TRUE), On("adopt", w)>>,
                        [w |-> w, lines |-> <<old>>, rows |-> <<<<e, db.entry[e]>>>>])
    BY <1>1, <1>4
  <2> DEFINE was == db.entry[e]
             k == [w |-> w, lines |-> <<old>>, rows |-> <<<<e, was>>>>]
             a == [call |-> "write", e |-> e, row |-> row]
  <2>2. Opens(r, db, <<a, b, Sync(w, TRUE), On("adopt", w)>>, k)
    BY <2>1
  <2>3. NoHim(db)
    <3> HIDE DEF k, b, a
    <3> QED
      BY <2>2, NoVisitNoHim
  <2>4. old.who # Overseer /\ was.who # Overseer /\ ~was.aside
    BY <1>0, <1>4, <2>3, LiveIsNotHe
  <2>5. CallOurs(a, db)
    BY <2>1, <2>4, RowCallsOurs
  <2>6. HimBack(k)
    <3> HIDE DEF old, was, e
    <3> QED
      BY <2>4 DEF HimBack
  <2> HIDE DEF a, b, k
  <2>7. AllOurs(<<a, b, Sync(w, TRUE), On("adopt", w)>>, db)
    BY <1>2, <2>5, ShortListsOurs
  <2> QED
    BY <2>2, <2>6, <2>7, OursItself, OursBegan
<1> QED
  BY <1>3, <1>4

LEMMA HimUndoBegan ==
    ASSUME HimReady, NEW r \in Requests, undoReplacement(r)
    PROVE HimBegan(r)
<1>0. Good(db) /\ TalkInv /\ AsideSound(db)
  BY InvIsGood DEF HimReady
<1>1. PICK e \in Ids, row \in Row :
      LET was == db.entry[e]
          w == was.week
          x == weekEntry(db, w)
          one == [call |-> "write", e |-> e, row |-> row]
          two == [call |-> "name", w |-> w, e |-> e]
      IN  /\ was.at = "live" /\ row.who = was.who /\ row.aside = was.aside
          /\ x = NoEntry => Opens(r, db, <<one, two>>, [w |-> w, lines |-> <<>>, rows |-> <<<<e, was>>>>])
          /\ x # NoEntry => \E c :
               /\ \/ c = [call |-> "delete", e |-> x]
                  \/ \E xr \in Row : /\ c = [call |-> "write", e |-> x, row |-> xr]
                                     /\ xr.who = db.entry[x].who /\ xr.aside = db.entry[x].aside
               /\ Opens(r, db, <<c, one, two>>, [w |-> w, lines |-> <<>>, rows |-> <<<<e, was>>, <<x, db.entry[x]>>>>])
  BY <1>0, UndoOpens DEF Undoes
<1> DEFINE was == db.entry[e]
           w == was.week
           x == weekEntry(db, w)
           one == [call |-> "write", e |-> e, row |-> row]
           two == [call |-> "name", w |-> w, e |-> e]
<1>2. NoHim(db)
  <2> SUFFICES \E calls, back : Opens(r, db, calls, back)
    BY NoVisitNoHim
  <2>1. CASE x = NoEntry
    <3>1. Opens(r, db, <<one, two>>, [w |-> w, lines |-> <<>>, rows |-> <<<<e, was>>>>])
      BY <1>1, <2>1
    <3> QED
      BY <3>1
  <2>2. CASE x # NoEntry
    <3>1. \E c : Opens(r, db, <<c, one, two>>, [w |-> w, lines |-> <<>>, rows |-> <<<<e, was>>, <<x, db.entry[x]>>>>])
      BY <1>1, <2>2
    <3> QED
      BY <3>1
  <2> QED
    BY <2>1, <2>2
<1>3. was.who # Overseer /\ ~was.aside /\ (x # NoEntry => db.entry[x].who # Overseer /\ ~db.entry[x].aside)
  BY <1>0, <1>1, <1>2, LiveIsNotHe
<1>4. CallOurs(one, db) /\ CallOurs(two, db)
  <2>1. row.who # Overseer /\ ~row.aside
    BY <1>1, <1>3
  <2> QED
    BY <1>3, <2>1, RowCallsOurs, NameCallOurs
<1>5. CASE x = NoEntry
  <2> DEFINE k == [w |-> w, lines |-> <<>>, rows |-> <<<<e, was>>>>]
  <2>1. Opens(r, db, <<one, two>>, k)
    BY <1>1, <1>5
  <2>2. HimBack(k)
    <3> HIDE DEF was, w
    <3> QED
      BY <1>3 DEF HimBack
  <2> HIDE DEF one, two, k
  <2>3. AllOurs(<<one, two>>, db)
    BY <1>4, ShortListsOurs
  <2> QED
    BY <2>1, <2>2, <2>3, OursItself, OursBegan
<1>6. CASE x # NoEntry
  <2> DEFINE xw == db.entry[x]
             k == [w |-> w, lines |-> <<>>, rows |-> <<<<e, was>>, <<x, xw>>>>]
  <2>1. PICK c :
               /\ \/ c = [call |-> "delete", e |-> x]
                  \/ \E xr \in Row : /\ c = [call |-> "write", e |-> x, row |-> xr]
                                     /\ xr.who = xw.who /\ xr.aside = xw.aside
               /\ Opens(r, db, <<c, one, two>>, k)
    BY <1>1, <1>6
  <2>2. xw.who # Overseer /\ ~xw.aside
    BY <1>3, <1>6
  <2>3. CallOurs(c, db)
    <3> HIDE DEF xw, x, k, one, two
    <3> QED
      BY <2>1, <2>2, NamelessOurs, RowCallsOurs
  <2>4. HimBack(k)
    <3> HIDE DEF was, w, x, xw
    <3> QED
      BY <1>3, <2>2 DEF HimBack
  <2> HIDE DEF one, two, k
  <2>5. AllOurs(<<c, one, two>>, db)
    BY <1>4, <2>3, ShortListsOurs
  <2> QED
    BY <2>1, <2>4, <2>5, OursItself, OursBegan
<1> QED
  BY <1>5, <1>6

LEMMA NoHimAtAll ==
    ASSUME NEW d, NoHim(d)
    PROVE /\ \A S : NoHimBut(d, S)
          /\ \A w \in Week : HisLine(d, w) /\ d.line[w].who # Overseer
BY DEF NoHim, NoHimIn, NoHimBut, HisLine

LEMMA HimComesBegan ==
    ASSUME HimReady, NEW r \in Requests, NEW w \in Week, programmeOpen(w),
           db.visit.at # "on", NEW kind \in {"addVisit", "restoreVisit"}, NEW d,
           d.entry = db.entry, d.line = db.line, visitOfWeek(d, w), Forgotten(d.visit),
           Begin(r, kind, d, <<On("template", w), On("applied", w)>>)
    PROVE HimBegan(r)
<1> DEFINE calls == <<On("template", w), On("applied", w)>>
<1>1. kind \in VisitKinds
  BY DEF VisitKinds
<1> HIDE DEF calls
<1>2. db' = d /\ job'[r].todo = calls /\ job'[r].back = NoBack
  BY <1>1, VisitBegins DEF calls, HimReady
<1>3. NoHim(d)
  BY DEF HimReady, HimRests, NoHim, NoHimIn
<1>4. HimComing(over, d, calls)
  BY <1>3, NoHimAtAll DEF HimComing, programmeOpen, calls
<1>5. HimWhole(d)
  BY NoPrevIsNotHe DEF HimReady, HimWhole, HisRows, Forgotten
<1> QED
  BY <1>2, <1>4, <1>5 DEF HimBegan, HimRound

LEMMA HimStaysBegan ==
    ASSUME HimReady, NEW r \in Requests, NEW kind \in {"saveVisit", "removeVisit", "moveVisit"}, NEW calls,
           Begin(r, kind, db, calls), HimSaving(over, db, calls) \/ HimGoing(db, calls) \/ HimMoving(over, db, calls)
    PROVE HimBegan(r)
<1>1. kind \in VisitKinds
  BY DEF VisitKinds
<1>2. db' = db /\ job'[r].todo = calls /\ job'[r].back = NoBack
  BY <1>1, VisitBegins DEF HimReady
<1> QED
  BY <1>2 DEF HimBegan, HimRound, HimReady

LEMMA HimVisitsBegan ==
    ASSUME HimReady, VisitSound(db.visit), NEW r \in Requests,
           AddVisit(r) \/ SaveVisit(r) \/ MoveVisit(r) \/ RemoveVisit(r) \/ RestoreVisit(r)
    PROVE HimBegan(r)
<1>0. db \in Database /\ db.visit \in Visit /\ db.visit.week \in Week
  BY InvIsGood, VisitRead DEF HimReady
<1>1. CASE AddVisit(r)
  <2>1. PICK w \in Week :
          /\ db.visit.at = "none" /\ programmeOpen(w)
          /\ Begin(r, "addVisit", [db EXCEPT !.visit = [at |-> "on", week |-> w, done |-> FALSE, prev |-> NoPrev]],
                   <<On("template", w), On("applied", w)>>)
    BY <1>1 DEF AddVisit
  <2> DEFINE v == [at |-> "on", week |-> w, done |-> FALSE, prev |-> NoPrev]
             d == [db EXCEPT !.visit = v]
  <2>2. d.entry = db.entry /\ d.line = db.line /\ d.visit = v
    BY <1>0 DEF Database
  <2>3. v.at = "on" /\ v.week = w /\ Forgotten(v)
    BY DEF Forgotten
  <2> HIDE DEF d, v
  <2> QED
    BY <2>1, <2>2, <2>3, HimComesBegan DEF visitOfWeek, d, v
<1>2. CASE RestoreVisit(r)
  <2> DEFINE w == db.visit.week
             d == [db EXCEPT !.visit.at = "on"]
  <2>1. /\ db.visit.at = "gone" /\ programmeOpen(w)
        /\ Begin(r, "restoreVisit", d, <<On("template", w), On("applied", w)>>)
    BY <1>2 DEF RestoreVisit
  <2>2. d.entry = db.entry /\ d.line = db.line /\ d.visit = [db.visit EXCEPT !.at = "on"]
    BY <1>0 DEF Database
  <2>3. visitOfWeek(d, w) /\ Forgotten(d.visit)
    BY <1>0, <2>1, <2>2 DEF Visit, visitOfWeek, VisitSound, Forgotten
  <2> HIDE DEF d
  <2> QED
    BY <1>0, <2>1, <2>2, <2>3, HimComesBegan
<1>a. ASSUME db.visit.at = "on", programmeOpen(db.visit.week)
      PROVE LET w == db.visit.week IN
            visitOfWeek(db, w) /\ programmeOpen(w) /\ NoHimBut(db, {w}) /\ HisLine(db, w)
  BY <1>a DEF HimReady, HimRests, visitOfWeek
<1>3. CASE SaveVisit(r)
  <2> DEFINE w == db.visit.week
             calls == <<Saves(db.visit), On("template", w), On("speaker", w), On("applied", w)>>
  <2>1. db.visit.at = "on" /\ programmeOpen(w) /\ Begin(r, "saveVisit", db, calls)
    BY <1>3 DEF SaveVisit, Saves
  <2>2. HimSaving(over, db, calls)
    BY <1>0, <1>a, <2>1 DEF HimSaving, programmeOpen
  <2> HIDE DEF calls
  <2> QED
    BY <2>1, <2>2, HimStaysBegan
<1>4. CASE RemoveVisit(r)
  <2> DEFINE w == db.visit.week
             calls == <<Reverts(db.visit), On("visitRemoved", w), Deleted>>
  <2>1. db.visit.at = "on" /\ programmeOpen(w) /\ Begin(r, "removeVisit", db, calls)
    BY <1>4 DEF RemoveVisit, Reverts, Deleted
  <2>2. HimGoing(db, calls)
    BY <1>0, <1>a, <2>1 DEF HimGoing
  <2> HIDE DEF calls
  <2> QED
    BY <2>1, <2>2, HimStaysBegan
<1>5. CASE MoveVisit(r)
  <2> DEFINE v == db.visit
             from == v.week
  <2>1. PICK to \in Week :
          /\ v.at = "on" /\ from # to /\ programmeOpen(from) /\ programmeOpen(to)
          /\ Begin(r, "moveVisit", db,
                  <<[call |-> "revert", v |-> v],
                    [call |-> "saveVisit", v |-> [v EXCEPT !.week = to, !.done = FALSE, !.prev = NoPrev]],
                    On("template", to), [call |-> "visitMoved", from |-> from, to |-> to],
                    On("applied", to)>>)
    BY <1>5 DEF MoveVisit
  <2> DEFINE nv == [v EXCEPT !.week = to, !.done = FALSE, !.prev = NoPrev]
             calls == <<Reverts(v), Saves(nv), On("template", to), MovesOn(from, to), On("applied", to)>>
  <2>2. Begin(r, "moveVisit", db, calls)
    BY <2>1 DEF Reverts, Saves, MovesOn
  <2>3. nv \in Visit /\ nv.at = "on" /\ nv.week = to /\ Forgotten(nv)
    BY <1>0, <2>1 DEF Visit, Forgotten
  <2> HIDE DEF nv
  <2>4. HimMoving(over, db, calls)
    BY <1>0, <1>a, <2>1, <2>3 DEF HimMoving, programmeOpen
  <2> HIDE DEF calls
  <2> QED
    BY <2>2, <2>4, HimStaysBegan
<1> QED
  BY <1>1, <1>2, <1>3, <1>4, <1>5

LEMMA HimAllBegan ==
    ASSUME HimReady, VisitSound(db.visit), NEW r \in Requests, Begins(r), ~RestoreLine(r)
    PROVE HimBegan(r)
<1>1. CASE CreateEntry(r)
  BY <1>1, HimCreateBegan
<1>2. CASE ChangeSpeaker(r) \/ ShiftWeek(r) \/ Missed(r)
  BY <1>2, HimChangesBegan
<1>3. CASE RemoveEntry(r)
  BY <1>3, HimRemoveBegan
<1>4. CASE moveSetAside(r)
  BY <1>4, HimElsewhereBegan
<1>5. CASE NewLine(r) \/ EditLine(r) \/ CancelLine(r) \/ RemoveLine(r)
  BY <1>5, HimLinesBegan
<1>6. CASE SwapTalks(r)
  BY <1>6, HimSwapBegan
<1>7. CASE replaceSpeaker(r)
  BY <1>7, HimReplaceBegan
<1>8. CASE undoReplacement(r)
  BY <1>8, HimUndoBegan
<1>9. CASE AddVisit(r) \/ SaveVisit(r) \/ MoveVisit(r) \/ RemoveVisit(r) \/ RestoreVisit(r)
  BY <1>9, HimVisitsBegan
<1> QED
  BY <1>1, <1>2, <1>3, <1>4, <1>5, <1>6, <1>7, <1>8, <1>9 DEF Begins

\* What a failed replacement puts back names him nowhere.
LEMMA RowBackOurs ==
    ASSUME NEW d, Good(d), NEW x \in Ids \X Row, x[2].who # Overseer, ~x[2].aside
    PROVE Ours(d, RowBack(d, x))
<1>1. x[1] \in Ids /\ x[2] \in Row
  OBVIOUS
<1>2. Ours(d, Put(d, x[1], x[2]))
  BY <1>1, OursPut
<1> QED
  BY <1>2, OursItself DEF RowBack

LEMMA PutBackOurs ==
    ASSUME TalkInv, NEW r \in Requests, PutBack(r), HimBack(job[r].back)
    PROVE Ours(db, db')
<1> DEFINE b == job[r].back
           d == IF b.lines = <<>> THEN db ELSE SetLine(db, b.w, b.lines[1])
           g == FreshGone(d, b)
           rows == b.rows
<1>0. Busy(r) /\ Good(db) /\ b # NoBack /\ db' = Restored(g, rows)
  BY InvIsGood DEF PutBack
<1>1. b \in Back /\ b.w \in Week /\ b.lines \in Seq(Line) /\ rows \in Seq(Ids \X Row)
  BY <1>0, HeadIs DEF Back
<1>2. /\ \A i \in 1..Len(b.lines) : b.lines[i].who # Overseer
      /\ \A i \in 1..Len(rows) : rows[i][2].who # Overseer /\ ~rows[i][2].aside
  BY DEF HimBack
<1> HIDE DEF b
<1>3. Good(d) /\ Ours(db, d)
  <2>1. b.lines # <<>> => b.lines[1] \in Line /\ b.lines[1].who # Overseer
    BY <1>1, <1>2
  <2>2. CASE b.lines = <<>>
    BY <1>0, <2>2, OursItself
  <2>3. CASE b.lines # <<>>
    BY <1>0, <1>1, <2>1, <2>3, SetLineGood, OursLine DEF Leads
  <2> QED
    BY <2>2, <2>3
<1> HIDE DEF d
<1>4. Good(g) /\ Ours(d, g)
  <2>1. Good(g)
    BY <1>1, <1>3, FreshGoneGood
  <2>2. weekEntry(d, b.w) # NoEntry => weekEntry(d, b.w) \in Ids
    BY <1>3, WeekEntryIs DEF Good
  <2>3. Ours(d, g)
    BY <1>3, <2>2, OursDelete, OursItself DEF FreshGone
  <2> QED
    BY <2>1, <2>3
<1> HIDE DEF g
<1>5. Ours(g, Restored(g, rows))
  <2> HIDE DEF rows
  <2>1. CASE Len(rows) = 0
    BY <2>1, OursItself DEF Restored
  <2>2. CASE Len(rows) = 1
    <3>0. 1 \in 1..Len(rows)
      BY <2>2
    <3>1. rows[1] \in Ids \X Row /\ rows[1][2].who # Overseer /\ ~rows[1][2].aside
      BY <1>1, <1>2, <3>0, ElementOfSeq
    <3>2. Ours(g, RowBack(g, rows[1]))
      BY <1>4, <3>1, RowBackOurs
    <3> QED
      BY <2>2, <3>2 DEF Restored
  <2>3. CASE Len(rows) \notin {0, 1}
    <3>a. Len(rows) \in Nat
      BY <1>1
    <3> DEFINE n == Len(rows)
    <3>b. n \in Nat /\ n # 0 /\ n # 1
      BY <2>3, <3>a
    <3> HIDE DEF n
    <3>c. 1 \in 1..n /\ 2 \in 1..n
      BY <3>b
    <3>0. 1 \in 1..Len(rows) /\ 2 \in 1..Len(rows)
      BY <3>c DEF n
    <3>1. /\ rows[1] \in Ids \X Row /\ rows[1][2].who # Overseer /\ ~rows[1][2].aside
          /\ rows[2] \in Ids \X Row /\ rows[2][2].who # Overseer /\ ~rows[2][2].aside
      BY <1>1, <1>2, <3>0, ElementOfSeq
    <3> DEFINE z == RowBack(g, rows[1])
    <3>2. Ours(g, z) /\ Good(z)
      BY <1>4, <3>1, RowBackOurs, RowBackGood
    <3> HIDE DEF z
    <3>3. Ours(z, RowBack(z, rows[2]))
      BY <3>1, <3>2, RowBackOurs
    <3>4. Ours(g, RowBack(z, rows[2]))
      BY <3>2, <3>3, OursOn
    <3> QED
      BY <2>3, <3>4 DEF Restored, z
  <2> QED
    BY <2>1, <2>2, <2>3
<1>6. Ours(db, g)
  BY <1>3, <1>4, OursOn
<1> QED
  BY <1>0, <1>5, <1>6, OursOn

----------------------------------------------------------------------------
(* The invariant: while nothing else was done beside a visit, the overseer   *)
(* is named and entered where his request has brought him, and nowhere else. *)

HimKept ==
    /\ HimWhole(db)
    /\ Quiet => HimRests(db)
    /\ \A r \in Requests : Busy(r) => /\ HimRound(over, db, job[r].todo)
                                      /\ job[r].back # NoBack => HimBack(job[r].back) /\ Apart(db, job[r].todo)
HimInv == NoneBack /\ "beside a visit" \notin past => HimKept

LEMMA HimOver ==
    ASSUME NEW o, NEW d, HimRound(o, d, <<>>)
    PROVE HimRests(d)
BY DEF HimRound, HimComing, HimSaving, HimGoing, HimMoving, HimRests

LEMMA HimStep ==
    ASSUME WholeInv, GuestInv, RoundInv, HimInv, [Next]_vars
    PROVE HimInv'
<1> SUFFICES ASSUME NoneBack', "beside a visit" \notin past'
             PROVE HimKept'
  BY DEF HimInv
<1>0. TalkInv /\ Alone /\ TalkInv'
  BY WholeStep DEF WholeInv
<1>s. ASSUME past \subseteq past'
      PROVE /\ NoneBack /\ HimKept /\ AsideSound(db) /\ VisitSound(db.visit) /\ "beside a visit" \notin past
            /\ \A r, x \in Requests : Busy(r) /\ Busy(x) => r = x
  BY <1>0, <1>s DEF HimInv, GuestInv, RoundInv, RoundKept, NoneBack, OneAtATime, Alone
<1>1. CASE UNCHANGED vars
  <2>1. db' = db /\ over' = over /\ job' = job /\ past' = past
    BY <1>1 DEF vars, history
  <2> QED
    BY <1>s, <2>1 DEF HimKept, Quiet, Busy
<1>2. CASE Tick
  <2>1. /\ db' = db /\ job' = job /\ past \subseteq past'
        /\ (\E r \in Requests : Busy(r)) => "overlap" \in past'
    BY <1>2 DEF Tick
  <2>2. HimKept /\ \A r \in Requests : ~Busy(r)
    BY <1>s, <2>1 DEF NoneBack, OneAtATime
  <2> QED
    BY <2>1, <2>2 DEF HimKept, Quiet, Busy
<1>3. ASSUME NEW r \in Requests, Begins(r)
      PROVE HimKept'
  <2>1. BeginsAmong(r)
    <3>1. CASE replaceSpeaker(r)
      BY <1>0, <3>1, ReplaceIsKept
    <3>2. CASE undoReplacement(r)
      BY <1>0, <3>2, UndoIsKept
    <3>3. CASE ~replaceSpeaker(r) /\ ~undoReplacement(r)
      BY <1>0, <1>3, <3>3, MostBeginPlainly DEF PlainBegin
    <3> QED
      BY <3>1, <3>2, <3>3
  <2>2. past \subseteq past' /\ \A x \in Requests \ {r} : job'[x] = job[x] /\ ~Busy(x)
    BY <2>1 DEF BeginsAmong, NoneBack, OneAtATime
  <2>3. Quiet
    BY <2>1, <2>2 DEF BeginsAmong, Quiet
  <2>4. ~RestoreLine(r)
    <3>1. RestoreLine(r) => "line back" \in past'
      BY DEF RestoreLine, Begin, BeginWith, LeavesBehind, Causes
    <3> QED
      BY <3>1 DEF NoneBack
  <2>5. HimBegan(r)
    BY <1>0, <1>3, <1>s, <2>2, <2>3, <2>4, HimAllBegan DEF HimReady, HimKept
  <2>6. \A x \in Requests \ {r} : ~Busy(x)'
    BY <2>2 DEF Busy
  <2>7. Quiet' => HimRests(db')
    <3>1. SUFFICES ASSUME Quiet'
                   PROVE HimRests(db')
      OBVIOUS
    <3>2. job'[r].todo = <<>>
      BY <3>1 DEF Quiet, Busy
    <3> QED
      BY <2>5, <3>2, HimOver DEF HimBegan
  <2>8. HimWhole(db)'
    BY <2>5 DEF HimBegan
  <2>9. over' = over
    BY <1>3, BeginLeavesOver
  <2>10. /\ HimRound(over', db', job'[r].todo)
         /\ job'[r].back # NoBack => HimBack(job'[r].back) /\ Apart(db', job'[r].todo)
    BY <2>5, <2>9 DEF HimBegan
  <2> QED
    BY <2>6, <2>7, <2>8, <2>10 DEF HimKept
<1>4. ASSUME NEW r \in Requests, Steps(r)
      PROVE HimKept'
  <2>1. GoesOn(r)
    BY <1>0, <1>4, StepGoesOn
  <2>2. HimKept /\ AsideSound(db) /\ VisitSound(db.visit)
    BY <1>s, <2>1 DEF GoesOn
  <2>3. Busy(r) /\ \A x \in Requests \ {r} : job'[x] = job[x] /\ ~Busy(x)
    BY <1>s, <2>1 DEF GoesOn
  <2>4. HimWhole(db) /\ HimRound(over, db, job[r].todo)
    BY <2>2, <2>3 DEF HimKept
  <2>5. /\ HimKeeps(over, db', job'[r].todo)
        /\ Apart(db, job[r].todo) => Apart(db', job'[r].todo)
    BY <1>0, <1>4, <2>2, <2>4, HimRoundGoesOn DEF Apart
  <2>6. \A x \in Requests \ {r} : ~Busy(x)'
    BY <2>3 DEF Busy
  <2>7. Busy(r)' => /\ HimRound(over', db', job'[r].todo)
                    /\ job'[r].back # NoBack => HimBack(job'[r].back) /\ Apart(db', job'[r].todo)
    BY <1>4, <2>1, <2>2, <2>3, <2>5, StepLeavesFound DEF HimKeeps, Busy, GoesOn, HimKept
  <2>8. Quiet' => HimRests(db')
    BY <2>5 DEF HimKeeps, Quiet, Busy
  <2>9. HimWhole(db)'
    BY <2>5 DEF HimKeeps
  <2> QED
    BY <2>6, <2>7, <2>8, <2>9 DEF HimKept
<1>5. ASSUME NEW r \in Requests, PutBack(r)
      PROVE HimKept'
  <2>1. /\ Busy(r) /\ job[r].back # NoBack /\ job' = [job EXCEPT ![r] = Idle] /\ past \subseteq past'
        /\ job \in [Requests -> Job]
    BY <1>0, <1>5 DEF PutBack, TalkInv, TypeOK
  <2>2. HimKept /\ \A x \in Requests \ {r} : ~Busy(x)
    BY <1>s, <2>1
  <2>3. HimBack(job[r].back) /\ Apart(db, job[r].todo) /\ HimWhole(db)
    BY <2>1, <2>2 DEF HimKept
  <2>4. Ours(db, db')
    BY <1>0, <1>5, <2>3, PutBackOurs
  <2>5. NoHim(db') /\ db'.visit = db.visit /\ db.visit.at # "on"
    BY <2>3, <2>4 DEF Ours, Apart, NoHim
  <2>6. HisRows(db')
    BY <1>0, <2>3, <2>4, <2>5, OursRows DEF HimWhole, Apart, TalkInv, TypeOK
  <2>7. HimWhole(db') /\ HimRests(db')
    BY <2>3, <2>5, <2>6 DEF HimWhole, HimRests
  <2>8. \A x \in Requests : ~Busy(x)'
    BY <2>1, <2>2 DEF Busy, Idle
  <2> QED
    BY <2>7, <2>8 DEF HimKept
<1>6. ASSUME NEW r \in Requests
      PROVE ~Lose(r)
  BY DEF Lose, NoneBack, OneAtATime
<1> QED
  BY <1>1, <1>2, <1>3, <1>4, <1>5, <1>6 DEF Next

LEMMA HimInit ==
    ASSUME Init
    PROVE HimInv
<1>1. db \in Setups
  BY DEF Init
<1>2. /\ db \in Database /\ \A w \in Week : Agreed(db, w)
      /\ \A e \in Ids : LET row == db.entry[e] IN
           /\ row.at = "live" /\ row.who = Overseer => row.held /\ visitOfWeek(db, row.week)
           /\ row.aside => row.who # Overseer
      /\ db.visit.prev # Overseer
  BY <1>1, TalkSetups
<1>3. HimWhole(db)
  BY <1>2 DEF HimWhole, HisRows, HisRow
<1>4. \A w \in Week : /\ db.line[w].who = Overseer => Seen(db.line[w]) /\ visitOfWeek(db, w)
                      /\ visitOfWeek(db, w) /\ Seen(db.line[w]) => db.visit.done /\ db.visit.prev # NoPrev
  BY <1>2 DEF Agreed
<1>5. \A w \in Week : ~visitOfWeek(db, w) => NoHimIn(db, w)
  BY <1>2, <1>4 DEF NoHimIn
<1>6. HimRests(db)
  <2>1. db.visit.week \in Week
    BY <1>2 DEF Database, Visit
  <2>2. CASE db.visit.at = "on"
    <3>1. visitOfWeek(db, db.visit.week)
      BY <2>2 DEF visitOfWeek
    <3>2. HisLine(db, db.visit.week)
      BY <1>4, <2>1, <3>1 DEF HisLine, Hands
    <3>3. NoHimBut(db, {db.visit.week})
      BY <1>5 DEF NoHimBut, visitOfWeek
    <3> QED
      BY <2>2, <3>2, <3>3 DEF HimRests
  <2>3. CASE db.visit.at # "on"
    BY <1>5, <2>3 DEF HimRests, NoHim, visitOfWeek
  <2> QED
    BY <2>2, <2>3
<1>7. \A r \in Requests : ~Busy(r)
  BY DEF Init, Busy, Idle
<1> QED
  BY <1>3, <1>6, <1>7 DEF HimInv, HimKept

\* Where the overseer is named or entered, his visit stands.
LEMMA HimOnlyByVisit ==
    ASSUME WholeInv, HimInv, NoneBack, "beside a visit" \notin past, Quiet, NEW w \in Week
    PROVE mismatch(db, w) # "overseer_without_visit"
<1>0. TalkInv /\ HimRests(db)
  BY DEF WholeInv, HimInv, HimKept
<1>1. CASE visitOfWeek(db, w)
  BY <1>1 DEF mismatch
<1>2. CASE ~visitOfWeek(db, w)
  <2>1. NoHimIn(db, w)
    BY <1>0, <1>2 DEF HimRests, NoHimBut, NoHim, visitOfWeek
  <2>2. weekEntry(db, w) # NoEntry => db.entry[weekEntry(db, w)].who # Overseer
    BY <1>0, <2>1, InvIsGood, WeekEntryIs DEF NoHimIn, Standing
  <2> QED
    BY <2>1, <2>2 DEF NoHimIn, mismatch
<1> QED
  BY <1>1, <1>2

----------------------------------------------------------------------------
(* A call of the journal's or of the line's, taken for what it does.         *)

LEMMA JournalCallsRun ==
    ASSUME TalkInv, NEW r \in Requests, Steps(r), NEW c, c = Args(r)
    PROVE /\ c.call \in {"apply", "release", "clear", "delete", "write", "adopt"} => job'[r].todo = Rest(r)
          /\ c.call = "apply" => db' = applyIncomingToProgram(db, c.e, c.row, c.ow)
          /\ c.call = "release" => db' = releaseLine(db, c.w, c.e)
          /\ c.call = "clear" => db' = clearProgramSlot(db, c.e, c.row)
          /\ c.call = "delete" => db' = softDelete(db, c.e)
          /\ c.call = "write" => db' = Put(db, c.e, c.row)
          /\ c.call = "adopt" =>
               LET e == weekEntry(db, c.w) IN
               db' = IF e # NoEntry /\ db.entry[e].hand = "app" THEN [db EXCEPT !.entry[e].hand = "own"] ELSE db
          /\ c.call = "saveEntry" =>
               LET left == Standing(c.was) /\ (~c.row.held \/ c.row.week # c.was.week) IN
               IF WeekTaken(db, c.e, c.row) THEN db' = db /\ job'[r].todo = <<>>
               ELSE /\ db' = Put(db, c.e, c.row)
                    /\ job'[r].todo = (IF left THEN <<[call |-> "release", w |-> c.was.week, e |-> c.e]>> ELSE <<>>)
                                        \o <<Apply(c.e, c.row, c.ow)>>
<1>1. Busy(r)
  BY StepGoesOn DEF GoesOn
<1>2. /\ c.call = "apply" => RunApply(r)
      /\ c.call = "release" => RunRelease(r)
      /\ c.call = "clear" => RunClear(r)
      /\ c.call = "delete" => RunDelete(r)
      /\ c.call = "write" => RunWrite(r)
      /\ c.call = "adopt" => RunAdopt(r)
      /\ c.call = "saveEntry" => saveEntry(r)
  BY DEF Steps, Doing, Args, RunApply, saveEntry, RunRelease, RunClear, RunDelete, RunFill, SaveLine,
     RunSync, moveWeekEntries, RunWrite, RunAdopt, RunName, RunTemplate, RunApplied, RunSaveVisit,
     RunSpeaker, RunRevert, RunVisitMoved, RunVisitRemoved, DeleteVisit
<1>3. c.call = "apply" => db' = applyIncomingToProgram(db, c.e, c.row, c.ow) /\ job'[r].todo = Rest(r)
  BY <1>2, DoneTurns DEF RunApply
<1>4. c.call = "release" => db' = releaseLine(db, c.w, c.e) /\ job'[r].todo = Rest(r)
  BY <1>2, DoneTurns DEF RunRelease
<1>5. c.call = "clear" => db' = clearProgramSlot(db, c.e, c.row) /\ job'[r].todo = Rest(r)
  BY <1>2, DoneTurns DEF RunClear
<1>6. c.call = "delete" => db' = softDelete(db, c.e) /\ job'[r].todo = Rest(r)
  BY <1>2, DoneTurns DEF RunDelete
<1>7. c.call = "write" => db' = Put(db, c.e, c.row) /\ job'[r].todo = Rest(r)
  BY <1>2, DoneTurns DEF RunWrite
<1>8. c.call = "adopt" =>
        LET e == weekEntry(db, c.w) IN
        /\ db' = IF e # NoEntry /\ db.entry[e].hand = "app" THEN [db EXCEPT !.entry[e].hand = "own"] ELSE db
        /\ job'[r].todo = Rest(r)
  BY <1>2, DoneTurns DEF RunAdopt
<1>9. c.call = "saveEntry" =>
        LET left == Standing(c.was) /\ (~c.row.held \/ c.row.week # c.was.week) IN
        IF WeekTaken(db, c.e, c.row) THEN db' = db /\ job'[r].todo = <<>>
        ELSE /\ db' = Put(db, c.e, c.row)
             /\ job'[r].todo = (IF left THEN <<[call |-> "release", w |-> c.was.week, e |-> c.e]>> ELSE <<>>)
                                 \o <<Apply(c.e, c.row, c.ow)>>
  BY <1>2, EndsTurns DEF saveEntry
<1> QED
  BY <1>3, <1>4, <1>5, <1>6, <1>7, <1>8, <1>9

LEMMA LineCallsRun ==
    ASSUME TalkInv, NEW r \in Requests, Steps(r), NEW c, c = Args(r)
    PROVE /\ c.call \in {"fill", "saveLine", "sync", "name"} => job'[r].todo = Rest(r)
          /\ c.call = "fill" => db' = fillEmptySlot(db, c.w)
          /\ c.call = "saveLine" => db' = SetLine(db, c.w, c.l)
          /\ c.call = "sync" => Room(db) /\ db' = syncProgramToJournal(db, c.w, c.changed, c.restored)
          /\ c.call = "name" =>
               db' = IF Seen(db.line[c.w])
                     THEN SetLine(db, c.w, [db.line[c.w] EXCEPT !.who = db.entry[c.e].who, !.link = c.e]) ELSE db
          /\ c.call = "move" =>
               LET d == Moved(db, c) IN
               IF \E w \in Week : Cardinality(Live(d, w)) > 1 THEN db' = db /\ job'[r].todo = <<>>
               ELSE db' = d /\ job'[r].todo = Rest(r)
<1>1. Busy(r)
  BY StepGoesOn DEF GoesOn
<1>2. /\ c.call = "fill" => RunFill(r)
      /\ c.call = "saveLine" => SaveLine(r)
      /\ c.call = "sync" => RunSync(r)
      /\ c.call = "name" => RunName(r)
      /\ c.call = "move" => moveWeekEntries(r)
  BY DEF Steps, Doing, Args, RunApply, saveEntry, RunRelease, RunClear, RunDelete, RunFill, SaveLine,
     RunSync, moveWeekEntries, RunWrite, RunAdopt, RunName, RunTemplate, RunApplied, RunSaveVisit,
     RunSpeaker, RunRevert, RunVisitMoved, RunVisitRemoved, DeleteVisit
<1>3. c.call = "fill" => db' = fillEmptySlot(db, c.w) /\ job'[r].todo = Rest(r)
  BY <1>2, DoneTurns DEF RunFill
<1>4. c.call = "saveLine" => db' = SetLine(db, c.w, c.l) /\ job'[r].todo = Rest(r)
  BY <1>2, DoneTurns DEF SaveLine
<1>5. c.call = "sync" => /\ Room(db) /\ job'[r].todo = Rest(r)
                         /\ db' = syncProgramToJournal(db, c.w, c.changed, c.restored)
  BY <1>2, DoneTurns DEF RunSync
<1>6. c.call = "name" =>
        /\ db' = IF Seen(db.line[c.w])
                 THEN SetLine(db, c.w, [db.line[c.w] EXCEPT !.who = db.entry[c.e].who, !.link = c.e]) ELSE db
        /\ job'[r].todo = Rest(r)
  BY <1>2, DoneTurns DEF RunName
<1>7. c.call = "move" =>
        LET d == Moved(db, c) IN
        IF \E w \in Week : Cardinality(Live(d, w)) > 1 THEN db' = db /\ job'[r].todo = <<>>
        ELSE db' = d /\ job'[r].todo = Rest(r)
  BY <1>2, DoneTurns, EndsTurns DEF moveWeekEntries
<1> QED
  BY <1>3, <1>4, <1>5, <1>6, <1>7

----------------------------------------------------------------------------
(* Weeks that agree, but some.                                               *)

Calm(o, c, d, S) == Uncancelled(d) /\ AllBut(o, c, d, S)

LEMMA CalmOn ==
    ASSUME NEW o, NEW c, NEW d, NEW y, NEW w, Touches(d, y, w), Uncancelled(y), NEW S, Calm(o, c, d, S),
           NEW T, S \subseteq T \cup {w}, w \in T \/ Agrees(o, c, y, w)
    PROVE Calm(o, c, y, T)
<1>1. AllBut(o, c, y, S \cup {w})
  BY TouchedAllBut DEF Calm
<1> QED
  BY <1>1 DEF Calm, AllBut

LEMMA CalmWider ==
    ASSUME NEW o, NEW c, NEW d, NEW S, Calm(o, c, d, S), NEW T, S \subseteq T
    PROVE Calm(o, c, d, T)
BY DEF Calm, AllBut

LEMMA CalmNarrower ==
    ASSUME NEW o, NEW c, NEW d, NEW S, NEW w, Calm(o, c, d, S \cup {w}), Agrees(o, c, d, w)
    PROVE Calm(o, c, d, S)
BY DEF Calm, AllBut

LEMMA CalmSame ==
    ASSUME NEW o, NEW c, NEW d, NEW y, Uncancelled(y), y.line = d.line, \A x \in Week : Live(y, x) = Live(d, x),
           \A e \in Ids : Standing(d.entry[e]) => y.entry[e].who = d.entry[e].who, NEW S, Calm(o, c, d, S)
    PROVE Calm(o, c, y, S)
<1> SUFFICES ASSUME NEW x \in Week \ S
             PROVE Agrees(o, c, y, x)
  BY DEF Calm, AllBut
<1>1. Agrees(o, c, d, x) /\ Live(y, x) = Live(d, x) /\ \A e \in Live(d, x) : y.entry[e].who = d.entry[e].who
  BY DEF Calm, AllBut, Live
<1> QED
  BY <1>1 DEF Agrees, Tied, Filled

----------------------------------------------------------------------------
(* The journal's calls.                                                      *)

\* A row saved: the lines of other weeks stay tied, and those linked to it are tied but to it.
LEMMA SavedTies ==
    ASSUME NEW o, NEW c, NEW d, Good(d), Calm(o, c, d, {}), NEW e \in Ids, NEW row, ~row.off,
           NEW was, was = d.entry[e]
    PROVE LET y == Put(d, e, row) IN
          /\ Uncancelled(y) /\ y.entry[e] = row
          /\ \A x \in Week : /\ TiedBut(o, y, x, e)
                             /\ ~(Standing(row) /\ x = row.week) /\ ~(Standing(was) /\ x = was.week) => Agrees(o, c, y, x)
          /\ Standing(was) /\ ~(Standing(row) /\ was.week = row.week) => Live(y, was.week) = {}
<1> DEFINE y == Put(d, e, row)
<1>1. Rewrites(d, y, e, row) /\ Uncancelled(y)
  BY RowPut DEF Calm
<1> HIDE DEF y
<1>2. y.line = d.line /\ y.entry[e] = row /\ \A f \in Ids \ {e} : y.entry[f] = d.entry[f]
  BY <1>1 DEF Rewrites
<1>3. ASSUME NEW x \in Week
      PROVE /\ TiedBut(o, y, x, e)
            /\ ~(Standing(row) /\ x = row.week) /\ ~(Standing(was) /\ x = was.week) => Agrees(o, c, y, x)
  <2>1. Agrees(o, c, d, x)
    BY DEF Calm, AllBut
  <2>2. \A f \in Ids \ {e} : f \in Live(y, x) <=> f \in Live(d, x)
    BY <1>2 DEF Live
  <2>3. TiedBut(o, y, x, e)
    BY <1>2, <2>1, <2>2 DEF Agrees, Tied, TiedBut, Live
  <2>4. ASSUME ~(Standing(row) /\ x = row.week), ~(Standing(was) /\ x = was.week)
        PROVE Agrees(o, c, y, x)
    <3>1. e \notin Live(d, x) /\ e \notin Live(y, x)
      BY <1>2, <2>4 DEF Live
    <3>2. Live(y, x) = Live(d, x)
      BY <2>2, <3>1 DEF Live
    <3>3. \A f \in Live(d, x) : y.entry[f] = d.entry[f]
      BY <1>2, <3>1 DEF Live
    <3> QED
      BY <1>2, <2>1, <3>2, <3>3 DEF Agrees, Tied, Filled
  <2> QED
    BY <2>3, <2>4
<1>4. ASSUME Standing(was), ~(Standing(row) /\ was.week = row.week)
      PROVE Live(y, was.week) = {}
  <2>1. e \in Live(d, was.week)
    BY <1>4 DEF Live
  <2>2. Live(d, was.week) = {e}
    BY <2>1, StandsAlone
  <2>3. \A f \in Ids : f \in Live(y, was.week) => f # e /\ f \in Live(d, was.week)
    BY <1>2, <1>4 DEF Live
  <2> QED
    BY <2>2, <2>3 DEF Live
<1> QED
  BY <1>1, <1>2, <1>3, <1>4 DEF y

LEMMA EmptiedLine ==
    ASSUME NEW d, Good(d), Uncancelled(d), NEW w \in Week
    PROVE LET y == SetLine(d, w, [d.line[w] EXCEPT !.who = NoOne, !.link = NoEntry]) IN
          /\ Touches(d, y, w) /\ Uncancelled(y) /\ y.entry = d.entry /\ y.line[w].who = NoOne
          /\ \A x : Live(y, x) = Live(d, x)
<1> DEFINE l == [d.line[w] EXCEPT !.who = NoOne, !.link = NoEntry]
<1>1. d.line[w] \in Line
  BY DEF Good, Database
<1>2. l.at = d.line[w].at /\ l.who = NoOne
  BY <1>1 DEF Line
<1> HIDE DEF l
<1>3. LET y == SetLine(d, w, l) IN
      /\ Touches(d, y, w) /\ y.entry = d.entry /\ y.line[w] = l /\ \A x : Live(y, x) = Live(d, x)
      /\ Uncancelled(d) /\ l.at # "cancelled" => Uncancelled(y)
  BY LineWritten
<1>4. l.at # "cancelled"
  BY <1>2 DEF Uncancelled
<1> QED
  BY <1>2, <1>3, <1>4 DEF l

LEMMA ReleaseTies ==
    ASSUME NEW d, Good(d), Uncancelled(d), NEW w \in Week, NEW e \in Ids, Live(d, w) = {}, TiedBut(over, d, w, e)
    PROVE LET y == releaseLine(d, w, e) IN
          /\ Touches(d, y, w) /\ Uncancelled(y) /\ y.entry = d.entry /\ \A c : Agrees(over, c, y, w)
<1> DEFINE l == d.line[w]
           y == releaseLine(d, w, e)
           z == SetLine(d, w, [l EXCEPT !.who = NoOne, !.link = NoEntry])
<1>1. e # NoEntry /\ d.entry[e] \in Row
  BY TalkConstants DEF Ids, NoEntry, Good, Database
<1>2. [d.entry[e] EXCEPT !.week = w].week = w
  BY <1>1 DEF Row
<1>3. y = IF Seen(l) /\ l.link = e /\ w > over /\ l.who # NoOne THEN z ELSE d
  BY <1>1, <1>2 DEF releaseLine, clearProgramSlot, programmeOpen
<1>4. /\ Touches(d, z, w) /\ Uncancelled(z) /\ z.entry = d.entry /\ z.line[w].who = NoOne
      /\ \A x : Live(z, x) = Live(d, x)
  BY EmptiedLine
<1> HIDE DEF y, z
<1>5. CASE y = z /\ y # d
  BY <1>4, <1>5 DEF Agrees, Tied, Filled, y
<1>6. CASE y = d
  <2>1. w > over /\ Seen(l) /\ l.who # NoOne => l.link # e \/ z = d
    BY <1>3, <1>6
  <2>2. z = d => l.who = NoOne
    BY <1>4
  <2> QED
    BY <1>6, <2>1, <2>2, TouchesNothing DEF Agrees, Tied, Filled, TiedBut, y
<1> QED
  BY <1>3, <1>5, <1>6

LEMMA ClearTies ==
    ASSUME NEW d, Good(d), Uncancelled(d), NEW e \in Ids, NEW row, row = d.entry[e], row.at = "live",
           Tied(over, d, row.week)
    PROVE LET y == clearProgramSlot(d, e, row)
              w == row.week
          IN  /\ Touches(d, y, w) /\ Uncancelled(y) /\ y.entry = d.entry
              /\ Standing(row) => (w > over /\ Seen(y.line[w]) => y.line[w].who = NoOne)
              /\ ~Standing(row) => y = d
<1> DEFINE w == row.week
           l == d.line[w]
           y == clearProgramSlot(d, e, row)
           z == SetLine(d, w, [l EXCEPT !.who = NoOne, !.link = NoEntry])
           its == IF l.link # NoEntry THEN l.link = e ELSE l.who = row.who
<1>1. row \in Row /\ NoEntry \notin Ids
  BY TalkConstants DEF Ids, NoEntry, Good, Database
<1>2. w \in Week
  BY <1>1 DEF Row
<1>3. y = IF Seen(l) /\ w > over /\ l.who # NoOne /\ its THEN z ELSE d
  BY DEF clearProgramSlot, programmeOpen
<1>4. Touches(d, z, w) /\ Uncancelled(z) /\ z.entry = d.entry /\ z.line[w].who = NoOne
  BY <1>2, EmptiedLine
<1>5. w > over /\ Seen(l) /\ l.who # NoOne => l.link \in Live(d, w)
  BY DEF Tied
<1>6. Live(d, w) \subseteq Ids
  BY DEF Live
<1>7. CASE Standing(row)
  <2>1. e \in Live(d, w)
    BY <1>7 DEF Live
  <2>2. Live(d, w) = {e}
    BY <2>1, StandsAlone
  <2>3. w > over /\ Seen(l) /\ l.who # NoOne => its
    BY <1>1, <1>5, <2>2
  <2> HIDE DEF its, z, y
  <2> QED
    BY <1>3, <1>4, <1>7, <2>3, TouchesNothing DEF y
<1>8. CASE ~Standing(row)
  <2>1. e \notin Live(d, w)
    BY <1>8 DEF Live
  <2>2. w > over /\ Seen(l) /\ l.who # NoOne => ~its
    BY <1>1, <1>5, <1>6, <2>1
  <2> HIDE DEF its, z, y
  <2> QED
    BY <1>3, <1>8, <2>2, TouchesNothing DEF y
<1> QED
  BY <1>7, <1>8

LEMMA DeleteTies ==
    ASSUME NEW o, NEW c, NEW d, Good(d), NEW e \in Ids, NEW w, w = d.entry[e].week,
           IF Standing(d.entry[e]) THEN Calm(o, c, d, {w}) /\ (w > o /\ Seen(d.line[w]) => d.line[w].who = NoOne)
           ELSE Calm(o, c, d, {})
    PROVE Calm(o, c, softDelete(d, e), {})
<1> DEFINE y == softDelete(d, e)
           r == [d.entry[e] EXCEPT !.at = "gone"]
<1>0. d.entry[e] \in Row
  BY DEF Good, Database
<1>1. Rewrites(d, y, e, r)
  BY DeletingRewrites
<1>2. r.at = "gone" /\ r.off = d.entry[e].off /\ r.week = w
  BY <1>0 DEF Row
<1> HIDE DEF y, r
<1>3. Uncancelled(d)
  BY DEF Calm
<1>4. Uncancelled(y)
  BY <1>1, <1>2, <1>3, CleanRewrites DEF Uncancelled
<1>5. y.line = d.line /\ y.entry[e] = r /\ \A f \in Ids \ {e} : y.entry[f] = d.entry[f]
  BY <1>1 DEF Rewrites
<1>6. CASE Standing(d.entry[e])
  <2>1. Touches(d, y, w)
    BY <1>1, <1>2, RewritingTouches DEF OfWeek
  <2>2. e \in Live(d, w)
    BY <1>6 DEF Live
  <2>3. Live(d, w) = {e}
    BY <2>2, StandsAlone
  <2>4. Live(y, w) = {}
    BY <1>2, <1>5, <2>3 DEF Live, Standing
  <2>5. Agrees(o, c, y, w)
    BY <1>5, <1>6, <2>4 DEF Agrees, Tied, Filled
  <2> QED
    BY <1>4, <1>6, <2>1, <2>5, CalmOn DEF y
<1>7. CASE ~Standing(d.entry[e])
  <2>1. \A x \in Week : Live(y, x) = Live(d, x)
    BY <1>2, <1>5, <1>7 DEF Live, Standing
  <2>2. \A f \in Ids : Standing(d.entry[f]) => y.entry[f].who = d.entry[f].who
    BY <1>5, <1>7
  <2> QED
    BY <1>4, <1>5, <1>7, <2>1, <2>2, CalmSame DEF y
<1> QED
  BY <1>6, <1>7

----------------------------------------------------------------------------
(* What the journal's requests have yet to do, and how the weeks stand.      *)

SavesRow(e, row, was, ow) == [call |-> "saveEntry", e |-> e, row |-> row, was |-> was, ow |-> ow]
Releases(w, e) == [call |-> "release", w |-> w, e |-> e]
Clears(e, row) == [call |-> "clear", e |-> e, row |-> row]
Deletes(e) == [call |-> "delete", e |-> e]

ToApply(o, k, d, e, row) ==
    /\ row = d.entry[e] /\ row.at = "live"
    /\ IF Standing(row) THEN Calm(o, k, d, {row.week}) /\ TiedBut(o, d, row.week, e) ELSE Calm(o, k, d, {})
ToSave(o, k, d, e, row, was) ==
    /\ Calm(o, k, d, {}) /\ was = d.entry[e] /\ was.at = "live"
    /\ row.at = "live" /\ ~row.off /\ (row.held \/ row.week = was.week)
ToRelease(o, k, d, w, e, row) ==
    /\ row = d.entry[e] /\ row.at = "live" /\ Live(d, w) = {} /\ TiedBut(o, d, w, e)
    /\ IF Standing(row) THEN row.week # w /\ Calm(o, k, d, {w, row.week}) /\ TiedBut(o, d, row.week, e)
       ELSE Calm(o, k, d, {w})
ToClear(o, k, d, e, row) == row = d.entry[e] /\ row.at = "live" /\ Calm(o, k, d, {})
ToDelete(o, k, d, e) ==
    LET w == d.entry[e].week IN
    IF Standing(d.entry[e]) THEN Calm(o, k, d, {w}) /\ (w > o /\ Seen(d.line[w]) => d.line[w].who = NoOne)
    ELSE Calm(o, k, d, {})

JournalTied(o, k, d, t) ==
    \/ \E e \in Ids, row \in Row, ow \in BOOLEAN : ToApply(o, k, d, e, row) /\ t = <<Apply(e, row, ow)>>
    \/ \E e \in Ids, row \in Row, was \in Row, ow \in BOOLEAN :
         ToSave(o, k, d, e, row, was) /\ t = <<SavesRow(e, row, was, ow)>>
    \/ \E w \in Week, e \in Ids, row \in Row, ow \in BOOLEAN :
         ToRelease(o, k, d, w, e, row) /\ t = <<Releases(w, e), Apply(e, row, ow)>>
    \/ \E e \in Ids, row \in Row : ToClear(o, k, d, e, row) /\ t = <<Clears(e, row), Deletes(e)>>
    \/ \E e \in Ids : ToDelete(o, k, d, e) /\ t = <<Deletes(e)>>

LEMMA AppliedToEnd ==
    ASSUME TalkInv, NEW r \in Requests, Steps(r), NEW k, NEW e \in Ids, NEW row \in Row, NEW ow \in BOOLEAN,
           ToApply(over, k, db, e, row), job[r].todo = <<Apply(e, row, ow)>>
    PROVE job'[r].todo = <<>> /\ Calm(over, k, db', {})
<1> DEFINE c == Apply(e, row, ow)
           y == applyIncomingToProgram(db, e, row, ow)
<1>1. c.call = "apply" /\ c.e = e /\ c.row = row /\ c.ow = ow
  BY DEF Apply
<1> HIDE DEF c
<1>2. Args(r) = c /\ Rest(r) = <<>>
  BY TailsOfThree DEF Args, Rest, c
<1>3. job'[r].todo = <<>> /\ db' = y
  BY <1>1, <1>2, JournalCallsRun
<1>4. Good(db) /\ Uncancelled(db) /\ row = db.entry[e] /\ row.at = "live"
  BY InvIsGood DEF ToApply, Calm
<1>5. /\ Touches(db, y, row.week) /\ Uncancelled(y)
      /\ ~Standing(row) => y = db
      /\ Standing(row) /\ TiedBut(over, db, row.week, e) => Agrees(over, k, y, row.week)
  BY <1>4, ApplyTies
<1> HIDE DEF y
<1>6. CASE Standing(row)
  BY <1>3, <1>5, <1>6, CalmOn DEF ToApply
<1>7. CASE ~Standing(row)
  BY <1>3, <1>5, <1>7 DEF ToApply
<1> QED
  BY <1>6, <1>7

LEMMA SavedToGoOn ==
    ASSUME TalkInv, NEW r \in Requests, Steps(r), NEW k, NEW e \in Ids, NEW row \in Row, NEW was \in Row, NEW ow \in BOOLEAN,
           ToSave(over, k, db, e, row, was), job[r].todo = <<SavesRow(e, row, was, ow)>>
    PROVE (job'[r].todo = <<>> /\ Calm(over, k, db', {})) \/ JournalTied(over, k, db', job'[r].todo)
<1> DEFINE c == SavesRow(e, row, was, ow)
           y == Put(db, e, row)
           left == Standing(was) /\ (~row.held \/ row.week # was.week)
<1>1. c.call = "saveEntry" /\ c.e = e /\ c.row = row /\ c.was = was /\ c.ow = ow
  BY DEF SavesRow
<1> HIDE DEF c
<1>2. Args(r) = c
  BY TailsOfThree DEF Args, c
<1>3. IF WeekTaken(db, e, row) THEN db' = db /\ job'[r].todo = <<>>
      ELSE db' = y /\ job'[r].todo = (IF left THEN <<Releases(was.week, e)>> ELSE <<>>) \o <<Apply(e, row, ow)>>
  BY <1>1, <1>2, JournalCallsRun DEF Releases
<1>4. CASE WeekTaken(db, e, row)
  BY <1>3, <1>4 DEF ToSave
<1>5. CASE ~WeekTaken(db, e, row)
  <2> DEFINE a == Apply(e, row, ow)
             b == Releases(was.week, e)
  <2>1. Good(db) /\ Calm(over, k, db, {}) /\ ~row.off /\ was = db.entry[e] /\ row.at = "live" /\ row.week \in Week
        /\ was.week \in Week /\ was.at = "live" /\ (row.held \/ row.week = was.week)
    BY InvIsGood DEF ToSave, Row
  <2>2. /\ Uncancelled(y) /\ y.entry[e] = row
        /\ \A x \in Week : TiedBut(over, y, x, e)
        /\ \A x \in Week : ~(Standing(row) /\ x = row.week) /\ ~(Standing(was) /\ x = was.week) => Agrees(over, k, y, x)
        /\ Standing(was) /\ ~(Standing(row) /\ was.week = row.week) => Live(y, was.week) = {}
    BY <2>1, SavedTies
  <2> HIDE DEF y, a, b
  <2>3. CASE left
    <3>1. job'[r].todo = <<b, a>>
      BY <1>3, <1>5, <2>3 DEF a, b
    <3>2. Standing(row) => row.week # was.week
      BY <2>3 DEF Standing
    <3>3. Live(y, was.week) = {}
      BY <2>2, <2>3, <3>2
    <3>4. IF Standing(row) THEN Calm(over, k, y, {was.week, row.week}) ELSE Calm(over, k, y, {was.week})
      BY <2>2 DEF Calm, AllBut
    <3>5. ToRelease(over, k, y, was.week, e, row)
      BY <2>1, <2>2, <3>2, <3>3, <3>4 DEF ToRelease
    <3> QED
      BY <1>3, <1>5, <2>1, <3>1, <3>5 DEF JournalTied, a, b
  <2>4. CASE ~left
    <3>1. job'[r].todo = <<a>>
      <4>1. job'[r].todo = <<>> \o <<a>>
        BY <1>3, <1>5, <2>4 DEF a
      <4> QED
        BY <4>1
    <3>2. IF Standing(row) THEN Calm(over, k, y, {row.week}) ELSE Calm(over, k, y, {})
      <4>1. \A x \in Week : Standing(was) /\ x = was.week => Standing(row) /\ x = row.week
        BY <2>1, <2>4 DEF Standing
      <4> QED
        BY <2>2, <4>1 DEF Calm, AllBut
    <3>3. ToApply(over, k, y, e, row)
      BY <2>1, <2>2, <3>2 DEF ToApply
    <3> QED
      BY <1>3, <1>5, <3>1, <3>3 DEF JournalTied, a
  <2> QED
    BY <2>3, <2>4
<1> QED
  BY <1>4, <1>5

LEMMA ReleasedToGoOn ==
    ASSUME TalkInv, NEW r \in Requests, Steps(r), NEW k, NEW w \in Week, NEW e \in Ids, NEW row \in Row, NEW ow \in BOOLEAN,
           ToRelease(over, k, db, w, e, row), job[r].todo = <<Releases(w, e), Apply(e, row, ow)>>
    PROVE JournalTied(over, k, db', job'[r].todo)
<1> DEFINE c == Releases(w, e)
           t == <<Apply(e, row, ow)>>
           y == releaseLine(db, w, e)
<1>1. c.call = "release" /\ c.w = w /\ c.e = e
  BY DEF Releases
<1> HIDE DEF c
<1>2. Args(r) = c /\ Rest(r) = t
  BY TailsOfThree DEF Args, Rest, c
<1>3. job'[r].todo = t /\ db' = y
  BY <1>1, <1>2, JournalCallsRun
<1>4. /\ Good(db) /\ Uncancelled(db) /\ row = db.entry[e] /\ row.at = "live" /\ Live(db, w) = {}
      /\ TiedBut(over, db, w, e)
  BY InvIsGood DEF ToRelease, Calm
<1>5. /\ Touches(db, y, w) /\ Uncancelled(y) /\ y.entry = db.entry
      /\ Agrees(over, k, y, w)
  BY <1>4, ReleaseTies
<1> HIDE DEF y
<1>6. CASE Standing(row)
  <2>1. row.week # w /\ row.week \in Week /\ Calm(over, k, db, {w, row.week}) /\ TiedBut(over, db, row.week, e)
    BY <1>6 DEF ToRelease, Row
  <2>2. {w, row.week} \subseteq {row.week} \cup {w}
    OBVIOUS
  <2>3. Calm(over, k, y, {row.week})
    BY <1>5, <2>1, <2>2, CalmOn
  <2>4. TiedBut(over, y, row.week, e)
    BY <1>5, <2>1 DEF TiedBut, Touches, Live
  <2>5. ToApply(over, k, y, e, row)
    BY <1>4, <1>5, <1>6, <2>3, <2>4 DEF ToApply
  <2> QED
    BY <1>3, <2>5 DEF JournalTied
<1>7. CASE ~Standing(row)
  <2>1. Calm(over, k, db, {w})
    BY <1>7 DEF ToRelease
  <2>2. Calm(over, k, y, {})
    BY <1>5, <2>1, CalmOn
  <2>3. ToApply(over, k, y, e, row)
    BY <1>4, <1>5, <1>7, <2>2 DEF ToApply
  <2> QED
    BY <1>3, <2>3 DEF JournalTied
<1> QED
  BY <1>6, <1>7

LEMMA ClearedToGoOn ==
    ASSUME TalkInv, NEW r \in Requests, Steps(r), NEW k, NEW e \in Ids, NEW row \in Row,
           ToClear(over, k, db, e, row), job[r].todo = <<Clears(e, row), Deletes(e)>>
    PROVE JournalTied(over, k, db', job'[r].todo)
<1> DEFINE c == Clears(e, row)
           t == <<Deletes(e)>>
           y == clearProgramSlot(db, e, row)
<1>1. c.call = "clear" /\ c.e = e /\ c.row = row
  BY DEF Clears
<1> HIDE DEF c
<1>2. Args(r) = c /\ Rest(r) = t
  BY TailsOfThree DEF Args, Rest, c
<1>3. job'[r].todo = t /\ db' = y
  BY <1>1, <1>2, JournalCallsRun
<1>4. Good(db) /\ Calm(over, k, db, {}) /\ row = db.entry[e] /\ row.at = "live" /\ row.week \in Week
  BY InvIsGood DEF ToClear, Row
<1>5. Uncancelled(db) /\ Tied(over, db, row.week)
  BY <1>4 DEF Calm, AllBut, Agrees
<1>6. /\ Touches(db, y, row.week) /\ Uncancelled(y) /\ y.entry = db.entry
      /\ Standing(row) => (row.week > over /\ Seen(y.line[row.week]) => y.line[row.week].who = NoOne)
      /\ ~Standing(row) => y = db
  BY <1>4, <1>5, ClearTies
<1> HIDE DEF y
<1>7. Standing(row) => Calm(over, k, y, {row.week})
  <2> DEFINE T == {row.week}
             N == {}
  <2>1. Touches(db, y, row.week) /\ Uncancelled(y) /\ Calm(over, k, db, N)
    BY <1>4, <1>6
  <2>2. N \subseteq T \cup {row.week} /\ row.week \in T
    OBVIOUS
  <2> HIDE DEF T, N
  <2>3. Calm(over, k, y, T)
    BY <2>1, <2>2, CalmOn
  <2> QED
    BY <2>3 DEF T
<1>8. ToDelete(over, k, y, e)
  BY <1>4, <1>6, <1>7 DEF ToDelete
<1> QED
  BY <1>3, <1>8 DEF JournalTied

LEMMA DeletedToEnd ==
    ASSUME TalkInv, NEW r \in Requests, Steps(r), NEW k, NEW e \in Ids,
           ToDelete(over, k, db, e), job[r].todo = <<Deletes(e)>>
    PROVE job'[r].todo = <<>> /\ Calm(over, k, db', {})
<1> DEFINE c == Deletes(e)
<1>1. c.call = "delete" /\ c.e = e
  BY DEF Deletes
<1> HIDE DEF c
<1>2. Args(r) = c /\ Rest(r) = <<>>
  BY TailsOfThree DEF Args, Rest, c
<1>3. job'[r].todo = <<>> /\ db' = softDelete(db, e)
  BY <1>1, <1>2, JournalCallsRun
<1>4. Calm(over, k, softDelete(db, e), {})
  BY InvIsGood, DeleteTies DEF ToDelete
<1> QED
  BY <1>3, <1>4

LEMMA JournalGoesOn ==
    ASSUME TalkInv, NEW r \in Requests, Steps(r), NEW k, JournalTied(over, k, db, job[r].todo)
    PROVE (job'[r].todo = <<>> /\ Calm(over, k, db', {})) \/ JournalTied(over, k, db', job'[r].todo)
<1>1. ASSUME NEW e \in Ids, NEW row \in Row, NEW ow \in BOOLEAN,
             ToApply(over, k, db, e, row), job[r].todo = <<Apply(e, row, ow)>>
      PROVE job'[r].todo = <<>> /\ Calm(over, k, db', {})
  BY <1>1, AppliedToEnd
<1>2. ASSUME NEW e \in Ids, NEW row \in Row, NEW was \in Row, NEW ow \in BOOLEAN,
             ToSave(over, k, db, e, row, was), job[r].todo = <<SavesRow(e, row, was, ow)>>
      PROVE (job'[r].todo = <<>> /\ Calm(over, k, db', {})) \/ JournalTied(over, k, db', job'[r].todo)
  BY <1>2, SavedToGoOn
<1>3. ASSUME NEW w \in Week, NEW e \in Ids, NEW row \in Row, NEW ow \in BOOLEAN,
             ToRelease(over, k, db, w, e, row), job[r].todo = <<Releases(w, e), Apply(e, row, ow)>>
      PROVE JournalTied(over, k, db', job'[r].todo)
  BY <1>3, ReleasedToGoOn
<1>4. ASSUME NEW e \in Ids, NEW row \in Row, ToClear(over, k, db, e, row),
             job[r].todo = <<Clears(e, row), Deletes(e)>>
      PROVE JournalTied(over, k, db', job'[r].todo)
  BY <1>4, ClearedToGoOn
<1>5. ASSUME NEW e \in Ids, ToDelete(over, k, db, e), job[r].todo = <<Deletes(e)>>
      PROVE job'[r].todo = <<>> /\ Calm(over, k, db', {})
  BY <1>5, DeletedToEnd
<1>6. \/ \E e \in Ids, row \in Row, ow \in BOOLEAN : ToApply(over, k, db, e, row) /\ job[r].todo = <<Apply(e, row, ow)>>
      \/ \E e \in Ids, row \in Row, was \in Row, ow \in BOOLEAN :
           ToSave(over, k, db, e, row, was) /\ job[r].todo = <<SavesRow(e, row, was, ow)>>
      \/ \E w \in Week, e \in Ids, row \in Row, ow \in BOOLEAN :
           ToRelease(over, k, db, w, e, row) /\ job[r].todo = <<Releases(w, e), Apply(e, row, ow)>>
      \/ \E e \in Ids, row \in Row : ToClear(over, k, db, e, row) /\ job[r].todo = <<Clears(e, row), Deletes(e)>>
      \/ \E e \in Ids : ToDelete(over, k, db, e) /\ job[r].todo = <<Deletes(e)>>
  BY DEF JournalTied
<1> HIDE DEF JournalTied
<1> QED
  BY <1>1, <1>2, <1>3, <1>4, <1>5, <1>6

LEMMA CalmTo ==
    ASSUME NEW o, NEW k, NEW d, NEW y, NEW w, Touches(d, y, w), Uncancelled(y)
    PROVE /\ Calm(o, k, d, {}) => Calm(o, k, y, {w})
          /\ Calm(o, k, d, {w}) => Calm(o, k, y, {w})
          /\ Calm(o, k, d, {}) /\ Agrees(o, k, y, w) => Calm(o, k, y, {})
          /\ Calm(o, k, d, {w}) /\ Agrees(o, k, y, w) => Calm(o, k, y, {})
<1> DEFINE T == {w}
           N == {}
<1>1. /\ N \subseteq T \cup {w} /\ T \subseteq T \cup {w} /\ w \in T
      /\ N \subseteq N \cup {w} /\ T \subseteq N \cup {w}
  OBVIOUS
<1> HIDE DEF T, N
<1>2. Calm(o, k, d, N) => Calm(o, k, y, T)
  BY <1>1, CalmOn
<1>3. Calm(o, k, d, T) => Calm(o, k, y, T)
  BY <1>1, CalmOn
<1>4. Calm(o, k, d, N) /\ Agrees(o, k, y, w) => Calm(o, k, y, N)
  BY <1>1, CalmOn
<1>5. Calm(o, k, d, T) /\ Agrees(o, k, y, w) => Calm(o, k, y, N)
  BY <1>1, CalmOn
<1> QED
  BY <1>2, <1>3, <1>4, <1>5 DEF T, N

\* Line and journal brought together: the one after the other, or the other after the one.
LEMMA SyncCalms ==
    ASSUME NEW d, Good(d), Room(d), NEW w \in Week, NEW x \in BOOLEAN, NEW k,
           Calm(over, k, d, {w}), k => Filled(over, d, w), ~x => Tied(over, d, w)
    PROVE Calm(over, k, syncProgramToJournal(d, w, x, FALSE), {})
<1>1. Uncancelled(d)
  BY DEF Calm
<1>2. CASE x
  <2> DEFINE y == syncProgramToJournal(d, w, TRUE, FALSE)
  <2>1. Touches(d, y, w) /\ Uncancelled(y) /\ Tied(over, y, w) /\ (Filled(over, d, w) => Filled(over, y, w))
    BY <1>1, SyncTies
  <2> HIDE DEF y
  <2>2. Agrees(over, k, y, w)
    BY <2>1 DEF Agrees
  <2> QED
    BY <1>2, <2>1, <2>2, CalmTo DEF y
<1>3. CASE ~x
  <2> DEFINE y == syncProgramToJournal(d, w, FALSE, FALSE)
  <2>1. Agrees(over, k, d, w)
    BY <1>3 DEF Agrees
  <2>2. Touches(d, y, w) /\ Uncancelled(y) /\ Agrees(over, k, y, w)
    BY <1>1, <2>1, QuietSyncTies
  <2> HIDE DEF y
  <2>3. Calm(over, k, y, {})
    BY <2>2, CalmTo
  <2>4. x = FALSE
    BY <1>3
  <2> QED
    BY <2>3, <2>4 DEF y
<1> QED
  BY <1>2, <1>3

----------------------------------------------------------------------------
(* What the requests about a line have yet to do.                            *)

SavesLine(w, l) == [call |-> "saveLine", w |-> w, l |-> l]
MovesRows(e, t, x, s) == [call |-> "move", e |-> e, to |-> t, x |-> x, from |-> s]

ToBring(o, k, d, w, x) ==
    Calm(o, k, d, {w}) /\ (k => Filled(o, d, w)) /\ (~x => Tied(o, d, w))
ToSaveLine(o, k, d, w, l, x) ==
    /\ Calm(o, k, d, {}) /\ l.at # "cancelled" /\ (k => l.who # NoOne) /\ (~x => l = d.line[w])
ToExchange(o, k, d, s, t, e, x) ==
    /\ s # t /\ Calm(o, k, d, {s, t})
    /\ IF e = NoEntry THEN Live(d, s) = {} ELSE e \in Live(d, s)
    /\ IF x = NoEntry THEN Live(d, t) = {} ELSE x \in Live(d, t)
    /\ k => (d.line[t].who = NoOne => e = NoEntry) /\ (d.line[s].who = NoOne => x = NoEntry)
ToVisit(o, k, d, w) ==
    Calm(o, k, d, {w}) /\ (Agrees(o, k, d, w) \/ (visitOfWeek(d, w) /\ ~k))

LineTied(o, k, d, t) ==
    \/ \E w \in Week, x \in BOOLEAN :
         /\ t = <<On("fill", w), Sync(w, x), On("template", w), On("applied", w)>>
         /\ Calm(o, k, d, {w}) /\ (x <=> d.line[w].who # NoOne)
    \/ \E w \in Week, x \in BOOLEAN :
         t = <<Sync(w, x), On("template", w), On("applied", w)>> /\ ToBring(o, k, d, w, x)
    \/ \E w \in Week : t = <<On("template", w), On("applied", w)>> /\ Calm(o, k, d, {})
    \/ \E w \in Week : t = <<On("applied", w)>> /\ ToVisit(o, k, d, w)
    \/ \E w \in Week, l \in Line, x \in BOOLEAN :
         t = <<SavesLine(w, l), Sync(w, x)>> /\ ToSaveLine(o, k, d, w, l, x)
    \/ \E w \in Week, x \in BOOLEAN : t = <<Sync(w, x)>> /\ ToBring(o, k, d, w, x)
    \/ \E s \in Week, u \in Week, e \in Ids \cup {NoEntry}, x \in Ids \cup {NoEntry} :
         t = <<MovesRows(e, u, x, s), Sync(s, TRUE), Sync(u, TRUE)>> /\ ToExchange(o, k, d, s, u, e, x)
    \/ \E s \in Week, u \in Week :
         /\ t = <<Sync(s, TRUE), Sync(u, TRUE)>> /\ s # u
         /\ Calm(o, k, d, {s, u}) /\ (k => Filled(o, d, s) /\ Filled(o, d, u))

LEMMA SyncIsCall ==
    ASSUME TalkInv, NEW r \in Requests, Steps(r), NEW w \in Week, NEW x \in BOOLEAN, Args(r) = Sync(w, x)
    PROVE job'[r].todo = Rest(r) /\ Room(db) /\ db' = syncProgramToJournal(db, w, x, FALSE)
<1> DEFINE c == Sync(w, x)
<1>1. c.call = "sync" /\ c.w = w /\ c.changed = x /\ c.restored = FALSE
  BY DEF Sync
<1> HIDE DEF c
<1>2. Args(r) = c
  BY DEF c
<1> QED
  BY <1>1, <1>2, LineCallsRun

LEMMA FilledToGoOn ==
    ASSUME TalkInv, NEW r \in Requests, Steps(r), NEW k, NEW w \in Week, NEW x \in BOOLEAN,
           job[r].todo = <<On("fill", w), Sync(w, x), On("template", w), On("applied", w)>>,
           Calm(over, k, db, {w}), x <=> db.line[w].who # NoOne
    PROVE LineTied(over, k, db', job'[r].todo)
<1> DEFINE c == On("fill", w)
           t == <<Sync(w, x), On("template", w), On("applied", w)>>
           y == fillEmptySlot(db, w)
<1>1. c.call = "fill" /\ c.w = w
  BY DEF On
<1> HIDE DEF c
<1>2. Args(r) = c /\ Rest(r) = t
  BY LongTails DEF Args, Rest, c
<1>3. job'[r].todo = t /\ db' = y
  BY <1>1, <1>2, LineCallsRun
<1>4. Good(db) /\ Uncancelled(db)
  BY InvIsGood DEF Calm
<1>5. /\ Touches(db, y, w) /\ Uncancelled(y)
      /\ db.line[w].who # NoOne => y = db
      /\ Tied(over, db, w) => Agrees(over, k, y, w)
  BY <1>4, FillTies
<1> HIDE DEF y
<1>6. Calm(over, k, y, {w})
  BY <1>5, CalmTo
<1>7. CASE x
  <2>1. ToBring(over, k, y, w, x)
    BY <1>5, <1>6, <1>7 DEF ToBring, Filled
  <2> QED
    BY <1>3, <2>1 DEF LineTied
<1>8. CASE ~x
  <2>1. Tied(over, db, w)
    BY <1>8 DEF Tied
  <2>2. ToBring(over, k, y, w, x)
    BY <1>5, <1>6, <2>1 DEF ToBring, Agrees
  <2> QED
    BY <1>3, <2>2 DEF LineTied
<1> QED
  BY <1>7, <1>8

LEMMA BroughtToGoOn ==
    ASSUME TalkInv, NEW r \in Requests, Steps(r), NEW k, NEW w \in Week, NEW x \in BOOLEAN,
           ToBring(over, k, db, w, x)
    PROVE /\ job[r].todo = <<Sync(w, x)>> => job'[r].todo = <<>> /\ Calm(over, k, db', {})
          /\ job[r].todo = <<Sync(w, x), On("template", w), On("applied", w)>> => LineTied(over, k, db', job'[r].todo)
<1> DEFINE c == Sync(w, x)
           t == <<On("template", w), On("applied", w)>>
<1>0. Good(db)
  BY InvIsGood
<1>1. Room(db) => Calm(over, k, syncProgramToJournal(db, w, x, FALSE), {})
  BY <1>0, SyncCalms DEF ToBring
<1>2. CASE job[r].todo = <<Sync(w, x)>>
  <2> HIDE DEF c
  <2>1. Args(r) = c /\ Rest(r) = <<>>
    BY <1>2, TailsOfThree DEF Args, Rest, c
  <2>2. job'[r].todo = <<>> /\ Room(db) /\ db' = syncProgramToJournal(db, w, x, FALSE)
    BY <2>1, SyncIsCall DEF c
  <2>3. ~(job[r].todo = <<Sync(w, x), On("template", w), On("applied", w)>>)
    BY <1>2
  <2> QED
    BY <1>1, <2>2, <2>3
<1>3. CASE job[r].todo = <<Sync(w, x), On("template", w), On("applied", w)>>
  <2> HIDE DEF c
  <2>1. Args(r) = c /\ Rest(r) = t
    BY <1>3, TailsOfThree DEF Args, Rest, c
  <2>2. job'[r].todo = t /\ Room(db) /\ db' = syncProgramToJournal(db, w, x, FALSE)
    BY <2>1, SyncIsCall DEF c
  <2>3. ~(job[r].todo = <<Sync(w, x)>>)
    BY <1>3
  <2> QED
    BY <1>1, <2>2, <2>3 DEF LineTied
<1> QED
  BY <1>2, <1>3

LEMMA TemplateToGoOn ==
    ASSUME TalkInv, NEW r \in Requests, Steps(r), NEW k, k => db.visit.at # "on", NEW w \in Week,
           job[r].todo = <<On("template", w), On("applied", w)>>, Calm(over, k, db, {})
    PROVE LineTied(over, k, db', job'[r].todo)
<1> DEFINE c == On("template", w)
           t == <<On("applied", w)>>
           y == templateApply(db)
<1>1. c.call = "template" /\ c.w = w
  BY DEF On
<1> HIDE DEF c
<1>2. Args(r) = c /\ Rest(r) = t
  BY TailsOfThree DEF Args, Rest, c
<1>3. job'[r].todo = t /\ db' = IF visitOfWeek(db, w) THEN y ELSE db
  BY <1>1, <1>2, VisitCallsRun
<1>4. CASE visitOfWeek(db, w)
  <2>1. LineOf(db, y, w) /\ visitOfWeek(y, w)
    BY <1>4, InvIsGood, TemplateIs DEF visitOfWeek
  <2> HIDE DEF y
  <2>2. AllBut(over, k, y, {} \cup {w}) /\ Uncancelled(y)
    BY <2>1, LineOfTies DEF Calm
  <2>3. {} \cup {w} = {w} /\ ~k
    BY <1>4 DEF visitOfWeek
  <2>4. ToVisit(over, k, y, w)
    BY <2>1, <2>2, <2>3 DEF ToVisit, Calm
  <2> QED
    BY <1>3, <1>4, <2>4 DEF LineTied
<1>5. CASE ~visitOfWeek(db, w)
  <2>1. ToVisit(over, k, db, w)
    BY DEF ToVisit, Calm, AllBut
  <2> QED
    BY <1>3, <1>5, <2>1 DEF LineTied
<1> QED
  BY <1>4, <1>5

LEMMA VisitToEnd ==
    ASSUME TalkInv, NEW r \in Requests, Steps(r), NEW k, k => db.visit.at # "on", NEW w \in Week,
           job[r].todo = <<On("applied", w)>>, ToVisit(over, k, db, w)
    PROVE job'[r].todo = <<>> /\ Calm(over, k, db', {})
<1> DEFINE c == On("applied", w)
           y == circuitVisitApplied(db, w)
<1>1. c.call = "applied" /\ c.w = w
  BY DEF On
<1> HIDE DEF c
<1>2. Args(r) = c /\ Rest(r) = <<>>
  BY TailsOfThree DEF Args, Rest, c
<1>3. job'[r].todo = <<>> /\ Room(db) /\ db' = IF programmeOpen(w) THEN y ELSE db
  BY <1>1, <1>2, VisitCallsRun
<1>4. CASE programmeOpen(w) /\ visitOfWeek(db, w)
  <2>1. Good(db) /\ Uncancelled(db) /\ ~k /\ Calm(over, k, db, {w})
    BY <1>4, InvIsGood DEF ToVisit, Calm, visitOfWeek
  <2>2. Uncancelled(y) /\ Touches(db, y, w) /\ Tied(over, y, w)
    BY <1>3, <1>4, <2>1, AppliedTies
  <2> HIDE DEF y
  <2>3. Agrees(over, k, y, w)
    BY <2>1, <2>2 DEF Agrees
  <2> QED
    BY <1>3, <1>4, <2>1, <2>2, <2>3, CalmTo
<1>5. CASE ~(programmeOpen(w) /\ visitOfWeek(db, w))
  <2>1. db' = db
    BY <1>3, <1>5 DEF circuitVisitApplied
  <2>2. Agrees(over, k, db, w)
    BY <1>5 DEF ToVisit, programmeOpen, Agrees, Tied, Filled
  <2>3. Calm(over, k, db, {})
    BY <2>2 DEF ToVisit, Calm, AllBut
  <2> QED
    BY <1>3, <2>1, <2>3
<1> QED
  BY <1>4, <1>5

LEMMA LineSavedToGoOn ==
    ASSUME TalkInv, NEW r \in Requests, Steps(r), NEW k, NEW w \in Week, NEW l \in Line, NEW x \in BOOLEAN,
           job[r].todo = <<SavesLine(w, l), Sync(w, x)>>, ToSaveLine(over, k, db, w, l, x)
    PROVE LineTied(over, k, db', job'[r].todo)
<1> DEFINE c == SavesLine(w, l)
           t == <<Sync(w, x)>>
           y == SetLine(db, w, l)
<1>1. c.call = "saveLine" /\ c.w = w /\ c.l = l
  BY DEF SavesLine
<1> HIDE DEF c
<1>2. Args(r) = c /\ Rest(r) = t
  BY TailsOfThree DEF Args, Rest, c
<1>3. job'[r].todo = t /\ db' = y
  BY <1>1, <1>2, LineCallsRun
<1>4. Good(db) /\ Uncancelled(db) /\ l.at # "cancelled" /\ Calm(over, k, db, {})
  BY InvIsGood DEF Calm, ToSaveLine
<1>5. /\ Touches(db, y, w) /\ Uncancelled(y) /\ y.line[w] = l /\ y.entry = db.entry
      /\ Live(y, w) = Live(db, w)
  BY <1>4, LineWritten
<1> HIDE DEF y
<1>6. Calm(over, k, y, {w})
  BY <1>4, <1>5, CalmTo
<1>7. ~x => Tied(over, y, w)
  BY <1>4, <1>5 DEF ToSaveLine, Calm, AllBut, Agrees, Tied
<1>8. ToBring(over, k, y, w, x)
  BY <1>5, <1>6, <1>7 DEF ToBring, ToSaveLine, Filled
<1> QED
  BY <1>3, <1>8 DEF LineTied

----------------------------------------------------------------------------
(* Two weeks' entries exchanged: never refused, and each where its line is.  *)

LEMMA MovedToIs ==
    ASSUME NEW d \in Database, NEW e \in Ids \cup {NoEntry}, NEW w \in Week
    PROVE LET m == MovedTo(d, e, w) IN
          /\ m \in Database /\ m.line = d.line /\ m.visit = d.visit
          /\ \A f \in Ids : /\ m.entry[f].held = d.entry[f].held /\ m.entry[f].off = d.entry[f].off
                            /\ m.entry[f].who = d.entry[f].who
                            /\ f # e => m.entry[f] = d.entry[f]
                            /\ f = e => m.entry[f].at = "live" /\ m.entry[f].week = w
<1> DEFINE row == [d.entry[e] EXCEPT !.at = "live", !.week = w]
           m == MovedTo(d, e, w)
<1>1. m \in Database
  BY MovedToTyped
<1>2. CASE e = NoEntry
  <2>1. NoEntry \notin Ids /\ m = d
    BY <1>2, TalkConstants DEF MovedTo, Ids, NoEntry
  <2> HIDE DEF m
  <2> QED
    BY <1>1, <1>2, <2>1 DEF m
<1>3. CASE e # NoEntry
  <2>1. d.entry[e] \in Row /\ e \in Ids
    BY <1>3 DEF Database
  <2>2. row.at = "live" /\ row.week = w /\ row.held = d.entry[e].held /\ row.off = d.entry[e].off /\ row.who = d.entry[e].who
    BY <2>1 DEF Row
  <2>3. m = Put(d, e, row)
    BY <1>3 DEF MovedTo
  <2> HIDE DEF row, m
  <2>4. Rewrites(d, Put(d, e, row), e, row)
    BY <2>1 DEF Rewrites, Put, Database
  <2> QED
    BY <1>1, <2>2, <2>3, <2>4 DEF Rewrites, m
<1> QED
  BY <1>2, <1>3

LEMMA ExchangeIs ==
    ASSUME NEW d, Good(d), NEW s \in Week, NEW t \in Week, s # t,
           NEW e \in Ids \cup {NoEntry}, NEW x \in Ids \cup {NoEntry},
           IF e = NoEntry THEN Live(d, s) = {} ELSE e \in Live(d, s),
           IF x = NoEntry THEN Live(d, t) = {} ELSE x \in Live(d, t),
           NEW c, c.e = e, c.to = t, c.x = x, c.from = s
    PROVE LET y == Moved(d, c) IN
          /\ y.line = d.line /\ ~(\E w \in Week : Cardinality(Live(y, w)) > 1)
          /\ Uncancelled(d) => Uncancelled(y)
          /\ (e = NoEntry => Live(y, t) = {}) /\ (x = NoEntry => Live(y, s) = {})
          /\ \A v \in Week \ {s, t} : Live(y, v) = Live(d, v)
          /\ \A f \in Ids : y.entry[f].who = d.entry[f].who
<1> DEFINE m == MovedTo(d, e, t)
           y == MovedTo(m, x, s)
<1>0. y = Moved(d, c) /\ d \in Database /\ NoEntry \notin Ids
  BY TalkConstants DEF Moved, Good, Ids, NoEntry
<1>1. /\ m \in Database /\ m.line = d.line
      /\ \A f \in Ids : /\ m.entry[f].held = d.entry[f].held /\ m.entry[f].off = d.entry[f].off
                        /\ m.entry[f].who = d.entry[f].who
                        /\ f # e => m.entry[f] = d.entry[f]
                        /\ f = e => m.entry[f].at = "live" /\ m.entry[f].week = t
  BY <1>0, MovedToIs
<1>a. m \in Database
  BY <1>1
<1> HIDE DEF m
<1>2. /\ y \in Database /\ y.line = m.line
      /\ \A f \in Ids : /\ y.entry[f].held = m.entry[f].held /\ y.entry[f].off = m.entry[f].off
                        /\ y.entry[f].who = m.entry[f].who
                        /\ f # x => y.entry[f] = m.entry[f]
                        /\ f = x => y.entry[f].at = "live" /\ y.entry[f].week = s
  <2>1. LET z == MovedTo(m, x, s) IN
        /\ z \in Database /\ z.line = m.line /\ z.visit = m.visit
        /\ \A f \in Ids : /\ z.entry[f].held = m.entry[f].held /\ z.entry[f].off = m.entry[f].off
                          /\ z.entry[f].who = m.entry[f].who
                          /\ f # x => z.entry[f] = m.entry[f]
                          /\ f = x => z.entry[f].at = "live" /\ z.entry[f].week = s
    BY <1>a, MovedToIs
  <2> QED
    BY <2>1
<1> HIDE DEF y
<1>3. e \in Ids => e \in Live(d, s) /\ Live(d, s) = {e} /\ e # x
  <2>1. e \in Ids => e \in Live(d, s)
    BY <1>0
  <2>2. e \in Ids => Live(d, s) = {e}
    BY <2>1, StandsAlone
  <2>3. e \in Ids => e # x
    BY <1>0, <2>1 DEF Live
  <2> QED
    BY <2>1, <2>2, <2>3
<1>4. x \in Ids => x \in Live(d, t) /\ Live(d, t) = {x}
  <2>1. x \in Ids => x \in Live(d, t)
    BY <1>0
  <2> QED
    BY <2>1, StandsAlone
<1>5. \A f \in Ids : \A v \in Week :
        f \in Live(y, v) <=> IF f = e THEN v = t ELSE IF f = x THEN v = s ELSE f \in Live(d, v)
  BY <1>1, <1>2, <1>3, <1>4 DEF Live, Standing
<1>6. \A f \in Ids : f \in Live(y, t) => f = e
  BY <1>0, <1>4, <1>5
<1>7. \A f \in Ids : f \in Live(y, s) => f = x
  BY <1>0, <1>3, <1>5
<1>8. \A v \in Week \ {s, t} : Live(y, v) = Live(d, v)
  <2> SUFFICES ASSUME NEW v \in Week \ {s, t}
               PROVE Live(y, v) = Live(d, v)
    OBVIOUS
  <2>1. \A f \in Ids : f \in Live(y, v) <=> f \in Live(d, v)
    <3> SUFFICES ASSUME NEW f \in Ids
                 PROVE f \in Live(y, v) <=> f \in Live(d, v)
      OBVIOUS
    <3>1. f = e => f \notin Live(d, v)
      BY <1>3 DEF Live
    <3>2. f = x => f \notin Live(d, v)
      BY <1>4 DEF Live
    <3> QED
      BY <1>5, <3>1, <3>2
  <2> QED
    BY <2>1 DEF Live
<1>9. Single(y)
  <2> SUFFICES ASSUME NEW f \in Ids, NEW g \in Ids, Standing(y.entry[f]), Standing(y.entry[g]),
                      y.entry[f].week = y.entry[g].week
               PROVE f = g
    BY DEF Single
  <2> DEFINE v == y.entry[f].week
  <2>1. v \in Week /\ f \in Live(y, v) /\ g \in Live(y, v)
    BY <1>2 DEF Live, Database, Row
  <2> HIDE DEF v
  <2>2. CASE v = s \/ v = t
    BY <1>6, <1>7, <2>1, <2>2
  <2>3. CASE v \notin {s, t}
    BY <1>8, <2>1, <2>3 DEF Good, Single, Live
  <2> QED
    BY <2>2, <2>3
<1>10. \A w \in Week : Cardinality(Live(y, w)) <= 1
  BY <1>2, <1>9, SingleIsOne
<1>11. ~(\E w \in Week : Cardinality(Live(y, w)) > 1)
  <2> SUFFICES ASSUME NEW w \in Week, Cardinality(Live(y, w)) > 1
               PROVE FALSE
    OBVIOUS
  <2>1. Cardinality(Live(y, w)) <= 1
    BY <1>10
  <2>2. Live(y, w) \subseteq Ids /\ IsFiniteSet(Ids)
    <3>1. MaxEntries \in Nat
      BY TalkConstants
    <3>2. IsFiniteSet(Ids)
      BY <3>1, FS_Interval DEF Ids
    <3> QED
      BY <3>2 DEF Live
  <2>3. Cardinality(Live(y, w)) \in Nat
    BY <2>2, FS_Subset, FS_CardinalityType
  <2> QED
    BY <2>1, <2>3
<1>12. Uncancelled(d) => Uncancelled(y)
  BY <1>1, <1>2 DEF Uncancelled
<1>13. e = NoEntry => Live(y, t) = {}
  BY <1>0, <1>6 DEF Live
<1>14. x = NoEntry => Live(y, s) = {}
  BY <1>0, <1>7 DEF Live
<1>15. \A f \in Ids : y.entry[f].who = d.entry[f].who
  BY <1>1, <1>2
<1> QED
  BY <1>0, <1>1, <1>2, <1>8, <1>11, <1>12, <1>13, <1>14, <1>15

LEMMA ListsTurn ==
    ASSUME NEW r, NEW a, NEW b, NEW c, NEW e
    PROVE /\ job[r].todo = <<a>> => Args(r) = a /\ Rest(r) = <<>>
          /\ job[r].todo = <<a, b>> => Args(r) = a /\ Rest(r) = <<b>>
          /\ job[r].todo = <<a, b, c>> => Args(r) = a /\ Rest(r) = <<b, c>>
          /\ job[r].todo = <<a, b, c, e>> => Args(r) = a /\ Rest(r) = <<b, c, e>>
<1>1. job[r].todo = <<a>> => Args(r) = a /\ Rest(r) = <<>>
  BY TailsOfThree DEF Args, Rest
<1>2. job[r].todo = <<a, b>> => Args(r) = a /\ Rest(r) = <<b>>
  BY TailsOfThree DEF Args, Rest
<1>3. job[r].todo = <<a, b, c>> => Args(r) = a /\ Rest(r) = <<b, c>>
  BY TailsOfThree DEF Args, Rest
<1>4. job[r].todo = <<a, b, c, e>> => Args(r) = a /\ Rest(r) = <<b, c, e>>
  BY LongTails DEF Args, Rest
<1> QED
  BY <1>1, <1>2, <1>3, <1>4

LEMMA ExchangedToGoOn ==
    ASSUME TalkInv, NEW r \in Requests, Steps(r), NEW k, NEW s \in Week, NEW u \in Week,
           NEW e \in Ids \cup {NoEntry}, NEW x \in Ids \cup {NoEntry},
           job[r].todo = <<MovesRows(e, u, x, s), Sync(s, TRUE), Sync(u, TRUE)>>, ToExchange(over, k, db, s, u, e, x)
    PROVE LineTied(over, k, db', job'[r].todo)
<1> DEFINE c == MovesRows(e, u, x, s)
           p == Sync(s, TRUE)
           q == Sync(u, TRUE)
           t == <<p, q>>
           y == Moved(db, c)
<1>1. c.call = "move" /\ c.e = e /\ c.to = u /\ c.x = x /\ c.from = s
  BY DEF MovesRows
<1>0. job[r].todo = <<c, p, q>>
  OBVIOUS
<1> HIDE DEF c, p, q
<1>2. Args(r) = c /\ Rest(r) = t
  BY <1>0, ListsTurn
<1>3. IF \E w \in Week : Cardinality(Live(y, w)) > 1 THEN db' = db /\ job'[r].todo = <<>>
      ELSE db' = y /\ job'[r].todo = t
  BY <1>1, <1>2, LineCallsRun
<1>4. /\ Good(db) /\ s # u /\ Uncancelled(db)
      /\ IF e = NoEntry THEN Live(db, s) = {} ELSE e \in Live(db, s)
      /\ IF x = NoEntry THEN Live(db, u) = {} ELSE x \in Live(db, u)
  BY InvIsGood DEF ToExchange, Calm
<1>5. /\ y.line = db.line /\ ~(\E w \in Week : Cardinality(Live(y, w)) > 1)
      /\ Uncancelled(y)
      /\ (e = NoEntry => Live(y, u) = {}) /\ (x = NoEntry => Live(y, s) = {})
      /\ \A v \in Week \ {s, u} : Live(y, v) = Live(db, v)
      /\ \A f \in Ids : y.entry[f].who = db.entry[f].who
  BY <1>1, <1>4, ExchangeIs, SMTT(30)
<1> HIDE DEF y
<1>6. AllBut(over, k, y, {s, u})
  <2> SUFFICES ASSUME NEW v \in Week \ {s, u}
               PROVE Agrees(over, k, y, v)
    BY DEF AllBut
  <2>1. Agrees(over, k, db, v)
    BY DEF ToExchange, Calm, AllBut
  <2>2. Live(y, v) = Live(db, v) /\ \A f \in Live(db, v) : y.entry[f].who = db.entry[f].who
    BY <1>5 DEF Live
  <2> QED
    BY <1>5, <2>1, <2>2 DEF Agrees, Tied, Filled
<1>7. k => Filled(over, y, s) /\ Filled(over, y, u)
  BY <1>5 DEF ToExchange, Filled
<1> QED
  BY <1>3, <1>4, <1>5, <1>6, <1>7 DEF LineTied, Calm, p, q

LEMMA BothBroughtToGoOn ==
    ASSUME TalkInv, NEW r \in Requests, Steps(r), NEW k, NEW s \in Week, NEW u \in Week, s # u,
           job[r].todo = <<Sync(s, TRUE), Sync(u, TRUE)>>,
           Calm(over, k, db, {s, u}), k => Filled(over, db, s) /\ Filled(over, db, u)
    PROVE LineTied(over, k, db', job'[r].todo)
<1> DEFINE c == Sync(s, TRUE)
           t == <<Sync(u, TRUE)>>
           y == syncProgramToJournal(db, s, TRUE, FALSE)
<1> HIDE DEF c
<1>2. Args(r) = c /\ Rest(r) = t
  BY TailsOfThree DEF Args, Rest, c
<1>3. job'[r].todo = t /\ Room(db) /\ db' = y
  BY <1>2, SyncIsCall DEF c
<1>4. Good(db) /\ Uncancelled(db)
  BY InvIsGood DEF Calm
<1>5. Touches(db, y, s) /\ Uncancelled(y) /\ Tied(over, y, s) /\ (Filled(over, db, s) => Filled(over, y, s))
  BY <1>3, <1>4, SyncTies
<1> HIDE DEF y
<1>6. Agrees(over, k, y, s)
  BY <1>5 DEF Agrees
<1>7. Calm(over, k, y, {u})
  <2>1. {s, u} \subseteq {u} \cup {s}
    OBVIOUS
  <2> QED
    BY <1>5, <1>6, <2>1, CalmOn
<1>8. SameWeek(db, y, u)
  BY <1>5, OtherWeeksSame
<1>9. k => Filled(over, y, u)
  BY <1>8, AgreesCarries
<1>10. ToBring(over, k, y, u, TRUE)
  BY <1>7, <1>9 DEF ToBring
<1> QED
  BY <1>3, <1>10 DEF LineTied

LEMMA LineGoesOn ==
    ASSUME TalkInv, NEW r \in Requests, Steps(r), NEW k, k => db.visit.at # "on", LineTied(over, k, db, job[r].todo)
    PROVE (job'[r].todo = <<>> /\ Calm(over, k, db', {})) \/ LineTied(over, k, db', job'[r].todo)
<1>1. ASSUME NEW w \in Week, NEW x \in BOOLEAN,
             job[r].todo = <<On("fill", w), Sync(w, x), On("template", w), On("applied", w)>>,
             Calm(over, k, db, {w}), x <=> db.line[w].who # NoOne
      PROVE LineTied(over, k, db', job'[r].todo)
  BY <1>1, FilledToGoOn
<1>2. ASSUME NEW w \in Week, NEW x \in BOOLEAN,
             job[r].todo = <<Sync(w, x), On("template", w), On("applied", w)>>, ToBring(over, k, db, w, x)
      PROVE LineTied(over, k, db', job'[r].todo)
  BY <1>2, BroughtToGoOn
<1>3. ASSUME NEW w \in Week, job[r].todo = <<On("template", w), On("applied", w)>>, Calm(over, k, db, {})
      PROVE LineTied(over, k, db', job'[r].todo)
  BY <1>3, TemplateToGoOn
<1>4. ASSUME NEW w \in Week, job[r].todo = <<On("applied", w)>>, ToVisit(over, k, db, w)
      PROVE job'[r].todo = <<>> /\ Calm(over, k, db', {})
  BY <1>4, VisitToEnd
<1>5. ASSUME NEW w \in Week, NEW l \in Line, NEW x \in BOOLEAN,
             job[r].todo = <<SavesLine(w, l), Sync(w, x)>>, ToSaveLine(over, k, db, w, l, x)
      PROVE LineTied(over, k, db', job'[r].todo)
  BY <1>5, LineSavedToGoOn
<1>6. ASSUME NEW w \in Week, NEW x \in BOOLEAN, job[r].todo = <<Sync(w, x)>>, ToBring(over, k, db, w, x)
      PROVE job'[r].todo = <<>> /\ Calm(over, k, db', {})
  BY <1>6, BroughtToGoOn
<1>7. ASSUME NEW s \in Week, NEW u \in Week, NEW e \in Ids \cup {NoEntry}, NEW x \in Ids \cup {NoEntry},
             job[r].todo = <<MovesRows(e, u, x, s), Sync(s, TRUE), Sync(u, TRUE)>>,
             ToExchange(over, k, db, s, u, e, x)
      PROVE LineTied(over, k, db', job'[r].todo)
  BY <1>7, ExchangedToGoOn
<1>8. ASSUME NEW s \in Week, NEW u \in Week, job[r].todo = <<Sync(s, TRUE), Sync(u, TRUE)>>, s # u,
             Calm(over, k, db, {s, u}), k => Filled(over, db, s) /\ Filled(over, db, u)
      PROVE LineTied(over, k, db', job'[r].todo)
  BY <1>8, BothBroughtToGoOn
<1> DEFINE t == job[r].todo
<1>9. \/ \E w \in Week, x \in BOOLEAN :
           /\ t = <<On("fill", w), Sync(w, x), On("template", w), On("applied", w)>>
           /\ Calm(over, k, db, {w}) /\ (x <=> db.line[w].who # NoOne)
      \/ \E w \in Week, x \in BOOLEAN :
           t = <<Sync(w, x), On("template", w), On("applied", w)>> /\ ToBring(over, k, db, w, x)
      \/ \E w \in Week : t = <<On("template", w), On("applied", w)>> /\ Calm(over, k, db, {})
      \/ \E w \in Week : t = <<On("applied", w)>> /\ ToVisit(over, k, db, w)
      \/ \E w \in Week, l \in Line, x \in BOOLEAN :
           t = <<SavesLine(w, l), Sync(w, x)>> /\ ToSaveLine(over, k, db, w, l, x)
      \/ \E w \in Week, x \in BOOLEAN : t = <<Sync(w, x)>> /\ ToBring(over, k, db, w, x)
      \/ \E s \in Week, u \in Week, e \in Ids \cup {NoEntry}, x \in Ids \cup {NoEntry} :
           t = <<MovesRows(e, u, x, s), Sync(s, TRUE), Sync(u, TRUE)>> /\ ToExchange(over, k, db, s, u, e, x)
      \/ \E s \in Week, u \in Week :
           /\ t = <<Sync(s, TRUE), Sync(u, TRUE)>> /\ s # u
           /\ Calm(over, k, db, {s, u}) /\ (k => Filled(over, db, s) /\ Filled(over, db, u))
  BY DEF LineTied
<1> HIDE DEF t
<1> QED
  BY <1>1, <1>2, <1>3, <1>4, <1>5, <1>6, <1>7, <1>8, <1>9 DEF t

----------------------------------------------------------------------------
(* Another speaker came, or after all did not: the rows of one week and its  *)
(* line, and the week brought together at the end.                           *)

WritesRow(e, row) == [call |-> "write", e |-> e, row |-> row]
NamesLine(w, e) == [call |-> "name", w |-> w, e |-> e]

ToSaveSpeaker(o, k, d, w, l) == Calm(o, k, d, {w}) /\ l.at # "cancelled" /\ l.who # NoOne
ReplaceTied(o, k, d, t) ==
    \/ \E w \in Week, e \in Ids, row \in Row, l \in Line :
         /\ t = <<WritesRow(e, row), SavesLine(w, l), Sync(w, TRUE), On("adopt", w)>>
         /\ ToSaveSpeaker(o, k, d, w, l) /\ d.entry[e].week = w /\ row.week = w /\ ~row.off
    \/ \E w \in Week, l \in Line :
         t = <<SavesLine(w, l), Sync(w, TRUE), On("adopt", w)>> /\ ToSaveSpeaker(o, k, d, w, l)
    \/ \E w \in Week :
         t = <<Sync(w, TRUE), On("adopt", w)>> /\ Calm(o, k, d, {w}) /\ d.line[w].who # NoOne
    \/ \E w \in Week : t = <<On("adopt", w)>> /\ Calm(o, k, d, {})

ToStandAgain(o, k, d, w, e, row) ==
    /\ Calm(o, k, d, {w}) /\ d.entry[e].week = w
    /\ Standing(row) /\ row.week = w /\ ~row.off
UndoTied(o, k, d, t) ==
    \/ \E w \in Week, x \in Ids, xr \in Row, e \in Ids, row \in Row :
         /\ \/ t = <<Deletes(x), WritesRow(e, row), NamesLine(w, e)>>
            \/ t = <<WritesRow(x, xr), WritesRow(e, row), NamesLine(w, e)>> /\ xr.week = w /\ ~xr.off
         /\ ToStandAgain(o, k, d, w, e, row) /\ d.entry[x].week = w
    \/ \E w \in Week, e \in Ids, row \in Row :
         t = <<WritesRow(e, row), NamesLine(w, e)>> /\ ToStandAgain(o, k, d, w, e, row)
    \/ \E w \in Week, e \in Ids : t = <<NamesLine(w, e)>> /\ Calm(o, k, d, {w}) /\ e \in Live(d, w)

LEMMA WeekRowCalms ==
    ASSUME NEW o, NEW k, NEW d, Good(d), NEW w \in Week, Calm(o, k, d, {w}), NEW e \in Ids, d.entry[e].week = w,
           NEW row, row.week = w, ~row.off
    PROVE LET y == Put(d, e, row) IN Calm(o, k, y, {w}) /\ Rewrites(d, y, e, row)
<1> DEFINE y == Put(d, e, row)
<1>1. Rewrites(d, y, e, row) /\ Uncancelled(y)
  BY RowPut DEF Calm
<1> HIDE DEF y
<1>2. Touches(d, y, w)
  BY <1>1, RewritingTouches DEF OfWeek
<1>3. Calm(o, k, y, {w})
  BY <1>1, <1>2, CalmTo
<1> QED
  BY <1>1, <1>3 DEF y

LEMMA WeekRowGone ==
    ASSUME NEW o, NEW k, NEW d, Good(d), NEW w \in Week, Calm(o, k, d, {w}), NEW e \in Ids, d.entry[e].week = w
    PROVE Calm(o, k, softDelete(d, e), {w})
<1> DEFINE y == softDelete(d, e)
           g == [d.entry[e] EXCEPT !.at = "gone"]
<1>0. d.entry[e] \in Row
  BY DEF Good, Database
<1>1. Rewrites(d, y, e, g)
  BY DeletingRewrites
<1>2. g.week = w /\ g.off = d.entry[e].off
  BY <1>0 DEF Row
<1> HIDE DEF y, g
<1>3. Uncancelled(d) /\ ~g.off
  BY <1>2 DEF Calm, Uncancelled
<1>4. Uncancelled(y)
  BY <1>1, <1>3, CleanRewrites
<1>5. Touches(d, y, w)
  BY <1>1, <1>2, RewritingTouches DEF OfWeek
<1>6. Calm(o, k, y, {w})
  BY <1>4, <1>5, CalmTo
<1> QED
  BY <1>6 DEF y

LEMMA SpeakerSavedGoesOn ==
    ASSUME TalkInv, NEW r \in Requests, Steps(r), NEW k, NEW w \in Week, NEW l \in Line,
           job[r].todo = <<SavesLine(w, l), Sync(w, TRUE), On("adopt", w)>>, ToSaveSpeaker(over, k, db, w, l)
    PROVE ReplaceTied(over, k, db', job'[r].todo)
<1> DEFINE c == SavesLine(w, l)
           y == SetLine(db, w, l)
<1>1. c.call = "saveLine" /\ c.w = w /\ c.l = l
  BY DEF SavesLine
<1>2. Args(r) = c /\ Rest(r) = <<Sync(w, TRUE), On("adopt", w)>>
  BY ListsTurn
<1> HIDE DEF c
<1>3. job'[r].todo = <<Sync(w, TRUE), On("adopt", w)>> /\ db' = y
  BY <1>1, <1>2, LineCallsRun
<1>4. Good(db) /\ Uncancelled(db) /\ Calm(over, k, db, {w}) /\ l.at # "cancelled" /\ l.who # NoOne
  BY InvIsGood DEF ToSaveSpeaker, Calm
<1>5. Touches(db, y, w) /\ y.line[w] = l /\ Uncancelled(y)
  BY <1>4, LineWritten
<1> HIDE DEF y
<1>6. Calm(over, k, y, {w}) /\ y.line[w].who # NoOne
  BY <1>4, <1>5, CalmTo
<1> QED
  BY <1>3, <1>6 DEF ReplaceTied

LEMMA ClosedGoesOn ==
    ASSUME TalkInv, NEW r \in Requests, Steps(r), NEW k, NEW w \in Week, NEW e \in Ids, NEW row \in Row, NEW l \in Line,
           job[r].todo = <<WritesRow(e, row), SavesLine(w, l), Sync(w, TRUE), On("adopt", w)>>,
           ToSaveSpeaker(over, k, db, w, l), db.entry[e].week = w, row.week = w, ~row.off
    PROVE ReplaceTied(over, k, db', job'[r].todo)
<1> DEFINE c == WritesRow(e, row)
           p == SavesLine(w, l)
           q == Sync(w, TRUE)
           u == On("adopt", w)
           t == <<p, q, u>>
           y == Put(db, e, row)
<1>1. c.call = "write" /\ c.e = e /\ c.row = row
  BY DEF WritesRow
<1>0. job[r].todo = <<c, p, q, u>>
  OBVIOUS
<1> HIDE DEF c, p, q, u
<1>2. Args(r) = c /\ Rest(r) = t
  BY <1>0, ListsTurn
<1>3. job'[r].todo = t /\ db' = y
  BY <1>1, <1>2, JournalCallsRun
<1>4. Calm(over, k, y, {w})
  BY InvIsGood, WeekRowCalms DEF ToSaveSpeaker
<1> HIDE DEF y
<1>5. ToSaveSpeaker(over, k, y, w, l)
  BY <1>4 DEF ToSaveSpeaker
<1>6. job'[r].todo = <<SavesLine(w, l), Sync(w, TRUE), On("adopt", w)>>
  BY <1>3 DEF p, q, u
<1> QED
  BY <1>3, <1>5, <1>6 DEF ReplaceTied

LEMMA SpeakerBroughtGoesOn ==
    ASSUME TalkInv, NEW r \in Requests, Steps(r), NEW k, NEW w \in Week,
           job[r].todo = <<Sync(w, TRUE), On("adopt", w)>>, Calm(over, k, db, {w}), db.line[w].who # NoOne
    PROVE ReplaceTied(over, k, db', job'[r].todo)
<1>2. Args(r) = Sync(w, TRUE) /\ Rest(r) = <<On("adopt", w)>>
  BY ListsTurn
<1>3. job'[r].todo = <<On("adopt", w)>> /\ Room(db) /\ db' = syncProgramToJournal(db, w, TRUE, FALSE)
  BY <1>2, SyncIsCall
<1>4. Filled(over, db, w)
  BY DEF Filled
<1>5. Calm(over, k, syncProgramToJournal(db, w, TRUE, FALSE), {})
  BY <1>3, <1>4, InvIsGood, SyncCalms
<1> QED
  BY <1>3, <1>5 DEF ReplaceTied

LEMMA AdoptedToEnd ==
    ASSUME TalkInv, NEW r \in Requests, Steps(r), NEW k, NEW w \in Week,
           job[r].todo = <<On("adopt", w)>>, Calm(over, k, db, {})
    PROVE job'[r].todo = <<>> /\ Calm(over, k, db', {})
<1> DEFINE c == On("adopt", w)
           e == weekEntry(db, w)
           y == [db EXCEPT !.entry[e].hand = "own"]
<1>1. c.call = "adopt" /\ c.w = w
  BY DEF On
<1>2. Args(r) = c /\ Rest(r) = <<>>
  BY ListsTurn
<1> HIDE DEF c
<1>3. job'[r].todo = <<>> /\ db' = IF e # NoEntry /\ db.entry[e].hand = "app" THEN y ELSE db
  BY <1>1, <1>2, JournalCallsRun
<1>4. CASE e # NoEntry
  <2>1. e \in Ids /\ db.entry[e] \in Row /\ db.entry \in [Ids -> Row]
    BY <1>4, InvIsGood, OneLive DEF Good, Database
  <2> DEFINE h == [db.entry[e] EXCEPT !.hand = "own"]
  <2>2. y.line = db.line /\ \A f \in Ids : y.entry[f] = IF f = e THEN h ELSE db.entry[f]
    BY <2>1, InvIsGood DEF Good, Database
  <2>3. h.at = db.entry[e].at /\ h.held = db.entry[e].held /\ h.week = db.entry[e].week /\ h.who = db.entry[e].who
        /\ h.off = db.entry[e].off
    BY <2>1 DEF Row
  <2> HIDE DEF y, h
  <2>4. Uncancelled(db)
    BY DEF Calm
  <2>5. Uncancelled(y)
    BY <2>2, <2>3, <2>4 DEF Uncancelled
  <2>6. \A x \in Week : Live(y, x) = Live(db, x)
    BY <2>2, <2>3 DEF Live, Standing
  <2>7. \A f \in Ids : Standing(db.entry[f]) => y.entry[f].who = db.entry[f].who
    BY <2>2, <2>3
  <2> DEFINE N == {}
  <2>8. Calm(over, k, db, N)
    OBVIOUS
  <2> HIDE DEF N
  <2>9. Calm(over, k, y, N)
    BY <2>2, <2>5, <2>6, <2>7, <2>8, CalmSame
  <2> QED
    BY <1>3, <2>9 DEF N
<1> QED
  BY <1>3, <1>4

LEMMA ReplaceGoesOn ==
    ASSUME TalkInv, NEW r \in Requests, Steps(r), NEW k, ReplaceTied(over, k, db, job[r].todo)
    PROVE (job'[r].todo = <<>> /\ Calm(over, k, db', {})) \/ ReplaceTied(over, k, db', job'[r].todo)
<1>1. ASSUME NEW w \in Week, NEW e \in Ids, NEW row \in Row, NEW l \in Line,
             job[r].todo = <<WritesRow(e, row), SavesLine(w, l), Sync(w, TRUE), On("adopt", w)>>,
             ToSaveSpeaker(over, k, db, w, l), db.entry[e].week = w, row.week = w, ~row.off
      PROVE ReplaceTied(over, k, db', job'[r].todo)
  BY <1>1, ClosedGoesOn
<1>2. ASSUME NEW w \in Week, NEW l \in Line,
             job[r].todo = <<SavesLine(w, l), Sync(w, TRUE), On("adopt", w)>>, ToSaveSpeaker(over, k, db, w, l)
      PROVE ReplaceTied(over, k, db', job'[r].todo)
  BY <1>2, SpeakerSavedGoesOn
<1>3. ASSUME NEW w \in Week, job[r].todo = <<Sync(w, TRUE), On("adopt", w)>>,
             Calm(over, k, db, {w}), db.line[w].who # NoOne
      PROVE ReplaceTied(over, k, db', job'[r].todo)
  BY <1>3, SpeakerBroughtGoesOn
<1>4. ASSUME NEW w \in Week, job[r].todo = <<On("adopt", w)>>, Calm(over, k, db, {})
      PROVE job'[r].todo = <<>> /\ Calm(over, k, db', {})
  BY <1>4, AdoptedToEnd
<1> DEFINE t == job[r].todo
<1>9. \/ \E w \in Week, e \in Ids, row \in Row, l \in Line :
           /\ t = <<WritesRow(e, row), SavesLine(w, l), Sync(w, TRUE), On("adopt", w)>>
           /\ ToSaveSpeaker(over, k, db, w, l) /\ db.entry[e].week = w /\ row.week = w /\ ~row.off
      \/ \E w \in Week, l \in Line :
           t = <<SavesLine(w, l), Sync(w, TRUE), On("adopt", w)>> /\ ToSaveSpeaker(over, k, db, w, l)
      \/ \E w \in Week :
           t = <<Sync(w, TRUE), On("adopt", w)>> /\ Calm(over, k, db, {w}) /\ db.line[w].who # NoOne
      \/ \E w \in Week : t = <<On("adopt", w)>> /\ Calm(over, k, db, {})
  BY DEF ReplaceTied
<1> HIDE DEF t
<1> QED
  BY <1>1, <1>2, <1>3, <1>4, <1>9 DEF t

----------------------------------------------------------------------------
LEMMA StoodAsideGoesOn ==
    ASSUME TalkInv, NEW r \in Requests, Steps(r), NEW k, NEW w \in Week, NEW x \in Ids, NEW xr \in Row,
           NEW e \in Ids, NEW row \in Row, ToStandAgain(over, k, db, w, e, row), db.entry[x].week = w,
           \/ job[r].todo = <<Deletes(x), WritesRow(e, row), NamesLine(w, e)>>
           \/ job[r].todo = <<WritesRow(x, xr), WritesRow(e, row), NamesLine(w, e)>> /\ xr.week = w /\ ~xr.off
    PROVE UndoTied(over, k, db', job'[r].todo)
<1> DEFINE t == <<WritesRow(e, row), NamesLine(w, e)>>
<1>0. Good(db) /\ Calm(over, k, db, {w}) /\ db.entry[e].week = w
  BY InvIsGood DEF ToStandAgain
<1>1. CASE job[r].todo = <<Deletes(x), WritesRow(e, row), NamesLine(w, e)>>
  <2> DEFINE c == Deletes(x)
             y == softDelete(db, x)
  <2>1. c.call = "delete" /\ c.e = x
    BY DEF Deletes
  <2>2. Args(r) = c /\ Rest(r) = t
    BY <1>1, ListsTurn
  <2> HIDE DEF c
  <2>3. job'[r].todo = t /\ db' = y
    BY <2>1, <2>2, JournalCallsRun
  <2>4. Calm(over, k, y, {w}) /\ \A f \in Ids : y.entry[f].week = db.entry[f].week
    <3>1. Calm(over, k, softDelete(db, x), {w})
      BY <1>0, WeekRowGone
    <3>2. Rewrites(db, softDelete(db, x), x, [db.entry[x] EXCEPT !.at = "gone"])
      BY <1>0, DeletingRewrites
    <3>3. [db.entry[x] EXCEPT !.at = "gone"].week = db.entry[x].week
      BY <1>0 DEF Good, Database, Row
    <3>4. \A f \in Ids : softDelete(db, x).entry[f].week = db.entry[f].week
      BY <3>2, <3>3 DEF Rewrites
    <3> QED
      BY <3>1, <3>4
  <2> HIDE DEF y
  <2>5. ToStandAgain(over, k, y, w, e, row)
    BY <1>0, <2>4 DEF ToStandAgain
  <2> QED
    BY <2>3, <2>5 DEF UndoTied
<1>2. CASE job[r].todo = <<WritesRow(x, xr), WritesRow(e, row), NamesLine(w, e)>> /\ xr.week = w /\ ~xr.off
  <2> DEFINE c == WritesRow(x, xr)
             y == Put(db, x, xr)
  <2>1. c.call = "write" /\ c.e = x /\ c.row = xr
    BY DEF WritesRow
  <2>2. Args(r) = c /\ Rest(r) = t
    BY <1>2, ListsTurn
  <2> HIDE DEF c
  <2>3. job'[r].todo = t /\ db' = y
    BY <2>1, <2>2, JournalCallsRun
  <2>4. Calm(over, k, y, {w}) /\ Rewrites(db, y, x, xr)
    BY <1>0, <1>2, WeekRowCalms
  <2> HIDE DEF y
  <2>5. ToStandAgain(over, k, y, w, e, row)
    BY <1>0, <1>2, <2>4 DEF ToStandAgain, Rewrites
  <2> QED
    BY <2>3, <2>5 DEF UndoTied
<1> QED
  BY <1>1, <1>2

LEMMA StandsAgainGoesOn ==
    ASSUME TalkInv, NEW r \in Requests, Steps(r), NEW k, NEW w \in Week, NEW e \in Ids, NEW row \in Row,
           job[r].todo = <<WritesRow(e, row), NamesLine(w, e)>>, ToStandAgain(over, k, db, w, e, row)
    PROVE UndoTied(over, k, db', job'[r].todo)
<1> DEFINE c == WritesRow(e, row)
           y == Put(db, e, row)
<1>1. c.call = "write" /\ c.e = e /\ c.row = row
  BY DEF WritesRow
<1>2. Args(r) = c /\ Rest(r) = <<NamesLine(w, e)>>
  BY ListsTurn
<1> HIDE DEF c
<1>3. job'[r].todo = <<NamesLine(w, e)>> /\ db' = y
  BY <1>1, <1>2, JournalCallsRun
<1>4. Calm(over, k, y, {w}) /\ Rewrites(db, y, e, row)
  BY InvIsGood, WeekRowCalms DEF ToStandAgain
<1> HIDE DEF y
<1>5. e \in Live(y, w)
  BY <1>4 DEF Rewrites, Live, ToStandAgain
<1> QED
  BY <1>3, <1>4, <1>5 DEF UndoTied

LEMMA NamedToEnd ==
    ASSUME TalkInv, NEW r \in Requests, Steps(r), NEW k, NEW w \in Week, NEW e \in Ids,
           job[r].todo = <<NamesLine(w, e)>>, Calm(over, k, db, {w}), e \in Live(db, w)
    PROVE job'[r].todo = <<>> /\ Calm(over, k, db', {})
<1> DEFINE c == NamesLine(w, e)
           l == [db.line[w] EXCEPT !.who = db.entry[e].who, !.link = e]
           y == SetLine(db, w, l)
<1>1. c.call = "name" /\ c.w = w /\ c.e = e
  BY DEF NamesLine
<1>2. Args(r) = c /\ Rest(r) = <<>>
  BY ListsTurn
<1> HIDE DEF c
<1>3. job'[r].todo = <<>> /\ db' = IF Seen(db.line[w]) THEN y ELSE db
  BY <1>1, <1>2, LineCallsRun
<1>4. Good(db) /\ Uncancelled(db) /\ db.line[w] \in Line /\ db.entry[e].who # NoOne
  BY InvIsGood, StandsAlone DEF Calm, Good, Database
<1>5. CASE ~Seen(db.line[w])
  <2>1. Agrees(over, k, db, w)
    BY <1>5 DEF Agrees, Tied, Filled
  <2> DEFINE N == {}
             T == {w}
  <2>2. Calm(over, k, db, N \cup T)
    OBVIOUS
  <2>3. Calm(over, k, db, N \cup {w})
    BY <2>2
  <2> HIDE DEF N, T
  <2>4. Calm(over, k, db, N)
    BY <2>1, <2>3, CalmNarrower
  <2> QED
    BY <1>3, <1>5, <2>4 DEF N
<1>6. CASE Seen(db.line[w])
  <2>1. l.at = db.line[w].at /\ l.who = db.entry[e].who /\ l.link = e /\ l.at # "cancelled"
    BY <1>4 DEF Line, Uncancelled
  <2> HIDE DEF l
  <2>2. Touches(db, y, w) /\ y.entry = db.entry /\ y.line[w] = l /\ Uncancelled(y) /\ \A x : Live(y, x) = Live(db, x)
    BY <1>4, <2>1, LineWritten
  <2> HIDE DEF y
  <2>3. Agrees(over, k, y, w)
    BY <1>4, <2>1, <2>2 DEF Agrees, Tied, Filled
  <2>4. Calm(over, k, y, {})
    BY <2>2, <2>3, CalmTo
  <2> QED
    BY <1>3, <1>6, <2>4
<1> QED
  BY <1>5, <1>6

LEMMA UndoneGoesOn ==
    ASSUME TalkInv, NEW r \in Requests, Steps(r), NEW k, UndoTied(over, k, db, job[r].todo)
    PROVE (job'[r].todo = <<>> /\ Calm(over, k, db', {})) \/ UndoTied(over, k, db', job'[r].todo)
<1>1. ASSUME NEW w \in Week, NEW x \in Ids, NEW xr \in Row, NEW e \in Ids, NEW row \in Row,
             \/ job[r].todo = <<Deletes(x), WritesRow(e, row), NamesLine(w, e)>>
             \/ job[r].todo = <<WritesRow(x, xr), WritesRow(e, row), NamesLine(w, e)>> /\ xr.week = w /\ ~xr.off,
             ToStandAgain(over, k, db, w, e, row), db.entry[x].week = w
      PROVE UndoTied(over, k, db', job'[r].todo)
  BY <1>1, StoodAsideGoesOn
<1>2. ASSUME NEW w \in Week, NEW e \in Ids, NEW row \in Row,
             job[r].todo = <<WritesRow(e, row), NamesLine(w, e)>>, ToStandAgain(over, k, db, w, e, row)
      PROVE UndoTied(over, k, db', job'[r].todo)
  BY <1>2, StandsAgainGoesOn
<1>3. ASSUME NEW w \in Week, NEW e \in Ids, job[r].todo = <<NamesLine(w, e)>>, Calm(over, k, db, {w}), e \in Live(db, w)
      PROVE job'[r].todo = <<>> /\ Calm(over, k, db', {})
  BY <1>3, NamedToEnd
<1> DEFINE t == job[r].todo
<1>a. CASE \E w \in Week, x \in Ids, xr \in Row, e \in Ids, row \in Row :
                /\ \/ t = <<Deletes(x), WritesRow(e, row), NamesLine(w, e)>>
                   \/ t = <<WritesRow(x, xr), WritesRow(e, row), NamesLine(w, e)>> /\ xr.week = w /\ ~xr.off
                /\ ToStandAgain(over, k, db, w, e, row) /\ db.entry[x].week = w
  <2>1. PICK w \in Week, x \in Ids, xr \in Row, e \in Ids, row \in Row :
          /\ \/ t = <<Deletes(x), WritesRow(e, row), NamesLine(w, e)>>
             \/ t = <<WritesRow(x, xr), WritesRow(e, row), NamesLine(w, e)>> /\ xr.week = w /\ ~xr.off
          /\ ToStandAgain(over, k, db, w, e, row) /\ db.entry[x].week = w
    BY <1>a
  <2> QED
    BY <1>1, <2>1
<1>b. CASE \E w \in Week, e \in Ids, row \in Row :
                t = <<WritesRow(e, row), NamesLine(w, e)>> /\ ToStandAgain(over, k, db, w, e, row)
  <2>1. PICK w \in Week, e \in Ids, row \in Row :
          t = <<WritesRow(e, row), NamesLine(w, e)>> /\ ToStandAgain(over, k, db, w, e, row)
    BY <1>b
  <2> QED
    BY <1>2, <2>1
<1>c. CASE \E w \in Week, e \in Ids : t = <<NamesLine(w, e)>> /\ Calm(over, k, db, {w}) /\ e \in Live(db, w)
  <2>1. PICK w \in Week, e \in Ids : t = <<NamesLine(w, e)>> /\ Calm(over, k, db, {w}) /\ e \in Live(db, w)
    BY <1>c
  <2> QED
    BY <1>3, <2>1
<1>9. \/ \E w \in Week, x \in Ids, xr \in Row, e \in Ids, row \in Row :
           /\ \/ t = <<Deletes(x), WritesRow(e, row), NamesLine(w, e)>>
              \/ t = <<WritesRow(x, xr), WritesRow(e, row), NamesLine(w, e)>> /\ xr.week = w /\ ~xr.off
           /\ ToStandAgain(over, k, db, w, e, row) /\ db.entry[x].week = w
      \/ \E w \in Week, e \in Ids, row \in Row :
           t = <<WritesRow(e, row), NamesLine(w, e)>> /\ ToStandAgain(over, k, db, w, e, row)
      \/ \E w \in Week, e \in Ids : t = <<NamesLine(w, e)>> /\ Calm(over, k, db, {w}) /\ e \in Live(db, w)
  BY DEF UndoTied
<1> HIDE DEF t
<1> QED
  BY <1>9, <1>a, <1>b, <1>c

----------------------------------------------------------------------------
(* The overseer leaves a week, and the guest comes back to it.               *)

LEMMA GuestStillToCome ==
    ASSUME NEW d, Good(d), NEW from \in Week, NEW to \in Week, NEW a, Leaving(d, a, from, to), GuestToCome(d, from)
    PROVE GuestToCome(a, from) /\ (Seen(a.line[from]) => Live(a, from) = {})
<1>1. HisGoes(d, a, from) /\ a.line = d.line
  BY LeavingRows DEF Leaving
<1>2. CASE Seen(d.line[from])
  <2>1. PICK e \in Ids \cup {NoEntry} : Awaits(d, from, e) /\ (d.line[from].who = NoOne => e = NoEntry)
    BY <1>2 DEF GuestToCome
  <2>2. PICK row \in Row : Waiting(d, from, e, row)
    BY <2>1 DEF Awaits
  <2>3. Waiting(a, from, e, row) /\ Live(a, from) = {}
    BY <1>1, <2>2, HisLeaves
  <2> QED
    BY <1>1, <1>2, <2>1, <2>3 DEF GuestToCome, Awaits
<1>3. CASE ~Seen(d.line[from])
  <2>1. Marked(d, from) = {}
    BY <1>3 DEF GuestToCome
  <2>2. Marked(a, from) = {}
    <3>1. CASE a = d
      BY <2>1, <3>1
    <3>2. CASE a # d
      <4>1. PICK i \in Ids : \E r : Rewrites(d, a, i, r) /\ ~r.aside
        BY <1>1, <3>2, HisEntries DEF HisGoes
      <4> QED
        BY <2>1, <4>1 DEF Rewrites, Marked
    <3> QED
      BY <3>1, <3>2
  <2> QED
    BY <1>1, <1>3, <2>2 DEF GuestToCome
<1> QED
  BY <1>2, <1>3

LEMMA GuestComes ==
    ASSUME NEW a, Good(a), Room(a), Uncancelled(a), AsideSound(a), NEW w \in Week, GuestToCome(a, w),
           Seen(a.line[w]) => Live(a, w) = {}
    PROVE LET y == syncProgramToJournal(returnEntry(a, w), w, TRUE, FALSE) IN
          Filled(over, y, w) /\ Marked(y, w) = {}
<1> DEFINE z == returnEntry(a, w)
           y == syncProgramToJournal(z, w, TRUE, FALSE)
<1>1. Good(z) /\ Room(z) /\ Uncancelled(z) /\ z.line = a.line /\ AsideSound(z)
  <2>1. z.line = a.line
    BY ReturnIs DEF Rewrites
  <2> QED
    BY <2>1, ReturnGood, ReturnSound, CleanVisitRows DEF Leads
<1>2. Marked(a, w) = {} \/ (Seen(a.line[w]) /\ a.line[w].who # NoOne /\ \E e \in Ids : Marked(a, w) = {e})
  BY DEF GuestToCome, Awaits, Waiting
<1>3. Live(z, w) # {} \/ Marked(z, w) = {}
  BY ReturnSound
<1>4. Marked(z, w) = {}
  <2>1. CASE Marked(a, w) = {}
    <3>1. z = a \/ \E i \in Named(a, w) : Rewrites(a, z, i, [a.entry[i] EXCEPT !.at = "live"])
      BY <2>1, ReturnIs
    <3>2. CASE z = a
      BY <2>1, <3>2
    <3>3. CASE \E i \in Named(a, w) : Rewrites(a, z, i, [a.entry[i] EXCEPT !.at = "live"])
      <4>1. PICK i \in Named(a, w) : Rewrites(a, z, i, [a.entry[i] EXCEPT !.at = "live"])
        BY <3>3
      <4>2. i \in Ids /\ a.entry[i] \in Row
        BY DEF Named, Good, Database
      <4>3. [a.entry[i] EXCEPT !.at = "live"].at = "live"
        BY <4>2 DEF Row
      <4>4. z.entry[i].at = "live" /\ \A f \in Ids \ {i} : z.entry[f] = a.entry[f]
        BY <4>1, <4>2, <4>3 DEF Rewrites
      <4> HIDE DEF z
      <4> QED
        BY <2>1, <4>4 DEF Marked
    <3> QED
      BY <3>1, <3>2, <3>3
  <2>2. CASE Seen(a.line[w]) /\ a.line[w].who # NoOne /\ \E e \in Ids : Marked(a, w) = {e}
    <3>1. weekEntry(a, w) = NoEntry
      BY <2>2, OneLive
    <3>2. PICK i \in Marked(a, w) : Rewrites(a, z, i, [a.entry[i] EXCEPT !.at = "live", !.aside = FALSE])
      BY <2>2, <3>1, ReturnIs
    <3>3. i \in Ids /\ a.entry[i] \in Row
      BY DEF Marked, Good, Database
    <3>4. [a.entry[i] EXCEPT !.at = "live", !.aside = FALSE].at = "live"
      BY <3>3 DEF Row
    <3>5. z.entry[i].at = "live" /\ \A f \in Ids \ {i} : z.entry[f] = a.entry[f]
      BY <3>2, <3>3, <3>4 DEF Rewrites
    <3>6. Marked(a, w) = {i}
      BY <2>2
    <3> HIDE DEF z
    <3> QED
      BY <3>5, <3>6 DEF Marked
  <2> QED
    BY <1>2, <2>1, <2>2
<1>5. Filled(over, z, w)
  <2> SUFFICES ASSUME Seen(z.line[w]), z.line[w].who = NoOne
               PROVE Live(z, w) = {}
    BY DEF Filled
  <2>1. Marked(a, w) = {} /\ Live(a, w) = {}
    BY <1>1, <1>2
  <2>2. Named(a, w) = {}
    <3> SUFFICES ASSUME NEW i \in Named(a, w)
                 PROVE FALSE
      OBVIOUS
    <3>1. i \in Ids /\ a.entry[i].who = NoOne /\ a.entry[i] \in Row
      BY <1>1 DEF Named, Good, Database
    <3> QED
      BY <3>1, TalkConstants DEF Row, Speakers
  <2>3. z = a
    BY <2>1, <2>2, ReturnIs
  <2> QED
    BY <2>1, <2>3
<1> HIDE DEF z
<1>6. Filled(over, y, w)
  BY <1>1, <1>5, SyncTies
<1>7. Marked(y, w) = Marked(z, w)
  BY <1>1, SyncTies
<1> QED
  BY <1>4, <1>6, <1>7 DEF y, z

\* He goes to a week that was handed to him already: whoever is to step aside there still is.
LEMMA GuestStillToGo ==
    ASSUME NEW d, Good(d), NEW from \in Week, NEW to \in Week, from # to, NEW a, Leaving(d, a, from, to), GuestToGo(d, to)
    PROVE GuestToGo(a, to)
<1> DEFINE S == overseerEntries(d, from, "live")
<1>0. a.line = d.line /\ a.visit = d.visit /\ Good(a)
  BY DEF Leaving
<1>1. CASE SameWeek(d, a, to)
  <2>1. SameRows(d, a, to)
    BY <1>1 DEF SameWeek
  <2>2. Marked(a, to) = Marked(d, to)
    BY <2>1 DEF SameRows
  <2>3. \A e \in Ids \cup {NoEntry} : /\ Awaits(d, to, e) => Awaits(a, to, e)
                                      /\ IsToGo(d, to, e) => IsToGo(a, to, e)
    BY <2>1, AwaitsCarries
  <2> QED
    BY <1>0, <2>2, <2>3 DEF GuestToGo
<1>2. CASE ~SameWeek(d, a, to)
  <2>1. Live(d, to) = {}
    BY <1>2, LeavingRows
  <2>2. PICK i \in Ids : \E r : Rewrites(d, a, i, r) /\ ~r.aside /\ (Standing(r) => IsHis(r)) /\ ~d.entry[i].aside
    <3>1. HisGoes(d, a, from)
      BY LeavingRows
    <3>2. a # d
      <4>1. a = d => SameWeek(d, a, to)
        BY DEF SameWeek, SameRows
      <4> QED
        BY <1>2, <4>1
    <3> QED
      BY <3>1, <3>2, HisEntries DEF HisGoes
  <2>3. PICK r : Rewrites(d, a, i, r) /\ ~r.aside /\ (Standing(r) => IsHis(r)) /\ ~d.entry[i].aside
    BY <2>2
  <2>4. i \notin Marked(d, to)
    BY <2>3 DEF Marked
  <2>5. CASE Seen(d.line[to])
    <3>1. PICK e \in Ids \cup {NoEntry} : (Awaits(d, to, e) \/ IsToGo(d, to, e)) /\ (d.visit.prev = NoOne => e = NoEntry)
      BY <2>5 DEF GuestToGo
    <3>2. ~IsToGo(d, to, e)
      BY <2>1, OneLive DEF IsToGo, Only
    <3>3. PICK row \in Row : Waiting(d, to, e, row)
      BY <3>1, <3>2 DEF Awaits
    <3>4. Waiting(a, to, e, row)
      BY <2>3, <2>4, <3>3, StillWaiting
    <3> QED
      BY <1>0, <2>5, <3>1, <3>4 DEF GuestToGo, Awaits
  <2>6. CASE ~Seen(d.line[to])
    <3>1. Marked(d, to) = {}
      BY <2>6 DEF GuestToGo
    <3>2. Marked(a, to) = {}
      BY <2>3, <3>1 DEF Marked, Rewrites
    <3> QED
      BY <1>0, <2>6, <3>2 DEF GuestToGo
  <2> QED
    BY <2>5, <2>6
<1> QED
  BY <1>1, <1>2

----------------------------------------------------------------------------
(* Requests that are no visit's, where nothing was done before: no visit     *)
(* stands, and nobody is set aside.                                          *)

PlainTied(o, k, d, t) == JournalTied(o, k, d, t) \/ LineTied(o, k, d, t) \/ ReplaceTied(o, k, d, t) \/ UndoTied(o, k, d, t)
Still(k, d, t) == k => Apart(d, t) /\ Bare(d, {})

LEMMA NoneAside ==
    ASSUME NEW d, AsideSound(d)
    PROVE Bare(d, {}) => \A e \in Ids : d.entry[e].week \in Week => ~d.entry[e].aside
BY DEF Bare, Marked, AsideSound, AsideRow

LEMMA StillBare ==
    ASSUME NEW d, Good(d), AsideSound(d), Bare(d, {}), NEW y, \A e \in Ids : y.entry[e].aside => d.entry[e].aside
    PROVE Bare(y, {})
<1>1. \A e \in Ids : d.entry[e].week \in Week
  BY DEF Good, Database, Row
<1>2. \A e \in Ids : ~d.entry[e].aside
  BY <1>1, NoneAside
<1> QED
  BY <1>2 DEF Bare, Marked

LEMMA PlainTiedGoesOn ==
    ASSUME TalkInv, AsideSound(db), NEW r \in Requests, Steps(r), NEW k, Still(k, db, job[r].todo),
           PlainTied(over, k, db, job[r].todo)
    PROVE /\ Still(k, db', job'[r].todo)
          /\ (job'[r].todo = <<>> /\ Calm(over, k, db', {})) \/ PlainTied(over, k, db', job'[r].todo)
<1>1. k => db.visit.at # "on" /\ NoHim(db) /\ AllOurs(job[r].todo, db) /\ Bare(db, {})
  BY DEF Still, Apart
<1>2. k => Ours(db, db') /\ NoHim(db') /\ AllOurs(job'[r].todo, db')
  BY <1>1, OursGoesOn
<1>3. k => db'.visit = db.visit /\ Bare(db', {})
  <2>1. k => db'.visit = db.visit /\ \A e \in Ids : db'.entry[e].aside => db.entry[e].aside
    BY <1>2 DEF Ours
  <2> QED
    BY <1>1, <2>1, InvIsGood, StillBare
<1>4. Still(k, db', job'[r].todo)
  BY <1>1, <1>2, <1>3 DEF Still, Apart
<1>5. CASE JournalTied(over, k, db, job[r].todo)
  BY <1>4, <1>5, JournalGoesOn DEF PlainTied
<1>6. CASE LineTied(over, k, db, job[r].todo)
  BY <1>1, <1>4, <1>6, LineGoesOn DEF PlainTied
<1>7. CASE ReplaceTied(over, k, db, job[r].todo)
  BY <1>4, <1>7, ReplaceGoesOn DEF PlainTied
<1>8. CASE UndoTied(over, k, db, job[r].todo)
  BY <1>4, <1>8, UndoneGoesOn DEF PlainTied
<1> QED
  BY <1>5, <1>6, <1>7, <1>8 DEF PlainTied

----------------------------------------------------------------------------
(* A visit's requests: how the weeks stand between their calls.              *)

VisitGuest(d, w) == HandedTo(d, w) /\ GuestGone(d, w) /\ Bare(d, {w})
GuestExpected(d, w) == HandedTo(d, w) /\ GuestToGo(d, w) /\ Bare(d, {w})
GuestLeft(d, w) == GuestToCome(d, w) /\ Bare(d, {w})
NotYet(d, w) == Forgotten(d.visit) /\ d.line[w].who # Overseer /\ Bare(d, {})
StillNotThere(d, from, to) == GuestLeft(d, from) /\ d.line[to].who # Overseer
GuestsBoth(d, from, to) == GuestToCome(d, from) /\ HandedTo(d, to) /\ GuestToGo(d, to) /\ Bare(d, {from, to})

TieRests(o, k, d) ==
    Calm(o, k, d, {}) /\ (k => IF d.visit.at = "on" THEN VisitGuest(d, d.visit.week) ELSE Bare(d, {}))

TieComing(o, k, d, t) ==
    \E w \in Week :
      /\ visitOfWeek(d, w) /\ w > o
      /\ \/ t = <<On("template", w), On("applied", w)>> /\ Calm(o, k, d, {}) /\ (k => NotYet(d, w))
         \/ t = <<On("applied", w)>> /\ Calm(o, k, d, {w}) /\ (k => GuestExpected(d, w))
TieSaving(o, k, d, t) ==
    \E w \in Week :
      /\ visitOfWeek(d, w) /\ w > o /\ (k => VisitGuest(d, w))
      /\ \/ t = <<Saves(d.visit), On("template", w), On("speaker", w), On("applied", w)>> /\ Calm(o, k, d, {})
         \/ t = <<On("template", w), On("speaker", w), On("applied", w)>> /\ Calm(o, k, d, {})
         \/ t = <<On("speaker", w), On("applied", w)>> /\ Calm(o, k, d, {w})
TieGoing(o, k, d, t) ==
    \E w \in Week :
      \/ /\ t = <<Reverts(d.visit), On("visitRemoved", w), Deleted>>
         /\ visitOfWeek(d, w) /\ Calm(o, k, d, {}) /\ (k => VisitGuest(d, w))
      \/ t = <<On("visitRemoved", w), Deleted>> /\ Calm(o, k, d, {w}) /\ (k => GuestLeft(d, w))
      \/ t = <<Deleted>> /\ Calm(o, k, d, {}) /\ (k => Bare(d, {}))
TieMoving(o, k, d, t) ==
    \E from \in Week, to \in Week :
      /\ from # to /\ to > o
      /\ \/ \E v \in Visit :
              /\ v.at = "on" /\ v.week = to /\ Forgotten(v)
              /\ \/ /\ t = <<Reverts(d.visit), Saves(v), On("template", to), MovesOn(from, to), On("applied", to)>>
                    /\ visitOfWeek(d, from) /\ Calm(o, k, d, {})
                    /\ k => VisitGuest(d, from) /\ d.line[to].who # Overseer
                 \/ /\ t = <<Saves(v), On("template", to), MovesOn(from, to), On("applied", to)>>
                    /\ Calm(o, k, d, {from}) /\ (k => StillNotThere(d, from, to))
         \/ /\ t = <<On("template", to), MovesOn(from, to), On("applied", to)>>
            /\ visitOfWeek(d, to) /\ Forgotten(d.visit) /\ Calm(o, k, d, {from}) /\ (k => StillNotThere(d, from, to))
         \/ /\ t = <<MovesOn(from, to), On("applied", to)>>
            /\ visitOfWeek(d, to) /\ Calm(o, k, d, {from, to}) /\ (k => GuestsBoth(d, from, to))

TieRound(o, k, d, t) ==
    \/ Still(k, d, t) /\ PlainTied(o, k, d, t)
    \/ TieComing(o, k, d, t) \/ TieSaving(o, k, d, t) \/ TieGoing(o, k, d, t) \/ TieMoving(o, k, d, t)
TieKeeps(o, k, d, t) == (t = <<>> /\ TieRests(o, k, d)) \/ TieRound(o, k, d, t)

LEMMA TouchedBare ==
    ASSUME NEW d, NEW y, NEW w, Touches(d, y, w), Bare(d, {w})
    PROVE Bare(y, {w})
<1>1. \A x \in Week \ {w} : SameWeek(d, y, x)
  BY OtherWeeksSame
<1> DEFINE S == {w}
<1>2. Bare(d, S) /\ \A x \in Week \ S : SameWeek(d, y, x)
  BY <1>1
<1> HIDE DEF S
<1>3. Bare(y, S)
  BY <1>2, BareOn
<1> QED
  BY <1>3 DEF S

LEMMA LineOfBare ==
    ASSUME NEW d, NEW y, NEW w, LineOf(d, y, w), NEW S, Bare(d, S)
    PROVE Bare(y, S)
BY DEF LineOf, Bare, Marked

LEMMA BareWider ==
    ASSUME NEW d, NEW w, Bare(d, {})
    PROVE Bare(d, {w}) /\ (w \in Week => Marked(d, w) = {})
BY DEF Bare

LEMMA LineOfCalm ==
    ASSUME NEW o, NEW k, NEW d, NEW y, NEW w \in Week, LineOf(d, y, w)
    PROVE /\ Calm(o, k, d, {}) => Calm(o, k, y, {w})
          /\ Calm(o, k, d, {w}) => Calm(o, k, y, {w})
<1>1. \A S : Calm(o, k, d, S) => Calm(o, k, y, S \cup {w})
  BY LineOfTies DEF Calm
<1> DEFINE N == {}
           T == {w}
<1>2. N \cup {w} = T /\ T \cup {w} = T
  OBVIOUS
<1> HIDE DEF N, T
<1>3. /\ Calm(o, k, d, N) => Calm(o, k, y, T)
      /\ Calm(o, k, d, T) => Calm(o, k, y, T)
  <2>1. Calm(o, k, d, N) => Calm(o, k, y, N \cup {w})
    BY <1>1
  <2>2. Calm(o, k, d, T) => Calm(o, k, y, T \cup {w})
    BY <1>1
  <2> QED
    BY <1>2, <2>1, <2>2
<1> QED
  BY <1>3 DEF N, T

LEMMA VisitorEntered ==
    ASSUME TalkInv, AsideSound(db), NEW r \in Requests, Steps(r), NEW k, NEW w \in Week, visitOfWeek(db, w), w > over,
           job[r].todo = <<On("applied", w)>>, Calm(over, k, db, {w}), k => GuestExpected(db, w)
    PROVE TieKeeps(over, k, db', job'[r].todo)
<1> DEFINE c == On("applied", w)
           y == circuitVisitApplied(db, w)
<1>1. c.call = "applied" /\ c.w = w
  BY DEF On
<1>2. Args(r) = c /\ Rest(r) = <<>>
  BY ListsTurn
<1> HIDE DEF c
<1>3. job'[r].todo = <<>> /\ Room(db) /\ db' = IF programmeOpen(w) THEN y ELSE db
  BY <1>1, <1>2, VisitCallsRun DEF OfVisits
<1>4. db' = y
  BY <1>3 DEF programmeOpen
<1>5. Good(db) /\ Uncancelled(db)
  BY InvIsGood DEF Calm
<1>6. Uncancelled(y) /\ Touches(db, y, w) /\ Tied(over, y, w)
  BY <1>3, <1>5, AppliedTies
<1>7. k => HandedTo(y, w) /\ GuestGone(y, w)
  BY <1>3, <1>5, GuestApplied DEF GuestExpected
<1> HIDE DEF y
<1>8. k => Filled(over, y, w)
  BY <1>7, NoOneIsHe DEF HandedTo, Filled
<1>9. Calm(over, k, y, {})
  BY <1>6, <1>8, CalmTo DEF Agrees
<1>10. k => Bare(y, {w})
  BY <1>6, TouchedBare DEF GuestExpected
<1>11. y.visit.at = "on" /\ y.visit.week = w
  BY <1>6 DEF Touches, visitOfWeek
<1>12. TieRests(over, k, y)
  BY <1>7, <1>9, <1>10, <1>11 DEF TieRests, VisitGuest
<1> QED
  BY <1>3, <1>4, <1>12 DEF TieKeeps

LEMMA TieComingGoesOn ==
    ASSUME TalkInv, VisitSound(db.visit), AsideSound(db), NEW r \in Requests, Steps(r), NEW k, k => HimWhole(db),
           TieComing(over, k, db, job[r].todo)
    PROVE TieKeeps(over, k, db', job'[r].todo)
<1>1. PICK w \in Week :
        /\ visitOfWeek(db, w) /\ w > over
        /\ \/ job[r].todo = <<On("template", w), On("applied", w)>> /\ Calm(over, k, db, {}) /\ (k => NotYet(db, w))
           \/ job[r].todo = <<On("applied", w)>> /\ Calm(over, k, db, {w}) /\ (k => GuestExpected(db, w))
  BY DEF TieComing
<1>2. CASE job[r].todo = <<On("applied", w)>> /\ Calm(over, k, db, {w}) /\ (k => GuestExpected(db, w))
  BY <1>1, <1>2, VisitorEntered
<1>3. CASE job[r].todo = <<On("template", w), On("applied", w)>> /\ Calm(over, k, db, {}) /\ (k => NotYet(db, w))
  <2> DEFINE c == On("template", w)
             y == templateApply(db)
  <2>1. c.call = "template" /\ c.w = w
    BY DEF On
  <2>2. Args(r) = c /\ Rest(r) = <<On("applied", w)>>
    BY <1>3, ListsTurn
  <2> HIDE DEF c
  <2>3. job'[r].todo = <<On("applied", w)>> /\ db' = y
    BY <1>1, <2>1, <2>2, VisitCallsRun DEF OfVisits
  <2>4. Good(db) /\ programmeOpen(w) /\ db.visit.week = w
    BY <1>1, InvIsGood DEF programmeOpen, visitOfWeek
  <2>5. LineOf(db, y, w) /\ y.visit.at = db.visit.at /\ y.visit.week = db.visit.week
    BY <2>4, TemplateIs
  <2>6. k => HandedTo(y, w)
    <3> SUFFICES ASSUME k
                 PROVE HandedTo(y, w)
      OBVIOUS
    <3>1. HisRows(db) /\ db.visit.prev # Overseer /\ HisLine(db, w) /\ Forgotten(db.visit)
      BY <1>3 DEF HimWhole, NotYet, HisLine
    <3> QED
      BY <1>1, <2>4, <3>1, HisTemplate
  <2>7. k => GuestToGo(y, w)
    <3> SUFFICES ASSUME k
                 PROVE GuestToGo(y, w)
      OBVIOUS
    <3>1. Filled(over, db, w)
      BY <1>3 DEF Calm, AllBut, Agrees
    <3>2. Marked(db, w) = {} /\ Forgotten(db.visit) /\ db.line[w].who # Overseer
      BY <1>3 DEF NotYet, Bare
    <3> QED
      BY <1>1, <2>4, <3>1, <3>2, GuestTemplate
  <2> HIDE DEF y
  <2>8. k => Bare(y, {w})
    <3>1. k => Bare(db, {w})
      BY <1>3, BareWider DEF NotYet
    <3> QED
      BY <2>5, <3>1, LineOfBare
  <2>9. Calm(over, k, y, {w})
    BY <1>3, <2>5, LineOfCalm
  <2>10. visitOfWeek(y, w)
    BY <1>1, <2>5 DEF visitOfWeek
  <2>11. TieComing(over, k, y, <<On("applied", w)>>)
    BY <1>1, <2>6, <2>7, <2>8, <2>9, <2>10 DEF TieComing, GuestExpected
  <2> QED
    BY <2>3, <2>11 DEF TieKeeps, TieRound
<1> QED
  BY <1>1, <1>2, <1>3

LEMMA GuestsCarry ==
    ASSUME NEW d, Good(d), NEW y, NEW w, SameWeek(d, y, w)
    PROVE /\ GuestToCome(d, w) => GuestToCome(y, w)
          /\ y.visit = d.visit /\ GuestToGo(d, w) => GuestToGo(y, w)
<1>1. SameRows(d, y, w) /\ y.line[w] = d.line[w]
  BY DEF SameWeek
<1>2. Marked(y, w) = Marked(d, w)
  BY <1>1 DEF SameRows
<1>3. \A e \in Ids \cup {NoEntry} : /\ Awaits(d, w, e) => Awaits(y, w, e)
                                    /\ IsToGo(d, w, e) => IsToGo(y, w, e)
  BY <1>1, AwaitsCarries
<1>4. GuestToCome(d, w) => GuestToCome(y, w)
  BY <1>1, <1>2, <1>3 DEF GuestToCome
<1>5. y.visit = d.visit /\ GuestToGo(d, w) => GuestToGo(y, w)
  BY <1>1, <1>2, <1>3 DEF GuestToGo
<1> QED
  BY <1>4, <1>5

LEMMA SpeakerHandedTo ==
    ASSUME NEW d, Good(d), NEW w \in Week, visitOfWeek(d, w), HandedTo(d, w)
    PROVE HandedTo(syncSpeaker(d), w)
<1> DEFINE y == syncSpeaker(d)
<1>1. d.visit.week = w
  BY DEF visitOfWeek
<1>2. LineOf(d, y, w) /\ y.visit = d.visit
      /\ y.line[w].who = IF d.visit.done /\ Seen(d.line[w]) THEN Overseer ELSE d.line[w].who
  BY <1>1, SpeakerIs
<1> HIDE DEF y
<1>3. Seen(y.line[w]) <=> Seen(d.line[w])
  BY <1>2 DEF LineOf, SameShow, Seen
<1>4. HandedTo(y, w)
  BY <1>2, <1>3 DEF HandedTo, Hands
<1> QED
  BY <1>4 DEF y

LEMMA TieSavingGoesOn ==
    ASSUME TalkInv, NEW r \in Requests, Steps(r), NEW k, TieSaving(over, k, db, job[r].todo)
    PROVE TieKeeps(over, k, db', job'[r].todo)
<1> PICK w \in Week :
      /\ visitOfWeek(db, w) /\ w > over /\ (k => VisitGuest(db, w))
      /\ \/ job[r].todo = <<Saves(db.visit), On("template", w), On("speaker", w), On("applied", w)>> /\ Calm(over, k, db, {})
         \/ job[r].todo = <<On("template", w), On("speaker", w), On("applied", w)>> /\ Calm(over, k, db, {})
         \/ job[r].todo = <<On("speaker", w), On("applied", w)>> /\ Calm(over, k, db, {w})
  BY DEF TieSaving
<1>0. Good(db) /\ db \in Database /\ db.visit.week = w
  BY InvIsGood DEF visitOfWeek, Good
<1>1. CASE job[r].todo = <<Saves(db.visit), On("template", w), On("speaker", w), On("applied", w)>> /\ Calm(over, k, db, {})
  <2> DEFINE c == Saves(db.visit)
             p == On("template", w)
             q == On("speaker", w)
             u == On("applied", w)
             t == <<p, q, u>>
  <2>1. c.call = "saveVisit" /\ c.v = db.visit /\ job[r].todo = <<c, p, q, u>>
    BY <1>1 DEF Saves
  <2> HIDE DEF c, p, q, u
  <2>2. Args(r) = c /\ Rest(r) = t
    BY <2>1, ListsTurn
  <2>3. job'[r].todo = t /\ db' = [db EXCEPT !.visit = db.visit]
    BY <2>1, <2>2, VisitCallsRun DEF OfVisits
  <2>4. db' = db
    BY <1>0, <2>3 DEF Database
  <2>5. TieSaving(over, k, db, t)
    BY <1>1 DEF TieSaving, p, q, u
  <2> QED
    BY <2>3, <2>4, <2>5 DEF TieKeeps, TieRound
<1>2. CASE job[r].todo = <<On("template", w), On("speaker", w), On("applied", w)>> /\ Calm(over, k, db, {})
  <2> DEFINE c == On("template", w)
             p == On("speaker", w)
             q == On("applied", w)
             t == <<p, q>>
             y == templateApply(db)
  <2>1. c.call = "template" /\ c.w = w /\ job[r].todo = <<c, p, q>>
    BY <1>2 DEF On
  <2> HIDE DEF c, p, q
  <2>2. Args(r) = c /\ Rest(r) = t
    BY <2>1, ListsTurn
  <2>3. job'[r].todo = t /\ db' = y
    BY <2>1, <2>2, VisitCallsRun
  <2>4. LineOf(db, y, w) /\ y.visit.at = db.visit.at /\ y.visit.week = db.visit.week
    BY <1>0, TemplateIs
  <2>5. k => HandedTo(y, w) /\ GuestGone(y, w)
    BY <1>0, GuestTemplateAgain DEF VisitGuest
  <2> HIDE DEF y
  <2>6. k => Bare(y, {w})
    BY <2>4, LineOfBare DEF VisitGuest
  <2>7. Calm(over, k, y, {w})
    BY <1>2, <2>4, LineOfCalm
  <2>8. TieSaving(over, k, y, t)
    BY <2>4, <2>5, <2>6, <2>7 DEF TieSaving, VisitGuest, visitOfWeek, p, q
  <2> QED
    BY <2>3, <2>8 DEF TieKeeps, TieRound
<1>3. CASE job[r].todo = <<On("speaker", w), On("applied", w)>> /\ Calm(over, k, db, {w})
  <2> DEFINE c == On("speaker", w)
             p == On("applied", w)
             t == <<p>>
             y == syncSpeaker(db)
  <2>1. c.call = "speaker" /\ c.w = w /\ job[r].todo = <<c, p>>
    BY <1>3 DEF On
  <2> HIDE DEF c, p
  <2>2. Args(r) = c /\ Rest(r) = t
    BY <2>1, ListsTurn
  <2>3. job'[r].todo = t /\ db' = y
    BY <2>1, <2>2, VisitCallsRun
  <2>4. LineOf(db, y, w) /\ y.visit = db.visit
    BY <1>0, SpeakerIs
  <2>5. k => HandedTo(y, w) /\ GuestToGo(y, w)
    BY <1>0, SpeakerHandedTo, GuestSpeaker DEF VisitGuest
  <2> HIDE DEF y
  <2>6. k => Bare(y, {w})
    BY <2>4, LineOfBare DEF VisitGuest
  <2>7. Calm(over, k, y, {w})
    BY <1>3, <2>4, LineOfCalm
  <2>8. TieComing(over, k, y, t)
    BY <2>4, <2>5, <2>6, <2>7 DEF TieComing, GuestExpected, visitOfWeek, p
  <2> QED
    BY <2>3, <2>8 DEF TieKeeps, TieRound
<1> QED
  BY <1>1, <1>2, <1>3

LEMMA RemovalEnds ==
    ASSUME TalkInv, NEW r \in Requests, Steps(r), NEW k, job[r].todo = <<Deleted>>, Calm(over, k, db, {}), k => Bare(db, {})
    PROVE TieKeeps(over, k, db', job'[r].todo)
<1> DEFINE y == [db EXCEPT !.visit.at = "gone"]
<1>0. Deleted.call = "deleteVisit"
  BY DEF Deleted
<1>1. Args(r) = Deleted /\ Rest(r) = <<>>
  BY ListsTurn
<1>2. job'[r].todo = <<>> /\ db' = y
  BY <1>0, <1>1, VisitCallsRun DEF OfVisits
<1>3. db \in Database /\ db.visit \in Visit
  BY InvIsGood DEF Good, Database
<1>4. y.entry = db.entry /\ y.line = db.line /\ y.visit.at = "gone"
  BY <1>3 DEF Database, Visit
<1> HIDE DEF y
<1> DEFINE N == {}
<1>5. Calm(over, k, db, N) /\ Uncancelled(db) /\ (k => Bare(db, N))
  BY DEF Calm
<1> HIDE DEF N
<1>6. Uncancelled(y)
  BY <1>4, <1>5 DEF Uncancelled
<1>7. \A x \in Week : Live(y, x) = Live(db, x)
  BY <1>4 DEF Live
<1>8. Calm(over, k, y, N)
  BY <1>4, <1>5, <1>6, <1>7, CalmSame
<1>9. k => Bare(y, N)
  BY <1>4, <1>5 DEF Bare, Marked
<1>10. TieRests(over, k, y)
  BY <1>4, <1>8, <1>9 DEF TieRests, N
<1> QED
  BY <1>2, <1>10 DEF TieKeeps

\* The overseer leaves a week: its guest comes back, and the week is tied again.
LEMMA LeavingCalms ==
    ASSUME NEW d, Good(d), AsideSound(d), NEW k, NEW from \in Week, NEW to \in Week, NEW a, Leaving(d, a, from, to),
           Calm(over, k, d, {from, to}), k => GuestToCome(d, from) /\ Bare(d, {from, to})
    PROVE LET y == syncProgramToJournal(returnEntry(a, from), from, TRUE, FALSE) IN
          /\ Touches(a, y, from) /\ Calm(over, k, y, {to} \ {from}) /\ (k => Bare(y, {to} \ {from}))
<1> DEFINE y == syncProgramToJournal(returnEntry(a, from), from, TRUE, FALSE)
           S == {from, to}
           T == {to} \ {from}
<1>0. Good(a) /\ Room(a) /\ Uncancelled(d)
  BY DEF Leaving, Calm
<1>1. Uncancelled(a) /\ AsideSound(a) /\ \A x \in Week \ S : SameWeek(d, a, x)
  BY <1>0, LeavingRows
<1>2. Uncancelled(y) /\ Touches(a, y, from) /\ Tied(over, y, from)
  BY <1>0, <1>1, ReturningTies
<1>3. k => Filled(over, y, from) /\ Marked(y, from) = {}
  <2>1. k => GuestToCome(a, from) /\ (Seen(a.line[from]) => Live(a, from) = {})
    BY GuestStillToCome
  <2> QED
    BY <1>0, <1>1, <2>1, GuestComes
<1> HIDE DEF y
<1>4. S \subseteq T \cup {from}
  OBVIOUS
<1>5. \A x \in Week : x \notin T => x = from \/ x \notin S
  OBVIOUS
<1>6. Calm(over, k, d, S) /\ (k => Bare(d, S))
  OBVIOUS
<1> HIDE DEF S, T
<1>7. Calm(over, k, a, S)
  BY <1>1, <1>6, AllButCarries DEF Calm
<1>8. Agrees(over, k, y, from)
  BY <1>2, <1>3 DEF Agrees
<1>9. Calm(over, k, y, T)
  BY <1>2, <1>4, <1>7, <1>8, CalmOn
<1>10. k => Bare(a, S)
  BY <1>1, <1>6, BareOn
<1>11. k => Bare(y, T)
  <2> SUFFICES ASSUME k, NEW x \in Week \ T
               PROVE Marked(y, x) = {}
    BY DEF Bare
  <2>1. CASE x = from
    BY <1>3, <2>1
  <2>2. CASE x # from
    <3>1. SameWeek(a, y, x)
      BY <1>2, <2>2, OtherWeeksSame
    <3>2. Marked(a, x) = {}
      BY <1>5, <1>10, <2>2 DEF Bare
    <3> QED
      BY <3>1, <3>2 DEF SameWeek, SameRows
  <2> QED
    BY <2>1, <2>2
<1> QED
  BY <1>2, <1>9, <1>11 DEF y, T

\* The line given back.
LEMMA RevertCalms ==
    ASSUME TalkInv, NEW w \in Week, visitOfWeek(db, w), NEW k, Calm(over, k, db, {}), k => VisitGuest(db, w)
    PROVE LET y == templateRevert(db, db.visit) IN
          LineOf(db, y, w) /\ Calm(over, k, y, {w}) /\ (k => GuestLeft(y, w))
<1> DEFINE y == templateRevert(db, db.visit)
<1>1. Good(db) /\ db.visit.week = w
  BY InvIsGood DEF visitOfWeek
<1>2. LineOf(db, y, w)
  BY <1>1, RevertIs
<1>3. k => GuestToCome(y, w)
  BY <1>1, GuestRevert DEF VisitGuest
<1> HIDE DEF y
<1>4. Calm(over, k, y, {w})
  BY <1>2, LineOfCalm
<1>5. k => Bare(y, {w})
  BY <1>2, LineOfBare DEF VisitGuest
<1> QED
  BY <1>2, <1>3, <1>4, <1>5 DEF y, GuestLeft

LEMMA TieGoingGoesOn ==
    ASSUME TalkInv, AsideSound(db), NEW r \in Requests, Steps(r), NEW k, TieGoing(over, k, db, job[r].todo)
    PROVE TieKeeps(over, k, db', job'[r].todo)
<1> PICK w \in Week :
      \/ /\ job[r].todo = <<Reverts(db.visit), On("visitRemoved", w), Deleted>>
         /\ visitOfWeek(db, w) /\ Calm(over, k, db, {}) /\ (k => VisitGuest(db, w))
      \/ job[r].todo = <<On("visitRemoved", w), Deleted>> /\ Calm(over, k, db, {w}) /\ (k => GuestLeft(db, w))
      \/ job[r].todo = <<Deleted>> /\ Calm(over, k, db, {}) /\ (k => Bare(db, {}))
  BY DEF TieGoing
<1>1. CASE /\ job[r].todo = <<Reverts(db.visit), On("visitRemoved", w), Deleted>>
           /\ visitOfWeek(db, w) /\ Calm(over, k, db, {}) /\ (k => VisitGuest(db, w))
  <2> DEFINE c == Reverts(db.visit)
             p == On("visitRemoved", w)
             t == <<p, Deleted>>
             y == templateRevert(db, db.visit)
  <2>1. c.call = "revert" /\ c.v = db.visit /\ job[r].todo = <<c, p, Deleted>>
    BY <1>1 DEF Reverts
  <2> HIDE DEF c, p
  <2>2. Args(r) = c /\ Rest(r) = t
    BY <2>1, ListsTurn
  <2>3. job'[r].todo = t /\ db' = y
    BY <2>1, <2>2, VisitCallsRun DEF OfVisits
  <2>4. Calm(over, k, y, {w}) /\ (k => GuestLeft(y, w))
    BY <1>1, RevertCalms
  <2> HIDE DEF y
  <2>5. TieGoing(over, k, y, t)
    BY <2>4 DEF TieGoing, p
  <2> QED
    BY <2>3, <2>5 DEF TieKeeps, TieRound
<1>2. CASE job[r].todo = <<On("visitRemoved", w), Deleted>> /\ Calm(over, k, db, {w}) /\ (k => GuestLeft(db, w))
  <2> DEFINE c == On("visitRemoved", w)
             t == <<Deleted>>
             y == circuitVisitRemoved(db, w)
  <2>1. c.call = "visitRemoved" /\ c.w = w /\ job[r].todo = <<c, Deleted>>
    BY <1>2 DEF On
  <2> HIDE DEF c
  <2>2. Args(r) = c /\ Rest(r) = t
    BY <2>1, ListsTurn
  <2>3. job'[r].todo = t /\ Room(db) /\ db' = y
    BY <2>1, <2>2, VisitCallsRun DEF OfVisits
  <2>4. PICK a : Leaving(db, a, w, w) /\ y = syncProgramToJournal(returnEntry(a, w), w, TRUE, FALSE)
    BY <2>3, InvIsGood, RemovedLeaves
  <2> HIDE DEF y
  <2>5. {w, w} = {w} /\ {w} \ {w} = {}
    OBVIOUS
  <2>6. Calm(over, k, db, {w, w}) /\ (k => GuestToCome(db, w) /\ Bare(db, {w, w}))
    BY <1>2, <2>5 DEF GuestLeft
  <2>7. Calm(over, k, y, {w} \ {w}) /\ (k => Bare(y, {w} \ {w}))
    BY <2>4, <2>6, InvIsGood, LeavingCalms
  <2>8. TieGoing(over, k, y, t)
    BY <2>5, <2>7 DEF TieGoing
  <2> QED
    BY <2>3, <2>8 DEF TieKeeps, TieRound
<1>3. CASE job[r].todo = <<Deleted>> /\ Calm(over, k, db, {}) /\ (k => Bare(db, {}))
  BY <1>3, RemovalEnds
<1> QED
  BY <1>1, <1>2, <1>3

----------------------------------------------------------------------------
LEMMA FiveTurn ==
    ASSUME NEW r, NEW a, NEW b, NEW c, NEW e, NEW f, job[r].todo = <<a, b, c, e, f>>
    PROVE Args(r) = a /\ Rest(r) = <<b, c, e, f>>
BY LongTails DEF Args, Rest

LEMMA LeavesForAnother ==
    ASSUME TalkInv, NEW r \in Requests, Steps(r), NEW k, NEW from \in Week, NEW to \in Week, from # to, to > over,
           NEW v \in Visit, v.at = "on", v.week = to, Forgotten(v),
           job[r].todo = <<Reverts(db.visit), Saves(v), On("template", to), MovesOn(from, to), On("applied", to)>>,
           visitOfWeek(db, from), Calm(over, k, db, {}), k => VisitGuest(db, from) /\ db.line[to].who # Overseer
    PROVE TieKeeps(over, k, db', job'[r].todo)
<1> DEFINE c == Reverts(db.visit)
           p == Saves(v)
           q == On("template", to)
           u == MovesOn(from, to)
           z == On("applied", to)
           t == <<p, q, u, z>>
           y == templateRevert(db, db.visit)
<1>1. c.call = "revert" /\ c.v = db.visit /\ job[r].todo = <<c, p, q, u, z>>
  BY DEF Reverts
<1> HIDE DEF c, p, q, u, z
<1>2. Args(r) = c /\ Rest(r) = t
  BY <1>1, FiveTurn
<1>3. job'[r].todo = t /\ db' = y
  BY <1>1, <1>2, VisitCallsRun DEF OfVisits
<1>4. LineOf(db, y, from) /\ Calm(over, k, y, {from}) /\ (k => GuestLeft(y, from))
  BY RevertCalms
<1> HIDE DEF y
<1>5. y.line[to] = db.line[to]
  BY <1>4 DEF LineOf
<1>6. TieMoving(over, k, y, t)
  BY <1>4, <1>5 DEF TieMoving, StillNotThere, p, q, u, z
<1> QED
  BY <1>3, <1>6 DEF TieKeeps, TieRound

LEMMA SavedForAnother ==
    ASSUME TalkInv, NEW r \in Requests, Steps(r), NEW k, NEW from \in Week, NEW to \in Week, from # to, to > over,
           NEW v \in Visit, v.at = "on", v.week = to, Forgotten(v),
           job[r].todo = <<Saves(v), On("template", to), MovesOn(from, to), On("applied", to)>>,
           Calm(over, k, db, {from}), k => StillNotThere(db, from, to)
    PROVE TieKeeps(over, k, db', job'[r].todo)
<1> DEFINE c == Saves(v)
           p == On("template", to)
           q == MovesOn(from, to)
           u == On("applied", to)
           t == <<p, q, u>>
           y == [db EXCEPT !.visit = v]
<1>1. c.call = "saveVisit" /\ c.v = v /\ job[r].todo = <<c, p, q, u>>
  BY DEF Saves
<1> HIDE DEF c, p, q, u
<1>2. Args(r) = c /\ Rest(r) = t
  BY <1>1, ListsTurn
<1>3. job'[r].todo = t /\ db' = y
  BY <1>1, <1>2, VisitCallsRun DEF OfVisits
<1>4. y.entry = db.entry /\ y.line = db.line /\ y.visit = v
  BY InvIsGood DEF Good, Database
<1> HIDE DEF y
<1>5. LineOf(db, y, from) /\ SameWeek(db, y, from)
  BY <1>4 DEF LineOf, SameShow, SameWeek, SameRows, Live, Marked
<1>6. Calm(over, k, y, {from})
  BY <1>5, LineOfCalm
<1>7. k => GuestToCome(y, from) /\ Bare(y, {from})
  BY <1>5, GuestsCarry, LineOfBare, InvIsGood DEF StillNotThere, GuestLeft
<1>8. visitOfWeek(y, to) /\ Forgotten(y.visit)
  BY <1>4 DEF visitOfWeek
<1>9. TieMoving(over, k, y, t)
  BY <1>4, <1>6, <1>7, <1>8 DEF TieMoving, StillNotThere, GuestLeft, p, q, u
<1> QED
  BY <1>3, <1>9 DEF TieKeeps, TieRound

LEMMA HandedInAnother ==
    ASSUME TalkInv, VisitSound(db.visit), AsideSound(db), NEW r \in Requests, Steps(r), NEW k, k => HimWhole(db),
           NEW from \in Week, NEW to \in Week, from # to, to > over,
           job[r].todo = <<On("template", to), MovesOn(from, to), On("applied", to)>>,
           visitOfWeek(db, to), Forgotten(db.visit), Calm(over, k, db, {from}), k => StillNotThere(db, from, to)
    PROVE TieKeeps(over, k, db', job'[r].todo)
<1> DEFINE c == On("template", to)
           p == MovesOn(from, to)
           q == On("applied", to)
           t == <<p, q>>
           y == templateApply(db)
<1>1. c.call = "template" /\ c.w = to /\ job[r].todo = <<c, p, q>>
  BY DEF On
<1> HIDE DEF c, p, q
<1>2. Args(r) = c /\ Rest(r) = t
  BY <1>1, ListsTurn
<1>3. job'[r].todo = t /\ db' = y
  BY <1>1, <1>2, VisitCallsRun
<1>4. Good(db) /\ programmeOpen(to) /\ db.visit.week = to
  BY InvIsGood DEF programmeOpen, visitOfWeek
<1>5. LineOf(db, y, to) /\ y.visit.at = db.visit.at /\ y.visit.week = db.visit.week
  BY <1>4, TemplateIs
<1>6. k => HandedTo(y, to)
  <2> SUFFICES ASSUME k
               PROVE HandedTo(y, to)
    OBVIOUS
  <2>1. HisRows(db) /\ db.visit.prev # Overseer /\ HisLine(db, to)
    BY DEF HimWhole, StillNotThere, HisLine
  <2> QED
    BY <1>4, <2>1, HisTemplate
<1>7. k => GuestToGo(y, to)
  <2> SUFFICES ASSUME k
               PROVE GuestToGo(y, to)
    OBVIOUS
  <2>1. Filled(over, db, to)
    BY DEF Calm, AllBut, Agrees
  <2>2. Marked(db, to) = {} /\ db.line[to].who # Overseer
    BY DEF StillNotThere, GuestLeft, Bare
  <2> QED
    BY <1>4, <2>1, <2>2, GuestTemplate
<1> HIDE DEF y
<1>8. Calm(over, k, y, {from, to})
  <2> DEFINE S == {from}
             T == {from, to}
  <2>1. S \cup {to} = T /\ Calm(over, k, db, S)
    OBVIOUS
  <2> HIDE DEF S, T
  <2>2. Calm(over, k, y, S \cup {to})
    BY <1>5, <2>1, LineOfTies DEF Calm
  <2> QED
    BY <2>1, <2>2 DEF T
<1>9. k => GuestToCome(y, from)
  <2>1. SameWeek(db, y, from)
    BY <1>5, LineOfOthers
  <2> QED
    BY <1>4, <2>1, GuestsCarry DEF StillNotThere, GuestLeft
<1>10. k => Bare(y, {from, to})
  <2>1. k => Bare(y, {from})
    BY <1>5, LineOfBare DEF StillNotThere, GuestLeft
  <2> QED
    BY <2>1 DEF Bare
<1>11. visitOfWeek(y, to)
  BY <1>5 DEF visitOfWeek
<1>12. TieMoving(over, k, y, t)
  BY <1>6, <1>7, <1>8, <1>9, <1>10, <1>11 DEF TieMoving, GuestsBoth, p, q
<1> QED
  BY <1>3, <1>12 DEF TieKeeps, TieRound

LEMMA MovedToAnother ==
    ASSUME TalkInv, AsideSound(db), NEW r \in Requests, Steps(r), NEW k,
           NEW from \in Week, NEW to \in Week, from # to, to > over,
           job[r].todo = <<MovesOn(from, to), On("applied", to)>>,
           visitOfWeek(db, to), Calm(over, k, db, {from, to}), k => GuestsBoth(db, from, to)
    PROVE TieKeeps(over, k, db', job'[r].todo)
<1> DEFINE c == MovesOn(from, to)
           p == On("applied", to)
           t == <<p>>
           y == circuitVisitMoved(db, from, to)
<1>1. c.call = "visitMoved" /\ c.from = from /\ c.to = to /\ job[r].todo = <<c, p>>
  BY DEF MovesOn
<1> HIDE DEF c, p
<1>2. Args(r) = c /\ Rest(r) = t
  BY <1>1, ListsTurn
<1>3. job'[r].todo = t /\ Room(db) /\ db' = y
  BY <1>1, <1>2, VisitCallsRun DEF OfVisits
<1>4. PICK a : Leaving(db, a, from, to) /\ y = syncProgramToJournal(returnEntry(a, from), from, TRUE, FALSE)
  BY <1>3, InvIsGood, MovedLeaves
<1> HIDE DEF y
<1>5. k => GuestToCome(db, from) /\ Bare(db, {from, to})
  BY DEF GuestsBoth
<1>6. Touches(a, y, from) /\ Calm(over, k, y, {to} \ {from}) /\ (k => Bare(y, {to} \ {from}))
  BY <1>4, <1>5, InvIsGood, LeavingCalms
<1>7. {to} \ {from} = {to}
  OBVIOUS
<1>8. SameWeek(a, y, to) /\ y.visit = a.visit /\ Good(a) /\ a.visit = db.visit /\ a.line = db.line
  BY <1>4, <1>6, OtherWeeksSame DEF Touches, Leaving
<1>9. k => GuestToGo(y, to)
  <2>1. k => GuestToGo(a, to)
    BY <1>4, InvIsGood, GuestStillToGo DEF GuestsBoth
  <2> QED
    BY <1>8, <2>1, GuestsCarry
<1>10. k => HandedTo(y, to)
  BY <1>8 DEF GuestsBoth, HandedTo, SameWeek
<1>11. visitOfWeek(y, to)
  BY <1>8 DEF visitOfWeek
<1>12. Calm(over, k, y, {to}) /\ (k => Bare(y, {to}))
  BY <1>6, <1>7
<1>13. TieComing(over, k, y, t)
  BY <1>9, <1>10, <1>11, <1>12 DEF TieComing, GuestExpected, p
<1> QED
  BY <1>3, <1>13 DEF TieKeeps, TieRound

LEMMA TieMovingGoesOn ==
    ASSUME TalkInv, VisitSound(db.visit), AsideSound(db), NEW r \in Requests, Steps(r), NEW k, k => HimWhole(db),
           TieMoving(over, k, db, job[r].todo)
    PROVE TieKeeps(over, k, db', job'[r].todo)
<1> PICK from \in Week, to \in Week :
      /\ from # to /\ to > over
      /\ \/ \E v \in Visit :
              /\ v.at = "on" /\ v.week = to /\ Forgotten(v)
              /\ \/ /\ job[r].todo = <<Reverts(db.visit), Saves(v), On("template", to), MovesOn(from, to), On("applied", to)>>
                    /\ visitOfWeek(db, from) /\ Calm(over, k, db, {})
                    /\ k => VisitGuest(db, from) /\ db.line[to].who # Overseer
                 \/ /\ job[r].todo = <<Saves(v), On("template", to), MovesOn(from, to), On("applied", to)>>
                    /\ Calm(over, k, db, {from}) /\ (k => StillNotThere(db, from, to))
         \/ /\ job[r].todo = <<On("template", to), MovesOn(from, to), On("applied", to)>>
            /\ visitOfWeek(db, to) /\ Forgotten(db.visit) /\ Calm(over, k, db, {from}) /\ (k => StillNotThere(db, from, to))
         \/ /\ job[r].todo = <<MovesOn(from, to), On("applied", to)>>
            /\ visitOfWeek(db, to) /\ Calm(over, k, db, {from, to}) /\ (k => GuestsBoth(db, from, to))
  BY DEF TieMoving
<1>1. ASSUME NEW v \in Visit, v.at = "on", v.week = to, Forgotten(v),
             job[r].todo = <<Reverts(db.visit), Saves(v), On("template", to), MovesOn(from, to), On("applied", to)>>,
             visitOfWeek(db, from), Calm(over, k, db, {}), k => VisitGuest(db, from) /\ db.line[to].who # Overseer
      PROVE TieKeeps(over, k, db', job'[r].todo)
  BY <1>1, LeavesForAnother
<1>2. ASSUME NEW v \in Visit, v.at = "on", v.week = to, Forgotten(v),
             job[r].todo = <<Saves(v), On("template", to), MovesOn(from, to), On("applied", to)>>,
             Calm(over, k, db, {from}), k => StillNotThere(db, from, to)
      PROVE TieKeeps(over, k, db', job'[r].todo)
  BY <1>2, SavedForAnother
<1>3. CASE /\ job[r].todo = <<On("template", to), MovesOn(from, to), On("applied", to)>>
           /\ visitOfWeek(db, to) /\ Forgotten(db.visit) /\ Calm(over, k, db, {from}) /\ (k => StillNotThere(db, from, to))
  BY <1>3, HandedInAnother
<1>4. CASE /\ job[r].todo = <<MovesOn(from, to), On("applied", to)>>
           /\ visitOfWeek(db, to) /\ Calm(over, k, db, {from, to}) /\ (k => GuestsBoth(db, from, to))
  BY <1>4, MovedToAnother
<1> QED
  BY <1>1, <1>2, <1>3, <1>4

LEMMA TieRoundGoesOn ==
    ASSUME TalkInv, VisitSound(db.visit), AsideSound(db), NEW r \in Requests, Steps(r), NEW k, k => HimWhole(db),
           TieRound(over, k, db, job[r].todo)
    PROVE TieKeeps(over, k, db', job'[r].todo)
<1>1. CASE Still(k, db, job[r].todo) /\ PlainTied(over, k, db, job[r].todo)
  <2>1. /\ Still(k, db', job'[r].todo)
        /\ (job'[r].todo = <<>> /\ Calm(over, k, db', {})) \/ PlainTied(over, k, db', job'[r].todo)
    BY <1>1, PlainTiedGoesOn
  <2>2. Calm(over, k, db', {}) => TieRests(over, k, db')
    BY <2>1 DEF TieRests, Still, Apart
  <2> QED
    BY <2>1, <2>2 DEF TieKeeps, TieRound
<1>2. CASE TieComing(over, k, db, job[r].todo)
  BY <1>2, TieComingGoesOn
<1>3. CASE TieSaving(over, k, db, job[r].todo)
  BY <1>3, TieSavingGoesOn
<1>4. CASE TieGoing(over, k, db, job[r].todo)
  BY <1>4, TieGoingGoesOn
<1>5. CASE TieMoving(over, k, db, job[r].todo)
  BY <1>5, TieMovingGoesOn
<1> QED
  BY <1>1, <1>2, <1>3, <1>4, <1>5 DEF TieRound

----------------------------------------------------------------------------
(* The requests begin: the weeks agree, and each list of calls keeps in      *)
(* mind which it sets apart.                                                 *)

TieReady(r, k) ==
    /\ TalkInv /\ TalkInv' /\ AsideSound(db) /\ VisitSound(db.visit) /\ TieRests(over, k, db)
    /\ k => HimReady /\ HimBegan(r) /\ past' = {}
    /\ "cancelled" \notin past'

LEMMA ReadyIs ==
    ASSUME NEW r \in Requests, NEW k, TieReady(r, k)
    PROVE /\ Good(db) /\ Uncancelled(db) /\ Calm(over, k, db, {})
          /\ \A w \in Week : weekCancelled(db, w) = FALSE
          /\ \A e \in Ids : db.entry[e] \in Row /\ ~db.entry[e].off
<1>1. Good(db) /\ Uncancelled(db) /\ Calm(over, k, db, {})
  BY InvIsGood DEF TieReady, TieRests, Calm
<1>2. \A w \in Week : weekCancelled(db, w) = FALSE
  BY <1>1 DEF Uncancelled, weekCancelled
<1> QED
  BY <1>1, <1>2, RowRead DEF TieReady, Uncancelled

\* A request of another kind, where nothing was done before, finds no visit and nobody set aside.
LEMMA PlainBegan ==
    ASSUME NEW r \in Requests, NEW k, TieReady(r, k), NEW d, NEW calls, NEW back, Opens(r, d, calls, back),
           calls # <<>>, calls[1].call \notin OfVisits, k => d.visit = db.visit,
           \A e \in Ids : d.entry[e].aside => db.entry[e].aside,
           PlainTied(over, k, d, calls)
    PROVE TieRound(over, k, db', job'[r].todo)
<1>1. db' = d /\ job'[r].todo = calls
  BY DEF Opens
<1>2. ASSUME k
      PROVE Apart(d, calls) /\ Bare(d, {})
  <2>1. db.visit.at # "on"
    BY <1>2, NoVisitNoHim DEF TieReady
  <2>2. d.visit.at # "on"
    BY <1>2, <2>1
  <2>3. HimRound(over, d, calls)
    BY <1>1, <1>2 DEF TieReady, HimBegan
  <2>4. ~HimComing(over, d, calls) /\ ~HimSaving(over, d, calls) /\ ~HimGoing(d, calls)
    BY <2>2 DEF HimComing, HimSaving, HimGoing, visitOfWeek
  <2>5. ~HimMoving(over, d, calls)
    <3> SUFFICES ASSUME HimMoving(over, d, calls) PROVE FALSE
      OBVIOUS
    <3>1. PICK v \in Visit, from \in Week, to \in Week :
            calls = <<Saves(v), On("template", to), MovesOn(from, to), On("applied", to)>>
      BY <2>2 DEF HimMoving, visitOfWeek
    <3>2. calls[1] = Saves(v)
      BY <3>1
    <3> QED
      BY <3>2 DEF Saves, OfVisits
  <2>6. Apart(d, calls)
    BY <2>3, <2>4, <2>5 DEF HimRound, Apart
  <2>7. Bare(db, {})
    BY <1>2, <2>1 DEF TieReady, TieRests
  <2>8. Bare(d, {})
    BY <2>7, ReadyIs, StillBare DEF TieReady
  <2> QED
    BY <2>6, <2>8
<1> QED
  BY <1>1, <1>2 DEF TieRound, Still

\* A row that stood nowhere is entered in a week nobody stands in.
LEMMA ToApplyRow ==
    ASSUME NEW k, Good(db), Calm(over, k, db, {}), NEW e \in Ids, NEW row \in Row, ~row.off, row.at = "live",
           db.entry[e].at # "live", NEW d, d.entry = Put(db, e, row).entry, d.line = db.line
    PROVE ToApply(over, k, d, e, row)
<1> DEFINE y == Put(db, e, row)
<1>1. /\ Uncancelled(y) /\ y.entry[e] = row
      /\ \A x \in Week : /\ TiedBut(over, y, x, e)
                         /\ ~(Standing(row) /\ x = row.week) => Agrees(over, k, y, x)
  BY SavedTies DEF Standing
<1>2. Rewrites(db, y, e, row)
  BY PutRewrites
<1> HIDE DEF y
<1>3. d.entry = y.entry /\ d.line = y.line
  BY <1>2 DEF y, Rewrites
<1>4. \A x : Live(d, x) = Live(y, x)
  BY <1>3 DEF Live
<1>5. /\ Uncancelled(d) /\ d.entry[e] = row
      /\ \A x \in Week : /\ TiedBut(over, d, x, e)
                         /\ ~(Standing(row) /\ x = row.week) => Agrees(over, k, d, x)
  BY <1>1, <1>3, <1>4 DEF Uncancelled, TiedBut, Agrees, Tied, Filled
<1>6. row.week \in Week
  BY DEF Row
<1> QED
  BY <1>5, <1>6 DEF ToApply, Calm, AllBut

LEMMA TieCreateBegan ==
    ASSUME NEW r \in Requests, NEW k, TieReady(r, k), CreateEntry(r)
    PROVE TieRound(over, k, db', job'[r].todo)
<1>1. PICK e \in Ids, row \in Row, ow \in BOOLEAN :
        /\ db.entry[e].at = "none"
        /\ row.at = "live" /\ ~row.aside /\ row.off = weekCancelled(db, row.week)
        /\ Opens(r, Put(db, e, row), <<Apply(e, row, ow)>>, NoBack)
  BY CreateOpens DEF TieReady, Creates
<1> DEFINE d == Put(db, e, row)
           t == <<Apply(e, row, ow)>>
<1>2. Rewrites(db, d, e, row)
  BY ReadyIs, PutRewrites
<1>3. ~row.off
  BY <1>1, ReadyIs DEF Row
<1>4. d.visit = db.visit /\ d.line = db.line /\ \A f \in Ids : d.entry[f].aside => db.entry[f].aside
  BY <1>1, <1>2 DEF Rewrites
<1>5. ToApply(over, k, d, e, row)
  BY <1>1, <1>3, <1>4, ReadyIs, ToApplyRow
<1>6. t # <<>> /\ t[1].call \notin OfVisits
  BY DEF OfVisits, Apply
<1>7. Opens(r, d, t, NoBack)
  BY <1>1
<1>8. PlainTied(over, k, d, t)
  BY <1>5 DEF PlainTied, JournalTied
<1> HIDE DEF d, t
<1> QED
  BY <1>4, <1>6, <1>7, <1>8, PlainBegan

LEMMA TieElsewhereBegan ==
    ASSUME NEW r \in Requests, NEW k, TieReady(r, k), moveSetAside(r)
    PROVE TieRound(over, k, db', job'[r].todo)
<1>1. PICK e \in Ids, row \in Row : \E d :
        /\ db.entry[e].at = "gone" /\ row.at = "live" /\ ~row.aside /\ row.off = weekCancelled(db, row.week)
        /\ Rewrites(db, Put(db, e, row), e, row) /\ d.entry = Put(db, e, row).entry /\ d.line = db.line
        /\ db.visit.at # "on" => d = Put(db, e, row)
        /\ Opens(r, d, <<Apply(e, row, FALSE)>>, NoBack)
  BY ElsewhereOpens DEF TieReady, Elsewhere
<1>2. PICK d :
        /\ db.entry[e].at = "gone" /\ row.at = "live" /\ ~row.aside /\ row.off = weekCancelled(db, row.week)
        /\ Rewrites(db, Put(db, e, row), e, row) /\ d.entry = Put(db, e, row).entry /\ d.line = db.line
        /\ db.visit.at # "on" => d = Put(db, e, row)
        /\ Opens(r, d, <<Apply(e, row, FALSE)>>, NoBack)
  BY <1>1
<1> DEFINE t == <<Apply(e, row, FALSE)>>
<1>3. ~row.off
  BY <1>2, ReadyIs DEF Row
<1>4. \A f \in Ids : d.entry[f].aside => db.entry[f].aside
  BY <1>2 DEF Rewrites
<1>5. ToApply(over, k, d, e, row)
  BY <1>2, <1>3, ReadyIs, ToApplyRow
<1>6. t # <<>> /\ t[1].call \notin OfVisits
  BY DEF OfVisits, Apply
<1>7. Opens(r, d, t, NoBack)
  BY <1>2
<1>8. PlainTied(over, k, d, t)
  BY <1>5 DEF PlainTied, JournalTied
<1>9. k => d.visit = db.visit
  BY <1>2, <1>7, NoVisitNoHim DEF TieReady, Rewrites
<1> HIDE DEF t
<1> QED
  BY <1>4, <1>6, <1>7, <1>8, <1>9, PlainBegan

LEMMA TieChangesBegan ==
    ASSUME NEW r \in Requests, NEW k, TieReady(r, k), ChangeSpeaker(r) \/ ShiftWeek(r) \/ Missed(r)
    PROVE TieRound(over, k, db', job'[r].todo)
<1>1. PICK e \in Ids, row \in Row, ow \in BOOLEAN :
        /\ db.entry[e].at = "live" /\ row.at = "live"
        /\ row.off = db.entry[e].off \/ row.off = weekCancelled(db, row.week)
        /\ row.held \/ row.week = db.entry[e].week
        /\ Opens(r, db, <<[call |-> "saveEntry", e |-> e, row |-> row, was |-> db.entry[e], ow |-> ow]>>, NoBack)
  BY ChangesOpen DEF TieReady, Changes
<1> DEFINE t == <<SavesRow(e, row, db.entry[e], ow)>>
<1>2. ~row.off
  BY <1>1, ReadyIs DEF Row
<1>3. ToSave(over, k, db, e, row, db.entry[e])
  BY <1>1, <1>2, ReadyIs DEF ToSave
<1>4. t # <<>> /\ t[1].call \notin OfVisits
  BY DEF OfVisits, SavesRow
<1>5. Opens(r, db, t, NoBack)
  BY <1>1 DEF SavesRow
<1>6. PlainTied(over, k, db, t)
  BY <1>3, ReadyIs DEF PlainTied, JournalTied
<1> HIDE DEF t
<1> QED
  BY <1>4, <1>5, <1>6, PlainBegan

LEMMA TieRemoveBegan ==
    ASSUME NEW r \in Requests, NEW k, TieReady(r, k), RemoveEntry(r)
    PROVE TieRound(over, k, db', job'[r].todo)
<1>1. PICK e \in Ids :
        /\ db.entry[e].at = "live"
        /\ Opens(r, db, <<[call |-> "clear", e |-> e, row |-> db.entry[e]], [call |-> "delete", e |-> e]>>, NoBack)
  BY RemoveOpens DEF TieReady, Removes
<1> DEFINE t == <<Clears(e, db.entry[e]), Deletes(e)>>
<1>2. ToClear(over, k, db, e, db.entry[e])
  BY <1>1, ReadyIs DEF ToClear
<1>3. t # <<>> /\ t[1].call \notin OfVisits
  BY DEF OfVisits, Clears
<1>4. Opens(r, db, t, NoBack)
  BY <1>1 DEF Clears, Deletes
<1>5. PlainTied(over, k, db, t)
  BY <1>2, ReadyIs DEF PlainTied, JournalTied
<1> HIDE DEF t
<1> QED
  BY <1>3, <1>4, <1>5, PlainBegan

LEMMA LineSet ==
    ASSUME NEW d, Good(d), NEW w \in Week, NEW l
    PROVE /\ Touches(d, SetLine(d, w, l), w) /\ SetLine(d, w, l).entry = d.entry /\ SetLine(d, w, l).line[w] = l
          /\ SetLine(d, w, l).visit = d.visit
          /\ Uncancelled(d) /\ l.at # "cancelled" => Uncancelled(SetLine(d, w, l))
BY LineWritten

LEMMA TieNewLineBegan ==
    ASSUME NEW r \in Requests, NEW k, TieReady(r, k), NewLine(r)
    PROVE TieRound(over, k, db', job'[r].todo)
<1>1. PICK w \in Week, l \in Line, x \in BOOLEAN :
        /\ l.at = "on" /\ (x <=> l.who # NoOne)
        /\ Opens(r, SetLine(db, w, l), <<On("fill", w), Sync(w, x), On("template", w), On("applied", w)>>, NoBack)
  BY LinesOpen DEF TieReady, BringsLine
<1> DEFINE d == SetLine(db, w, l)
           t == <<On("fill", w), Sync(w, x), On("template", w), On("applied", w)>>
<1>0. Good(db) /\ Uncancelled(db)
  BY ReadyIs
<1>2. /\ Touches(db, d, w) /\ d.entry = db.entry /\ d.line[w] = l /\ d.visit = db.visit /\ Uncancelled(d)
  <2>1. l.at # "cancelled"
    BY <1>1
  <2> QED
    BY <1>0, <2>1, LineSet
<1>3. Opens(r, d, t, NoBack)
  BY <1>1
<1>4. t # <<>> /\ t[1].call \notin OfVisits
  BY DEF OfVisits, On
<1> HIDE DEF d
<1>5. Calm(over, k, d, {w})
  BY <1>2, ReadyIs, CalmTo
<1>6. LineTied(over, k, d, t)
  BY <1>1, <1>2, <1>5 DEF LineTied
<1>7. PlainTied(over, k, d, t)
  BY <1>6 DEF PlainTied
<1> HIDE DEF t
<1> QED
  BY <1>2, <1>3, <1>4, <1>7, PlainBegan

LEMMA TieWriteLineBegan ==
    ASSUME NEW r \in Requests, NEW k, TieReady(r, k), EditLine(r) \/ CancelLine(r)
    PROVE TieRound(over, k, db', job'[r].todo)
<1>1. PICK w \in Week, l \in Line, x \in BOOLEAN :
        /\ l.removed = db.line[w].removed /\ l.link = db.line[w].link
        /\ x <=> l.who # db.line[w].who
        /\ \/ l.at = db.line[w].at /\ (l.who = NoOne => "line emptied" \in past')
           \/ "cancelled" \in past'
        /\ Opens(r, db, <<[call |-> "saveLine", w |-> w, l |-> l], Sync(w, x)>>, NoBack)
  BY LinesOpen DEF TieReady, WritesLine
<1> DEFINE t == <<SavesLine(w, l), Sync(w, x)>>
<1>2. l.at = db.line[w].at /\ (l.who = NoOne => "line emptied" \in past')
  BY <1>1 DEF TieReady
<1>3. l.at # "cancelled" /\ (k => l.who # NoOne)
  BY <1>2, ReadyIs DEF TieReady, Uncancelled
<1>4. ~x => l = db.line[w]
  <2>1. db.line[w] \in Line
    BY LineRead DEF TieReady
  <2>2. ~x => l.who = db.line[w].who
    BY <1>1
  <2>3. l.removed = db.line[w].removed /\ l.link = db.line[w].link
    BY <1>1
  <2> DEFINE old == db.line[w]
  <2> HIDE DEF old
  <2>4. old \in Line /\ (l.who = old.who /\ l.at = old.at /\ l.removed = old.removed /\ l.link = old.link => l = old)
    BY <2>1 DEF Line, old
  <2> QED
    BY <1>2, <2>2, <2>3, <2>4 DEF old
<1>5. ToSaveLine(over, k, db, w, l, x)
  BY <1>3, <1>4, ReadyIs DEF ToSaveLine
<1>6. Opens(r, db, t, NoBack)
  BY <1>1 DEF SavesLine
<1>7. t # <<>> /\ t[1].call \notin OfVisits
  BY DEF OfVisits, SavesLine
<1>8. LineTied(over, k, db, t)
  BY <1>5 DEF LineTied
<1>9. PlainTied(over, k, db, t)
  BY <1>8 DEF PlainTied
<1> HIDE DEF t
<1> QED
  BY <1>6, <1>7, <1>9, PlainBegan

LEMMA TieRemoveLineBegan ==
    ASSUME NEW r \in Requests, NEW k, TieReady(r, k), RemoveLine(r)
    PROVE TieRound(over, k, db', job'[r].todo)
<1>0. Good(db) /\ Uncancelled(db)
  BY ReadyIs
<1>1. PICK w \in Week, l \in Line :
        /\ l.removed /\ l.at = db.line[w].at
        /\ Opens(r, SetLine(db, w, l), <<Sync(w, TRUE)>>, NoBack)
  BY LinesOpen DEF TieReady, RemovesLine
<1> DEFINE d == SetLine(db, w, l)
           t == <<Sync(w, TRUE)>>
<1>2. /\ Touches(db, d, w) /\ d.entry = db.entry /\ d.line[w] = l /\ d.visit = db.visit /\ Uncancelled(d)
  <2>1. l.at # "cancelled"
    BY <1>1, ReadyIs DEF Uncancelled
  <2> QED
    BY <1>0, <2>1, LineSet
<1>3. Opens(r, d, t, NoBack)
  BY <1>1
<1>4. t # <<>> /\ t[1].call \notin OfVisits
  BY DEF OfVisits, Sync
<1> HIDE DEF d
<1>5. Calm(over, k, d, {w})
  BY <1>2, ReadyIs, CalmTo
<1>6. ToBring(over, k, d, w, TRUE)
  BY <1>1, <1>2, <1>5 DEF ToBring, Filled, Seen
<1>7. LineTied(over, k, d, t)
  BY <1>6 DEF LineTied
<1>8. PlainTied(over, k, d, t)
  BY <1>7 DEF PlainTied
<1> HIDE DEF t
<1> QED
  BY <1>2, <1>3, <1>4, <1>8, PlainBegan

LEMMA TieSwapBegan ==
    ASSUME NEW r \in Requests, NEW k, TieReady(r, k), SwapTalks(r)
    PROVE TieRound(over, k, db', job'[r].todo)
<1>1. PICK s \in Week, u \in Week, swap \in BOOLEAN, ns \in Line, nt \in Line :
        LET ls == db.line[s]
            lt == db.line[u]
            es == weekEntry(db, s)
            et == weekEntry(db, u)
            back == IF swap THEN et ELSE NoEntry
        IN  /\ s # u /\ Seen(ls) /\ Seen(lt) /\ programmeOpen(s) /\ programmeOpen(u)
            /\ ~visitOfWeek(db, s) /\ ~visitOfWeek(db, u) /\ (swap \/ et = NoEntry)
            /\ nt.at = lt.at /\ nt.removed = lt.removed /\ nt.who = ls.who /\ nt.link = ls.link
            /\ ns.at = ls.at /\ ns.removed = ls.removed
            /\ IF swap THEN ns.who = lt.who /\ ns.link = lt.link ELSE ns.who = NoOne /\ ns.link = NoEntry
            /\ Opens(r, SetLine(SetLine(db, u, nt), s, ns),
                     <<[call |-> "move", e |-> es, to |-> u, x |-> back, from |-> s], Sync(s, TRUE), Sync(u, TRUE)>>,
                     NoBack)
  BY SwapOpens DEF TieReady, Exchanges
<1> DEFINE ls == db.line[s]
           lt == db.line[u]
           es == weekEntry(db, s)
           et == weekEntry(db, u)
           back == IF swap THEN et ELSE NoEntry
           a == SetLine(db, u, nt)
           d == SetLine(a, s, ns)
           t == <<MovesRows(es, u, back, s), Sync(s, TRUE), Sync(u, TRUE)>>
<1>2. Opens(r, d, t, NoBack)
  BY <1>1 DEF MovesRows
<1>3. t # <<>> /\ t[1].call \notin OfVisits
  BY DEF OfVisits, MovesRows
<1>0. Good(db) /\ Uncancelled(db)
  BY ReadyIs
<1>4. nt.at # "cancelled" /\ ns.at # "cancelled"
  <2>1. nt.at = db.line[u].at /\ ns.at = db.line[s].at
    BY <1>1
  <2> QED
    BY <1>0, <2>1 DEF Uncancelled
<1>5. /\ Touches(db, a, u) /\ a.entry = db.entry /\ a.line[u] = nt /\ a.visit = db.visit /\ Uncancelled(a)
  <2>1. nt.at # "cancelled"
    BY <1>4
  <2> QED
    BY <1>0, <2>1, LineSet
<1>6. Good(a)
  BY ReadyIs, SetLineGood DEF Leads
<1>7. /\ Touches(a, d, s) /\ d.entry = a.entry /\ d.line[s] = ns /\ d.visit = a.visit /\ Uncancelled(d)
  <2> HIDE DEF a
  <2>1. Good(a) /\ Uncancelled(a) /\ ns.at # "cancelled"
    BY <1>4, <1>5, <1>6
  <2> QED
    BY <2>1, LineSet
<1>8. /\ es \in Ids \cup {NoEntry} /\ (es # NoEntry => es \in Live(db, s)) /\ (es = NoEntry => Live(db, s) = {})
      /\ et \in Ids \cup {NoEntry} /\ (et # NoEntry => et \in Live(db, u)) /\ (et = NoEntry => Live(db, u) = {})
      /\ (Live(db, s) = {} => es = NoEntry) /\ (Live(db, u) = {} => et = NoEntry)
  BY ReadyIs, OneLive
<1>9. \A x : Live(d, x) = Live(db, x)
  BY <1>5, <1>7 DEF Live
<1>10. d.line[u] = nt
  BY <1>1, <1>5, <1>7 DEF Touches
<1> HIDE DEF d, a
<1>11. Calm(over, k, a, {u})
  BY <1>5, ReadyIs, CalmTo
<1>12. Calm(over, k, d, {s, u})
  <2> DEFINE S == {u}
             T == {s, u}
  <2>1. Calm(over, k, a, S) /\ S \subseteq T \cup {s} /\ s \in T
    BY <1>11
  <2> HIDE DEF S, T
  <2>2. Calm(over, k, d, T)
    BY <1>7, <2>1, CalmOn
  <2> QED
    BY <2>2 DEF T
<1>13. /\ Live(db, s) = {} \/ ls.who # NoOne \/ ~k
       /\ Live(db, u) = {} \/ lt.who # NoOne \/ ~k
  BY <1>1, ReadyIs DEF Calm, AllBut, Agrees, Filled, programmeOpen
<1>14. k => (nt.who = NoOne => es = NoEntry) /\ (ns.who = NoOne => back = NoEntry)
  BY <1>1, <1>8, <1>13
<1>15. ToExchange(over, k, d, s, u, es, back)
  <2>1. s # u
    BY <1>1
  <2>2. IF es = NoEntry THEN Live(d, s) = {} ELSE es \in Live(d, s)
    BY <1>8, <1>9
  <2>3. IF back = NoEntry THEN Live(d, u) = {} ELSE back \in Live(d, u)
    BY <1>1, <1>8, <1>9
  <2> QED
    BY <1>7, <1>10, <1>12, <1>14, <2>1, <2>2, <2>3 DEF ToExchange
<1>16. back \in Ids \cup {NoEntry} /\ es \in Ids \cup {NoEntry}
  BY <1>8
<1> HIDE DEF es, back
<1>17. LineTied(over, k, d, t)
  BY <1>15, <1>16 DEF LineTied
<1>18. PlainTied(over, k, d, t)
  BY <1>17 DEF PlainTied
<1>19. d.visit = db.visit /\ \A e \in Ids : d.entry[e].aside => db.entry[e].aside
  BY <1>5, <1>7
<1> HIDE DEF t
<1> QED
  BY <1>2, <1>3, <1>18, <1>19, PlainBegan

LEMMA TieReplaceBegan ==
    ASSUME NEW r \in Requests, NEW k, TieReady(r, k), replaceSpeaker(r)
    PROVE TieRound(over, k, db', job'[r].todo)
<1>0. Calm(over, k, db, {}) /\ Uncancelled(db) /\ Good(db)
  BY ReadyIs
<1>1. PICK w \in Week, l \in Line :
        LET e == weekEntry(db, w)
            old == db.line[w]
            b == [call |-> "saveLine", w |-> w, l |-> l]
        IN  /\ l.at = old.at /\ l.who \in Guests
            /\ e = NoEntry => Opens(r, db, <<b, Sync(w, TRUE), On("adopt", w)>>, [w |-> w, lines |-> <<old>>, rows |-> <<>>])
            /\ e # NoEntry => \E row \in Row :
                 /\ row.week = db.entry[e].week /\ row.off = db.entry[e].off
                 /\ Opens(r, db, <<[call |-> "write", e |-> e, row |-> row], b, Sync(w, TRUE), On("adopt", w)>>,
                          [w |-> w, lines |-> <<old>>, rows |-> <<<<e, db.entry[e]>>>>])
  BY ReplaceOpens DEF TieReady, Replaces
<1> DEFINE e == weekEntry(db, w)
<1>2. l.at # "cancelled" /\ l.who # NoOne
  <2>1. l.at = db.line[w].at /\ l.who \in Guests
    BY <1>1
  <2> QED
    BY <1>0, <2>1, TalkConstants DEF Uncancelled
<1>3. Calm(over, k, db, {w})
  BY <1>0, CalmWider
<1>4. ToSaveSpeaker(over, k, db, w, l)
  BY <1>2, <1>3 DEF ToSaveSpeaker
<1>5. e # NoEntry => e \in Ids /\ db.entry[e].week = w
  BY <1>0, OneLive DEF Live
<1>6. CASE e = NoEntry
  <2> DEFINE t == <<SavesLine(w, l), Sync(w, TRUE), On("adopt", w)>>
             b == [w |-> w, lines |-> <<db.line[w]>>, rows |-> <<>>]
  <2>1. Opens(r, db, t, b)
    BY <1>1, <1>6 DEF SavesLine
  <2>2. t # <<>> /\ t[1].call \notin OfVisits
    BY DEF OfVisits, SavesLine
  <2>3. PlainTied(over, k, db, t)
    BY <1>4 DEF PlainTied, ReplaceTied
  <2> HIDE DEF t, b
  <2> QED
    BY <2>1, <2>2, <2>3, PlainBegan
<1>7. CASE e # NoEntry
  <2>1. PICK row \in Row :
          /\ row.week = db.entry[e].week /\ row.off = db.entry[e].off
          /\ Opens(r, db, <<[call |-> "write", e |-> e, row |-> row], [call |-> "saveLine", w |-> w, l |-> l], Sync(w, TRUE), On("adopt", w)>>,
                   [w |-> w, lines |-> <<db.line[w]>>, rows |-> <<<<e, db.entry[e]>>>>])
    BY <1>1, <1>7
  <2> DEFINE t == <<WritesRow(e, row), SavesLine(w, l), Sync(w, TRUE), On("adopt", w)>>
             b == [w |-> w, lines |-> <<db.line[w]>>, rows |-> <<<<e, db.entry[e]>>>>]
  <2>2. Opens(r, db, t, b)
    BY <2>1 DEF SavesLine, WritesRow
  <2>3. t # <<>> /\ t[1].call \notin OfVisits
    BY DEF OfVisits, WritesRow
  <2>4. row.week = w /\ ~row.off /\ e \in Ids /\ db.entry[e].week = w
    BY <1>0, <1>5, <1>7, <2>1 DEF Uncancelled
  <2> HIDE DEF e
  <2>5. PlainTied(over, k, db, t)
    BY <1>4, <2>4 DEF PlainTied, ReplaceTied
  <2> HIDE DEF t, b
  <2> QED
    BY <2>2, <2>3, <2>5, PlainBegan
<1> QED
  BY <1>6, <1>7

LEMMA TieUndoBegan ==
    ASSUME NEW r \in Requests, NEW k, TieReady(r, k), undoReplacement(r)
    PROVE TieRound(over, k, db', job'[r].todo)
<1>0. Calm(over, k, db, {}) /\ Uncancelled(db) /\ Good(db)
  BY ReadyIs
<1>1. PICK e \in Ids, row \in Row :
        LET was == db.entry[e]
            w == was.week
            x == weekEntry(db, w)
            one == [call |-> "write", e |-> e, row |-> row]
            two == [call |-> "name", w |-> w, e |-> e]
        IN  /\ row.at = "live" /\ row.held /\ row.week = w /\ row.off = was.off
            /\ x = NoEntry => Opens(r, db, <<one, two>>, [w |-> w, lines |-> <<>>, rows |-> <<<<e, was>>>>])
            /\ x # NoEntry => \E c :
                 /\ \/ c = [call |-> "delete", e |-> x]
                    \/ \E xr \in Row : c = [call |-> "write", e |-> x, row |-> xr] /\ xr.week = w /\ xr.off = db.entry[x].off
                 /\ Opens(r, db, <<c, one, two>>, [w |-> w, lines |-> <<>>, rows |-> <<<<e, was>>, <<x, db.entry[x]>>>>])
  BY UndoOpens DEF TieReady, Undoes
<1> DEFINE w == db.entry[e].week
           x == weekEntry(db, w)
           p == WritesRow(e, row)
           q == NamesLine(w, e)
<1>2. w \in Week
  BY RowRead DEF TieReady, Row
<1>3. row.at = "live" /\ row.held /\ row.week = w /\ ~row.off
  <2>1. row.at = "live" /\ row.held /\ row.week = w /\ row.off = db.entry[e].off
    BY <1>1
  <2> QED
    BY <1>0, <2>1 DEF Uncancelled
<1>4. Calm(over, k, db, {w})
  BY <1>0, CalmWider
<1>5. ToStandAgain(over, k, db, w, e, row)
  BY <1>3, <1>4 DEF ToStandAgain, Standing
<1>6. x # NoEntry => x \in Ids /\ db.entry[x].week = w
  BY <1>0, OneLive DEF Live
<1>7. CASE x = NoEntry
  <2> DEFINE t == <<p, q>>
             b == [w |-> w, lines |-> <<>>, rows |-> <<<<e, db.entry[e]>>>>]
  <2>1. Opens(r, db, t, b)
    BY <1>1, <1>7 DEF WritesRow, NamesLine
  <2>2. t # <<>> /\ t[1].call \notin OfVisits
    BY DEF OfVisits, WritesRow
  <2> HIDE DEF w
  <2>3. PlainTied(over, k, db, t)
    BY <1>2, <1>5 DEF PlainTied, UndoTied
  <2> HIDE DEF t, b
  <2> QED
    BY <2>1, <2>2, <2>3, PlainBegan
<1>8. CASE x # NoEntry
  <2>1. PICK c :
          /\ \/ c = [call |-> "delete", e |-> x]
             \/ \E xr \in Row : c = [call |-> "write", e |-> x, row |-> xr] /\ xr.week = w /\ xr.off = db.entry[x].off
          /\ Opens(r, db, <<c, p, q>>, [w |-> w, lines |-> <<>>, rows |-> <<<<e, db.entry[e]>>, <<x, db.entry[x]>>>>])
    BY <1>1, <1>8 DEF WritesRow, NamesLine
  <2> DEFINE t == <<c, p, q>>
             b == [w |-> w, lines |-> <<>>, rows |-> <<<<e, db.entry[e]>>, <<x, db.entry[x]>>>>]
  <2>2. Opens(r, db, t, b)
    BY <2>1
  <2>3. t # <<>> /\ t[1].call \notin OfVisits
    BY <2>1 DEF OfVisits
  <2>4. x \in Ids /\ db.entry[x].week = w /\ ~db.entry[x].off
    BY <1>0, <1>6, <1>8 DEF Uncancelled
  <2>5. c = Deletes(x) \/ \E xr \in Row : c = WritesRow(x, xr) /\ xr.week = w /\ ~xr.off
    BY <2>1, <2>4 DEF Deletes, WritesRow
  <2> HIDE DEF w, x
  <2>6. PlainTied(over, k, db, t)
    <3>1. CASE c = Deletes(x)
      <4>1. \E xr \in Row : TRUE
        OBVIOUS
      <4> QED
        BY <1>2, <1>5, <2>4, <3>1, <4>1 DEF PlainTied, UndoTied
    <3>2. CASE \E xr \in Row : c = WritesRow(x, xr) /\ xr.week = w /\ ~xr.off
      BY <1>2, <1>5, <2>4, <3>2 DEF PlainTied, UndoTied
    <3> QED
      BY <2>5, <3>1, <3>2
  <2> HIDE DEF t, b
  <2> QED
    BY <2>2, <2>3, <2>6, PlainBegan
<1> QED
  BY <1>7, <1>8

LEMMA TieComesBegan ==
    ASSUME NEW r \in Requests, NEW k, TieReady(r, k), NEW w \in Week, programmeOpen(w),
           db.visit.at # "on", NEW kind \in {"addVisit", "restoreVisit"}, NEW d,
           d.entry = db.entry, d.line = db.line, visitOfWeek(d, w), Forgotten(d.visit),
           Begin(r, kind, d, <<On("template", w), On("applied", w)>>)
    PROVE TieRound(over, k, db', job'[r].todo)
<1> DEFINE calls == <<On("template", w), On("applied", w)>>
<1>1. kind \in VisitKinds
  BY DEF VisitKinds
<1> HIDE DEF calls
<1>2. db' = d /\ job'[r].todo = calls
  BY <1>1, VisitBegins DEF calls, TieReady
<1>3. Calm(over, k, d, {})
  <2>1. Calm(over, k, db, {}) /\ Uncancelled(db)
    BY ReadyIs
  <2>2. \A x : Live(d, x) = Live(db, x)
    BY DEF Live
  <2> QED
    BY <2>1, <2>2 DEF Calm, Uncancelled, AllBut, Agrees, Tied, Filled
<1>4. k => NotYet(d, w)
  <2>1. k => d.line[w].who # Overseer
    BY DEF TieReady, HimReady, HimRests, NoHim, NoHimIn
  <2>2. k => Bare(d, {})
    BY DEF TieReady, TieRests, Bare, Marked
  <2> QED
    BY <2>1, <2>2 DEF NotYet
<1>5. TieComing(over, k, d, calls)
  BY <1>3, <1>4 DEF TieComing, programmeOpen, calls
<1> QED
  BY <1>2, <1>5 DEF TieRound

LEMMA TieStaysBegan ==
    ASSUME NEW r \in Requests, NEW k, TieReady(r, k), NEW kind \in {"saveVisit", "removeVisit", "moveVisit"}, NEW calls,
           Begin(r, kind, db, calls), TieSaving(over, k, db, calls) \/ TieGoing(over, k, db, calls) \/ TieMoving(over, k, db, calls)
    PROVE TieRound(over, k, db', job'[r].todo)
<1>1. kind \in VisitKinds
  BY DEF VisitKinds
<1>2. db' = db /\ job'[r].todo = calls
  BY <1>1, VisitBegins DEF TieReady
<1> QED
  BY <1>2 DEF TieRound

LEMMA TieVisitsBegan ==
    ASSUME NEW r \in Requests, NEW k, TieReady(r, k),
           AddVisit(r) \/ SaveVisit(r) \/ MoveVisit(r) \/ RemoveVisit(r) \/ RestoreVisit(r)
    PROVE TieRound(over, k, db', job'[r].todo)
<1>0. db \in Database /\ db.visit \in Visit /\ db.visit.week \in Week /\ Calm(over, k, db, {}) /\ VisitSound(db.visit)
  BY InvIsGood, VisitRead DEF TieReady, TieRests
<1>1. CASE AddVisit(r)
  <2>1. PICK w \in Week :
          /\ db.visit.at = "none" /\ programmeOpen(w)
          /\ Begin(r, "addVisit", [db EXCEPT !.visit = [at |-> "on", week |-> w, done |-> FALSE, prev |-> NoPrev]],
                   <<On("template", w), On("applied", w)>>)
    BY <1>1 DEF AddVisit
  <2> DEFINE v == [at |-> "on", week |-> w, done |-> FALSE, prev |-> NoPrev]
             d == [db EXCEPT !.visit = v]
  <2>2. d.entry = db.entry /\ d.line = db.line /\ d.visit = v
    BY <1>0 DEF Database
  <2>3. v.at = "on" /\ v.week = w /\ Forgotten(v)
    BY DEF Forgotten
  <2> HIDE DEF d, v
  <2> QED
    BY <2>1, <2>2, <2>3, TieComesBegan DEF visitOfWeek, d, v
<1>2. CASE RestoreVisit(r)
  <2> DEFINE w == db.visit.week
             d == [db EXCEPT !.visit.at = "on"]
  <2>1. /\ db.visit.at = "gone" /\ programmeOpen(w)
        /\ Begin(r, "restoreVisit", d, <<On("template", w), On("applied", w)>>)
    BY <1>2 DEF RestoreVisit
  <2>2. d.entry = db.entry /\ d.line = db.line /\ d.visit = [db.visit EXCEPT !.at = "on"]
    BY <1>0 DEF Database
  <2>3. visitOfWeek(d, w) /\ Forgotten(d.visit)
    BY <1>0, <2>1, <2>2 DEF Visit, visitOfWeek, VisitSound, Forgotten
  <2> HIDE DEF d
  <2> QED
    BY <1>0, <2>1, <2>2, <2>3, TieComesBegan
<1>a. ASSUME db.visit.at = "on", programmeOpen(db.visit.week)
      PROVE LET w == db.visit.week IN
            visitOfWeek(db, w) /\ w > over /\ (k => VisitGuest(db, w))
  BY <1>a DEF TieReady, TieRests, visitOfWeek, programmeOpen
<1>3. CASE SaveVisit(r)
  <2> DEFINE w == db.visit.week
             calls == <<Saves(db.visit), On("template", w), On("speaker", w), On("applied", w)>>
  <2>1. db.visit.at = "on" /\ programmeOpen(w) /\ Begin(r, "saveVisit", db, calls)
    BY <1>3 DEF SaveVisit, Saves
  <2>2. TieSaving(over, k, db, calls)
    BY <1>0, <1>a, <2>1 DEF TieSaving
  <2> HIDE DEF calls
  <2> QED
    BY <2>1, <2>2, TieStaysBegan
<1>4. CASE RemoveVisit(r)
  <2> DEFINE w == db.visit.week
             calls == <<Reverts(db.visit), On("visitRemoved", w), Deleted>>
  <2>1. db.visit.at = "on" /\ programmeOpen(w) /\ Begin(r, "removeVisit", db, calls)
    BY <1>4 DEF RemoveVisit, Reverts, Deleted
  <2>2. TieGoing(over, k, db, calls)
    BY <1>0, <1>a, <2>1 DEF TieGoing
  <2> HIDE DEF calls
  <2> QED
    BY <2>1, <2>2, TieStaysBegan
<1>5. CASE MoveVisit(r)
  <2> DEFINE v == db.visit
             from == v.week
  <2>1. PICK to \in Week :
          /\ v.at = "on" /\ from # to /\ programmeOpen(from) /\ programmeOpen(to)
          /\ Begin(r, "moveVisit", db,
                  <<[call |-> "revert", v |-> v],
                    [call |-> "saveVisit", v |-> [v EXCEPT !.week = to, !.done = FALSE, !.prev = NoPrev]],
                    On("template", to), [call |-> "visitMoved", from |-> from, to |-> to],
                    On("applied", to)>>)
    BY <1>5 DEF MoveVisit
  <2> DEFINE nv == [v EXCEPT !.week = to, !.done = FALSE, !.prev = NoPrev]
             calls == <<Reverts(v), Saves(nv), On("template", to), MovesOn(from, to), On("applied", to)>>
  <2>2. Begin(r, "moveVisit", db, calls)
    BY <2>1 DEF Reverts, Saves, MovesOn
  <2>3. nv \in Visit /\ nv.at = "on" /\ nv.week = to /\ Forgotten(nv)
    BY <1>0, <2>1 DEF Visit, Forgotten
  <2> HIDE DEF nv
  <2>5. k => db.line[to].who # Overseer
    BY <2>1 DEF TieReady, HimReady, HimRests, NoHimBut, NoHimIn
  <2>4. TieMoving(over, k, db, calls)
    BY <1>0, <1>a, <2>1, <2>3, <2>5 DEF TieMoving, programmeOpen
  <2> HIDE DEF calls
  <2> QED
    BY <2>2, <2>4, TieStaysBegan
<1> QED
  BY <1>1, <1>2, <1>3, <1>4, <1>5

LEMMA TieAllBegan ==
    ASSUME NEW r \in Requests, NEW k, TieReady(r, k), Begins(r), ~RestoreLine(r)
    PROVE TieRound(over, k, db', job'[r].todo)
<1>1. CASE CreateEntry(r)
  BY <1>1, TieCreateBegan
<1>2. CASE ChangeSpeaker(r) \/ ShiftWeek(r) \/ Missed(r)
  BY <1>2, TieChangesBegan
<1>3. CASE RemoveEntry(r)
  BY <1>3, TieRemoveBegan
<1>4. CASE moveSetAside(r)
  BY <1>4, TieElsewhereBegan
<1>5. CASE NewLine(r)
  BY <1>5, TieNewLineBegan
<1>6. CASE EditLine(r) \/ CancelLine(r)
  BY <1>6, TieWriteLineBegan
<1>7. CASE RemoveLine(r)
  BY <1>7, TieRemoveLineBegan
<1>8. CASE SwapTalks(r)
  BY <1>8, TieSwapBegan
<1>9. CASE replaceSpeaker(r)
  BY <1>9, TieReplaceBegan
<1>10. CASE undoReplacement(r)
  BY <1>10, TieUndoBegan
<1>11. CASE AddVisit(r) \/ SaveVisit(r) \/ MoveVisit(r) \/ RemoveVisit(r) \/ RestoreVisit(r)
  BY <1>11, TieVisitsBegan
<1> QED
  BY <1>1, <1>2, <1>3, <1>4, <1>5, <1>6, <1>7, <1>8, <1>9, <1>10, <1>11 DEF Begins

----------------------------------------------------------------------------
(* A replacement, or its undoing, until its last call: it keeps to its week, *)
(* and what it read tied the week's line to the week's entry.                *)

LastCall(t) == t[Len(t)]
EndsTheirs(t) == LastCall(t).call \in {"adopt", "name"}

LEMMA ListEnds ==
    \A a, b, c, e, f : /\ LET t == <<a>> IN LastCall(t) = a
                       /\ LET t == <<a, b>> IN LastCall(t) = b
                       /\ LET t == <<a, b, c>> IN LastCall(t) = c
                       /\ LET t == <<a, b, c, e>> IN LastCall(t) = e
                       /\ LET t == <<a, b, c, e, f>> IN LastCall(t) = f
BY DEF LastCall

LEMMA JournalEnds ==
    ASSUME NEW o, NEW k, NEW d, NEW t, JournalTied(o, k, d, t)
    PROVE ~EndsTheirs(t)
<1>1. ASSUME NEW e, NEW row, NEW ow, t = <<Apply(e, row, ow)>>
      PROVE ~EndsTheirs(t)
  <2>1. LastCall(t) = Apply(e, row, ow)
    BY <1>1, ListEnds
  <2> QED
    BY <2>1 DEF EndsTheirs, Apply
<1>2. ASSUME NEW e, NEW row, NEW was, NEW ow, t = <<SavesRow(e, row, was, ow)>>
      PROVE ~EndsTheirs(t)
  <2>1. LastCall(t) = SavesRow(e, row, was, ow)
    BY <1>2, ListEnds
  <2> QED
    BY <2>1 DEF EndsTheirs, SavesRow
<1>3. ASSUME NEW e, NEW row, NEW ow, NEW w, t = <<Releases(w, e), Apply(e, row, ow)>>
      PROVE ~EndsTheirs(t)
  <2>1. LastCall(t) = Apply(e, row, ow)
    BY <1>3, ListEnds
  <2> QED
    BY <2>1 DEF EndsTheirs, Apply
<1>4. ASSUME NEW e, NEW row, t = <<Clears(e, row), Deletes(e)>>
      PROVE ~EndsTheirs(t)
  <2>1. LastCall(t) = Deletes(e)
    BY <1>4, ListEnds
  <2> QED
    BY <2>1 DEF EndsTheirs, Deletes
<1>5. ASSUME NEW e, t = <<Deletes(e)>>
      PROVE ~EndsTheirs(t)
  <2>1. LastCall(t) = Deletes(e)
    BY <1>5, ListEnds
  <2> QED
    BY <2>1 DEF EndsTheirs, Deletes
<1> QED
  BY <1>1, <1>2, <1>3, <1>4, <1>5 DEF JournalTied

LEMMA AppliedAtEnd ==
    ASSUME NEW w, NEW t, LastCall(t) = On("applied", w)
    PROVE ~EndsTheirs(t)
BY DEF EndsTheirs, On

LEMMA SyncAtEnd ==
    ASSUME NEW w, NEW x, NEW t, LastCall(t) = Sync(w, x)
    PROVE ~EndsTheirs(t)
BY DEF EndsTheirs, Sync

LEMMA LineEnds ==
    ASSUME NEW o, NEW k, NEW d, NEW t, LineTied(o, k, d, t)
    PROVE ~EndsTheirs(t)
<1>1. ASSUME NEW w, NEW x, t = <<On("fill", w), Sync(w, x), On("template", w), On("applied", w)>>
      PROVE ~EndsTheirs(t)
  <2>1. LastCall(t) = On("applied", w)
    BY <1>1, ListEnds
  <2> QED
    BY <2>1, AppliedAtEnd
<1>2. ASSUME NEW w, NEW x, t = <<Sync(w, x), On("template", w), On("applied", w)>>
      PROVE ~EndsTheirs(t)
  <2>1. LastCall(t) = On("applied", w)
    BY <1>2, ListEnds
  <2> QED
    BY <2>1, AppliedAtEnd
<1>3. ASSUME NEW w, t = <<On("template", w), On("applied", w)>>
      PROVE ~EndsTheirs(t)
  <2>1. LastCall(t) = On("applied", w)
    BY <1>3, ListEnds
  <2> QED
    BY <2>1, AppliedAtEnd
<1>4. ASSUME NEW w, t = <<On("applied", w)>>
      PROVE ~EndsTheirs(t)
  <2>1. LastCall(t) = On("applied", w)
    BY <1>4, ListEnds
  <2> QED
    BY <2>1, AppliedAtEnd
<1>5. ASSUME NEW w, NEW l, NEW x, t = <<SavesLine(w, l), Sync(w, x)>>
      PROVE ~EndsTheirs(t)
  <2>1. LastCall(t) = Sync(w, x)
    BY <1>5, ListEnds
  <2> QED
    BY <2>1, SyncAtEnd
<1>6. ASSUME NEW w, NEW x, t = <<Sync(w, x)>>
      PROVE ~EndsTheirs(t)
  <2>1. LastCall(t) = Sync(w, x)
    BY <1>6, ListEnds
  <2> QED
    BY <2>1, SyncAtEnd
<1>7. ASSUME NEW s, NEW u, NEW e, NEW x, t = <<MovesRows(e, u, x, s), Sync(s, TRUE), Sync(u, TRUE)>>
      PROVE ~EndsTheirs(t)
  <2> DEFINE p == MovesRows(e, u, x, s)
             q == Sync(s, TRUE)
             y == Sync(u, TRUE)
  <2>2. t = <<p, q, y>>
    BY <1>7
  <2> HIDE DEF p, q, y
  <2>3. LastCall(t) = y
    BY <2>2, ListEnds
  <2>1. LastCall(t) = Sync(u, TRUE)
    BY <2>3 DEF y
  <2> QED
    BY <2>1, SyncAtEnd
<1>8. ASSUME NEW s, NEW u, t = <<Sync(s, TRUE), Sync(u, TRUE)>>
      PROVE ~EndsTheirs(t)
  <2>1. LastCall(t) = Sync(u, TRUE)
    BY <1>8, ListEnds
  <2> QED
    BY <2>1, SyncAtEnd
<1> QED
  BY <1>1, <1>2, <1>3, <1>4, <1>5, <1>6, <1>7, <1>8 DEF LineTied

LEMMA VisitEnds ==
    ASSUME NEW o, NEW k, NEW d, NEW t,
           TieComing(o, k, d, t) \/ TieSaving(o, k, d, t) \/ TieGoing(o, k, d, t) \/ TieMoving(o, k, d, t)
    PROVE ~EndsTheirs(t)
<1>1. ASSUME NEW w, t = <<On("template", w), On("applied", w)>>
      PROVE ~EndsTheirs(t)
  <2>1. LastCall(t) = On("applied", w)
    BY <1>1, ListEnds
  <2> QED
    BY <2>1, AppliedAtEnd
<1>2. ASSUME NEW w, t = <<On("applied", w)>>
      PROVE ~EndsTheirs(t)
  <2>1. LastCall(t) = On("applied", w)
    BY <1>2, ListEnds
  <2> QED
    BY <2>1, AppliedAtEnd
<1>3. ASSUME NEW w, NEW v, t = <<Saves(v), On("template", w), On("speaker", w), On("applied", w)>>
      PROVE ~EndsTheirs(t)
  <2>1. LastCall(t) = On("applied", w)
    BY <1>3, ListEnds
  <2> QED
    BY <2>1, AppliedAtEnd
<1>4. ASSUME NEW w, t = <<On("template", w), On("speaker", w), On("applied", w)>>
      PROVE ~EndsTheirs(t)
  <2>1. LastCall(t) = On("applied", w)
    BY <1>4, ListEnds
  <2> QED
    BY <2>1, AppliedAtEnd
<1>5. ASSUME NEW w, t = <<On("speaker", w), On("applied", w)>>
      PROVE ~EndsTheirs(t)
  <2>1. LastCall(t) = On("applied", w)
    BY <1>5, ListEnds
  <2> QED
    BY <2>1, AppliedAtEnd
<1>6. ASSUME NEW v, NEW u, NEW to, NEW from, t = <<Reverts(u), Saves(v), On("template", to), MovesOn(from, to), On("applied", to)>>
      PROVE ~EndsTheirs(t)
  <2>1. LastCall(t) = On("applied", to)
    BY <1>6, ListEnds
  <2> QED
    BY <2>1, AppliedAtEnd
<1>7. ASSUME NEW v, NEW to, NEW from, t = <<Saves(v), On("template", to), MovesOn(from, to), On("applied", to)>>
      PROVE ~EndsTheirs(t)
  <2>1. LastCall(t) = On("applied", to)
    BY <1>7, ListEnds
  <2> QED
    BY <2>1, AppliedAtEnd
<1>8. ASSUME NEW to, NEW from, t = <<On("template", to), MovesOn(from, to), On("applied", to)>>
      PROVE ~EndsTheirs(t)
  <2>1. LastCall(t) = On("applied", to)
    BY <1>8, ListEnds
  <2> QED
    BY <2>1, AppliedAtEnd
<1>9. ASSUME NEW to, NEW from, t = <<MovesOn(from, to), On("applied", to)>>
      PROVE ~EndsTheirs(t)
  <2>1. LastCall(t) = On("applied", to)
    BY <1>9, ListEnds
  <2> QED
    BY <2>1, AppliedAtEnd
<1>10. CASE LastCall(t) = Deleted
  BY <1>10 DEF EndsTheirs, Deleted
<1>11. ASSUME NEW w, NEW v, t = <<Reverts(v), On("visitRemoved", w), Deleted>> \/ t = <<On("visitRemoved", w), Deleted>> \/ t = <<Deleted>>
       PROVE ~EndsTheirs(t)
  <2>1. LastCall(t) = Deleted
    BY <1>11, ListEnds
  <2> QED
    BY <2>1, <1>10
<1>12. TieComing(o, k, d, t) => ~EndsTheirs(t)
  BY <1>1, <1>2 DEF TieComing
<1>13. TieSaving(o, k, d, t) => ~EndsTheirs(t)
  BY <1>3, <1>4, <1>5 DEF TieSaving
<1>14. TieGoing(o, k, d, t) => ~EndsTheirs(t)
  BY <1>11 DEF TieGoing
<1>15. TieMoving(o, k, d, t) => ~EndsTheirs(t)
  BY <1>6, <1>7, <1>8, <1>9 DEF TieMoving
<1> QED
  BY <1>12, <1>13, <1>14, <1>15

\* A call of theirs is about their week alone.
TheirCall(c, d, w) ==
    \/ c.call = "write" /\ c.e \in Ids /\ d.entry[c.e].week = w /\ c.row.week = w
    \/ c.call = "delete" /\ c.e \in Ids /\ d.entry[c.e].week = w
    \/ c.call \in {"saveLine", "name", "adopt"} /\ c.w = w
    \/ c = Sync(w, TRUE)
TheirEnd(t, b) == t[Len(t)] = IF b.lines = <<>> THEN NamesLine(b.w, b.rows[1][1]) ELSE On("adopt", b.w)

LEMMA TheirCalls ==
    ASSUME NEW d, NEW w, NEW e, NEW row, NEW l
    PROVE /\ e \in Ids /\ d.entry[e].week = w =>
               TheirCall(Deletes(e), d, w) /\ (row.week = w => TheirCall(WritesRow(e, row), d, w))
          /\ TheirCall(SavesLine(w, l), d, w) /\ TheirCall(NamesLine(w, e), d, w) /\ TheirCall(On("adopt", w), d, w)
          /\ TheirCall(Sync(w, TRUE), d, w)
          /\ WritesRow(e, row).call = "write" /\ Deletes(e).call = "delete" /\ NamesLine(w, e).call = "name"
BY DEF TheirCall, WritesRow, Deletes, SavesLine, NamesLine, On

LEMMA TheirDeletes ==
    ASSUME NEW d, NEW e \in Ids
    PROVE TheirCall(Deletes(e), d, d.entry[e].week) /\ Deletes(e).call = "delete"
BY DEF TheirCall, Deletes

LEMMA TheirList ==
    ASSUME NEW o, NEW k, NEW d, NEW t, TieRound(o, k, d, t), NEW b, TheirEnd(t, b)
    PROVE /\ Still(k, d, t) /\ Calm(o, k, d, {b.w}) /\ TheirCall(t[1], d, b.w)
          /\ b.lines = <<>> => t[1].call \in {"write", "delete"} \/ Tail(t) = <<>>
<1> DEFINE v == b.w
<1>1. EndsTheirs(t)
  BY DEF TheirEnd, EndsTheirs, LastCall, On, NamesLine
<1>2. Still(k, d, t) /\ (ReplaceTied(o, k, d, t) \/ UndoTied(o, k, d, t))
  BY <1>1, JournalEnds, LineEnds, VisitEnds DEF TieRound, PlainTied
<1>3. ASSUME NEW w, t[Len(t)] = On("adopt", w)
      PROVE w = v /\ b.lines # <<>>
  BY <1>3 DEF TheirEnd, On, NamesLine
<1>4. ASSUME NEW w, NEW e, t[Len(t)] = NamesLine(w, e)
      PROVE w = v
  BY <1>4 DEF TheirEnd, On, NamesLine
<1> HIDE DEF v
<1>5. CASE ReplaceTied(o, k, d, t)
  <2>1. CASE \E w \in Week, e \in Ids, row \in Row, l \in Line :
               /\ t = <<WritesRow(e, row), SavesLine(w, l), Sync(w, TRUE), On("adopt", w)>>
               /\ ToSaveSpeaker(o, k, d, w, l) /\ d.entry[e].week = w /\ row.week = w /\ ~row.off
    <3>1. PICK w \in Week, e \in Ids, row \in Row, l \in Line :
               /\ t = <<WritesRow(e, row), SavesLine(w, l), Sync(w, TRUE), On("adopt", w)>>
               /\ ToSaveSpeaker(o, k, d, w, l) /\ d.entry[e].week = w /\ row.week = w /\ ~row.off
      BY <2>1
    <3>2. t[Len(t)] = On("adopt", w) /\ t[1] = WritesRow(e, row)
      BY <3>1
    <3> QED
      BY <1>2, <1>3, <3>1, <3>2, TheirCalls DEF ToSaveSpeaker, v
  <2>2. CASE \E w \in Week, l \in Line :
               t = <<SavesLine(w, l), Sync(w, TRUE), On("adopt", w)>> /\ ToSaveSpeaker(o, k, d, w, l)
    <3>1. PICK w \in Week, l \in Line :
               t = <<SavesLine(w, l), Sync(w, TRUE), On("adopt", w)>> /\ ToSaveSpeaker(o, k, d, w, l)
      BY <2>2
    <3>2. t[Len(t)] = On("adopt", w) /\ t[1] = SavesLine(w, l)
      BY <3>1
    <3> QED
      BY <1>2, <1>3, <3>1, <3>2, TheirCalls DEF ToSaveSpeaker, v
  <2>3. CASE \E w \in Week : t = <<Sync(w, TRUE), On("adopt", w)>> /\ Calm(o, k, d, {w}) /\ d.line[w].who # NoOne
    <3>1. PICK w \in Week : t = <<Sync(w, TRUE), On("adopt", w)>> /\ Calm(o, k, d, {w})
      BY <2>3
    <3>2. t[Len(t)] = On("adopt", w) /\ t[1] = Sync(w, TRUE)
      BY <3>1
    <3> QED
      BY <1>2, <1>3, <3>1, <3>2, TheirCalls DEF v
  <2>4. CASE \E w \in Week : t = <<On("adopt", w)>> /\ Calm(o, k, d, {})
    <3>1. PICK w \in Week : t = <<On("adopt", w)>> /\ Calm(o, k, d, {})
      BY <2>4
    <3>2. t[Len(t)] = On("adopt", w) /\ t[1] = On("adopt", w)
      BY <3>1
    <3>3. Calm(o, k, d, {w})
      BY <3>1, CalmWider
    <3> QED
      BY <1>2, <1>3, <3>2, <3>3, TheirCalls DEF v
  <2> QED
    BY <1>5, <2>1, <2>2, <2>3, <2>4 DEF ReplaceTied
<1>6. CASE UndoTied(o, k, d, t)
  <2>1. CASE \E w \in Week, x \in Ids, xr \in Row, e \in Ids, row \in Row :
               /\ \/ t = <<Deletes(x), WritesRow(e, row), NamesLine(w, e)>>
                  \/ t = <<WritesRow(x, xr), WritesRow(e, row), NamesLine(w, e)>> /\ xr.week = w /\ ~xr.off
               /\ ToStandAgain(o, k, d, w, e, row) /\ d.entry[x].week = w
    <3>1. PICK w \in Week, x \in Ids, xr \in Row, e \in Ids, row \in Row :
               /\ \/ t = <<Deletes(x), WritesRow(e, row), NamesLine(w, e)>>
                  \/ t = <<WritesRow(x, xr), WritesRow(e, row), NamesLine(w, e)>> /\ xr.week = w /\ ~xr.off
               /\ ToStandAgain(o, k, d, w, e, row) /\ d.entry[x].week = w
      BY <2>1
    <3>2. t[Len(t)] = NamesLine(w, e) /\ Len(t) = 3
      <4> DEFINE p == WritesRow(e, row)
                 q == NamesLine(w, e)
                 c1 == Deletes(x)
                 c2 == WritesRow(x, xr)
      <4>1. t = <<c1, p, q>> \/ t = <<c2, p, q>>
        BY <3>1
      <4> HIDE DEF p, q, c1, c2
      <4>2. t[Len(t)] = q /\ Len(t) = 3
        BY <4>1
      <4> QED
        BY <4>2 DEF q
    <3>3. CASE t = <<Deletes(x), WritesRow(e, row), NamesLine(w, e)>>
      <4>1. t[1] = Deletes(x)
        BY <3>3
      <4>2. TheirCall(t[1], d, b.w) /\ t[1].call = "delete"
        BY <1>4, <3>1, <3>2, <4>1, TheirDeletes DEF v
      <4> QED
        BY <1>2, <1>4, <3>1, <3>2, <4>2 DEF ToStandAgain, v
    <3>4. CASE t = <<WritesRow(x, xr), WritesRow(e, row), NamesLine(w, e)>> /\ xr.week = w
      <4>1. t[1] = WritesRow(x, xr)
        BY <3>4
      <4> QED
        BY <1>2, <1>4, <3>1, <3>2, <3>4, <4>1, TheirCalls DEF ToStandAgain, v
    <3> QED
      BY <3>1, <3>3, <3>4
  <2>2. CASE \E w \in Week, e \in Ids, row \in Row :
               t = <<WritesRow(e, row), NamesLine(w, e)>> /\ ToStandAgain(o, k, d, w, e, row)
    <3>1. PICK w \in Week, e \in Ids, row \in Row :
               t = <<WritesRow(e, row), NamesLine(w, e)>> /\ ToStandAgain(o, k, d, w, e, row)
      BY <2>2
    <3>2. t[Len(t)] = NamesLine(w, e) /\ t[1] = WritesRow(e, row)
      BY <3>1
    <3> QED
      BY <1>2, <1>4, <3>1, <3>2, TheirCalls DEF ToStandAgain, v
  <2>3. CASE \E w \in Week, e \in Ids : t = <<NamesLine(w, e)>> /\ Calm(o, k, d, {w}) /\ e \in Live(d, w)
    <3>1. PICK w \in Week, e \in Ids : t = <<NamesLine(w, e)>> /\ Calm(o, k, d, {w})
      BY <2>3
    <3>2. t[Len(t)] = NamesLine(w, e) /\ t[1] = NamesLine(w, e) /\ Tail(t) = <<>>
      BY <3>1
    <3> QED
      BY <1>2, <1>4, <3>1, <3>2, TheirCalls DEF v
  <2> QED
    BY <1>6, <2>1, <2>2, <2>3 DEF UndoTied
<1> QED
  BY <1>2, <1>5, <1>6

LEMMA TheirStep ==
    ASSUME TalkInv, NEW r \in Requests, Steps(r), NEW w \in Week, TheirCall(Args(r), db, w)
    PROVE /\ Touches(db, db', w) /\ job'[r].todo = Rest(r)
          /\ Args(r).call \in {"write", "delete"} => db'.line = db.line
<1> DEFINE c == Args(r)
<1>0. Good(db) /\ db \in Database
  BY InvIsGood
<1>1. CASE c.call = "write" /\ c.e \in Ids /\ db.entry[c.e].week = w /\ c.row.week = w
  <2>1. db' = Put(db, c.e, c.row) /\ job'[r].todo = Rest(r)
    BY <1>1, JournalCallsRun
  <2> HIDE DEF c
  <2>2. Rewrites(db, db', c.e, c.row)
    BY <1>0, <1>1, <2>1, PutRewrites
  <2>3. OfWeek(db.entry[c.e], w) /\ OfWeek(c.row, w)
    BY <1>1 DEF OfWeek
  <2>4. Touches(db, db', w)
    BY <1>1, <2>2, <2>3, RewritingTouches
  <2> QED
    BY <2>1, <2>2, <2>4 DEF Rewrites
<1>2. CASE c.call = "delete" /\ c.e \in Ids /\ db.entry[c.e].week = w
  <2> DEFINE g == [db.entry[c.e] EXCEPT !.at = "gone"]
  <2>1. db' = softDelete(db, c.e) /\ job'[r].todo = Rest(r)
    BY <1>2, JournalCallsRun
  <2>2. g.week = db.entry[c.e].week
    BY <1>0, <1>2 DEF Database, Row
  <2> HIDE DEF c
  <2>3. Rewrites(db, db', c.e, g)
    BY <1>0, <1>2, <2>1, DeletingRewrites
  <2>4. OfWeek(db.entry[c.e], w) /\ OfWeek(g, w)
    BY <1>2, <2>2 DEF OfWeek
  <2> HIDE DEF g
  <2>5. Touches(db, db', w)
    BY <1>2, <2>3, <2>4, RewritingTouches
  <2> QED
    BY <2>1, <2>3, <2>5 DEF Rewrites
<1>3. CASE c.call = "saveLine" /\ c.w = w
  <2>1. db' = SetLine(db, w, c.l) /\ job'[r].todo = Rest(r)
    BY <1>3, LineCallsRun
  <2>2. Touches(db, SetLine(db, w, c.l), w)
    BY <1>0, LineSet
  <2> QED
    BY <1>3, <2>1, <2>2
<1>4. CASE c.call = "name" /\ c.w = w
  <2> DEFINE l == [db.line[w] EXCEPT !.who = db.entry[c.e].who, !.link = c.e]
  <2>1. db' = (IF Seen(db.line[w]) THEN SetLine(db, w, l) ELSE db) /\ job'[r].todo = Rest(r)
    BY <1>4, LineCallsRun
  <2> HIDE DEF l
  <2>2. Touches(db, SetLine(db, w, l), w)
    BY <1>0, LineSet
  <2>3. Touches(db, db, w)
    BY TouchesNothing
  <2> QED
    BY <1>4, <2>1, <2>2, <2>3
<1>5. CASE c.call = "adopt" /\ c.w = w
  <2> DEFINE e == weekEntry(db, w)
             h == [db.entry[e] EXCEPT !.hand = "own"]
             y == [db EXCEPT !.entry[e].hand = "own"]
  <2>1. db' = (IF e # NoEntry /\ db.entry[e].hand = "app" THEN y ELSE db) /\ job'[r].todo = Rest(r)
    BY <1>5, JournalCallsRun
  <2>2. Touches(db, db, w)
    BY TouchesNothing
  <2>3. CASE e # NoEntry
    <3>1. e \in Ids /\ db.entry[e] \in Row /\ db.entry[e].week = w
      BY <1>0, <2>3, WeekEntryIs DEF Database
    <3>2. y = [db EXCEPT !.entry[e] = h]
      OBVIOUS
    <3>3. h.week = w
      BY <3>1 DEF Row
    <3> HIDE DEF h
    <3>4. OfWeek(db.entry[e], w) /\ OfWeek(h, w)
      BY <3>1, <3>3 DEF OfWeek
    <3> HIDE DEF e
    <3>5. Rewrites(db, y, e, h)
      BY <1>0, <3>1, <3>2, ChangingRewrites
    <3> HIDE DEF y
    <3>6. Touches(db, y, w)
      BY <3>1, <3>4, <3>5, RewritingTouches
    <3> QED
      BY <1>5, <2>1, <2>2, <3>6
  <2> QED
    BY <1>5, <2>1, <2>2, <2>3
<1>6. CASE c = Sync(w, TRUE)
  <2>1. job'[r].todo = Rest(r) /\ Room(db) /\ db' = syncProgramToJournal(db, w, TRUE, FALSE)
    BY <1>6, SyncIsCall
  <2>2. c.call = "sync"
    BY <1>6 DEF Sync
  <2>3. Touches(db, db', w)
    BY <1>0, <2>1, SyncTouches
  <2> QED
    BY <2>1, <2>2, <2>3
<1> QED
  BY <1>1, <1>2, <1>3, <1>4, <1>5, <1>6 DEF TheirCall

----------------------------------------------------------------------------
(* What a replacement, or its undoing, puts back when it fails: the week as  *)
(* it was read, when line and entry agreed.                                  *)

\* The line as it is put back.
LineBack(d, b) == IF b.lines = <<>> THEN d.line[b.w] ELSE b.lines[1]
RowsBack(d, b) == \A i \in 1..Len(b.rows) : /\ ~b.rows[i][2].off /\ b.rows[i][2].week = b.w
                                            /\ OfWeek(d.entry[b.rows[i][1]], b.w)
LineBackTied(o, k, b, l) ==
    /\ l.at # "cancelled"
    /\ b.w > o /\ Seen(l) /\ l.who # NoOne =>
         \E i \in 1..Len(b.rows) : l.link = b.rows[i][1] /\ Standing(b.rows[i][2]) /\ b.rows[i][2].who = l.who
    /\ k /\ b.w > o /\ Seen(l) /\ l.who = NoOne => \A i \in 1..Len(b.rows) : ~Standing(b.rows[i][2])
TieBack(o, k, d, t, b) == TheirEnd(t, b) /\ RowsBack(d, b) /\ LineBackTied(o, k, b, LineBack(d, b))

LEMMA RestEnds ==
    ASSUME NEW S, NEW t \in Seq(S), Tail(t) # <<>>, t # <<>>, NEW b, TheirEnd(t, b)
    PROVE TheirEnd(Tail(t), b)
<1>1. Len(Tail(t)) \in Nat \ {0} /\ Len(Tail(t)) = Len(t) - 1
  <2>1. Tail(t) \in Seq(S) /\ Len(Tail(t)) = Len(t) - 1
    BY HeadTailProperties
  <2>2. Len(Tail(t)) # 0
    BY <2>1, EmptySeq
  <2> QED
    BY <2>1, <2>2
<1>2. Tail(t)[Len(Tail(t))] = t[Len(t)]
  BY <1>1, HeadTailProperties
<1> QED
  BY <1>2 DEF TheirEnd

LEMMA TieBackGoesOn ==
    ASSUME TalkInv, NEW r \in Requests, Steps(r), NEW k, TieRound(over, k, db, job[r].todo),
           NEW b \in Back, TieBack(over, k, db, job[r].todo, b), job'[r].todo # <<>>
    PROVE TieBack(over, k, db', job'[r].todo, b)
<1> DEFINE t == job[r].todo
           w == b.w
<1>0. Busy(r) /\ w \in Week /\ b.rows \in Seq(Ids \X Row)
  BY StepGoesOn DEF GoesOn, Back
<1>1. t \in Seq(Call) /\ t # <<>> /\ t[1] = Args(r) /\ Rest(r) = Tail(t)
  BY <1>0, HeadIs DEF Busy, Args, Rest, Job
<1> HIDE DEF t
<1>2. TheirEnd(t, b) /\ TieRound(over, k, db, t)
  BY DEF TieBack, t
<1>3. TheirCall(t[1], db, w) /\ (b.lines = <<>> => t[1].call \in {"write", "delete"} \/ Tail(t) = <<>>)
  BY <1>2, TheirList
<1>4. Touches(db, db', w) /\ job'[r].todo = Tail(t) /\ (t[1].call \in {"write", "delete"} => db'.line = db.line)
  BY <1>0, <1>1, <1>3, TheirStep
<1>5. TheirEnd(Tail(t), b)
  BY <1>1, <1>2, <1>4, RestEnds
<1>6. LineBack(db', b) = LineBack(db, b)
  BY <1>3, <1>4 DEF LineBack
<1>7. RowsBack(db', b)
  <2> SUFFICES ASSUME NEW i \in 1..Len(b.rows)
               PROVE ~b.rows[i][2].off /\ b.rows[i][2].week = w /\ OfWeek(db'.entry[b.rows[i][1]], w)
    BY DEF RowsBack
  <2>1. ~b.rows[i][2].off /\ b.rows[i][2].week = w /\ OfWeek(db.entry[b.rows[i][1]], w)
    BY DEF TieBack, RowsBack
  <2>2. b.rows[i][1] \in Ids
    BY <1>0
  <2> QED
    BY <1>4, <2>1, <2>2 DEF Touches
<1> QED
  BY <1>4, <1>5, <1>6, <1>7 DEF TieBack

\* What is read of a week that agrees may be put back.
LEMMA WeekIsRead ==
    ASSUME NEW o, NEW k, NEW d, Good(d), Calm(o, k, d, {}), NEW w \in Week, NEW b, b.w = w,
           \A i \in 1..Len(b.rows) : /\ b.rows[i][1] \in Ids /\ b.rows[i][2] = d.entry[b.rows[i][1]]
                                     /\ b.rows[i][2].week = w,
           weekEntry(d, w) # NoEntry => \E i \in 1..Len(b.rows) : b.rows[i][1] = weekEntry(d, w)
    PROVE RowsBack(d, b) /\ LineBackTied(o, k, b, d.line[w])
<1>1. Uncancelled(d) /\ Tied(o, d, w) /\ (k => Filled(o, d, w))
  BY DEF Calm, AllBut, Agrees
<1>2. RowsBack(d, b)
  BY <1>1 DEF RowsBack, Uncancelled, OfWeek
<1>3. d.line[w].at # "cancelled"
  BY <1>1 DEF Uncancelled
<1>4. ASSUME w > o, Seen(d.line[w]), d.line[w].who # NoOne
      PROVE \E i \in 1..Len(b.rows) : /\ d.line[w].link = b.rows[i][1] /\ Standing(b.rows[i][2])
                                      /\ b.rows[i][2].who = d.line[w].who
  <2>1. d.line[w].link \in Live(d, w) /\ d.entry[d.line[w].link].who = d.line[w].who
    BY <1>1, <1>4 DEF Tied
  <2>2. weekEntry(d, w) = d.line[w].link /\ weekEntry(d, w) # NoEntry /\ Standing(d.entry[d.line[w].link])
    BY <2>1, StandsAlone
  <2>3. PICK i \in 1..Len(b.rows) : b.rows[i][1] = d.line[w].link
    BY <2>2
  <2> QED
    BY <2>1, <2>2, <2>3
<1>5. ASSUME k, w > o, Seen(d.line[w]), d.line[w].who = NoOne, NEW i \in 1..Len(b.rows)
      PROVE ~Standing(b.rows[i][2])
  <2>1. Live(d, w) = {}
    BY <1>1, <1>5 DEF Filled
  <2> QED
    BY <2>1 DEF Live
<1> QED
  BY <1>2, <1>3, <1>4, <1>5 DEF LineBackTied

LEMMA TieReplaceBack ==
    ASSUME NEW r \in Requests, NEW k, TieReady(r, k), replaceSpeaker(r)
    PROVE TieBack(over, k, db', job'[r].todo, job'[r].back)
<1>0. Calm(over, k, db, {}) /\ Good(db)
  BY ReadyIs
<1>1. PICK w \in Week, l \in Line :
        LET e == weekEntry(db, w)
            old == db.line[w]
            b == [call |-> "saveLine", w |-> w, l |-> l]
        IN  /\ e = NoEntry => Opens(r, db, <<b, Sync(w, TRUE), On("adopt", w)>>, [w |-> w, lines |-> <<old>>, rows |-> <<>>])
            /\ e # NoEntry => \E row \in Row :
                 Opens(r, db, <<[call |-> "write", e |-> e, row |-> row], b, Sync(w, TRUE), On("adopt", w)>>,
                          [w |-> w, lines |-> <<old>>, rows |-> <<<<e, db.entry[e]>>>>])
  BY ReplaceOpens DEF TieReady, Replaces
<1> DEFINE e == weekEntry(db, w)
           old == db.line[w]
           s == SavesLine(w, l)
           p == Sync(w, TRUE)
           q == On("adopt", w)
<1>2. CASE e = NoEntry
  <2> DEFINE t == <<s, p, q>>
             b == [w |-> w, lines |-> <<old>>, rows |-> <<>>]
  <2>1. Opens(r, db, t, b)
    BY <1>1, <1>2 DEF SavesLine
  <2>2. b.w = w /\ b.lines # <<>> /\ b.lines[1] = old /\ Len(b.rows) = 0
    OBVIOUS
  <2> HIDE DEF s, p, b
  <2>3. t[Len(t)] = On("adopt", b.w)
    BY <2>2
  <2> HIDE DEF t, q, e
  <2>4. RowsBack(db, b) /\ LineBackTied(over, k, b, old)
    BY <1>0, <1>2, <2>2, WeekIsRead DEF e
  <2>5. TieBack(over, k, db, t, b)
    BY <2>2, <2>3, <2>4 DEF TieBack, TheirEnd, LineBack
  <2> QED
    BY <2>1, <2>5 DEF Opens
<1>3. CASE e # NoEntry
  <2>1. PICK row \in Row : Opens(r, db, <<WritesRow(e, row), s, p, q>>, [w |-> w, lines |-> <<old>>, rows |-> <<<<e, db.entry[e]>>>>])
    BY <1>1, <1>3 DEF SavesLine, WritesRow
  <2> DEFINE c == WritesRow(e, row)
             x == <<e, db.entry[e]>>
             rows == <<x>>
             t == <<c, s, p, q>>
             b == [w |-> w, lines |-> <<old>>, rows |-> rows]
  <2>2. Opens(r, db, t, b)
    BY <2>1
  <2>3. e \in Ids /\ db.entry[e].week = w
    BY <1>0, <1>3, WeekEntryIs DEF Good
  <2>4. x[1] = e /\ x[2] = db.entry[e]
    OBVIOUS
  <2> HIDE DEF x
  <2>5. Len(rows) = 1 /\ rows[1] = x
    OBVIOUS
  <2> HIDE DEF rows
  <2>6. b.w = w /\ b.lines # <<>> /\ b.lines[1] = old /\ b.rows = rows
    OBVIOUS
  <2> HIDE DEF c, s, p, b
  <2>7. t[Len(t)] = On("adopt", b.w)
    BY <2>6
  <2> HIDE DEF t, q
  <2>12. Len(b.rows) = 1 /\ b.rows[1] = x
    <3> HIDE DEF e, old
    <3> QED
      BY <2>5, <2>6
  <2>8. \A i \in 1..Len(b.rows) : b.rows[i] = x
    BY <2>12
  <2>9. 1 \in 1..Len(b.rows)
    BY <2>12
  <2> HIDE DEF e
  <2>10. RowsBack(db, b) /\ LineBackTied(over, k, b, old)
    <3>1. \A i \in 1..Len(b.rows) : b.rows[i][1] \in Ids /\ b.rows[i][2] = db.entry[b.rows[i][1]] /\ b.rows[i][2].week = w
      BY <2>3, <2>4, <2>8
    <3>2. \E i \in 1..Len(b.rows) : b.rows[i][1] = weekEntry(db, w)
      BY <2>4, <2>8, <2>9 DEF e
    <3> QED
      BY <1>0, <2>6, <3>1, <3>2, WeekIsRead
  <2>11. TieBack(over, k, db, t, b)
    BY <2>6, <2>7, <2>10 DEF TieBack, TheirEnd, LineBack
  <2> QED
    BY <2>2, <2>11 DEF Opens
<1> QED
  BY <1>2, <1>3

LEMMA TieUndoBack ==
    ASSUME NEW r \in Requests, NEW k, TieReady(r, k), undoReplacement(r)
    PROVE TieBack(over, k, db', job'[r].todo, job'[r].back)
<1>0. Calm(over, k, db, {}) /\ Good(db)
  BY ReadyIs
<1>1. PICK e \in Ids, row \in Row :
        LET was == db.entry[e]
            w == was.week
            x == weekEntry(db, w)
            one == [call |-> "write", e |-> e, row |-> row]
            two == [call |-> "name", w |-> w, e |-> e]
        IN  /\ x = NoEntry => Opens(r, db, <<one, two>>, [w |-> w, lines |-> <<>>, rows |-> <<<<e, was>>>>])
            /\ x # NoEntry => \E c :
                 Opens(r, db, <<c, one, two>>, [w |-> w, lines |-> <<>>, rows |-> <<<<e, was>>, <<x, db.entry[x]>>>>])
  BY UndoOpens DEF TieReady, Undoes
<1> DEFINE w == db.entry[e].week
           x == weekEntry(db, w)
           p == WritesRow(e, row)
           q == NamesLine(w, e)
           f == <<e, db.entry[e]>>
           g == <<x, db.entry[x]>>
<1>2. w \in Week /\ f[1] = e /\ f[2] = db.entry[e]
  BY RowRead DEF TieReady, Row
<1>3. x # NoEntry => x \in Ids /\ db.entry[x].week = w
  BY <1>0, WeekEntryIs DEF Good
<1>4. g[1] = x /\ g[2] = db.entry[x]
  OBVIOUS
<1>5. CASE x = NoEntry
  <2> DEFINE rows == <<f>>
             t == <<p, q>>
             b == [w |-> w, lines |-> <<>>, rows |-> rows]
  <2>1. Opens(r, db, t, b)
    BY <1>1, <1>5 DEF WritesRow, NamesLine
  <2> HIDE DEF p, q, w, f
  <2>2. b.w = w /\ b.lines = <<>> /\ b.rows = rows /\ Len(rows) = 1 /\ rows[1] = f
    OBVIOUS
  <2>3. t[Len(t)] = q
    OBVIOUS
  <2> HIDE DEF t, b, rows, x
  <2>4. \A i \in 1..Len(b.rows) : b.rows[i][1] = e /\ b.rows[i][2] = db.entry[e]
    BY <1>2, <2>2
  <2>5. RowsBack(db, b) /\ LineBackTied(over, k, b, db.line[w])
    <3>1. \A i \in 1..Len(b.rows) : b.rows[i][1] \in Ids /\ b.rows[i][2] = db.entry[b.rows[i][1]] /\ b.rows[i][2].week = w
      BY <2>4 DEF w
    <3> QED
      BY <1>0, <1>2, <1>5, <2>2, <3>1, WeekIsRead DEF x
  <2>6. TheirEnd(t, b)
    BY <1>2, <2>2, <2>3 DEF TheirEnd, q
  <2>7. TieBack(over, k, db, t, b)
    BY <2>2, <2>5, <2>6 DEF TieBack, LineBack
  <2> QED
    BY <2>1, <2>7 DEF Opens
<1>6. CASE x # NoEntry
  <2>1. PICK c : Opens(r, db, <<c, p, q>>, [w |-> w, lines |-> <<>>, rows |-> <<f, g>>])
    BY <1>1, <1>6 DEF WritesRow, NamesLine
  <2> DEFINE rows == <<f, g>>
             t == <<c, p, q>>
             b == [w |-> w, lines |-> <<>>, rows |-> rows]
  <2>2. Opens(r, db, t, b)
    BY <2>1
  <2> HIDE DEF p, q, w, f, g
  <2>3. b.w = w /\ b.lines = <<>> /\ b.rows = rows /\ Len(rows) = 2 /\ rows[1] = f /\ rows[2] = g
    OBVIOUS
  <2>4. t[Len(t)] = q
    OBVIOUS
  <2> HIDE DEF t, b, rows, x
  <2>5. \A i \in 1..Len(b.rows) : b.rows[i] = f \/ b.rows[i] = g
    BY <2>3
  <2>6. RowsBack(db, b) /\ LineBackTied(over, k, b, db.line[w])
    <3>1. \A i \in 1..Len(b.rows) : b.rows[i][1] \in Ids /\ b.rows[i][2] = db.entry[b.rows[i][1]] /\ b.rows[i][2].week = w
      BY <1>2, <1>3, <1>4, <1>6, <2>5 DEF w
    <3>2. \E i \in 1..Len(b.rows) : b.rows[i][1] = x
      <4>1. 2 \in 1..Len(b.rows)
        BY <2>3
      <4>2. b.rows[2][1] = x
        BY <1>4, <2>3
      <4> QED
        BY <4>1, <4>2
    <3> QED
      BY <1>0, <1>2, <2>3, <3>1, <3>2, WeekIsRead DEF x
  <2>7. TheirEnd(t, b)
    BY <1>2, <2>3, <2>4 DEF TheirEnd, q
  <2>8. TieBack(over, k, db, t, b)
    BY <2>3, <2>6, <2>7 DEF TieBack, LineBack
  <2> QED
    BY <2>2, <2>8 DEF Opens
<1> QED
  BY <1>5, <1>6

LEMMA TieBackBegan ==
    ASSUME NEW r \in Requests, NEW k, TieReady(r, k), Begins(r), job'[r].back # NoBack
    PROVE TieBack(over, k, db', job'[r].todo, job'[r].back)
<1>1. TalkInv
  BY DEF TieReady
<1>2. ~PlainBegin(r)
  BY DEF PlainBegin
<1>3. replaceSpeaker(r) \/ undoReplacement(r)
  BY <1>1, <1>2, MostBeginPlainly
<1> QED
  BY <1>3, TieReplaceBack, TieUndoBack

LEMMA TouchedOfWeek ==
    ASSUME NEW d, NEW y, NEW w, Touches(d, y, w), NEW e \in Ids, OfWeek(d.entry[e], w)
    PROVE OfWeek(y.entry[e], w)
BY DEF Touches

\* A step of the putting back: it keeps to the week, and writes no line.
KeepsTo(d, y, w) == Touches(d, y, w) /\ y.line = d.line /\ Uncancelled(y)

LEMMA KeepsToOn ==
    ASSUME NEW d, NEW y, NEW z, NEW w, KeepsTo(d, y, w), KeepsTo(y, z, w)
    PROVE KeepsTo(d, z, w)
BY TouchesOn DEF KeepsTo

LEMMA RowBackKeepsTo ==
    ASSUME NEW d, Good(d), Uncancelled(d), NEW x \in Ids \X Row, NEW w, OfWeek(d.entry[x[1]], w), x[2].week = w, ~x[2].off
    PROVE KeepsTo(d, RowBack(d, x), w)
<1>0. x[1] \in Ids /\ x[2] \in Row
  OBVIOUS
<1>1. CASE WeekTaken(d, x[1], x[2])
  BY <1>1, TouchesNothing DEF RowBack, KeepsTo
<1>2. CASE ~WeekTaken(d, x[1], x[2])
  <2> DEFINE y == Put(d, x[1], x[2])
  <2>1. RowBack(d, x) = y
    BY <1>2 DEF RowBack
  <2>2. Rewrites(d, y, x[1], x[2])
    BY <1>0, PutRewrites
  <2> HIDE DEF y
  <2>3. Uncancelled(y)
    BY <1>0, <2>2, CleanRewrites
  <2>4. OfWeek(x[2], w)
    BY DEF OfWeek
  <2>5. Touches(d, y, w)
    BY <1>0, <2>2, <2>4, RewritingTouches
  <2> QED
    BY <2>1, <2>2, <2>3, <2>5 DEF KeepsTo, Rewrites
<1> QED
  BY <1>1, <1>2

LEMMA FreshGoneKeepsTo ==
    ASSUME NEW d, Good(d), Uncancelled(d), NEW b
    PROVE KeepsTo(d, FreshGone(d, b), b.w)
<1> DEFINE e == weekEntry(d, b.w)
           g == [d.entry[e] EXCEPT !.at = "gone"]
           y == softDelete(d, e)
<1>1. FreshGone(d, b) = d \/ (e # NoEntry /\ FreshGone(d, b) = y)
  BY DEF FreshGone
<1>2. KeepsTo(d, d, b.w)
  BY TouchesNothing DEF KeepsTo
<1>3. CASE e # NoEntry
  <2>1. e \in Ids /\ d.entry[e].week = b.w /\ d.entry[e] \in Row
    BY <1>3, WeekEntryIs DEF Good, Database
  <2>2. g.week = b.w /\ g.off = d.entry[e].off /\ ~d.entry[e].off
    BY <2>1 DEF Row, Uncancelled
  <2> HIDE DEF e
  <2>3. Rewrites(d, y, e, g)
    BY <2>1, DeletingRewrites
  <2>4. OfWeek(d.entry[e], b.w) /\ OfWeek(g, b.w)
    BY <2>1, <2>2 DEF OfWeek
  <2> HIDE DEF g, y
  <2>5. Uncancelled(y)
    BY <2>1, <2>2, <2>3, CleanRewrites
  <2>6. Touches(d, y, b.w)
    BY <2>1, <2>3, <2>4, RewritingTouches
  <2>7. KeepsTo(d, y, b.w)
    BY <2>3, <2>5, <2>6 DEF KeepsTo, Rewrites
  <2> QED
    BY <1>1, <1>2, <2>7
<1> QED
  BY <1>1, <1>2, <1>3

LEMMA PutBackKeepsTo ==
    ASSUME TalkInv, NEW r \in Requests, PutBack(r), NEW b, b = job[r].back, Uncancelled(db), RowsBack(db, b),
           LineBack(db, b).at # "cancelled"
    PROVE Touches(db, db', b.w) /\ Uncancelled(db') /\ db'.line[b.w] = LineBack(db, b) /\ b \in Back
<1> DEFINE d == IF b.lines = <<>> THEN db ELSE SetLine(db, b.w, b.lines[1])
           g == FreshGone(d, b)
           rows == b.rows
           w == b.w
<1>0. Busy(r) /\ Good(db) /\ b # NoBack /\ db' = Restored(g, rows)
  BY InvIsGood DEF PutBack
<1>1. b \in Back /\ w \in Week /\ b.lines \in Seq(Line) /\ rows \in Seq(Ids \X Row)
  BY <1>0, HeadIs DEF Back
<1>2. Good(d) /\ Touches(db, d, w) /\ Uncancelled(d) /\ d.line[w] = LineBack(db, b)
  <2>1. CASE b.lines = <<>>
    BY <1>0, <2>1, TouchesNothing DEF LineBack
  <2>2. CASE b.lines # <<>>
    <3>1. b.lines[1] \in Line /\ LineBack(db, b) = b.lines[1]
      BY <1>1, <2>2 DEF LineBack
    <3>2. d = SetLine(db, w, b.lines[1])
      BY <2>2
    <3> HIDE DEF d, w
    <3>3. Good(d)
      BY <1>0, <1>1, <3>1, <3>2, SetLineGood DEF Leads
    <3> DEFINE l == b.lines[1]
    <3>4. d = SetLine(db, w, l) /\ l.at # "cancelled" /\ LineBack(db, b) = l
      BY <3>1, <3>2
    <3> HIDE DEF l
    <3>5. Touches(db, SetLine(db, w, l), w) /\ SetLine(db, w, l).line[w] = l
      BY <1>0, <1>1, LineSet
    <3>6. Uncancelled(SetLine(db, w, l))
      BY <1>0, <1>1, <3>4, LineSet
    <3> QED
      BY <3>3, <3>4, <3>5, <3>6
  <2> QED
    BY <2>1, <2>2
<1> HIDE DEF d
<1>3. Good(g) /\ KeepsTo(d, g, w)
  BY <1>1, <1>2, FreshGoneGood, FreshGoneKeepsTo
<1> HIDE DEF g
<1>4. Touches(db, g, w) /\ g.line = d.line /\ Uncancelled(g)
  BY <1>2, <1>3, TouchesOn DEF KeepsTo
<1>5. \A i \in 1..Len(rows) : /\ rows[i] \in Ids \X Row /\ rows[i][1] \in Ids /\ rows[i][2].week = w /\ ~rows[i][2].off
                              /\ OfWeek(db.entry[rows[i][1]], w)
  BY <1>1 DEF RowsBack
<1> HIDE DEF rows, w
<1>6. KeepsTo(g, Restored(g, rows), w)
  <2>1. CASE Len(rows) = 0
    BY <1>4, <2>1, TouchesNothing DEF Restored, KeepsTo
  <2>2. CASE Len(rows) # 0
    <3> DEFINE p == rows[1]
               y == RowBack(g, p)
    <3>1. 1 \in 1..Len(rows)
      BY <1>1, <2>2
    <3>2. p \in Ids \X Row /\ p[1] \in Ids /\ p[2].week = w /\ ~p[2].off /\ OfWeek(db.entry[p[1]], w)
      BY <1>5, <3>1
    <3> HIDE DEF p
    <3>3. OfWeek(g.entry[p[1]], w)
      BY <1>4, <3>2, TouchedOfWeek
    <3>4. KeepsTo(g, y, w) /\ Good(y)
      BY <1>3, <1>4, <3>2, <3>3, RowBackKeepsTo, RowBackGood
    <3>5. CASE Len(rows) = 1
      BY <3>4, <3>5 DEF Restored, p
    <3>6. CASE Len(rows) # 1
      <4> DEFINE q == rows[2]
      <4> DEFINE n == Len(rows)
      <4>a. n \in Nat /\ n # 0 /\ n # 1
        BY <1>1, <2>2, <3>6
      <4>b. Restored(g, rows) = RowBack(y, q)
        BY <4>a DEF Restored, p
      <4> HIDE DEF n
      <4>c. 2 \in 1..n
        BY <4>a
      <4>1. 2 \in 1..Len(rows) /\ Restored(g, rows) = RowBack(y, q)
        BY <4>b, <4>c DEF n
      <4>2. q \in Ids \X Row /\ q[1] \in Ids /\ q[2].week = w /\ ~q[2].off /\ OfWeek(db.entry[q[1]], w)
        BY <1>5, <4>1
      <4> HIDE DEF q, y
      <4>3. OfWeek(y.entry[q[1]], w)
        BY <1>4, <3>4, <4>2, TouchedOfWeek DEF KeepsTo
      <4>4. KeepsTo(y, RowBack(y, q), w)
        BY <3>4, <4>2, <4>3, RowBackKeepsTo DEF KeepsTo
      <4> QED
        BY <3>4, <4>1, <4>4, KeepsToOn
    <3> QED
      BY <3>5, <3>6
  <2> QED
    BY <2>1, <2>2
<1>7. Touches(db, db', w) /\ db'.line = d.line /\ Uncancelled(db')
  BY <1>0, <1>4, <1>6, TouchesOn DEF KeepsTo
<1> QED
  BY <1>1, <1>2, <1>7 DEF w

\* The week is put back, and agrees again; where nothing was done before, nobody is set aside.
LEMMA PutBackTies ==
    ASSUME WholeInv, AsideSound(db), OneAtATime, NEW r \in Requests, PutBack(r), NEW k,
           TieRound(over, k, db, job[r].todo), NEW b, b = job[r].back, TieBack(over, k, db, job[r].todo, b), k => HimBack(b),
           NEW c, c => k /\ b.rows # <<>>
    PROVE TieRests(over, c, db')
<1> DEFINE w == b.w
           l == LineBack(db, b)
<1>0. TalkInv /\ Good(db)
  BY InvIsGood DEF WholeInv
<1>1. TheirEnd(job[r].todo, b) /\ RowsBack(db, b) /\ LineBackTied(over, k, b, l)
  BY DEF TieBack
<1>2. Still(k, db, job[r].todo) /\ Calm(over, k, db, {b.w})
  BY <1>1, TheirList
<1>3. Uncancelled(db) /\ l.at # "cancelled"
  BY <1>1, <1>2 DEF Calm, LineBackTied
<1>4. Touches(db, db', w) /\ Uncancelled(db') /\ db'.line[w] = l /\ b \in Back
  BY <1>0, <1>1, <1>3, PutBackKeepsTo
<1>5. w \in Week
  BY <1>4 DEF Back
<1>6. b.rows # <<>> =>
        /\ \A i \in 1..Len(b.rows) : db'.entry[b.rows[i][1]] = b.rows[i][2]
        /\ Live(db', w) \subseteq {b.rows[i][1] : i \in 1..Len(b.rows)}
  <2>1. b.rows # <<>> => WeekAsRead(db', b)
    BY PutBackIsWhole
  <2> QED
    BY <2>1 DEF WeekAsRead
<1>7. b.rows = <<>> => Len(b.rows) = 0
  OBVIOUS
<1>8. \A i \in 1..Len(b.rows) : b.rows[i][1] \in Ids /\ b.rows[i][2].week = w
  BY <1>1, <1>4 DEF RowsBack, Back
<1> HIDE DEF l, w
<1>9. Tied(over, db', w)
  <2> SUFFICES ASSUME w > over, Seen(l), l.who # NoOne
               PROVE l.link \in Live(db', w) /\ db'.entry[l.link].who = l.who
    BY <1>4 DEF Tied
  <2>1. PICK i \in 1..Len(b.rows) : l.link = b.rows[i][1] /\ Standing(b.rows[i][2]) /\ b.rows[i][2].who = l.who
    BY <1>1 DEF LineBackTied, w
  <2>2. b.rows # <<>>
    BY <1>7
  <2>3. db'.entry[l.link] = b.rows[i][2] /\ l.link \in Ids
    BY <1>6, <1>8, <2>1, <2>2
  <2> QED
    BY <1>8, <2>1, <2>3 DEF Live
<1>10. c => Filled(over, db', w)
  <2> SUFFICES ASSUME c, w > over, Seen(l), l.who = NoOne
               PROVE Live(db', w) = {}
    BY <1>4 DEF Filled
  <2>1. \A i \in 1..Len(b.rows) : ~Standing(b.rows[i][2])
    BY <1>1 DEF LineBackTied, w
  <2> SUFFICES ASSUME NEW e \in Live(db', w)
               PROVE FALSE
    OBVIOUS
  <2>2. PICK i \in 1..Len(b.rows) : e = b.rows[i][1]
    BY <1>6
  <2>3. db'.entry[e] = b.rows[i][2]
    BY <1>6, <2>2
  <2> QED
    BY <2>1, <2>3 DEF Live
<1>11. Calm(over, c, db', {})
  <2>1. Calm(over, c, db, {w})
    BY <1>2 DEF Calm, AllBut, Agrees, w
  <2>2. Agrees(over, c, db', w)
    BY <1>9, <1>10 DEF Agrees
  <2> QED
    BY <1>4, <1>5, <2>1, <2>2, CalmTo
<1>12. ASSUME c
       PROVE db'.visit.at # "on" /\ Bare(db', {})
  <2>1. Ours(db, db')
    BY <1>0, <1>12, PutBackOurs
  <2>2. Apart(db, job[r].todo) /\ Bare(db, {})
    BY <1>2, <1>12 DEF Still
  <2> DEFINE N == {}
  <2>3. Bare(db, N)
    BY <2>2
  <2>4. \A e \in Ids : db'.entry[e].aside => db.entry[e].aside
    BY <2>1 DEF Ours
  <2>5. Bare(db', N)
    BY <1>0, <2>2, <2>4, StillBare
  <2> QED
    BY <2>1, <2>2, <2>5 DEF Ours, Apart
<1> QED
  BY <1>11, <1>12 DEF TieRests

----------------------------------------------------------------------------
(* The invariant: while nothing was cancelled, the weeks ahead agree, but    *)
(* those a request has yet to bring together; and while nothing out of the   *)
(* ordinary was done at all (k), no line is left empty beside an entry.      *)

TieKept(k) ==
    /\ Quiet => TieRests(over, k, db)
    /\ \A r \in Requests : Busy(r) => /\ TieRound(over, k, db, job[r].todo)
                                      /\ job[r].back # NoBack => TieBack(over, k, db, job[r].todo, job[r].back)
Uncalled == NoneBack /\ "cancelled" \notin past
TieInv == Uncalled => \A k \in BOOLEAN : (k => past = {}) => TieKept(k)

LEMMA NoEmptyRound ==
    ASSUME NEW o, NEW k, NEW d
    PROVE ~TieRound(o, k, d, <<>>)
BY DEF TieRound, TieComing, TieSaving, TieGoing, TieMoving, PlainTied, JournalTied, LineTied, ReplaceTied, UndoTied

LEMMA TieRestsLater ==
    ASSUME NEW o \in Nat, NEW k, NEW d, TieRests(o, k, d)
    PROVE TieRests(o + 1, k, d)
<1>1. Week \subseteq Nat
  BY DEF Week
<1> QED
  BY <1>1 DEF TieRests, Calm, AllBut, Agrees, Tied, Filled

LEMMA TieOneBegins ==
    ASSUME WholeInv, GuestInv, RoundInv, HimInv, TieInv, TalkInv', NEW r \in Requests, Begins(r), Uncalled',
           NEW k \in BOOLEAN, k => past' = {}
    PROVE TieKept(k)'
<1>1. BeginsAmong(r)
  <2>0. TalkInv
    BY DEF WholeInv
  <2>1. CASE replaceSpeaker(r)
    BY <2>0, <2>1, ReplaceIsKept
  <2>2. CASE undoReplacement(r)
    BY <2>0, <2>2, UndoIsKept
  <2>3. CASE ~replaceSpeaker(r) /\ ~undoReplacement(r)
    BY <2>0, <2>3, MostBeginPlainly DEF PlainBegin
  <2> QED
    BY <2>1, <2>2, <2>3
<1>2. /\ past \subseteq past' /\ \A x \in Requests \ {r} : job'[x] = job[x] /\ ~Busy(x)
      /\ Uncalled /\ NoneBack /\ OneAtATime /\ "cancelled" \notin past'
  BY <1>1 DEF BeginsAmong, Uncalled, NoneBack, OneAtATime
<1>3. Quiet
  BY <1>1, <1>2 DEF BeginsAmong, Quiet
<1>4. ~RestoreLine(r)
  <2>1. RestoreLine(r) => "line back" \in past'
    BY DEF RestoreLine, Begin, BeginWith, LeavesBehind, Causes
  <2> QED
    BY <2>1 DEF Uncalled, NoneBack
<1>5. TalkInv /\ AsideSound(db) /\ VisitSound(db.visit)
  BY <1>2 DEF WholeInv, GuestInv, RoundInv, RoundKept
<1>6. TieKept(k) /\ TieRests(over, k, db)
  BY <1>2, <1>3 DEF TieInv, TieKept
<1>7. k => HimReady /\ HimBegan(r) /\ past' = {}
  <2>1. SUFFICES ASSUME past' = {}
                 PROVE HimReady /\ HimBegan(r)
    OBVIOUS
  <2>2. HimKept
    BY <1>2, <2>1 DEF HimInv
  <2>3. HimReady
    BY <1>3, <1>5, <2>1, <2>2 DEF HimReady, HimKept
  <2> QED
    BY <1>4, <1>5, <2>3, HimAllBegan
<1>8. TieReady(r, k)
  BY <1>2, <1>5, <1>6, <1>7 DEF TieReady
<1>9. TieRound(over, k, db', job'[r].todo)
  BY <1>4, <1>8, TieAllBegan
<1>10. job'[r].back # NoBack => TieBack(over, k, db', job'[r].todo, job'[r].back)
  BY <1>8, TieBackBegan
<1>11. over' = over
  BY BeginLeavesOver
<1>12. Busy(r)'
  <2>1. job'[r].todo # <<>>
    BY <1>9, NoEmptyRound
  <2> QED
    BY <2>1 DEF Busy
<1>13. \A x \in Requests \ {r} : ~Busy(x)'
  BY <1>2 DEF Busy
<1> QED
  BY <1>9, <1>10, <1>11, <1>12, <1>13 DEF TieKept, Quiet

LEMMA TieOneSteps ==
    ASSUME WholeInv, GuestInv, RoundInv, HimInv, TieInv, NEW r \in Requests, Steps(r), Uncalled',
           NEW k \in BOOLEAN, k => past' = {}
    PROVE TieKept(k)'
<1>0. TalkInv /\ Alone
  BY DEF WholeInv
<1>1. GoesOn(r)
  BY <1>0, StepGoesOn
<1>2. past' = past /\ Uncalled /\ NoneBack /\ OneAtATime /\ Busy(r)
  BY <1>1 DEF GoesOn, Uncalled, NoneBack, OneAtATime
<1>3. AsideSound(db) /\ VisitSound(db.visit)
  BY <1>2 DEF GuestInv, RoundInv, RoundKept
<1>4. \A x \in Requests \ {r} : job'[x] = job[x] /\ ~Busy(x)
  BY <1>0, <1>1, <1>2 DEF GoesOn, Alone
<1>5. TieKept(k)
  BY <1>2 DEF TieInv
<1>6. /\ TieRound(over, k, db, job[r].todo)
      /\ job[r].back # NoBack => TieBack(over, k, db, job[r].todo, job[r].back)
  BY <1>2, <1>5 DEF TieKept
<1>7. k => HimWhole(db)
  BY <1>2 DEF HimInv, HimKept
<1>8. TieKeeps(over, k, db', job'[r].todo)
  BY <1>0, <1>3, <1>6, <1>7, TieRoundGoesOn
<1>9. over' = over
  BY StepLeavesFound
<1>10. \A x \in Requests \ {r} : ~Busy(x)'
  BY <1>4 DEF Busy
<1>11. CASE Busy(r)'
  <2>1. job'[r].todo # <<>> /\ job'[r].back = job[r].back
    BY <1>1, <1>11 DEF GoesOn, Busy
  <2>2. TieRound(over', k, db', job'[r].todo)
    BY <1>8, <1>9, <2>1 DEF TieKeeps
  <2>3. job[r].back \in Back \cup {NoBack}
    BY <1>0 DEF TalkInv, TypeOK, Job
  <2>4. job'[r].back # NoBack => TieBack(over', k, db', job'[r].todo, job'[r].back)
    BY <1>0, <1>6, <1>9, <2>1, <2>3, TieBackGoesOn
  <2> QED
    BY <1>10, <1>11, <2>2, <2>4 DEF TieKept, Quiet
<1>12. CASE ~Busy(r)'
  <2>1. TieRests(over', k, db')
    BY <1>8, <1>9, <1>12, NoEmptyRound DEF TieKeeps, Busy
  <2> QED
    BY <1>10, <1>12, <2>1 DEF TieKept, Quiet
<1> QED
  BY <1>11, <1>12

LEMMA TieOnePutsBack ==
    ASSUME WholeInv, GuestInv, HimInv, TieInv, NEW r \in Requests, PutBack(r), Uncalled',
           NEW k \in BOOLEAN, k => past' = {}
    PROVE TieKept(k)'
<1>0. TalkInv /\ Alone
  BY DEF WholeInv
<1>1. /\ Busy(r) /\ job[r].back # NoBack /\ job' = [job EXCEPT ![r] = Idle] /\ past \subseteq past'
      /\ job[r].back.rows = <<>> => "put back" \in past'
      /\ job \in [Requests -> Job] /\ over' = over
  BY <1>0 DEF PutBack, TalkInv, TypeOK
<1>2. Uncalled /\ NoneBack /\ OneAtATime /\ AsideSound(db)
  BY <1>1 DEF GuestInv, Uncalled, NoneBack, OneAtATime
<1>3. TieKept(k) /\ (k => HimKept)
  BY <1>1, <1>2 DEF TieInv, HimInv
<1>4. /\ TieRound(over, k, db, job[r].todo) /\ TieBack(over, k, db, job[r].todo, job[r].back)
      /\ k => HimBack(job[r].back)
  BY <1>1, <1>3 DEF TieKept, HimKept
<1>5. TieRests(over, k, db')
  <2>1. k => k /\ job[r].back.rows # <<>>
    BY <1>1
  <2> QED
    BY <1>2, <1>4, <2>1, PutBackTies
<1>6. \A x \in Requests : ~Busy(x)'
  BY <1>0, <1>1, <1>2 DEF Busy, Idle, Alone
<1> QED
  BY <1>1, <1>5, <1>6 DEF TieKept

LEMMA TieStep ==
    ASSUME WholeInv, GuestInv, RoundInv, HimInv, TieInv, [Next]_vars
    PROVE TieInv'
<1> SUFFICES ASSUME Uncalled', NEW k \in BOOLEAN, k => past' = {}
             PROVE TieKept(k)'
  BY DEF TieInv
<1>0. TalkInv /\ Alone /\ TalkInv'
  BY WholeStep DEF WholeInv
<1>1. CASE UNCHANGED vars
  <2>1. db' = db /\ over' = over /\ job' = job /\ past' = past
    BY <1>1 DEF vars, history
  <2>2. TieKept(k)
    BY <2>1 DEF TieInv, Uncalled, NoneBack, OneAtATime
  <2> QED
    BY <2>1, <2>2 DEF TieKept, Quiet, Busy
<1>2. CASE Tick
  <2>1. /\ db' = db /\ job' = job /\ past \subseteq past' /\ over' = over + 1
        /\ (\E r \in Requests : Busy(r)) => "overlap" \in past'
    BY <1>2 DEF Tick
  <2>2. Quiet /\ TieKept(k)
    BY <2>1 DEF TieInv, Uncalled, NoneBack, OneAtATime, Quiet
  <2>3. TieRests(over', k, db')
    <3>1. over \in Nat
      BY <1>0 DEF TalkInv, TypeOK
    <3> QED
      BY <2>1, <2>2, <3>1, TieRestsLater DEF TieKept
  <2> QED
    BY <2>1, <2>2, <2>3 DEF TieKept, Quiet, Busy
<1>3. ASSUME NEW r \in Requests, Begins(r)
      PROVE TieKept(k)'
  BY <1>0, <1>3, TieOneBegins
<1>4. ASSUME NEW r \in Requests, Steps(r)
      PROVE TieKept(k)'
  BY <1>4, TieOneSteps
<1>5. ASSUME NEW r \in Requests, PutBack(r)
      PROVE TieKept(k)'
  BY <1>5, TieOnePutsBack
<1>6. ASSUME NEW r \in Requests
      PROVE ~Lose(r)
  BY DEF Lose, Uncalled, NoneBack, OneAtATime
<1> QED
  BY <1>1, <1>2, <1>3, <1>4, <1>5, <1>6 DEF Next

\* Where an instance starts, nobody but the guest of the visit's week is set aside.
LEMMA GuestAtStart ==
    ASSUME Init, db.visit.at = "on", NEW w, w = db.visit.week
    PROVE VisitGuest(db, w)
<1>0. db \in Setups /\ TalkInv
  BY TalkInit DEF Init
<1>1. /\ db \in Database /\ w \in Week /\ Agreed(db, w) /\ visitOfWeek(db, w)
      /\ \A e \in Ids : LET row == db.entry[e] IN
           row.aside => /\ row.at = "gone" /\ row.held /\ row.who # Overseer
                        /\ visitOfWeek(db, row.week) /\ Seen(db.line[row.week])
                        /\ db.visit.prev # NoOne /\ \A f \in Ids : db.entry[f].aside => f = e
      /\ ~db.visit.done => db.visit.prev = NoPrev
  BY <1>0, TalkSetups DEF Database, Visit, visitOfWeek
<1>2. HandedTo(db, w)
  BY <1>1 DEF HandedTo, Agreed, Hands
<1>3. Bare(db, {w})
  BY <1>1 DEF Bare, Marked, visitOfWeek
<1>4. GuestGone(db, w)
  <2>1. CASE ~Seen(db.line[w])
    <3>1. Marked(db, w) = {}
      BY <1>1, <2>1 DEF Marked
    <3> QED
      BY <2>1, <3>1 DEF GuestGone
  <2>2. CASE Seen(db.line[w])
    <3>1. \A x \in Live(db, w) : IsHis(db.entry[x]) /\ ~db.entry[x].aside
      <4>1. db.line[w].who = Overseer /\ db.line[w].link \in Live(db, w) /\ db.entry[db.line[w].link].who = Overseer
        BY <1>1, <2>2, NoOneIsHe DEF Agreed
      <4>2. Live(db, w) = {db.line[w].link}
        BY <1>0, <4>1, InvIsGood, StandsAlone
      <4>3. ~db.entry[db.line[w].link].aside
        BY <1>1, <4>1 DEF Live, Standing
      <4> QED
        BY <4>1, <4>2, <4>3 DEF IsHis
    <3>2. CASE Marked(db, w) = {}
      <4>1. NewRow(w, Overseer, "own") \in Row
        BY <1>1 DEF NewRow, Row, Speakers
      <4>2. Waiting(db, w, NoEntry, NewRow(w, Overseer, "own"))
        BY <3>1, <3>2 DEF Waiting
      <4>3. Awaits(db, w, NoEntry)
        BY <4>1, <4>2 DEF Awaits
      <4> QED
        BY <2>2, <4>3 DEF GuestGone
    <3>3. CASE Marked(db, w) # {}
      <4>1. PICK e \in Ids : e \in Marked(db, w)
        BY <3>3 DEF Marked
      <4>2. Marked(db, w) = {e} /\ db.visit.prev # NoOne /\ db.entry[e].aside /\ db.entry[e].at = "gone"
        BY <1>1, <4>1 DEF Marked
      <4>3. db.entry[e] \in Row
        BY <1>1 DEF Database
      <4> DEFINE row == [db.entry[e] EXCEPT !.at = "live", !.aside = FALSE]
      <4>4. row \in Row
        BY <4>3 DEF Row
      <4>5. db.entry[e] = [row EXCEPT !.at = "gone", !.aside = TRUE]
        BY <4>2, <4>3 DEF Row
      <4> HIDE DEF row
      <4>6. e # NoEntry
        BY DEF Ids, NoEntry
      <4>8. Waiting(db, w, e, row)
        BY <3>1, <4>2, <4>5, <4>6 DEF Waiting
      <4>7. Awaits(db, w, e)
        BY <4>4, <4>8 DEF Awaits
      <4> QED
        BY <2>2, <4>2, <4>7 DEF GuestGone
    <3> QED
      BY <3>2, <3>3
  <2> QED
    BY <2>1, <2>2
<1> QED
  BY <1>2, <1>3, <1>4 DEF VisitGuest

LEMMA TieInit ==
    ASSUME Init
    PROVE TieInv
<1>1. /\ \A w \in Week : Agreed(db, w)
      /\ \A e \in Ids : ~db.entry[e].off /\ (db.entry[e].aside => visitOfWeek(db, db.entry[e].week))
  BY TalkSetups DEF Init
<1>2. Uncancelled(db)
  BY <1>1 DEF Uncancelled, Agreed
<1>3. ASSUME NEW k
      PROVE Calm(over, k, db, {})
  BY <1>1, <1>2 DEF Calm, AllBut, Agrees, Tied, Filled, Agreed
<1>4. IF db.visit.at = "on" THEN VisitGuest(db, db.visit.week) ELSE Bare(db, {})
  <2>1. CASE db.visit.at = "on"
    BY <2>1, GuestAtStart
  <2>2. CASE db.visit.at # "on"
    BY <1>1, <2>2 DEF Bare, Marked, visitOfWeek
  <2> QED
    BY <2>1, <2>2
<1>5. \A k \in BOOLEAN : TieRests(over, k, db)
  BY <1>3, <1>4 DEF TieRests
<1>6. \A r \in Requests : ~Busy(r)
  BY DEF Init, Busy, Idle
<1> QED
  BY <1>5, <1>6 DEF TieInv, TieKept

\* A week that agrees shows none of what the morning check tells.
LEMMA AgreesShowsNone ==
    ASSUME NEW d, Good(d), Uncancelled(d), NEW w \in Week, w > over, Tied(over, d, w)
    PROVE /\ mismatch(d, w) \notin {"cancel_unmarked", "no_entry", "other_speaker"}
          /\ Filled(over, d, w) => mismatch(d, w) # "empty_line"
<1> DEFINE e == weekEntry(d, w)
<1>0. e # NoEntry => e \in Live(d, w)
  BY WeekEntryIs DEF Good, Live
<1>1. e # NoEntry => e \in Live(d, w) /\ Live(d, w) = {e}
  BY <1>0, StandsAlone
<1>2. e = NoEntry => Live(d, w) = {}
  BY SomebodyStands DEF Good
<1>3. d.line[w].at # "cancelled"
  BY DEF Uncancelled
<1>4. Seen(d.line[w]) /\ d.line[w].who # NoOne => e # NoEntry /\ d.entry[e].who = d.line[w].who
  BY <1>1, <1>2 DEF Tied
<1>5. Filled(over, d, w) /\ Seen(d.line[w]) /\ d.line[w].who = NoOne => e = NoEntry
  BY <1>1 DEF Filled
<1> HIDE DEF e
<1> QED
  BY <1>3, <1>4, <1>5 DEF mismatch, e

LEMMA MismatchCaused ==
    ASSUME WholeInv, HimInv, TieInv
    PROVE MismatchHasCause
<1> SUFFICES ASSUME OneAtATime, Quiet, "line back" \notin past, NEW w \in Week, programmeOpen(w)
             PROVE LET m == mismatch(db, w) IN
                   /\ m \in {"cancel_unmarked", "no_entry", "other_speaker"} => "cancelled" \in past
                   /\ m = "overseer_without_visit" => "beside a visit" \in past
                   /\ m = "empty_line" => past \cap {"cancelled", "line emptied", "put back", "beside a visit"} # {}
  BY DEF MismatchHasCause
<1>0. TalkInv /\ Good(db) /\ NoneBack /\ past \subseteq Causes
  BY InvIsGood DEF WholeInv, TalkInv, TypeOK, NoneBack
<1>1. ASSUME NEW k \in BOOLEAN, k => past = {}, "cancelled" \notin past
      PROVE Uncancelled(db) /\ Tied(over, db, w) /\ (k => Filled(over, db, w))
  <2>1. TieRests(over, k, db)
    BY <1>0, <1>1 DEF TieInv, TieKept, Uncalled
  <2> QED
    BY <2>1 DEF TieRests, Calm, AllBut, Agrees
<1>2. mismatch(db, w) \in {"cancel_unmarked", "no_entry", "other_speaker"} => "cancelled" \in past
  <2>1. SUFFICES ASSUME "cancelled" \notin past
                 PROVE mismatch(db, w) \notin {"cancel_unmarked", "no_entry", "other_speaker"}
    OBVIOUS
  <2>2. Uncancelled(db) /\ Tied(over, db, w)
    BY <1>1, <2>1
  <2> QED
    BY <1>0, <2>2, AgreesShowsNone DEF programmeOpen
<1>3. mismatch(db, w) = "overseer_without_visit" => "beside a visit" \in past
  BY <1>0, HimOnlyByVisit
<1>4. mismatch(db, w) = "empty_line" => past \cap {"cancelled", "line emptied", "put back", "beside a visit"} # {}
  <2>1. SUFFICES ASSUME past \cap {"cancelled", "line emptied", "put back", "beside a visit"} = {}
                 PROVE mismatch(db, w) # "empty_line"
    OBVIOUS
  <2>2. past = {}
    BY <1>0, <2>1 DEF Causes, NoneBack, OneAtATime
  <2>3. Uncancelled(db) /\ Tied(over, db, w) /\ Filled(over, db, w)
    BY <1>1, <2>2
  <2> QED
    BY <1>0, <2>3, AgreesShowsNone DEF programmeOpen
<1> QED
  BY <1>2, <1>3, <1>4

\* While requests come one at a time and none brings a line back from removal, a week ahead whose
\* line and entry the morning check finds apart has its cause: a cancellation where an entry
\* misses its mark, or a line names whom the journal does not; a request of another kind beside
\* the visit where the overseer outlasts it; and an empty line beside an entry comes of one of
\* these, of a line emptied by hand, or of a replacement that failed where nobody was entered.
THEOREM MismatchAlwaysHasCause == Spec => []MismatchHasCause
<1>1. Init => WholeInv /\ GuestInv /\ RoundInv /\ HimInv /\ TieInv
  BY WholeInit, GuestInit, RoundInit, HimInit, TieInit
<1>2. WholeInv /\ GuestInv /\ RoundInv /\ HimInv /\ TieInv /\ [Next]_vars
        => WholeInv' /\ GuestInv' /\ RoundInv' /\ HimInv' /\ TieInv'
  BY WholeStep, GuestStep, RoundStep, HimStep, TieStep
<1>3. WholeInv /\ HimInv /\ TieInv => MismatchHasCause
  BY MismatchCaused
<1> QED
  BY <1>1, <1>2, <1>3, PTL DEF Spec

=============================================================================
