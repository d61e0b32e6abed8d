---------------------------- MODULE TalkExchange ----------------------------
(***************************************************************************)
(* Who speaks at a weekend.  The same fact stands in two tables: the       *)
(* coordinator's journal of incoming speakers (talk-exchange.service.ts)   *)
(* and the public-talk line of the week's programme                        *)
(* (assignments.service.ts); a visit of the circuit overseer               *)
(* (special-events.service.ts, co-visit-template.service.ts) takes the     *)
(* weekend from both and gives it back.  Each of them, saved, changes the  *)
(* others.                                                                 *)
(*                                                                         *)
(* A request is the list of calls it has still to make; one call - one     *)
(* method, one transaction, one save of a row read before - is a step, and *)
(* the calls of two requests mix.  A speaker is one identity: the          *)
(* spelling of names, the cards of the directory and the talk he brings    *)
(* go with him.  One visit is modelled.  Not modelled: trips of our own    *)
(* brothers, the opening song, the flag of a published line (Programme     *)
(* has it), corrections after the fact, messages.                          *)
(***************************************************************************)
EXTENDS Naturals, Sequences, FiniteSets

CONSTANTS
    MaxEntries,            \* bound of the instance: rows of the journal
    Weeks,                 \* 1..Weeks
    Guests, Overseer,      \* who may speak
    NoOne,
    Requests,
    Operations,            \* kinds of request an instance allows to each
    Setups,                \* databases an instance starts from
    MaxUsed                \* bound of the instance: requests and failures, together

Kinds == {"create", "change", "shift", "missed", "remove", "elsewhere", "newLine", "editLine",
          "cancelLine", "removeLine", "restoreLine", "swap", "replace", "undo",
          "addVisit", "saveVisit", "moveVisit", "removeVisit", "restoreVisit"}

NoPrev == "nothing remembered"

ASSUME TalkConstants ==
    /\ MaxEntries \in Nat /\ Weeks \in Nat /\ MaxUsed \in Nat
    /\ Overseer \notin Guests /\ NoOne \notin Guests \cup {Overseer}
    /\ NoPrev \notin Guests \cup {Overseer, NoOne}
    /\ Operations \in [Requests -> SUBSET Kinds]

Week == 1..Weeks
Ids == 1..MaxEntries
NoEntry == 0
Speakers == Guests \cup {Overseer}

\* hand: written by the application ("app"), by the coordinator, or with his note on it.
Row == [at: {"none", "live", "gone"}, week: Week, who: Speakers, held: BOOLEAN, off: BOOLEAN,
        hand: {"app", "own", "noted"}, aside: BOOLEAN, his: BOOLEAN]
Line == [at: {"none", "on", "cancelled"}, removed: BOOLEAN, who: Speakers \cup {NoOne},
         link: Ids \cup {NoEntry}]
Visit == [at: {"none", "on", "gone"}, week: Week, done: BOOLEAN,
          prev: Speakers \cup {NoOne, NoPrev}]
Database == [entry: [Ids -> Row], line: [Week -> Line], visit: Visit, bin: [Ids -> 0..MaxEntries]]

VARIABLES
    db,     \* the journal, the lines, the visit; bin: the removed entries, the latest highest
    over,   \* the weeks that are over, and their programmes the record
    job,    \* per request: the calls still to make, and what a failed replacement puts back
    used,   \* counted for the bound
    past,   \* history: what has happened so far that may set journal and line apart
    found   \* history: each week as the visit found it, until someone else acts

history == <<past, found>>
vars == <<db, over, job, used, history>>

----------------------------------------------------------------------------
(* The tables. *)
Standing(row) == row.at = "live" /\ row.held
Live(d, w) == {e \in Ids : Standing(d.entry[e]) /\ d.entry[e].week = w}
weekEntry(d, w) == IF Live(d, w) = {} THEN NoEntry ELSE CHOOSE e \in Live(d, w) : TRUE
Seen(l) == l.at # "none" /\ ~l.removed
weekCancelled(d, w) == Seen(d.line[w]) /\ d.line[w].at = "cancelled"
programmeOpen(w) == w > over
visitOfWeek(d, w) == d.visit.at = "on" /\ d.visit.week = w

\* The database's one live entry a week.
WeekTaken(d, e, row) == Standing(row) /\ Live(d, row.week) \ {e} # {}

\* deletedAt, as far as it is compared: the latest removed stands highest, and no gap below it.
OutOfBin(bin, e) == [f \in Ids |-> IF f = e THEN 0
                                  ELSE IF 0 < bin[f] /\ bin[f] < bin[e] THEN bin[f] + 1 ELSE bin[f]]
IntoBin(bin, e) == [f \in Ids |-> IF f = e THEN MaxEntries
                                 ELSE IF bin[f] > bin[e] THEN bin[f] - 1 ELSE bin[f]]
LastOf(d, S) == CHOOSE e \in S : \A f \in S : d.bin[f] <= d.bin[e]

Put(d, e, row) == [d EXCEPT !.entry[e] = row, !.bin = OutOfBin(@, e)]
SetLine(d, w, l) == [d EXCEPT !.line[w] = l]
softDelete(d, e) == [d EXCEPT !.entry[e].at = "gone", !.bin = IntoBin(@, e)]
Undelete(d, e) == Put(d, e, [d.entry[e] EXCEPT !.at = "live"])

\* Bound of the instance: the journal has room for one row more.
Room(d) == \E e \in Ids : d.entry[e].at = "none"
NewId(d) == CHOOSE e \in Ids : d.entry[e].at = "none" /\ \A x \in 1..(e - 1) : d.entry[x].at # "none"
NewRow(w, g, hand) == [at |-> "live", week |-> w, who |-> g, held |-> TRUE, off |-> FALSE,
                       hand |-> hand, aside |-> FALSE, his |-> FALSE]

\* Journal and programme agree on the week, nothing is cancelled, and the overseer is entered and
\* named only where his visit stands; there the line remembers whom it was taken from.
Agreed(d, w) ==
    LET l == d.line[w] IN
    /\ l.at # "cancelled"
    /\ Seen(l) => IF l.who = NoOne THEN Live(d, w) = {}
                  ELSE l.link \in Live(d, w) /\ d.entry[l.link].who = l.who
    /\ l.who = Overseer => Seen(l) /\ visitOfWeek(d, w)
    /\ visitOfWeek(d, w) /\ Seen(l) => l.who = Overseer /\ d.visit.done /\ d.visit.prev # NoPrev

\* Where an instance starts, no week has two live entries, and all agree; who is set aside was to
\* come, is removed, and waits for the end of the visit, which remembers him; a visit that does
\* not stand, or has no line yet, remembers nobody.
ASSUME TalkSetups ==
    \A d \in Setups :
      /\ d \in Database /\ \A w \in Week : Cardinality(Live(d, w)) <= 1 /\ Agreed(d, w)
      /\ \A e \in Ids : LET row == d.entry[e] IN
           /\ ~row.off
           /\ row.at = "live" /\ row.who = Overseer => row.held /\ visitOfWeek(d, row.week)
           /\ row.aside => /\ row.at = "gone" /\ row.held /\ row.who # Overseer
                           /\ visitOfWeek(d, row.week) /\ Seen(d.line[row.week])
                           /\ d.visit.prev # NoOne /\ \A f \in Ids : d.entry[f].aside => f = e
      /\ d.visit.prev # Overseer
      /\ (d.visit.at # "on" => ~d.visit.done) /\ (~d.visit.done => d.visit.prev = NoPrev)

----------------------------------------------------------------------------
(* The journal into the programme. *)

\* `row` is the entry as its request saved it, not as it stands by now.
applyIncomingToProgram(d, e, row, overwrite) ==
    LET w == row.week
        l == d.line[w]
        linkedHere == l.link = e
        speakerSame == l.who = row.who
        conflict == ~linkedHere /\ l.who # NoOne
    IN  CASE ~row.held \/ row.off \/ ~Seen(l) -> d
          [] Seen(l) /\ l.at = "cancelled" /\ row.held /\ ~row.off ->
               IF WeekTaken(d, e, row) THEN d ELSE Put(d, e, [row EXCEPT !.off = TRUE])
          [] OTHER ->
               IF (speakerSame /\ linkedHere) \/ ~programmeOpen(w)
                    \/ (~speakerSame /\ conflict /\ ~overwrite)
               THEN d
               ELSE SetLine(d, w, [l EXCEPT !.who = row.who, !.link = e])

ApplyNow(d, e) == applyIncomingToProgram(d, e, d.entry[e], FALSE)

fillEmptySlot(d, w) ==
    LET e == weekEntry(d, w) IN
    IF d.line[w].at = "on" /\ ~d.line[w].removed /\ d.line[w].who = NoOne /\ e # NoEntry
    THEN ApplyNow(d, e) ELSE d

clearProgramSlot(d, e, row) ==
    LET l == d.line[row.week]
        its == IF l.link # NoEntry THEN l.link = e ELSE l.who = row.who
    IN  IF Seen(l) /\ programmeOpen(row.week) /\ l.who # NoOne /\ its
        THEN SetLine(d, row.week, [l EXCEPT !.who = NoOne, !.link = NoEntry])
        ELSE d

\* (for a mutant) the week an entry left goes on showing it
releaseLineNot(d, w, e) == d

releaseLine(d, w, e) ==
    IF Seen(d.line[w]) /\ d.line[w].link = e
    THEN clearProgramSlot(d, e, [d.entry[e] EXCEPT !.week = w]) ELSE d

(* The programme into the journal. *)

\* A line brought back from removal brings its own removed entry.
LineRestored(d, w, restored) ==
    LET e == d.line[w].link IN
    IF /\ restored /\ Seen(d.line[w]) /\ weekEntry(d, w) = NoEntry /\ e # NoEntry
       /\ d.entry[e].at = "gone" /\ d.entry[e].held /\ d.entry[e].week = w
    THEN Undelete(d, e) ELSE d

\* (for a mutant) the link is emptied with the value an empty name has
EmptiedAsName(d, w, e) ==
    IF e # NoEntry /\ d.entry[e].hand # "app" /\ Seen(d.line[w])
    THEN SetLine(d, w, [d.line[w] EXCEPT !.link = NoOne]) ELSE d

\* Nobody in the line: an entry of the application's goes, the coordinator's stays.
Emptied(d, w, e) ==
    CASE e = NoEntry -> d
      [] e # NoEntry /\ d.entry[e].hand = "app" -> softDelete(d, e)
      [] OTHER -> IF Seen(d.line[w]) /\ d.line[w].link = e /\ programmeOpen(w)
                  THEN SetLine(d, w, [d.line[w] EXCEPT !.link = NoEntry]) ELSE d

\* Somebody in the line: the week's entry is rewritten to him, or made, and linked.
Mirrored(d, w, e) ==
    LET x == IF e = NoEntry THEN NewId(d) ELSE e
        d2 == IF e = NoEntry THEN Put(d, x, NewRow(w, d.line[w].who, "app"))
              ELSE [d EXCEPT !.entry[e].who = d.line[w].who]
    IN  IF programmeOpen(w) THEN SetLine(d2, w, [d.line[w] EXCEPT !.link = x]) ELSE d2

syncProgramToJournal(d0, w, speakerChanged, restored) ==
    LET d == LineRestored(d0, w, restored)
        l == d.line[w]
        e == weekEntry(d, w)
    IN  CASE Seen(l) /\ l.at = "cancelled" ->
               IF e = NoEntry THEN d ELSE [d EXCEPT !.entry[e].off = TRUE]
          [] e # NoEntry /\ d.entry[e].off /\ ~weekCancelled(d, w) ->
               ApplyNow([d EXCEPT !.entry[e].off = FALSE], e)
          [] OTHER ->
               IF ~speakerChanged
               THEN IF e # NoEntry /\ (l.link # e \/ l.who = NoOne) THEN ApplyNow(d, e) ELSE d
               ELSE IF ~Seen(l) \/ l.who = NoOne THEN Emptied(d, w, e) ELSE Mirrored(d, w, e)

----------------------------------------------------------------------------
(* The visit. *)
IsHis(row) == row.his \/ row.who = Overseer
overseerEntries(d, w, at) ==
    {e \in Ids : LET r == d.entry[e] IN
                 r.at = at /\ r.held /\ ~r.aside /\ r.week = w /\ IsHis(r)}
setAside(d, e) == softDelete([d EXCEPT !.entry[e].aside = TRUE], e)

\* Whoever was to speak steps aside, once the weekend has a programme.
StepAside(d, w) ==
    LET e == weekEntry(d, w) IN
    IF Seen(d.line[w]) /\ e # NoEntry /\ ~IsHis(d.entry[e]) THEN setAside(d, e) ELSE d

Linked(d, w) ==
    LET e == weekEntry(d, w) IN
    IF e # NoEntry /\ IsHis(d.entry[e]) THEN [d EXCEPT !.entry[e].his = TRUE] ELSE d

\* A visit taken away and put back: its own entry comes back.
OwnBack(d, w) ==
    LET gone == overseerEntries(d, w, "gone")
        back == LastOf(d, gone)
    IN  IF weekEntry(d, w) = NoEntry /\ gone # {}
        THEN Put(d, back, [d.entry[back] EXCEPT !.at = "live", !.his = TRUE]) ELSE d

\* No programme yet: the entry is written from the visit itself.
FromVisit(d, w) ==
    LET e == weekEntry(d, w) IN
    CASE e = NoEntry -> Put(d, NewId(d), [NewRow(w, Overseer, "own") EXCEPT !.his = TRUE])
      [] e # NoEntry /\ IsHis(d.entry[e]) -> [d EXCEPT !.entry[e].who = Overseer]
      [] OTHER -> d

circuitVisitApplied(d, w) ==
    IF ~visitOfWeek(d, w) THEN d
    ELSE LET d1 == OwnBack(Linked(StepAside(d, w), w), w) IN
         IF Seen(d.line[w]) THEN Linked(syncProgramToJournal(d1, w, TRUE, FALSE), w)
         ELSE FromVisit(d1, w)

Bring(d, e) == Put(d, e, [d.entry[e] EXCEPT !.at = "live", !.aside = FALSE])

\* (for a mutant) back comes the guest, whoever stands in the week by now
returnEntryAnyway(d, w) ==
    LET marked == {e \in Ids : d.entry[e].aside /\ d.entry[e].at = "gone" /\ d.entry[e].week = w}
    IN  IF marked = {} THEN d ELSE Bring(d, LastOf(d, marked))

\* By the visit's mark; without one, the latest removed entry the line names again.
returnEntry(d, w) ==
    LET marked == {e \in Ids : d.entry[e].aside /\ d.entry[e].at = "gone" /\ d.entry[e].week = w}
        named == {e \in Ids : /\ Seen(d.line[w]) /\ d.entry[e].at = "gone" /\ d.entry[e].held
                              /\ d.entry[e].week = w /\ d.entry[e].who = d.line[w].who}
    IN  CASE weekEntry(d, w) # NoEntry -> d
          [] weekEntry(d, w) = NoEntry /\ marked # {} -> Bring(d, LastOf(d, marked))
          [] OTHER -> IF named = {} THEN d ELSE Undelete(d, LastOf(d, named))

\* Those of the overseer's that stand in a week are one or none: the week has one live entry.
Gone(d, S) == IF S = {} THEN d ELSE softDelete(d, CHOOSE e \in S : TRUE)

\* (for a mutant) the overseer's entry goes, and nobody comes back
circuitVisitRemovedOnly(d, w) == Gone(d, overseerEntries(d, w, "live"))

circuitVisitRemoved(d, w) ==
    syncProgramToJournal(returnEntry(Gone(d, overseerEntries(d, w, "live")), w), w, TRUE, FALSE)

\* (for a mutant) the entry moves, and the week left behind stays without its guest
circuitVisitMovedOn(d, from, to) ==
    LET mine == overseerEntries(d, from, "live") IN
    IF mine = {} THEN d ELSE [d EXCEPT !.entry[CHOOSE e \in mine : TRUE].week = to]

circuitVisitMoved(d, from, to) ==
    LET mine == overseerEntries(d, from, "live")
        taken == Live(d, to) # {}
        d1 == IF taken \/ mine = {} THEN Gone(d, mine)
              ELSE [d EXCEPT !.entry[CHOOSE e \in mine : TRUE].week = to]
    IN  syncProgramToJournal(returnEntry(d1, from), from, TRUE, FALSE)

\* The template: the line is handed over once, and remembers from whom.
templateApply(d) ==
    LET v == d.visit
        w == v.week
        l == d.line[w]
        handOver == Seen(l) /\ v.prev = NoPrev /\ (v.done => l.who # Overseer)
    IN  IF v.at # "on" \/ ~programmeOpen(w) \/ l.at = "none" THEN d
        ELSE [d EXCEPT !.visit.done = TRUE,
                       !.visit.prev = IF ~handOver THEN @
                                      ELSE IF l.who = Overseer THEN NoOne ELSE l.who,
                       !.line[w].who = IF handOver THEN Overseer ELSE @]

\* The line gets back whom the visit, as its request read it, remembers.
templateRevert(d, v) ==
    IF ~v.done THEN d
    ELSE [d EXCEPT !.visit = [v EXCEPT !.done = FALSE, !.prev = NoPrev],
                   !.line[v.week].who = IF v.prev # NoPrev /\ Seen(d.line[v.week])
                                        THEN v.prev ELSE @]

syncSpeaker(d) ==
    IF d.visit.done /\ Seen(d.line[d.visit.week]) THEN [d EXCEPT !.line[d.visit.week].who = Overseer]
    ELSE d

----------------------------------------------------------------------------
\* What the morning check says of a week that has a line.
mismatch(d, w) ==
    LET l == d.line[w]
        e == weekEntry(d, w)
        his == l.who = Overseer \/ (e # NoEntry /\ d.entry[e].who = Overseer)
    IN  IF ~Seen(l) THEN "none"
        ELSE IF l.at = "cancelled"
             THEN IF e # NoEntry /\ ~d.entry[e].off THEN "cancel_unmarked" ELSE "none"
        ELSE IF his /\ ~visitOfWeek(d, w) THEN "overseer_without_visit"
        ELSE IF e = NoEntry THEN IF l.who = NoOne THEN "none" ELSE "no_entry"
        ELSE IF d.entry[e].off \/ l.who = d.entry[e].who THEN "none"
        ELSE IF l.who = NoOne THEN "empty_line" ELSE "other_speaker"

----------------------------------------------------------------------------
(* Requests. *)
NoBack == [w |-> 0]
Idle == [todo |-> <<>>, back |-> NoBack]

Call == [call: {"apply"}, e: Ids, row: Row, ow: BOOLEAN]
        \cup [call: {"saveEntry"}, e: Ids, row: Row, was: Row, ow: BOOLEAN]
        \cup [call: {"write", "clear"}, e: Ids, row: Row]
        \cup [call: {"delete"}, e: Ids]
        \cup [call: {"release", "name"}, w: Week, e: Ids]
        \cup [call: {"fill", "template", "applied", "adopt", "speaker", "visitRemoved"}, w: Week]
        \cup [call: {"saveLine"}, w: Week, l: Line]
        \cup [call: {"sync"}, w: Week, changed: BOOLEAN, restored: BOOLEAN]
        \cup [call: {"move"}, e: Ids \cup {NoEntry}, to: Week, x: Ids \cup {NoEntry}, from: Week]
        \cup [call: {"saveVisit", "revert"}, v: Visit]
        \cup [call: {"visitMoved"}, from: Week, to: Week]
        \cup [call: {"deleteVisit"}]
Back == [w: Week, lines: Seq(Line), rows: Seq(Ids \X Row)]
Job == [todo: Seq(Call), back: Back \cup {NoBack}]
Busy(r) == job[r].todo # <<>>

VisitKinds == {"addVisit", "saveVisit", "moveVisit", "removeVisit", "restoreVisit"}

\* History: what the beginning of a request adds to `past`.
Causes == {"overlap", "put back", "line back", "line emptied", "cancelled", "beside a visit"}
LeavesBehind(r, kind, d, calls) ==
    {c \in Causes :
       \/ c = "overlap" /\ \E x \in Requests \ {r} : Busy(x)
       \/ c = "line back" /\ kind = "restoreLine"
       \/ c = "line emptied" /\ kind = "editLine" /\ calls[1].l.who = NoOne
       \/ c = "cancelled" /\ kind = "cancelLine"
       \/ c = "beside a visit" /\ kind \notin VisitKinds /\ db.visit.at = "on"}

\* A week a visit comes to that is as it should be: journal and line agree, an entry counts and
\* has its line if the application wrote it, and no earlier visit left anything behind.
InOrder(d, w) ==
    /\ ~weekCancelled(d, w) /\ d.line[w].who # Overseer /\ mismatch(d, w) = "none"
    /\ \A e \in Live(d, w) : LET row == d.entry[e] IN
         ~IsHis(row) /\ ~row.off /\ ~row.aside /\ (row.hand = "app" => Seen(d.line[w]))
    /\ ~\E e \in Ids : d.entry[e].aside /\ d.entry[e].at = "gone" /\ d.entry[e].week = w

Unknown == [who |-> "unknown"]
AsFound(d, w) ==
    IF ~InOrder(d, w) THEN Unknown
    ELSE [who |-> IF Seen(d.line[w]) THEN d.line[w].who ELSE NoOne,
          rows |-> {[id |-> e, row |-> d.entry[e]] : e \in Live(d, w)}]

Arrives(kind, d, calls, w) ==
    IF kind = "moveVisit" THEN calls[2].v.week = w ELSE visitOfWeek(d, w) /\ ~visitOfWeek(db, w)

\* (Asked before the choices of a request too, so that they are not gone through in vain.)
Ready(r) == ~Busy(r) /\ used < MaxUsed

\* A request begins: what it does at once, and the calls it will make.
BeginWith(r, kind, d, calls, back) ==
    /\ ~Busy(r) /\ kind \in Operations[r]
    /\ used < MaxUsed /\ used' = used + 1
    /\ db' = d
    /\ job' = [job EXCEPT ![r] = [todo |-> calls, back |-> back]]
    /\ past' = past \cup LeavesBehind(r, kind, d, calls)
    /\ found' = [w \in Week |-> IF kind \notin VisitKinds THEN Unknown
                             ELSE IF Arrives(kind, d, calls, w) THEN AsFound(db, w) ELSE found[w]]
    /\ UNCHANGED over
Begin(r, kind, d, calls) == BeginWith(r, kind, d, calls, NoBack)

Apply(e, row, ow) == [call |-> "apply", e |-> e, row |-> row, ow |-> ow]
Sync(w, changed) == [call |-> "sync", w |-> w, changed |-> changed, restored |-> FALSE]
On(call, w) == [call |-> call, w |-> w]

(* The coordinator's journal. *)
CreateEntry(r) ==
    Ready(r) /\ \E w \in Week, g \in Guests, hand \in {"own", "noted"}, ow \in BOOLEAN :
      LET row == [NewRow(w, g, hand) EXCEPT !.off = weekCancelled(db, w)] IN
      /\ Live(db, w) = {} /\ Room(db)
      /\ Begin(r, "create", Put(db, NewId(db), row), <<Apply(NewId(db), row, ow)>>)

\* update reads the row, and saves it whole.
SaveAs(r, kind, e, row, ow) ==
    /\ ~WeekTaken(db, e, row)
    /\ Begin(r, kind, db, <<[call |-> "saveEntry", e |-> e, row |-> row, was |-> db.entry[e], ow |-> ow]>>)

ChangeSpeaker(r) ==
    Ready(r) /\ \E e \in Ids, g \in Guests, ow \in BOOLEAN :
      /\ db.entry[e].at = "live" /\ db.entry[e].who # g
      /\ SaveAs(r, "change", e, [db.entry[e] EXCEPT !.who = g], ow)

ShiftWeek(r) ==
    Ready(r) /\ \E e \in Ids, w \in Week, ow \in BOOLEAN :
      /\ Standing(db.entry[e]) /\ db.entry[e].week # w
      /\ SaveAs(r, "shift", e, [db.entry[e] EXCEPT !.week = w, !.off = weekCancelled(db, w)], ow)

Missed(r) ==
    \E e \in Ids :
      LET row == db.entry[e] IN
      /\ row.at = "live"
      /\ SaveAs(r, "missed", e, [row EXCEPT !.held = ~@, !.off = IF row.held THEN @ ELSE weekCancelled(db, row.week)], FALSE)

RemoveEntry(r) ==
    \E e \in Ids :
      /\ db.entry[e].at = "live"
      /\ Begin(r, "remove", db, <<[call |-> "clear", e |-> e, row |-> db.entry[e]],
                                  [call |-> "delete", e |-> e]>>)

\* A guest set aside goes to another weekend, and the visit no longer gives the line back to him.
moveSetAside(r) ==
    \E e \in Ids, w \in Week :
      LET row == [db.entry[e] EXCEPT !.week = w, !.at = "live", !.aside = FALSE,
                                     !.off = weekCancelled(db, w)]
          d == Put(db, e, row)
      IN  /\ db.entry[e].at = "gone" /\ db.entry[e].aside
          /\ programmeOpen(w) /\ ~visitOfWeek(db, w) /\ Live(db, w) = {}
          /\ Begin(r, "elsewhere",
                   [d EXCEPT !.visit.prev = IF d.visit.at = "on" /\ @ # NoPrev THEN NoOne ELSE @],
                   <<Apply(e, row, FALSE)>>)

(* The programme's line.  Only while the week is open. *)
NewLine(r) ==
    \E w \in Week, g \in Guests \cup {NoOne} :
      /\ db.line[w].at = "none" /\ programmeOpen(w)
      /\ Begin(r, "newLine",
               SetLine(db, w, [at |-> "on", removed |-> FALSE, who |-> g, link |-> NoEntry]),
               <<On("fill", w), Sync(w, g # NoOne), On("template", w), On("applied", w)>>)

SaveLineAs(r, kind, w, l) ==
    /\ Seen(db.line[w]) /\ programmeOpen(w)
    /\ Begin(r, kind, db, <<[call |-> "saveLine", w |-> w, l |-> l],
                            Sync(w, l.who # db.line[w].who)>>)

EditLine(r) ==
    \E w \in Week, g \in Guests \cup {NoOne} :
      SaveLineAs(r, "editLine", w, [db.line[w] EXCEPT !.who = g])

\* Cancelled, or given back.
CancelLine(r) ==
    \E w \in Week :
      SaveLineAs(r, "cancelLine", w, [db.line[w] EXCEPT !.at = IF @ = "on" THEN "cancelled" ELSE "on"])

RemoveLine(r) ==
    \E w \in Week :
      /\ Seen(db.line[w]) /\ programmeOpen(w)
      /\ Begin(r, "removeLine", SetLine(db, w, [db.line[w] EXCEPT !.removed = TRUE]), <<Sync(w, TRUE)>>)

RestoreLine(r) ==
    \E w \in Week :
      /\ db.line[w].removed /\ programmeOpen(w)
      /\ Begin(r, "restoreLine", SetLine(db, w, [db.line[w] EXCEPT !.removed = FALSE]),
               <<[call |-> "sync", w |-> w, changed |-> FALSE, restored |-> TRUE]>>)

\* Two weekends exchanged, or one moved onto a free one: lines first, entries after.
SwapTalks(r) ==
    \E s \in Week, t \in Week, swap \in BOOLEAN :
      LET ls == db.line[s]
          lt == db.line[t]
          es == weekEntry(db, s)
          et == weekEntry(db, t)
          back == IF swap THEN et ELSE NoEntry
      IN  /\ s # t /\ Seen(ls) /\ Seen(lt) /\ programmeOpen(s) /\ programmeOpen(t)
          /\ ~visitOfWeek(db, s) /\ ~visitOfWeek(db, t)
          /\ swap \/ et = NoEntry
          /\ Begin(r, "swap",
                   [db EXCEPT !.line[t] = [lt EXCEPT !.who = ls.who, !.link = ls.link],
                              !.line[s] = IF swap THEN [ls EXCEPT !.who = lt.who, !.link = lt.link]
                                          ELSE [ls EXCEPT !.who = NoOne, !.link = NoEntry]],
                   <<[call |-> "move", e |-> es, to |-> t, x |-> back, from |-> s], Sync(s, TRUE), Sync(t, TRUE)>>)

(* Another speaker came. *)
replaceSpeaker(r) ==
    \E w \in Week, g \in Guests :
      LET l == db.line[w]
          e == weekEntry(db, w)
          close == IF e = NoEntry THEN <<>>
                   ELSE <<[call |-> "write", e |-> e, row |-> [db.entry[e] EXCEPT !.held = FALSE]]>>
          was == IF e = NoEntry THEN <<>> ELSE <<<<e, db.entry[e]>>>>
      IN  /\ Seen(l) /\ programmeOpen(w) /\ l.who # g
          /\ BeginWith(r, "replace", db,
                close \o <<[call |-> "saveLine", w |-> w, l |-> [l EXCEPT !.who = g, !.link = NoEntry]],
                           Sync(w, TRUE), On("adopt", w)>>,
                [w |-> w, lines |-> <<l>>, rows |-> was])

undoReplacement(r) ==
    \E e \in Ids :
      LET row == db.entry[e]
          w == row.week
          x == weekEntry(db, w)
          free == CASE x = NoEntry -> <<>>
                    [] x # NoEntry /\ db.entry[x].hand = "noted" ->
                         <<[call |-> "write", e |-> x, row |-> [db.entry[x] EXCEPT !.held = FALSE]]>>
                    [] OTHER -> <<[call |-> "delete", e |-> x]>>
          was == IF x = NoEntry THEN <<<<e, row>>>> ELSE <<<<e, row>>, <<x, db.entry[x]>>>>
      IN  /\ row.at = "live" /\ ~row.held /\ programmeOpen(w)
          /\ BeginWith(r, "undo", db,
                free \o <<[call |-> "write", e |-> e, row |-> [row EXCEPT !.held = TRUE]],
                          [call |-> "name", w |-> w, e |-> e]>>,
                [w |-> w, lines |-> <<>>, rows |-> was])

(* The visit. *)
AddVisit(r) ==
    \E w \in Week :
      /\ db.visit.at = "none" /\ programmeOpen(w)
      /\ Begin(r, "addVisit", [db EXCEPT !.visit = [at |-> "on", week |-> w, done |-> FALSE, prev |-> NoPrev]],
               <<On("template", w), On("applied", w)>>)

\* update reads the visit and saves it whole; a week that is over is left as it was.
SaveVisit(r) ==
    LET w == db.visit.week IN
    /\ db.visit.at = "on" /\ programmeOpen(w)
    /\ Begin(r, "saveVisit", db, <<[call |-> "saveVisit", v |-> db.visit], On("template", w),
                                   On("speaker", w), On("applied", w)>>)

MoveVisit(r) ==
    \E w \in Week :
      LET v == db.visit IN
      /\ v.at = "on" /\ v.week # w /\ programmeOpen(v.week) /\ programmeOpen(w)
      /\ Begin(r, "moveVisit", db,
               <<[call |-> "revert", v |-> v],
                 [call |-> "saveVisit", v |-> [v EXCEPT !.week = w, !.done = FALSE, !.prev = NoPrev]],
                 On("template", w), [call |-> "visitMoved", from |-> v.week, to |-> w], On("applied", w)>>)

RemoveVisit(r) ==
    LET v == db.visit IN
    /\ v.at = "on" /\ programmeOpen(v.week)
    /\ Begin(r, "removeVisit", db,
             <<[call |-> "revert", v |-> v], On("visitRemoved", v.week), [call |-> "deleteVisit"]>>)

RestoreVisit(r) ==
    LET w == db.visit.week IN
    /\ db.visit.at = "gone" /\ programmeOpen(w)
    /\ Begin(r, "restoreVisit", [db EXCEPT !.visit.at = "on"], <<On("template", w), On("applied", w)>>)

----------------------------------------------------------------------------
(* The calls of a request, one step each. *)
Doing(r, call) == Busy(r) /\ job[r].todo[1].call = call
Args(r) == job[r].todo[1]

Ends(r, d, calls) ==
    /\ db' = d
    /\ job' = [job EXCEPT ![r] = IF calls = <<>> THEN Idle ELSE [@ EXCEPT !.todo = calls]]
    /\ UNCHANGED <<over, used, history>>
Done(r, d) == Ends(r, d, Tail(job[r].todo))

RunApply(r) ==
    /\ Doing(r, "apply")
    /\ LET c == Args(r) IN Done(r, applyIncomingToProgram(db, c.e, c.row, c.ow))

\* Refused in words when the week was taken meanwhile.
saveEntry(r) ==
    /\ Doing(r, "saveEntry")
    /\ LET c == Args(r)
           left == Standing(c.was) /\ (~c.row.held \/ c.row.week # c.was.week)
       IN  IF WeekTaken(db, c.e, c.row) THEN Ends(r, db, <<>>)
           ELSE Ends(r, Put(db, c.e, c.row),
                     (IF left THEN <<[call |-> "release", w |-> c.was.week, e |-> c.e]>> ELSE <<>>)
                       \o <<Apply(c.e, c.row, c.ow)>>)

RunRelease(r) == Doing(r, "release") /\ Done(r, releaseLine(db, Args(r).w, Args(r).e))
RunClear(r) == Doing(r, "clear") /\ Done(r, clearProgramSlot(db, Args(r).e, Args(r).row))
RunDelete(r) == Doing(r, "delete") /\ Done(r, softDelete(db, Args(r).e))
RunFill(r) == Doing(r, "fill") /\ Done(r, fillEmptySlot(db, Args(r).w))
SaveLine(r) == Doing(r, "saveLine") /\ Done(r, SetLine(db, Args(r).w, Args(r).l))
RunSync(r) ==
    /\ Doing(r, "sync") /\ Room(db)
    /\ Done(r, syncProgramToJournal(db, Args(r).w, Args(r).changed, Args(r).restored))

\* In one transaction: out of the weeks, the new dates, and back.
MovedTo(d, e, w) ==
    IF e = NoEntry THEN d ELSE Put(d, e, [d.entry[e] EXCEPT !.at = "live", !.week = w])
Moved(d, c) == MovedTo(MovedTo(d, c.e, c.to), c.x, c.from)
moveWeekEntries(r) ==
    /\ Doing(r, "move")
    /\ LET d == Moved(db, Args(r)) IN
       IF \E w \in Week : Cardinality(Live(d, w)) > 1 THEN Ends(r, db, <<>>) ELSE Done(r, d)

\* A whole row saved; the database refuses a second one for the week.
RunWrite(r) ==
    /\ Doing(r, "write") /\ ~WeekTaken(db, Args(r).e, Args(r).row)
    /\ Done(r, Put(db, Args(r).e, Args(r).row))
RunAdopt(r) ==
    /\ Doing(r, "adopt")
    /\ LET e == weekEntry(db, Args(r).w) IN
       Done(r, IF e # NoEntry /\ db.entry[e].hand = "app" THEN [db EXCEPT !.entry[e].hand = "own"] ELSE db)
RunName(r) ==
    /\ Doing(r, "name")
    /\ LET c == Args(r) IN
       Done(r, IF Seen(db.line[c.w])
               THEN SetLine(db, c.w, [db.line[c.w] EXCEPT !.who = db.entry[c.e].who, !.link = c.e]) ELSE db)

RunTemplate(r) ==
    Doing(r, "template") /\ Done(r, IF visitOfWeek(db, Args(r).w) THEN templateApply(db) ELSE db)
RunApplied(r) ==
    Doing(r, "applied") /\ Room(db) /\ Done(r, IF programmeOpen(Args(r).w) THEN circuitVisitApplied(db, Args(r).w) ELSE db)
RunSaveVisit(r) == Doing(r, "saveVisit") /\ Done(r, [db EXCEPT !.visit = Args(r).v])
RunSpeaker(r) == Doing(r, "speaker") /\ Done(r, syncSpeaker(db))
RunRevert(r) == Doing(r, "revert") /\ Done(r, templateRevert(db, Args(r).v))
RunVisitMoved(r) == Doing(r, "visitMoved") /\ Room(db) /\ Done(r, circuitVisitMoved(db, Args(r).from, Args(r).to))
RunVisitRemoved(r) == Doing(r, "visitRemoved") /\ Room(db) /\ Done(r, circuitVisitRemoved(db, Args(r).w))
DeleteVisit(r) == Doing(r, "deleteVisit") /\ Done(r, [db EXCEPT !.visit.at = "gone"])

\* A call of a replacement, or of its undoing, failed or is refused by the database: the week is
\* put back as it was read.
RowBack(d, x) == IF WeekTaken(d, x[1], x[2]) THEN d ELSE Put(d, x[1], x[2])
Restored(d, rows) ==
    CASE Len(rows) = 0 -> d
      [] Len(rows) = 1 -> RowBack(d, rows[1])
      [] OTHER -> RowBack(RowBack(d, rows[1]), rows[2])
\* (for a mutant) the new man's entry is left standing
FreshGoneNot(d, b) == d
FreshGone(d, b) ==
    LET e == weekEntry(d, b.w) IN
    IF b.lines # <<>> /\ b.rows # <<>> /\ e # NoEntry /\ e # b.rows[1][1] THEN softDelete(d, e) ELSE d
Taken(r) == Doing(r, "write") /\ WeekTaken(db, Args(r).e, Args(r).row)
PutBack(r) ==
    /\ Busy(r) /\ job[r].back # NoBack
    /\ IF Taken(r) THEN UNCHANGED used ELSE used < MaxUsed /\ used' = used + 1
    /\ LET b == job[r].back
           d == IF b.lines = <<>> THEN db ELSE SetLine(db, b.w, b.lines[1])
       IN  db' = Restored(FreshGone(d, b), b.rows)
    /\ job' = [job EXCEPT ![r] = Idle]
    /\ past' = IF job[r].back.rows = <<>> THEN past \cup {"put back"} ELSE past
    /\ UNCHANGED <<over, found>>

\* The process stops, or a call of any other request fails.
Lose(r) ==
    /\ Busy(r) /\ used < MaxUsed /\ used' = used + 1
    /\ job' = [job EXCEPT ![r] = Idle]
    /\ past' = past \cup {"overlap"} /\ found' = [w \in Week |-> Unknown]
    /\ UNCHANGED <<db, over>>

\* A week ends, and its programme is the record.
Tick ==
    /\ over < Weeks /\ over' = over + 1
    /\ past' = IF \E r \in Requests : Busy(r) THEN past \cup {"overlap"} ELSE past
    /\ found' = [w \in Week |-> Unknown]
    /\ UNCHANGED <<db, job, used>>

----------------------------------------------------------------------------
Init ==
    /\ db \in Setups /\ over = 0
    /\ job = [r \in Requests |-> Idle] /\ used = 0
    /\ past = {} /\ found = [w \in Week |-> Unknown]

Begins(r) ==
    \/ CreateEntry(r) \/ ChangeSpeaker(r) \/ ShiftWeek(r) \/ Missed(r) \/ RemoveEntry(r) \/ moveSetAside(r)
    \/ NewLine(r) \/ EditLine(r) \/ CancelLine(r) \/ RemoveLine(r) \/ RestoreLine(r)
    \/ SwapTalks(r) \/ replaceSpeaker(r) \/ undoReplacement(r)
    \/ AddVisit(r) \/ SaveVisit(r) \/ MoveVisit(r) \/ RemoveVisit(r) \/ RestoreVisit(r)

Steps(r) ==
    \/ RunApply(r) \/ saveEntry(r) \/ RunRelease(r) \/ RunClear(r) \/ RunDelete(r) \/ RunFill(r)
    \/ SaveLine(r) \/ RunSync(r) \/ moveWeekEntries(r) \/ RunWrite(r) \/ RunAdopt(r) \/ RunName(r)
    \/ RunTemplate(r) \/ RunApplied(r) \/ RunSaveVisit(r) \/ RunSpeaker(r) \/ RunRevert(r)
    \/ RunVisitMoved(r) \/ RunVisitRemoved(r) \/ DeleteVisit(r)

Next == (\E r \in Requests : Begins(r) \/ Steps(r) \/ PutBack(r) \/ Lose(r)) \/ Tick

Spec == Init /\ [][Next]_vars

----------------------------------------------------------------------------
(* Properties. *)

\* Every variable has its type.
TypeOK ==
    /\ db \in Database /\ over \in 0..Weeks /\ used \in 0..MaxUsed /\ past \subseteq Causes
    /\ job \in [Requests -> Job]

\* A week never has two live entries, whichever of the journal, the line and the visit wrote
\* them and however their calls mix: every reader picks the week's one entry.
OneGuestAWeek == \A w \in Week : Cardinality(Live(db, w)) <= 1

Quiet == \A r \in Requests : ~Busy(r)
OneAtATime == "overlap" \notin past

\* While requests come one at a time and run to their end, and no line is brought back from
\* removal - it comes back as it went, whatever the journal says by now -, a week ahead on which
\* the morning check would find journal and programme apart is one where something out of the
\* ordinary was done.  Only where a weekend was cancelled can an entry miss the mark, or a line
\* name whom the journal does not know or does not mean; only a request of another kind made while
\* the visit stood lets the overseer outlast it; and an empty line beside an entry comes of one of
\* these, of a line emptied by hand, or of a replacement that failed where nobody was entered.
\* Bookings, changes, moves, swaps, removals, replacements and their undoing, and the whole life of
\* a visit on its own leave the two saying the same.
MismatchHasCause ==
    OneAtATime /\ Quiet /\ "line back" \notin past => \A w \in Week : programmeOpen(w) =>
      LET m == mismatch(db, w) IN
      /\ m \in {"cancel_unmarked", "no_entry", "other_speaker"} => "cancelled" \in past
      /\ m = "overseer_without_visit" => "beside a visit" \in past
      /\ m = "empty_line" => past \cap {"cancelled", "line emptied", "put back", "beside a visit"} # {}

\* The journal owns who speaks: no line of a week ahead goes on naming another than the week's
\* entry.  A line removed, its speaker changed in the journal, and the line put back: it names
\* the old one.
LineShowsTheJournal ==
    OneAtATime /\ Quiet => \A w \in Week : programmeOpen(w) => mismatch(db, w) # "other_speaker"

\* A visit leaves a week as it found it - the same man in the line, the same entry with its note
\* in the journal - whether it was taken away, or moved on, however often it was saved, moved,
\* removed and put back, when nobody else touched the weeks meanwhile.  (Compared are weeks that
\* were in order when the visit came: in others its going brings the journal after the line.)
RoundTrip ==
    OneAtATime /\ Quiet => \A w \in Week :
      ~visitOfWeek(db, w) /\ found[w] # Unknown => AsFound(db, w) = found[w]

\* Whatever was done to the week while the visit stood, its removal does not end with the line
\* naming somebody, a guest still set aside for the week, and no entry to speak by.  (Where the
\* line is empty, the week is empty: an entry of the application's that stood there goes with it.
\* A line brought back from removal may bring back an entry still marked as set aside.)
GuestComesBack ==
    [][\A r \in Requests, e \in Ids :
         LET w == db.visit.week IN
         /\ OneAtATime /\ "line back" \notin past /\ DeleteVisit(r)
         /\ db.entry[e].aside /\ db.entry[e].at = "gone" /\ db.entry[e].week = w
         /\ Seen(db.line[w]) /\ db.line[w].who # NoOne
         => weekEntry(db', w) # NoEntry]_vars

\* A replacement, or its undoing, that fails at any of its calls leaves the line and the entries
\* it read as it read them, and no entry of the new man's in the week.
WeekAsRead(d, b) ==
    /\ b.lines # <<>> => d.line[b.w] = b.lines[1]
    /\ \A i \in 1..Len(b.rows) : d.entry[b.rows[i][1]] = b.rows[i][2]
    /\ Live(d, b.w) \subseteq {b.rows[i][1] : i \in 1..Len(b.rows)}
ReplacementWhole ==
    [][\A r \in Requests :
         OneAtATime /\ PutBack(r) /\ job[r].back.rows # <<>> => WeekAsRead(db', job[r].back)]_vars
=============================================================================
