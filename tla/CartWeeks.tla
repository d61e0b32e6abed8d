----------------------------- MODULE CartWeeks -----------------------------
(***************************************************************************)
(* One week at the public-witnessing stand: its days (a place on a date    *)
(* with hours), the plan of who stands when, the wishes people leave, the  *)
(* parts called off, and what each person has been told of his own time.   *)
(*                                                                         *)
(* The server answers requests concurrently.  assign and updateAssignment  *)
(* run a transaction that takes the day's row lock and then an advisory    *)
(* lock on the person; every other handler reads first and writes later    *)
(* with no lock of its own, so other requests run in between.  A request   *)
(* in flight is a job.  A lock is held exactly while its holder's job is   *)
(* inside the transaction, as PostgreSQL releases it at commit or abort.   *)
(* Not modelled: what the managers and the hopeful are told, the journal,  *)
(* partners named in a wish, a change of a card's approval.                *)
(*                                                                         *)
(* Time is counted in half-hours, Slots of them to a date.                 *)
(***************************************************************************)
EXTENDS CartRota

CONSTANTS
    PlaceOf,         \* the location of each day
    MinSpan,         \* MIN_SPAN in half-hours
    CorrectionDays,  \* CORRECTION_DAYS
    Spans,           \* the from-to spans the requests may name
    Moments,         \* the instants at which the clock is looked at
    Requests,        \* requests in flight at the same time
    Operations,      \* the handlers that are called in the instance
    MaxWishes, MaxOff, MaxJobs  \* bounds of the instance

Span == [from: 0..Slots, to: 0..Slots]
Wish == [id: Nat, day: Days, who: Holders, from: 0..Slots, to: 0..Slots, late: BOOLEAN]
CalledOff == [id: Nat, day: Days, from: 0..Slots, to: 0..Slots]
Statuses == {"none", "draft", "collecting", "published", "gone"}

ASSUME CartConstants ==
    /\ Days # {}
    /\ MinSpan \in Nat \ {0}
    /\ CorrectionDays \in Nat
    /\ Spans \subseteq Span
    /\ Moments \subseteq Nat
    /\ MaxWishes \in Nat /\ MaxOff \in Nat /\ MaxJobs \in Nat

VARIABLES
    status,    \* the week row: its status, or that there is none
    planned,   \* each day row: "never" made, "planned", or "gone"
    hours,     \* startTime and endTime of each day
    issued,    \* ids given out so far
    wishes,    \* cart_requests; late: made after publication
    off,       \* cart_cancellations
    told,      \* the instants the holder of each place was last told he stands
    heard,     \* the keys that are used up, by person: 0 of the publication, k of a putting back
    job,       \* the requests in flight
    begun,     \* requests begun so far, for the bound MaxJobs
    raced,     \* history: a write rested on a reading others had outdated, or a message was lost
    now        \* the congregation's clock

vars == <<status, planned, hours, plan, issued, wishes, off, told, heard, job, begun,
          raced, now>>

----------------------------------------------------------------------------
(* cart-time.ts: spans, half-hours, what is left once parts are called off *)

SpanOf(x) == [from |-> x.from, to |-> x.to]
windowFits(s) == s.to >= s.from + MinSpan
spanFits(s, h) == windowFits(s) /\ h.from <= s.from /\ s.to <= h.to

Instant(d, t) == DateOf[d] * Slots + t
HasBegun(d, t, n) == Instant(d, t) <= n
IsLocked(d, n) == Instant(d, 0) + (CorrectionDays + 1) * Slots <= n

calledOff(d, s) == \E o \in off : o.day = d /\ overlaps(o, s)

\* The instants of a span, and those of a place neither called off nor over.
Instants(d, s) == {Instant(d, t) : t \in {u \in 0..Slots : covers(s, u)}}
ahead(i, n) ==
    IF plan[i] = NoPlace THEN {}
    ELSE {m \in Instants(plan[i].day, plan[i]) :
             /\ m + 1 > n
             /\ \A o \in off : o.day = plan[i].day => m \notin Instants(o.day, o)}

----------------------------------------------------------------------------
(* Jobs and the locks they hold *)

NoJob == [kind |-> "idle"]
Kinds == {"assign", "update", "remove", "cancelMine", "request", "callOff", "putBack",
          "updateDay", "deleteDay", "open", "publish", "deleteWeek"}
Steps == {"begun", "inDay", "inBoth", "checked", "tell"}
AJob == [kind: Kinds, step: Steps, id: Nat, day: Days, who: Holders, from: 0..Slots,
         to: 0..Slots, was: Span, seen: Statuses, at: Nat]

Busy(r) == job[r].kind # "idle"
HoldsDay(r, d) == Busy(r) /\ job[r].step \in {"inDay", "inBoth"} /\ job[r].day = d
\* Mutant: the person's lock is taken together with the day's.
HoldsPersonEarly(r, p) ==
    Busy(r) /\ job[r].step \in {"inDay", "inBoth"} /\ job[r].who = p
HoldsPerson(r, p) == Busy(r) /\ job[r].step = "inBoth" /\ job[r].who = p
\* Mutants: no row lock on the day, no advisory lock on the person.
DayFreeAlways(d) == TRUE
PersonFreeAlways(p) == TRUE
DayFree(d) == \A r \in Requests : ~HoldsDay(r, d)
PersonFree(p) == \A r \in Requests : ~HoldsPerson(r, p)

AnyDay == CHOOSE d \in Days : TRUE
NoSpan == [from |-> 0, to |-> 0]

Begin(r, kind, step, i, d, who, s, was) ==
    /\ kind \in Operations
    /\ ~Busy(r)
    /\ begun < MaxJobs
    /\ begun' = begun + 1
    /\ job' = [job EXCEPT ![r] =
                 [kind |-> kind, step |-> step, id |-> i, day |-> d, who |-> who,
                  from |-> s.from, to |-> s.to, was |-> was, seen |-> status, at |-> now]]
    /\ UNCHANGED <<status, planned, hours, plan, issued, wishes, off, told, heard, raced, now>>

At(r, kinds, step) == job[r].kind \in kinds /\ job[r].step = step
GoTo(r, step) == job' = [job EXCEPT ![r].step = step]
Done(r) == job' = [job EXCEPT ![r] = NoJob]
InFlight(kinds) == {r \in Requests : job[r].kind \in kinds}

\* Mutant: nobody is told.
ThenDone(r) == Done(r)
\* A handler tells people only of a week it read as published.
ThenTell(r) == IF job[r].seen = "published" THEN GoTo(r, "tell") ELSE Done(r)

\* The handler read the week before it was published and writes after.
Outdated(r) == status = "published" /\ job[r].seen # "published"

----------------------------------------------------------------------------
Init ==
    /\ status \in {"none", "draft", "collecting", "published"}
    /\ planned = [d \in Days |-> IF status = "none" THEN "never" ELSE "planned"]
    /\ hours = [d \in Days |-> [from |-> 0, to |-> Slots]]
    /\ plan = [i \in Ids |-> NoPlace]
    /\ issued = 0
    /\ wishes = {}
    /\ off = {}
    /\ told = [i \in Ids |-> {}]
    /\ heard = {}
    /\ job = [r \in Requests |-> NoJob]
    /\ begun = 0
    /\ raced = FALSE
    /\ now \in {n \in Moments : \A m \in Moments : n <= m}

Tick ==
    /\ \E n \in Moments : n > now /\ now' = n
    /\ UNCHANGED <<status, planned, hours, plan, issued, wishes, off, told, heard, job,
                   begun, raced>>

\* buildWeek and copyWeek: days are only ever added, one transaction under an
\* advisory lock on the week; a day already over, or there already, is left out.
BuildWeek(S, s) ==
    /\ "build" \in Operations
    /\ status # "gone"
    /\ S # {} /\ windowFits(s)
    /\ \A d \in S : /\ planned[d] = "never"
                    /\ ~HasBegun(d, s.to, now)
    /\ \A d \in S, e \in Days :
          (e # d /\ (e \in S \/ planned[e] = "planned"))
              => <<DateOf[e], PlaceOf[e]>> # <<DateOf[d], PlaceOf[d]>>
    /\ status' = IF status = "none" THEN "draft" ELSE status
    /\ planned' = [d \in Days |-> IF d \in S THEN "planned" ELSE planned[d]]
    /\ hours' = [d \in Days |-> IF d \in S THEN SpanOf(s) ELSE hours[d]]
    /\ UNCHANGED <<plan, issued, wishes, off, told, heard, job, begun, raced, now>>

----------------------------------------------------------------------------
(* assign and updateAssignment: a transaction under the day's row lock and *)
(* then the person's advisory lock                                         *)

BeginAssign(r, d, who, s) ==
    /\ status \notin {"none", "gone"}
    /\ issued + Cardinality(InFlight({"assign"})) < MaxPlaces
    /\ Begin(r, "assign", "begun", 0, d, who, s, NoSpan)

\* The place is read before the day is locked; its holder and day never change.
BeginUpdate(r, i, s) ==
    /\ plan[i] # NoPlace
    /\ Begin(r, "update", "begun", i, plan[i].day, plan[i].who, s, SpanOf(plan[i]))

\* Mutant: who else stands there is not counted.
DayAllowsUncounted(r) ==
    LET d == job[r].day IN
    /\ planned[d] = "planned"
    /\ status \in {"collecting", "published"}
    /\ ~IsLocked(d, job[r].at)
    /\ spanFits(job[r], hours[d])
    /\ ~calledOff(d, job[r])

\* The place itself is left out when it is moved.
exceptId(j) == IF j.kind = "assign" THEN 0 ELSE j.id

\* What lockDay, assertOpenForChange, assertSpan and assertFree let through.
DayAllows(r) ==
    LET d == job[r].day IN
    /\ planned[d] = "planned"
    /\ status \in {"collecting", "published"}
    /\ ~IsLocked(d, job[r].at)
    /\ spanFits(job[r], hours[d])
    /\ ~calledOff(d, job[r])
    /\ ~overfull(d, job[r], exceptId(job[r]))

LockDay(r) ==
    /\ At(r, {"assign", "update"}, "begun")
    /\ DayFree(job[r].day)
    /\ job' = [job EXCEPT ![r] = IF DayAllows(r)
                                 THEN [@ EXCEPT !.step = "inDay", !.seen = status]
                                 ELSE NoJob]
    /\ UNCHANGED <<status, planned, hours, plan, issued, wishes, off, told, heard, begun, raced, now>>

LockPerson(r) ==
    /\ At(r, {"assign", "update"}, "inDay")
    /\ job[r].who \in People => PersonFree(job[r].who)
    /\ IF job[r].who \in People /\ clash(job[r].who, job[r].day, job[r], exceptId(job[r]))
       THEN Done(r)
       ELSE GoTo(r, "inBoth")
    /\ UNCHANGED <<status, planned, hours, plan, issued, wishes, off, told, heard, begun, raced, now>>

\* em.save inserts a row again that was deleted since it was read.
Commit(r) ==
    LET j == job[r]
        i == IF j.kind = "assign" THEN issued + 1 ELSE j.id
    IN
    /\ At(r, {"assign", "update"}, "inBoth")
    /\ i \in Ids
    /\ plan' = [plan EXCEPT ![i] = [day |-> j.day, who |-> j.who, from |-> j.from, to |-> j.to]]
    /\ issued' = IF j.kind = "assign" THEN issued + 1 ELSE issued
    /\ job' = [job EXCEPT ![r] = IF j.seen = "published"
                                 THEN [@ EXCEPT !.step = "tell", !.id = i] ELSE NoJob]
    /\ raced' = (\/ raced
                 \/ Outdated(r)
                 \/ (j.kind = "update" /\ plan[i] = NoPlace)
                 \/ InFlight({"deleteWeek"}) # {}
                 \/ \E q \in InFlight({"deleteDay"}) : job[q].day = j.day)
    /\ UNCHANGED <<status, planned, hours, wishes, off, told, heard, begun, now>>

----------------------------------------------------------------------------
(* removeAssignment and cancelMine: read, then remove *)

\* Mutant: the archive is not looked at.
BeginRemoveAnyTime(r, i) ==
    /\ plan[i] # NoPlace
    /\ Begin(r, "remove", "checked", i, plan[i].day, plan[i].who, plan[i], NoSpan)

BeginRemove(r, i) ==
    /\ plan[i] # NoPlace
    /\ ~IsLocked(plan[i].day, now)
    /\ Begin(r, "remove", "checked", i, plan[i].day, plan[i].who, plan[i], NoSpan)

Remove(r) ==
    /\ At(r, {"remove"}, "checked")
    /\ plan' = [plan EXCEPT ![job[r].id] = NoPlace]
    /\ ThenTell(r)
    /\ raced' = (raced \/ Outdated(r))
    /\ UNCHANGED <<status, planned, hours, issued, wishes, off, told, heard, begun, now>>

BeginCancelMine(r, i) ==
    /\ plan[i] # NoPlace
    /\ plan[i].who \in People
    /\ ~HasBegun(plan[i].day, plan[i].to, now)
    /\ Begin(r, "cancelMine", "checked", i, plan[i].day, plan[i].who, plan[i], NoSpan)

\* The holder knows it himself; his own wish for that time goes too.
CancelMine(r) ==
    /\ At(r, {"cancelMine"}, "checked")
    /\ plan' = [plan EXCEPT ![job[r].id] = NoPlace]
    /\ told' = [told EXCEPT ![job[r].id] = {}]
    /\ wishes' = {w \in wishes : ~(w.day = job[r].day /\ w.who = job[r].who /\ overlaps(w, job[r]))}
    /\ Done(r)
    /\ UNCHANGED <<status, planned, hours, issued, off, heard, begun, raced, now>>

----------------------------------------------------------------------------
(* What people are told, after the write *)

\* Each person among the holders of S is told all of his time in S that is
\* ahead; whoever has none left ahead is told nothing.
Lines(S, n) ==
    [i \in Ids |-> IF i \in S /\ \E k \in S : plan[k].who = plan[i].who /\ ahead(k, n) # {}
                   THEN ahead(i, n) ELSE told[i]]

\* tellChange: the person it concerns, and the others at that time.
TellChange(r) ==
    LET j == job[r]
        affected == IF j.kind = "update" THEN {j.was, SpanOf(j)} ELSE {SpanOf(j)}
        others == {i \in OnDay(j.day) : /\ plan[i].who \in People \ {j.who}
                                        /\ \E s \in affected : overlaps(plan[i], s)}
        own == {i \in OnDay(j.day) : plan[i].who = j.who /\ j.who \in People}
    IN
    /\ At(r, {"assign", "update", "remove"}, "tell")
    /\ told' = IF \A s \in affected : HasBegun(j.day, s.to, j.at) THEN told
               ELSE IF j.kind = "remove" THEN [Lines(others, j.at) EXCEPT ![j.id] = {}]
               ELSE Lines(others \cup own, j.at)
    /\ Done(r)
    /\ UNCHANGED <<status, planned, hours, plan, issued, wishes, off, heard, begun, raced, now>>

\* tellCalledOff: all of the time of each place the called-off part touches.  The message goes
\* under a key of the calling-off; a second one under it is dropped (notify).
TellCalledOff(r) ==
    LET j == job[r]
        hit(i) == /\ plan[i] # NoPlace /\ plan[i].day = j.day /\ plan[i].who \in People
                  /\ overlaps(plan[i], j)
                  /\ ~HasBegun(j.day, plan[i].to, j.at)
        said(i) == j.kind = "putBack" /\ <<j.id, plan[i].who>> \in heard
    IN
    /\ At(r, {"callOff", "putBack"}, "tell")
    /\ told' = [i \in Ids |-> IF ~hit(i) \/ said(i) THEN told[i]
                              ELSE IF j.kind = "callOff" THEN {}
                              ELSE Instants(j.day, plan[i])]
    /\ heard' = IF j.kind = "callOff" THEN heard
                ELSE heard \cup {<<j.id, p>> : p \in {plan[i].who : i \in {k \in Ids : hit(k)}}}
    /\ Done(r)
    /\ raced' = (\/ raced
                 \/ j.kind = "callOff" /\ ~\E o \in off : o.id = j.id
                 \/ \E i \in Ids : hit(i) /\ said(i) /\ told[i] # Instants(j.day, plan[i]))
    /\ UNCHANGED <<status, planned, hours, plan, issued, wishes, off, begun, now>>

----------------------------------------------------------------------------
(* cancelDay, restoreDay, request, withdrawRequest *)

\* Of a part shorter than an hour it is not asked whether it lies within the day.
BeginCallOff(r, d, s) ==
    /\ planned[d] = "planned"
    /\ ~IsLocked(d, now)
    /\ windowFits(s) => spanFits(s, hours[d])
    /\ ~HasBegun(d, s.to, now)
    /\ Cardinality(off) + Cardinality(InFlight({"callOff"})) < MaxOff
    /\ Begin(r, "callOff", "checked", 0, d, Guest, s, NoSpan)

\* An id no calling-off has, nor a request that has read or written one: they are not used again.
UnusedId(k) == /\ \A o \in off : o.id # k
               /\ \A q \in InFlight({"callOff", "putBack"}) : job[q].id # k

\* The insert refers to the day's row, so it waits for that row's lock.
CallOff(r) ==
    /\ At(r, {"callOff"}, "checked")
    /\ DayFree(job[r].day)
    /\ IF planned[job[r].day] # "planned"
       THEN Done(r) /\ UNCHANGED <<off, raced, heard>>
       ELSE \E k \in 1..MaxJobs :
              /\ UnusedId(k) /\ \A l \in 1..(k - 1) : ~UnusedId(l)
              /\ off' = off \cup {[id |-> k, day |-> job[r].day,
                                   from |-> job[r].from, to |-> job[r].to]}
              /\ job' = [job EXCEPT ![r] = IF @.seen = "published"
                                           THEN [@ EXCEPT !.step = "tell", !.id = k] ELSE NoJob]
              /\ heard' = {h \in heard : h[1] # k}
              /\ raced' = (raced \/ Outdated(r))
    /\ UNCHANGED <<status, planned, hours, plan, issued, wishes, told, begun, now>>

BeginPutBack(r, o) ==
    /\ ~IsLocked(o.day, now)
    /\ Begin(r, "putBack", "checked", o.id, o.day, Guest, o, NoSpan)

PutBack(r) ==
    /\ At(r, {"putBack"}, "checked")
    /\ off' = {o \in off : o.id # job[r].id}
    /\ ThenTell(r)
    /\ raced' = (raced \/ Outdated(r))
    /\ UNCHANGED <<status, planned, hours, plan, issued, wishes, told, heard, begun, now>>

isOpenWish(w) == status = "published" => w.late

BeginRequest(r, d, who, s) ==
    /\ planned[d] = "planned"
    /\ status \in {"collecting", "published"}
    /\ spanFits(s, hours[d])
    /\ ~HasBegun(d, s.from, now)
    /\ ~calledOff(d, s)
    /\ \A w \in wishes : w.day = d /\ w.who = who /\ overlaps(w, s) => ~isOpenWish(w)
    /\ status = "published" =>
          /\ \A i \in OnDay(d) : plan[i].who = who => ~overlaps(plan[i], s)
          /\ \E t \in 0..Slots :
                /\ covers(s, t)
                /\ Cardinality(StandingAt(d, t)) < CapacityMax
    /\ Cardinality(wishes) + Cardinality(InFlight({"request"})) < MaxWishes
    /\ Begin(r, "request", "checked", 0, d, who, s, NoSpan)

\* A closed wish for that time goes; the insert waits for the day's row lock.
Request(r) ==
    LET j == job[r]
        closed == {w \in wishes : /\ w.day = j.day /\ w.who = j.who /\ overlaps(w, j)
                                  /\ j.seen = "published" /\ ~w.late}
    IN
    /\ At(r, {"request"}, "checked")
    /\ DayFree(j.day)
    /\ \E k \in 1..MaxWishes :
          /\ \A w \in wishes : w.id # k
          /\ wishes' = (wishes \ closed) \cup
                 IF planned[j.day] = "planned"
                 THEN {[id |-> k, day |-> j.day, who |-> j.who, from |-> j.from, to |-> j.to,
                        late |-> status = "published"]}
                 ELSE {}
    /\ Done(r)
    /\ UNCHANGED <<status, planned, hours, plan, issued, off, told, heard, begun, raced, now>>

WithdrawRequest(w) ==
    /\ wishes' = wishes \ {w}
    /\ UNCHANGED <<status, planned, hours, plan, issued, off, told, heard, job, begun, raced, now>>

----------------------------------------------------------------------------
(* updateDay, deleteDay, openWeek, publishWeek, deleteWeek *)

BeginUpdateDay(r, d, s) ==
    /\ planned[d] = "planned"
    /\ windowFits(s)
    /\ ~IsLocked(d, now)
    /\ \A i \in OnDay(d) : s.from <= plan[i].from /\ plan[i].to <= s.to
    /\ \A w \in wishes : w.day = d => s.from <= w.from /\ w.to <= s.to
    /\ Begin(r, "updateDay", "checked", 0, d, Guest, s, NoSpan)

\* save waits for the row's lock, and inserts a deleted day again.
UpdateDay(r) ==
    LET d == job[r].day IN
    /\ At(r, {"updateDay"}, "checked")
    /\ DayFree(d)
    /\ planned' = IF status = "gone" THEN planned ELSE [planned EXCEPT ![d] = "planned"]
    /\ hours' = IF status = "gone" THEN hours ELSE [hours EXCEPT ![d] = SpanOf(job[r])]
    /\ Done(r)
    /\ UNCHANGED <<status, plan, issued, wishes, off, told, heard, begun, raced, now>>

\* Mutant: the people on the day are not counted.
BeginDeleteDayUncounted(r, d) ==
    /\ planned[d] = "planned"
    /\ Begin(r, "deleteDay", "checked", 0, d, Guest, NoSpan, NoSpan)

BeginDeleteDay(r, d) ==
    /\ planned[d] = "planned"
    /\ OnDay(d) = {}
    /\ Begin(r, "deleteDay", "checked", 0, d, Guest, NoSpan, NoSpan)

\* The days of S and everything that hangs on them (ON DELETE CASCADE).
DropDays(S) ==
    /\ \A d \in S : DayFree(d)
    /\ planned' = [d \in Days |-> IF d \in S /\ planned[d] = "planned" THEN "gone" ELSE planned[d]]
    /\ plan' = [i \in Ids |-> IF \E d \in S : i \in OnDay(d) THEN NoPlace ELSE plan[i]]
    /\ wishes' = {w \in wishes : w.day \notin S}
    /\ off' = {o \in off : o.day \notin S}

DeleteDay(r) ==
    /\ At(r, {"deleteDay"}, "checked")
    /\ DropDays({job[r].day})
    /\ Done(r)
    /\ UNCHANGED <<status, hours, issued, told, heard, begun, raced, now>>

BeginOpen(r) ==
    /\ status = "draft"
    /\ \E d \in Days : planned[d] = "planned" /\ ~HasBegun(d, hours[d].to, now)
    /\ Begin(r, "open", "checked", 0, AnyDay, Guest, NoSpan, NoSpan)

\* Mutant: a status that is not one of CartWeek's.
OpenMisnamed(r) ==
    /\ At(r, {"open"}, "checked")
    /\ status' = "open"
    /\ Done(r)
    /\ UNCHANGED <<planned, hours, plan, issued, wishes, off, told, heard, begun, raced, now>>

\* The whole row is saved, publishedAt as it was read: none.
Open(r) ==
    /\ At(r, {"open"}, "checked")
    /\ status' = "collecting"
    /\ Done(r)
    /\ UNCHANGED <<planned, hours, plan, issued, wishes, off, told, heard, begun, raced, now>>

BeginPublish(r) ==
    /\ status = "collecting"
    /\ Begin(r, "publish", "checked", 0, AnyDay, Guest, NoSpan, NoSpan)

\* Every wish made so far is now from before publishedAt.
Publish(r) ==
    /\ At(r, {"publish"}, "checked")
    /\ status' = "published"
    /\ wishes' = {[w EXCEPT !.late = FALSE] : w \in wishes}
    /\ GoTo(r, "tell")
    /\ raced' = (raced \/ InFlight({"deleteWeek"}) # {})
    /\ UNCHANGED <<planned, hours, plan, issued, off, told, heard, begun, now>>

\* Each person's message goes under the week's key: who has one under it is not told again.
TellPublished(r) ==
    LET all == {i \in Ids : plan[i] # NoPlace /\ plan[i].who \in People}
        sent == Lines({i \in all : <<0, plan[i].who>> \notin heard}, now)
    IN
    /\ At(r, {"publish"}, "tell")
    /\ told' = sent
    /\ heard' = heard \cup {<<0, p>> : p \in {plan[i].who : i \in {k \in all : ahead(k, now) # {}}}}
    /\ Done(r)
    /\ raced' = (raced \/ sent # Lines(all, now))
    /\ UNCHANGED <<status, planned, hours, plan, issued, wishes, off, begun, now>>

\* Mutant: the people of a published week are not counted.
BeginDeleteWeekUncounted(r) ==
    /\ status \notin {"none", "gone"}
    /\ Begin(r, "deleteWeek", "checked", 0, AnyDay, Guest, NoSpan, NoSpan)

BeginDeleteWeek(r) ==
    /\ status \notin {"none", "gone"}
    /\ status = "published" => \A d \in Days : OnDay(d) = {}
    /\ Begin(r, "deleteWeek", "checked", 0, AnyDay, Guest, NoSpan, NoSpan)

DeleteWeek(r) ==
    /\ At(r, {"deleteWeek"}, "checked")
    /\ DropDays(Days)
    /\ status' = "gone"
    /\ Done(r)
    /\ UNCHANGED <<hours, issued, told, heard, begun, raced, now>>

\* The process dies or the connection breaks: the transaction is rolled back,
\* and what was still to be told is not told.
Lose(r) ==
    /\ Busy(r)
    /\ Done(r)
    /\ raced' = (raced \/ job[r].step = "tell")
    /\ UNCHANGED <<status, planned, hours, plan, issued, wishes, off, told, heard, begun, now>>

----------------------------------------------------------------------------
Start(r) ==
    \/ \E d \in Days, s \in Spans :
          \/ \E who \in Holders : BeginAssign(r, d, who, s)
          \/ \E who \in People : BeginRequest(r, d, who, s)
          \/ BeginCallOff(r, d, s)
          \/ BeginUpdateDay(r, d, s)
    \/ \E i \in Ids :
          \/ \E s \in Spans : BeginUpdate(r, i, s)
          \/ BeginRemove(r, i)
          \/ BeginCancelMine(r, i)
    \/ \E o \in off : BeginPutBack(r, o)
    \/ \E d \in Days : BeginDeleteDay(r, d)
    \/ BeginOpen(r) \/ BeginPublish(r) \/ BeginDeleteWeek(r)

Take(r) == LockDay(r) \/ LockPerson(r)

Write(r) ==
    \/ Commit(r) \/ Remove(r) \/ CancelMine(r) \/ CallOff(r) \/ PutBack(r) \/ Request(r)
    \/ UpdateDay(r) \/ DeleteDay(r) \/ Open(r) \/ Publish(r) \/ DeleteWeek(r)

Tell(r) == TellChange(r) \/ TellCalledOff(r) \/ TellPublished(r)

Next ==
    \/ Tick
    \/ \E S \in SUBSET Days, s \in Spans : BuildWeek(S, s)
    \/ \E w \in wishes : WithdrawRequest(w)
    \/ \E r \in Requests : Start(r) \/ Take(r) \/ Write(r) \/ Tell(r) \/ Lose(r)

\* A request in flight goes on; PostgreSQL grants a lock in the order asked.
Fairness ==
    \A r \in Requests : /\ SF_vars(Take(r))
                        /\ SF_vars(Write(r))
                        /\ WF_vars(Tell(r))

Spec == Init /\ [][Next]_vars /\ Fairness

----------------------------------------------------------------------------
(* Properties *)

TypeOK ==
    /\ status \in Statuses
    /\ planned \in [Days -> {"never", "planned", "gone"}]
    /\ hours \in [Days -> Span]
    /\ plan \in [Ids -> Place \cup {NoPlace}]
    /\ issued \in Nat
    /\ wishes \subseteq Wish
    /\ off \subseteq CalledOff
    /\ told \in [Ids -> SUBSET Nat]
    /\ heard \subseteq Nat \X People
    /\ job \in [Requests -> AJob \cup {NoJob}]
    /\ begun \in Nat
    /\ raced \in BOOLEAN
    /\ now \in Nat

\* What the locks are for: no two requests hold one lock, and what a request
\* inside its transaction has checked is still so when it comes to write.
InTransaction(r) == Busy(r) /\ job[r].step \in {"inDay", "inBoth"}

ChecksStillHold ==
    /\ \A r, q \in Requests, d \in Days : HoldsDay(r, d) /\ HoldsDay(q, d) => r = q
    /\ \A r, q \in Requests, p \in People : HoldsPerson(r, p) /\ HoldsPerson(q, p) => r = q
    /\ \A r \in Requests : InTransaction(r) => ~overfull(job[r].day, job[r], exceptId(job[r]))
    /\ \A r \in Requests : (InTransaction(r) /\ job[r].step = "inBoth" /\ job[r].who \in People)
                             => ~clash(job[r].who, job[r].day, job[r], exceptId(job[r]))

\* The archive: once a published day is locked, and every request that looked
\* at it earlier is answered, who stood on it does not change any more.
Settled(d) ==
    /\ status = "published"
    /\ IsLocked(d, now)
    /\ ~raced
    /\ \A r \in Requests : Busy(r) => IsLocked(d, job[r].at) /\ job[r].seen = "published"

ArchiveFixed ==
    [][\A d \in Days : Settled(d) =>
          /\ OnDay(d)' = OnDay(d)
          /\ \A i \in OnDay(d) : plan'[i] = plan[i]]_vars

\* Nothing disappears quietly: a place of a published week leaves the plan only
\* by a request for that very place; a day or a week with people on it is not
\* deleted from under them.
PlanKept ==
    [][\A i \in Ids :
          (plan[i] # NoPlace /\ plan'[i] = NoPlace /\ status = "published" /\ ~raced)
              => \E r \in InFlight({"remove", "cancelMine"}) : job[r].id = i]_vars

\* Whoever has time ahead on a published plan has been told of all of it once
\* the requests are answered - unless a write rested on an outdated reading, or
\* a message was lost or, the second under its key, dropped though it said
\* something new, or part of his time is called off just now.
Quiet == \A r \in Requests : ~Busy(r)

ToldOfHisTime ==
    (Quiet /\ status = "published" /\ ~raced) =>
        \A i \in Ids :
            (plan[i] # NoPlace /\ plan[i].who \in People /\ ~calledOff(plan[i].day, plan[i]))
                => ahead(i, now) \subseteq told[i]

\* Every request is answered in the end: no two of them wait for each other.
RequestsFinish == \A r \in Requests : Busy(r) ~> ~Busy(r)

----------------------------------------------------------------------------
(* Requirements the code does not meet: a run with one of them as its       *)
(* invariant ends in a counterexample (README).                             *)

\* Nobody waits at the stand in vain: what a person was told of and is still
\* ahead is on the plan ("After the plan of a published day changed: the
\* person it concerns ... in one message").
NobodyComesInVain ==
    (Quiet /\ status = "published" /\ ~raced) =>
        \A i \in Ids : {m \in told[i] : m + 1 > now} \subseteq ahead(i, now)

\* "A day's hours changed - never so that someone's time falls outside."
StandsWithinHours ==
    \A i \in Ids : plan[i] # NoPlace => spanFits(plan[i], hours[plan[i].day])
=============================================================================
