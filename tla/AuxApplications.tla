--------------------------- MODULE AuxApplications ---------------------------
(***************************************************************************)
(* An application to serve as an auxiliary pioneer, the three places of    *)
(* the service committee that answer it (aux-applications.service.ts), and *)
(* the periods of service it makes (auxiliary-pioneers.service.ts).        *)
(*                                                                         *)
(* One publisher applies.  A place answers through its holder, or, once it *)
(* is open, through another elder; the last answer, or the opening of a    *)
(* place nobody can fill, makes the periods and approves.  A worker is a   *)
(* request in flight or the nightly round.  A handler's reads are taken as *)
(* one moment; every save is a step of its own, and a saved row is written *)
(* as it was read: columns changed meanwhile go back, and an application   *)
(* that was erased is inserted again.                                      *)
(*                                                                         *)
(* Not modelled: the hours of a month, messages, the journal, permanent    *)
(* pioneering, whether the applicant is baptized, signers without account. *)
(***************************************************************************)
EXTENDS Naturals, FiniteSets

CONSTANTS
    Users,                 \* those who answer
    Seats,                 \* COMMITTEE_SEATS
    Apps,                  \* 1..Apps, the ids applications may get
    Months,                \* 1..Months, the months of service
    Moments, MonthAt,      \* 0..Moments, days apart by the wait of a place, and their months
    Choices,               \* the sets of months that may be asked for
    Requests, Nightly,     \* the workers
    Operations,            \* kinds of request the instance allows to each worker
    Setups,                \* what the instance may begin with
    MaxUsed,               \* bound: requests, failures, hand-overs and closings, together
    Nobody

Workers == Requests \cup {Nightly}
App == 1..Apps
Month == 1..Months
OpenEnd == Months + 1

Kinds == {"apply", "change", "takeBack", "withdraw", "approve", "pass", "openOther", "paper",
          "create", "update", "stopOwn", "remove"}

Reasons == {"no", "applicant", "passed", "absent", "opened"}
Row == [is: BOOLEAN, by: Users \cup {Nobody}, open: Reasons, opener: Users \cup {Nobody},
        reminded: BOOLEAN]
Application == [state: {"none", "pending", "approved", "gone"}, months: SUBSET Month,
                untilCancelled: BOOLEAN, paper: BOOLEAN, at: 0..Moments]
Run == [from: Month, to: 1..OpenEnd]
Period == [id: Nat \ {0}, from: Month, to: 1..OpenEnd]

ASSUME AuxConstants ==
    /\ Nobody \notin Users
    /\ IsFiniteSet(Seats) /\ Cardinality(Seats) >= 2
    /\ Apps \in Nat /\ Months \in Nat \ {0} /\ Moments \in Nat
    /\ MonthAt \in [0..Moments -> 1..(Months + 1)]
    /\ Choices \subseteq SUBSET Month /\ {} \notin Choices
    /\ Nightly \notin Requests
    /\ Operations \in [Requests -> SUBSET Kinds]
    /\ MaxUsed \in Nat

NoRow == [is |-> FALSE, by |-> Nobody, open |-> "no", opener |-> Nobody, reminded |-> FALSE]
FreshRow == [NoRow EXCEPT !.is = TRUE]
NoApp == [state |-> "none", months |-> {}, untilCancelled |-> FALSE, paper |-> FALSE, at |-> 0]

\* An instance begins with nothing, or with one application filed in the app, each of its
\* places answered by another brother than the applicant.
ASSUME AuxSetups ==
    \A S \in Setups :
        /\ S.app \in Application /\ S.app.state \in {"none", "pending"} /\ ~S.app.paper
        /\ S.app.untilCancelled => \E m \in Month : S.app.months = {m}
        /\ S.seat \in [Seats -> Row] /\ (S.app.state = "none" => S.seat = [s \in Seats |-> NoRow])
        /\ \A s \in Seats : S.seat[s].by # Nobody =>
              /\ S.seat[s].by # S.applicant
              /\ \A t \in Seats \ {s} : S.seat[t].by # S.seat[s].by
        /\ S.periods \subseteq Period /\ IsFiniteSet(S.periods)
        /\ \A p \in S.periods : p.id <= Cardinality(S.periods)
        /\ S.holds \in [Seats -> SUBSET Users] /\ S.elders \cup S.away \subseteq Users

Idle == [at |-> "idle"]
NoRound == [apps |-> {}, rows |-> {}, holds |-> [s \in Seats |-> {}]]

Signatures == UNION {[S -> Users] : S \in SUBSET Seats}   \* who signed a paper, in which place
NoSignature == [s \in {} |-> Nobody]

Job == [at: {"idle"}]
       \cup [at: {"insert"}, e: Application, signed: Signatures]
       \cup [at: {"seats"}, a: App, e: Application, left: SUBSET Seats, signed: Signatures,
             holds: [Seats -> SUBSET Users]]
       \cup [at: {"rewrite", "settle"}, a: App, e: Application]
       \cup [at: {"erase"}, a: App]
       \cup [at: {"answer", "open"}, a: App, e: Application, s: Seats, row: Row]
       \cup [at: {"runs"}, a: App, e: Application, left: SUBSET Run]
       \cup [at: {"make"}, a: App, e: Application, left: SUBSET Run, run: Run]
       \cup [at: {"period"}, run: Run]
       \cup [at: {"span"}, was: Period, run: Run]
       \cup [at: {"delete"}, was: Period]

VARIABLES
    app,       \* aux_pioneer_applications
    seat,      \* aux_pioneer_application_seats, a row for each place
    periods,   \* auxiliary_pioneers
    issued,    \* ids of periods given out so far
    closed,    \* the months closed for the branch
    holds,     \* responsibilities: the holders of each place
    elders,    \* the elders who can sign in
    applicant, \* the user behind the applicant's card
    away,      \* users with an absence written for today
    now,       \* the moment
    job,       \* what each worker is doing
    round,     \* what the nightly round still has before it
    used,      \* counted for the bound
    revived,   \* history: applications written again after they were erased
    short,     \* history: applications settled while they had fewer than three places
    wiped,     \* history: applications where an answer or opening was lost to a row read earlier
    dropped,   \* history: applications a cut request left, or a change put back
    leftOut,   \* history: months each approval left out, closed or served already
    unmade,    \* history: months each approval went on without, their period not made
    freed      \* history: months of service taken away by hand

world == <<holds, elders, applicant, away>>
history == <<revived, short, wiped, dropped, leftOut, unmade, freed>>
tables == <<app, seat, periods, issued, closed>>
vars == <<tables, world, now, job, round, used, history>>

----------------------------------------------------------------------------
(* Who answers where.  The operators read the rows R of one application.    *)

isOpen(R, s, H) == R[s].open # "no" \/ H[s] = {}
Exists(R) == {s \in Seats : R[s].is}
Unanswered(R) == {s \in Exists(R) : R[s].by = Nobody}
Answerers(R) == {R[s].by : s \in Exists(R)} \ {Nobody}

isHisToAnswer(R, s, H, u) ==
    s \in Unanswered(R) /\ u \in H[s] /\ (~isOpen(R, s, H) \/ R[s].open = "absent")

\* A holder of a place still his to answer keeps to it; who passed a place on, or is away,
\* does not answer in it.
KeepsTo(R, s, H) == UNION {H[t] : t \in {x \in Unanswered(R) \ {s} : R[x].open = "no"}}
StepsAside(R, s, H) == IF R[s].open \in {"passed", "absent"} THEN H[s] \cup {R[s].opener} ELSE {}
substitutesFor(R, s, H) ==
    elders \ ({applicant} \cup Answerers(R) \cup KeepsTo(R, s, H) \cup StepsAside(R, s, H))

\* The places u may answer in: his own first, then an open one.
Targets(R, H, u) ==
    LET mine == {s \in Seats : isHisToAnswer(R, s, H, u)}
    IN IF mine # {} THEN mine
       ELSE {s \in Unanswered(R) : isOpen(R, s, H) /\ u \in substitutesFor(R, s, H)}

answered(R) == Cardinality(Exists(R) \ Unanswered(R))
\* Mutant: two answers are enough whether or not the third place can be filled.
doneByTwo(R, H) == Unanswered(R) = {} \/ answered(R) >= 2
done(R, H) ==
    \/ Unanswered(R) = {}
    \/ /\ answered(R) >= 2
       /\ \A s \in Unanswered(R) : isOpen(R, s, H) /\ substitutesFor(R, s, H) = {}

Pending(a) == app[a].state = "pending"
committeeWhole == \A s \in Seats : holds[s] # {}
isCommittee(u) == \E s \in Seats : u \in holds[s]
waited(e) == e.at < now
allAway(H, s) == H[s] # {} /\ H[s] \subseteq away

----------------------------------------------------------------------------
(* Months and periods *)

Span(p) == p.from..p.to
overlaps(p, q) == p.from <= q.to /\ q.from <= p.to
Served == UNION {Span(p) : p \in periods}
periodAllowed(run, others) == \A p \in others : ~overlaps(run, p)
mayTouch(changed, office) == office \/ changed \cap closed = {}

\* Mutant: a run ends with the month it begins with.
toRunsCut(M) == {[from |-> m, to |-> m] : m \in {n \in M : n - 1 \notin M}}
\* Each run of months one after another; «until cancelled» is one open run.
toRuns(M) == {r \in [from: M, to: M] : /\ r.from..r.to \subseteq M
                                       /\ r.from - 1 \notin M /\ r.to + 1 \notin M}
Wanted(e) == IF e.untilCancelled THEN {m \in 1..OpenEnd : \E n \in e.months : n <= m} ELSE e.months
RunsOf(e, M) == IF ~e.untilCancelled THEN toRuns(M)
                ELSE {[from |-> m, to |-> OpenEnd] : m \in M}

monthsServable(M, until) ==
    IF until THEN \A m \in M : periodAllowed([from |-> m, to |-> OpenEnd], periods)
    ELSE M \cap Served = {}
settleMonths(M, until, allowPast) ==
    /\ until => Cardinality(M) = 1
    /\ ~allowPast => \A m \in M : m >= MonthAt[now]
    /\ monthsServable(M, until)

\* What an approval leaves out at once: the closed months, and with its first month an open run.
LeftBy(e) == IF e.untilCancelled /\ e.months \subseteq closed THEN Wanted(e) ELSE e.months \cap closed

lastMonth(e) == CHOOSE m \in e.months : \A n \in e.months : m >= n

----------------------------------------------------------------------------
Goes(w, next) == job' = [job EXCEPT ![w] = next]

\* A request comes in and reads; it writes later.
Begin(r, kind) ==
    /\ r \in Requests /\ job[r] = Idle /\ kind \in Operations[r]
    /\ used < MaxUsed /\ used' = used + 1
    /\ UNCHANGED <<tables, world, now, round, history>>

\* A step of a worker that writes none of these.
Step == UNCHANGED <<world, now, used>>

BeginApply(r) ==
    /\ Begin(r, "apply")
    /\ committeeWhole
    /\ ~\E a \in App : Pending(a)
    /\ \E M \in Choices, until \in BOOLEAN :
         /\ settleMonths(M, until, FALSE)
         /\ Goes(r, [at |-> "insert", signed |-> NoSignature,
                     e |-> [state |-> "pending", months |-> M, untilCancelled |-> until,
                            paper |-> FALSE, at |-> now]])

\* The signed paper, with at least two who signed it, entered by an administrator or the
\* secretary.
BeginPaper(r) ==
    /\ Begin(r, "paper")
    /\ \E M \in Choices, until \in BOOLEAN, S \in SUBSET {s \in Seats : holds[s] # {}} :
         /\ Cardinality(S) >= 2
         /\ settleMonths(M, until, TRUE)
         /\ Goes(r, [at |-> "insert", signed |-> [s \in S |-> CHOOSE u \in holds[s] : TRUE],
                     e |-> [state |-> "pending", months |-> M, untilCancelled |-> until,
                            paper |-> TRUE, at |-> now]])

NextId == CHOOSE a \in App : app[a].state = "none" /\ \A b \in 1..(a - 1) : app[b].state # "none"

InsertApp(r) ==
    /\ job[r].at = "insert"
    /\ \E a \in App : app[a].state = "none"
    /\ app' = [app EXCEPT ![NextId] = [job[r].e EXCEPT !.at = now]]
    /\ Goes(r, [at |-> "seats", a |-> NextId, e |-> app'[NextId], left |-> Seats,
                signed |-> job[r].signed, holds |-> holds])
    /\ UNCHANGED <<seat, periods, issued, closed, round, history>> /\ Step

\* The applicant's own place is another elder's from the start; a paper's place is signed
\* or open.
RowOf(j, s) ==
    IF j.e.paper
    THEN IF s \in DOMAIN j.signed THEN [FreshRow EXCEPT !.by = j.signed[s]]
         ELSE [FreshRow EXCEPT !.open = "opened"]
    ELSE IF applicant \in j.holds[s] THEN [FreshRow EXCEPT !.open = "applicant"] ELSE FreshRow

AfterSeats(j, left) ==
    IF left # {} THEN [j EXCEPT !.left = left]
    ELSE IF j.e.paper THEN [at |-> "runs", a |-> j.a, e |-> j.e,
                            left |-> RunsOf(j.e, j.e.months \ closed)]
    ELSE Idle

\* The three places are saved one after another; they go with the application if it goes.
SaveSeat(r) ==
    /\ job[r].at = "seats"
    /\ LET j == job[r]
           s == CHOOSE x \in j.left : TRUE
       IN IF app[j.a].state = "gone" THEN Goes(r, Idle) /\ UNCHANGED <<seat, leftOut>>
          ELSE /\ seat' = [seat EXCEPT ![j.a][s] = RowOf(j, s)]
               /\ Goes(r, AfterSeats(j, j.left \ {s}))
               /\ leftOut' = IF j.e.paper /\ j.left = {s}
                             THEN [leftOut EXCEPT ![j.a] = @ \cup LeftBy(j.e)]
                             ELSE leftOut
    /\ UNCHANGED <<app, periods, issued, closed, round, revived, short, wiped, dropped, unmade, freed>> /\ Step

----------------------------------------------------------------------------
\* Change it, only while nobody has answered.
BeginChange(r) ==
    /\ Begin(r, "change")
    /\ \E a \in App, M \in Choices, until \in BOOLEAN :
         /\ Pending(a) /\ Answerers(seat[a]) = {}
         /\ settleMonths(M, until, FALSE)
         /\ Goes(r, [at |-> "rewrite", a |-> a,
                     e |-> [app[a] EXCEPT !.months = M, !.untilCancelled = until]])

\* save() of an application: the whole row, inserted again if it is gone.
Saved(a, e) ==
    /\ app' = [app EXCEPT ![a] = e]
    /\ revived' = IF app[a].state = "gone" THEN revived \cup {a} ELSE revived

Rewrite(r) ==
    /\ job[r].at = "rewrite"
    /\ Saved(job[r].a, job[r].e)
    /\ dropped' = dropped \cup {job[r].a}
    /\ Goes(r, Idle)
    /\ UNCHANGED <<seat, periods, issued, closed, round, short, wiped, leftOut, unmade, freed>> /\ Step

\* takeBack by the applicant, withdraw by one of the committee.
BeginTakeBack(r) ==
    /\ Begin(r, "takeBack")
    /\ \E a \in App : Pending(a) /\ Goes(r, [at |-> "erase", a |-> a])
BeginWithdraw(r) ==
    /\ Begin(r, "withdraw")
    /\ \E a \in App, u \in Users : Pending(a) /\ isCommittee(u) /\ Goes(r, [at |-> "erase", a |-> a])

\* The row is deleted by its id, whatever its status is by now, and its places with it.
Erase(w) ==
    /\ job[w].at = "erase"
    /\ app' = [app EXCEPT ![job[w].a] = [NoApp EXCEPT !.state = "gone"]]
    /\ seat' = [seat EXCEPT ![job[w].a] = [s \in Seats |-> NoRow]]
    /\ Goes(w, Idle)
    /\ UNCHANGED <<periods, issued, closed, round, history>> /\ Step

----------------------------------------------------------------------------
\* The answer: u's own place first, then the open one he chose.
BeginApprove(r) ==
    /\ Begin(r, "approve")
    /\ \E a \in App, u \in Users :
         /\ Pending(a) /\ u # applicant /\ u \notin Answerers(seat[a])
         /\ \E s \in Targets(seat[a], holds, u) :
              Goes(r, [at |-> "answer", a |-> a, e |-> app[a], s |-> s,
                       row |-> [seat[a][s] EXCEPT !.by = u]])

\* Mutant: nobody looks whether that was the last answer.
SettleLater(j) == Idle
Settle(j) == [at |-> "settle", a |-> j.a, e |-> j.e]
\* History: what others did to the place since it was read is undone.
Undoes(j) == LET is == seat[j.a][j.s] IN is.by \notin {Nobody, j.row.by} \/ (is.open # "no" /\ j.row.open = "no")
Wipes(j) == wiped' = IF Undoes(j) THEN wiped \cup {j.a} ELSE wiped

\* save() of a place: the row as it was read, inserted again if it is gone; refused if the
\* application is gone, which it refers to.
Stands(a) == app[a].state # "gone"
\* Unique indexes: the same brother once on an application.
Accepts(j) == /\ Stands(j.a)
              /\ \A s \in Seats \ {j.s} : seat[j.a][s].by # j.row.by

SaveAnswer(r) ==
    /\ job[r].at = "answer"
    /\ LET j == job[r] IN
         IF Accepts(j)
         THEN seat' = [seat EXCEPT ![j.a][j.s] = j.row] /\ Wipes(j) /\ Goes(r, Settle(j))
         ELSE Goes(r, Idle) /\ UNCHANGED <<seat, wiped>>
    /\ UNCHANGED <<app, periods, issued, closed, round, revived, short, dropped, leftOut, unmade, freed>> /\ Step

BeginPass(r) ==
    /\ Begin(r, "pass")
    /\ \E a \in App, u \in Users, s \in Seats :
         /\ Pending(a) /\ isHisToAnswer(seat[a], s, holds, u)
         /\ Goes(r, [at |-> "open", a |-> a, e |-> app[a], s |-> s,
                     row |-> [seat[a][s] EXCEPT !.open = "passed", !.opener = u]])

BeginOpenOther(r) ==
    /\ Begin(r, "openOther")
    /\ \E a \in App, u \in Users : \E s \in Unanswered(seat[a]) :
         /\ Pending(a) /\ waited(app[a])
         /\ ~isOpen(seat[a], s, holds)
         /\ \E t \in Seats \ {s} : u \in holds[t]
         /\ Goes(r, [at |-> "open", a |-> a, e |-> app[a], s |-> s,
                     row |-> [seat[a][s] EXCEPT !.open = "opened", !.opener = u]])

\* openSeat: the row as it was read, but open.  A refused one ends the request, or the whole
\* nightly round.
OpenSeat(w) ==
    /\ job[w].at = "open"
    /\ LET j == job[w] IN
         IF Stands(j.a)
         THEN /\ seat' = [seat EXCEPT ![j.a][j.s] = j.row]
              /\ Wipes(j) /\ Goes(w, Settle(j)) /\ UNCHANGED round
         ELSE /\ Goes(w, Idle)
              /\ round' = IF w = Nightly THEN NoRound ELSE round
              /\ UNCHANGED <<seat, wiped>>
    /\ UNCHANGED <<app, periods, issued, closed, revived, short, dropped, leftOut, unmade, freed>> /\ Step

----------------------------------------------------------------------------
\* settleIfDone: the places are read again; then the months that are not closed, in runs.
SettleIfDone(w) ==
    /\ job[w].at = "settle"
    /\ LET j == job[w]
           isDone == done(seat[j.a], holds)
       IN /\ Goes(w, IF isDone
                     THEN [at |-> "runs", a |-> j.a, e |-> j.e,
                           left |-> RunsOf(j.e, j.e.months \ closed)]
                     ELSE Idle)
          /\ short' = IF isDone /\ Exists(seat[j.a]) # Seats /\ app[j.a].state # "gone"
                      THEN short \cup {j.a} ELSE short
          /\ leftOut' = IF isDone THEN [leftOut EXCEPT ![j.a] = @ \cup LeftBy(j.e)]
                        ELSE leftOut
    /\ UNCHANGED <<tables, round, revived, wiped, dropped, unmade, freed>> /\ Step

First(L) == CHOOSE r \in L : \A x \in L : r.from <= x.from

\* createFromApplication: a run that meets another period is left out; then the row.
CheckRun(w) ==
    /\ job[w].at = "runs" /\ job[w].left # {}
    /\ LET j == job[w]
           run == First(j.left)
       IN IF periodAllowed(run, periods)
          THEN Goes(w, [at |-> "make", a |-> j.a, e |-> j.e, left |-> j.left \ {run}, run |-> run])
               /\ UNCHANGED leftOut
          ELSE Goes(w, [j EXCEPT !.left = @ \ {run}])
               /\ leftOut' = [leftOut EXCEPT ![j.a] = @ \cup Span(run)]
    /\ UNCHANGED <<tables, round, revived, short, wiped, dropped, unmade, freed>> /\ Step

\* Mutant: the count of rows is not kept.
InsertedUncounted(run) ==
    /\ periods' = periods \cup {[id |-> issued + 1, from |-> run.from, to |-> run.to]}
    /\ issued' = issued
\* save() of a new row.
Inserted(run) ==
    /\ periods' = periods \cup {[id |-> issued + 1, from |-> run.from, to |-> run.to]}
    /\ issued' = issued + 1

MakePeriod(w) ==
    /\ job[w].at = "make"
    /\ LET j == job[w] IN
         /\ Inserted(j.run)
         /\ Goes(w, [at |-> "runs", a |-> j.a, e |-> j.e, left |-> j.left])
    /\ UNCHANGED <<app, seat, closed, round, history>> /\ Step

\* The period is refused (he serves as a permanent pioneer by now) or its row is not saved: the
\* failure is caught and logged, and the application goes on to be approved without the run.
\* (A journal that fails after the row was saved ends like MakePeriod: the row is there.)
RunFails(w) ==
    /\ job[w].at = "make"
    /\ used < MaxUsed /\ used' = used + 1
    /\ LET j == job[w] IN
         /\ Goes(w, [at |-> "runs", a |-> j.a, e |-> j.e, left |-> j.left])
         /\ unmade' = [unmade EXCEPT ![j.a] = @ \cup Span(j.run)]
    /\ UNCHANGED <<tables, world, now, round, revived, short, wiped, dropped, leftOut, freed>>

\* Approved once every run has had its turn.
Approve(w) ==
    /\ job[w].at = "runs" /\ job[w].left = {}
    /\ Saved(job[w].a, [job[w].e EXCEPT !.state = "approved"])
    /\ Goes(w, Idle)
    /\ UNCHANGED <<seat, periods, issued, closed, round, short, wiped, dropped, leftOut, unmade, freed>> /\ Step

----------------------------------------------------------------------------
\* The places that still need something: not open, and the holder away or not yet reminded.
Needs(a, H) == {s \in Unanswered(seat[a]) : /\ ~isOpen(seat[a], s, H)
                                            /\ allAway(H, s) \/ ~seat[a][s].reminded}
over(e) == lastMonth(e) < MonthAt[now]

\* runFor, each night: the pending applications as they are now.  A round with nothing to
\* do is left out.
BeginNight ==
    /\ job[Nightly] = Idle /\ round = NoRound
    /\ \E a \in App : Pending(a) /\ (over(app[a]) \/ (waited(app[a]) /\ Needs(a, holds) # {}))
    /\ round' = [apps |-> {[a |-> a, e |-> app[a]] : a \in {b \in App : Pending(b)}}, rows |-> {},
                 holds |-> holds]
    /\ UNCHANGED <<tables, job, history>> /\ Step

\* What is left of the round; nothing, once it has been through everything.
Rest(apps, rows) == IF apps \cup rows = {} THEN NoRound ELSE [round EXCEPT !.apps = apps, !.rows = rows]

\* An application whose months are all over leaves quietly; a young one waits.
NightTakes ==
    /\ job[Nightly] = Idle /\ round.rows = {}
    /\ \E x \in round.apps :
         IF over(x.e)
         THEN /\ Goes(Nightly, [at |-> "erase", a |-> x.a])
              /\ round' = Rest(round.apps \ {x}, {})
         ELSE /\ round' = Rest(round.apps \ {x},
                               IF ~waited(x.e) THEN {}
                               ELSE {[a |-> x.a, e |-> x.e, s |-> s, row |-> seat[x.a][s]] : s \in Needs(x.a, round.holds)})
              /\ UNCHANGED job
    /\ UNCHANGED <<tables, history>> /\ Step

\* A place whose holders are away is opened.
NightOpens ==
    /\ job[Nightly] = Idle
    /\ \E y \in round.rows :
         /\ allAway(round.holds, y.s)
         /\ Goes(Nightly, [at |-> "open", a |-> y.a, e |-> y.e, s |-> y.s,
                           row |-> [y.row EXCEPT !.open = "absent", !.opener = Nobody]])
         /\ round' = Rest(round.apps, round.rows \ {y})
    /\ UNCHANGED <<tables, history>> /\ Step

\* Any other is reminded once: its row is saved as the round read it.
NightReminds ==
    /\ job[Nightly] = Idle
    /\ \E y \in round.rows :
         /\ ~allAway(round.holds, y.s)
         /\ IF Stands(y.a)
            THEN /\ seat' = [seat EXCEPT ![y.a][y.s] = [y.row EXCEPT !.reminded = TRUE]]
                 /\ Wipes(y) /\ round' = Rest(round.apps, round.rows \ {y})
            ELSE round' = NoRound /\ UNCHANGED <<seat, wiped>>
    /\ UNCHANGED <<app, periods, issued, closed, job, revived, short, dropped, leftOut, unmade, freed>> /\ Step

----------------------------------------------------------------------------
\* auxiliary-pioneers.service.ts: periods kept by hand; office: an administrator or the
\* secretary, who may change a closed month.
Spans == {r \in Run : r.from <= r.to}

BeginCreate(r) ==
    /\ Begin(r, "create")
    /\ \E run \in Spans, office \in BOOLEAN :
         /\ periodAllowed(run, periods) /\ mayTouch(Span(run), office)
         /\ Goes(r, [at |-> "period", run |-> run])

InsertPeriod(r) ==
    /\ job[r].at = "period"
    /\ Inserted(job[r].run)
    /\ Goes(r, Idle)
    /\ UNCHANGED <<app, seat, closed, round, history>> /\ Step

\* update and stop move the months of a period.
BeginUpdate(r) ==
    /\ Begin(r, "update")
    /\ \E p \in periods, run \in Spans, office \in BOOLEAN :
         /\ periodAllowed(run, periods \ {p})
         /\ mayTouch((Span(p) \ Span(run)) \cup (Span(run) \ Span(p)), office)
         /\ Goes(r, [at |-> "span", was |-> p, run |-> run])

\* He ends his own «until cancelled», at the earliest with the month before.
BeginStopOwn(r) ==
    /\ Begin(r, "stopOwn")
    /\ \E p \in periods, end \in Month, office \in BOOLEAN :
         /\ p.to = OpenEnd /\ p.from <= end /\ end + 1 >= MonthAt[now]
         /\ periodAllowed([from |-> p.from, to |-> end], periods \ {p})
         /\ mayTouch((end + 1)..OpenEnd, office)
         /\ Goes(r, [at |-> "span", was |-> p, run |-> [from |-> p.from, to |-> end]])

\* The row written as it was read, with its new months; inserted again if it is gone.
WriteSpan(r) ==
    /\ job[r].at = "span"
    /\ LET j == job[r]
           others == {p \in periods : p.id # j.was.id}
       IN /\ periods' = others \cup {[j.was EXCEPT !.from = j.run.from, !.to = j.run.to]}
          /\ freed' = freed \cup ((UNION {Span(p) : p \in periods \ others}) \ Span(j.run))
    /\ Goes(r, Idle)
    /\ UNCHANGED <<app, seat, issued, closed, round, revived, short, wiped, dropped, leftOut, unmade>> /\ Step

\* One that has begun is deleted only by the office, and not across a closed month.
BeginRemove(r) ==
    /\ Begin(r, "remove")
    /\ \E p \in periods, office \in BOOLEAN :
         /\ p.from <= MonthAt[now] => office /\ Span(p) \cap closed = {}
         /\ Goes(r, [at |-> "delete", was |-> p])

DeletePeriod(r) ==
    /\ job[r].at = "delete"
    /\ LET others == {p \in periods : p.id # job[r].was.id}
       IN /\ periods' = others
          /\ freed' = freed \cup UNION {Span(p) : p \in periods \ others}
    /\ Goes(r, Idle)
    /\ UNCHANGED <<app, seat, issued, closed, round, revived, short, wiped, dropped, leftOut, unmade>> /\ Step

----------------------------------------------------------------------------
\* The server stops, or an exception ends what the worker was doing.
Lose(w) ==
    /\ used < MaxUsed /\ job[w] # Idle
    /\ used' = used + 1
    /\ Goes(w, Idle)
    /\ dropped' = IF "a" \in DOMAIN job[w] THEN dropped \cup {job[w].a} ELSE dropped
    /\ round' = IF w = Nightly THEN NoRound ELSE round
    /\ UNCHANGED <<tables, world, now, revived, short, wiped, leftOut, unmade, freed>>

\* A responsibility is taken from its holder, and nobody holds the place.  (That a place is
\* given to somebody is not modelled: an application approved while nobody held a place would
\* then have it without an answer and not open.)
HandOver ==
    /\ used < MaxUsed /\ used' = used + 1
    /\ \E s \in Seats : holds[s] # {} /\ holds' = [holds EXCEPT ![s] = {}]
    /\ UNCHANGED <<tables, elders, applicant, away, now, job, round, history>>

\* An elder without a place on the committee is one no more, or loses his account.
ElderLeaves ==
    /\ used < MaxUsed /\ used' = used + 1
    /\ \E u \in elders : ~isCommittee(u) /\ elders' = elders \ {u}
    /\ UNCHANGED <<tables, holds, applicant, away, now, job, round, history>>

\* The secretary closes a month that is over.
CloseMonth ==
    /\ used < MaxUsed /\ used' = used + 1
    /\ \E m \in Month \ closed : m < MonthAt[now] /\ closed' = closed \cup {m}
    /\ UNCHANGED <<app, seat, periods, issued, world, now, job, round, history>>

\* Days pass between the moments; a request or a round takes less than one.
Tick ==
    /\ now < Moments /\ round = NoRound /\ \A w \in Workers : job[w] = Idle
    /\ now' = now + 1
    /\ UNCHANGED <<tables, world, job, round, used, history>>

Init ==
    /\ \E S \in Setups :
         /\ app = [a \in App |-> IF a = 1 THEN S.app ELSE NoApp]
         /\ seat = [a \in App |-> IF a = 1 THEN S.seat ELSE [s \in Seats |-> NoRow]]
         /\ periods = S.periods
         /\ issued = Cardinality(S.periods)
         /\ holds = S.holds
         /\ elders = S.elders
         /\ applicant = S.applicant
         /\ away = S.away
    /\ closed = {} /\ now = 0
    /\ job = [w \in Workers |-> Idle] /\ round = NoRound /\ used = 0
    /\ revived = {} /\ short = {} /\ wiped = {} /\ dropped = {} /\ freed = {}
    /\ leftOut = [a \in App |-> {}] /\ unmade = [a \in App |-> {}]

Begins(r) == \/ BeginApply(r) \/ BeginPaper(r) \/ BeginChange(r) \/ BeginTakeBack(r)
             \/ BeginWithdraw(r) \/ BeginApprove(r) \/ BeginPass(r) \/ BeginOpenOther(r)
             \/ BeginCreate(r) \/ BeginUpdate(r) \/ BeginStopOwn(r) \/ BeginRemove(r)
Settles(w) == SettleIfDone(w) \/ CheckRun(w) \/ MakePeriod(w) \/ Approve(w)
Works(r) == \/ InsertApp(r) \/ SaveSeat(r) \/ Rewrite(r) \/ Erase(r) \/ SaveAnswer(r)
            \/ OpenSeat(r) \/ Settles(r)
            \/ InsertPeriod(r) \/ WriteSpan(r) \/ DeletePeriod(r)
Night == \/ BeginNight \/ NightTakes \/ NightOpens \/ NightReminds
         \/ Erase(Nightly) \/ OpenSeat(Nightly) \/ Settles(Nightly)

Next == \/ \E r \in Requests : Begins(r) \/ Works(r)
        \/ Night
        \/ \E w \in Workers : Lose(w) \/ RunFails(w)
        \/ HandOver \/ ElderLeaves \/ CloseMonth \/ Tick

\* What was begun goes on, and the nightly round runs.
Fairness == (\A r \in Requests : WF_vars(Works(r))) /\ WF_vars(Night)

Spec == Init /\ [][Next]_vars /\ Fairness

----------------------------------------------------------------------------
\* Every row, period and job is of its kind.
TypeOK ==
    /\ app \in [App -> Application] /\ seat \in [App -> [Seats -> Row]]
    /\ periods \subseteq Period /\ issued \in Nat /\ \A p \in periods : p.id <= issued
    /\ closed \subseteq Month /\ now \in 0..Moments
    /\ holds \in [Seats -> SUBSET Users] /\ elders \cup away \subseteq Users
    /\ job \in [Workers -> Job] /\ used \in 0..MaxUsed
    /\ round \in [apps: SUBSET [a: App, e: Application],
                  rows: SUBSET [a: App, e: Application, s: Seats, row: Row],
                  holds: [Seats -> SUBSET Users]]
    /\ revived \cup short \cup wiped \cup dropped \subseteq App
    /\ leftOut \in [App -> SUBSET (1..OpenEnd)] /\ unmade \in [App -> SUBSET (1..OpenEnd)]
    /\ freed \subseteq 1..OpenEnd

Answered(a) == {s \in Seats : seat[a][s].by # Nobody}

\* "Every place answered, or the rest cannot be filled and two have been" (settleIfDone): an
\* application approved in the app has three answers, or two and a place that is open, and
\* no brother answers in two places nor in his own case; but for those erased, still being
\* filed, or robbed of an answer by an older row, while they were settled.
ApprovedByTheCommittee ==
    \A a \in App :
        /\ ~app[a].paper => \A s \in Answered(a) : /\ seat[a][s].by # applicant
                                                  /\ \A t \in Answered(a) \ {s} : seat[a][s].by # seat[a][t].by
        /\ (app[a].state = "approved" /\ a \notin revived \cup short \cup wiped) =>
              /\ Cardinality(Answered(a)) >= 2
              /\ \A s \in Seats \ Answered(a) : isOpen(seat[a], s, holds)

\* The periods are made and then the application is approved: every month approved is
\* served, unless it was left out (closed, or another period in the way), or making its
\* period failed and the failure was caught, or it was taken away by hand; however the
\* answers meet each other and whatever is cut off.
ServedAsApproved ==
    \A a \in App : app[a].state = "approved" =>
        Wanted(app[a]) \subseteq Served \cup leftOut[a] \cup unmade[a] \cup freed

AllAnswered(a) == Pending(a) /\ Answered(a) = Seats
\* An application everybody has answered is not left waiting: it is approved or taken back, or
\* loses an answer, unless a request on it was cut off or a change put it back.
AnsweredIsSettled == \A a \in App : AllAnswered(a) ~> (~AllAnswered(a) \/ a \in dropped)

----------------------------------------------------------------------------
(* Requirements the code does not meet: a run with one of them as its       *)
(* property ends in a counterexample (README).                              *)

\* "Taken back [...] it is deleted" and "a pending one that is taken back is deleted
\* outright" (the entity): what was erased does not come back.
TakenBackStaysGone == revived = {}

\* "Two at once for the same place: the database lets one through" (approve), and only the first
\* elder to answer takes an open place (the service's comment): nothing done in a place is undone.
FirstAnswerStands == wiped = {}

\* "One person, one period a month" (assertPeriodAllowed).
OnePeriodAMonth == \A p, q \in periods : p # q => ~overlaps(p, q)

\* "Leaving out a month already closed or covered meanwhile", and of a run that failed "that
\* run is already served" (approveApplication): only such months are left out, not the whole
\* run they stand in, nor one whose period could not be saved.
OnlyCoveredLeftOut == \A a \in App : leftOut[a] \cup unmade[a] \subseteq Served \cup closed \cup freed

\* "When no elder is left who could fill an open place, two approvals are enough": such an
\* application is approved without anybody doing more.
TwoAreEnough ==
    \A a \in App : (Pending(a) /\ Exists(seat[a]) = Seats /\ done(seat[a], holds))
        ~> (~Pending(a) \/ ~done(seat[a], holds) \/ a \in dropped)
=============================================================================
