--------------------------- MODULE CartWeeksProofs ---------------------------
(* The handlers of CartWeeks keep the promise of CartRota, for any number of *)
(* people, days, places and requests in flight.                              *)
EXTENDS CartWeeks, FiniteSetTheorems, TLAPS

----------------------------------------------------------------------------
(* What follows from the promise of CartRota alone, for every value of the *)
(* constants.                                                              *)

RotaType == plan \in [Ids -> Place \cup {NoPlace}]

\* The ids at one half-hour of one day are finitely many, so they are counted.
LEMMA StandingFinite ==
    ASSUME NEW d, NEW t
    PROVE /\ IsFiniteSet(StandingAt(d, t))
          /\ Cardinality(StandingAt(d, t)) \in Nat
<1>1. IsFiniteSet(Ids)
  BY RotaConstants, FS_Interval DEF Ids
<1>2. StandingAt(d, t) \subseteq Ids
  BY DEF StandingAt, OnDay
<1> QED
  BY <1>1, <1>2, FS_Subset, FS_CardinalityType

\* Fewer ids count no more than more ids.
LEMMA FewerStand ==
    ASSUME NEW S, NEW T, IsFiniteSet(T), S \subseteq T
    PROVE /\ IsFiniteSet(S)
          /\ Cardinality(S) \in Nat
          /\ Cardinality(T) \in Nat
          /\ Cardinality(S) <= Cardinality(T)
BY FS_Subset, FS_CardinalityType

\* Putting one person on where one more fits leaves every half-hour within the
\* capacity: the half-hours of his own span gain at most him, the others nobody.
LEMMA PutOnKeepsCapacity ==
    ASSUME RotaType, NeverOverfull, NEW i \in Ids, NEW x \in Place, PutOn(i, x)
    PROVE NeverOverfull'
<1> SUFFICES ASSUME NEW d \in Days, NEW t \in 0..Slots
             PROVE Cardinality(StandingAt(d, t)') <= CapacityMax
  BY DEF NeverOverfull
<1> DEFINE S == StandingAt(d, t)
<1>f. IsFiniteSet(S) /\ Cardinality(S) \in Nat /\ Cardinality(S) <= CapacityMax
  BY StandingFinite DEF NeverOverfull
<1>p. plan' = [plan EXCEPT ![i] = x] /\ plan \in [Ids -> Place \cup {NoPlace}]
  BY DEF PutOn, RotaType
<1>1. CASE x.day = d /\ covers(x, t)
  <2>1. StandingAt(d, t)' \subseteq (S \ {i}) \cup {i}
    BY <1>p DEF StandingAt, OnDay
  <2>2. IsFiniteSet(S \ {i}) /\ Cardinality(S \ {i}) \in Nat /\ i \notin S \ {i}
    BY <1>f, FewerStand
  <2>3. Cardinality(S \ {i}) < CapacityMax
    <3>1. ~overfull(d, x, i)
      BY <1>1 DEF PutOn
    <3>2. ~(Cardinality(S \ {i}) >= CapacityMax)
      BY <1>1, <3>1 DEF overfull
    <3> QED
      BY <2>2, <3>2, RotaConstants
  <2>4. /\ IsFiniteSet((S \ {i}) \cup {i})
        /\ Cardinality((S \ {i}) \cup {i}) = Cardinality(S \ {i}) + 1
    BY <2>2, FS_AddElement
  <2>5. Cardinality(StandingAt(d, t)') <= Cardinality((S \ {i}) \cup {i})
    BY <2>1, <2>4, FewerStand
  <2>6. Cardinality(StandingAt(d, t)') \in Nat
    BY <2>1, <2>4, FewerStand
  <2> HIDE DEF S
  <2> QED
    BY <2>2, <2>3, <2>4, <2>5, <2>6, RotaConstants
<1>2. CASE ~(x.day = d /\ covers(x, t))
  <2>1. StandingAt(d, t)' \subseteq S
    BY <1>2, <1>p DEF StandingAt, OnDay
  <2>2. Cardinality(StandingAt(d, t)') \in Nat /\ Cardinality(StandingAt(d, t)') <= Cardinality(S)
    BY <2>1, <1>f, FewerStand
  <2> QED
    BY <2>2, <1>f, RotaConstants
<1> QED
  BY <1>1, <1>2

\* Taking people off adds nobody anywhere.
LEMMA TakeOffKeepsCapacity ==
    ASSUME RotaType, NeverOverfull, NEW T \in SUBSET Ids, TakeOff(T)
    PROVE NeverOverfull'
<1> SUFFICES ASSUME NEW d \in Days, NEW t \in 0..Slots
             PROVE Cardinality(StandingAt(d, t)') <= CapacityMax
  BY DEF NeverOverfull
<1>1. StandingAt(d, t)' \subseteq StandingAt(d, t)
  BY DEF StandingAt, OnDay, TakeOff
<1>2. /\ Cardinality(StandingAt(d, t)') \in Nat
      /\ Cardinality(StandingAt(d, t)) \in Nat
      /\ Cardinality(StandingAt(d, t)') <= Cardinality(StandingAt(d, t))
  BY <1>1, StandingFinite, FewerStand
<1> QED
  BY <1>2, RotaConstants DEF NeverOverfull

\* The person put on or moved clashes with none of his other places, and the
\* places of the others do not change.
LEMMA PutOnKeepsApart ==
    ASSUME RotaType, NobodyInTwoPlaces, NEW i \in Ids, NEW x \in Place, PutOn(i, x)
    PROVE NobodyInTwoPlaces'
<1>p. plan' = [plan EXCEPT ![i] = x] /\ plan \in [Ids -> Place \cup {NoPlace}]
  BY DEF PutOn, RotaType
<1> SUFFICES ASSUME NEW k \in Ids, NEW l \in Ids, k # l,
                    plan'[k] # NoPlace, plan'[l] # NoPlace,
                    plan'[k].who \in People, plan'[k].who = plan'[l].who,
                    DateOf[plan'[k].day] = DateOf[plan'[l].day]
             PROVE ~overlaps(plan'[k], plan'[l])
  BY DEF NobodyInTwoPlaces, overlaps
<1>c. x.who \in People => ~clash(x.who, x.day, x, i)
  BY DEF PutOn
<1>1. CASE k = i
  <2>1. plan'[k] = x /\ plan'[l] = plan[l] /\ l \in Ids \ {i}
    BY <1>1, <1>p
  <2> QED
    BY <1>c, <2>1 DEF clash, overlaps
<1>2. CASE l = i
  <2>1. plan'[l] = x /\ plan'[k] = plan[k] /\ k \in Ids \ {i}
    BY <1>2, <1>p
  <2> QED
    BY <1>c, <2>1 DEF clash, overlaps
<1>3. CASE k # i /\ l # i
  BY <1>3, <1>p DEF NobodyInTwoPlaces
<1> QED
  BY <1>1, <1>2, <1>3

\* The plan is well formed, never overfull, and nobody is in two places: the
\* three facts every step of RotaNext keeps.
RotaSafe == RotaType /\ NeverOverfull /\ NobodyInTwoPlaces

LEMMA RotaInitSafe == RotaInit => RotaSafe
<1> SUFFICES ASSUME RotaInit PROVE RotaSafe
  OBVIOUS
<1>1. \A d, t : StandingAt(d, t) = {}
  BY DEF RotaInit, StandingAt, OnDay
<1>2. NeverOverfull
  BY <1>1, FS_EmptySet, RotaConstants DEF NeverOverfull
<1> QED
  BY <1>2 DEF RotaInit, RotaSafe, RotaType, NobodyInTwoPlaces

LEMMA RotaStepSafe == RotaSafe /\ [RotaNext]_plan => RotaSafe'
<1> SUFFICES ASSUME RotaSafe, [RotaNext]_plan PROVE RotaSafe'
  OBVIOUS
<1> USE DEF RotaSafe
<1>1. ASSUME NEW i \in Ids, NEW x \in Place, PutOn(i, x) PROVE RotaSafe'
  <2>1. RotaType'
    BY <1>1 DEF RotaType, PutOn
  <2> QED
    BY <1>1, <2>1, PutOnKeepsCapacity, PutOnKeepsApart
<1>2. ASSUME NEW T \in SUBSET Ids, TakeOff(T) PROVE RotaSafe'
  <2>1. RotaType'
    BY <1>2 DEF RotaType, TakeOff
  <2>2. NobodyInTwoPlaces'
    BY <1>2 DEF NobodyInTwoPlaces, TakeOff, RotaType
  <2> QED
    BY <1>2, <2>1, <2>2, TakeOffKeepsCapacity
<1>3. CASE UNCHANGED plan
  BY <1>3 DEF RotaType, NeverOverfull, NobodyInTwoPlaces, StandingAt, OnDay
<1> QED
  BY <1>1, <1>2, <1>3 DEF RotaNext

\* Whatever keeps the promise of CartRota never has a half-hour overfull and
\* never has anybody in two places.
THEOREM RotaIsSafe == RotaSpec => [](NeverOverfull /\ NobodyInTwoPlaces)
<1>1. RotaSafe => NeverOverfull /\ NobodyInTwoPlaces
  BY DEF RotaSafe
<1> QED
  BY <1>1, RotaInitSafe, RotaStepSafe, PTL DEF RotaSpec

----------------------------------------------------------------------------
(* The handlers. *)

JobType == job \in [Requests -> AJob \cup {NoJob}]

\* The idle job is none of the jobs of a handler, so Busy tells them apart.
LEMMA BusyIsAJob ==
    ASSUME JobType, NEW r \in Requests
    PROVE /\ Busy(r) => job[r] \in AJob
          /\ ~Busy(r) => job[r] = NoJob
BY DEF JobType, Busy, AJob, NoJob, Kinds

\* A request begun is a well-formed job.
LEMMA BeginType ==
    ASSUME TypeOK, NEW r \in Requests, NEW kind \in Kinds, NEW step \in Steps,
           NEW i \in Nat, NEW d \in Days, NEW who \in Holders, NEW s, s.from \in 0..Slots,
           s.to \in 0..Slots, NEW was \in Span, Begin(r, kind, step, i, d, who, s, was)
    PROVE TypeOK'
<1>1. [kind |-> kind, step |-> step, id |-> i, day |-> d, who |-> who, from |-> s.from,
       to |-> s.to, was |-> was, seen |-> status, at |-> now] \in AJob
  BY DEF AJob, TypeOK
<1>2. job' \in [Requests -> AJob \cup {NoJob}]
  BY <1>1 DEF Begin, TypeOK
<1> QED
  BY <1>2 DEF Begin, TypeOK

\* A job that goes on to another step stays well formed, and so does one that ends.
LEMMA GoOnType ==
    ASSUME JobType, NEW r \in Requests
    PROVE /\ \A st \in Steps : Busy(r) /\ GoTo(r, st) => JobType'
          /\ Done(r) => JobType'
          /\ Busy(r) /\ ThenTell(r) => JobType'
<1>1. ASSUME NEW st \in Steps, Busy(r), GoTo(r, st) PROVE JobType'
  <2>1. [job[r] EXCEPT !.step = st] \in AJob
    BY <1>1, BusyIsAJob DEF AJob
  <2> QED
    BY <1>1, <2>1 DEF GoTo, JobType
<1>2. ASSUME Done(r) PROVE JobType'
  BY <1>2 DEF Done, JobType
<1> QED
  BY <1>1, <1>2 DEF ThenTell, Steps

\* A handler's job is busy.
LEMMA AtIsBusy ==
    ASSUME NEW r, NEW kinds, NEW step, kinds \subseteq Kinds, At(r, kinds, step)
    PROVE Busy(r)
BY DEF At, Busy, Kinds

\* There is a day to name where a request is about the whole week.
LEMMA SomeDay == AnyDay \in Days
BY CartConstants DEF AnyDay

\* The instants of a span of a day are natural numbers.
LEMMA InstantsAreNat ==
    ASSUME NEW d \in Days, NEW s
    PROVE Instants(d, s) \subseteq Nat
<1>1. DateOf[d] \in Nat /\ Slots \in Nat
  BY RotaConstants
<1>2. \A a, b \in Nat : a * b \in Nat
  OBVIOUS
<1>3. DateOf[d] * Slots \in Nat
  BY <1>1, <1>2
<1>4. \A t \in 0..Slots : DateOf[d] * Slots + t \in Nat
  BY <1>1, <1>3
<1> QED
  BY <1>4 DEF Instants, Instant

LEMMA AheadIsNat ==
    ASSUME RotaType, NEW i \in Ids, NEW n
    PROVE ahead(i, n) \subseteq Nat
<1>1. CASE plan[i] = NoPlace
  BY <1>1 DEF ahead
<1>2. CASE plan[i] # NoPlace
  <2>1. plan[i].day \in Days
    BY <1>2 DEF RotaType, Place
  <2> QED
    BY <1>2, <2>1, InstantsAreNat DEF ahead
<1> QED
  BY <1>1, <1>2

LEMMA LinesType ==
    ASSUME TypeOK, NEW S, NEW n
    PROVE Lines(S, n) \in [Ids -> SUBSET Nat]
BY AheadIsNat DEF Lines, TypeOK, RotaType

----------------------------------------------------------------------------
(* Type correctness *)

LEMMA InitType == Init => TypeOK
<1> SUFFICES ASSUME Init PROVE TypeOK
  OBVIOUS
<1>1. [from |-> 0, to |-> Slots] \in Span
  BY RotaConstants DEF Span
<1>2. hours \in [Days -> Span]
  BY <1>1 DEF Init
<1>3. now \in Nat
  BY CartConstants DEF Init
<1>4. job \in [Requests -> AJob \cup {NoJob}]
  BY DEF Init
<1>5. /\ status \in Statuses
      /\ planned \in [Days -> {"never", "planned", "gone"}]
      /\ plan \in [Ids -> Place \cup {NoPlace}]
      /\ told \in [Ids -> SUBSET Nat]
  BY DEF Init, Statuses
<1>6. wishes = {} /\ off = {} /\ heard = {} /\ issued = 0 /\ begun = 0 /\ raced = FALSE
  BY DEF Init
<1> QED
  BY <1>2, <1>3, <1>4, <1>5, <1>6 DEF TypeOK

LEMMA StartType ==
    ASSUME TypeOK, NEW r \in Requests, Start(r)
    PROVE TypeOK'
<1> DEFINE Rest == UNCHANGED <<status, planned, hours, plan, issued, wishes, off, told, raced, now>>
<1>s. NoSpan \in Span /\ NoSpan.from \in 0..Slots /\ NoSpan.to \in 0..Slots /\ 0 \in Nat
  BY RotaConstants DEF NoSpan, Span
<1>g. Guest \in Holders
  BY DEF Holders
<1>c. \A s \in Spans : s.from \in 0..Slots /\ s.to \in 0..Slots
  BY CartConstants DEF Span
<1>p. \A i \in Ids : plan[i] # NoPlace =>
         /\ plan[i].day \in Days /\ plan[i].who \in Holders
         /\ plan[i].from \in 0..Slots /\ plan[i].to \in 0..Slots
         /\ SpanOf(plan[i]) \in Span
  BY DEF TypeOK, Place, SpanOf, Span
<1>i. Ids \subseteq Nat
  BY RotaConstants DEF Ids
<1>1. ASSUME NEW d \in Days, NEW s \in Spans, NEW who \in Holders, BeginAssign(r, d, who, s)
      PROVE TypeOK'
  BY <1>1, <1>s, <1>c, BeginType DEF BeginAssign, Kinds, Steps
<1>2. ASSUME NEW d \in Days, NEW s \in Spans, NEW who \in People, BeginRequest(r, d, who, s)
      PROVE TypeOK'
  BY <1>2, <1>s, <1>c, BeginType DEF BeginRequest, Kinds, Steps, Holders
<1>3. ASSUME NEW d \in Days, NEW s \in Spans, BeginCallOff(r, d, s) PROVE TypeOK'
  BY <1>3, <1>s, <1>c, <1>g, BeginType DEF BeginCallOff, Kinds, Steps
<1>4. ASSUME NEW d \in Days, NEW s \in Spans, BeginUpdateDay(r, d, s) PROVE TypeOK'
  BY <1>4, <1>s, <1>c, <1>g, BeginType DEF BeginUpdateDay, Kinds, Steps
<1>5. ASSUME NEW i \in Ids, NEW s \in Spans, BeginUpdate(r, i, s) PROVE TypeOK'
  BY <1>5, <1>p, <1>c, <1>i, BeginType DEF BeginUpdate, Kinds, Steps
<1>6. ASSUME NEW i \in Ids, BeginRemove(r, i) PROVE TypeOK'
  BY <1>6, <1>p, <1>s, <1>i, BeginType DEF BeginRemove, Kinds, Steps
<1>7. ASSUME NEW i \in Ids, BeginCancelMine(r, i) PROVE TypeOK'
  BY <1>7, <1>p, <1>s, <1>i, BeginType DEF BeginCancelMine, Kinds, Steps
<1>8. ASSUME NEW o \in off, BeginPutBack(r, o) PROVE TypeOK'
  <2>1. o.id \in Nat /\ o.day \in Days /\ o.from \in 0..Slots /\ o.to \in 0..Slots
    BY DEF TypeOK, CalledOff
  <2> QED
    BY <1>8, <2>1, <1>s, <1>g, BeginType DEF BeginPutBack, Kinds, Steps
<1>9. ASSUME NEW d \in Days, BeginDeleteDay(r, d) PROVE TypeOK'
  BY <1>9, <1>s, <1>g, BeginType DEF BeginDeleteDay, Kinds, Steps
<1>10. ASSUME AnyDay \in Days, BeginOpen(r) \/ BeginPublish(r) \/ BeginDeleteWeek(r)
       PROVE TypeOK'
  BY <1>10, <1>s, <1>g, BeginType DEF BeginOpen, BeginPublish, BeginDeleteWeek, Kinds, Steps
<1> QED
  BY <1>1, <1>2, <1>3, <1>4, <1>5, <1>6, <1>7, <1>8, <1>9, <1>10, SomeDay DEF Start

LEMMA TakeType ==
    ASSUME TypeOK, NEW r \in Requests, Take(r)
    PROVE TypeOK'
<1>j. JobType
  BY DEF TypeOK, JobType
<1>1. CASE LockDay(r)
  <2>1. Busy(r)
    BY <1>1 DEF LockDay, At, Busy, Kinds
  <2>2. [job[r] EXCEPT !.step = "inDay", !.seen = status] \in AJob
    BY <2>1, <1>j, BusyIsAJob DEF AJob, Steps, TypeOK
  <2>3. job' \in [Requests -> AJob \cup {NoJob}]
    BY <1>1, <2>2, <1>j DEF LockDay, JobType
  <2> QED
    BY <1>1, <2>3 DEF LockDay, TypeOK
<1>2. CASE LockPerson(r)
  <2>1. Busy(r)
    BY <1>2 DEF LockPerson, At, Busy, Kinds
  <2>2. JobType'
    BY <1>2, <2>1, <1>j, GoOnType DEF LockPerson, Steps
  <2> QED
    BY <1>2, <2>2 DEF LockPerson, TypeOK, JobType
<1> QED
  BY <1>1, <1>2 DEF Take

LEMMA CommitType ==
    ASSUME TypeOK, NEW r \in Requests, Commit(r)
    PROVE TypeOK'
<1>j. JobType /\ Busy(r)
  BY DEF TypeOK, JobType, Commit, At, Busy, Kinds
<1>a. job[r] \in AJob
  BY <1>j, BusyIsAJob
<1> DEFINE i == IF job[r].kind = "assign" THEN issued + 1 ELSE job[r].id
<1>1. [day |-> job[r].day, who |-> job[r].who, from |-> job[r].from, to |-> job[r].to] \in Place
  BY <1>a DEF AJob, Place
<1>2. plan' \in [Ids -> Place \cup {NoPlace}]
  BY <1>1 DEF TypeOK, Commit
<1>3. i \in Nat /\ issued' \in Nat
  BY <1>a DEF AJob, TypeOK, Commit
<1>4. [job[r] EXCEPT !.step = "tell", !.id = i] \in AJob
  BY <1>a, <1>3 DEF AJob, Steps
<1>5. job' \in [Requests -> AJob \cup {NoJob}]
  BY <1>4, <1>j DEF Commit, JobType
<1>6. raced' \in BOOLEAN
  BY DEF Commit, TypeOK
<1> QED
  BY <1>2, <1>3, <1>5, <1>6 DEF Commit, TypeOK

LEMMA CallOffType ==
    ASSUME TypeOK, NEW r \in Requests, CallOff(r)
    PROVE TypeOK'
<1>j. JobType /\ Busy(r)
  BY DEF TypeOK, JobType, CallOff, At, Busy, Kinds
<1>a. job[r] \in AJob
  BY <1>j, BusyIsAJob
<1>1. CASE planned[job[r].day] # "planned"
  <2>1. JobType'
    BY <1>1, <1>j, GoOnType DEF CallOff
  <2> QED
    BY <1>1, <2>1 DEF CallOff, TypeOK, JobType
<1>2. CASE planned[job[r].day] = "planned"
  <2>1. PICK k \in 1..MaxJobs :
           /\ off' = off \cup {[id |-> k, day |-> job[r].day,
                                from |-> job[r].from, to |-> job[r].to]}
           /\ job' = [job EXCEPT ![r] = IF @.seen = "published"
                                        THEN [@ EXCEPT !.step = "tell", !.id = k] ELSE NoJob]
           /\ raced' = (raced \/ Outdated(r))
    BY <1>2 DEF CallOff
  <2>2. k \in Nat
    BY CartConstants
  <2>3. off' \subseteq CalledOff
    BY <2>1, <2>2, <1>a DEF AJob, TypeOK, CalledOff
  <2>4. [job[r] EXCEPT !.step = "tell", !.id = k] \in AJob
    BY <1>a, <2>2 DEF AJob, Steps
  <2>5. job' \in [Requests -> AJob \cup {NoJob}]
    BY <2>1, <2>4, <1>j DEF JobType
  <2>6. raced' \in BOOLEAN
    BY <2>1 DEF TypeOK, Outdated
  <2> QED
    BY <2>3, <2>5, <2>6 DEF CallOff, TypeOK
<1> QED
  BY <1>1, <1>2

LEMMA RequestType ==
    ASSUME TypeOK, NEW r \in Requests, Request(r)
    PROVE TypeOK'
<1>j. JobType /\ Busy(r)
  BY DEF TypeOK, JobType, Request, At, Busy, Kinds
<1>a. job[r] \in AJob /\ JobType'
  BY <1>j, BusyIsAJob, GoOnType DEF Request
<1>1. PICK k \in 1..MaxWishes :
         wishes' \subseteq wishes \cup
            {[id |-> k, day |-> job[r].day, who |-> job[r].who, from |-> job[r].from,
              to |-> job[r].to, late |-> status = "published"]}
  BY DEF Request
<1>2. k \in Nat
  BY CartConstants
<1>3. [id |-> k, day |-> job[r].day, who |-> job[r].who, from |-> job[r].from,
       to |-> job[r].to, late |-> status = "published"] \in Wish
  BY <1>a, <1>2 DEF AJob, Wish
<1>4. wishes' \subseteq Wish
  BY <1>1, <1>3 DEF TypeOK
<1> QED
  BY <1>a, <1>4 DEF Request, TypeOK, JobType

\* Rows only go when days are dropped.
LEMMA DropDaysType ==
    ASSUME TypeOK, NEW S, DropDays(S)
    PROVE /\ planned' \in [Days -> {"never", "planned", "gone"}]
          /\ plan' \in [Ids -> Place \cup {NoPlace}]
          /\ wishes' \subseteq Wish
          /\ off' \subseteq CalledOff
BY DEF DropDays, TypeOK

LEMMA WriteType ==
    ASSUME TypeOK, NEW r \in Requests, Write(r)
    PROVE TypeOK'
<1>j. JobType
  BY DEF TypeOK, JobType
<1>b. /\ Remove(r) \/ PutBack(r) => Busy(r) /\ ThenTell(r)
      /\ Publish(r) => Busy(r) /\ GoTo(r, "tell")
      /\ UpdateDay(r) => Busy(r)
  BY DEF Remove, PutBack, Publish, UpdateDay, At, Busy, Kinds
<1>t. "tell" \in Steps
  BY DEF Steps
<1>1. CASE Remove(r)
  <2>1. JobType'
    BY <1>1, <1>b, <1>j, GoOnType
  <2> QED
    BY <1>1, <2>1 DEF Remove, TypeOK, JobType, Outdated
<1>2. CASE CancelMine(r)
  <2>1. JobType'
    BY <1>2, <1>j, GoOnType DEF CancelMine
  <2> QED
    BY <1>2, <2>1 DEF CancelMine, TypeOK, JobType
<1>3. CASE PutBack(r)
  <2>1. JobType'
    BY <1>3, <1>b, <1>j, GoOnType
  <2> QED
    BY <1>3, <2>1 DEF PutBack, TypeOK, JobType, Outdated
<1>4. CASE UpdateDay(r)
  <2>1. JobType'
    BY <1>4, <1>j, GoOnType DEF UpdateDay
  <2>2. SpanOf(job[r]) \in Span
    BY <1>4, <1>b, <1>j, BusyIsAJob DEF AJob, SpanOf, Span
  <2> QED
    BY <1>4, <2>1, <2>2 DEF UpdateDay, TypeOK, JobType
<1>5. CASE DeleteDay(r)
  <2>1. JobType'
    BY <1>5, <1>j, GoOnType DEF DeleteDay
  <2> QED
    BY <1>5, <2>1, DropDaysType DEF DeleteDay, TypeOK, JobType
<1>6. CASE Open(r)
  <2>1. JobType'
    BY <1>6, <1>j, GoOnType DEF Open
  <2> QED
    BY <1>6, <2>1 DEF Open, TypeOK, JobType, Statuses
<1>7. CASE Publish(r)
  <2>1. JobType'
    BY <1>7, <1>b, <1>t, <1>j, GoOnType
  <2>2. \A w \in wishes : [w EXCEPT !.late = FALSE] \in Wish
    BY DEF TypeOK, Wish
  <2>3. wishes' \subseteq Wish
    BY <1>7, <2>2 DEF Publish
  <2> QED
    BY <1>7, <2>1, <2>3 DEF Publish, TypeOK, JobType, Statuses
<1>8. CASE DeleteWeek(r)
  <2>1. JobType'
    BY <1>8, <1>j, GoOnType DEF DeleteWeek
  <2> QED
    BY <1>8, <2>1, DropDaysType DEF DeleteWeek, TypeOK, JobType, Statuses
<1> QED
  BY <1>1, <1>2, <1>3, <1>4, <1>5, <1>6, <1>7, <1>8, CommitType, CallOffType, RequestType
     DEF Write

LEMMA TellType ==
    ASSUME TypeOK, NEW r \in Requests, Tell(r)
    PROVE TypeOK'
<1>j. JobType /\ RotaType
  BY DEF TypeOK, JobType, RotaType
<1>1. CASE TellChange(r)
  <2>1. JobType'
    BY <1>1, <1>j, GoOnType DEF TellChange
  <2>2. \A S, n, k : [Lines(S, n) EXCEPT ![k] = {}] \in [Ids -> SUBSET Nat]
    BY LinesType
  <2>3. told' \in [Ids -> SUBSET Nat]
    BY <1>1, <2>2, LinesType DEF TellChange, TypeOK
  <2> QED
    BY <1>1, <2>1, <2>3 DEF TellChange, TypeOK, JobType
<1>2. CASE TellCalledOff(r)
  <2>1. JobType'
    BY <1>2, <1>j, GoOnType DEF TellCalledOff
  <2>2. Busy(r) /\ job[r].day \in Days
    BY <1>2, <1>j, BusyIsAJob DEF TellCalledOff, At, Busy, Kinds, AJob
  <2>3. \A i \in Ids : told[i] \subseteq Nat /\ Instants(job[r].day, plan[i]) \subseteq Nat
    BY <2>2, InstantsAreNat DEF TypeOK
  <2>4. told' \in [Ids -> SUBSET Nat]
    BY <1>2, <2>3 DEF TellCalledOff
  <2>5. raced' \in BOOLEAN
    BY <1>2 DEF TellCalledOff, TypeOK
  <2>6. heard' \subseteq Nat \X People
    <3>1. job[r].id \in Nat
      BY <1>j, <2>2, BusyIsAJob DEF AJob
    <3>2. heard' \subseteq heard \cup ({job[r].id} \X People)
      BY <1>2 DEF TellCalledOff
    <3> QED
      BY <3>1, <3>2 DEF TypeOK
  <2> QED
    BY <1>2, <2>1, <2>4, <2>5, <2>6 DEF TellCalledOff, TypeOK, JobType
<1>3. CASE TellPublished(r)
  <2>1. JobType'
    BY <1>3, <1>j, GoOnType DEF TellPublished
  <2>2. heard' \subseteq Nat \X People
    <3>1. heard' \subseteq heard \cup ({0} \X People)
      BY <1>3 DEF TellPublished
    <3> QED
      BY <3>1 DEF TypeOK
  <2>3. told' \in [Ids -> SUBSET Nat] /\ raced' \in BOOLEAN
    BY <1>3, LinesType DEF TellPublished, TypeOK
  <2> QED
    BY <1>3, <2>1, <2>2, <2>3 DEF TellPublished, TypeOK, JobType
<1> QED
  BY <1>1, <1>2, <1>3 DEF Tell

LEMMA StepType == TypeOK /\ [Next]_vars => TypeOK'
<1> SUFFICES ASSUME TypeOK, [Next]_vars PROVE TypeOK'
  OBVIOUS
<1>1. CASE Tick
  BY <1>1, CartConstants DEF Tick, TypeOK
<1>2. ASSUME NEW S \in SUBSET Days, NEW s \in Spans, BuildWeek(S, s) PROVE TypeOK'
  <2>1. SpanOf(s) \in Span
    BY CartConstants DEF SpanOf, Span
  <2> QED
    BY <1>2, <2>1 DEF BuildWeek, TypeOK, Statuses
<1>3. ASSUME NEW w \in wishes, WithdrawRequest(w) PROVE TypeOK'
  BY <1>3 DEF WithdrawRequest, TypeOK
<1>4. ASSUME NEW r \in Requests, Lose(r) PROVE TypeOK'
  <2>1. JobType'
    BY <1>4, GoOnType DEF Lose, TypeOK, JobType
  <2> QED
    BY <1>4, <2>1 DEF Lose, TypeOK, JobType
<1>5. CASE UNCHANGED vars
  BY <1>5 DEF vars, TypeOK
<1> QED
  BY <1>1, <1>2, <1>3, <1>4, <1>5, StartType, TakeType, WriteType, TellType DEF Next

\* Every variable keeps its type, whatever the requests and their interleaving.
THEOREM TypeCorrect == Spec => []TypeOK
BY InitType, StepType, PTL DEF Spec

----------------------------------------------------------------------------
(* The locks: what a request has checked inside its transaction still holds *)
(* when it writes, so the write is a step CartRota allows                   *)

\* A step that puts nobody new on day d leaves room there where there was room.
NobodyNewOn(d) == \A i \in Ids : (plan'[i] # NoPlace /\ plan'[i].day = d) => plan'[i] = plan[i]

LEMMA RoomIsKept ==
    ASSUME NEW d, NEW s, NEW e, NobodyNewOn(d), ~overfull(d, s, e)
    PROVE ~overfull(d, s, e)'
<1> SUFFICES ASSUME NEW t \in 0..Slots, covers(s, t)
             PROVE ~(Cardinality(StandingAt(d, t)' \ {e}) >= CapacityMax)
  BY DEF overfull
<1>1. StandingAt(d, t)' \ {e} \subseteq StandingAt(d, t) \ {e}
  BY DEF StandingAt, OnDay, NobodyNewOn
<1>2. IsFiniteSet(StandingAt(d, t) \ {e})
  BY StandingFinite, FewerStand
<1>3. ~(Cardinality(StandingAt(d, t) \ {e}) >= CapacityMax)
  BY DEF overfull
<1>4. /\ Cardinality(StandingAt(d, t)' \ {e}) \in Nat
      /\ Cardinality(StandingAt(d, t) \ {e}) \in Nat
      /\ Cardinality(StandingAt(d, t)' \ {e}) <= Cardinality(StandingAt(d, t) \ {e})
  BY <1>1, <1>2, FewerStand
<1> QED
  BY <1>3, <1>4, RotaConstants

\* A step that gives p no new place leaves him as free as he was.
NothingNewFor(p) == \A i \in Ids : (plan'[i] # NoPlace /\ plan'[i].who = p) => plan'[i] = plan[i]

LEMMA FreedomIsKept ==
    ASSUME NEW p, NEW d, NEW s, NEW e, NothingNewFor(p), ~clash(p, d, s, e)
    PROVE ~clash(p, d, s, e)'
BY DEF clash, NothingNewFor

\* A request that is not, or no longer, inside the transaction holds no lock.  The
\* checks of the others survive if nothing new comes where they have locked.
LEMMA OthersKeepTheirChecks ==
    ASSUME TypeOK, ChecksStillHold, NEW r \in Requests, NEW x,
           job' = [job EXCEPT ![r] = x],
           x.kind = "idle" \/ x.step \notin {"inDay", "inBoth"},
           \A q \in Requests \ {r} : InTransaction(q) => NobodyNewOn(job[q].day),
           \A q \in Requests \ {r} :
              (InTransaction(q) /\ job[q].step = "inBoth" /\ job[q].who \in People)
                 => NothingNewFor(job[q].who)
    PROVE ChecksStillHold'
<1>1. \A q \in Requests : q # r => job'[q] = job[q]
  BY DEF TypeOK
<1>2. job'[r] = x
  BY DEF TypeOK
<1>3. ~InTransaction(r)'
  BY <1>2 DEF InTransaction, Busy
<1>4. \A q \in Requests : InTransaction(q)' => q # r /\ InTransaction(q)
  BY <1>1, <1>3 DEF InTransaction, Busy
<1>5. \A q \in Requests, d \in Days : HoldsDay(q, d)' => HoldsDay(q, d)
  BY <1>1, <1>2 DEF HoldsDay, Busy
<1>6. \A q \in Requests, p \in People : HoldsPerson(q, p)' => HoldsPerson(q, p)
  BY <1>1, <1>2 DEF HoldsPerson, Busy
<1>7. ASSUME NEW q \in Requests, InTransaction(q)'
      PROVE /\ ~overfull(job[q].day, job[q], exceptId(job[q]))'
            /\ (job[q].step = "inBoth" /\ job[q].who \in People)'
                  => ~clash(job[q].who, job[q].day, job[q], exceptId(job[q]))'
  <2>1. job'[q] = job[q] /\ InTransaction(q) /\ q \in Requests \ {r}
    BY <1>1, <1>4, <1>7
  <2>2. ASSUME NEW y, y = job[q]
        PROVE /\ ~overfull(y.day, y, exceptId(y))'
              /\ (y.step = "inBoth" /\ y.who \in People) => ~clash(y.who, y.day, y, exceptId(y))'
    <3>1. ~overfull(y.day, y, exceptId(y)) /\ NobodyNewOn(y.day)
      BY <2>1, <2>2 DEF ChecksStillHold
    <3>2. ASSUME y.step = "inBoth", y.who \in People
          PROVE ~clash(y.who, y.day, y, exceptId(y)) /\ NothingNewFor(y.who)
      BY <2>1, <2>2, <3>2 DEF ChecksStillHold
    <3> QED
      BY <3>1, <3>2, RoomIsKept, FreedomIsKept
  <2> QED
    BY <2>1, <2>2
<1> QED
  BY <1>5, <1>6, <1>7 DEF ChecksStillHold

\* Places only leave: nobody new anywhere.
Shrinks == \A i \in Ids : plan'[i] = plan[i] \/ plan'[i] = NoPlace

LEMMA LeavingKeepsChecks ==
    ASSUME TypeOK, ChecksStillHold, Shrinks, NEW r \in Requests, NEW x,
           job' = [job EXCEPT ![r] = x],
           x.kind = "idle" \/ x.step \notin {"inDay", "inBoth"}
    PROVE ChecksStillHold'
<1>1. \A d : NobodyNewOn(d)
  BY DEF NobodyNewOn, Shrinks
<1>2. \A p : NothingNewFor(p)
  BY DEF NothingNewFor, Shrinks
<1> QED
  BY <1>1, <1>2, OthersKeepTheirChecks

\* A job that takes a lock that is free, having found room (and, for the second
\* lock, nobody in two places), joins the others with its own check fresh.
LEMMA TakeKeepsChecks ==
    ASSUME TypeOK, ChecksStillHold, NEW r \in Requests, Take(r)
    PROVE ChecksStillHold'
<1>j. JobType
  BY DEF TypeOK, JobType
<1>p. UNCHANGED plan
  BY DEF Take, LockDay, LockPerson
<1>s. Shrinks
  BY <1>p DEF Shrinks
<1>n. NoJob.kind = "idle"
  BY DEF NoJob
<1>1. ASSUME job' = [job EXCEPT ![r] = NoJob] PROVE ChecksStillHold'
  BY <1>1, <1>s, <1>n, LeavingKeepsChecks
<1>2. ASSUME NEW x \in AJob, NEW st \in {"inDay", "inBoth"}, Busy(r),
             job' = [job EXCEPT ![r] = x], x.step = st,
             x.day = job[r].day, x.who = job[r].who, x.id = job[r].id, x.kind = job[r].kind,
             x.from = job[r].from, x.to = job[r].to,
             \A q \in Requests \ {r} : ~HoldsDay(q, x.day),
             (st = "inBoth" /\ x.who \in People) => PersonFree(x.who),
             ~overfull(x.day, x, exceptId(x)),
             (st = "inBoth" /\ x.who \in People) => ~clash(x.who, x.day, x, exceptId(x))
      PROVE ChecksStillHold'
  <2>1. \A q \in Requests : q # r => job'[q] = job[q]
    BY <1>2 DEF TypeOK
  <2>2. job'[r] = x
    BY <1>2 DEF TypeOK
  <2>3. \A q \in Requests, d \in Days :
           HoldsDay(q, d)' => IF q = r THEN d = x.day ELSE HoldsDay(q, d)
    BY <2>1, <2>2 DEF HoldsDay, Busy
  <2>4. \A q \in Requests, p \in People :
           HoldsPerson(q, p)' => IF q = r THEN st = "inBoth" /\ p = x.who ELSE HoldsPerson(q, p)
    BY <2>1, <2>2, <1>2 DEF HoldsPerson, Busy
  <2>5. \A q, u \in Requests, d \in Days : (HoldsDay(q, d) /\ HoldsDay(u, d))' => q = u
    BY <2>3, <1>2 DEF ChecksStillHold
  <2>6. \A q, u \in Requests, p \in People : (HoldsPerson(q, p) /\ HoldsPerson(u, p))' => q = u
    BY <2>4, <1>2 DEF ChecksStillHold, PersonFree
  <2>7. ASSUME NEW q \in Requests, InTransaction(q)'
        PROVE /\ ~overfull(job[q].day, job[q], exceptId(job[q]))'
              /\ (job[q].step = "inBoth" /\ job[q].who \in People)'
                    => ~clash(job[q].who, job[q].day, job[q], exceptId(job[q]))'
    <3>1. ASSUME NEW y, y = job'[q]
          PROVE /\ ~overfull(y.day, y, exceptId(y))
                /\ (y.step = "inBoth" /\ y.who \in People) => ~clash(y.who, y.day, y, exceptId(y))
      <4>1. CASE q = r
        BY <4>1, <3>1, <2>2, <1>2
      <4>2. CASE q # r
        <5>1. y = job[q] /\ InTransaction(q)
          BY <4>2, <3>1, <2>1, <2>7 DEF InTransaction, Busy
        <5> QED
          BY <5>1 DEF ChecksStillHold
      <4> QED
        BY <4>1, <4>2
    <3>2. \A d, y, e : overfull(d, y, e)' <=> overfull(d, y, e)
      BY <1>p DEF overfull, StandingAt, OnDay
    <3>3. \A p, d, y, e : clash(p, d, y, e)' <=> clash(p, d, y, e)
      BY <1>p DEF clash
    <3>4. ASSUME NEW y, y = job'[q]
          PROVE /\ ~overfull(y.day, y, exceptId(y))'
                /\ (y.step = "inBoth" /\ y.who \in People) => ~clash(y.who, y.day, y, exceptId(y))'
      BY <3>1, <3>2, <3>3, <3>4
    <3> QED
      BY <3>4
  <2> QED
    BY <2>5, <2>6, <2>7 DEF ChecksStillHold
<1>3. CASE LockDay(r) /\ DayAllows(r)
  <2> DEFINE x == [job[r] EXCEPT !.step = "inDay", !.seen = status]
  <2>1. Busy(r) /\ job[r] \in AJob
    BY <1>3, <1>j, BusyIsAJob DEF LockDay, At, Busy, Kinds
  <2>2. /\ x \in AJob /\ x.step = "inDay"
        /\ x.day = job[r].day /\ x.who = job[r].who /\ x.id = job[r].id
        /\ x.kind = job[r].kind
        /\ x.from = job[r].from /\ x.to = job[r].to
    BY <2>1 DEF AJob, Steps, TypeOK
  <2>3. job' = [job EXCEPT ![r] = x]
    BY <1>3 DEF LockDay
  <2>4. ~overfull(x.day, x, exceptId(x))
    BY <1>3, <2>2 DEF DayAllows, overfull, covers, exceptId
  <2>5. \A q \in Requests \ {r} : ~HoldsDay(q, x.day)
    BY <1>3, <2>2 DEF LockDay, DayFree
  <2> HIDE DEF x
  <2> QED
    BY <1>2, <2>1, <2>2, <2>3, <2>4, <2>5
<1>4. CASE LockPerson(r) /\ ~(job[r].who \in People /\ clash(job[r].who, job[r].day, job[r], exceptId(job[r])))
  <2> DEFINE x == [job[r] EXCEPT !.step = "inBoth"]
  <2>1. Busy(r) /\ job[r] \in AJob
    BY <1>4, <1>j, BusyIsAJob DEF LockPerson, At, Busy, Kinds
  <2>2. /\ x \in AJob /\ x.step = "inBoth"
        /\ x.day = job[r].day /\ x.who = job[r].who /\ x.id = job[r].id
        /\ x.kind = job[r].kind
        /\ x.from = job[r].from /\ x.to = job[r].to
    BY <2>1 DEF AJob, Steps
  <2>3. job' = [job EXCEPT ![r] = x]
    BY <1>4 DEF LockPerson, GoTo
  <2>4. InTransaction(r) /\ HoldsDay(r, job[r].day) /\ job[r].day \in Days
    BY <1>4, <2>1 DEF LockPerson, At, InTransaction, HoldsDay, AJob
  <2>5. ~overfull(x.day, x, exceptId(x))
    BY <2>2, <2>4 DEF ChecksStillHold, overfull, covers, exceptId
  <2>6. \A q \in Requests \ {r} : ~HoldsDay(q, x.day)
    BY <2>2, <2>4 DEF ChecksStillHold
  <2>7. x.who \in People => PersonFree(x.who) /\ ~clash(x.who, x.day, x, exceptId(x))
    BY <1>4, <2>2 DEF LockPerson, clash, overlaps, exceptId
  <2> HIDE DEF x
  <2> QED
    BY <1>2, <2>1, <2>2, <2>3, <2>5, <2>6, <2>7
<1>5. CASE LockDay(r) /\ ~DayAllows(r)
  BY <1>1, <1>5 DEF LockDay
<1>6. CASE LockPerson(r) /\ job[r].who \in People /\ clash(job[r].who, job[r].day, job[r], exceptId(job[r]))
  BY <1>1, <1>6 DEF LockPerson, Done
<1> QED
  BY <1>3, <1>4, <1>5, <1>6 DEF Take

\* The commit of a request that has both locks is CartRota's PutOn.
LEMMA CommitPutsOn ==
    ASSUME TypeOK, ChecksStillHold, NEW r \in Requests, Commit(r)
    PROVE /\ \E i \in Ids, x \in Place : PutOn(i, x)
          /\ ChecksStillHold'
<1> DEFINE i == IF job[r].kind = "assign" THEN issued + 1 ELSE job[r].id
           x == [day |-> job[r].day, who |-> job[r].who, from |-> job[r].from, to |-> job[r].to]
<1>j. job[r] \in AJob /\ Busy(r) /\ job[r].step = "inBoth"
  BY BusyIsAJob DEF TypeOK, JobType, Commit, At, Busy, Kinds
<1>x. /\ x \in Place /\ x.day = job[r].day /\ x.who = job[r].who
      /\ x.from = job[r].from /\ x.to = job[r].to
  BY <1>j DEF AJob, Place
<1>p. i \in Ids /\ plan' = [plan EXCEPT ![i] = x] /\ plan \in [Ids -> Place \cup {NoPlace}]
  BY DEF Commit, TypeOK
<1>h. /\ InTransaction(r) /\ HoldsDay(r, x.day) /\ x.day \in Days
      /\ HoldsPerson(r, x.who)
  BY <1>j, <1>x DEF InTransaction, HoldsDay, HoldsPerson, AJob
<1>e. /\ ~overfull(job[r].day, job[r], exceptId(job[r]))
      /\ job[r].who \in People => ~clash(job[r].who, job[r].day, job[r], exceptId(job[r]))
  BY <1>h, <1>j DEF ChecksStillHold
<1>i. exceptId(job[r]) = i \/ exceptId(job[r]) \notin Ids
  BY DEF exceptId, Ids
<1>1. PutOn(i, x)
  <2> HIDE DEF i, x
  <2>1. ~overfull(x.day, x, i)
    <3> SUFFICES ASSUME NEW t \in 0..Slots, covers(x, t)
                 PROVE ~(Cardinality(StandingAt(x.day, t) \ {i}) >= CapacityMax)
      BY DEF overfull
    <3> DEFINE S == StandingAt(x.day, t)
               e == exceptId(job[r])
    <3>1. ~(Cardinality(S \ {e}) >= CapacityMax)
      BY <1>e, <1>x DEF overfull, covers
    <3>2. S \ {i} \subseteq S \ {e}
      BY <1>i DEF StandingAt, OnDay
    <3>3. IsFiniteSet(S \ {e})
      BY StandingFinite, FewerStand
    <3> HIDE DEF S, e
    <3>4. /\ Cardinality(S \ {i}) \in Nat /\ Cardinality(S \ {e}) \in Nat
          /\ Cardinality(S \ {i}) <= Cardinality(S \ {e})
      BY <3>2, <3>3, FewerStand
    <3> QED
      BY <3>1, <3>4, RotaConstants DEF S
  <2>2. x.who \in People => ~clash(x.who, x.day, x, i)
    BY <1>e, <1>i, <1>x DEF clash, overlaps
  <2> QED
    BY <2>1, <2>2, <1>p DEF PutOn
<1>2. ChecksStillHold'
  <2>1. PICK y : /\ job' = [job EXCEPT ![r] = y]
                 /\ y.kind = "idle" \/ y.step \notin {"inDay", "inBoth"}
    <3> DEFINE told_ == [job[r] EXCEPT !.step = "tell", !.id = i]
    <3>1. told_.step = "tell"
      BY <1>j DEF AJob
    <3>2. NoJob.kind = "idle"
      BY DEF NoJob
    <3>3. \/ job' = [job EXCEPT ![r] = told_]
          \/ job' = [job EXCEPT ![r] = NoJob]
      BY DEF Commit
    <3> HIDE DEF told_
    <3> QED
      BY <3>1, <3>2, <3>3
  <2> HIDE DEF i, x
  <2>2. \A q \in Requests \ {r} : InTransaction(q) => NobodyNewOn(job[q].day)
    <3> SUFFICES ASSUME NEW q \in Requests \ {r}, InTransaction(q)
                 PROVE NobodyNewOn(job[q].day)
      OBVIOUS
    <3>1. job[q].day \in Days /\ HoldsDay(q, job[q].day)
      BY BusyIsAJob DEF TypeOK, JobType, InTransaction, HoldsDay, AJob
    <3>2. job[q].day # x.day
      BY <3>1, <1>h DEF ChecksStillHold
    <3> QED
      BY <3>2, <1>p DEF NobodyNewOn
  <2>3. \A q \in Requests \ {r} :
           (InTransaction(q) /\ job[q].step = "inBoth" /\ job[q].who \in People)
              => NothingNewFor(job[q].who)
    <3> SUFFICES ASSUME NEW q \in Requests \ {r}, InTransaction(q),
                        job[q].step = "inBoth", job[q].who \in People
                 PROVE NothingNewFor(job[q].who)
      OBVIOUS
    <3>1. HoldsPerson(q, job[q].who)
      BY DEF InTransaction, HoldsPerson
    <3>2. job[q].who # x.who
      BY <3>1, <1>h DEF ChecksStillHold
    <3> QED
      BY <3>2, <1>p DEF NothingNewFor
  <2> QED
    BY <2>1, <2>2, <2>3, OthersKeepTheirChecks
<1> QED
  BY <1>1, <1>2, <1>p, <1>x

\* Every other step of a request only takes people off, and ends or goes on
\* outside the transaction.
LEMMA OtherStepsTakeOff ==
    ASSUME TypeOK, ChecksStillHold, NEW r \in Requests,
           Start(r) \/ (Write(r) /\ ~Commit(r)) \/ Tell(r) \/ Lose(r)
    PROVE /\ UNCHANGED plan \/ \E T \in SUBSET Ids : TakeOff(T)
          /\ ChecksStillHold'
<1>t. plan \in [Ids -> Place \cup {NoPlace}] /\ JobType
  BY DEF TypeOK, JobType
<1>n. NoJob.kind = "idle"
  BY DEF NoJob
<1>g. ASSUME Busy(r), GoTo(r, "tell") PROVE [job[r] EXCEPT !.step = "tell"].step = "tell"
  BY <1>g, <1>t, BusyIsAJob DEF AJob
<1>1. CASE Start(r)
  <2>1. ASSUME NEW kind, NEW step \in {"begun", "checked"}, NEW i, NEW d, NEW who, NEW s,
               NEW was, Begin(r, kind, step, i, d, who, s, was)
        PROVE UNCHANGED plan /\ ChecksStillHold'
    <3> DEFINE y == [kind |-> kind, step |-> step, id |-> i, day |-> d, who |-> who,
                     from |-> s.from, to |-> s.to, was |-> was, seen |-> status, at |-> now]
    <3>1. UNCHANGED plan /\ job' = [job EXCEPT ![r] = y]
      BY <2>1 DEF Begin
    <3>2. y.step \notin {"inDay", "inBoth"}
      OBVIOUS
    <3> HIDE DEF y
    <3> QED
      BY <3>1, <3>2, LeavingKeepsChecks DEF Shrinks
  <2> QED
    BY <1>1, <2>1 DEF Start, BeginAssign, BeginRequest, BeginCallOff, BeginUpdateDay,
       BeginUpdate, BeginRemove, BeginCancelMine, BeginPutBack, BeginDeleteDay, BeginOpen,
       BeginPublish, BeginDeleteWeek
<1>2. CASE Remove(r) \/ CancelMine(r)
  <2>1. TakeOff({job[r].id} \cap Ids)
    BY <1>2, <1>t DEF Remove, CancelMine, TakeOff
  <2>2. Shrinks
    BY <2>1 DEF TakeOff, Shrinks
  <2>3. Done(r) \/ (Busy(r) /\ GoTo(r, "tell"))
    BY <1>2 DEF Remove, CancelMine, ThenTell, At, Busy, Kinds
  <2> QED
    BY <2>1, <2>2, <2>3, <1>n, <1>g, LeavingKeepsChecks DEF Done, GoTo
<1>3. CASE DeleteDay(r) \/ DeleteWeek(r)
  <2>1. PICK S : DropDays(S)
    BY <1>3 DEF DeleteDay, DeleteWeek
  <2>2. TakeOff({i \in Ids : \E d \in S : i \in OnDay(d)})
    BY <2>1 DEF DropDays, TakeOff
  <2>3. Shrinks
    BY <2>2 DEF TakeOff, Shrinks
  <2>4. Done(r)
    BY <1>3 DEF DeleteDay, DeleteWeek
  <2> QED
    BY <2>2, <2>3, <2>4, <1>n, LeavingKeepsChecks DEF Done
<1>4. CASE \/ CallOff(r) \/ PutBack(r) \/ Request(r) \/ UpdateDay(r) \/ Open(r)
           \/ Publish(r) \/ Tell(r) \/ Lose(r)
  <2>1. UNCHANGED plan
    BY <1>4 DEF CallOff, PutBack, Request, UpdateDay, Open, Publish, Tell, TellChange,
       TellCalledOff, TellPublished, Lose
  <2>2. CASE CallOff(r) /\ ~Done(r)
    <3>1. Busy(r) /\ job[r] \in AJob
      BY <2>2, <1>t, BusyIsAJob DEF CallOff, At, Busy, Kinds
    <3>2. PICK k \in 1..MaxJobs :
             job' = [job EXCEPT ![r] = IF @.seen = "published"
                                       THEN [@ EXCEPT !.step = "tell", !.id = k] ELSE NoJob]
      BY <2>2 DEF CallOff
    <3>3. [job[r] EXCEPT !.step = "tell", !.id = k].step = "tell"
      BY <3>1 DEF AJob
    <3> DEFINE y == [job[r] EXCEPT !.step = "tell", !.id = k]
    <3>4. job' = [job EXCEPT ![r] = y] \/ job' = [job EXCEPT ![r] = NoJob]
      BY <3>2
    <3> QED
      BY <2>1, <3>3, <3>4, <1>n, LeavingKeepsChecks DEF Shrinks
  <2>3. CASE ~(CallOff(r) /\ ~Done(r))
    <3>1. Done(r) \/ (Busy(r) /\ GoTo(r, "tell"))
      BY <1>4, <2>3 DEF CallOff, PutBack, Request, UpdateDay, Open, Publish, Tell, TellChange,
         TellCalledOff, TellPublished, Lose, ThenTell, At, Busy, Kinds
    <3> QED
      BY <2>1, <3>1, <1>n, <1>g, LeavingKeepsChecks DEF Shrinks, Done, GoTo
  <2> QED
    BY <2>1, <2>2, <2>3
<1> QED
  BY <1>1, <1>2, <1>3, <1>4 DEF Write

\* Init satisfies the checks: nobody is in a transaction.
LEMMA InitChecks == Init => ChecksStillHold
<1> SUFFICES ASSUME Init PROVE ChecksStillHold
  OBVIOUS
<1>1. \A r \in Requests : ~Busy(r)
  BY DEF Init, Busy, NoJob
<1> QED
  BY <1>1 DEF ChecksStillHold, HoldsDay, HoldsPerson, InTransaction

\* Every step keeps the checks, and as the plan sees it is a step of CartRota.
LEMMA StepKeepsRota ==
    ASSUME TypeOK, ChecksStillHold, [Next]_vars
    PROVE ChecksStillHold' /\ [RotaNext]_plan
<1>1. CASE Tick \/ (\E S \in SUBSET Days, s \in Spans : BuildWeek(S, s))
           \/ (\E w \in wishes : WithdrawRequest(w)) \/ UNCHANGED vars
  <2>1. UNCHANGED <<plan, job>>
    BY <1>1 DEF Tick, BuildWeek, WithdrawRequest, vars
  <2>2. ChecksStillHold'
    BY <2>1 DEF ChecksStillHold, HoldsDay, HoldsPerson, InTransaction, Busy, overfull, clash,
       StandingAt, OnDay
  <2> QED
    BY <2>1, <2>2
<1>2. ASSUME NEW r \in Requests, Commit(r) PROVE ChecksStillHold' /\ [RotaNext]_plan
  BY <1>2, CommitPutsOn DEF RotaNext
<1>3. ASSUME NEW r \in Requests, Take(r) PROVE ChecksStillHold' /\ [RotaNext]_plan
  BY <1>3, TakeKeepsChecks DEF Take, LockDay, LockPerson
<1>4. ASSUME NEW r \in Requests, Start(r) \/ (Write(r) /\ ~Commit(r)) \/ Tell(r) \/ Lose(r)
      PROVE ChecksStillHold' /\ [RotaNext]_plan
  BY <1>4, OtherStepsTakeOff DEF RotaNext
<1> QED
  BY <1>1, <1>2, <1>3, <1>4 DEF Next, Write

\* However many requests are in flight, no two hold one lock, and what a request
\* checked under its locks is still so when it commits.
THEOREM LocksProtectChecks == Spec => []ChecksStillHold
<1>1. TypeOK /\ ChecksStillHold /\ [Next]_vars => ChecksStillHold'
  BY StepKeepsRota
<1> QED
  BY <1>1, TypeCorrect, InitChecks, PTL DEF Spec

\* CartWeeks implements CartRota: however assign, updateAssignment, removals and
\* deletions interleave, the plan only ever takes steps CartRota allows.
THEOREM ImplementsRota == Spec => RotaSpec
<1>1. Init => RotaInit
  BY DEF Init, RotaInit
<1>2. TypeOK /\ ChecksStillHold /\ [Next]_vars => [RotaNext]_plan
  BY StepKeepsRota
<1> QED
  BY <1>1, <1>2, TypeCorrect, LocksProtectChecks, PTL DEF Spec, RotaSpec

\* Never a fifth at a half-hour.
THEOREM StandIsNeverOverfull == Spec => []NeverOverfull
<1>1. NeverOverfull /\ NobodyInTwoPlaces => NeverOverfull
  OBVIOUS
<1> QED
  BY ImplementsRota, RotaIsSafe, PTL

\* Never anybody at two stands at once.
THEOREM NobodyStandsTwice == Spec => []NobodyInTwoPlaces
BY ImplementsRota, RotaIsSafe, PTL

----------------------------------------------------------------------------
(* What is settled stays: nothing leaves a published plan but by a request    *)
(* for it (PlanKept), and the plan of a locked day does not change any more   *)
(* (ArchiveFixed).  Both rest on what a request in flight still knows of the  *)
(* row and the day it has read.                                               *)

ByRow == {"update", "remove", "cancelMine"}

\* A request that may still write to a day looked at the clock before the lock.
LookedInTime(j) ==
    (\/ j.kind \in {"remove", "cancelMine"}
     \/ j.kind \in {"assign", "update"} /\ j.step \in {"inDay", "inBoth"})
        => ~IsLocked(j.day, j.at)

\* It knows the day of its row; ids are given out once and a row never changes
\* its day, so this holds of a row that is deleted and inserted again.
KnowsItsRow(j) ==
    j.kind \in ByRow => /\ j.id \in Ids /\ j.id <= issued
                        /\ plan[j.id] # NoPlace => plan[j.id].day = j.day

SameRowSameDay(j, k) == j.kind \in ByRow /\ k.kind \in ByRow /\ j.id = k.id => j.day = k.day

RowsInv ==
    /\ \A i \in Ids : plan[i] # NoPlace => i <= issued
    /\ \A r \in Requests : LookedInTime(job[r]) /\ KnowsItsRow(job[r])
    /\ \A r, q \in Requests : SameRowSameDay(job[r], job[q])

\* What is about to be deleted is empty, unless somebody wrote there meanwhile.
EmptyInv ==
    ~raced =>
        /\ \A r \in Requests : job[r].kind = "deleteDay" => OnDay(job[r].day) = {}
        /\ status = "published" =>
              \A r \in Requests : job[r].kind = "deleteWeek" => \A i \in Ids : plan[i] = NoPlace

ArchiveInv == RowsInv /\ EmptyInv

----------------------------------------------------------------------------
(* How a request moves: it begins with what it has just read, and after that *)
(* neither its row nor its day nor its clock changes                         *)

GoesOn(r) ==
    /\ \A q \in Requests \ {r} : job'[q] = job[q]
    /\ \/ job'[r] = NoJob
       \/ /\ job'[r].kind = job[r].kind
          /\ job'[r].day = job[r].day
          /\ job'[r].at = job[r].at
          /\ job[r].kind \in ByRow => job'[r].id = job[r].id
          /\ job'[r].step \in {"inDay", "inBoth"}
                => \/ job[r].step \in {"inDay", "inBoth"}
                   \/ ~IsLocked(job[r].day, job[r].at)

Begins(r) ==
    /\ UNCHANGED <<plan, issued, status, raced>>
    /\ \A q \in Requests \ {r} : job'[q] = job[q]
    /\ job'[r].step \in {"begun", "checked"}
    /\ job'[r].kind \in ByRow =>
          job'[r].id \in Ids /\ plan[job'[r].id] # NoPlace /\ plan[job'[r].id].day = job'[r].day
    /\ job'[r].kind \in {"remove", "cancelMine"} => ~IsLocked(job'[r].day, job'[r].at)
    /\ job'[r].kind = "deleteDay" => OnDay(job'[r].day) = {}
    /\ job'[r].kind = "deleteWeek" /\ status = "published" => \A i \in Ids : plan[i] = NoPlace

LEMMA DoneGoesOn ==
    ASSUME TypeOK, NEW r \in Requests, Done(r)
    PROVE GoesOn(r)
BY DEF Done, GoesOn, TypeOK

LEMMA GoToGoesOn ==
    ASSUME TypeOK, NEW r \in Requests, Busy(r), NEW st, GoTo(r, st),
           st = "inBoth" => job[r].step = "inDay", st # "inDay"
    PROVE GoesOn(r)
<1>1. job[r] \in AJob
  BY BusyIsAJob DEF TypeOK, JobType
<1>2. job'[r] = [job[r] EXCEPT !.step = st] /\ \A q \in Requests \ {r} : job'[q] = job[q]
  BY DEF GoTo, TypeOK
<1>3. /\ job'[r].kind = job[r].kind /\ job'[r].day = job[r].day /\ job'[r].at = job[r].at
      /\ job'[r].id = job[r].id /\ job'[r].step = st
  BY <1>1, <1>2 DEF AJob
<1> QED
  BY <1>2, <1>3 DEF GoesOn

\* A place ends before the days for its correction do:
\* a place that is not over is not locked.
LEMMA UnlockedUntilOver ==
    ASSUME NEW d \in Days, NEW t \in 0..Slots, NEW n \in Nat, ~HasBegun(d, t, n)
    PROVE ~IsLocked(d, n)
<1>1. DateOf[d] \in Nat /\ Slots \in Nat /\ CorrectionDays \in Nat
  BY RotaConstants, CartConstants
<1> DEFINE D == DateOf[d] * Slots
<1>2. \A a, b \in Nat : a * b \in Nat /\ (a + 1) * b = a * b + b
  OBVIOUS
<1>3. D \in Nat /\ CorrectionDays * Slots \in Nat
      /\ (CorrectionDays + 1) * Slots = CorrectionDays * Slots + Slots
  BY <1>1, <1>2
<1>4. ~(D + t <= n)
  BY DEF HasBegun, Instant
<1> HIDE DEF D
<1>5. ~(D + 0 + (CorrectionDays + 1) * Slots <= n)
  <2> DEFINE C == CorrectionDays * Slots
             E == (CorrectionDays + 1) * Slots
  <2>1. C \in Nat /\ E = C + Slots /\ t \in Nat /\ t <= Slots
    BY <1>1, <1>3
  <2> HIDE DEF C, E
  <2>2. ~(D + 0 + E <= n)
    BY <2>1, <1>1, <1>3, <1>4
  <2> QED
    BY <2>2 DEF E
<1> QED
  BY <1>5 DEF IsLocked, Instant, D

LEMMA StartBegins ==
    ASSUME TypeOK, NEW r \in Requests, Start(r)
    PROVE Begins(r)
<1>b. ASSUME NEW kind, NEW step \in {"begun", "checked"}, NEW i, NEW d, NEW who, NEW s, NEW was,
             Begin(r, kind, step, i, d, who, s, was),
             kind \in ByRow => i \in Ids /\ plan[i] # NoPlace /\ plan[i].day = d,
             kind \in {"remove", "cancelMine"} => ~IsLocked(d, now),
             kind = "deleteDay" => OnDay(d) = {},
             kind = "deleteWeek" /\ status = "published" => \A k \in Ids : plan[k] = NoPlace
      PROVE Begins(r)
  <2>1. /\ job'[r].kind = kind /\ job'[r].step = step /\ job'[r].id = i
        /\ job'[r].day = d /\ job'[r].at = now
    BY <1>b DEF Begin, TypeOK
  <2>2. /\ UNCHANGED <<plan, issued, status, raced>>
        /\ \A q \in Requests \ {r} : job'[q] = job[q]
    BY <1>b DEF Begin, TypeOK
  <2> QED
    BY <1>b, <2>1, <2>2 DEF Begins
<1>1. ASSUME NEW d, NEW s, NEW who,
             \/ BeginAssign(r, d, who, s) \/ BeginRequest(r, d, who, s)
             \/ BeginCallOff(r, d, s) \/ BeginUpdateDay(r, d, s)
      PROVE Begins(r)
  <2>1. ASSUME NEW kind \in {"assign", "request", "callOff", "updateDay"}, NEW w,
               NEW step \in {"begun", "checked"}, Begin(r, kind, step, 0, d, w, s, NoSpan)
        PROVE Begins(r)
    BY <2>1, <1>b DEF ByRow
  <2>2. BeginAssign(r, d, who, s) => Begin(r, "assign", "begun", 0, d, who, s, NoSpan)
    BY DEF BeginAssign
  <2>3. BeginRequest(r, d, who, s) => Begin(r, "request", "checked", 0, d, who, s, NoSpan)
    BY DEF BeginRequest
  <2>4. BeginCallOff(r, d, s) => Begin(r, "callOff", "checked", 0, d, Guest, s, NoSpan)
    BY DEF BeginCallOff
  <2>5. BeginUpdateDay(r, d, s) => Begin(r, "updateDay", "checked", 0, d, Guest, s, NoSpan)
    BY DEF BeginUpdateDay
  <2> QED
    BY <1>1, <2>1, <2>2, <2>3, <2>4, <2>5
<1>2. ASSUME NEW i \in Ids, NEW s, BeginUpdate(r, i, s) PROVE Begins(r)
  BY <1>2, <1>b DEF BeginUpdate, ByRow
<1>3. ASSUME NEW i \in Ids, BeginRemove(r, i) PROVE Begins(r)
  BY <1>3, <1>b DEF BeginRemove, ByRow
<1>4. ASSUME NEW i \in Ids, BeginCancelMine(r, i) PROVE Begins(r)
  <2>1. plan[i] \in Place
    BY <1>4 DEF BeginCancelMine, TypeOK
  <2>2. ~IsLocked(plan[i].day, now)
    BY <2>1, <1>4, UnlockedUntilOver DEF BeginCancelMine, Place, TypeOK
  <2> QED
    BY <2>2, <1>4, <1>b DEF BeginCancelMine, ByRow
<1>5. ASSUME NEW o, BeginPutBack(r, o) PROVE Begins(r)
  BY <1>5, <1>b DEF BeginPutBack, ByRow
<1>6. ASSUME NEW d, BeginDeleteDay(r, d) PROVE Begins(r)
  BY <1>6, <1>b DEF BeginDeleteDay, ByRow
<1>7. CASE BeginOpen(r)
  BY <1>7, <1>b DEF BeginOpen, ByRow
<1>8. CASE BeginPublish(r)
  BY <1>8, <1>b DEF BeginPublish, ByRow
<1>9. CASE BeginDeleteWeek(r)
  <2>1. status = "published" => \A i \in Ids : plan[i] = NoPlace
    <3> SUFFICES ASSUME status = "published", NEW i \in Ids, plan[i] # NoPlace PROVE FALSE
      OBVIOUS
    <3>1. plan[i].day \in Days
      BY DEF TypeOK, Place
    <3>2. i \in OnDay(plan[i].day)
      BY DEF OnDay
    <3> QED
      BY <3>1, <3>2, <1>9 DEF BeginDeleteWeek
  <2> QED
    BY <2>1, <1>9, <1>b DEF BeginDeleteWeek, ByRow
<1> QED
  BY <1>1, <1>2, <1>3, <1>4, <1>5, <1>6, <1>7, <1>8, <1>9 DEF Start

LEMMA StepsGoOn ==
    ASSUME TypeOK, NEW r \in Requests, Take(r) \/ Write(r) \/ Tell(r) \/ Lose(r)
    PROVE GoesOn(r)
<1>t. ThenTell(r) => Done(r) \/ GoTo(r, "tell")
  BY DEF ThenTell
<1>1. CASE LockDay(r)
  <2>1. job[r] \in AJob
    BY <1>1, BusyIsAJob DEF LockDay, At, Busy, Kinds, TypeOK, JobType
  <2>2. CASE DayAllows(r)
    <3> DEFINE x == [job[r] EXCEPT !.step = "inDay", !.seen = status]
    <3>1. job'[r] = x /\ \A q \in Requests \ {r} : job'[q] = job[q]
      BY <1>1, <2>2 DEF LockDay, TypeOK
    <3>2. x.kind = job[r].kind /\ x.day = job[r].day /\ x.at = job[r].at /\ x.id = job[r].id
      BY <2>1 DEF AJob
    <3>3. ~IsLocked(job[r].day, job[r].at)
      BY <2>2 DEF DayAllows
    <3> HIDE DEF x
    <3> QED
      BY <3>1, <3>2, <3>3 DEF GoesOn
  <2>3. CASE ~DayAllows(r)
    BY <1>1, <2>3 DEF LockDay, GoesOn, TypeOK
  <2> QED
    BY <2>2, <2>3
<1>2. CASE LockPerson(r)
  <2>1. Busy(r) /\ job[r].step = "inDay"
    BY <1>2 DEF LockPerson, At, Busy, Kinds
  <2>2. Done(r) \/ GoTo(r, "inBoth")
    BY <1>2 DEF LockPerson
  <2> QED
    BY <2>1, <2>2, DoneGoesOn, GoToGoesOn
<1>3. CASE Commit(r)
  <2>1. job[r] \in AJob
    BY <1>3, BusyIsAJob DEF Commit, At, Busy, Kinds, TypeOK, JobType
  <2>2. PICK i : /\ job[r].kind \in ByRow => i = job[r].id
                 /\ \/ job' = [job EXCEPT ![r] = [@ EXCEPT !.step = "tell", !.id = i]]
                    \/ job' = [job EXCEPT ![r] = NoJob]
    BY <1>3 DEF Commit, ByRow
  <2> DEFINE x == [job[r] EXCEPT !.step = "tell", !.id = i]
  <2>3. /\ x.kind = job[r].kind /\ x.day = job[r].day /\ x.at = job[r].at
        /\ x.id = i /\ x.step = "tell"
    BY <2>1 DEF AJob
  <2>4. job'[r] = x \/ job'[r] = NoJob
    BY <2>2 DEF TypeOK
  <2>5. \A q \in Requests \ {r} : job'[q] = job[q]
    BY <2>2 DEF TypeOK
  <2> HIDE DEF x
  <2> QED
    BY <2>2, <2>3, <2>4, <2>5 DEF GoesOn
<1>4. CASE CallOff(r)
  <2>1. job[r] \in AJob /\ job[r].kind \notin ByRow
    BY <1>4, BusyIsAJob DEF CallOff, At, Busy, Kinds, TypeOK, JobType, ByRow
  <2>2. \/ Done(r)
        \/ \E k : job' = [job EXCEPT ![r] = IF @.seen = "published"
                                           THEN [@ EXCEPT !.step = "tell", !.id = k] ELSE NoJob]
    BY <1>4 DEF CallOff
  <2>3. ASSUME NEW k, job' = [job EXCEPT ![r] = IF @.seen = "published"
                                           THEN [@ EXCEPT !.step = "tell", !.id = k] ELSE NoJob]
        PROVE GoesOn(r)
    <3> DEFINE x == [job[r] EXCEPT !.step = "tell", !.id = k]
    <3>1. x.kind = job[r].kind /\ x.day = job[r].day /\ x.at = job[r].at /\ x.step = "tell"
      BY <2>1 DEF AJob
    <3>2. /\ job'[r] = x \/ job'[r] = NoJob
          /\ \A q \in Requests \ {r} : job'[q] = job[q]
      BY <2>3 DEF TypeOK
    <3> HIDE DEF x
    <3> QED
      BY <2>1, <3>1, <3>2 DEF GoesOn
  <2> QED
    BY <2>2, <2>3, DoneGoesOn
<1>5. CASE Remove(r) \/ PutBack(r) \/ Publish(r)
  BY <1>5, <1>t, DoneGoesOn, GoToGoesOn DEF Remove, PutBack, Publish, At, Busy, Kinds
<1>6. CASE CancelMine(r) \/ Request(r) \/ UpdateDay(r) \/ DeleteDay(r) \/ Open(r) \/ DeleteWeek(r)
           \/ Tell(r) \/ Lose(r)
  BY <1>6, DoneGoesOn DEF CancelMine, Request, UpdateDay, DeleteDay, Open, DeleteWeek, Tell,
     TellChange, TellCalledOff, TellPublished, Lose
<1> QED
  BY <1>1, <1>2, <1>3, <1>4, <1>5, <1>6 DEF Take, Write

----------------------------------------------------------------------------
(* The invariant is kept *)

\* Who stands where after a step that gives no place to another day.
DaysStay ==
    /\ issued' \in Nat /\ issued <= issued'
    /\ \A i \in Ids : plan'[i] # NoPlace =>
          /\ i <= issued'
          /\ \A r \in Requests : job[r].kind \in ByRow /\ job[r].id = i => plan'[i].day = job[r].day

LEMMA GoingOnKeepsRows ==
    ASSUME TypeOK, RowsInv, NEW r \in Requests, GoesOn(r), DaysStay
    PROVE RowsInv'
<1>n. NoJob.kind \notin ByRow \cup {"assign"}
  BY DEF NoJob, ByRow
<1>k. \A q \in Requests : job'[q].kind \in ByRow =>
         job'[q].kind = job[q].kind /\ job'[q].id = job[q].id /\ job'[q].day = job[q].day
  BY <1>n DEF GoesOn
<1>1. \A i \in Ids : plan'[i] # NoPlace => i <= issued'
  BY DEF DaysStay
<1>2. ASSUME NEW q \in Requests PROVE KnowsItsRow(job[q])'
  <2> SUFFICES ASSUME job'[q].kind \in ByRow
               PROVE /\ job'[q].id \in Ids /\ job'[q].id <= issued'
                     /\ plan'[job'[q].id] # NoPlace => plan'[job'[q].id].day = job'[q].day
    BY DEF KnowsItsRow
  <2>1. /\ job[q].kind \in ByRow /\ job'[q].id = job[q].id /\ job'[q].day = job[q].day
    BY <1>k
  <2>2. job[q].id \in Ids /\ job[q].id <= issued
    BY <2>1 DEF RowsInv, KnowsItsRow
  <2>3. job[q].id \in Nat /\ issued \in Nat
    BY <2>2, RotaConstants DEF Ids, TypeOK
  <2> QED
    BY <2>1, <2>2, <2>3 DEF DaysStay
<1>3. ASSUME NEW q \in Requests PROVE LookedInTime(job[q])'
  <2> SUFFICES LookedInTime(job'[q])
    BY DEF LookedInTime, IsLocked, Instant
  <2>1. LookedInTime(job[q])
    BY DEF RowsInv
  <2>2. CASE q # r
    BY <2>1, <2>2 DEF GoesOn
  <2>3. CASE q = r /\ job'[r] = NoJob
    BY <2>3 DEF LookedInTime, NoJob
  <2>4. CASE q = r /\ job'[r] # NoJob
    BY <2>1, <2>4 DEF LookedInTime, GoesOn
  <2> QED
    BY <2>2, <2>3, <2>4
<1>4. ASSUME NEW q \in Requests, NEW u \in Requests PROVE SameRowSameDay(job[q], job[u])'
  BY <1>k DEF RowsInv, SameRowSameDay
<1> QED
  BY <1>1, <1>2, <1>3, <1>4 DEF RowsInv

LEMMA BeginningKeepsRows ==
    ASSUME TypeOK, RowsInv, NEW r \in Requests, Begins(r)
    PROVE RowsInv'
<1>1. \A i \in Ids : plan'[i] # NoPlace => i <= issued'
  BY DEF RowsInv, Begins
<1>2. ASSUME NEW q \in Requests PROVE KnowsItsRow(job[q])'
  <2>1. CASE q # r
    <3>1. job'[q] = job[q] /\ KnowsItsRow(job[q]) /\ plan' = plan /\ issued' = issued
      BY <2>1 DEF RowsInv, Begins
    <3> QED
      BY <3>1 DEF KnowsItsRow
  <2>2. CASE q = r
    BY <2>2, <1>1 DEF KnowsItsRow, Begins
  <2> QED
    BY <2>1, <2>2
<1>3. ASSUME NEW q \in Requests PROVE LookedInTime(job[q])'
  <2> SUFFICES LookedInTime(job'[q])
    BY DEF LookedInTime, IsLocked, Instant
  <2> QED
    BY DEF RowsInv, LookedInTime, Begins
<1>4. ASSUME NEW q \in Requests, NEW u \in Requests PROVE SameRowSameDay(job[q], job[u])'
  <2>1. ASSUME NEW v \in Requests, job'[v].kind \in ByRow, job'[r].kind \in ByRow,
               job'[v].id = job'[r].id
        PROVE job'[v].day = job'[r].day
    BY <2>1 DEF RowsInv, KnowsItsRow, Begins
  <2>2. CASE q # r /\ u # r
    BY <2>2 DEF RowsInv, SameRowSameDay, Begins
  <2>3. CASE q = r \/ u = r
    BY <2>1, <2>3 DEF SameRowSameDay
  <2> QED
    BY <2>2, <2>3
<1> QED
  BY <1>1, <1>2, <1>3, <1>4 DEF RowsInv

\* Nobody new and no id given out: the days stay.
LEMMA ShrinkingDays ==
    ASSUME TypeOK, RowsInv, Shrinks, issued' = issued
    PROVE DaysStay
BY DEF RowsInv, KnowsItsRow, Shrinks, DaysStay, TypeOK

\* A commit writes a new id, or to the day the row had.
LEMMA CommitStaysOnTheDay ==
    ASSUME TypeOK, RowsInv, NEW r \in Requests, Commit(r)
    PROVE DaysStay
<1> DEFINE i == IF job[r].kind = "assign" THEN issued + 1 ELSE job[r].id
           x == [day |-> job[r].day, who |-> job[r].who, from |-> job[r].from, to |-> job[r].to]
<1>1. /\ i \in Ids /\ plan' = [plan EXCEPT ![i] = x] /\ x.day = job[r].day
      /\ job[r].kind \in {"assign", "update"}
      /\ issued' = IF job[r].kind = "assign" THEN issued + 1 ELSE issued
  BY DEF Commit, At
<1>2. issued \in Nat /\ issued' \in Nat /\ issued <= issued' /\ i \in Nat
  BY <1>1, RotaConstants DEF TypeOK, Ids
<1>3. i <= issued'
  BY <1>1, <1>2 DEF RowsInv, KnowsItsRow, ByRow
<1>4. ASSUME NEW q \in Requests, job[q].kind \in ByRow, job[q].id = i
      PROVE job[q].day = job[r].day
  <2>1. job[q].id <= issued
    BY <1>4 DEF RowsInv, KnowsItsRow
  <2>2. job[r].kind = "update" /\ job[r].id = i
    BY <2>1, <1>1, <1>2, <1>4
  <2> QED
    BY <2>2, <1>4 DEF RowsInv, SameRowSameDay, ByRow
<1>5. plan'[i] = x /\ \A k \in Ids \ {i} : plan'[k] = plan[k]
  BY <1>1 DEF TypeOK
<1>6. \A k \in Ids : k \in Nat
  BY RotaConstants DEF Ids
<1> HIDE DEF i, x
<1>7. ASSUME NEW k \in Ids, plan'[k] # NoPlace
      PROVE /\ k <= issued'
            /\ \A q \in Requests : job[q].kind \in ByRow /\ job[q].id = k => plan'[k].day = job[q].day
  <2>1. CASE k = i
    BY <2>1, <1>1, <1>3, <1>4, <1>5
  <2>2. CASE k # i
    BY <2>2, <1>2, <1>5, <1>6, <1>7 DEF RowsInv, KnowsItsRow
  <2> QED
    BY <2>1, <2>2
<1> QED
  BY <1>2, <1>7 DEF DaysStay

\* Every step of a request but a commit: places only leave, and a week is only
\* published over a deletion that has begun at the price of `raced`.
LEMMA OtherStepsShrink ==
    ASSUME TypeOK, ChecksStillHold, NEW r \in Requests,
           Take(r) \/ (Write(r) /\ ~Commit(r)) \/ Tell(r) \/ Lose(r)
    PROVE /\ Shrinks
          /\ issued' = issued
          /\ ~raced' => ~raced
          /\ status' = "published" /\ ~raced' =>
                \/ status = "published"
                \/ \A q \in Requests : job[q].kind # "deleteWeek"
<1>1. Shrinks
  <2>1. Take(r) => UNCHANGED plan
    BY DEF Take, LockDay, LockPerson
  <2>2. UNCHANGED plan \/ \E T \in SUBSET Ids : TakeOff(T)
    BY <2>1, OtherStepsTakeOff
  <2> QED
    BY <2>2 DEF TakeOff, Shrinks
<1>2. CASE Publish(r)
  <2>1. /\ issued' = issued
        /\ raced' = (raced \/ InFlight({"deleteWeek"}) # {})
    BY <1>2 DEF Publish
  <2>2. ~raced' => ~raced /\ \A q \in Requests : job[q].kind # "deleteWeek"
    BY <2>1 DEF InFlight, TypeOK
  <2> QED
    BY <1>1, <2>1, <2>2
<1>3. CASE Open(r) \/ DeleteWeek(r)
  <2>1. issued' = issued /\ raced' = raced /\ status' # "published"
    BY <1>3 DEF Open, DeleteWeek
  <2> QED
    BY <1>1, <2>1
<1>4. CASE Remove(r) \/ CancelMine(r) \/ CallOff(r) \/ PutBack(r) \/ Request(r)
           \/ UpdateDay(r) \/ DeleteDay(r)
  <2>1. issued' = issued /\ status' = status
    BY <1>4 DEF Remove, CancelMine, CallOff, PutBack, Request, UpdateDay, DeleteDay
  <2>2. \/ raced' = raced
        \/ raced' = (raced \/ Outdated(r))
    BY <1>4 DEF Remove, CancelMine, CallOff, PutBack, Request, UpdateDay, DeleteDay
  <2>3. ~raced' => ~raced
    BY <2>2
  <2> QED
    BY <1>1, <2>1, <2>3
<1>5. CASE Take(r) \/ Tell(r) \/ Lose(r)
  <2>1. issued' = issued /\ status' = status
    BY <1>5 DEF Take, LockDay, LockPerson, Tell, TellChange, TellCalledOff, TellPublished, Lose
  <2>2. \/ raced' = raced
        \/ TellCalledOff(r) \/ TellPublished(r)
        \/ raced' = (raced \/ job[r].step = "tell")
    BY <1>5 DEF Take, LockDay, LockPerson, Tell, TellChange, Lose
  <2>3. ~raced' => ~raced
    BY <2>2 DEF TellCalledOff, TellPublished
  <2> QED
    BY <1>1, <2>1, <2>3
<1> QED
  BY <1>2, <1>3, <1>4, <1>5 DEF Write

LEMMA StepKeepsEmpty ==
    ASSUME TypeOK, ChecksStillHold, EmptyInv, NEW r \in Requests,
           Start(r) \/ Take(r) \/ Write(r) \/ Tell(r) \/ Lose(r), ~raced'
    PROVE EmptyInv'
<1>n. NoJob.kind \notin {"deleteDay", "deleteWeek"}
  BY DEF NoJob
<1>g. ASSUME GoesOn(r), NEW q \in Requests, job'[q].kind \in {"deleteDay", "deleteWeek"}
      PROVE job'[q].kind = job[q].kind /\ job'[q].day = job[q].day
  BY <1>n, <1>g DEF GoesOn
<1>1. CASE Start(r)
  <2>1. Begins(r)
    BY <1>1, StartBegins
  <2>2. ASSUME NEW q \in Requests, job'[q].kind = "deleteDay" PROVE OnDay(job[q].day)' = {}
    BY <2>1, <2>2 DEF Begins, EmptyInv, OnDay
  <2>3. ASSUME status' = "published", NEW q \in Requests, job'[q].kind = "deleteWeek"
        PROVE \A i \in Ids : plan'[i] = NoPlace
    BY <2>1, <2>3 DEF Begins, EmptyInv
  <2> QED
    BY <2>2, <2>3 DEF EmptyInv
<1>2. CASE Take(r) \/ (Write(r) /\ ~Commit(r)) \/ Tell(r) \/ Lose(r)
  <2>1. GoesOn(r)
    BY <1>2, StepsGoOn
  <2>2. /\ Shrinks /\ ~raced
        /\ status' = "published" => \/ status = "published"
                                    \/ \A q \in Requests : job[q].kind # "deleteWeek"
    BY <1>2, OtherStepsShrink
  <2>3. ASSUME NEW q \in Requests, job'[q].kind = "deleteDay" PROVE OnDay(job[q].day)' = {}
    <3>1. job[q].kind = "deleteDay" /\ job'[q].day = job[q].day
      BY <2>1, <2>3, <1>g
    <3>2. OnDay(job[q].day) = {}
      BY <3>1, <2>2 DEF EmptyInv
    <3> QED
      BY <3>1, <3>2, <2>2 DEF OnDay, Shrinks
  <2>4. ASSUME status' = "published", NEW q \in Requests, job'[q].kind = "deleteWeek"
        PROVE \A i \in Ids : plan'[i] = NoPlace
    <3>1. job[q].kind = "deleteWeek"
      BY <2>1, <2>4, <1>g
    <3> QED
      BY <3>1, <2>2, <2>4 DEF EmptyInv, Shrinks
  <2> QED
    BY <2>3, <2>4 DEF EmptyInv
<1>3. CASE Commit(r)
  <2>1. /\ ~raced /\ status' = status
        /\ \A q \in Requests : job[q].kind # "deleteWeek"
        /\ \A q \in Requests : job[q].kind = "deleteDay" => job[q].day # job[r].day
    BY <1>3 DEF Commit, InFlight
  <2>2. GoesOn(r)
    BY <1>3, StepsGoOn DEF Write
  <2>3. ASSUME NEW q \in Requests, job'[q].kind = "deleteDay" PROVE OnDay(job[q].day)' = {}
    <3>1. job[q].kind = "deleteDay" /\ job'[q].day = job[q].day
      BY <2>2, <2>3, <1>g
    <3>2. job[q].day # job[r].day /\ OnDay(job[q].day) = {}
      BY <3>1, <2>1 DEF EmptyInv
    <3>3. \A i \in Ids : plan'[i] = plan[i] \/ plan'[i].day = job[r].day
      BY <1>3 DEF Commit, TypeOK
    <3> QED
      BY <3>1, <3>2, <3>3 DEF OnDay
  <2>4. \A q \in Requests : job'[q].kind # "deleteWeek"
    BY <2>1, <2>2, <1>g
  <2> QED
    BY <2>3, <2>4 DEF EmptyInv
<1> QED
  BY <1>1, <1>2, <1>3

LEMMA StepKeepsArchive ==
    ASSUME TypeOK, ChecksStillHold, ArchiveInv, [Next]_vars
    PROVE ArchiveInv'
<1>1. ASSUME NEW r \in Requests, Start(r) \/ Take(r) \/ Write(r) \/ Tell(r) \/ Lose(r)
      PROVE ArchiveInv'
  <2>1. EmptyInv'
    BY <1>1, StepKeepsEmpty DEF ArchiveInv, EmptyInv
  <2>2. CASE Start(r)
    BY <2>1, <2>2, StartBegins, BeginningKeepsRows DEF ArchiveInv
  <2>3. CASE Commit(r)
    BY <2>1, <2>3, StepsGoOn, CommitStaysOnTheDay, GoingOnKeepsRows DEF ArchiveInv, Write
  <2>4. CASE Take(r) \/ (Write(r) /\ ~Commit(r)) \/ Tell(r) \/ Lose(r)
    <3>1. GoesOn(r) /\ DaysStay
      BY <2>4, StepsGoOn, OtherStepsShrink, ShrinkingDays DEF ArchiveInv
    <3> QED
      BY <2>1, <3>1, GoingOnKeepsRows DEF ArchiveInv
  <2> QED
    BY <1>1, <2>2, <2>3, <2>4
<1>2. CASE Tick \/ (\E S \in SUBSET Days, s \in Spans : BuildWeek(S, s))
           \/ (\E w \in wishes : WithdrawRequest(w)) \/ UNCHANGED vars
  <2>1. /\ UNCHANGED <<plan, issued, job, raced>>
        /\ status' = "published" => status = "published"
    BY <1>2 DEF Tick, BuildWeek, WithdrawRequest, vars
  <2>2. EmptyInv'
    BY <2>1 DEF ArchiveInv, EmptyInv, OnDay
  <2>3. RowsInv'
    BY <2>1 DEF ArchiveInv, RowsInv, LookedInTime, KnowsItsRow, SameRowSameDay, IsLocked, Instant
  <2> QED
    BY <2>2, <2>3 DEF ArchiveInv
<1> QED
  BY <1>1, <1>2 DEF Next

LEMMA InitArchive == Init => ArchiveInv
BY DEF Init, ArchiveInv, RowsInv, EmptyInv, LookedInTime, KnowsItsRow, SameRowSameDay, ByRow, NoJob

\* What every request in flight knows of its row, its day and its clock is true.
THEOREM ArchiveIsGuarded == Spec => []ArchiveInv
<1>1. TypeOK /\ ChecksStillHold /\ ArchiveInv /\ [Next]_vars => ArchiveInv'
  BY StepKeepsArchive
<1> QED
  BY <1>1, InitArchive, TypeCorrect, LocksProtectChecks, PTL DEF Spec

----------------------------------------------------------------------------
(* The two promises *)

\* Days dropped of a published week have nobody on them.
LEMMA DroppedAreEmpty ==
    ASSUME TypeOK, EmptyInv, status = "published", ~raced, NEW r \in Requests,
           DeleteDay(r) \/ DeleteWeek(r)
    PROVE UNCHANGED plan
<1>1. CASE DeleteDay(r)
  <2>1. OnDay(job[r].day) = {}
    BY <1>1 DEF DeleteDay, At, EmptyInv
  <2>2. \A i \in Ids : plan'[i] = plan[i]
    BY <1>1, <2>1 DEF DeleteDay, DropDays
  <2> QED
    BY <1>1, <2>2 DEF DeleteDay, DropDays, TypeOK
<1>2. CASE DeleteWeek(r)
  <2>1. \A i \in Ids : plan[i] = NoPlace
    BY <1>2 DEF DeleteWeek, At, EmptyInv
  <2>2. \A i \in Ids : plan'[i] = plan[i]
    BY <1>2, <2>1 DEF DeleteWeek, DropDays, OnDay
  <2> QED
    BY <1>2, <2>2 DEF DeleteWeek, DropDays, TypeOK
<1> QED
  BY <1>1, <1>2

\* Which steps write to the plan of a published week at all.
LEMMA WhoWritesThePlan ==
    ASSUME TypeOK, EmptyInv, status = "published", ~raced, [Next]_vars, plan' # plan
    PROVE \E r \in Requests : Commit(r) \/ Remove(r) \/ CancelMine(r)
<1>1. ASSUME NEW r \in Requests, Start(r) \/ Take(r) \/ Tell(r) \/ Lose(r) PROVE FALSE
  <2>1. Start(r) => UNCHANGED plan
    BY StartBegins DEF Begins
  <2> QED
    BY <1>1, <2>1 DEF Take, LockDay, LockPerson, Tell, TellChange, TellCalledOff, TellPublished, Lose
<1>2. ASSUME NEW r \in Requests, Write(r) PROVE Commit(r) \/ Remove(r) \/ CancelMine(r)
  BY <1>2, DroppedAreEmpty DEF Write, CallOff, PutBack, Request, UpdateDay, Open, Publish
<1> QED
  BY <1>1, <1>2 DEF Next, Tick, BuildWeek, WithdrawRequest, vars

\* Nothing disappears quietly: a place of a published week leaves the plan only by
\* a request for that very place; no day or week is deleted from under people.
THEOREM NothingLeavesQuietly == Spec => PlanKept
<1>1. ASSUME TypeOK, ArchiveInv, [Next]_vars, NEW i \in Ids, plan[i] # NoPlace,
             plan'[i] = NoPlace, status = "published", ~raced
      PROVE \E r \in InFlight({"remove", "cancelMine"}) : job[r].id = i
  <2>1. PICK r \in Requests : Commit(r) \/ Remove(r) \/ CancelMine(r)
    BY <1>1, WhoWritesThePlan DEF ArchiveInv
  <2>2. ~Commit(r)
    <3> SUFFICES ASSUME Commit(r) PROVE FALSE
      OBVIOUS
    <3> DEFINE x == [day |-> job[r].day, who |-> job[r].who, from |-> job[r].from, to |-> job[r].to]
    <3>1. job[r] \in AJob
      BY <1>1, BusyIsAJob DEF TypeOK, JobType, Commit, At, Busy, Kinds
    <3>2. x \in Place
      BY <3>1 DEF AJob, Place
    <3>3. \A k \in Ids : plan'[k] = plan[k] \/ plan'[k] = x
      BY <1>1 DEF Commit, TypeOK
    <3> QED
      BY <1>1, <3>2, <3>3, RotaConstants
  <2> QED
    BY <1>1, <2>1, <2>2 DEF Remove, CancelMine, At, InFlight, TypeOK
<1>2. TypeOK /\ ArchiveInv /\ [Next]_vars =>
         [\A i \in Ids :
            (plan[i] # NoPlace /\ plan'[i] = NoPlace /\ status = "published" /\ ~raced)
                => \E r \in InFlight({"remove", "cancelMine"}) : job[r].id = i]_vars
  BY <1>1
<1> QED
  BY <1>2, TypeCorrect, ArchiveIsGuarded, PTL DEF Spec, PlanKept

\* The archive does not change: once every request that looked at a published day
\* before its lock is answered, who stood on it is who stood on it.
THEOREM SettledDaysStay == Spec => ArchiveFixed
<1>1. ASSUME TypeOK, ArchiveInv, [Next]_vars, NEW d \in Days, Settled(d)
      PROVE OnDay(d)' = OnDay(d) /\ \A i \in OnDay(d) : plan'[i] = plan[i]
  <2>1. CASE plan' = plan
    BY <2>1 DEF OnDay
  <2>2. CASE plan' # plan
    <3>1. PICK r \in Requests : Commit(r) \/ Remove(r) \/ CancelMine(r)
      BY <1>1, <2>2, WhoWritesThePlan DEF ArchiveInv, Settled
    <3>2. Busy(r)
      BY <3>1 DEF Commit, Remove, CancelMine, At, Busy, Kinds
    <3>3. job[r].day # d
      <4>1. ~IsLocked(job[r].day, job[r].at)
        BY <1>1, <3>1 DEF ArchiveInv, RowsInv, LookedInTime, Commit, Remove, CancelMine, At
      <4>2. IsLocked(d, job[r].at)
        BY <1>1, <3>2 DEF Settled
      <4> QED
        BY <4>1, <4>2
    <3> DEFINE i == IF job[r].kind = "assign" THEN issued + 1 ELSE job[r].id
    <3>4. /\ \A k \in Ids \ {i} : plan'[k] = plan[k]
          /\ i \in Ids /\ plan'[i] # NoPlace => plan'[i].day = job[r].day
      <4>1. CASE Commit(r)
        BY <1>1, <4>1 DEF Commit, TypeOK
      <4>2. CASE Remove(r) \/ CancelMine(r)
        BY <1>1, <4>2 DEF Remove, CancelMine, At, TypeOK
      <4> QED
        BY <3>1, <4>1, <4>2
    <3>5. i \in Ids /\ plan[i] # NoPlace => plan[i].day = job[r].day
      <4>1. CASE job[r].kind = "assign"
        <5>1. i = issued + 1 /\ issued \in Nat
          BY <1>1, <4>1 DEF TypeOK
        <5> QED
          BY <1>1, <5>1 DEF ArchiveInv, RowsInv
      <4>2. CASE job[r].kind # "assign"
        <5>1. job[r].kind \in ByRow
          BY <3>1, <4>2 DEF Commit, Remove, CancelMine, At, ByRow
        <5> QED
          BY <1>1, <4>2, <5>1 DEF ArchiveInv, RowsInv, KnowsItsRow
      <4> QED
        BY <4>1, <4>2
    <3> HIDE DEF i
    <3>6. \A k \in Ids : plan[k] # NoPlace /\ plan[k].day = d => plan'[k] = plan[k]
      BY <3>3, <3>4, <3>5
    <3>7. \A k \in Ids : plan'[k] # NoPlace /\ plan'[k].day = d => plan'[k] = plan[k]
      BY <3>3, <3>4
    <3> QED
      BY <3>6, <3>7 DEF OnDay
  <2> QED
    BY <2>1, <2>2
<1>2. TypeOK /\ ArchiveInv /\ [Next]_vars =>
         [\A d \in Days : Settled(d) =>
            /\ OnDay(d)' = OnDay(d)
            /\ \A i \in OnDay(d) : plan'[i] = plan[i]]_vars
  BY <1>1
<1> QED
  BY <1>2, TypeCorrect, ArchiveIsGuarded, PTL DEF Spec, ArchiveFixed

----------------------------------------------------------------------------
(* Whoever stands knows (ToldOfHisTime).  Of a published plan nobody wrote   *)
(* to from an outdated reading: a person whose time is not called off knows  *)
(* of all of it that is ahead, or a request that is about to tell will tell  *)
(* him.  It rests on what a request knows of the clock, of the calling-off   *)
(* it has written or read, and of the place it has taken away.               *)

Time(i, n) == {m \in Instants(plan[i].day, plan[i]) : m + 1 > n}
Stands(i) == plan[i] # NoPlace /\ plan[i].who \in People /\ ~calledOff(plan[i].day, plan[i])

WillTell(j, i) ==
    /\ j.step = "tell"
    /\ \/ j.kind = "publish"
       \/ /\ j.kind \in {"assign", "update"} /\ j.id = i /\ SpanOf(j) = SpanOf(plan[i])
          /\ j.day = plan[i].day /\ j.who = plan[i].who
       \/ j.kind = "putBack" /\ j.day = plan[i].day /\ overlaps(plan[i], j)
Knows(i) == Time(i, now) \subseteq told[i] \/ \E r \in Requests : WillTell(job[r], i)
ToldInv == (status = "published" /\ ~raced) => \A i \in Ids : Stands(i) => Knows(i)

Same(o, j) == o.day = j.day /\ o.from = j.from /\ o.to = j.to
KnowsItsOff(j) ==
    (j.kind = "putBack" \/ (j.kind = "callOff" /\ j.step = "tell")) =>
        \A o \in off : o.id = j.id => Same(o, j)
OffInv == /\ \A o, c \in off : o.id = c.id => o = c
          /\ \A r \in Requests : KnowsItsOff(job[r])
ClockInv == \A r \in Requests : Busy(r) => job[r].at <= now
RemovedInv == \A r \in Requests :
    (job[r].kind = "remove" /\ job[r].step = "tell" /\ ~raced) => plan[job[r].id] = NoPlace
NewsInv == OffInv /\ ClockInv /\ RemovedInv

LEMMA InstantIs ==
    ASSUME NEW d \in Days
    PROVE \E D \in Nat : \A t : Instant(d, t) = D + t
<1>1. DateOf[d] \in Nat /\ Slots \in Nat
  BY RotaConstants
<1>2. DateOf[d] * Slots \in Nat
  <2>1. \A a, b \in Nat : a * b \in Nat
    OBVIOUS
  <2> QED
    BY <1>1, <2>1
<1>3. \A t : Instant(d, t) = (DateOf[d] * Slots) + t
  BY DEF Instant
<1> QED
  BY <1>2, <1>3

\* Spans of a day that share an instant overlap.
LEMMA SharedInstant ==
    ASSUME NEW d \in Days, NEW a, NEW b, a.from \in 0..Slots, a.to \in 0..Slots,
           b.from \in 0..Slots, b.to \in 0..Slots, NEW m \in Instants(d, a), m \in Instants(d, b)
    PROVE overlaps(a, b)
<1>1. PICK D \in Nat : \A t : Instant(d, t) = D + t
  BY InstantIs
<1>2. PICK t \in 0..Slots : covers(a, t) /\ m = D + t
  BY <1>1 DEF Instants
<1>3. PICK u \in 0..Slots : covers(b, u) /\ m = D + u
  BY <1>1 DEF Instants
<1>4. t = u
  <2>1. D + t = D + u /\ Slots \in Nat
    BY <1>2, <1>3, RotaConstants
  <2> QED
    BY <2>1
<1>5. /\ a.from \in Int /\ a.to \in Int /\ b.from \in Int /\ b.to \in Int /\ t \in Int
      /\ a.from <= t /\ t < a.to /\ b.from <= t /\ t < b.to
  BY <1>2, <1>3, <1>4 DEF covers
<1> QED
  BY <1>5 DEF overlaps

\* All the time ahead of a place no part of which is called off.
LEMMA AheadIs ==
    ASSUME TypeOK, NEW i \in Ids, Stands(i), NEW n
    PROVE ahead(i, n) = Time(i, n)
<1>1. plan[i] \in Place /\ plan[i].day \in Days /\ plan[i].from \in 0..Slots /\ plan[i].to \in 0..Slots
  BY DEF TypeOK, Stands, Place
<1>2. ASSUME NEW o \in off, o.day = plan[i].day, NEW m \in Instants(plan[i].day, plan[i]),
             m \in Instants(o.day, o)
      PROVE FALSE
  <2>1. o.from \in 0..Slots /\ o.to \in 0..Slots
    BY DEF TypeOK, CalledOff
  <2>2. overlaps(o, plan[i])
    BY <1>1, <1>2, <2>1, SharedInstant
  <2> QED
    BY <1>2, <2>2 DEF Stands, calledOff
<1> QED
  BY <1>2 DEF ahead, Time, Stands

\* Time goes by: less is ahead, and nothing once the place is over.
LEMMA TimePasses ==
    ASSUME TypeOK, NEW i \in Ids, plan[i] # NoPlace, NEW n \in Nat, NEW k \in Nat, k <= n
    PROVE /\ Time(i, n) \subseteq Time(i, k)
          /\ HasBegun(plan[i].day, plan[i].to, k) => Time(i, n) = {}
<1>1. plan[i].day \in Days /\ plan[i].to \in 0..Slots
  BY DEF TypeOK, Place
<1>2. PICK D \in Nat : \A t : Instant(plan[i].day, t) = D + t
  BY <1>1, InstantIs
<1>3. ASSUME NEW m \in Time(i, n)
      PROVE m \in Time(i, k) /\ ~HasBegun(plan[i].day, plan[i].to, k)
  <2>1. PICK t \in 0..Slots : t < plan[i].to /\ m = D + t /\ m + 1 > n
    BY <1>2 DEF Time, Instants, covers
  <2>2. m \in Nat /\ plan[i].to \in Nat /\ t \in Nat
    BY <1>1, <2>1, RotaConstants
  <2>3. m + 1 > k /\ ~(D + plan[i].to <= k)
    BY <2>1, <2>2
  <2> QED
    BY <1>2, <2>3 DEF Time, HasBegun
<1> QED
  BY <1>3

\* A request begins with the clock of now, and to put back what is called off.
LEMMA StartIs ==
    ASSUME TypeOK, NEW r \in Requests, Start(r)
    PROVE /\ UNCHANGED <<status, plan, off, told, raced, now>>
          /\ ~Busy(r) /\ \A q \in Requests \ {r} : job'[q] = job[q]
          /\ job'[r].step # "tell" /\ job'[r].at = now
          /\ job'[r].kind = "putBack" => \E o \in off : job'[r].id = o.id /\ Same(o, job'[r])
<1>b. ASSUME NEW kind, NEW step \in {"begun", "checked"}, NEW i, NEW d, NEW who, NEW s, NEW was,
             Begin(r, kind, step, i, d, who, s, was),
             kind = "putBack" => s \in off /\ i = s.id /\ d = s.day
      PROVE /\ UNCHANGED <<status, plan, off, told, raced, now>>
            /\ ~Busy(r) /\ \A q \in Requests \ {r} : job'[q] = job[q]
            /\ job'[r].step # "tell" /\ job'[r].at = now
            /\ job'[r].kind = "putBack" => \E o \in off : job'[r].id = o.id /\ Same(o, job'[r])
  <2>1. /\ job'[r].kind = kind /\ job'[r].step = step /\ job'[r].id = i /\ job'[r].day = d
        /\ job'[r].at = now /\ job'[r].from = s.from /\ job'[r].to = s.to
    BY <1>b DEF Begin, TypeOK
  <2>2. /\ UNCHANGED <<status, plan, off, told, raced, now>>
        /\ ~Busy(r) /\ \A q \in Requests \ {r} : job'[q] = job[q]
    BY <1>b DEF Begin, TypeOK
  <2> QED
    BY <1>b, <2>1, <2>2 DEF Same
<1>1. \E kind, step, i, d, who, s, was :
         /\ step \in {"begun", "checked"} /\ Begin(r, kind, step, i, d, who, s, was)
         /\ kind = "putBack" => s \in off /\ i = s.id /\ d = s.day
  <2>1. ASSUME NEW d, NEW s, NEW who,
               \/ BeginAssign(r, d, who, s) \/ BeginRequest(r, d, who, s)
               \/ BeginCallOff(r, d, s) \/ BeginUpdateDay(r, d, s)
        PROVE \E kind, step, i, w, was : /\ step \in {"begun", "checked"} /\ kind # "putBack"
                                         /\ Begin(r, kind, step, i, d, w, s, was)
    BY <2>1 DEF BeginAssign, BeginRequest, BeginCallOff, BeginUpdateDay
  <2>2. ASSUME NEW i \in Ids, NEW s, BeginUpdate(r, i, s) \/ BeginRemove(r, i) \/ BeginCancelMine(r, i)
        PROVE \E kind, step, d, w, x, was : /\ step \in {"begun", "checked"} /\ kind # "putBack"
                                            /\ Begin(r, kind, step, i, d, w, x, was)
    BY <2>2 DEF BeginUpdate, BeginRemove, BeginCancelMine
  <2>3. ASSUME NEW o \in off, BeginPutBack(r, o)
        PROVE Begin(r, "putBack", "checked", o.id, o.day, Guest, o, NoSpan)
    BY <2>3 DEF BeginPutBack
  <2>4. ASSUME NEW d, BeginDeleteDay(r, d)
        PROVE Begin(r, "deleteDay", "checked", 0, d, Guest, NoSpan, NoSpan)
    BY <2>4 DEF BeginDeleteDay
  <2>5. BeginOpen(r) => Begin(r, "open", "checked", 0, AnyDay, Guest, NoSpan, NoSpan)
    BY DEF BeginOpen
  <2>6. BeginPublish(r) => Begin(r, "publish", "checked", 0, AnyDay, Guest, NoSpan, NoSpan)
    BY DEF BeginPublish
  <2>7. BeginDeleteWeek(r) => Begin(r, "deleteWeek", "checked", 0, AnyDay, Guest, NoSpan, NoSpan)
    BY DEF BeginDeleteWeek
  <2> QED
    BY <2>1, <2>2, <2>3, <2>4, <2>5, <2>6, <2>7 DEF Start
<1> QED
  BY <1>1, <1>b

\* Every other step of a request: it ends, or goes on with what it works with.
StaysItself(r) ==
    \/ job'[r] = NoJob
    \/ /\ Busy(r) /\ job[r].kind \in {"assign", "update", "remove", "putBack", "publish"}
       /\ job'[r].kind = job[r].kind /\ job'[r].day = job[r].day /\ job'[r].who = job[r].who
       /\ job'[r].from = job[r].from /\ job'[r].to = job[r].to /\ job'[r].at = job[r].at
       /\ job[r].kind \in {"remove", "putBack"} => job'[r].id = job[r].id

LEMMA StepsStay ==
    ASSUME TypeOK, NEW r \in Requests, Take(r) \/ (Write(r) /\ ~CallOff(r)) \/ Tell(r) \/ Lose(r)
    PROVE StaysItself(r) /\ \A q \in Requests \ {r} : job'[q] = job[q]
<1>1. ASSUME Done(r) PROVE StaysItself(r) /\ \A q \in Requests \ {r} : job'[q] = job[q]
  BY <1>1 DEF Done, StaysItself, TypeOK
<1>2. ASSUME Busy(r), NEW st, NEW i, NEW sn,
             job' = [job EXCEPT ![r] = [@ EXCEPT !.step = st, !.id = i, !.seen = sn]],
             job[r].kind \in {"assign", "update"} \/ i = job[r].id,
             job[r].kind \in {"assign", "update", "remove", "putBack", "publish"}
      PROVE StaysItself(r) /\ \A q \in Requests \ {r} : job'[q] = job[q]
  <2>1. job[r] \in AJob
    BY <1>2, BusyIsAJob DEF TypeOK, JobType
  <2> DEFINE x == [job[r] EXCEPT !.step = st, !.id = i, !.seen = sn]
  <2>2. /\ x.kind = job[r].kind /\ x.day = job[r].day /\ x.who = job[r].who /\ x.from = job[r].from
        /\ x.to = job[r].to /\ x.at = job[r].at /\ x.id = i
    BY <2>1 DEF AJob
  <2>3. job'[r] = x /\ \A q \in Requests \ {r} : job'[q] = job[q]
    BY <1>2 DEF TypeOK
  <2> HIDE DEF x
  <2> QED
    BY <1>2, <2>2, <2>3 DEF StaysItself
<1>3. ASSUME NEW st, Busy(r), GoTo(r, st), job[r].kind \in {"assign", "update", "remove", "putBack", "publish"}
      PROVE StaysItself(r) /\ \A q \in Requests \ {r} : job'[q] = job[q]
  <2>1. job[r] \in AJob
    BY <1>3, BusyIsAJob DEF TypeOK, JobType
  <2>2. [job[r] EXCEPT !.step = st] = [job[r] EXCEPT !.step = st, !.id = job[r].id, !.seen = job[r].seen]
    BY <2>1 DEF AJob
  <2>3. job' = [job EXCEPT ![r] = [@ EXCEPT !.step = st, !.id = job[r].id, !.seen = job[r].seen]]
    BY <1>3, <2>2 DEF GoTo
  <2> QED
    BY <1>2, <1>3, <2>3
<1>4. CASE LockDay(r)
  <2>1. job[r].kind \in {"assign", "update"} /\ Busy(r)
    BY <1>4 DEF LockDay, At, Busy
  <2>2. job[r] \in AJob
    BY <2>1, BusyIsAJob DEF TypeOK, JobType
  <2>3. [job[r] EXCEPT !.step = "inDay", !.seen = status]
          = [job[r] EXCEPT !.step = "inDay", !.id = job[r].id, !.seen = status]
    BY <2>2 DEF AJob
  <2>4. \/ Done(r)
        \/ job' = [job EXCEPT ![r] = [@ EXCEPT !.step = "inDay", !.id = job[r].id, !.seen = status]]
    BY <1>4, <2>3 DEF LockDay, Done
  <2> QED
    BY <1>1, <1>2, <2>1, <2>4
<1>5. CASE LockPerson(r)
  <2>1. job[r].kind \in {"assign", "update"} /\ Busy(r) /\ (Done(r) \/ GoTo(r, "inBoth"))
    BY <1>5 DEF LockPerson, At, Busy
  <2> QED
    BY <1>1, <1>3, <2>1
<1>6. CASE Commit(r)
  <2>1. job[r].kind \in {"assign", "update"} /\ Busy(r)
    BY <1>6 DEF Commit, At, Busy
  <2>2. PICK i : \/ job' = [job EXCEPT ![r] = [@ EXCEPT !.step = "tell", !.id = i]]
                 \/ Done(r)
    BY <1>6 DEF Commit, Done
  <2>3. job[r] \in AJob
    BY <2>1, BusyIsAJob DEF TypeOK, JobType
  <2>4. [job[r] EXCEPT !.step = "tell", !.id = i]
          = [job[r] EXCEPT !.step = "tell", !.id = i, !.seen = job[r].seen]
    BY <2>3 DEF AJob
  <2>5. \/ job' = [job EXCEPT ![r] = [@ EXCEPT !.step = "tell", !.id = i, !.seen = job[r].seen]]
        \/ Done(r)
    BY <2>2, <2>4
  <2> QED
    BY <1>1, <1>2, <2>1, <2>5
<1>7. CASE Remove(r) \/ PutBack(r) \/ Publish(r)
  <2>1. /\ job[r].kind \in {"remove", "putBack", "publish"} /\ Busy(r)
        /\ Done(r) \/ GoTo(r, "tell")
    BY <1>7 DEF Remove, PutBack, Publish, ThenTell, At, Busy
  <2> QED
    BY <1>1, <1>3, <2>1
<1>8. CASE CancelMine(r) \/ Request(r) \/ UpdateDay(r) \/ DeleteDay(r) \/ Open(r) \/ DeleteWeek(r)
           \/ Tell(r) \/ Lose(r)
  BY <1>1, <1>8 DEF CancelMine, Request, UpdateDay, DeleteDay, Open, DeleteWeek, Tell,
     TellChange, TellCalledOff, TellPublished, Lose
<1> QED
  BY <1>4, <1>5, <1>6, <1>7, <1>8 DEF Take, Write

\* What is called off changes by calling off; otherwise it is only put back or dropped.
LEMMA OffShrinks ==
    ASSUME NEW r \in Requests, Start(r) \/ Take(r) \/ (Write(r) /\ ~CallOff(r)) \/ Tell(r) \/ Lose(r), TypeOK
    PROVE off' \subseteq off /\ now' = now /\ (~raced' => ~raced)
<1>1. CASE Start(r)
  BY <1>1, StartIs
<1>2. CASE Take(r) \/ Tell(r) \/ Lose(r)
  <2>1. off' = off /\ now' = now
    BY <1>2 DEF Take, LockDay, LockPerson, Tell, TellChange, TellCalledOff, TellPublished, Lose
  <2>2. \/ raced' = raced
        \/ TellCalledOff(r) \/ TellPublished(r)
        \/ raced' = (raced \/ job[r].step = "tell")
    BY <1>2 DEF Take, LockDay, LockPerson, Tell, TellChange, Lose
  <2>3. ~raced' => ~raced
    BY <2>2 DEF TellCalledOff, TellPublished
  <2> QED
    BY <2>1, <2>3
<1>3. CASE Remove(r) \/ CancelMine(r) \/ PutBack(r) \/ Request(r) \/ UpdateDay(r) \/ Open(r)
           \/ Publish(r)
  <2>1. off' \subseteq off /\ now' = now
    BY <1>3 DEF Remove, CancelMine, PutBack, Request, UpdateDay, Open, Publish
  <2>2. \/ raced' = raced
        \/ raced' = (raced \/ Outdated(r))
        \/ raced' = (raced \/ InFlight({"deleteWeek"}) # {})
    BY <1>3 DEF Remove, CancelMine, PutBack, Request, UpdateDay, Open, Publish
  <2>3. ~raced' => ~raced
    BY <2>2
  <2> QED
    BY <2>1, <2>3
<1>4. CASE DeleteDay(r) \/ DeleteWeek(r)
  BY <1>4 DEF DeleteDay, DeleteWeek, DropDays
<1>5. CASE Commit(r)
  BY <1>5 DEF Commit
<1> QED
  BY <1>1, <1>2, <1>3, <1>4, <1>5 DEF Write

\* What calling off does to what is called off: one more with an id of its own.
LEMMA CallingOff ==
    ASSUME TypeOK, NEW r \in Requests, CallOff(r)
    PROVE /\ UNCHANGED <<status, plan, told, now>> /\ (~raced' => ~raced)
          /\ job[r].kind = "callOff" /\ job[r].step = "checked" /\ Busy(r)
          /\ \A q \in Requests \ {r} : job'[q] = job[q]
          /\ \/ off' = off /\ job'[r] = NoJob
             \/ \E k \in Nat : \E o : /\ UnusedId(k) /\ off' = off \cup {o} /\ o.id = k /\ Same(o, job[r])
                                      /\ \/ job'[r] = NoJob
                                         \/ /\ job'[r].kind = "callOff" /\ job'[r].id = k
                                            /\ Same(job[r], job'[r]) /\ job'[r].at = job[r].at
<1>1. UNCHANGED <<status, plan, told, now>> /\ (~raced' => ~raced)
  BY DEF CallOff
<1>2. job[r].kind = "callOff" /\ job[r].step = "checked" /\ Busy(r)
  BY DEF CallOff, At, Busy
<1>3. job[r] \in AJob
  BY <1>2, BusyIsAJob DEF TypeOK, JobType
<1>4. CASE planned[job[r].day] # "planned"
  BY <1>1, <1>2, <1>4 DEF CallOff, Done, TypeOK
<1>5. CASE planned[job[r].day] = "planned"
  <2>1. PICK k \in 1..MaxJobs :
           /\ UnusedId(k)
           /\ off' = off \cup {[id |-> k, day |-> job[r].day, from |-> job[r].from, to |-> job[r].to]}
           /\ job' = [job EXCEPT ![r] = IF @.seen = "published"
                                        THEN [@ EXCEPT !.step = "tell", !.id = k] ELSE NoJob]
    BY <1>5 DEF CallOff
  <2> DEFINE x == [job[r] EXCEPT !.step = "tell", !.id = k]
             o == [id |-> k, day |-> job[r].day, from |-> job[r].from, to |-> job[r].to]
  <2>2. /\ x.kind = "callOff" /\ x.id = k /\ Same(job[r], x) /\ x.at = job[r].at
        /\ o.id = k /\ Same(o, job[r])
    BY <1>2, <1>3 DEF AJob, Same
  <2>3. /\ job'[r] = x \/ job'[r] = NoJob
        /\ \A q \in Requests \ {r} : job'[q] = job[q]
    BY <2>1 DEF TypeOK
  <2>4. off' = off \cup {o} /\ k \in Nat
    BY <2>1, CartConstants
  <2> HIDE DEF x, o
  <2> QED
    BY <1>1, <1>2, <2>1, <2>2, <2>3, <2>4
<1> QED
  BY <1>4, <1>5

LEMMA NewsClock ==
    ASSUME TypeOK, NewsInv, NEW r \in Requests, Start(r) \/ Take(r) \/ Write(r) \/ Tell(r) \/ Lose(r)
    PROVE ClockInv'
<1>1. NoJob.kind = "idle"
  BY DEF NoJob
<1>2. \A q \in Requests : Busy(q) => job[q].at <= now
  BY DEF NewsInv, ClockInv
<1>3. CASE Start(r)
  <2>1. now' = now /\ job'[r].at = now /\ \A q \in Requests \ {r} : job'[q] = job[q]
    BY <1>3, StartIs
  <2>2. now <= now
    BY DEF TypeOK
  <2> QED
    BY <1>2, <2>1, <2>2 DEF ClockInv, Busy
<1>4. CASE CallOff(r)
  BY <1>1, <1>2, <1>4, CallingOff DEF ClockInv, Busy
<1>5. CASE Take(r) \/ (Write(r) /\ ~CallOff(r)) \/ Tell(r) \/ Lose(r)
  <2>1. now' = now
    BY <1>5, OffShrinks
  <2>2. StaysItself(r) /\ \A q \in Requests \ {r} : job'[q] = job[q]
    BY <1>5, StepsStay
  <2> QED
    BY <1>1, <1>2, <2>1, <2>2 DEF ClockInv, Busy, StaysItself
<1> QED
  BY <1>3, <1>4, <1>5

LEMMA NewsOff ==
    ASSUME TypeOK, NewsInv, NEW r \in Requests, Start(r) \/ Take(r) \/ Write(r) \/ Tell(r) \/ Lose(r)
    PROVE OffInv'
<1>1. NoJob.kind = "idle"
  BY DEF NoJob
<1>2. /\ \A o, c \in off : o.id = c.id => o = c
      /\ \A q \in Requests : KnowsItsOff(job[q])
  BY DEF NewsInv, OffInv
<1>3. CASE Start(r)
  <2>1. /\ off' = off /\ \A q \in Requests \ {r} : job'[q] = job[q]
        /\ job'[r].step # "tell"
        /\ job'[r].kind = "putBack" => \E o \in off : job'[r].id = o.id /\ Same(o, job'[r])
    BY <1>3, StartIs
  <2>2. ASSUME NEW q \in Requests PROVE KnowsItsOff(job[q])'
    <3>1. CASE q # r
      BY <1>2, <2>1, <3>1 DEF KnowsItsOff
    <3>2. CASE q = r
      BY <1>2, <2>1, <3>2 DEF KnowsItsOff
    <3> QED
      BY <3>1, <3>2
  <2> QED
    BY <1>2, <2>1, <2>2 DEF OffInv
<1>4. CASE CallOff(r)
  <2>1. /\ job[r].kind = "callOff" /\ \A q \in Requests \ {r} : job'[q] = job[q]
        /\ \/ off' = off /\ job'[r] = NoJob
           \/ \E k \in Nat : \E o : /\ UnusedId(k) /\ off' = off \cup {o} /\ o.id = k /\ Same(o, job[r])
                                    /\ \/ job'[r] = NoJob
                                       \/ /\ job'[r].kind = "callOff" /\ job'[r].id = k
                                          /\ Same(job[r], job'[r]) /\ job'[r].at = job[r].at
    BY <1>4, CallingOff
  <2>2. CASE off' = off /\ job'[r] = NoJob
    BY <1>1, <1>2, <2>1, <2>2 DEF OffInv, KnowsItsOff
  <2>3. ASSUME NEW k \in Nat, NEW o, UnusedId(k), off' = off \cup {o}, o.id = k, Same(o, job[r]),
               \/ job'[r] = NoJob
               \/ job'[r].kind = "callOff" /\ job'[r].id = k /\ Same(job[r], job'[r])
        PROVE OffInv'
    <3>1. /\ \A c \in off : c.id # k
          /\ \A q \in Requests : job[q].kind \in {"callOff", "putBack"} => job[q].id # k
      BY <2>3 DEF UnusedId, InFlight
    <3>2. \A c, e \in off' : c.id = e.id => c = e
      BY <1>2, <2>3, <3>1
    <3>3. ASSUME NEW q \in Requests PROVE KnowsItsOff(job[q])'
      <4>1. CASE q # r
        BY <1>2, <2>1, <2>3, <3>1, <4>1 DEF KnowsItsOff
      <4>2. CASE q = r
        BY <1>1, <2>3, <3>1, <4>2 DEF KnowsItsOff, Same
      <4> QED
        BY <4>1, <4>2
    <3> QED
      BY <3>2, <3>3 DEF OffInv
  <2> QED
    BY <2>1, <2>2, <2>3
<1>5. CASE Take(r) \/ (Write(r) /\ ~CallOff(r)) \/ Tell(r) \/ Lose(r)
  <2>1. off' \subseteq off
    BY <1>5, OffShrinks
  <2>2. StaysItself(r) /\ \A q \in Requests \ {r} : job'[q] = job[q]
    BY <1>5, StepsStay
  <2>3. ASSUME NEW q \in Requests PROVE KnowsItsOff(job[q])'
    <3>1. CASE q # r
      BY <1>2, <2>1, <2>2, <3>1 DEF KnowsItsOff
    <3>2. CASE q = r
      BY <1>1, <1>2, <2>1, <2>2, <3>2 DEF KnowsItsOff, StaysItself, Same
    <3> QED
      BY <3>1, <3>2
  <2> QED
    BY <1>2, <2>1, <2>3 DEF OffInv
<1> QED
  BY <1>3, <1>4, <1>5

LEMMA NewsRemoved ==
    ASSUME TypeOK, ChecksStillHold, RowsInv, NewsInv, NEW r \in Requests,
           Start(r) \/ Take(r) \/ Write(r) \/ Tell(r) \/ Lose(r)
    PROVE RemovedInv'
<1>1. NoJob.kind = "idle"
  BY DEF NoJob
<1>2. ASSUME NEW q \in Requests, job[q].kind = "remove"
      PROVE job[q].id \in Ids /\ job[q].id <= issued /\ job[q].id \in Nat
  BY <1>2, RotaConstants DEF RowsInv, KnowsItsRow, ByRow, Ids
<1>3. ASSUME Shrinks, ~raced' => ~raced, \A q \in Requests \ {r} : job'[q] = job[q],
             job'[r].kind = "remove" /\ job'[r].step = "tell" => plan'[job'[r].id] = NoPlace
      PROVE RemovedInv'
  <2>1. ASSUME NEW q \in Requests, q # r, job'[q].kind = "remove", job'[q].step = "tell", ~raced'
        PROVE plan'[job'[q].id] = NoPlace
    <3>1. job[q].kind = "remove" /\ job[q].step = "tell" /\ job'[q].id = job[q].id /\ ~raced
      BY <1>3, <2>1
    <3>2. plan[job[q].id] = NoPlace /\ job[q].id \in Ids
      BY <1>2, <3>1 DEF NewsInv, RemovedInv
    <3> QED
      BY <1>3, <3>1, <3>2 DEF Shrinks
  <2> QED
    BY <1>3, <2>1 DEF RemovedInv
<1>4. CASE Start(r)
  <2>1. UNCHANGED <<plan, raced>> /\ job'[r].step # "tell" /\ \A q \in Requests \ {r} : job'[q] = job[q]
    BY <1>4, StartIs
  <2> QED
    BY <1>3, <2>1 DEF Shrinks
<1>5. CASE CallOff(r)
  <2>1. UNCHANGED plan /\ (~raced' => ~raced) /\ job'[r].kind # "remove"
        /\ \A q \in Requests \ {r} : job'[q] = job[q]
    BY <1>1, <1>5, CallingOff
  <2> QED
    BY <1>3, <2>1 DEF Shrinks
<1>6. CASE Remove(r)
  <2>1. StaysItself(r) /\ \A q \in Requests \ {r} : job'[q] = job[q]
    BY <1>6, StepsStay DEF Write, Remove, CallOff, At
  <2>2. job[r].kind = "remove" /\ plan' = [plan EXCEPT ![job[r].id] = NoPlace]
    BY <1>6 DEF Remove, At
  <2>3. plan'[job[r].id] = NoPlace
    BY <1>2, <2>2 DEF TypeOK
  <2>4. job'[r].kind = "remove" => job'[r].id = job[r].id
    BY <1>1, <2>1, <2>2 DEF StaysItself
  <2>5. Shrinks /\ (~raced' => ~raced)
    BY <1>6, OtherStepsShrink DEF Write, Remove, Commit, At
  <2> QED
    BY <1>3, <2>1, <2>3, <2>4, <2>5
<1>7. CASE Commit(r)
  <2>1. StaysItself(r) /\ (~raced' => ~raced) /\ \A q \in Requests \ {r} : job'[q] = job[q]
    BY <1>7, StepsStay, OffShrinks DEF Write, Commit, CallOff, At
  <2>2. job'[r].kind # "remove" /\ job[r].kind \in {"assign", "update"}
    BY <1>1, <1>7, <2>1 DEF StaysItself, Commit, At
  <2> DEFINE i == IF job[r].kind = "assign" THEN issued + 1 ELSE job[r].id
             x == [day |-> job[r].day, who |-> job[r].who, from |-> job[r].from, to |-> job[r].to]
  <2>3. i \in Ids /\ plan' = [plan EXCEPT ![i] = x]
    BY <1>7 DEF Commit
  <2>4. job[r].kind = "update" /\ plan[job[r].id] = NoPlace => raced'
    BY <1>7 DEF Commit
  <2>5. job[r].kind = "assign" => i = issued + 1
    OBVIOUS
  <2>6. job[r].kind = "update" => i = job[r].id
    OBVIOUS
  <2> HIDE DEF i, x
  <2>7. ASSUME NEW q \in Requests, q # r, job'[q].kind = "remove", job'[q].step = "tell", ~raced'
        PROVE plan'[job'[q].id] = NoPlace
    <3>1. job[q].kind = "remove" /\ job[q].step = "tell" /\ job'[q].id = job[q].id /\ ~raced
      BY <2>1, <2>7
    <3>2. plan[job[q].id] = NoPlace /\ job[q].id \in Ids /\ job[q].id <= issued
      BY <1>2, <3>1 DEF NewsInv, RemovedInv
    <3>3. job[q].id # i
      <4>1. CASE job[r].kind = "assign"
        <5>1. issued \in Nat /\ job[q].id \in Nat
          BY <1>2, <3>1 DEF TypeOK
        <5> QED
          BY <2>5, <3>2, <4>1, <5>1
      <4>2. CASE job[r].kind = "update"
        BY <2>4, <2>6, <2>7, <3>2, <4>2
      <4> QED
        BY <2>2, <4>1, <4>2
    <3> QED
      BY <2>3, <3>1, <3>2, <3>3 DEF TypeOK
  <2> QED
    BY <2>2, <2>7 DEF RemovedInv
<1>8. CASE Take(r) \/ (Write(r) /\ ~Commit(r) /\ ~CallOff(r) /\ ~Remove(r)) \/ Tell(r) \/ Lose(r)
  <2>1. StaysItself(r) /\ \A q \in Requests \ {r} : job'[q] = job[q]
    BY <1>8, StepsStay
  <2>2. Shrinks /\ (~raced' => ~raced)
    BY <1>8, OtherStepsShrink
  <2>3. job'[r].kind # "remove"
    <3>1. CASE Tell(r) \/ Lose(r)
      <4>1. job'[r] = NoJob
        BY <3>1 DEF Tell, TellChange, TellCalledOff, TellPublished, Lose, Done, TypeOK
      <4> QED
        BY <1>1, <4>1
    <3>2. CASE Take(r) \/ (Write(r) /\ ~Remove(r))
      <4>1. job[r].kind # "remove"
        BY <3>2 DEF Take, LockDay, LockPerson, Write, Commit, CancelMine, CallOff, PutBack, Request,
           UpdateDay, DeleteDay, Open, Publish, DeleteWeek, At
      <4> QED
        BY <1>1, <2>1, <4>1 DEF StaysItself
    <3> QED
      BY <1>8, <3>1, <3>2
  <2> QED
    BY <1>3, <2>1, <2>2, <2>3
<1> QED
  BY <1>4, <1>5, <1>6, <1>7, <1>8

LEMMA NewsStep ==
    ASSUME TypeOK, ChecksStillHold, RowsInv, NewsInv, [Next]_vars
    PROVE NewsInv'
<1>1. ASSUME NEW r \in Requests, Start(r) \/ Take(r) \/ Write(r) \/ Tell(r) \/ Lose(r)
      PROVE NewsInv'
  BY <1>1, NewsClock, NewsOff, NewsRemoved DEF NewsInv
<1>2. CASE Tick \/ (\E S \in SUBSET Days, s \in Spans : BuildWeek(S, s))
           \/ (\E w \in wishes : WithdrawRequest(w)) \/ UNCHANGED vars
  <2>1. UNCHANGED <<plan, off, job, raced>>
    BY <1>2 DEF Tick, BuildWeek, WithdrawRequest, vars
  <2>2. now \in Nat /\ now' \in Nat /\ now <= now'
    <3>1. now' = now \/ \E n \in Moments : n > now /\ now' = n
      BY <1>2 DEF Tick, BuildWeek, WithdrawRequest, vars
    <3> QED
      BY <3>1, CartConstants DEF TypeOK
  <2>3. ASSUME NEW q \in Requests, Busy(q)' PROVE job'[q].at <= now'
    <3>1. Busy(q) /\ job[q].at <= now /\ job[q] \in AJob
      BY <2>1, <2>3, BusyIsAJob DEF Busy, NewsInv, ClockInv, TypeOK, JobType
    <3>2. job[q].at \in Nat
      BY <3>1 DEF AJob
    <3> QED
      BY <2>1, <2>2, <3>1, <3>2
  <2>4. OffInv' /\ RemovedInv'
    BY <2>1 DEF NewsInv, OffInv, KnowsItsOff, RemovedInv
  <2> QED
    BY <2>3, <2>4 DEF NewsInv, ClockInv
<1> QED
  BY <1>1, <1>2 DEF Next

\* A step that tells nobody, and leaves this place alone, leaves him knowing what he knew.
LEMMA StillKnows ==
    ASSUME TypeOK, NEW i \in Ids, Knows(i), plan[i] # NoPlace, plan'[i] = plan[i],
           told[i] \subseteq told'[i] \/ Time(i, now) \subseteq told'[i], now' \in Nat, now <= now',
           \A q \in Requests : WillTell(job[q], i) => job'[q] = job[q] \/ Time(i, now) \subseteq told'[i]
    PROVE Knows(i)'
<1>1. PICK n \in Nat : n = now'
  OBVIOUS
<1>2. Time(i, n) \subseteq Time(i, now)
  BY <1>1, TimePasses DEF TypeOK
<1>3. Time(i, n)' = Time(i, n)
  BY DEF Time
<1>4. \A j : WillTell(j, i)' = WillTell(j, i)
  BY DEF WillTell
<1>5. CASE Time(i, now) \subseteq told'[i]
  BY <1>1, <1>2, <1>3, <1>5 DEF Knows
<1>6. CASE \E q \in Requests : WillTell(job[q], i) /\ job'[q] = job[q]
  <2>1. PICK q \in Requests : WillTell(job[q], i) /\ job'[q] = job[q]
    BY <1>6
  <2>2. PICK j \in AJob \cup {NoJob} : j = job[q]
    BY DEF TypeOK
  <2> QED
    BY <1>4, <2>1, <2>2 DEF Knows
<1> QED
  BY <1>5, <1>6 DEF Knows

LEMMA QuietlyKnows ==
    ASSUME TypeOK, TypeOK', ToldInv, status = "published", ~raced, NEW i \in Ids, Stands(i)',
           plan'[i] = plan[i], told'[i] = told[i], \A o \in off : o.day = plan[i].day => o \in off',
           now <= now', \A q \in Requests : Busy(q) /\ job[q].step = "tell" => job'[q] = job[q]
    PROVE Knows(i)'
<1>1. Stands(i)
  BY DEF Stands, calledOff
<1>2. Knows(i)
  BY <1>1 DEF ToldInv
<1>3. \A q \in Requests : WillTell(job[q], i) => job'[q] = job[q]
  BY DEF WillTell, Busy
<1>4. plan[i] # NoPlace /\ now' \in Nat
  BY <1>1 DEF Stands, TypeOK
<1> QED
  BY <1>2, <1>3, <1>4, StillKnows

\* The beginning of a request, its locks, and the writes that concern no place or no told one.
LEMMA ToldQuietly ==
    ASSUME TypeOK, TypeOK', ToldInv, NEW r \in Requests, status' = "published", ~raced', NEW i \in Ids, Stands(i)',
           \/ Start(r) \/ Take(r) \/ Lose(r)
           \/ Remove(r) \/ CancelMine(r) \/ CallOff(r) \/ Request(r) \/ UpdateDay(r) \/ DeleteDay(r)
           \/ Open(r) \/ DeleteWeek(r)
    PROVE Knows(i)'
<1>1. ASSUME status = "published", ~raced, plan'[i] = plan[i], told'[i] = told[i],
             \A o \in off : o.day = plan[i].day => o \in off',
             now' = now, \A q \in Requests \ {r} : job'[q] = job[q], ~Busy(r) \/ job[r].step # "tell"
      PROVE Knows(i)'
  <2>1. now <= now'
    BY <1>1 DEF TypeOK
  <2>2. \A q \in Requests : Busy(q) /\ job[q].step = "tell" => job'[q] = job[q]
    BY <1>1
  <2> QED
    BY <1>1, <2>1, <2>2, QuietlyKnows
<1>2. CASE Start(r)
  <2>1. UNCHANGED <<status, plan, off, told, raced, now>> /\ ~Busy(r)
        /\ \A q \in Requests \ {r} : job'[q] = job[q]
    BY <1>2, StartIs
  <2> QED
    BY <1>1, <2>1
<1>3. CASE CallOff(r)
  <2>1. /\ UNCHANGED <<status, plan, told, now>> /\ ~raced /\ job[r].step = "checked"
        /\ \A q \in Requests \ {r} : job'[q] = job[q] /\ off \subseteq off'
    BY <1>3, CallingOff
  <2>2. off \subseteq off'
    BY <1>3, CallingOff
  <2> QED
    BY <1>1, <2>1, <2>2
<1>4. ASSUME Take(r) \/ Lose(r) \/ Remove(r) \/ CancelMine(r) \/ Request(r) \/ UpdateDay(r)
             \/ DeleteDay(r) \/ Open(r) \/ DeleteWeek(r)
      PROVE /\ ~raced /\ now' = now /\ \A q \in Requests \ {r} : job'[q] = job[q]
  <2>1. Take(r) \/ (Write(r) /\ ~CallOff(r)) \/ Tell(r) \/ Lose(r)
    BY <1>4 DEF Write, CallOff, Remove, CancelMine, Request, UpdateDay, DeleteDay, Open, DeleteWeek, At
  <2> QED
    BY <2>1, OffShrinks, StepsStay
<1>5. CASE Take(r)
  <2>1. UNCHANGED <<status, plan, off, told>> /\ job[r].step # "tell"
    BY <1>5 DEF Take, LockDay, LockPerson, At
  <2> QED
    BY <1>1, <1>4, <1>5, <2>1
<1>6. CASE Lose(r)
  <2>1. UNCHANGED <<status, plan, off, told>> /\ raced' = (raced \/ job[r].step = "tell")
    BY <1>6 DEF Lose
  <2>2. job[r].step # "tell"
    BY <2>1
  <2> QED
    BY <1>1, <1>4, <1>6, <2>1, <2>2
<1>7. CASE Remove(r) \/ CancelMine(r)
  <2>1. UNCHANGED <<status, off>> /\ plan' = [plan EXCEPT ![job[r].id] = NoPlace] /\ job[r].step = "checked"
        /\ (told' = told \/ told' = [told EXCEPT ![job[r].id] = {}])
    BY <1>7 DEF Remove, CancelMine, At
  <2>2. plan'[i] # NoPlace
    BY DEF Stands
  <2>3. i # job[r].id
    BY <2>1, <2>2 DEF TypeOK
  <2>4. plan'[i] = plan[i] /\ told'[i] = told[i]
    BY <2>1, <2>3 DEF TypeOK
  <2> QED
    BY <1>1, <1>4, <1>7, <2>1, <2>4
<1>8. CASE Request(r) \/ UpdateDay(r)
  <2>1. UNCHANGED <<status, plan, off, told>> /\ job[r].step = "checked"
    BY <1>8 DEF Request, UpdateDay, At
  <2> QED
    BY <1>1, <1>4, <1>8, <2>1
<1>9. CASE DeleteDay(r)
  <2>1. UNCHANGED <<status, told>> /\ job[r].step = "checked" /\ DropDays({job[r].day})
    BY <1>9 DEF DeleteDay, At
  <2>2. plan'[i] = IF i \in OnDay(job[r].day) THEN NoPlace ELSE plan[i]
    BY <2>1 DEF DropDays
  <2>3. plan'[i] = plan[i] /\ plan[i].day # job[r].day
    BY <2>2 DEF Stands, OnDay
  <2>4. \A o \in off : o.day = plan[i].day => o \in off'
    BY <2>1, <2>3 DEF DropDays
  <2> QED
    BY <1>1, <1>4, <1>9, <2>1, <2>3, <2>4
<1>10. CASE Open(r) \/ DeleteWeek(r)
  BY <1>10 DEF Open, DeleteWeek
<1> QED
  BY <1>2, <1>3, <1>5, <1>6, <1>7, <1>8, <1>9, <1>10

\* Whoever is put on or moved is about to be told.
LEMMA ToldOnCommit ==
    ASSUME TypeOK, TypeOK', ToldInv, NEW r \in Requests, status' = "published", ~raced', NEW i \in Ids, Stands(i)',
           Commit(r)
    PROVE Knows(i)'
<1>1. job[r] \in AJob /\ job[r].kind \in {"assign", "update"} /\ job[r].step = "inBoth"
  BY BusyIsAJob DEF TypeOK, JobType, Commit, At, Busy, Kinds
<1>2. /\ ~raced /\ now' = now /\ \A q \in Requests \ {r} : job'[q] = job[q]
  BY OffShrinks, StepsStay DEF Write, Commit, CallOff, At
<1> DEFINE k == IF job[r].kind = "assign" THEN issued + 1 ELSE job[r].id
           x == [day |-> job[r].day, who |-> job[r].who, from |-> job[r].from, to |-> job[r].to]
           j == [job[r] EXCEPT !.step = "tell", !.id = k]
<1>3. /\ k \in Ids /\ plan' = [plan EXCEPT ![k] = x] /\ UNCHANGED <<status, off, told>>
      /\ Outdated(r) => raced'
      /\ job' = [job EXCEPT ![r] = IF job[r].seen = "published" THEN j ELSE NoJob]
  BY DEF Commit
<1>4. /\ j.step = "tell" /\ j.kind = job[r].kind /\ j.id = k /\ j.day = x.day /\ j.who = x.who
      /\ SpanOf(j) = SpanOf(x)
  BY <1>1 DEF AJob, SpanOf
<1>5. job[r].seen = "published"
  BY <1>3 DEF Outdated
<1> HIDE DEF k, x, j
<1>6. job'[r] = j /\ plan'[k] = x
  BY <1>3, <1>5 DEF TypeOK
<1>7. CASE i = k
  <2>1. /\ job'[r].step = "tell" /\ job'[r].kind \in {"assign", "update"} /\ job'[r].id = i
        /\ SpanOf(job'[r]) = SpanOf(plan'[i]) /\ job'[r].day = plan'[i].day /\ job'[r].who = plan'[i].who
    BY <1>1, <1>4, <1>6, <1>7
  <2>2. WillTell(job[r], i)'
    BY <2>1 DEF WillTell, SpanOf
  <2> QED
    BY <2>2 DEF Knows
<1>8. CASE i # k
  <2>1. plan'[i] = plan[i] /\ told'[i] = told[i] /\ status = "published" /\ off' = off /\ now <= now'
    BY <1>2, <1>3, <1>8 DEF TypeOK
  <2>2. \A q \in Requests : Busy(q) /\ job[q].step = "tell" => job'[q] = job[q]
    BY <1>1, <1>2
  <2> QED
    BY <1>2, <2>1, <2>2, QuietlyKnows
<1> QED
  BY <1>7, <1>8

\* What is put back is told to everyone who stands there, and a published week to everyone.
LEMMA ToldOnWrite ==
    ASSUME TypeOK, TypeOK', ToldInv, NewsInv, NEW r \in Requests, status' = "published", ~raced',
           NEW i \in Ids, Stands(i)', PutBack(r) \/ Publish(r)
    PROVE Knows(i)'
<1>1. job[r] \in AJob /\ job[r].kind \in {"putBack", "publish"} /\ job[r].step = "checked" /\ Busy(r)
  BY BusyIsAJob DEF TypeOK, JobType, PutBack, Publish, At, Busy, Kinds
<1>2. /\ ~raced /\ now' = now /\ \A q \in Requests \ {r} : job'[q] = job[q]
  BY OffShrinks, StepsStay DEF Write, PutBack, Publish, CallOff, At
<1>3. UNCHANGED <<plan, told>> /\ now <= now'
  BY <1>2 DEF PutBack, Publish, TypeOK
<1> DEFINE j == [job[r] EXCEPT !.step = "tell"]
<1>4. /\ j.step = "tell" /\ j.kind = job[r].kind /\ j.day = job[r].day
      /\ j.from = job[r].from /\ j.to = job[r].to
  BY <1>1 DEF AJob
<1>5. CASE Publish(r)
  <2>1. job'[r] = j /\ job[r].kind = "publish"
    BY <1>5 DEF Publish, GoTo, TypeOK, At
  <2> HIDE DEF j
  <2>2. WillTell(job[r], i)'
    BY <1>4, <2>1 DEF WillTell
  <2> QED
    BY <2>2 DEF Knows
<1>6. CASE PutBack(r)
  <2>1. status = "published" /\ off' = {o \in off : o.id # job[r].id} /\ job[r].kind = "putBack"
        /\ ThenTell(r) /\ (Outdated(r) => raced')
    BY <1>6 DEF PutBack, At
  <2>2. job[r].seen = "published"
    BY <2>1 DEF Outdated
  <2>3. job'[r] = j
    BY <2>1, <2>2 DEF ThenTell, GoTo, TypeOK
  <2> HIDE DEF j
  <2>4. CASE Stands(i)
    <3>1. Knows(i)
      BY <1>2, <2>1, <2>4 DEF ToldInv
    <3>2. \A q \in Requests : WillTell(job[q], i) => job'[q] = job[q]
      BY <1>1, <1>2 DEF WillTell
    <3> QED
      BY <1>3, <2>4, <3>1, <3>2, StillKnows DEF Stands, TypeOK
  <2>5. CASE ~Stands(i)
    <3>1. PICK o \in off : o.day = plan[i].day /\ overlaps(o, plan[i]) /\ o \notin off'
      BY <1>3, <2>5 DEF Stands, calledOff
    <3>2. o.id = job[r].id
      BY <2>1, <3>1
    <3>3. Same(o, job[r])
      BY <2>1, <3>2 DEF NewsInv, OffInv, KnowsItsOff
    <3>4. j.day = plan[i].day /\ overlaps(plan[i], j)
      BY <1>4, <3>1, <3>3 DEF Same, overlaps
    <3>5. WillTell(job[r], i)'
      BY <1>3, <1>4, <2>1, <2>3, <3>4 DEF WillTell, overlaps
    <3> QED
      BY <3>5 DEF Knows
  <2> QED
    BY <2>4, <2>5
<1> QED
  BY <1>5, <1>6

\* What the lines of a message say to someone who stands, at or after the instant it reckons with.
LEMMA LinesTell ==
    ASSUME TypeOK, NEW i \in Ids, Stands(i), NEW S \in SUBSET Ids, i \in S, NEW n \in Nat, n <= now
    PROVE Time(i, now) \subseteq Lines(S, n)[i]
<1>1. ahead(i, n) = Time(i, n) /\ Time(i, now) \subseteq Time(i, n)
  BY AheadIs, TimePasses DEF Stands, TypeOK
<1>2. Lines(S, n)[i] = IF \E k \in S : plan[k].who = plan[i].who /\ ahead(k, n) # {}
                       THEN ahead(i, n) ELSE told[i]
  BY DEF Lines
<1>3. CASE ahead(i, n) = {}
  BY <1>1, <1>3
<1>4. CASE ahead(i, n) # {}
  BY <1>1, <1>2, <1>4
<1> QED
  BY <1>3, <1>4

LEMMA ToldOnTell ==
    ASSUME TypeOK, TypeOK', NewsInv, ToldInv, NEW r \in Requests, status' = "published", ~raced',
           NEW i \in Ids, Stands(i)', Tell(r)
    PROVE Knows(i)'
<1>1. job[r] \in AJob /\ Busy(r) /\ job[r].step = "tell"
  BY BusyIsAJob DEF TypeOK, JobType, Tell, TellChange, TellCalledOff, TellPublished, At, Busy, Kinds
<1>2. /\ ~raced /\ now' = now /\ \A q \in Requests \ {r} : job'[q] = job[q]
  BY OffShrinks, StepsStay
<1>3. UNCHANGED <<status, plan, off>> /\ now \in Nat /\ now <= now'
  <2>1. UNCHANGED <<status, plan, off>>
    BY DEF Tell, TellChange, TellCalledOff, TellPublished
  <2> QED
    BY <1>2, <2>1 DEF TypeOK
<1>4. Stands(i) /\ plan[i] # NoPlace
  BY <1>3 DEF Stands, calledOff
<1>5. Knows(i)
  BY <1>2, <1>3, <1>4 DEF ToldInv
<1>6. job[r].at \in Nat /\ job[r].at <= now
  BY <1>1 DEF AJob, NewsInv, ClockInv
<1>7. ASSUME Time(i, now) \subseteq told'[i] PROVE Knows(i)'
  BY <1>2, <1>3, <1>4, <1>5, <1>7, StillKnows
<1>8. ASSUME told'[i] = told[i], WillTell(job[r], i) => Time(i, now) \subseteq told'[i] PROVE Knows(i)'
  <2>1. \A q \in Requests : WillTell(job[q], i) => job'[q] = job[q] \/ Time(i, now) \subseteq told'[i]
    BY <1>2, <1>8
  <2> QED
    BY <1>2, <1>3, <1>4, <1>5, <1>8, <2>1, StillKnows
<1>9. CASE TellPublished(r)
  <2> DEFINE S == {k \in Ids : plan[k] # NoPlace /\ plan[k].who \in People}
  <2>1. told' = Lines(S, now) /\ i \in S /\ S \in SUBSET Ids
    BY <1>4, <1>9 DEF TellPublished, Stands
  <2>2. now <= now
    BY <1>3
  <2>3. Time(i, now) \subseteq told'[i]
    BY <1>3, <1>4, <2>1, <2>2, LinesTell
  <2> QED
    BY <1>7, <2>3
<1>10. CASE TellCalledOff(r)
  <2> DEFINE hit == /\ plan[i] # NoPlace /\ plan[i].day = job[r].day /\ plan[i].who \in People
                    /\ overlaps(plan[i], job[r])
                    /\ ~HasBegun(job[r].day, plan[i].to, job[r].at)
  <2>1. /\ job[r].kind \in {"callOff", "putBack"}
        /\ told'[i] = IF ~hit THEN told[i]
                      ELSE IF job[r].kind = "callOff" THEN {}
                      ELSE Instants(job[r].day, plan[i])
    BY <1>10 DEF TellCalledOff, At
  <2>2. job[r].kind = "callOff" => \E o \in off : o.id = job[r].id
    BY <1>10 DEF TellCalledOff
  <2>3. CASE hit /\ job[r].kind = "callOff"
    <3>1. PICK o \in off : o.id = job[r].id
      BY <2>2, <2>3
    <3>2. Same(o, job[r])
      BY <1>1, <2>3, <3>1 DEF NewsInv, OffInv, KnowsItsOff
    <3>3. o.day = plan[i].day /\ overlaps(o, plan[i])
      BY <2>3, <3>2 DEF Same, overlaps
    <3> QED
      BY <1>4, <3>3 DEF Stands, calledOff
  <2>4. CASE hit /\ job[r].kind # "callOff"
    <3>1. Time(i, now) \subseteq told'[i]
      BY <2>1, <2>4 DEF Time
    <3> QED
      BY <1>7, <3>1
  <2>5. CASE ~hit
    <3>1. told'[i] = told[i]
      BY <2>1, <2>5
    <3>2. ASSUME WillTell(job[r], i) PROVE Time(i, now) \subseteq told'[i]
      <4>1. HasBegun(plan[i].day, plan[i].to, job[r].at)
        BY <1>4, <2>1, <2>5, <3>2 DEF WillTell, Stands
      <4>2. Time(i, now) = {}
        BY <1>3, <1>4, <1>6, <4>1, TimePasses
      <4> QED
        BY <4>2
    <3> QED
      BY <1>8, <3>1, <3>2
  <2> QED
    BY <2>3, <2>4, <2>5
<1>11. CASE TellChange(r)
  <2> DEFINE j == job[r]
             affected == IF j.kind = "update" THEN {j.was, SpanOf(j)} ELSE {SpanOf(j)}
             others == {k \in OnDay(j.day) : /\ plan[k].who \in People \ {j.who}
                                             /\ \E s \in affected : overlaps(plan[k], s)}
             own == {k \in OnDay(j.day) : plan[k].who = j.who /\ j.who \in People}
             over == \A s \in affected : HasBegun(j.day, s.to, j.at)
             S == IF j.kind = "remove" THEN others ELSE others \cup own
  <2>1. /\ j.kind \in {"assign", "update", "remove"}
        /\ told' = IF over THEN told
                   ELSE IF j.kind = "remove" THEN [Lines(others, j.at) EXCEPT ![j.id] = {}]
                   ELSE Lines(others \cup own, j.at)
    BY <1>11 DEF TellChange, At
  <2>2. S \in SUBSET Ids
    BY DEF OnDay
  <2>3. SpanOf(j) \in affected
    OBVIOUS
  <2>4. WillTell(j, i) => j.kind # "remove" /\ SpanOf(j) = SpanOf(plan[i]) /\ j.day = plan[i].day
                          /\ j.who = plan[i].who
    BY <2>1 DEF WillTell
  <2>5. WillTell(j, i) => i \in S
    BY <1>4, <2>4 DEF OnDay, Stands
  <2>6. CASE over
    <3>1. told'[i] = told[i]
      BY <2>1, <2>6
    <3>2. ASSUME WillTell(j, i) PROVE Time(i, now) \subseteq told'[i]
      <4>1. HasBegun(plan[i].day, plan[i].to, j.at)
        <5>1. HasBegun(j.day, SpanOf(j).to, j.at)
          BY <2>3, <2>6
        <5> QED
          BY <2>4, <3>2, <5>1 DEF SpanOf
      <4>2. Time(i, now) = {}
        BY <1>3, <1>4, <1>6, <4>1, TimePasses
      <4> QED
        BY <4>2
    <3> QED
      BY <1>8, <3>1, <3>2
  <2>7. CASE ~over
    <3>1. told'[i] = Lines(S, j.at)[i]
      <4>1. CASE j.kind = "remove"
        <5>1. plan[j.id] = NoPlace
          BY <1>1, <1>2, <4>1 DEF NewsInv, RemovedInv
        <5>2. i # j.id
          BY <1>4, <5>1
        <5>3. told' = [Lines(S, j.at) EXCEPT ![j.id] = {}]
          BY <2>1, <2>7, <4>1
        <5> HIDE DEF S
        <5>4. told'[i] = Lines(S, j.at)[i]
          BY <5>2, <5>3 DEF Lines
        <5> QED
          BY <5>4
      <4>2. CASE j.kind # "remove"
        BY <2>1, <2>7, <4>2
      <4> QED
        BY <4>1, <4>2
    <3> HIDE DEF S
    <3>2. CASE i \in S
      <4>1. Time(i, now) \subseteq told'[i]
        BY <1>4, <1>6, <2>2, <3>1, <3>2, LinesTell
      <4> QED
        BY <1>7, <4>1
    <3>3. CASE i \notin S
      <4>1. Lines(S, j.at)[i] = told[i]
        BY <3>3 DEF Lines
      <4> QED
        BY <1>8, <2>5, <3>1, <3>3, <4>1
    <3> QED
      BY <3>2, <3>3
  <2> QED
    BY <2>6, <2>7
<1> QED
  BY <1>9, <1>10, <1>11 DEF Tell

LEMMA ToldStep ==
    ASSUME TypeOK, TypeOK', NewsInv, ToldInv, [Next]_vars
    PROVE ToldInv'
<1> SUFFICES ASSUME status' = "published", ~raced', NEW i \in Ids, Stands(i)' PROVE Knows(i)'
  BY DEF ToldInv
<1>1. ASSUME NEW r \in Requests, Start(r) \/ Take(r) \/ Write(r) \/ Tell(r) \/ Lose(r)
      PROVE Knows(i)'
  BY <1>1, ToldQuietly, ToldOnCommit, ToldOnWrite, ToldOnTell DEF Write
<1>2. CASE Tick \/ (\E S \in SUBSET Days, s \in Spans : BuildWeek(S, s))
           \/ (\E w \in wishes : WithdrawRequest(w)) \/ UNCHANGED vars
  <2>1. UNCHANGED <<plan, off, told, job, raced>> /\ (status' = "published" => status = "published")
    BY <1>2 DEF Tick, BuildWeek, WithdrawRequest, vars
  <2>2. now <= now'
    <3>1. now' = now \/ \E n \in Moments : n > now /\ now' = n
      BY <1>2 DEF Tick, BuildWeek, WithdrawRequest, vars
    <3> QED
      BY <3>1, CartConstants DEF TypeOK
  <2> QED
    BY <2>1, <2>2, QuietlyKnows
<1> QED
  BY <1>1, <1>2 DEF Next

LEMMA InitNews == Init => NewsInv /\ ToldInv
<1> SUFFICES ASSUME Init PROVE NewsInv /\ ToldInv
  OBVIOUS
<1>1. \A r \in Requests : job[r].kind = "idle"
  BY DEF Init, NoJob
<1>2. NewsInv
  BY <1>1 DEF Init, NewsInv, OffInv, KnowsItsOff, ClockInv, RemovedInv, Busy
<1>3. ToldInv
  BY DEF Init, ToldInv, Stands
<1> QED
  BY <1>2, <1>3

LEMMA ToldIs == ASSUME TypeOK, ToldInv PROVE ToldOfHisTime
<1> SUFFICES ASSUME Quiet, status = "published", ~raced, NEW i \in Ids, Stands(i)
             PROVE ahead(i, now) \subseteq told[i]
  BY DEF ToldOfHisTime, Stands
<1>1. Knows(i)
  BY DEF ToldInv
<1>2. \A r \in Requests : ~WillTell(job[r], i)
  BY DEF Quiet, Busy, WillTell
<1> QED
  BY <1>1, <1>2 DEF Knows, ahead, Time

\* Whoever stands on a published plan has been told of all of his time that is ahead once the
\* requests are answered, for any number of people, places and requests - unless a write rested
\* on an outdated reading, or a message was lost or dropped as the second under its key, or part
\* of his time is called off just now.
THEOREM WhoeverStandsKnows == Spec => []ToldOfHisTime
<1>1. /\ TypeOK /\ TypeOK' /\ ChecksStillHold /\ ArchiveInv /\ NewsInv /\ ToldInv /\ [Next]_vars
      => NewsInv' /\ ToldInv'
  BY NewsStep, ToldStep DEF ArchiveInv
<1> QED
  BY <1>1, InitNews, ToldIs, TypeCorrect, LocksProtectChecks, ArchiveIsGuarded, PTL DEF Spec
=============================================================================
