# Specifications of the congregation server

TLA+ modules, TLC configurations and TLAPS proofs about the server in `src/`
(NestJS handlers over TypeORM and PostgreSQL). The server is one process that
answers requests concurrently: a handler runs without interruption only between
two `await`s, and everything it read before an `await` may be out of date after
it. Few handlers open a transaction and fewer take a lock; the rest read, decide
and write. The modules here keep exactly those steps, so that TLC meets the
interleavings that no unit test of the repository arranges.

## Inventory

| part | state it keeps | operations | what is hard about it | what makes it correct | module |
|---|---|---|---|---|---|
| **Cart weeks** (`cart-weeks`) | weeks, days, places, wishes, called-off parts | build, open, publish, delete; assign, move, take off; ask, withdraw; call off, put back | two locks in two handlers, none in the others; messages after the commit | never overfull, nobody twice, settled days stay, everyone is told | `CartRota`, `CartWeeks` |
| **Notifications** (`notifications`, `push-notifications`, `web-push`) | outbox, push tokens, browser subscriptions, receipts, switches | notify, test, the job of five minutes, register and unregister devices, receipts | a row is being sent while the job looks for rows; devices change hands under a delivery; a stop between sending and writing it down | the ledger is true, what is held waits, every row is settled, one notification a device, a device is its owner's | `Ledger`, `Outbox` |
| **Programme** (`assignments`, `assignment-reminders`) | parts of a meeting, the change flag, the notice that is due, marks of what was told | edit, remove, restore, publish, notify; the minute job; the digest | the flag is cleared apart from the send; held and quiet hours; three senders | a change of a published part is announced; nobody prepares what is not his | `Programme` |
| **Service reports** (`service-reports`) | reports, the month of pioneering with them, closures, the sheets sent | file, correct, take back; close, reopen; the nightly freeze | a report comes in while its month is closed or frozen; late reports travel to another sheet | each report on one sheet, none on no sheet, what was sent stays | `ReportMonth` |
| **Talk exchange, special events** (`talk-exchange`, `special-events`) | journal of agreed talks, programme lines, the overseer's visit | agree, change, swap, cancel, replace, undo; the visit enters, moves, leaves | three tables written one after the other, each correcting the others | journal and programme agree, a visit gives back what it took | `TalkExchange` |
| **Auxiliary pioneers** (`auxiliary-pioneers`) | applications, three places, periods | apply, change, take back, approve, pass, open; the nightly round | three people answer at once, rows saved as they were read | approved exactly when the committee has answered, and then served | `AuxApplications` |
| **Field-service meetings** (`field-service-meetings`) | meetings of a month, days taken out, the month's runs, the elders' task | prepare, fill, announce; add, change, call off, put back, remove; the nightly pass | preparing over hand edits, announcing during a change | conductors know their meetings, no slot made twice, drafts go out in time | `FieldMeetings` |
| **Sessions** (`auth`) | refresh sessions, their rotation | sign in, refresh, sign out | a lost reply, two tabs, the grace period | a client that follows the protocol is not signed out | – |
| **Duties** | duties, their frozen copy | plan, freeze, change, publish | a change after the freeze | those on duty know of it | – |
| **Publishers, users** | cards, accounts, undo of a merge | merge, undo, invite, remove | undo meets the expiry job | one card, one account; nothing lost in a merge | – |
| **Meeting moves** | the moved weeks | move, put back | other modules read the week meanwhile | everything follows the move | – |
| **Conduct mode** | the live stopwatch of a meeting | start, next, stop from any device | two devices at once | one stopwatch, no part skipped | – |
| **The rest** | tasks, attendance, absences, local needs, cleaning, memorial, reference data, exports | mostly edits of a single row, or pure reads | little interplay | – | – |

The parts talk to each other by direct calls inside one process, by shared tables,
by notifications (fire-and-forget after a commit) and through the cron jobs of
`scheduled-jobs`, which run beside the requests. The journal (`audit-log`) is
written next to each change and never read back by a handler.

`PROJECT.json` lists every part with its status, and every hazard at its line.

## Plan

Done, in this order: the stand; the outbox, and `Ledger`, which it implements; the
programme and what its people hear; report months; the talk exchange with the visit
of the circuit overseer; applications of auxiliary pioneers; the field-service month.

Next:

1. Sessions: rotation with the grace period, for a client that follows the protocol.
2. Duties with their freeze, as a second instance of what `Programme` says of flags
   and announcements.
3. Merge of cards and its undo against the expiry job.
4. Meeting moves under the modules that read the week; conduct mode.
5. Pure algorithms (the suggested plan of the stand, the turns of the field-service
   planner) against reference definitions.

Theorems: every safety property a run checks has its theorem; those of the next modules
come with them.

## How the modules are built

Every module has one pattern. A *worker* is a request in flight or a job of the
scheduler, `job[w]` is what it has read and what it has left to do, and a step of it is
what the code does between two awaits that matter. `Begin…` is the reading with its
guards, the steps after it are the writes, each with the values read before.
`Lose` ends a worker where it is: the process stops, or the next query fails in a
place where nothing catches it. Variables declared as history stand for no table:
they remember what people have heard, or that two requests met on one row, so that a
property can say exactly in which runs the code keeps its promise. Each is set only
where the overlap or the failure happens, and the text beside it says at which line. What
they except is therefore not caught by any run: it is what the code does. The hazards in
`PROJECT.json` say in a note which part of them is excepted, and by which variable; two of them
(the messages of the stand after a commit, a report filed between the reading and the
keeping of a sheet) are excepted whole and name no property.

`MC…` modules give the constants small values; `MaxUsed`, `MaxJobs`, `MaxRows` and
the like bound what an instance may do and are in no other guard. No cfg checks for
deadlock: every instance stops when its requests are used up, and that no worker waits
for ever is said by the liveness properties.

## The stand: `CartRota` and `CartWeeks`

`CartRota` says what the plan promises: rows appear, move or go; a row is never
put where a half-hour has `CapacityMax` people already, nor where its holder
already stands at that time of the date. `CartWeeks` is the program.

| model | code |
|---|---|
| `status` | `cart_weeks.status`, "none" before the first row, "gone" after `deleteWeek` |
| `planned`, `hours` | the rows of `cart_days` |
| `plan` | `cart_assignments` by id; `Guest` stands for any external name |
| `wishes`, `off` | `cart_requests`, `cart_cancellations`; `late` is `createdAt > publishedAt` |
| `told` | what the last message to the holder of each place named |
| `heard` | the keys of the outbox that are used up, by person: the week's (`cart-published:`) and those of parts put back |
| `job[r]` | a request in flight: what it was called with, what it has read, where it is |
| `now` | the congregation's clock, in half-hours |

A handler is split where the code awaits between a reading that decides and the
write that rests on it: `BeginX` is the reading with its early returns, `X` the
write. `assign` and `updateAssignment` have the steps of their transaction:
`LockDay` (`SELECT … FOR UPDATE` on the day, then the checks), `LockPerson`
(the advisory lock, then the clash query), `Commit`, then the message. A
lock is held while its holder's job is in the transaction; it ends with the
commit, the abort, or the loss of the connection (`Lose`, possible at every step).
Inserts that refer to a day and writes of the day's row wait for its lock as in
PostgreSQL. `build` is one step, since it holds the week's advisory lock
throughout and only adds days. `raced` is a history variable: it becomes TRUE
when a write rests on a reading that another request has outdated, or a message
is lost on the way. Two messages go out under a key, that of the publication and that of a
part put back, and `notify` drops the second one under a key: `TellPublished` and
`TellCalledOff` do the same, and a message dropped although it says something new counts as
lost. (A week is published once unless two requests publish it or it is opened again; a place
given in between is named by the second message only.) The promises about messages are
stated for the runs in which none of this happened, and the hazards list where it can.

Not in the model: the suggested plan (a pure proposal), partners named in a
wish, the managers' own messages, the wording of messages.

### Runs

| run | instance | what it shows |
|---|---|---|
| `cart_plan` | two people and a guest, two stands on one date, capacity 1; three requests at once, of those that change the plan or publish or delete the week; a clock before and after the day locks (211 thousand states under symmetry of people and requests) | `RotaSpec` (the refinement of `CartRota`, hence never overfull and nobody in two places), `ArchiveFixed`, `PlanKept`, `ToldOfHisTime` |
| `cart_week` | one person, two days, every handler, any two at once | `TypeOK`, `RequestsFinish` (liveness) |

The bounds: with capacity 1 two requests already fill a half-hour, and the third
meets the other two in every order. Two days on one date are what the person's
lock is for. Two spans that overlap without being equal (of three half-hours)
tell apart "same time", "overlapping" and, with the calling-off, "partly". Two
instants of the clock put every request on either side of a boundary. Symmetry is
used in `cart_plan` only, which has no liveness property.

Fairness. A request in flight goes on (the event loop is fair), and PostgreSQL
grants a lock in the order it was asked for, hence strong fairness of the steps
that wait for a lock. Nothing obliges anybody to begin a request, the clock to move
or a connection to break.

Known differences without a run, stated at the end of the module: `StandsWithinHours`
(`updateDay` takes no lock, so a place may be put outside the hours it is giving the
day) and `NobodyComesInVain` (a time ahead moved to one already past is told to nobody).
Others are in the hazards: `openWeek` saves the week row whole, a double tap makes two
wishes, a wish begun before the publication and written after it is late and unannounced.

### Proofs

`CartWeeksProofs` begins with the abstract plan and `RotaIsSafe`: whatever implements `CartRota` never
overfills a half-hour and never has a person twice. `PutOn` is the only step that
adds; the half-hours it covers had fewer than `CapacityMax` people besides
the row itself, and the other half-hours do not gain anybody.

Then it proves of the program, for any people, days, hours, capacity and number of
requests in flight, under `RotaConstants` and `CartConstants`:

* `TypeCorrect`: `Spec => []TypeOK`;
* `LocksProtectChecks`: `Spec => []ChecksStillHold`, which is the inductive
  invariant: the day lock and the person lock each have one holder, and what
  a transaction found out about capacity and clashes under its locks remains
  true until it commits, because every other writer of the plan either needs the
  same lock or only takes places away;
* `ImplementsRota`: `Spec => RotaSpec`, since with that invariant each `Commit` is
  a `PutOn`, and every other step takes places off or leaves the plan alone;
* `StandIsNeverOverfull` and `NobodyStandsTwice` follow.

The two promises about what has been settled:

* `NothingLeavesQuietly`: `Spec => PlanKept`. The deletions of a day and a week look
  whether anybody is on them and delete some steps later; `EmptyInv` says that what they
  are about to delete is still empty, or `raced` records that somebody wrote there meanwhile;
* `SettledDaysStay`: `Spec => ArchiveFixed`. A day locks for good, but a request that
  looked at the clock before is still under way. `RowsInv` says that each request that may
  still write looked in time, and knows the day of its row although the row may be deleted
  and inserted again under it: ids are given out once, and two requests on one row
  agree on its day. So no step writes to a locked day unless its request is one of those
  that `ArchiveFixed` waits for.

And the promise about messages, `WhoeverStandsKnows`: `Spec => []ToldOfHisTime`. As long as
requests are under way nobody need have been told yet, so the invariant `ToldInv` says that
whoever stands ahead, his time not called off, has heard all of it, or there is a
request at its messages that is going to tell him (`WillTell`). For a step to keep that, the
request has to know what it will tell about, which is `NewsInv`: a calling-off is written under
an id of its own and its request and the one that puts back know its hours (`OffInv`); the
time a request read is not ahead of the clock (`ClockInv`); a place taken off is
off (`RemovedInv`). What overlapping requests spoil is in `raced`, set at the step that spoils it,
and so is a message dropped under a used key that would have said something new; of `heard` the proof
needs nothing else.

The attempt at this proof corrected the model: callings-off used to be numbered by what was free
in a small set, so that an id came back as soon as its calling-off was put back, and with five
requests TLC found the put-back telling the wrong people. The database gives an id once;
`CallOff` now takes the first id that no calling-off and no request in flight has (`UnusedId`).

The invariants were checked by TLC before they were proved, `ToldInv` and `NewsInv` also with
five requests (2 million states). Only model-checked is `RequestsFinish`, as liveness
under fairness is out of the prover's reach. No data is recursive here, so nothing needs
induction over data.

## The notifications: `Outbox`

Every part of the server that has something to say calls `notify`. It writes a row
per person into the outbox and, in the waking hours, delivers it before it writes
the next; outside them the row waits, and `deliverDue`, called by the job of every
five minutes, sends what is due. A delivery reads the person's devices, goes down
the ladder of `sendToUsers` rung by rung, and then writes the outcome.

| model | code |
|---|---|
| `row` | `notification_outbox` of one congregation, in the order of `createdAt`; "gone" after `cleanupOld` |
| `muted` | `notification_preferences`, for one category |
| `tokens`, `subs` | `push_tokens` by person and phone; `web_push_subscriptions` by endpoint, `born` standing for the row's id |
| `receipts` | pending `push_receipts`, with the answer Expo is going to give |
| `deleting` | phones whose receipts `checkReceipts` has saved and whose tokens it is about to delete |
| `task[c]` | what a call of `notify`, or a pass of `deliverDue`, has left to do: people and the hour and switches it read, or rows |
| `sending[c]` | the delivery it is in: the devices it read, what it tried, what took the message |
| `registering` | calls of `registerToken` between their delete and their save |
| `works` | external: the devices that still have the app or the page |
| `now` | the congregation's clock; `Night` are the moments outside the waking hours |
| `roads`, `again`, `woken`, `holder`, `crossed`, `overlooked`, and `raised` of a row | history, for the properties alone |

The steps follow the `await`s: `NotifyBegin` (the hour and the switches, once), then per
person `NotifySkip` or `NotifyInsert`; a delivery is `Read`, `SendPhones`,
`SendHandheld`, `SendComputers`, `mailUndelivered`, `Record`, each only when its
condition holds. `SendWeb`, the step of both rungs of browsers, has what
`sendToSubscription` does to the table: a dead subscription is deleted by its row id,
and any other is saved *whole*, with the user it was read with, so a browser
that changed hands in between goes back, and one that was removed is inserted
again; if its endpoint has a new row by then the unique index refuses and the
delivery fails. The browsers of one rung are pushed in one step
(`Promise.all` in the code). `registerSubscription` is one step too, as two requests
for one endpoint at the same moment come from one browser. `sendTest` is the same
delivery, to the one device that asked; `DeliveryFails` is the exception that
`deliver` catches and writes down; `Lose` is a stop of the server or a failure to
write even that; `registerTokenLost` is a stop between the delete and the save of a
registration. A lost call leaves the tables as they are and forgets the rest.

`computeNotBefore` holds a message until the first waking moment, unless it is urgent: the stand
sends a change of a time that is near as urgent, and then it goes out at night. A row
remembers in `raised` when its call asked for the hour, 0 if it asked for none (urgent, or
a test). `checkReceipts` saves the answers first; `deleteTokens` takes the dead phones' tokens
after it, and `deleteTokensLost` is the stop or the refusal between the two: no receipt of such a
phone waits any longer, so nothing asks for it again until another message is sent there
(`overlooked`).

Not in the model: the wording and its language, a server without VAPID keys, the push of a status change (which has no row), insert errors
other than the dedupe key, the pruning of receipts after a week.

### The ledger

`Ledger` is what the outbox promises whoever opens it afterwards: a line is for one
person, waits, is settled and is forgotten; it never waits again, is never written
again, and a line that says "told" names a road that took the message. `Outbox`
implements it with `AsLine` as the mapping: the status of a row is read as the state
of its line (`failed` and `skipped` both as "untold"), its channel as the road, and the
history `roads` as `heard`. A line may be settled twice, as a second delivery of one
row may come to another end; that the first road was a true one stays true.

### Runs

| run | instance | what it shows |
|---|---|---|
| `outbox_rows` | two messages, by `notify` with a key, urgent or not, or by the test button, to one person with one browser or none; two carriers; day, night, day; one loss anywhere (344 thousand states) | `TypeOK`, `KeepsLedger` (the refinement), `HeldTillMorning`, `EveryRowSettles` (liveness) |
| `outbox_devices` | one delivery to a phone, an Android browser, an iPhone and a computer, with three edits of the tables by two people, uninstalling and receipts, and a loss between a receipt and its token (622 thousand states) | `StepsDown`, `OnePersonAPhone`, `BrowserIsTheLastUsers`, `DeadPhonesGo` (liveness) |

The bounds: one carrier delivers while the other starts a pass, which is all an overlap
needs; `Batch` is 1, so a pass leaves rows behind; `Keep` is shorter than the clock
runs, so a key is freed within the run. Three edits allow a sign-up by another
person, a sign-off and a new sign-up under one delivery, or two registrations of one
phone that run into each other and a third that heals. One browser of each kind
and one phone are all the rules of the ladder tell apart.

`OnePersonAPhone` and `BrowserIsTheLastUsers` exclude the devices in `crossed`: a phone
whose registrations ran into each other, a browser that changed hands while a
delivery held its row. For those the code does not keep the promise, and the
properties say both that nothing else breaks it and that the next registration
by itself mends it.

`HeldTillMorning` is about rows that were held: raised at night and not as urgent, nobody hears
of them before a waking moment. `DeadPhonesGo` says that a phone with a bad receipt loses its
token or was overlooked.

Fairness. The event loop goes on (`Carry`, `registerTokenSave`, `deleteTokens`), the jobs of five and
of thirty minutes run (`DeliverDue`, `checkReceipts`), the clock moves, and Expo answers
in the end about every ticket. Nobody is obliged to call `notify`, to touch a device
or to fail, and the night ends: `OutboxConstants` asks that the last moment is
a waking one.

Known differences without a run, stated at the end of the module: `SaidOnce` (a pass of
`deliverDue` takes a row that `notify` is still delivering, and the person hears it
twice) and `NothingAtNight` (`notify` asks the hour once for all its people, and a long
list reaches into the evening).

### Proofs

`OutboxProofs` proves, under `OutboxConstants` and for any people, devices, calls and
number of carriers:

* `OutboxTypeCorrect`: `Spec => []TypeOK`;
* `LedgerIsTrue`: `Spec => []SentMeansTaken`. It is not inductive by itself: what
  `Record` writes comes from `took` and `letter` of a delivery in flight, so
  `LedgerInv` adds that these are backed by `roads` of its row. Since `roads` only
  grows, a second delivery of the row, a failure or a stop cannot undo it;
* `PhoneIsOnePersons`: `Spec => []OnePersonAPhone`, with `PhonesInv`, which counts
  the registrations still to be saved among the phone's rows;
* `BrowserIsItsLastUsers`: `Spec => []BrowserIsTheLastUsers`. A delivery writes back a
  row it read earlier, so `BrowsersInv` says that for a browser outside `crossed`
  whatever any delivery holds of it is still the row of the table and its person
  still the owner; `RowsWritten` and `RowsStay` say that a row being delivered, or in
  the list of a pass, is written, and that its person and its hour do not change.

Its second part proves `OutboxKeepsLedger`: `Spec => KeepsLedger`. Each step moves
each row by one of four moves (`RowsMove`) and only adds roads (`RoadsGrow`); with
`SentMeansTaken` after the step and `RowsWritten` before it these are exactly `Raise`,
`Carry`, `Settle` and `Forget`. `LedgerStaysTrue` is about the ledger's moves alone: what a
line says of its road is settled together with what was heard, which only grows.

Its third part proves what one delivery does, from the lemma `StepMoves`, which
says of every step how it changes any delivery:

* `DeliveriesStepDown`: `Spec => []StepsDown`. `LadderInv` says that a delivery on a rung
  has tried all devices of the rungs above it that it had to;
* `NightIsKept`: `Spec => []HeldTillMorning`. `HeldInv` says that each row some carrier is
  delivering, or still has in its list, was due when it came there, and the clock only
  goes on; rows that are not yet written have been heard by nobody. `RaisedInv` says that what a
  call was given to wait for answers the moment it asked at, and that its rows keep both: a row
  that was not urgent was raised in a waking moment or waits for one.

Only model-checked: the two liveness properties.

## The programme and what its people hear: `Programme`

The coordinator edits the parts of a published meeting; each change sets a flag on its
row, and three senders act on the flags and on the marks of what was told: the
button, the job of every minute once things have settled, and the evening's digest.

| model | code |
|---|---|
| `part` | `assignments` of one meeting: holder, status, removal, `changedSincePublish`, `updatedAt` as `edited` |
| `marks` | `assignment_notices`: what each person was told he has |
| `hold` | `programme_notices.holdUntil` |
| `said` | dedupe keys of the digest in the outbox, by evening and person |
| `job[w]` | a request or the minute job: what it read, what it has left to say |
| `digest`, `swept` | the evening job: the plan it made, whom it has still to tell; the evening it has been through |
| `knows` | history: the parts each brother believes are his |
| `unsaid`, `misled`, `silenced` | history: a change covered by an UPDATE that had not read it; a person told from a reading out of date; a message the digest's key swallowed |

An edit is `BeginUpdate`, `SaveUpdate` (the whole row), then `ReadRule` and `SaveRule`
when the chairman's row decides the prayer; removal is `MarkRemoved`, `DeletePart`;
restoring is `RestorePart` and then, as a write of its own, `FlagRestored`; publishing is
`PublishDrafts` and `ClearFlags`. An announcement is `Tell`, `MarkTold`, `ReadStale`,
`TellRemoved`, `EndAnnounce`; `AnnounceFails` flags its rows again as the code's catch
does. `RunDue`, `PutAway` are the minute job, `SendDigests`, `SayDigest`,
`DigestFails` the evening's. What is told goes to the outbox, whose delivery is the
subject of `Outbox`; here a message handed over is known.

| run | instance | what it shows |
|---|---|---|
| `programme` | two brothers, the chairman and the prayer, five moments from the afternoon before to the day after; two requests or failures one after the other, beside the minute job and the digest (620 thousand states) | `TypeOK`, `ToldUnlessFlagged`, `BelieversAreMarked`, `KnowsOnTheDay`, `FlagsSettle` (liveness) |
| `programme_digest` | the same with one request | `NobodyPreparesAnothersPart` fails |

The bounds: one request at a time, because the three senders already meet it and each
other; two requests or failures are an edit and what undoes or hits it. Five moments are
one on each side of every boundary the code asks about: the evening, three hours before,
the start, the day after.

Fairness. Requests and the minute job go on, the evening's digest is sent, the clock
moves. `Tick` waits for a pass of the minute job that is due, and for one whole digest
in an evening, since between two moments of the model the job runs many times.

Finding (`programme_digest`): the digest runs on every tick of the evening and hands its
message to `notify` under a key of evening and person; a part taken away between two
ticks is dropped from the marks although the key swallowed the message, and then no sender
has anything to go by. Also seen while modelling, without a run: the UPDATE that clears
flags stamps `updated_at`, which is what "unchanged since" is read from; a pass of
the minute job and the button, in the same minute, say it twice.

Not in the model: assistants (a second holder with the same rules), creating, importing,
moving and swapping rows, who may correct a frozen record, the link of the Treasures talk, the
other lists in the digest (duties, field service, cleaning, the stand), wording.

### Proofs

`ProgrammeProofs` proves the type invariant (`ProgrammeTypeCorrect`) and the three safety
properties, for any brothers, parts, moments, requests and ladder of evenings, under
`ProgrammeConstants` and, where the last evening matters, `LadderEnds` (some moment lies
in the latest evening of recall; without one there is nobody to promise anything to).

* `NewsAreToldOrFlagged`: `Spec => []ToldUnlessFlagged`. What is in nobody's ears and under
  no flag is in a worker's hands, so the invariant is about what workers hold (`JobsSound`):
  an edit saves a published row without a flag only over one that was published without
  a flag for the same holder; a quiet publication has no news; and the news of an
  announcement are of the rows it would flag again when it fails.
* `BelieversCanBeReached`: `Spec => []BelieversAreMarked`, from `KnownIsMarked`, which is the
  same about whoever believes he has a part, his or not: a mark that may go because
  the part is his at the time would be missing when it is taken away.
* `TheLadderTellsEverybody`: `Spec => []KnowsOnTheDay`. For a part untouched since before the last
  evening the invariant follows that evening's pass: it was read with the holder in
  it (`HeldWasRead`), whoever it is through with has that evening's key (`SaidAfterwards`), and
  whoever has the key and was not misled knows (`SaidIsKnown`); `EveningRead` ties passes
  and keys to evenings that have come.

The attempt corrected `BelieversAreMarked`, which the run had not contradicted. A digest reads the
marks, then tells its people one after the other; it writes marks only for what was not
marked when it read. So where a mark has been taken back in between, the brother is told of
his part and nobody remembers that he was. Such a pair is told from a reading that is out of
date and now counts among them (`outdated` in `SayDigest`, hence `misled`).

Only model-checked: `FlagsSettle` (liveness).

## Report months: `ReportMonth`

| model | code |
|---|---|
| `report[k]` | `service_reports` by publisher and month: absent, in, withdrawn; its form (shared, did not, hours) |
| `spells[k]` | the month of auxiliary pioneering filed with it, by the request that wrote it |
| `closed[m]` | `report_month_closures` |
| `sheet[m]` | the month's row of `report_snapshots`: frozen by the app or confirmed by a person; whose reports of the month it counts (`own`), whose were in on time, counted or not (`filed`), the late ones it took along (`carried`), the rows there were when it was first kept (`inBy`, for `createdAt <= keptAt`) |
| `today` | for each month: over; the 20th after it; from the 21st, when it is frozen |
| `absorbed`, `passedBy`, `cutShort`, `stranded` | history: counted late and then in their own month; came in while a sheet was read; a closing cut off, come second, or reopened under its hand; a month of pioneering whose undoing failed |
| `stale`, `overtaken` | history: workers about to keep a sheet whose reading of the other sheets another keeping has outdated; the months so kept |

`submitOwnReport` is `BeginSubmit` or `BeginSubmitAux`, `WriteSpell`, `InsertReport` or
`InsertFails` with `undoAuxSpell`; corrections, withdrawal and putting back are a reading
and `WriteReport` of the whole row. Closing is `BeginClose`, `closeMonth`, `FindSheet`,
`ReadReports`, `SaveSheet`; the nightly freeze has the last three. `placeLate` is
translated as it stands: the sheet a late report goes to, by what is kept.

| run | instance | what it shows |
|---|---|---|
| `reports` | two publishers, two months; a request of any kind beside one that closes, and the nightly freeze; three requests or failures | `TypeOK`, `CountedOnceUnlessAbsorbed`, `NoneIsPassedBy`, `ClosedIsSent`, `NoHalfState`, `AppNeverOverwrites`, `LateReportsGo` (liveness) |
| `reports_twice` | one request at a time | `CountedOnce` fails |

The bounds: a late report needs a month and the next; `Reach` is 1 in `reports`, so that two
months already have one a sheet does not look for, and 12 in `reports_twice`; one publisher who has reported
both months and one who has none tell apart what is late from what is on time. A
closing, a second request and the freeze are all that keep or change one sheet at once.

Fairness. Requests go on, the nightly round runs, days pass; `Tick` waits for a freeze
that is due, as there are thirty nights in a month.

Finding (`reports_twice`): confirming a sheet the app froze sets the frozen one aside and
counts every report in by now, also one a later sheet has carried. Known without a run,
stated at the end of the module: `EveryReportHasASheet` (keeping a sheet reads and then
inserts without a lock, so a report that comes between is neither counted nor, later,
late) and `HoursKeepTheirMonth` (a double tap: the request that fails takes back the month
of pioneering the other one needs). A correction resurrects a report withdrawn meanwhile,
as it saves the whole row.

A sheet looks for late reports in the twelve months before its own (`Reach`, `LooksFor`), while
`placeLate` sends a late report to the first month without a sheet. So a report filed when the
sheets of its month and of the twelve after it are kept goes into no sheet, and where there is no
gap among them it is said to wait for a month that will never look for it, although
`late-carry.ts` has every late report counted in exactly one sheet. There is no run of it;
`NoneIsPassedBy` names the case (`OutOfReach`), which is in reach of `reports` because a sheet
looks one month back there, and without the exception the run fails.

Not in the model: figures and statistics, special pioneers and missionaries, permanent
appointments, people who come or leave, group overseers, record cards.

### Proofs

`ReportMonthProofs` proves, under `ReportConstants` and for any publishers, months and
requests at once, the type invariant (`ReportsTypeCorrect`) and every safety property of the run.

* `NoHalfStateLasts`: `Spec => []NoHalfState`. A month of pioneering has one writer, since
  `WriteSpell` refuses a month that is taken (`OneWriter`); as long as its report is missing its
  writer is still at the insert or the undoing of it (`WriterHolds`); and no write
  makes a report unheard of again (`WritesKnown`).
* `AppOverwritesNothing`: `Spec => AppNeverOverwrites`, from `KeepInv`: only the nightly round keeps
  for the app, and at each of its three steps it has seen what makes the last one harmless –
  it stops at a frozen sheet, and its save inserts only where no sheet is.
* `ClosedMonthsAreSent`: `Spec => []ClosedIsSent`, which is inductive with what a request at the
  closure has read.
* `ReportsCountOnce`: `Spec => []CountedOnceUnlessAbsorbed`. `ReadInv` says what a worker at
  the save has read, and that it is still what the sheets say unless it is in `stale`
  (`FreshReads`); rows only come, never go (`SheetsSound`, `ReadsSound`). `CarriedOnce` then says
  that a sheet carries only reports of earlier kept months, that these are still late by their own
  month's sheet unless absorbed or overtaken, and that no two sheets carry one report.
* `NobodyIsPassedBy`: `Spec => []NoneIsPassedBy`. For a report outside `passedBy`, `PassedInv` says
  that its month's own sheet names it if it was there (`NamedIfThere`), that it is carried only by
  the first sheet that could know it (`CarriedInTurn`), and that a later sheet that knew
  late and looks so far back has it carried somewhere, or a gap comes before (`TakenInTime`), so
  that `placeLate` still finds a month that looks for it, unless all of these are kept without it.

Looking for these invariants showed that three properties held on the instance and not beyond
it, which TLC confirmed on larger ones; the code behaves so, and the properties now say it.
With three months, a confirmation of a frozen month that reads, while a later month's sheet is
kept before it saves, counts a report the later sheet has just carried; with five
requests two closings of one frozen month, a freeze of the next between them, pass a report
by: both are sheets kept from a reading another keeping outdated, hence `overtaken`. With
three requests at once, one closing has read the month as closed, another is on its way to the
sheet, and a reopening between them makes the second stop at the sheet and the first close
the month without keeping one, hence the last clause of `cutShort`. The saves are made without a
lock, and nothing in the code repairs these afterwards.

Only model-checked: `LateReportsGo` (liveness).

## Who speaks at a weekend: `TalkExchange`

| model | code |
|---|---|
| `db.entry` | `talk_exchange`, the coordinator's journal: week, speaker, held, cancelled with the meeting, entered by hand or by the app, set aside by a visit, of the visit |
| `db.line` | the public talk's row in `assignments`: on, cancelled, removed; its speaker and its `talkExchangeId` |
| `db.visit` | one visit of the circuit overseer in `special_events`, with what its template remembers |
| `db.bin` | order of removal (`deletedAt`): the removed entries numbered up to `MaxEntries`, the latest the highest |
| `over` | weeks that have passed |
| `job[r]` | the calls a request has still to make, and what it remembers for putting things back |
| `past`, `found` | history: out-of-the-ordinary things that were done; the week as a visit found it |

A request is the list of calls its handler makes; one call (one method, transaction or
save of a row read before) is a step, so the calls of two requests mix. There are
nineteen kinds of request: in the journal a talk entered, changed, shifted, missed,
removed, a guest set aside given another week, swapped, replaced and the replacement
undone; in the programme a line entered, edited, cancelled, removed and put back; a
visit added, saved, moved, removed and put back. `PutBack` is what a failed replacement
or undoing does in its catch, `Lose` a request cut off, `Tick` a week passing.
`mismatch` is the morning check (`talk-consistency.service.ts`) and is what the
properties are stated with.

| run | instance | what it shows |
|---|---|---|
| `talks` | two weekends, two guests and the overseer, six journal rows; from two weekends agreed on, or a visit in the first; three requests or failures, a change of speaker beside any (600 thousand states) | `TypeOK`, `OneGuestAWeek`, `MismatchHasCause`, `RoundTrip`, `GuestComesBack`, `ReplacementWhole` |
| `talks_line` | one request at a time | `LineShowsTheJournal` fails |

The bounds: two weeks are what moves and swaps need; three requests are something out of
the ordinary, a request that meets it and one that follows. Six rows leave four free for new
ones in either start, and the calls that may write one ask for a free one (`Room`).

No fairness is assumed and nothing is claimed of liveness: each request here is a straight
line, and nothing in this part is retried.

`OneGuestAWeek` holds however requests overlap. The agreement of the tables is
stated for requests that do not, because two handlers that each write three tables
without a transaction plainly leave them apart, and the morning check is there to say
so; `MismatchHasCause` then says, as long as no removed line is brought back, which
difference can come from what:

| the morning check reports | only after |
|---|---|
| the journal still counts on a cancelled weekend | a weekend cancelled (a replacement on it undone) |
| the overseer without a visit | a request of another kind made while the visit stood |
| a line without an entry | a weekend cancelled (and a visit there) |
| an empty line | a weekend cancelled, a line emptied by hand, a replacement that failed where nobody was entered, or a request of another kind made while the visit stood |
| another speaker | a weekend cancelled |

Finding (`talks_line`): a removed line, brought back, names whoever it named before, although
the journal has given the week to another meanwhile. It can be the start of any of the five
differences - the overseer's line removed beside his visit comes back when the visit is gone -
so a state after such a request is outside `MismatchHasCause`, and outside `GuestComesBack`,
because the line's own entry comes back with it, and with the mark of being set aside.

`RoundTrip` compares weeks that were `InOrder` when the visit came: the weekend is not
cancelled, journal and line agree, the entry counts and is a guest's, one the application wrote
has its line, and nobody is still set aside for the week by an earlier visit. Elsewhere the
visit's going brings the journal after the line, which is more than giving back what it found: a
guest whom the week had lost before is entered again; an entry once marked as cancelled is marked
no longer; and an entry of the application's, moved by the coordinator to a week without a
programme, is gone with a visit there, since the line its removal reads has nobody to speak
(`talk-exchange.service.ts:2700`).

How far the causes reach was settled by searching deeper than `talks` does: one request at
a time, none cut off, and any five of the nineteen kinds or of the failures of a replacement,
two weekends and two guests; and then by long random runs, a dozen requests each, with
cancellations, with visits that others work beside, and with neither. The conditions of
`MismatchHasCause` that speak of cancelled weekends and of lines brought back, and what `InOrder`
asks, come from what was found there: an entry that is given a cancelled week and leaves it again,
for one, leaves more behind than three requests show.

Not in the model: trips of our own speakers, the opening song, the change flag (see
`Programme`), corrections after the fact, messages, the cards of the directory and spelling
of names, the midweek template, rebuilding from the programme, import, a second
visit.

### Proofs

`TalkExchangeProofs` proves, for any weeks, guests, rows and requests at once, under
`TalkConstants` (the one value for a week not recorded is no person) and `TalkSetups` (an instance
starts with at most one entry a week, with journal and programme saying the same, the
overseer entered only for his visit's week, and a guest set aside only for that visit):

* `TalkTypeCorrect` and `OneGuestEachWeek`: `Spec => []OneGuestAWeek`. Each call is shown to take a
  database with its types and one live entry a week to another (`Leads`), one lemma for
  each method of the services, and a request is nothing but its calls; so the overlap
  of requests needs no invariant of its own. The lemmas about writing a row, removing one
  and bringing one back (`PutGood`, `DeletedGood`, `BackGood`) serve all of them;
* `ReplacementsAreWhole`: `Spec => ReplacementWhole`. `WholeInv` says that while requests come one
  at a time only one is busy (`Alone`), and that what a replacement or its undoing remembers
  covers all entries that can stand in its week by now (`BacksKept`), for then putting these
  back puts back the week;
* `GuestsComeBack`: `Spec => GuestComesBack`. `GuestInv` says, while requests come one at a time and
  no line is brought back from removal, that who is set aside is removed and was to come
  (`AsideSound`), and what the calls a request has left must carry for that to stay so
  (`KeptList`): a row they write is not of somebody set aside, entries that change their
  weeks are not, and of the three calls that take a visit away the last one comes when the
  guest is back, or nobody was set aside, or the line names nobody (`Returned`). Each operator
  of the model has its lemma about `AsideSound`, each kind of request one about the list it
  begins with.

Its last theorem is `VisitsLeaveNoTrace`: `Spec => []RoundTrip`. `RoundInv` tells, for every week
that a visit found in order, what became of the man and of the entry it found, in four stages:
as it was, the line handed to the overseer, the overseer entered and the guest set aside, and the
line given back while the journal still waits (`AsItWas`, `Handed`, `Hosted`, `Left`). For each list
of calls a request of a visit can have left it names the stage its weeks are in (`Round`): the one it
comes to, the one it leaves, both when it moves, and all the others stay as they rest (`Others`).
Each call has its lemma, which takes the stage it finds to the stage the rest of the list asks
for; a request of another kind forgets what was found, and needs only that the visit remembers
nobody when it does not stand (`VisitSound`).

`GuestComesBack` was stated too strongly at first: a week whose line had been removed, or
emptied, beside the visit comes back without its guest, as the code says it should; the property is
now about lines that name somebody. The order of removal used to be a clock, which no bound kept
in its type; as ranks it is what the code reads of `deletedAt`, the latest of some entries.

`TalkAgreementProofs` proves `MismatchAlwaysHasCause`: `Spec => []MismatchHasCause`, the agreement of
three tables at the end of a request. Its invariant is about what comes between. A week ahead is
`Tied` when a line that names somebody is linked to his entry in the week, and `Filled` when a line
that names nobody has no entry beside it; between requests all
weeks are tied, and while nothing out of the ordinary was done they are filled too (`TieRests`). While a request is
under way, its list of calls tells which weeks are apart, what is still known of these,
and which of the calls left will bring them together (`TieRound`); and a replacement remembers
what puts its week back as it was (`TieBack`). That is `TieInv`, which holds until a weekend is
cancelled, a removed line brought back or two requests overlap. It needs to know of the overseer
that he is named and entered only where his visit has brought him (`HimInv`), and rests on the
invariants of the earlier theorems: one busy request, the guest set aside, the weeks a visit
found. For each of the nineteen kinds one lemma says that the list it begins with is such a
list, and for each call one that what it leaves is right for the rest of the list. What each call
does to a tied week is split between the end of
`TalkExchangeProofs` and the beginning of `TalkAgreementProofs`.

Every property of the run is proved; nothing here is a liveness property.

## Applications of auxiliary pioneers: `AuxApplications`

| model | code |
|---|---|
| `app[a]` | `aux_pioneer_applications`: pending, approved, erased; months, until cancelled, on paper, when |
| `seat[a][s]` | `aux_pioneer_application_seats`, its three places: who answered, whether and why the place is open and who opened it, whether reminded |
| `periods` | `auxiliary_pioneers` of the applicant; open-ended ones end at `Months + 1` |
| `closed`, `holds`, `elders`, `away` | months closed; who holds a committee's seat; who may fill an open one; who is away |
| `job[w]`, `round` | requests in flight; what the nightly round has read and has left to do |
| `revived`, `short`, `wiped`, `dropped`, `leftOut`, `unmade`, `freed` | history: an application written again after it was erased; approved with places still being filed; an answer written over; settling cut off; months left out of the periods; months whose period could not be made; months taken away by hand |

A handler's reads are one moment, each save a step: TypeORM writes the whole row as it
was read, inserts an application or a place that is gone, and is refused a place whose application is
gone. `settleIfDone` is the last step of every answer and opening: it makes the periods,
each check and insert a step, and then approves. Each run of months is made in a `try` of its
own: a period that is refused (he is a permanent pioneer by now) or not saved is logged, and
the approval goes on without it. `RunFails` is that, and `unmade` remembers the months.

| run | instance | what it shows |
|---|---|---|
| `aux` | three seats, an elder and a publisher besides; two months, three moments; from nothing, freshly filed, two answers given, and the overseer's own application; a request of any kind beside an answer, and the nightly round; two requests, failures (a stop, or a period not made), hand-overs or closings (525 thousand states) | `TypeOK`, `ApprovedByTheCommittee`, `ServedAsApproved`, `AnsweredIsSettled` (liveness) |

The bounds: the starts put an application on either side of every stage, so that two
requests reach what would take five from nothing. The elder is the one substitute an open
place needs, the overseer's own application the one case in which a seat's holder may
not answer. Moments are days apart by the time a place waits.

Fairness. Requests and the nightly round go on; the calendar and new requests need not.
The calendar moves only between requests, as none takes a day.

Known differences without a run, stated at the end of the module: `TakenBackStaysGone`
(an answer or change saved after the erasing writes the application again),
`FirstAnswerStands` (a place saved as it was read undoes an answer given meanwhile),
`OnePeriodAMonth` (check, then insert), `OnlyCoveredLeftOut` (a run of months that meets one
period is skipped whole; and a run that failed for whatever reason is skipped, where the comment
says "that run is already served"), `TwoAreEnough` (when the last possible substitute goes, nobody
asks again whether two answers suffice).

Not in the model: hours and norms, messages, the journal, permanent pioneering but for the refusal of
a period, baptism, signers without account. A place can lose its holder (`HandOver`) but
nobody is given one, so what `ApprovedByTheCommittee` says of the present holders is
said of those there were from the start: an application approved while nobody held a place would,
once somebody is given it, have that place without an answer and not open.

### Proofs

`AuxApplicationsProofs` proves the type invariant (`AuxTypeCorrect`) and both safety properties,
for any seats (two or more), applications, months, users and requests, under `AuxConstants` and
`AuxSetups` (an instance starts with nothing or one application filed in the app, answered by
different people, none of them the applicant).

* `WhatIsApprovedIsServed`: `Spec => []ServedAsApproved`. While the periods are being made, each month
  asked for is served, was left out or taken away, could not be made, or stands in a run still to be made
  (`MonthsAccounted`), and such months stay so whatever others do; nothing is approved before no
  run is left.
* `ApprovedByEnough`: `Spec => []ApprovedByTheCommittee`. Three invariants in turn. An
  application is a paper or not for whoever has read it, however many versions of it are
  about, and a place somebody has read in order to write it is still there, or went with its
  application (`KindInv`, of `SameKind` and `PlacesRead`); those of the app are answered by different people and never by the
  applicant (`AnswersInv`); and with the places filed one by one (`OneByOne`), whoever settles an
  application has seen every place answered or open and at least two answers, which nothing but
  what `revived`, `short` and `wiped` record takes away again (`Decided`).

Two is a number in the property and in the code, not a majority of `Seats`; hence the assumption
that there are at least two.

Only model-checked: `AnsweredIsSettled` (liveness).

## The field-service month: `FieldMeetings`

| model | code |
|---|---|
| `meeting[id]` | `field_service_meetings` of the month: day and kind, conductor, announced (`publishedAt`), called off (`cancelledAt`), the template slot it was made into or `ByHand` |
| `removed` | `field_service_removed_days` |
| `run` | `field_service_month_runs`: prepared, reminded, published |
| `task` | the elders' task the pass opens |
| `away` | absences |
| `keys` | dedupe keys of the "moved" messages |
| `today`, `ran` | the date, and whether tonight's pass is over |
| `knows` | history: which meeting on which day each brother expects |
| `slipped`, `raced`, `unsure`, `forgotten`, `muted`, `missed` | history: told of the wrong day; two requests on one row; a message lost; a slot emptied and not written down; a move dropped as a repeat; drafts the app held back or that came during the announcement |

Changes by hand are `Begin…`, then `InsertMeeting`, `SaveMeeting` (the whole row) or
`DeleteMeeting`, then `Remember` (the day taken out) and `Tell`. Announcing is
`PublishDrafts` and `Announce`, preparing `ReadRemoved`, `LookAtMonth`, `WriteDrafts`
under the advisory lock of the congregation, filling `FillConductors`. The nightly pass
(`BeginPass`, `OpenTask`, `MarkPrepared`, `Remind`, `AutoPublish`, `MarkPublished`) has
its own step for each write of its record, so that a stop between them is a run.

| run | instance | what it shows |
|---|---|---|
| `field` | two brothers, two days, one group, both slots in the template; not yet prepared, two drafts, or one announced and one draft; a request of any kind beside a change, announcing or preparing, and the nightly pass; two requests or failures (400 thousand states) | `TypeOK`, `ConductorsKnow`, `MadeOnce`, `DraftsGoOut` (liveness) |

The bounds: two days are what a move needs, two brothers a change of conductor; the month
is prepared, announced and begun on four successive dates, so the pass is on every
side of each.

Fairness. Requests and the pass go on, days pass; the month does not begin while a due
announcement waits, as the code tries it on six nights and one of them gets through.

Known differences without a run, stated at the end of the module: `NobodyExpectsInVain` (a
change of both conductor and day tells the old conductor he is off a day he never had),
`EveryMoveIsNews` (back to a place it had been moved to before: dropped as a repeat),
`TaskClosesItself` (once the month begins no pass looks at it). An edit begun before the
announcement and saved after it makes its meeting a draft again.

Not in the model: assemblies and visits that take a day, the overseer's visits with an assistant,
notices, messages to everybody, other months, whose turn it is, requests that tell nobody,
month themes, editing the template.

### Proofs

`FieldMeetingsProofs` proves the type invariant (`FieldTypeCorrect`) and both safety properties, for
any brothers, days, kinds, template and requests, under `FieldConstants` and `FieldSetups` (what an
instance starts with is sound: a slot made once, and announced meetings expected by their
conductors and by nobody else).

* `ASlotIsMadeOnce`: `Spec => []MadeOnce`. The advisory lock gives one preparation at a time
  (`OnePreparation`). What was made of a slot stands in it, or the slot is among those taken
  out, about to be written down as such or forgotten, or its day is over (`SlotsAccounted`); a
  preparation knows the same of the slots it has read (`LookAccounted`), so what it is about to
  write was made of nothing yet (`NewAccounted`).
* `ThoseWhoConductKnow`: `Spec => []ConductorsKnow`. While messages are under way, what is
  expected of a meeting beside what is due is about to be taken back by a request that still
  holds the row as it was (`NothingElse`), and what is due is expected or about to be told
  (`Heard`); both for meetings outside `raced`, `unsure` and `muted`, and a row only leaves a
  request's hands by its message or into one of these.

Only model-checked: `DraftsGoOut` (liveness).

## What is proved and what is checked

| | proved for every value of the constants | checked on the instance only |
|---|---|---|
| stand | `TypeOK`, `RotaSpec`, `NeverOverfull`, `NobodyInTwoPlaces`, `PlanKept`, `ArchiveFixed`, `ToldOfHisTime` | `RequestsFinish` |
| outbox | `TypeOK`, `KeepsLedger`, `SentMeansTaken`, `HeldTillMorning`, `StepsDown`, `OnePersonAPhone`, `BrowserIsTheLastUsers` | `EveryRowSettles`, `DeadPhonesGo` |
| programme | `TypeOK`, `ToldUnlessFlagged`, `BelieversAreMarked`, `KnowsOnTheDay` | `FlagsSettle` |
| report months | `TypeOK`, `NoHalfState`, `AppNeverOverwrites`, `ClosedIsSent`, `CountedOnceUnlessAbsorbed`, `NoneIsPassedBy` | `LateReportsGo` |
| talk exchange | `TypeOK`, `OneGuestAWeek`, `ReplacementWhole`, `GuestComesBack`, `RoundTrip`, `MismatchHasCause` | – |
| applications | `TypeOK`, `ServedAsApproved`, `ApprovedByTheCommittee` | `AnsweredIsSettled` |
| field service | `TypeOK`, `MadeOnce`, `ConductorsKnow` | `DraftsGoOut` |

Each component has one module of proofs that extends its own, the talk exchange two; the sections in it come in the
order of its theorems, each with its invariant, the lemmas about what a step leaves
alone, one lemma for each action that may disturb it, and the theorem.

Every proof rests on the assumptions named in the module of the component
(`RotaConstants`, `CartConstants`, `OutboxConstants`, `ProgrammeConstants`, `LadderEnds`,
`ReportConstants`, `TalkConstants`, `TalkSetups`, `AuxConstants`, `AuxSetups`,
`FieldConstants`, `FieldSetups`) and nothing else; the runs evaluate them. Out of the
prover's reach are liveness under fairness, `ENABLED`, and what a recursive definition
computes; no module declares a recursive operator.

## Not modelled

Sessions, duties, the merge of cards, meeting moves and conduct mode have a protocol worth
a module and are next in the plan. The other parts without a module edit single rows, read
and lay out, or move bytes (exports, mail, backups): there is nothing between two
steps of theirs for another actor to meet. Wording, languages, permissions and the
journal of changes are left out everywhere; who may do what is taken as given.
