# A verification project for the GPS ingest server

TLA+ models of the GPS tracking server in `src/`: the TCP server that reads
GT06, JT808 and GPS103 trackers and decodes them, the ingest pipeline behind it,
the identity of the devices, the remote command channel, speed alerts, tracks
and their adjustment to the roads, the start-up migrations, and the part of the
web panel that shows positions as they arrive. TLC checks each model on small
instances; TLAPS proves the safety of most of them (section 5) for every value of
their constants.

`tlc -config X.cfg M` runs a model, `tlapm M.tla` checks the proofs of a module
whose name ends in `Proofs`. `PROJECT.json` lists the components, the runs, the
source lines each definition stands for, the mutants, the hazards and the
theorems.

## 1. Inventory

The service is one Node.js process (`src/src/index.js`) over a PostgreSQL
database. Everything in it runs on one event loop: a handler is atomic between
two `await`s and interleaves with every other handler at each of them. Several
instances may share one database at start-up. The panel is a page that runs in
the operator's browser, on another event loop.

| Part | Source | State it keeps | Operations | What makes it correct |
|---|---|---|---|---|
| Connection limiter | `tcp/ratelimit.js`, `tcp/server.js` | a Map from IP to open sockets and recent attempts | `tryAcquire`, `release` (once per socket), `sweep` every 60 s | no slot leaks or is returned twice; both limits hold; forgetting an IP does not reopen its window; the Map does not grow for ever |
| Frame accumulator | `tcp/framing.js`, `frameLength`/`findFrame` of the decoders | the bytes of one socket not yet consumed | `push`, `extractOne` | frames come out whole and in order however TCP cuts the stream; HTTP is rejected; the buffer is bounded |
| Socket queue and ingest | `tcp/server.js`, `ingest/pipeline.js`, `db/repo.js` | a promise chain per socket, its session, the device cache, the positions table | `manejarTrama`, `processDecoded`, `savePosition`, archive, restore | per-socket order; no duplicates after a retransmission; what is acknowledged is stored; an archived device stays hidden; a failing query stalls nobody |
| Speed alert | `db/repo.js` `evaluateSpeedAlert`, `ingest/pipeline.js` | `device_alert_state`, speed events | evaluation per position, change of the limit | one event per crossing, events alternate |
| Movement state | `tracking/movement.js`, `getCurrentMovementState` | none (a function of the history) | annotate | only a run within the radius is a stop, and no long stay is missed; stops are never taken back; the live state agrees on a parked vehicle |
| Device identity | `db/repo.js` `getOrCreateDevice`, `resolveDeviceByTerminalId` | `devices`, the device cache | resolve by IMEI, by terminal, by suffix; register; add | the device of a frame is the one the rules give for a recent table |
| Device settings | `web/routes.js`, `commands/catalog.js`, `db/repo.js` | two columns of `devices` | PATCH settings, POST `set_interval` | one operation does not undo the other |
| Command channel | `commands/dispatcher.js`, `db/repo.js`, `tcp/server.js`, `web/routes.js` | the registry of online devices (memory), `device_commands` (database) | queue, flush, mark, answer, expire, register, unregister | order; ACK first; right device; no lost wake-up; final statuses are final; no mark without a write |
| Map matching | `tracking/map-match.js`, `web/public-api.js` (GeoJSON) | none across calls; a time budget within one | filter, split, chunk, match, route, fall back, inherit | cut at the gaps and nowhere else, unless the service splits a chunk; the time limit; always an answer; a stop stays on the road; the line can be drawn |
| Migrations | `db/migrate.js`, `db/pool.js`, `index.js` | `schema_migrations`, an advisory lock | `runMigrations` | each file takes effect once and in order, whoever dies; nobody serves an unmigrated database |
| Live view | `web/ws.js`, `public/app.js` | the WebSocket, the list of devices in the page | broadcast, list, refresh, archive, add | a reliable fix is not erased; the list is right while the WebSocket is down; archived devices stay away |
| Track view | `public/app.js` | the selected device, its line, requests in flight, a timer | select, load, toggle, clear, live position | the line belongs to the selected device and misses nothing that came in time; it is asked for along the roads with the adjustment on; reloads end |
| Decoders | `protocols/*.js` | the serial of the platform (JT808) | decode, reply, encode a command | each message is read as it was meant; damage is noticed; who expects an answer gets one it can read |
| Sessions, login limiter, API keys | `web/auth.js`, `web/api-keys.js` | failed logins per IP; keys | log in, block | not modelled (section 8) |
| Debug packets | `ingest/bus.js` | rings of recent frames | record, read | not modelled (section 8) |
| Start-up, shutdown, HTTP assembly, configuration, logs, scripts, pages | the rest | | | not modelled (see section 8) |

**How they interact.** A socket goes through the limiter, its bytes through the
accumulator, and each frame joins the socket's promise chain. A frame is decoded
and given to `processDecoded`, which resolves the device, touches it, stores
positions and emits `position`/`alert`/`telemetry` on an in-process bus; the
WebSocket server forwards those to browsers. After a login's reply the socket is
registered with the dispatcher, which flushes the queued commands; HTTP requests
insert commands and flush too. `savePosition` ends with the speed evaluation,
which reads the limit that the settings routes write. The panel merges three
sources: the list over HTTP, the track over HTTP, and live positions.

**What is hard in it.** Two flushes of one device at once; a close event of an
old socket after the new one registered; a device archived while its frames are
in progress with copies of its row in the cache and in sessions; a device added
while a terminal is being resolved; a process that
dies between a write and its mark, or between a migration and its record;
answers of HTTP requests that arrive in any order among live messages; streams
cut at any byte; time limits shared by two external services. `PROJECT.json`
lists these as `hazards` at their lines.

## 2. Modules and how they correspond to the code

Names are the source's where possible. A step is what runs between two awaits;
an operation with several awaits is a chain of actions over a `pc`. Definitions
named `...`-something and commented "Mutant:" are plausible bugs, each used to
show that a property can fail; they take no part in the specifications.

* **ConnectionLimiter** - `phase`, `ipOf`, `age` are the sockets and the clock;
  `known`, `activas`, `intentos` are the limiter's Map. `Admit`/`Reject` is the
  accept handler, `Destroy` a rejection, error or timeout, `CloseEvent` the
  close handler with its one `liberar`, `Sweep` the interval, `Tick` a unit of
  time. A timestamp is the age of the connection that left it.
* **CommandLifecycle** - the abstract promise to an operator: a command is
  created, transmitted perhaps several times, marked, answered, or expires;
  `acknowledged`, `failed` and `expired` are final.
* **CommandDispatch** - the channel that implements it. Actors are the sockets
  (after a login) and the HTTP requests, both running `flushDeviceCommands`
  with `pc` `expire -> select -> send <-> mark`. `connections` is the
  dispatcher's Map, `target` the socket that a flush captured, `batch` the rows
  it read, `wire` what went out. `Crash` loses everything but the rows.
  `overdue` is the expiry condition of the SQL, as a set of rows.
* **Framing** - `Data` is `push` up to its loop, and `NoStart`, `Gt06`, `Jt808`
  and `Gps103` are one call of `extractOne` each, on real byte values.
* **Bytes**, **Jt808**, **Gt06**, **Gps103** - the decoders as operators on the
  bytes of a frame, with what each answers: the CRC, the XOR and the escape, BCD,
  the sign bits, minutes to degrees, batches, dates, and the errors they collect.
  Coordinates are integers, in units that are exact in each protocol. Checksums are
  written with arithmetic and loops as recursive functions (`Loop`), so that they
  can be proved about.
* **Tracker** - the other end, as `scripts/simulate.js` and the builders of
  `test/` do it: how a tracker writes a message, what the message means
  whatever its bytes are, and how it reads what comes back. `Meant` is what a tracker
  may say at all: fields that fit their widths, and positions on the Earth (`Fix`).
* **Wire** composes them: Framing, the decoder each frame goes through, and the
  answers, one frame after another while bytes go on arriving. `Now` is the date
  that a GT06 tracker is answered with.
* **PositionIngest** - one device. `task` is every frame with where it is in
  `manejarTrama`/`processDecoded`, `Turn` the promise chain; `cache`, `session`
  and `row` are the three copies of the device's visibility; `rows` the table,
  `bus` the messages. `Turn` also orders the frames of a socket that was closed:
  its chain runs on. Each query of the pipeline that can fail has an action
  for its failure, with the `catch` the code gives it.
* **PositionJournal** - the abstract promise about positions: a journal they are
  appended to, once and in the order of their socket, an interface that is told of
  each entry once, and answers that come when the positions of a frame are held or
  their writing failed.
* **Identity** - the rows of the devices with one ending (`imei` and the terminal,
  not the other columns, such as `activo`), the cache with ages,
  and for each socket the chain of queries of a resolution. `seen` keeps the
  tables of the last ticks, so that an answer can be compared with the rule
  (exact identifier, a single suffix, or its own row) on a recent table.
* **SpeedAlert** - the statement of `evaluateSpeedAlert` in two steps: the
  snapshot it reads and the upsert that applies to the latest row; then the
  event, which may fail on its own. Two sockets of a device may overlap.
* **Movement** - `Annotate` is `annotateMovementStates` as a function of the
  history (the fold over the pulses is the recursive function `ClusterStart`),
  `Current` is the live state over the last three fixes. Positions arrive in the
  order of the device's clock.
* **DeviceSettings** - the handlers of PATCH and of POST `set_interval`, one
  step per query, with the three ranges of values the code has.
* **MapMatch** - `Filtered`, `Groups` and `Chunks` are the pure functions, their
  loops as recursive functions of the place in the track; `Match`, `Route`,
  `OutOfTime` the loop over chunks with its budget. `Answers` is what Match may say
  of a chunk: one segment or several, with points that are in none (null
  tracepoints). A `Piece` that is drawn keeps the chunk it was asked for.
  `Inherit` the adjusted coordinates that rows take from their neighbours.
* **Track** composes Movement and MapMatch over one table: the rows of a track
  arrive and are annotated, and are asked for as an adjusted trace or as the
  GeoJSON of the public API (`Feature`).
* **Migrations** - `runMigrations` per instance; `holder` is the advisory lock
  of a live session, `effects` what is committed, `recorded` the table.
* **LiveView** - one device in one browser: `wire` is the WebSocket, `list` and
  `read` the one list request under way and the rows of its answer, `form` the
  operator's request, `view` what is shown.
* **TrackView** - `requests` in flight with the parameters they captured,
  `requestId`, the line and the live timer; `hasta` has minutes, as the
  `datetime-local` field does. A row has the minute it is stamped with, by which it
  is listed: the tracker's, past when it comes `late` from a buffer and ahead of the
  server by up to `Ahead`. The points of a line are a set, because they are drawn
  in their own order; each knows whether it came in an answer that was `asked` for
  along the roads. `loading` and `fate` are the text beside the track (`Alert`
  writes over it) and what became of the line, `known` what was in the table when
  it was read. A device may be archived from the panel, with the answer to the
  DELETE still to come.

CommandDispatch instantiates CommandLifecycle (`ImplementsLifecycle`), and
PositionIngest PositionJournal (`ImplementsJournal`); Wire and Track compose modules over common variables. The others share boundaries rather
than variables: Wire ends with a decoded message, PositionIngest begins with
one and leaves to Identity which device it is among several, to CommandDispatch
what a login does to commands and to SpeedAlert what follows a position;
LiveView and TrackView start where PositionIngest publishes.

## 3. Runs

| Run | Instance | States | Checks |
|---|---|---|---|
| `limiter` | 2 IPs, 4 connections, limits 2 and 2, window 2 | 288,646 | `SlotsMatchSockets`, `WindowBound`, `IdleIpForgotten` |
| `command_queue` | 1 connection, 2 commands (one may expire), 2 frames, 1 fault | 1,934,356 | `AckFirst`, `NotOvertaken`, `MarkInFlight`, `ImplementsLifecycle` |
| `command_reconnect` | 2 trackers, 2 connections of one of them, 1 command | 98,023 | `NothingLeftBehind`, `WrittenToItsDevice`, `EntryDropsWithItsSocket`, `QueuedLeavesWhileOnline` |
| `wire` | conversations of the three protocols, frames behind noise, broken headers, one damaged byte; chunks of 1 to 9 bytes | 26,716 | `FramesAreRead`, `ReadAsMeant`, `DamageIsNoticed`, `EachIsAnswered` |
| `ingest` | 2 sockets, 2 frames (login, alarm, three kinds of batch), 1 fault, crash or archiving | 1,201,542 | `RowsInOrder`, `RowsArePublishedOnce`, `NoDuplicateRows`, `AckedIsStored`, `SocketNeverStalls`, `ArchivedStaysHidden`, `ImplementsJournal` |
| `identity` | 2 sockets, a terminal and 2 devices that end like it, a cache of 1 tick, resolutions of up to 1 tick | 2,207,370 | `AnswersWereRight` |
| `speed_alert` | 2 sockets, 5 positions, 2 changes of the limit, 2 failures | 1,625,528 | `AlertsAlternate`, `CrossingIsReported` |
| `track` | every track of up to 5 rows on 4 places or without a fix, the latest 4 points in chunks of 3, a limit of 1 tick | 691,965 | `StopsAreRuns`, `ParkedIsStopped`, `StopsAreKept`, `CutExactlyAtGaps`, `StopsStayOnRoads`, `RouteIsDrawable`, `AlwaysAnswered` |
| `settings_lost_update` | 2 requests | stops at the violation | `LimitChangesOnlyByPatch` is violated |
| `live_view` | 3 positions, 2 drops, 1 failed request, 2 changes | 73,313 | `ListFollowsWhileDown` |
| `track_view` | 2 devices, 2 positions stamped late, in time or ahead, 2 minutes, 2 clicks, 1 failed request | 566,378 | `LineIsOfTheSelected`, `AllAskedOnRoads`, `PastMinutesAreDrawn`, `PanelComesToRest` |
| `migrations` | 3 instances, 3 files, 3 faults | 149,984 | `InOrder`, `UpMeansMigrated`, `EveryInstanceComesUp` |

What each shows is in `PROJECT.json`, and what each property says in the comment
before it.

The stateful modules state the types of their variables (`TypeOK`); TLAPS proves them in
the modules that have proofs, and the runs spend their properties on what
relates several pieces of state. `settings_lost_update` is expected to end in a
counterexample: `DeviceSettings` states that a command leaves the speed limit as
it is (docs/API.md:65-68), and the handler of POST `set_interval` writes both
columns with the limit it read before its awaits (`web/routes.js:226`), so a
PATCH in between is undone.

**Why the bounds are enough.** The interesting cases need few actors.

* A double write needs two flushes of one row: a socket and a request, or two
  sockets. An overtaking needs two rows of one queue. A late close needs two
  sockets; a command for the wrong device needs two devices. The two command
  runs split these because their product is out of reach; the proofs cover
  them together.
* The limits of the limiter are 2 so that "at the limit" differs from "at one",
  and a window of 2 ticks has an age inside, at the edge and outside. Four
  connections fill one window and start the next.
* In `ingest`, two frames are the shortest sequence with an order, a
  retransmission, or a login and what follows it; a batch of two positions has
  an order of its own, and has a legible time and an illegible one or one time
  twice. The one event bound (a failed query, a crash, an
  archiving or a restoration) may fall anywhere between their steps.
  `status` and plain `fix` frames are in the module and not in this instance:
  an alarm goes through the telemetry and the position of both. The proofs
  cover every kind and any number of frames and events.
* The streams of `wire` put each kind of frame next to each other kind behind
  every kind of noise, with bytes inside that look like the start of another
  protocol, and every cut of a stream into chunks of up to 9 bytes is tried.
  Its conversations have every message that is answered or that carries a
  position, serials and coordinates whose bytes the escape must hide, both
  signs of both coordinates, reports without a fix, at 0,0, at the ends of the
  ranges and off the Earth, and a batch with an item that is cut. The damage is
  one byte, at any place of the first of two frames.
* In `identity` two devices with one ending are what makes a suffix ambiguous;
  one tick of life and one of a resolution give an entry that is young, at its
  limit, and older than the table it was read from. Frames, failures and
  restarts are unbounded: only the additions are, by the number of devices.
* In `speed_alert`, five positions are a crossing, a return and a second
  crossing with two overlaps between them.
* A track of five rows holds a stop of three with what comes before and after
  it, and a stay of four, the shortest that has to be marked, with one before it;
  the recent four of its rows make two chunks that overlap, the first with a point
  in its middle that the service may lose, and have a row before them that only
  inherits. The places are within the radius of the next,
  out of it, and at an impossible speed.
* In `track_view` two positions make a line and extend it; two clicks are a
  selection, and another or a change of what it is drawn with. The box is
  unchecked at first, so that one click checks it with raw answers under way. Two
  minutes and a clock one minute ahead stamp a position before, in and after the
  minute of the range. The proofs leave all the bounds open.
* In `live_view` three positions are one before an answer is read, one between
  that and the answer, and one after; with two drops the WebSocket comes back in
  between, and the second drop may be for good.
* A migration is atomic by its transaction, so three files give a first, a
  middle and a last, and three faults let each of three instances fail once.

**Deadlock** is checked everywhere except in `wire` (the stream ends) and
`ingest` (the frames end). Elsewhere the end of the bounded behaviour is an
explicit stuttering action (`Quiet`, `Silence`, `Done`, `Idle`) or a state with
something left to do for ever.

**Mutants.** For each property a definition of the model is replaced by a
plausible bug (a dropped `WHERE`, an off-by-one, a missing reset, a mark before
its write) and the run must then fail.

## 4. Fairness, and why the code justifies it

* ConnectionLimiter: the sweep is a `setInterval`, a destroyed socket gets its
  `close` event, and time passes. Nothing obliges a client to connect or leave.
* CommandDispatch: the event loop runs every callback and every query that does
  not fail returns (weak fairness of each socket's handler, each request and
  each flush). No device, operator, deadline or fault is obliged to act, and
  `QueuedLeavesWhileOnline` is stated without faults.
* MapMatch (and Track with it): each request has an `AbortSignal.timeout` of
  what is left, so each step of the loop ends. No tracker is obliged to report.
* Migrations: every instance takes its next step, and one that exits is started
  again (`restart: unless-stopped` in the compose file); faults are finite.
* LiveView and TrackView: the browser delivers messages, fires timers and gets
  an answer or an error for each request. Nothing makes the WebSocket open again:
  `ListFollowsWhileDown` is about the executions in which it does not. In TrackView
  positions are finitely many: a tracker that reports faster than the router
  answers, for ever, makes every answer obsolete, and the model does not claim
  otherwise.

`Wire`, `PositionIngest`, `Identity`, `SpeedAlert` and `DeviceSettings` are
checked for safety only. `SocketNeverStalls` states with `ENABLED` that a frame
which is not finished has a frame of its socket that can go on; with the event
loop's fairness and finitely many frames that is all progress needs.

## 5. Proofs

The eight proof modules prove safety of `Spec`, without bounds on the constants
beyond the named assumptions of each module.

**TcpProofs** is about the TCP port: the limiter and the accumulator, which share
no state (it extends both, so the limiter's own names begin with `Limiter`), and
what a line reads and answers, for which it extends DecoderProofs.

*The limiter* (`ConnsFinite`, `LimitsAssumption`). `WindowBound` speaks of the
real admissions while the code only sees `intentos`, so it is not inductive.
`IInv` adds `Tracked` (every admission still in the window is in `intentos`),
`EntriesHoldCounters` (no entry means zero counters) and `ActivasBounded`. The
hard step is `CloseEvent`: an entry may go only when both its counters are empty.

*The accumulator* (`MaxBuffer` and `MaxChunk` naturals, any set of streams).
`FramesAreReadWhole` says that the frames of a stream are read whole, in order and
without waiting for the bytes behind them, however it is cut, if the stream is
`Readable`: each frame has one of the four shapes of the protocols and between 4
bytes and the limit, nothing in the noise before them begins a frame, and no `;`
follows within three bytes something in it that begins like a text. The assumptions
of `MCWire` let TLC evaluate that every stream of the run `wire` is readable but
those malformed on purpose. The invariant
`FramingInv` says that the frames delivered are the first of the stream, that the
buffer is exactly what has come behind them (before the first one, some of the
noise may be gone from its beginning), and that no whole frame is in it when `push`
has returned. The first two parts are what the last one needs: `NoStart` drops
bytes, and none of a frame may be among them. The
lemmas go from the layout of a stream (`Layout`: where each frame lies in the
concatenation) to where the scan stops (`FirstStart`, `RestIs`) and to where each
protocol's frame ends (`Gt06Ends`, `Jt808Ends`, `TextEnds`), which is never in the
frame behind it. `FramingTyped` needs only that the streams are bytes.

*The line* (`NowAssumption`). `MeantIsRead` and `MeantIsAnswered`: of every stream
in which trackers say what they may mean (`Spoken`), cut in any way, each message
is read as it was meant, and each that expects an answer gets one its tracker
reads. `Serve` implements the specification of the accumulator (`ServeIsFraming`), so
`FramesAreReadWhole` gives the frames; `WireInv` says that what was read and
answered is what the operators give for each of them (`Served`); and
`MeantIsHandled` is about one message. GPS103 is text: its part, from decimal
numbers and comma-separated fields to the report of a position, is here.

**DecoderProofs** is `MeantIsHandled` for GT06 and JT808. Each frame is laid out
first, byte by byte, from the fields of the message; then what the decoder finds in
each place is what was written there. For the second half the lemmas need that
BCD, two's complement of a width, sign bits and the escape are undone by their
inverses, and that the CRC or XOR that the tracker appended is the one the decoder
computes, over the same bytes. The loops over bytes are unfolded with
`RecursionExists`, below.

**CommandDispatchProofs** (`CmdsAssumption`, `ActorsAssumption`,
`LoginsAssumption`, `BoundsAssumption`, `NoneAssumption`). A ladder of
invariants, each over the ones before:

1. `TypeInv`: the types and `Shape`, which says what each `pc` implies of the
   queue, the batch and the rows. Gives `TypeCorrect`.
2. `AckInv`: whoever is past the ACK of its login, and whatever the registry or
   a flush points to, has an ACK first on its wire. Gives `AckComesFirst`.
3. `RowsStep`: every step changes the rows in one of a few ways. Gives
   `TerminalIsForever`.
4. `LedgerInv`: the wires against the rows: a mark is under way only for what
   was written, and an answer in a queue is to something written. Gives
   `SentImpliesTransmitted` and `WrittenIsMarked`, and with them
   `ChannelImplementsLifecycle`: initial states map to initial states and each
   step to a step of CommandLifecycle or a stutter.
5. `RegisteredInv`: a registered socket is connected. Gives
   `EntryDropsOnlyWithItsSocket`.
6. `AddressInv`: the device whose rows a flush holds logged in on its target.
   Gives `CommandsReachTheirDevice`.
7. `OrderInv`: what precedes a row of a batch in its queue is in the batch,
   written, or no longer waiting. Gives `QueueKeepsOrder`.
8. `AttendedInv`: a queued row of an online device is somebody's: a request or
   a login that has yet to read the queue, or a flush that holds it. Gives
   `NoWakeUpIsLost`, which supposes what the code needs: no fault, and a table
   no longer than a batch (section 6).

**PositionIngestProofs** (`KindsAssumption`, `BatchesAssumption`, `BoundsAssumption`). `IngestInv` has
four parts, and the refinement two more. `OrderInv`: `TypeInv` (with `Fits`, what the place of a frame implies
of its device and item), `TurnKept` (a frame has begun only if all before it on
its socket have settled) and `RowsAreBehind` (the rows of a frame are those of
the items that it has been through) give `PositionsKeepOrder` and
`NoRetransmissionDuplicates`. `StoredInv`: each item that a frame has behind it
is in the table, from this frame or an earlier one, or its INSERT failed; gives
`AnswerMeansStored`. `PublishedInv`: a row is announced when its frame goes on to
the next item and never again; gives `EachRowIsAnnounced`. `HiddenInv`: what a
frame has touched is the row of the table until the next change, whatever older
copies the cache and the sessions keep; gives `ArchivedIsNotShown`. For
`IngestImplementsJournal` `JournalInv` adds that what failed to be written is behind
its frame (`MissedAreBehind`), and that each row is told, about to be, or its frame
was lost (`AllTold`): with it an answer finds all that PositionJournal asks of one.

**IdentityProofs** (`IdentifiersAssumption`, `TimesAssumption`). `IInv` says of
each cache entry, and of what each resolution holds, that it was right for a
table no older than its age and the length of a resolution (`CacheIsRight`,
`ReadsAreRight`). It gives `FramesFindTheirDevice`: a cache that was cleared by
an addition may be filled again with an older answer, and this bounds how old.

**SpeedAlertProofs** (`SpeedsAssumption`, `BoundsAssumption`). `RowRemembers`:
the row is the verdict on the last position that was compared. Without overlaps
`OneAtATime` and `SnapshotIsFresh` give `EveryCrossingIsReported`, and with
`VerdictsAreNews` and `EventsFollowTheRow` that the events alternate strictly
(`CalmAlertsAlternate`). With failures and overlaps, `AlertsAlternateHolds`
bounds the repeated events by one for each failure and two for each overlap. That
bound is not inductive: a position under way may still repeat an event, and leave
a row that makes the next one repeat. `RepeatsArePaid` adds to the repeated events
what the positions under way may still cost, which depends on how many there are
and on whether the last event, the row and their snapshots agree (`Debt`, `Owed`,
`BothRepeat`).

**PanelProofs** is about what the panel draws.

*The track* (`PlacesAssumption`, `TimesAssumption`, `SizesAssumption`,
`StopsAssumption`): the invariants of the run `track` for tracks of any
length. `StopsAssumption` is a radius of at most 25 m, within which a row inherits
coordinates on the road (`Near`), and at most 3 pulses for a stop, the rows that
the live state looks at; the code has 15 and 3 (`movement.js:3-4`).
Most of the work is what the functions compute. The library's induction theorems
take an operator and cannot be instantiated, but a set can: `SetInduction` and
`FiniteInduction` follow from `NatLessThanWellFounded` and `WFMin`, and
`RecursionExists` from them, so that a recursive function may be unfolded. Then
`FilteredIs`, `GroupsIs`, `ChunksIs` and `WorkIs` say what each stage gives:
rows of the track in order, groups cut exactly at the gaps, chunks that overlap
in their ends. `CutExactlyAtGapsHolds` follows from `WorkJoins`, which says which
neighbours are together in a chunk, and from the pieces: each is of one chunk, has
points of that chunk only, and all of them unless Match found it, and no chunk is
left without one at the end.
`Inherited` is for the rows between two adjusted ones; `ClustersAreRuns` says that
the clusters of `Annotate` are runs, which a longer history leaves as they were
(`PrefixKeepsClusters`, for `StopsAreKeptHolds`). `StaysOfATrack` is the other half of
`StopsAreRuns`: a stay meets at most two clusters, since the second one has its
anchor in the stay and everything behind it is near that anchor; so if the first
began before the stay, one of the two has enough pulses, and fewer than
`MinPulses` of the stay are in the other. `TrackInv` is what
is inductive: the table is in the order of time, `live` is the state of the rows
stored (`InvLive`), what has coordinates was in a chunk (`InvSnapped`), and the pieces drawn
and the chunks left are together the chunks of the track (`InvWork`).

*The line of the selected device* (`PanelAssumption`, `BoundsAssumption`). What is
drawn depends on which request is the latest: `RequestsKnown` (numbers are unique,
and what has come since an answer was read is late or stamped beyond its range:
`ReadRight`) and `LatestIsMeant`
(the latest request, if nobody is about to make another, has the box and the
range of now). `LineInv` states the three properties not at rest but as soon as
nothing more is owed to the selected device (`Drawn`), which is what makes them
inductive: a message may extend a line that is complete, and an answer that is
not the latest changes nothing.

**MigrationsProofs** (`InstancesAssumption`, `FilesAssumption`).
`MigrationInv` adds to the properties `Locked` (the lock is held only between
`read` and the end of the loop), `NoneMissed` (the files behind the loop are
recorded), `NoneTwice` (the holder knows everything that is recorded or has it
behind) and `OneInHand` (a file in hand exists). An instance that lost its session may
still believe it migrates; what saves it is that all its statements now fail.

**Only model-checked**: liveness (`IdleIpForgotten`, `QueuedLeavesWhileOnline`,
`ListFollowsWhileDown`, `PanelComesToRest`, `AlwaysAnswered`, `EveryInstanceComesUp`)
and `SocketNeverStalls`, which uses `ENABLED`, none of which the prover handles;
`DamageIsNoticed`, since two frames of different bytes may have one checksum, and
that one damaged byte changes it is shown for the frames of the run; the frames of
the streams that are not `Readable` (a header without its frame behind it, repeated
delimiters, `FramesAreRead` of them being what the run shows); and the violation of
`DeviceSettings`.

## 6. Where the code and its documents disagree

`settings_lost_update` is a run of the project. Reading and modelling the code
showed other cases. The properties of the passing runs are stated so as not to
claim them, and say so in their comments.

Trackers and decoders:

* A lone 0x78 in front of a frame keeps the frame until the next chunk:
  framing.js:119 says "lo tiramos y seguimos" and returns 'wait'.
* The size limit applies before frames are taken out (framing.js:59), so a burst
  of valid frames longer than the limit ends the socket as if it had none.
* A JT808-2019 terminal identifies itself with 10 bytes, and the answer repeats
  them, but without the version bit and byte of its header (jt808.js:487-493):
  `EachIsAnswered` is about the 2013 header.
* GPS103 accepts the position 0,0, which the other two decoders discard.

Ingest and identity:

* A position whose INSERT fails is logged and its frame is answered all the same:
  the tracker will not send it again (`AckedIsStored` excepts it).
* Two sockets of a device evaluate the speed limit at once and both report the
  excess: the statement compares with its snapshot (repo.js:174).
* `stopped_since` in the live state is the first of the last three fixes
  (repo.js:302), not of the stop as docs/API.md:48-50 has it; on 0, 10, 0 and
  20 m the history and the live state disagree on whether there is one.
* A resolution that read the table before a device was added fills the cache
  after the addition cleared it: a terminal may be resolved by the old table
  for another minute.
* A terminal registered apart (its own row) stays apart for ever when its device
  is added later: the exact identifier comes first.

Commands:

* LIMIT 20 of `getQueuedDeviceCommands`: a longer queue is left behind although
  the device is online, until it connects again or another command is requested.
* A second login on a registered connection is answered after commands queued
  meanwhile over HTTP (server.js:138 says the ACK always goes first).
* `set_interval` with 5 to 9 seconds is queued and then violates the CHECK of
  the column (catalog.js:6).
* The orderly shutdown waits for sockets that nobody closes, and always ends by
  the forced exit after 10 s (index.js:40).
* A command that a socket's flush and a request's both read is written twice
  (dispatcher.js:33): `MarkInFlight` and `CommandLifecycle` allow it.

Panel and tracks:

* A position that comes late from a tracker's buffer, stamped before the end of a
  range that was already read, stays undrawn if it arrives while there is no line
  (app.js:1042), and is drawn over by an answer that was read before it:
  `PastMinutesAreDrawn` says so.
* The history and the live state order by different clocks (repo.js:400 and
  repo.js:301), so a buffered position makes them differ: `Movement` is about
  positions that arrive in the order of the device's clock. One that does not, or
  the window of `desde` and LIMIT 5000, may move the beginning of a stop.
* "separa periodos de más de diez minutos sin señal" (MEJORAS_GPS.md:96), but points
  less than 1 m apart are dropped before the gaps are measured (map-match.js:44): a
  vehicle that reports from the very same coordinates for more than ten minutes has
  its line cut, signal or not.
* A stop is three consecutive pulses within a radius of 15 m (MEJORAS_GPS.md:12), but
  a cluster is anchored at its first pulse: on 0, 10, 20 and 20 m nothing is a
  stop, although the last three are within 15 m of the first of them. `StayIsStopped`
  says which stays are not missed.
* Match may answer a chunk with several segments, or without some of its points
  (map-match.js:98-100 and 165): the line has a hole there, without a gap.
* With the adjustment on, points that no segment of two has are drawn as they came
  (app.js:911-913), as is what the router could not adjust.
* An alert writes over the error of a track (app.js:1092), so a line that failed to
  load may be on view without it.
* A position stored while the WebSocket is down for less than a minute waits for
  the next one (app.js:1167), and an answer to a list request that was read before
  a message arrived replaces what the message showed (app.js:1160 claims that the
  list does not stay old): `ListFollowsWhileDown` is about a WebSocket that stays
  down.
* A live position of the current minute is not in the reload it triggers
  (app.js:979): `PastMinutesAreDrawn` speaks of the minutes before.
* The answer to a DELETE deselects whatever is selected by then (app.js:1273),
  and leaves "Cargando…" if that one was loading.
* A message of an archived device deselects it without clearing its line
  (app.js:1024-1033); the properties of the line suppose a selection.
* After its await, `agregarEquipo` reads `e.currentTarget`, which is null by
  then (app.js:1230-1256).
* An outlier in the first place of a trace is kept and the good points after it
  are dropped (map-match.js:32).

## 7. What could follow

1. Runs for those disagreements of section 6 that are to be fixed, as
   `settings_lost_update` is: each would end in the counterexample and pass
   after the fix.
2. The columns of the last telemetry (the last position is the last to arrive,
   repo.js:285), and telemetry, alerts and commands in LiveView.
3. The stops and the hand-edited range in TrackView.

## 8. Not modelled

* **Sessions and the login limiter** (`web/auth.js`): signed cookies are library
  cryptography, and the counter of an address is read and written within one
  handler without an await, so nothing can overlap.
* **WebSocket heartbeat** (`web/ws.js`): all it does to the rest is to drop a
  connection, which LiveView lets happen at any time.
* **Debug packets** (`ingest/bus.js`): bounded rings for a page that shows them,
  never read by anything else.
* **API keys and the read-only routes of the public API**: one statement each;
  the GeoJSON of a route is in Track.
* **Start-up and shutdown** beyond the migrations and the crash: the orderly stop
  ends by the same forced exit.
* **HTTP assembly, configuration, logs, SQL file contents, scripts, markup**:
  stateless, pure I/O, or library code.

Within the modelled parts: the beginning of a range (`desde`) and its LIMIT of 5000
rows, the columns that are only shown (telemetry, the
attributes of a position), the wording of messages, the 3D view and the mosaic,
and the geometry: distances are one-dimensional, and of a coordinate projected on
the roads the model keeps that there is one.

PostgreSQL is assumed to give atomic statements and transactions, advisory
locks tied to sessions, and the unique indexes and CHECKs that the migrations
declare. Node is assumed to deliver `close` once per socket and to run timers.
Clocks are monotonic. TCP delivers bytes in order or ends.
