# A TLA+ model of camfarm

camfarm serves a fleet of synthetic IP cameras: each loops a clip over RTSP, has
an ONVIF endpoint, and can be given faults while it runs. It is a concurrent
program: pumps, sessions, HTTP handlers and background jobs share a handful of
locks, and much of its care goes into what happens when a camera is added,
removed or changed while all of them run. This directory models that, checks it
with TLC, and proves the parts that matter most with TLAPS.

- [The system](#the-system): components, state, what is hard about them
- [Modules](#modules): what models what, and how
- [Runs](#runs): what each run checks, bounds, fairness
- [Findings](#findings): where the code and its comments disagree
- [Proofs](#proofs): what holds for every instance
- [Not modelled](#not-modelled) and [Plan](#plan)

## The system

| Component | State | Operations | Talks to |
| --- | --- | --- | --- |
| Change feed and journal (`events.go`) | sequence number, journal, open subscriptions, closed flag | publish, Subscribe, one goroutine per subscription, close | the fleet publishes; the dashboard's event stream receives |
| Fleet (`camfarm.go`) | cameras by id, next index, cache of parsed sources, closed flag; per handle: removed flag, fault list | Start, AddCamera, RemoveCamera, Inject, Clear, Close | calls the RTSP and ONVIF servers, the feed |
| RTSP server (`internal/rtsp/server.go`, `control.go`) | cameras by path with stream, pump and control engine; readers; armed sessions | Start, AddCamera, RemoveCamera, SetFaults, Close, session callbacks, afterFrame | gortsplib calls the session callbacks; pumps call afterFrame |
| Pump (`internal/rtsp/pump.go`) | position in the clip, timestamp offset, fault engine, queued fault sets, held burst | SetFaults, plan, emit, the driver loop | writes to a stream; records events |
| Fault engines (`internal/fault`) | per kind: random stream, hold, drift clock, keyframe count | DecideFrame, DecideHold, TimestampShift, Inherit, ArmPlay, SetAt | asked by pump and handlers |
| Fault event log (`internal/obs`) | a ring of events, counters | Fault, Events, Dropped | fed by pumps and handlers |
| ONVIF server (`internal/onvif`) | listener, HTTP server, responder, cameras, the windows `starting` and `closing` | Start, Close, AddCamera, RemoveCamera | runs a WS-Discovery responder |
| Quality runner (`internal/quality`) | the current test of each camera, tests in flight, subscriptions | Start, execute, Cancel, Forget, Subscribe, Close | dashboard handlers |
| Media library (`internal/library`) | entries with their reports, upload slots | Scan, Upload, Refresh, Delete | the disk; dashboard handlers under `libMu` |
| Snapshots (`internal/dashboard/snapshot.go`) | captures in flight by camera, a semaphore | get, one goroutine per capture | dashboard handlers; the fleet's handles |
| Host metrics (`internal/hostmetrics/sampler.go`) | latest sample, subscribers, state of the GPU reading | the ticker, Current, Subscribe, Close, a goroutine per GPU reading | `/proc`, `nvidia-smi`; dashboard handlers |
| Fault catalogue, fleet file (`internal/fault/catalogue.go`, `spec.go`) | none: tables and rules | Validate, `Spec.validate` | the command, the fleet and Inject ask them |
| Command (`cmd/camfarm/run.go`) | the parts it has started | run | starts and closes everything above |

What is hard, per component, and what makes it correct:

- **Feed.** Three parties may end one subscription: a publish that finds its
  buffer full, the close of the feed, and the subscription's own goroutine when
  its context ends. A Go channel closed twice, or sent on after it was closed,
  panics. A slow subscriber may be cut off but must not have a gap.
- **Fleet.** `Fleet.mu` covers all of AddCamera but only the first part of
  RemoveCamera; the removal is journaled and passed on to the servers unlocked.
  Handles outlive their cameras. Every step of an add may fail and must leave
  the cache and the servers as they were.
- **RTSP server.** Handlers look a camera up, release the lock and act on what
  they found. Sessions are armed for teardown under a path, which may belong to
  another camera before long. Close must stop pumps before it closes streams,
  without holding a lock that their callbacks take.
- **Pump.** Fault sets are swapped at frame boundaries, in the middle of a hold
  or of a drift. Writes fail half way. The clip loops and timestamps wrap.
  Frames delayed by jitter must not disturb the schedule, nor stalls cause an
  unbounded burst.
- **ONVIF server.** Start waits for its responder with the lock released. A
  Close may come then, and others may already be waiting for either.
- **Quality runner.** A test is forgotten with its camera while its analysis
  goes on, and the id may get a camera and a test of its own meanwhile.
- **Library.** A scan takes long; uploads, re-checks and deletions change files
  and entries under it, and so do other programs.
- **Control faults.** Requests of several connections draw from shared streams
  of random numbers, and a run must be replayable from its seed. A lie is decided
  in one callback of the RTSP library and told in another.
- **Snapshots.** A capture outlives the request that started it and is shared by
  others; it may panic, fail or never get a slot, and its camera may be replaced.
- **Sampler.** Samples overlap; each takes three locks one after another, and
  waits beside a GPU reading that outlives it. Three parties may end a
  subscription, and Close must leave nothing running.
- **Command.** Shutdown must end the handlers before the fleet they use, and
  must not wait for those that stream for ever.
- **Catalogue and fleet file.** What they let through, other parts compute with:
  they divide by it, take modulo it, or put it into the URLs they advertise.

## Modules

A module is a state machine of one component. Code between taking a lock and
releasing it is one step; a call that releases the lock, waits, or makes a
system call is cut there, and the pieces of one call are tied together by the
caller's `pc` or `job`. Random draws, results of I/O and errors are
nondeterministic choices. Each module ends with its properties; operators marked
`mutant` next to an action are plausible mistakes in it, kept to show that the
properties notice.
Modules named `..._proofs` hold theorems, of one component or of several that
belong together; [Proofs](#proofs) says which. Every module's type invariant is
proved there, and stated there where only the proofs use it.

| Module | Models | State, and where it is in the code |
| --- | --- | --- |
| `Feed` | `events.go` | `subs`, `journal`, `seq` are the fields of `events`; `ch[s]` the buffered channel; `ended[s]` counts `end()`; `watcher[s]` is the goroutine of `Subscribe`, which waits in its `select` and then, separately, takes `events.mu` |
| `FeedLog` | what the feed promises | a growing log, and for each subscriber a window of consecutive positions of it |
| `Fleet` | `camfarm.go` | `mu`, `cameras`, `nextIndex`, `sources` are fields of `Fleet`; `removed` and `faults` belong to the handles; `rtsp` and `onvif` are the dispatch tables of the two servers, `installed` what an RTSP camera applies; a camera is its index |
| `Roster` | what the fleet promises | the life of each id: absent, present, leaving (removed, not yet journaled), left (not yet out of the servers); and the journal |
| `RtspServer` | `server.go`, `control.go` | one path and the cameras it has had, numbered; `readers` and `armed` are the server's maps; `due` is the local slice of `afterFrame`; `request[s]` is a handler between its lookup and its answer; `removal[n]` a RemoveCamera under way |
| `Pump` | `pump.go`, `fault.go`, `timing.go` | `engine`, `pending`, `held`, `idx`, `frameCounter`, `tsOffset` are fields of `Pump`; `plan` is the `plannedFrame` between plan and emit. A frame is its number, its shift and its stamp |
| `Pacer` | `Pump.run` | `start`, `k`, `prevDue`, `due` are its locals, `now` is the clock |
| `Recorder` | `obs.go` | the ring: slots, `head`, `count`, `dropped` |
| `ControlEngine` | `internal/fault/control.go`, the handlers of `server.go`, the lies of `internal/rtsp/control.go` | `ctlEntries` and `total` are `ControlEngine.specs` and `total`; `stream` is what the seed gives; `serving[c]` the request a connection is at; `pendingLie` and `armedBy` the server's maps, by connection |
| `Catalogue` | `catalogue.go`, `validateFault` | no state: a table and operators. A fault is its kind and the parameters that are set; rates are in parts of `Unit` |
| `FleetFile` | `spec.go`, the flags of `run.go` | no state. A host is what the code's parsers find out about its text: its form, how it is wrapped, and where it leads: the address a listener gets that binds it |
| `OnvifServer` | `server.go`, `discovery.go` | the fields of `Server`; what a Start brought up (`listening`, `running`, `serving`) is named after its caller, as are the channels that `starting` and `closing` hold; `bound` holds a responder from its socket to the moment Start sees it ready |
| `Quality` | `quality.go`, `lifecycle.go`, the handlers | `runs`, `active`, `closed` are fields of `Runner`; `entry[n]` is a test with its context and goroutine; one subscription |
| `Library` | `library.go`, `upload.go`, the handlers | `entries` is `Library.entries`; `disk` the upload directory, shared with everyone; `libMu` the dashboard's lock; `scan` the stage of a scan |
| `Snapshots` | `snapshot.go`, the handler | `flights` is the map, by handle; `flown` every flight with the stage its goroutine has reached; `sem` the semaphore; `viewer` the requests |
| `Sampler` | `sampler.go` | `latest`, `wanted`, `listeners`, `closer` are the fields under `mu`; `gpu` the fields of `gpuState`; `readings` the goroutines that read the GPU, the last one being `done`; `thread` the ticker and the callers of Current between their locks |
| `Command` | `run.go`, `main.go` | `stage` is the place in `run`; the other variables are the parts it started, as open or closed, and the handlers at work |

How they fit together. `Pump` extends `Recorder`: the events a plan records go
into the ring in the order the code makes them. `ControlEngine` and `FleetFile`
extend `Catalogue`, and `Command` extends `FleetFile`: a fault set that the
engine is given, and a fleet that is started, are ones the rules let through.
Elsewhere one module stands for another through the part of its state that
matters there: to `Fleet` the servers are their dispatch tables, which is all its
own steps read or write of them; `RtspServer` has a pump that only takes frames
and exits, and relies for its exit on what `Pacer` checks, that a pump told to
stop sends at most one more frame; to `Command` the parts are open or closed, and
that their Close returns is what the runs of those parts show. A product of the
modules would multiply their states without adding an interaction: the calls
between them are synchronous, and each is a step of the module that calls.

`MCServers`, `MCMedia`, `MCDashboard` and `MCWatching` check several modules in one
run, as a sum: a variable `part`, which no step changes, says which module takes the steps
of a behaviour. The states add up, and no module sees another.

What the models leave out, beyond data:

- `Fleet` gives its cameras faults of the per-request class, which `SetFaults`
  applies before it returns. The per-frame class is queued to the pump, and that
  path is `Pump`'s. A fleet without an ONVIF side is not modelled.
- `RtspServer` has one path, and one session in its run. Sessions share nothing
  but the maps, which are keyed by session, and paths nothing but Close.
  An `rtsp_error` is an answer that leaves no reader or arms nothing; when it
  fires is `ControlEngine`'s, where a session is its connection.
- `Pump` has no packets: `packet_loss` removes packets inside a frame, and a
  dropped frame still differs from one that lost packets. An access unit that
  cannot be encoded, which the code calls unreachable for loaded media, is left
  out. Writes fail after any number of frames.
- `Library` has one root, and contents tell themselves apart by size and
  modification time. The code takes that for granted too.
- `OnvifServer` takes the probe with which Start waits for the startup Hellos as
  part of its step: its failure is only logged.
- `FleetFile` does not look at characters. A name, or a "numeric" host such as
  `127.1`, is the resolver's, which may know nothing of it or lead it anywhere, a
  wildcard and loopback included; so `Command` lets it be bound to any address. A
  "numeric" host is refused only as an advertised one (`validateHostname`). What is
  bound is what `net.Listen` takes: an IPv6 address without brackets, with or
  without a zone, and any other text with or without them, empty brackets being a
  wildcard. How a zone is written in a URL is not modelled.
- `Sampler` has times but no counters: the rates of a sample are arithmetic on
  two readings that are taken and stored under one lock.

## Runs

Bounds are constants of the modules and are named there. `fleet`, `servers`,
`watching` and `dashboard` check liveness under the fairness below, the
others safety only. The check for deadlock is off in every run: each bound stops
the system sooner or later, and a closed fleet or server rightly does nothing.

| Run | Instance | Distinct states |
| --- | --- | --- |
| `fleet` | 2 callers, 2 ids, 2 cameras ever, 1 file overwritten once, 1 swap | 793,394 |
| `servers`, RTSP | 1 session, 2 cameras, 3 PLAYs, 2 SetFaults, teardown after 2 frames | 536,849 in all |
| `servers`, ONVIF | 4 calls of Start or Close, 1 camera, discovery on and off | |
| `media`, pump | a clip of 2 frames, 6 frames, 2 swaps among 4 fault sets, a ring of 3 events, stamps modulo 6 | 6,038,048 in all |
| `media`, pacer | interval 2, guard 3, delays up to 4, 11 ticks | |
| `media`, control | 2 connections, 3 requests, 4 fault sets, 1 swap | |
| `media`, library | 2 requests, 2 names, 2 contents, 2 scans, 1 upload at a time | |
| `dashboard`, quality | 2 requests, 1 camera added twice, 2 tests of which 1 at a time, 1 buffered event | 361,483 in all |
| `dashboard`, command | 191 fleet files, 10 command lines, 1 request | |
| `watching`, feed | 2 subscribers, buffers of 2, 3 events | 316,356 in all |
| `watching`, snapshots | 2 requests, 1 id, 2 handles, 3 captures, 1 slot | |
| `watching`, sampler | 1 caller of Current beside the ticker, 1 subscriber, a channel of 1, 2 times, 2 GPU readings | |
| `fleet_handle`, `rtsp_stale`, `rtsp_late`, `onvif_close`, `control_replay`, `sampler_order`, `wildcard_told` | as above or smaller | see [Findings](#findings) |

Why these are enough:

- **fleet**: races here are between two calls; two cameras ever are the removed
  one and the one added under the same id. One overwrite is what makes a stat
  and a parse disagree.
- **RTSP server**: a stale lookup needs an earlier and a later camera; the third
  PLAY arms again what the first two left. Teardown after two frames
  distinguishes a session that still counts from one that is due.
- **ONVIF server**: a Start, a Close that aborts it, a Close that waits for that Close,
  and one more Start or Close that meets any of them.
- **pump**: six frames are three passes of the clip; stamps wrap after one and
  a half, so the wrap falls on and off the seam. Two swaps can queue up in one
  frame, or release a hold and replace what replaced it. The four sets pair each
  fault with one that disturbs it (a hold with a drift, reordering with drops
  that spare keyframes, starvation with a hold, the drift alone).
- **pacer**: the largest delay exceeds the guard and two intervals, which is
  where jitter could be taken for a stall; the time bound holds a stall, the
  catch-up after it and a resync.
- **control**: three requests are one that a fault with `onlyRequest` lets pass,
  one that it hits and one after; they may be of three methods, on one
  connection or on two. The stream has draws on both sides of each rate, and the
  sets have each kind with a rate, with `onlyRequest` and by default.
- **library**: two contents are the one that was parsed and the one that
  replaced it; two scans are one that lists and one that prunes.
- **quality**: a limit of one makes every miscount a refusal or an excess; a
  second test needs the first to be forgotten or over.
- **command**: the files pair hosts to bind of every notation, and every address
  they may lead to, with every discovery block, with and without an advertised
  host; they pair a wildcard with advertised hosts of every kind, and put each fault
  rule at and beyond its boundary. `wildcard_told` has the one file it needs. One request, which is repeated, is at any time short, streaming or
  slow; requests do not interact.
- **feed**: three events are one more than a buffer holds, so a subscriber can
  be dropped after it has received none, one or more; two subscribers are the
  one that is dropped and the one that must not notice.
- **snapshots**: two requests share a capture or miss one another's; two handles
  of one id are a camera that was replaced; with one slot the second capture
  queues; the third is one that starts when an earlier one is just over.
- **sampler**: samples overlap when there are two who take them, and their times
  differ with two times. The second GPU reading is one that starts after the
  first, and finds the tool missing, which ends the series.

What each run shows:

- **fleet**. A camera of the fleet is the one both servers hold under its id,
  and what a server holds beyond that some call is about to add or remove, also
  when a step fails (`RegistriesSound`). With no add under way the cache holds
  just the files in use (`SourcesExact`). Indexes, and with them seeds, are never
  used again (`IndexNeverReused`). All of it implements `Roster`
  (`FleetImplementsRoster`): per id, adding and removing look like single steps,
  and what a RemoveCamera does unlocked, its journal entry included, it has done
  before the id is added again: the servers refuse the id until then.
  A removed camera leaves both servers, unless the RTSP server was closed
  (`RemovedEverywhere`).
- **servers**. RTSP: whatever is armed was armed by the fault its camera has now,
  and a closed session is no reader and not armed (`ArmingSound`); no pump that
  may still write has a closed stream (`NoWriteToClosedStream`); an arming by the
  camera on the path does not last for ever (`ArmingEnds`); Close returns
  (`CloseReturns`). ONVIF: with a responder published, what it advertises is what
  is served (`AdvertisedAreServed`); every listener and responder is in the fields,
  where Close finds it, or still in the hands of a call, also when Start gives up on
  a responder that binds at that moment, and a Start that was aborted has left
  nothing when its Close goes on (`NothingOrphaned`); every Close returns
  (`OnvifCloseReturns`).
- **media**. Frames leave in order, once, and every planned frame is sent,
  waiting, removed by a fault or lost to a failed write (`FramesKept`). What is
  held belongs to a running hold and will be released by it
  (`HeldByRunningHold`). A stamp is the frame's time in an endless clip plus its
  own shift, through loop, wrap and drops, and a drift goes on through swaps of
  other faults (`ClockKept`). The ring keeps the newest events (`KeepsNewest`).
  Between any two planned frames no more were planned than fit there, the guard
  and one delay; jitter alone never restarts the schedule; the rate stays nominal
  (`ScheduleKept`). After cancellation at most the frame past its wait is sent
  (`AtMostOneAfterCancel`). What happens to a request follows from the seed, the
  fault set and the number of matching requests since the set came, whatever
  other kinds, methods and connections do (`Replayable`), and a lie is told, if
  at all, in the answer it was decided for (`LieOnOwnAnswer`). An entry made by a
  scan or a re-check whose size and time match the disk has the report of what is
  on disk (`ReportOfFile`); no file is deleted that a camera was added from
  (`DeleteSparesInUse`); pruning spares entries whose file is there, and an
  undisturbed scan lists the disk (`ScanTruthful`).
- **dashboard**. `active` is exactly the analyses in flight
  (`ActiveIsInFlight`); a forgotten or replaced test says nothing
  (`OnlyCurrentSpeaks`); when Cancel or Forget returns the analysis is over and a
  current record is final (`CancelSettles`); Cancel, Forget and Close return
  (`CallsReturn`). Of the fleet files and flags only those start whose faults
  the engines can work with, whose ids are distinct, which tell clients no wildcard
  that is written as an address, and which answer multicast with no loopback
  address, but where an advertised name leads (`StartedFleetSound`). That takes the
  rules of the file and the ONVIF server's look at the address it has bound. No
  test runs and no request is served by a closed fleet, but for handlers that
  outlived the grace period, and nothing is left when `run` returns
  (`ShutdownOrder`), which it does after a signal without the help of any client
  (`RunReturns`).
- **watching**. No channel of the feed is closed twice or sent on after its end
  (`EndedOnce`); a subscriber loses its subscription only for its own context, a
  close, or a full buffer (`DroppedForCause`); its goroutine returns
  (`NoWatcherLeak`); and all of it implements `FeedLog`, in which a subscriber
  has an unbroken stretch of the log (`FeedImplementsLog`). Requests for one
  camera share one capture of that very camera, and nobody joins one whose answer
  has gone out (`SharedCapture`); slots are neither lost nor exceeded
  (`SlotsKept`); every request is answered (`RequestsAnswered`). The GPU is read
  once at a time, and a caller waits only for the first reading
  (`OneReading`); each subscription to samples ends once, and after Close nothing
  of the sampler runs (`SamplerQuiet`); Close and Current return
  (`SamplerReturns`).

**Fairness.** Weak fairness is assumed of steps that some goroutine has only to
take: the remainder of a call that has begun, the goroutine of a subscription
whose `select` has a ready case, a handler that has its answer, a test, a capture
or a GPU reading, which end at their timeout at the latest. The Go scheduler runs
what can run, and `sync.Mutex` starves nobody. Nothing is assumed of clients: no
request, no receive, no end of a session or a stream by the client's wish; nor of
a responder, which Start gives up waiting for by a timer. In `Command`, handlers
of the kind "slow" are never assumed to end; a short one is, and a stream once
its context has.

Three assumptions are stronger than weak fairness of one step. In `RtspServer`,
`PumpExit` is strongly fair, because a pump that was told to stop may take a frame
first; it sees its context before the next one. In `Sampler`, `TickerExits` is
strongly fair, because the ticker's `select` may take a tick although the context
has ended: Go chooses at random among the cases that are ready, so that the end is
not passed over for ever. In `Fleet`, RemoveCamera's step at the RTSP server,
which waits for a pump, is a step that ends, which is what `RtspServer` shows.
Weak fairness of `Frame` says that a running pump gets to its next frame, as its
clock ticks.

## Findings

Seven comments promise more than the code keeps. Each has a run of its own, which
TLC finishes with a counterexample of a few steps:

1. `fleet_handle`: Inject reads the handle's removed flag, then sets faults by
   id (`camfarm.go:724-727`). A removal and an add of the same id in between, and
   the old handle changes the new camera, against `camfarm.go:133-134`.
2. `rtsp_stale`: a PLAY that looked its camera up before the camera was removed
   arms its session after the removal has disarmed all sessions
   (`server.go:700-716`). The next camera on the path ends the session, against
   `server.go:520-521`.
3. `rtsp_late`: `afterFrame` picks the sessions to end, releases the lock and
   ends them (`control.go:233-241`). SetFaults removes the teardown fault in
   between, and the session is ended by it all the same, against
   `control.go:131-132`.
4. `onvif_close`: an aborted Start clears its fields first and stops its
   responder afterwards (`server.go:341-358`). A Close in between finds nothing to
   do and returns with the responder running, against `server.go:388-389`.
5. `sampler_order`: `collect` decides under `mu` that a sample is the latest, and
   its caller publishes it after taking `mu` again (`sampler.go:243-248`, `154-156`,
   `196-199`). A newer sample may be stored in between, against
   `docs/superpowers/specs/2026-10-12-host-metrics-design.md:154`; if it has been
   published by then too, subscribers see time run backwards.
6. `control_replay`: a PLAY is counted by `Decide` and drawn for teardown later,
   without its index (`server.go:704-712`). If SetFaults swaps the set in between,
   the PLAY falls under a set that, by the index SetAt returns, came after it; and
   two PLAYs may draw in the other order. The outcome depends on scheduling,
   against `internal/seed/seed.go:3-5`. What does hold is `Replayable`.
7. `wildcard_told`: `isWildcardHost` reads a host with `net.ParseIP`, which knows
   no zones (`spec.go:228-231`). A `listen.host` of `::%eth0` needs no advertised
   host therefore, is bound by both servers (`internal/rtsp/server.go:254`,
   `internal/onvif/server.go:292`), and the unspecified address that was bound is in
   every URL, against `spec.go:234-235`. So it is with `[]`, and with a name or a
   number that the resolver takes to a wildcard. For loopback under multicast the
   ONVIF server looks at the bound address, and there the same does not happen.

The windows of the first six are short. The first two install state on the wrong
camera, the third and fourth end in the state that was asked for a little late, the
fifth publishes a sample that is no longer the latest, and the sixth makes a replay
of concurrent PLAYs differ. The seventh needs no timing, but a host that few will
write.

## Proofs

Eight modules hold theorems, for all values of the constants that the named
assumptions allow: every safety property and every action property that a
passing run checks, and both refinements, are proved, and a few more that no run
needs (`NoGap`, `JournalAlternates`, `NoWaitForAWaiter`). Each proof strengthens its
property to an inductive invariant, `Init => Inv` and `Inv /\ [Next]_vars => Inv'`,
with one lemma or step for each action and under it one step for each conjunct
that the action can disturb. TLC found the properties to hold on the runs'
instances before they were proved.

`Fleet_proofs`: `RegistriesSound`, `SourcesExact`, `JournalAlternates`,
`IndexNeverReused`, `FleetImplementsRoster`.

1. `Typed`: the types, and that a caller in a call has the camera, id and media
   that its step needs.
2. `RegInv`: only the holder of `mu` is adding; whoever is removing an id owns it
   (no one else is removing it, the fleet does not have it, the servers it has not
   come to yet do); an add past the RTSP server is in its table. That gives
   `RegistriesAgree`. `Answered`, which adds who is responsible for a surplus entry,
   gives `NoOrphan`. `RegistriesSound` is both.
3. `Counted`: the index of every handle, and of an add under way, is below
   `nextIndex`, or equal to what the add was given. `IndexNeverReused` follows as an
   action property.
4. `Cached`: the cache is the media in use, and while an add is under way possibly
   the one it loaded; parses of one key in use are one parse.
5. `Journaled`: the last coming or going of an id is a coming just while the fleet
   has it or its removal is on its way to the journal. An add then finds a going
   last, because a removal that is still to be journaled keeps the id in the
   servers (`RegInv`).
6. The refinement needs `RegInv` alone: the life of an id is where its one remover
   is (`RemoverKnows`), and every step turns at most one life (`RosterStep`).

Assumptions: `Fixture` is no file, and `None` is none of the values it is told
apart from.

`Stream_proofs`: the recorder, the pump and the pacer, each under its own
specification.

- Recorder, `KeepsNewest`, for any capacity: the used slots, counted from `head`,
  hold the last `count` entries of the log, and `head` moves only when all are used.
  It is stated for `RecorderSpec`, whose steps record one event; the run checks the
  same definition in `Pump`, whose plans record several at a time.
- Pump, `FramesKept`, `HeldByRunningHold`, `ClockKept`, for any clip (whatever the
  times of its frames), fault sets and swaps. `PumpInv` says of the frames sent,
  planned and held that they are in line (`InLine`) and with the dropped and the
  failed ones account for every number once (`Accounted`); of the clock, that it
  follows from the number of frames (`ClockAt`), through the end of the clip; and
  of each frame that its stamp is its time on that clock and its shift (`Stamped`).
  `HoldRuns` bounds a hold by its set. A plan may pass through several queued sets:
  `InheritedIsChain` says that the engine it ends with is the end of a chain of
  links, in each of which one set takes over from the last. Its proof is an
  induction, written as the least counterexample, since the library's induction
  cannot be used here. `DriftSoFar` then says that the lag has not shrunk
  since any frame that the same delay has stamped. Assumptions: the clip starts at
  0, its durations and shifts are natural numbers, and the modulus of stamps and the
  unit of drift are positive.
- Pacer, `ScheduleKept`, `AtMostOneAfterCancel`, for any interval, guard, delay and
  stall. A frame is due within a delay of its slot (`DueSoon`) and was planned
  within the guard and a delay of it, even if the schedule has been restarted since
  (`PlannedOnTime`); by how much the loop and its schedule are late is bounded by the
  stalls there were (`Lateness`). Assumption: the interval is positive.

`ControlEngine_proofs`: `Replayable`, `LieOnOwnAnswer`, for any connections, fault
sets, streams and swaps. An entry's counter is the number of requests in the history
that match it since its set came (`EntriesCount`), for each kind apart, which is why
no other kind, method or connection can shift a draw; counting is done with the
cardinality of sets of requests. `DecidedRight` and `ArmedRight` then hold of each
request, once decided, for good. `LiesPending` ties a lie that waits to the request
its connection is answering. Assumption: a set has one fault of a kind, and one the
catalogue accepts (which bounds rates and counters).

`Library_proofs`: `ReportOfFile`, `DeleteSparesInUse`, `ScanTruthful`, for any
number of requests, names and contents. A content that was once on disk is used up:
a file that has lost it gets another one, just written or held back by an upload,
and never that one again (`Parts`, `DiskUsed`). So what is known about a file with a
used content, that a report is not of it or that the file has it no longer, stays
true until the entry is stored or pruned (`EntryGood`, `JobGood`, `ScanGood`).
`LockHeld` and `NotInUse` are about `libMu`, held through a re-check and its add, and
between the check of a deletion and the deletion. `QuietGood` is what an undisturbed scan knows at each stage. Assumptions:
there is a name to upload under and an upload slot, and `None` is no other value.

`Dashboard_proofs`: the quality runner and the command.

- Quality, `ActiveIsInFlight`, `CancelSettles`, `OnlyCurrentSpeaks`. `Settled`: a
  current test past its record has a final state. `DoneIsGone`: what a Cancel or
  Forget waited for has left. Assumptions: the limit and the buffer are positive,
  `None` is no camera and no number.
- Command, `ShutdownOrder`, `StartedFleetSound`. `StageOK` says at each stage of
  `run` which parts are up. That a validated fleet is `Sound`
  (`ValidatedIsSound`) is worked out rule by rule from the tables: no probability
  exceeds one and nothing divides by zero (`AcceptedIsWorkable`), no wildcard is
  told that is written as an address, no loopback by multicast but where an
  advertised name leads, and no two cameras share a path. For loopback it also takes
  that the listeners were let up (`Listens`). Assumption:
  a host is one of the kinds of text the code's parsers tell apart, and parameters
  that are numbers are numbers, of any size and sign. The provers reason about the
  tables with strings once each rule has a lemma of its own.

`RtspServer_proofs`: `ArmingSound`, `NoWriteToClosedStream`, for any number of
sessions, of which the run has one, and of cameras. What has to be added is
`Stages`: before Start there is no camera, and once Close has waited for the pumps
none runs. The types carry more than usual: what a request, an arming or the slice
of afterFrame names is a camera that was added. Assumption: a teardown fault lets at
least one frame pass, which `checkParams` demands.

`OnvifServer_proofs`: `AdvertisedAreServed`, `NothingOrphaned`, `NoWaitForAWaiter`,
for any number of callers. `NothingOrphaned` says of every listener and responder
who will close it, so the invariant follows ownership: `Window` (while `starting` is
set, one Start is between its sections and the fields hold only its listener;
otherwise they are all of one Start), `Registered` (the advertised cameras are the
server's, through windows too), `Responders` and `Listeners` (each is owned by a
Start that will settle or undo it, by the fields, or by a Close that took it),
`Servers` (only a published server is ever served or taken), and `Waits` (the Start
that a Close waits for is told to abort, or has failed). `Closers` adds that
`closing` is the one Close that has taken the fields, which no longer waits. So the
graph of waits has no path of two edges, and no circle: the part of `OnvifCloseReturns`
that is not about fairness. Assumption: `Nobody` is no caller.

`Watching_proofs`: the feed, the snapshots and the sampler.

- Feed, `EndedOnce`, `DroppedForCause`, `FeedImplementsLog`. `EndedOnce` is inductive
  given the types. `DroppedForCause` needs that a goroutine which is about to end its
  subscription has seen its context end. The refinement rests on `NoGap`: what is
  buffered continues the journal from the last event received. That needs the
  journal's entries to be numbered by their place, and its length to be `seq`. A
  Receive then is a `ReadNext` because the head of a buffer is the entry after the
  last one received. Assumption: `Buffer` is positive.
- Snapshots, `SharedCapture`, `SlotsKept`, for any number of slots, viewers and
  captures. `ListedOwn`: a handle lists a flight of its own. `SlotByStage`: a flight
  has its slot from Acquire to Release, whatever the capture does; `SlotsKept` counts
  them. Assumption: there is a slot.
- Sampler, `OneReading`, `SamplerQuiet`. `Readings` ties `inflight` to the one
  goroutine that runs, and says there is no second reading before the first has
  told, which is why whoever waits waits for the first. `NoneListed` says that a
  closed sampler has no subscriber in its map, so that a channel is ended once.
  Assumptions: the ticker is no caller of Current, and channels hold something.

A theorem is about the module's own specification (`Spec`, `OnvifSpec`, `PacerSpec`,
`ControlSpec`, `LibrarySpec`, `CommandSpec`, `RecorderSpec`, `SnapSpec`,
`SamplerSpec`); where modules share a run, the run checks the same definitions under
the sum of several.

Only model-checked is liveness, since the prover reaches neither fairness nor
`ENABLED`: `RemovedEverywhere`, `ArmingEnds`, `CloseReturns`, `OnvifCloseReturns`, `NoWatcherLeak`,
`RequestsAnswered`, `SamplerReturns`, `CallsReturn` and `RunReturns`. What is not
covered by the proofs otherwise is the tie between modules: that a `Pump` does to its
ring what a `RecorderSpec` does several times over, and that one module stands for
another as [Modules](#modules) says.

## Not modelled

- Parsers of media files (`internal/media`), SDP rewriting, seeds, the ONVIF
  request path: pure functions of one input, better served by the tests they
  have.
- Decoding of the fleet file's JSON, the characters of host names and ids, and the
  hash of a spec. `FleetFile` has what the rules decide once those are known.
- Screenshots, the readers of `/proc` and of `nvidia-smi` with the rates computed
  from two of their readings, and the web page: I/O and arithmetic.
- `packet_loss` in the pump, and counters per camera and kind in `internal/obs`,
  which are increments under the lock of the ring.
- `Fleet.Start`, which runs before any other call can, per-frame faults in `Fleet`,
  and fleets without an ONVIF side.
- Library roots added or removed at run time, and what a walk skips.
- The second signal, which kills the process, and the flags of `run` other than
  those that change a fleet file.

## Plan

Done: every component of the table above, as far as [Not modelled](#not-modelled)
leaves it, and the proofs above.

Next to model, most important first:

1. In `Fleet`, faults of the per-frame class, which the pump applies later than
   the call that set them, and their order in the journal.
2. `packet_loss` in `Pump`: frames with packets, of which a fault removes some, and
   the sequence numbers that show it.
3. Several roots in `Library`, with one removed while it is scanned.

Next to prove:

1. `Pump` with its ring: `KeepsNewest` for plans that record several events at once.
2. For more of the calls that wait, what `NoWaitForAWaiter` is to the ONVIF server:
   Cancel, Forget and Close of the quality runner, and the close of the RTSP server,
   wait for a goroutine that waits for no call.
3. An abstract specification of the quality runner, of which a dashboard sees one
   test after another per camera, implemented by `Quality`.
