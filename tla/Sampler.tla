------------------------------- MODULE Sampler -------------------------------
(***************************************************************************)
(* The host metrics of the dashboard (internal/hostmetrics/sampler.go).    *)
(* Samples are taken by the ticker goroutine while somebody watches, and   *)
(* by requests that find the latest one too old.  A sample takes its time  *)
(* under one lock, waits for the GPU under another, is stored under a      *)
(* third and published to the subscribers under that lock again.  The GPU  *)
(* is read by a goroutine of its own beside the sample that asked for it.  *)
(*                                                                         *)
(* A sample is the time it was taken at; time 0 is before the first one.   *)
(* The counters and their rates are left out.                              *)
(***************************************************************************)
EXTENDS Naturals, Sequences, FiniteSets

CONSTANTS Askers,     \* the callers of Current
          Watchers,   \* the subscribers
          FreshFor,   \* Current takes a sample younger than this
          IdleAfter,  \* Options.IdleAfter
          GpuRetry,   \* Options.GPURetry
          ChanSize,   \* eventBuffer
          MaxClock,   \* bound on the clock
          MaxReadings \* bound on the GPU readings

Ticker == "ticker"
Threads == Askers \cup {Ticker}

ASSUME SamplerAssumption ==
  /\ Ticker \notin Askers
  /\ {FreshFor, IdleAfter, GpuRetry, MaxClock, MaxReadings} \subseteq Nat
  /\ ChanSize \in Nat \ {0}

VARIABLES clock,
          latest,    \* the time of Sampler.latest, 0 without one
          wanted,    \* wantedUntil
          listeners, \* the subscribers in Sampler.subs
          channel,   \* each subscriber's channel: what is in it
          ends,      \* how often each channel has been closed
          watching,  \* the subscribers whose goroutine runs
          thread,    \* where the ticker and the callers are
          gpu,       \* Sampler.g without done
          readings,  \* the stage of each GPU reading; the last one's is g.done
          closer     \* Close: "open", "waiting" or "returned"

samplerVars == <<clock, latest, wanted, listeners, channel, ends, watching, thread,
                 gpu, readings, closer>>

samplerClosed == closer # "open"
Resting == [pc |-> "idle", time |-> 0, wait |-> 0]

SamplerInit ==
  /\ clock = 1 /\ latest = 0 /\ wanted = 0
  /\ listeners = {} /\ watching = {}
  /\ channel = [w \in Watchers |-> <<>>] /\ ends = [w \in Watchers |-> 0]
  /\ thread = [t \in Threads |-> Resting]
  /\ gpu = [have |-> FALSE, available |-> FALSE, missing |-> FALSE, inflight |-> FALSE, at |-> 0]
  /\ readings = <<>>
  /\ closer = "open"

ClockTick ==
  /\ clock < MaxClock
  /\ clock' = clock + 1
  /\ UNCHANGED <<latest, wanted, listeners, channel, ends, watching, thread, gpu, readings, closer>>

Stands(t, pc) == thread[t].pc = pc
Goto(t, pc) == thread' = [thread EXCEPT ![t].pc = pc]
Rest(t) == thread' = [thread EXCEPT ![t] = Resting]

(***************************************************************************)
(* Who samples: the ticker and Current.                                    *)
(***************************************************************************)
(* A tick, when somebody watches; otherwise it changes nothing.            *)
Tick ==
  /\ Stands(Ticker, "idle")
  /\ listeners # {} \/ clock < wanted
  /\ Goto(Ticker, "count")
  /\ UNCHANGED <<clock, latest, wanted, listeners, channel, ends, watching, gpu, readings, closer>>

(* The ticker goroutine sees the end of the sampler.                       *)
TickerExits ==
  /\ Stands(Ticker, "idle") /\ samplerClosed
  /\ Goto(Ticker, "exited")
  /\ UNCHANGED <<clock, latest, wanted, listeners, channel, ends, watching, gpu, readings, closer>>

(* Current touches the sampler; a young sample is enough.                  *)
Current(t) ==
  /\ Stands(t, "idle")
  /\ wanted' = clock + IdleAfter
  /\ Goto(t, "ask")
  /\ UNCHANGED <<clock, latest, listeners, channel, ends, watching, gpu, readings, closer>>

Ask(t) ==
  /\ Stands(t, "ask")
  /\ IF latest > 0 /\ clock - latest < FreshFor THEN Rest(t) ELSE Goto(t, "count")
  /\ UNCHANGED <<clock, latest, wanted, listeners, channel, ends, watching, gpu, readings, closer>>

(***************************************************************************)
(* collect and publish.                                                    *)
(***************************************************************************)
(* The section under cmu: the counters, and the time of the sample.        *)
Count(t) ==
  /\ Stands(t, "count")
  /\ thread' = [thread EXCEPT ![t] = [pc |-> "gpu", time |-> clock, wait |-> 0]]
  /\ UNCHANGED <<clock, latest, wanted, listeners, channel, ends, watching, gpu, readings, closer>>

(* mutant: a reading is due although one is in flight.                     *)
DueBesideAnother(now) ==
  ~gpu.missing /\ (~gpu.have \/ gpu.available \/ now >= gpu.at + GpuRetry)
(* gpu: a reading is due unless one is in flight or nvidia-smi is missing; *)
(* after a failure only once GpuRetry has passed.                          *)
Due(now) ==
  /\ ~gpu.inflight /\ ~gpu.missing
  /\ ~gpu.have \/ gpu.available \/ now >= gpu.at + GpuRetry

(* mutant: a closed sampler still starts one.                              *)
MayStartAlways == TRUE
MayStart == ~samplerClosed

(* mutant: a caller waits although no reading was started.                 *)
AwaitsNothing(t, n) == t # Ticker /\ ~gpu.have
(* Current waits for the first reading, the nth, if there is one.          *)
Awaits(t, n) == t # Ticker /\ ~gpu.have /\ n > 0

(* gpu: start a reading that is due.                                       *)
StartReading(t) ==
  LET starts == Due(thread[t].time) /\ MayStart
      n == IF starts THEN Len(readings) + 1 ELSE Len(readings)
  IN  /\ Stands(t, "gpu")
      /\ readings' = IF starts THEN Append(readings, "running") ELSE readings
      /\ gpu' = IF starts THEN [gpu EXCEPT !.inflight = TRUE] ELSE gpu
      /\ thread' = [thread EXCEPT ![t].pc = IF Awaits(t, n) THEN "wait" ELSE "store",
                                  ![t].wait = IF Awaits(t, n) THEN n ELSE 0]
      /\ UNCHANGED <<clock, latest, wanted, listeners, channel, ends, watching, closer>>

(* The wait ends with that reading, or with the request.                   *)
ReadingAwaited(t) ==
  /\ Stands(t, "wait") /\ thread[t].wait \in DOMAIN readings /\ readings[thread[t].wait] = "ended"
  /\ Goto(t, "store")
  /\ UNCHANGED <<clock, latest, wanted, listeners, channel, ends, watching, gpu, readings, closer>>

WaitAbandoned(t) ==
  /\ Stands(t, "wait")
  /\ Goto(t, "store")
  /\ UNCHANGED <<clock, latest, wanted, listeners, channel, ends, watching, gpu, readings, closer>>

(* Not older than the one that is there.                                   *)
Newer(t) == thread[t].time >= latest

(* collect stores the sample unless a newer one is there.                  *)
Store(t) ==
  /\ Stands(t, "store")
  /\ latest' = IF Newer(t) THEN thread[t].time ELSE latest
  /\ IF Newer(t) THEN Goto(t, "publish") ELSE Rest(t)
  /\ UNCHANGED <<clock, wanted, listeners, channel, ends, watching, gpu, readings, closer>>

ChannelFull(w) == Len(channel[w]) = ChanSize

(* publish: a subscriber whose channel is full is dropped.                 *)
PublishSample(t) ==
  /\ Stands(t, "publish")
  /\ channel' = [w \in Watchers |-> IF w \in listeners /\ ~ChannelFull(w) THEN Append(channel[w], thread[t].time)
                                    ELSE channel[w]]
  /\ listeners' = {w \in listeners : ~ChannelFull(w)}
  /\ ends' = [w \in Watchers |-> IF w \in listeners /\ ChannelFull(w) THEN ends[w] + 1 ELSE ends[w]]
  /\ Rest(t)
  /\ UNCHANGED <<clock, latest, wanted, watching, gpu, readings, closer>>

(***************************************************************************)
(* runGPU: the reading is stored, then whoever waits for it is told.  The  *)
(* bound: the last reading of all finds nvidia-smi missing.                *)
(***************************************************************************)
ReadingEnds(i, r) ==
  /\ i \in DOMAIN readings /\ readings[i] = "running"
  /\ i = MaxReadings => r = "missing"
  /\ gpu' = [have |-> TRUE, available |-> r = "available", missing |-> r = "missing",
             inflight |-> FALSE, at |-> clock]
  /\ readings' = [readings EXCEPT ![i] = "stored"]
  /\ UNCHANGED <<clock, latest, wanted, listeners, channel, ends, watching, thread, closer>>

ReadingTold(i) ==
  /\ i \in DOMAIN readings /\ readings[i] = "stored"
  /\ readings' = [readings EXCEPT ![i] = "ended"]
  /\ UNCHANGED <<clock, latest, wanted, listeners, channel, ends, watching, thread, gpu, closer>>

(***************************************************************************)
(* Subscribers.                                                            *)
(***************************************************************************)
(* Subscribe; a closed sampler returns a channel that has ended.           *)
SubscribeSamples(w) ==
  /\ ends[w] = 0 /\ w \notin listeners
  /\ IF samplerClosed
     THEN /\ ends' = [ends EXCEPT ![w] = 1]
          /\ UNCHANGED <<listeners, watching>>
     ELSE /\ listeners' = listeners \cup {w}
          /\ watching' = watching \cup {w}
          /\ UNCHANGED ends
  /\ UNCHANGED <<clock, latest, wanted, channel, thread, gpu, readings, closer>>

ReceiveSample(w) ==
  /\ channel[w] # <<>>
  /\ channel' = [channel EXCEPT ![w] = Tail(@)]
  /\ UNCHANGED <<clock, latest, wanted, listeners, ends, watching, thread, gpu, readings, closer>>

(* mutant: dropLocked does not look whether the subscriber is still there. *)
DropAgain(w) ==
  /\ listeners' = listeners \ {w}
  /\ ends' = [ends EXCEPT ![w] = @ + 1]
Drop(w) ==
  /\ listeners' = listeners \ {w}
  /\ ends' = IF w \in listeners THEN [ends EXCEPT ![w] = @ + 1] ELSE ends

(* The subscriber's context ends.                                          *)
Leave(w) ==
  /\ w \in watching
  /\ Drop(w)
  /\ watching' = watching \ {w}
  /\ UNCHANGED <<clock, latest, wanted, channel, thread, gpu, readings, closer>>

(* The goroutine of a subscriber that has been dropped ends.               *)
WatchEnds(w) ==
  /\ w \in watching \ listeners
  /\ watching' = watching \ {w}
  /\ UNCHANGED <<clock, latest, wanted, listeners, channel, ends, thread, gpu, readings, closer>>

(***************************************************************************)
(* Close: mark, drop every subscriber, and wait for the goroutines.        *)
(***************************************************************************)
CloseSampler ==
  /\ ~samplerClosed
  /\ closer' = "waiting"
  /\ listeners' = {}
  /\ ends' = [w \in Watchers |-> IF w \in listeners THEN ends[w] + 1 ELSE ends[w]]
  /\ UNCHANGED <<clock, latest, wanted, channel, watching, thread, gpu, readings>>

SamplerCloseReturns ==
  /\ closer = "waiting"
  /\ Stands(Ticker, "exited") /\ watching = {}
  /\ \A i \in DOMAIN readings : readings[i] = "ended"
  /\ closer' = "returned"
  /\ UNCHANGED <<clock, latest, wanted, listeners, channel, ends, watching, thread, gpu, readings>>

Sampling(t) ==
  Count(t) \/ StartReading(t) \/ ReadingAwaited(t) \/ Store(t) \/ PublishSample(t)
Reading(i) ==
  \/ \E r \in {"available", "failed", "missing"} : ReadingEnds(i, r)
  \/ ReadingTold(i)

SamplerNext ==
  \/ ClockTick
  \/ Tick \/ TickerExits
  \/ \E t \in Askers : Current(t) \/ Ask(t) \/ WaitAbandoned(t)
  \/ \E t \in Threads : Sampling(t)
  \/ \E i \in 1 .. MaxReadings : Reading(i)
  \/ \E w \in Watchers : SubscribeSamples(w) \/ ReceiveSample(w) \/ Leave(w) \/ WatchEnds(w)
  \/ CloseSampler \/ SamplerCloseReturns

SamplerSpec == SamplerInit /\ [][SamplerNext]_samplerVars

(* Goroutines and calls go on, and a reading ends, at the latest when its  *)
(* timeout does.  The ticker selects between its ticks and the end of the  *)
(* sampler: Go chooses at random among those that are ready, so the end is *)
(* not passed over for ever.  A client need not go away.                   *)
SamplerFair ==
  /\ \A t \in Threads : WF_samplerVars(Sampling(t))
  /\ \A t \in Askers : WF_samplerVars(Ask(t))
  /\ \A i \in 1 .. MaxReadings : WF_samplerVars(Reading(i))
  /\ SF_samplerVars(TickerExits) /\ WF_samplerVars(SamplerCloseReturns)
  /\ \A w \in Watchers : WF_samplerVars(WatchEnds(w))

(***************************************************************************)
(* Properties.                                                             *)
(***************************************************************************)
ThreadState == [pc : {"idle", "ask", "count", "gpu", "wait", "store", "publish", "exited"},
                time : Nat, wait : Nat]

(* Every variable has its type, and no channel holds more than it can.     *)
SamplerTypeOK ==
  /\ clock \in Nat /\ latest \in Nat /\ wanted \in Nat
  /\ listeners \subseteq Watchers /\ watching \subseteq Watchers
  /\ channel \in [Watchers -> Seq(Nat)] /\ ends \in [Watchers -> Nat]
  /\ \A w \in Watchers : Len(channel[w]) <= ChanSize
  /\ thread \in [Threads -> ThreadState]
  /\ gpu \in [have : BOOLEAN, available : BOOLEAN, missing : BOOLEAN, inflight : BOOLEAN, at : Nat]
  /\ readings \in Seq({"running", "stored", "ended"})
  /\ closer \in {"open", "waiting", "returned"}

(* nvidia-smi runs at most once at a time, although samples overlap; a     *)
(* caller waits for a reading only while there has been none, so that it   *)
(* is the reading which runs or has just been told.                        *)
OneReading ==
  /\ Cardinality({i \in DOMAIN readings : readings[i] = "running"}) <= 1
  /\ gpu.inflight <=> \E i \in DOMAIN readings : readings[i] = "running"
  /\ \A t \in Askers : Stands(t, "wait") => thread[t].wait = 1

(* Subscribers come and go as they like, and each one's channel is closed  *)
(* once, with nothing sent on it afterwards, whoever is first of a full    *)
(* channel, its context and Close.  When Close has returned, no goroutine  *)
(* of the sampler is left and none will start again, though calls of       *)
(* Current may still be under way.                                         *)
SamplerQuiet ==
  /\ \A w \in Watchers : ends[w] <= 1 /\ (w \in listeners => ends[w] = 0)
  /\ closer = "returned" =>
       /\ \A i \in DOMAIN readings : readings[i] = "ended"
       /\ listeners = {} /\ watching = {} /\ Stands(Ticker, "exited")

(* Close returns, with samples and readings in any state, and so does      *)
(* every call of Current.                                                  *)
SamplerReturns ==
  /\ closer = "waiting" ~> closer = "returned"
  /\ \A t \in Askers : ~Stands(t, "idle") ~> Stands(t, "idle")

(* The comment at collect says that a sample older than the latest is      *)
(* never published.                                                        *)
OlderNotPublished ==
  [][\A w \in Watchers :
       Len(channel'[w]) > Len(channel[w]) => channel'[w][Len(channel'[w])] >= latest]_samplerVars
=============================================================================
