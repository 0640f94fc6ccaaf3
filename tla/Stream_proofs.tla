---------------------------- MODULE Stream_proofs -----------------------------
(***************************************************************************)
(* What a stream is made of, for every clip, fault and schedule:           *)
(* the ring of the frame faults' events, the pump with the frame faults,   *)
(* and the schedule of the driver loop.                                    *)
(***************************************************************************)
EXTENDS Pump, Pacer, Integers, SequenceTheorems, WellFoundedInduction, TLAPS

(***************************************************************************)
(* The ring of events holds the newest ones, in order: it does not turn    *)
(* before it is full, and its slots from head on are the end of the log.   *)
(***************************************************************************)
(* Below the modulus nothing is taken off, up to twice it one turn is.     *)
LEMMA ModOneTurn ==
  ASSUME NEW M \in Nat, NEW x \in Nat, M > 0, x < 2 * M
  PROVE  x % M = IF x < M THEN x ELSE x - M
  OBVIOUS

(* While the ring fills it has not turned and nothing was discarded.       *)
RingShape ==
  /\ MaxEvents > 0 => rec.head < MaxEvents
  /\ rec.count < MaxEvents => rec.head = 0 /\ rec.dropped = 0
  /\ rec.count + rec.dropped = Len(log)

(* Its slots, from head on, are the end of the log.                        *)
RingIsLogEnd ==
  \A i \in 1 .. rec.count : rec.events[(rec.head + i - 1) % MaxEvents] = log[rec.dropped + i]

RingInv == RecorderTypeOK /\ RingShape /\ RingIsLogEnd

(* What Put does to a ring with room, and to a full one.                   *)
LEMMA PutFacts ==
  ASSUME NEW r \in Rings, NEW ev \in Event,
         MaxEvents > 0 => r.head < MaxEvents,
         r.count < MaxEvents => r.head = 0
  PROVE  /\ Put(r, ev) \in Rings
         /\ MaxEvents = 0 => /\ Put(r, ev).count = r.count /\ Put(r, ev).head = r.head
                             /\ Put(r, ev).dropped = r.dropped + 1
         /\ r.count < MaxEvents =>
              /\ Put(r, ev).events = [r.events EXCEPT ![r.count] = ev]
              /\ Put(r, ev).count = r.count + 1
              /\ Put(r, ev).head = 0
              /\ Put(r, ev).dropped = r.dropped
         /\ MaxEvents > 0 /\ r.count = MaxEvents =>
              /\ Put(r, ev).events = [r.events EXCEPT ![r.head] = ev]
              /\ Put(r, ev).count = r.count
              /\ Put(r, ev).head = IF r.head + 1 < MaxEvents THEN r.head + 1 ELSE 0
              /\ Put(r, ev).dropped = r.dropped + 1
<1> USE RecorderAssumption DEF RecorderAssumption
<1>1. /\ r.events \in [Slots -> Event \cup {Unset}]
      /\ r.head \in Nat /\ r.count \in 0 .. MaxEvents /\ r.dropped \in Nat
  BY DEF Rings
<1>q. PICK q : q = Put(r, ev)
  OBVIOUS
<1>2. CASE MaxEvents = 0
  <2>1. q = Discard(r)
    BY <1>q, <1>2 DEF Put
  <2>2. /\ q.events = r.events /\ q.head = r.head /\ q.count = r.count
        /\ q.dropped = r.dropped + 1 /\ q \in Rings
    BY <1>1, <2>1 DEF Rings, Discard
  <2> QED BY <1>q, <1>1, <1>2, <2>2
<1>3. CASE r.count < MaxEvents
  <2>1. r.head + r.count = r.count /\ r.count \in Nat /\ r.count < 2 * MaxEvents /\ MaxEvents > 0
    BY <1>1, <1>3
  <2>2. (r.head + r.count) % MaxEvents = r.count /\ r.count \in Slots
    BY <1>3, <2>1, ModOneTurn DEF Slots
  <2>3. q = Fill(r, r.count, ev)
    BY <1>q, <1>1, <1>3, <2>1, <2>2 DEF Put
  <2>4. /\ q.events = [r.events EXCEPT ![r.count] = ev] /\ q.head = r.head
        /\ q.count = r.count + 1 /\ q.dropped = r.dropped
    BY <1>1, <2>3 DEF Rings, Fill
  <2>5. /\ [r.events EXCEPT ![r.count] = ev] \in [Slots -> Event \cup {Unset}]
        /\ r.count + 1 \in 0 .. MaxEvents
    BY <1>1, <1>3, <2>2
  <2>6. q \in Rings
    BY <1>1, <2>3, <2>5 DEF Rings, Fill
  <2> QED BY <1>q, <1>1, <1>3, <2>1, <2>4, <2>6
<1>4. CASE MaxEvents > 0 /\ r.count = MaxEvents
  <2>1. r.head < MaxEvents /\ r.head + 1 \in Nat /\ r.head + 1 < 2 * MaxEvents
    BY <1>1, <1>4
  <2>a. MaxEvents \in Nat /\ MaxEvents > 0
    BY <1>4
  <2>2. (r.head + 1) % MaxEvents = IF r.head + 1 < MaxEvents THEN r.head + 1 ELSE r.head + 1 - MaxEvents
    BY <1>1, <2>1, <2>a, ModOneTurn
  <2>b. r.head \in Slots
    BY <1>1, <2>1, <2>a DEF Slots
  <2>3. /\ (r.head + 1) % MaxEvents = IF r.head + 1 < MaxEvents THEN r.head + 1 ELSE 0
        /\ (r.head + 1) % MaxEvents \in Nat
    BY <1>1, <2>1, <2>2
  <2>4. q = Overwrite(r, ev)
    BY <1>q, <1>1, <1>4 DEF Put
  <2>5. /\ q.events = [r.events EXCEPT ![r.head] = ev] /\ q.head = (r.head + 1) % MaxEvents
        /\ q.count = r.count /\ q.dropped = r.dropped + 1
    BY <1>1, <2>4 DEF Rings, Overwrite
  <2>6. [r.events EXCEPT ![r.head] = ev] \in [Slots -> Event \cup {Unset}]
    BY <1>1, <2>b
  <2>7. q \in Rings
    <3>1. r.dropped + 1 \in Nat
      BY <1>1
    <3>2. q = [events |-> [r.events EXCEPT ![r.head] = ev], head |-> (r.head + 1) % MaxEvents,
               count |-> r.count, dropped |-> r.dropped + 1]
      BY <1>1, <2>4 DEF Rings, Overwrite
    <3> QED BY <1>1, <2>3, <2>6, <3>1, <3>2 DEF Rings
  <2> QED BY <1>q, <1>1, <1>4, <2>3, <2>5, <2>7
<1> QED BY <1>1, <1>2, <1>3, <1>4

(* Recording an event keeps the ring the end of the log.                   *)
LEMMA FaultKeepsRing ==
  ASSUME RingInv, NEW w \in What, Fault(w)
  PROVE  RingInv'
<1> USE RecorderAssumption DEF RecorderAssumption
<1> DEFINE ev == [seq |-> Len(log) + 1, what |-> w]
<1>1. /\ rec \in Rings /\ log \in Seq(Event) /\ ev \in Event
      /\ rec' = Put(rec, ev) /\ log' = Append(log, ev)
  BY DEF RingInv, RecorderTypeOK, Fault, Event
<1>2. /\ rec.events \in [Slots -> Event \cup {Unset}]
      /\ rec.head \in Nat /\ rec.count \in 0 .. MaxEvents /\ rec.dropped \in Nat
  BY <1>1 DEF Rings
<1>3. /\ log' \in Seq(Event) /\ Len(log') = Len(log) + 1 /\ Len(log) \in Nat
      /\ log'[Len(log) + 1] = ev
      /\ \A i \in 1 .. Len(log) : log'[i] = log[i]
  BY <1>1
<1> HIDE DEF ev
<1>p. /\ rec' \in Rings
      /\ MaxEvents = 0 => rec'.count = rec.count /\ rec'.dropped = rec.dropped + 1
      /\ rec.count < MaxEvents =>
           /\ rec'.events = [rec.events EXCEPT ![rec.count] = ev]
           /\ rec'.count = rec.count + 1 /\ rec'.head = 0 /\ rec'.dropped = rec.dropped
      /\ MaxEvents > 0 /\ rec.count = MaxEvents =>
           /\ rec'.events = [rec.events EXCEPT ![rec.head] = ev]
           /\ rec'.count = rec.count
           /\ rec'.head = IF rec.head + 1 < MaxEvents THEN rec.head + 1 ELSE 0
           /\ rec'.dropped = rec.dropped + 1
  <2>1. (MaxEvents > 0 => rec.head < MaxEvents) /\ (rec.count < MaxEvents => rec.head = 0)
    BY DEF RingInv, RingShape
  <2> QED BY <1>1, <2>1, PutFacts
<1>r. /\ MaxEvents > 0 => rec.head < MaxEvents
      /\ rec.count < MaxEvents => rec.head = 0 /\ rec.dropped = 0
      /\ rec.count + rec.dropped = Len(log)
  BY DEF RingInv, RingShape
<1>4. RecorderTypeOK'
  BY <1>3, <1>p DEF RecorderTypeOK
<1>5. CASE MaxEvents = 0
  <2>1. rec'.count = 0 /\ rec'.dropped = rec.dropped + 1 /\ rec.count = 0
    BY <1>2, <1>5, <1>p
  <2>2. RingShape'
    BY <1>2, <1>3, <1>5, <1>r, <2>1 DEF RingShape
  <2>3. RingIsLogEnd'
    BY <2>1 DEF RingIsLogEnd
  <2> QED BY <1>4, <2>2, <2>3 DEF RingInv
<1>6. CASE rec.count < MaxEvents
  <2>1. /\ rec.head = 0 /\ rec.dropped = 0 /\ Len(log) = rec.count
        /\ rec'.head = 0 /\ rec'.dropped = 0 /\ rec'.count = rec.count + 1
        /\ rec'.events = [rec.events EXCEPT ![rec.count] = ev]
    BY <1>2, <1>3, <1>6, <1>p, <1>r
  <2>2. \A i \in 1 .. rec'.count : rec'.events[(rec'.head + i - 1) % MaxEvents] = log'[rec'.dropped + i]
    <3> SUFFICES ASSUME NEW i \in 1 .. rec.count + 1
                 PROVE  rec'.events[(0 + i - 1) % MaxEvents] = log'[0 + i]
      BY <2>1
    <3>a. /\ i - 1 \in Nat /\ i - 1 < MaxEvents /\ MaxEvents \in Nat /\ MaxEvents > 0
          /\ 0 + i - 1 = i - 1 /\ 0 + i = i
      BY <1>2, <1>6
    <3>b. (i - 1) % MaxEvents = i - 1 BY <3>a, ModOneTurn
    <3>1. (0 + i - 1) % MaxEvents = i - 1 /\ 0 + i = i /\ i - 1 \in Slots
      BY <3>a, <3>b DEF Slots
    <3>2. rec.count \in Slots
      BY <1>2, <1>6 DEF Slots
    <3>3. CASE i <= rec.count
      <4>1. i - 1 # rec.count /\ i \in 1 .. rec.count /\ i \in 1 .. Len(log)
        BY <1>2, <2>1, <3>3
      <4>2. rec'.events[i - 1] = rec.events[i - 1]
        BY <1>2, <2>1, <3>1, <4>1
      <4>3. rec.events[i - 1] = log[i]
        BY <2>1, <3>1, <4>1 DEF RingInv, RingIsLogEnd
      <4> QED BY <1>3, <3>1, <4>1, <4>2, <4>3
    <3>4. CASE i = rec.count + 1
      <4>1. i - 1 = rec.count /\ i = Len(log) + 1
        BY <1>2, <2>1, <3>4
      <4> QED BY <1>2, <1>3, <2>1, <3>1, <3>2, <4>1
    <3> QED BY <1>2, <3>3, <3>4
  <2>3. RingShape'
    BY <1>2, <1>3, <1>6, <2>1 DEF RingShape
  <2>4. RingIsLogEnd'
    BY <2>2 DEF RingIsLogEnd
  <2> QED BY <1>4, <2>3, <2>4 DEF RingInv
<1>7. CASE MaxEvents > 0 /\ rec.count = MaxEvents
  <2>1. /\ rec.head < MaxEvents
        /\ rec'.head = (IF rec.head + 1 < MaxEvents THEN rec.head + 1 ELSE 0)
        /\ rec'.dropped = rec.dropped + 1 /\ rec'.count = rec.count
        /\ rec'.events = [rec.events EXCEPT ![rec.head] = ev]
        /\ Len(log) = rec.count + rec.dropped
    BY <1>2, <1>7, <1>p, <1>r
  <2>i. /\ MaxEvents \in Nat /\ MaxEvents > 0 /\ rec.head \in Nat /\ rec.dropped \in Nat
        /\ rec.head < MaxEvents
        /\ rec'.head = (IF rec.head + 1 < MaxEvents THEN rec.head + 1 ELSE 0)
        /\ Len(log) = MaxEvents + rec.dropped /\ rec.count = MaxEvents
    BY <1>2, <1>7, <2>1
  <2>2. \A i \in 1 .. rec'.count : rec'.events[(rec'.head + i - 1) % MaxEvents] = log'[rec'.dropped + i]
    <3> SUFFICES ASSUME NEW i \in 1 .. MaxEvents
                 PROVE  rec'.events[(rec'.head + i - 1) % MaxEvents] = log'[rec.dropped + 1 + i]
      BY <1>2, <1>7, <2>1
    <3> DEFINE slot == IF rec.head + i < MaxEvents THEN rec.head + i ELSE rec.head + i - MaxEvents
    <3>a. /\ MaxEvents \in Nat /\ rec.head \in Nat /\ rec'.head \in Nat /\ slot \in Nat
          /\ rec'.head + i - 1 \in Nat /\ rec'.head + i - 1 < 2 * MaxEvents
          /\ slot < MaxEvents
          /\ slot = IF rec'.head + i - 1 < MaxEvents THEN rec'.head + i - 1
                    ELSE rec'.head + i - 1 - MaxEvents
      <4>1. CASE rec.head + 1 < MaxEvents
        <5>1. /\ rec'.head = rec.head + 1 /\ rec'.head + i - 1 = rec.head + i
              /\ rec.head + i \in Nat /\ rec.head + i < 2 * MaxEvents
          BY <2>i, <4>1
        <5>2. CASE rec.head + i < MaxEvents
          <6>1. slot = rec.head + i BY <5>2
          <6> QED BY <2>i, <5>1, <5>2, <6>1
        <5>3. CASE ~(rec.head + i < MaxEvents)
          <6>1. slot = rec.head + i - MaxEvents BY <5>3
          <6>2. rec.head + i - MaxEvents \in Nat /\ rec.head + i - MaxEvents < MaxEvents
            BY <2>i, <5>1, <5>3
          <6> QED BY <2>i, <5>1, <5>3, <6>1, <6>2
        <5> QED BY <5>2, <5>3
      <4>2. CASE rec.head + 1 = MaxEvents
        <5>1. rec'.head = 0 /\ rec.head = MaxEvents - 1
          BY <2>i, <4>2
        <5>2. slot = i - 1
          BY <2>i, <5>1
        <5> QED BY <2>i, <5>1, <5>2
      <4> QED BY <2>i, <4>1, <4>2
    <3> HIDE DEF slot
    <3>1. (rec'.head + i - 1) % MaxEvents = slot /\ slot \in Slots
      BY <1>7, <3>a, ModOneTurn DEF Slots
    <3>2. rec.head \in Slots
      BY <1>2, <1>7, <2>1 DEF Slots
    <3>3. CASE i < MaxEvents
      <4>1. /\ slot # rec.head /\ i + 1 \in 1 .. rec.count
            /\ rec.dropped + 1 + i \in 1 .. Len(log) /\ rec.dropped + (i + 1) = rec.dropped + 1 + i
        BY <2>i, <3>3 DEF slot
      <4>a. /\ rec.head + (i + 1) - 1 \in Nat /\ rec.head + (i + 1) - 1 < 2 * MaxEvents
            /\ slot = IF rec.head + (i + 1) - 1 < MaxEvents THEN rec.head + (i + 1) - 1
                      ELSE rec.head + (i + 1) - 1 - MaxEvents
        BY <2>i, <3>3 DEF slot
      <4>2. (rec.head + (i + 1) - 1) % MaxEvents = slot
        BY <1>7, <3>a, <4>a, ModOneTurn
      <4>3. rec.events[slot] = log[rec.dropped + 1 + i]
        BY <4>1, <4>2 DEF RingInv, RingIsLogEnd
      <4>4. rec'.events[slot] = rec.events[slot]
        BY <1>2, <2>1, <3>1, <4>1
      <4> QED BY <1>3, <3>1, <4>1, <4>3, <4>4
    <3>4. CASE i = MaxEvents
      <4>1. slot = rec.head /\ rec.dropped + 1 + i = Len(log) + 1
        BY <2>i, <3>4 DEF slot
      <4> QED BY <1>2, <1>3, <2>1, <3>1, <3>2, <4>1
    <3> QED BY <3>3, <3>4
  <2>3. rec'.head < MaxEvents /\ rec'.count = MaxEvents
    BY <2>i, <2>1
  <2>4. rec'.count + rec'.dropped = Len(log')
    BY <1>3, <2>i, <2>1
  <2>5. RingShape'
    BY <2>i, <2>3, <2>4 DEF RingShape
  <2>6. RingIsLogEnd'
    BY <2>2 DEF RingIsLogEnd
  <2> QED BY <1>4, <2>5, <2>6 DEF RingInv
<1> QED BY <1>2, <1>5, <1>6, <1>7

(* The log a test asserts is the newest events in their order, with every  *)
(* discarded one counted, for any capacity, zero included.                 *)
THEOREM RecorderKeepsNewest == RecorderSpec => []KeepsNewest
<1>1. RecorderInit => RingInv
  BY RecorderAssumption DEF RecorderAssumption, RecorderInit, RingInv, RingShape, RingIsLogEnd, RecorderTypeOK, Rings, Slots, Unset
<1>2. RingInv /\ [RecorderNext]_recorderVars => RingInv'
  <2> SUFFICES ASSUME RingInv, [RecorderNext]_recorderVars PROVE RingInv'
    OBVIOUS
  <2>1. CASE RecorderNext
    BY <2>1, FaultKeepsRing DEF RecorderNext
  <2>2. CASE UNCHANGED recorderVars
    BY <2>2 DEF recorderVars, RingInv, RingShape, RingIsLogEnd, RecorderTypeOK
  <2> QED BY <2>1, <2>2
<1>3. RingInv => KeepsNewest
  <2> SUFFICES ASSUME RingInv PROVE KeepsNewest
    OBVIOUS
  <2>1. /\ rec.count \in 0 .. MaxEvents /\ rec.dropped \in Nat
        /\ Events(rec) = [i \in 1 .. rec.count |-> rec.events[(rec.head + i - 1) % MaxEvents]]
    BY DEF RingInv, RecorderTypeOK, Rings, Events
  <2>2. Len(Events(rec)) = rec.count
    BY <2>1, RecorderAssumption DEF RecorderAssumption
  <2>3. \A i \in 1 .. rec.count : Events(rec)[i] = log[rec.dropped + i]
    BY <2>1 DEF RingInv, RingIsLogEnd
  <2>4. /\ rec.count + rec.dropped = Len(log)
        /\ rec.count < MaxEvents => rec.dropped = 0
    BY DEF RingInv, RingShape
  <2>5. rec.dropped > 0 => rec.count = MaxEvents
    BY <2>1, <2>4, RecorderAssumption DEF RecorderAssumption
  <2> QED BY <2>2, <2>3, <2>4, <2>5 DEF KeepsNewest
<1> QED BY <1>1, <1>2, <1>3, PTL DEF RecorderSpec


(***************************************************************************)
(* The pump.  A hold that is released early, twice or never, a frame that  *)
(* is lost or a clock that jumps would show only after fault sets were     *)
(* swapped at the wrong moment.  The argument: the engine that handles a   *)
(* frame is reached from the one before by a chain of swaps, each taking   *)
(* over from the last (InheritedIsChain), so a delay that all sets in force*)
(* agree on only grows (DriftSoFar).  The frames sent, planned and held are*)
(* in line, and with the dropped and the failed ones account for every     *)
(* number (InLine, Accounted).  Where the clock is follows from the number *)
(* of frames alone (ClockAt), and a timestamp from the frame's place on it *)
(* and its shift (Stamped).                                                *)
(***************************************************************************)
Frames == [n : Nat, shift : Int, ts : Int]
Engines == [spec : Specs, remaining : Nat, calls : Nat, seen : Nat]

PumpTypeOK ==
  /\ idx \in 0 .. Len(DTS) - 1 /\ frameCounter \in Nat /\ tsOffset \in Nat
  /\ engine \in Engines
  /\ pending \in Seq(Specs)
  /\ held \in Seq(Frames)
  /\ plan \in [frames : Seq(Frames), released : Nat]
  /\ pc \in {"ready", "emit", "stopped"}
  /\ sent \in Seq(Frames)
  /\ installed \in Seq([spec : Specs, at : Nat]) /\ installed # <<>>

Elems(s) == {s[i] : i \in DOMAIN s}
Inc(s) == \A i, j \in DOMAIN s : i < j => s[i].n < s[j].n
Before(a, b) == \A f \in Elems(a), g \in Elems(b) : f.n < g.n

(* Where the clock is, from the number of frames alone.                    *)
ClockAt ==
  /\ idx = frameCounter % Len(DTS)
  /\ tsOffset = (frameCounter \div Len(DTS)) * (DTS[Len(DTS)] + FrameDur)

(* A hold is shorter than its set says, and holds what it took itself.     *)
HoldRuns == engine.remaining > 0 => engine.remaining < engine.spec.hold

PlanReady == pc = "ready" => plan.frames = <<>>

Everything == Elems(sent) \cup Elems(plan.frames) \cup Elems(held)

Ordered(a, s, r) ==
  /\ Inc(a) /\ Inc(s) /\ Inc(r)
  /\ Before(a, s) /\ Before(a, r) /\ Before(s, r)
InLine == Ordered(sent, plan.frames, held)

(* Of the numbers U, those of the frames F, the dropped and the failed.    *)
Nums(F) == {f.n : f \in F}
Books(F, U, D, X) ==
  /\ Nums(F) \cup D \cup X = U
  /\ Nums(F) \cap (D \cup X) = {}
  /\ D \cap X = {}
Accounted == Books(Everything, 0 .. frameCounter - 1, dropped, failed)

Stamped == \A f \in Everything : f.ts = (Nominal(f.n) + f.shift) % TsMod

(* The sets in force since frame n, and whether they agree on the delay.   *)
Since(ins, n) == {u \in DOMAIN ins : u = Len(ins) \/ ins[u + 1].at > n}
Between(ins, n, m) == {u \in Since(ins, n) : ins[u].at <= m}
Steady(ins, K) ==
  /\ \A u, m \in K : Delayed(ins[u].spec) = Delayed(ins[m].spec)
  /\ \A u \in K : ins[u].spec.depth = 0

(* The shift of the next frame, when nothing is reordered.                 *)
LagOf(e) == 0 - e.spec.lag - (e.calls * FrameDur * e.spec.drift) \div Million

InstalledNow ==
  /\ installed[Len(installed)].spec = engine.spec
  /\ \A u \in DOMAIN installed : installed[u].at <= frameCounter

(* The lag has not shrunk since any frame that the same delay stamped.     *)
DriftSoFar ==
  /\ \A f \in Everything :
       Steady(installed, Since(installed, f.n)) => LagOf(engine) <= f.shift
  /\ \A f, g \in Everything :
       f.n < g.n /\ Steady(installed, Between(installed, f.n, g.n)) => g.shift <= f.shift

PumpInv ==
  /\ PumpTypeOK /\ ClockAt /\ HoldRuns /\ HeldByRunningHold /\ PlanReady
  /\ InLine /\ Accounted /\ Stamped /\ InstalledNow /\ DriftSoFar

(***************************************************************************)
(* Sequences of frames.                                                    *)
(***************************************************************************)
LEMMA ElemsIn ==
  ASSUME NEW s \in Seq(Frames)
  PROVE  /\ \A i \in DOMAIN s : s[i] \in Elems(s)
         /\ \A f \in Elems(s) : f \in Frames /\ f.n \in Nat /\ f.shift \in Int /\ f.ts \in Int
<1>1. \A i \in DOMAIN s : s[i] \in Frames
  OBVIOUS
<1>2. \A f \in Frames : f.n \in Nat /\ f.shift \in Int /\ f.ts \in Int
  BY DEF Frames
<1> QED BY <1>1, <1>2 DEF Elems

LEMMA EmptyLine ==
  /\ <<>> \in Seq(Frames) /\ Elems(<<>>) = {} /\ Inc(<<>>)
  /\ \A s : Before(<<>>, s) /\ Before(s, <<>>)
<1>1. Elems(<<>>) = {} /\ <<>> \in Seq(Frames) /\ Inc(<<>>)
  BY DEF Elems, Inc
<1> QED BY <1>1 DEF Before

LEMMA OneFrame ==
  ASSUME NEW f \in Frames
  PROVE  <<f>> \in Seq(Frames) /\ Elems(<<f>>) = {f} /\ Inc(<<f>>) /\ Len(<<f>>) = 1
<1>1. <<f>> \in Seq(Frames) /\ DOMAIN <<f>> = {1} /\ <<f>>[1] = f /\ Len(<<f>>) = 1
  OBVIOUS
<1>2. Elems(<<f>>) = {f}
  BY <1>1 DEF Elems
<1>3. Inc(<<f>>)
  BY <1>1 DEF Inc
<1> QED BY <1>1, <1>2, <1>3

LEMMA Joined ==
  ASSUME NEW a \in Seq(Frames), NEW b \in Seq(Frames)
  PROVE  /\ a \o b \in Seq(Frames) /\ Len(a \o b) = Len(a) + Len(b)
         /\ Elems(a \o b) = Elems(a) \cup Elems(b)
         /\ Inc(a \o b) <=> Inc(a) /\ Inc(b) /\ Before(a, b)
<1> DEFINE s == a \o b
           M == Len(a)
           N == Len(b)
<1>1. /\ s \in Seq(Frames) /\ Len(s) = M + N /\ M \in Nat /\ N \in Nat
      /\ DOMAIN a = 1 .. M /\ DOMAIN b = 1 .. N /\ DOMAIN s = 1 .. M + N
      /\ \A i \in 1 .. M : s[i] = a[i]
      /\ \A i \in 1 .. N : s[M + i] = b[i]
  OBVIOUS
<1>2. \A i \in 1 .. M + N : i \in 1 .. M \/ (i - M \in 1 .. N /\ s[i] = b[i - M])
  <2> TAKE i \in 1 .. M + N
  <2>1. CASE i <= M
    BY <1>1, <2>1
  <2>2. CASE i > M
    <3>1. i - M \in 1 .. N /\ M + (i - M) = i
      BY <1>1, <2>2
    <3> QED BY <1>1, <3>1
  <2> QED BY <1>1, <2>1, <2>2
<1> HIDE DEF s, M, N
<1>3. Elems(s) = Elems(a) \cup Elems(b)
  <2>1. Elems(s) \subseteq Elems(a) \cup Elems(b)
    BY <1>1, <1>2 DEF Elems
  <2>2. Elems(a) \subseteq Elems(s)
    BY <1>1 DEF Elems
  <2>3. ASSUME NEW i \in 1 .. N
        PROVE  M + i \in 1 .. M + N
    BY <1>1
  <2>4. Elems(b) \subseteq Elems(s)
    BY <1>1, <2>3 DEF Elems
  <2> QED BY <2>1, <2>2, <2>4
<1>4. ASSUME Inc(s)
      PROVE  Inc(a) /\ Inc(b) /\ Before(a, b)
  <2>1. Inc(a)
    BY <1>1, <1>4 DEF Inc
  <2>2. Inc(b)
    <3>1. ASSUME NEW i \in 1 .. N, NEW j \in 1 .. N, i < j
          PROVE  b[i].n < b[j].n
      <4>1. M + i \in 1 .. M + N /\ M + j \in 1 .. M + N /\ M + i < M + j
        BY <1>1, <3>1
      <4> QED BY <1>1, <1>4, <4>1 DEF Inc
    <3> QED BY <1>1, <3>1 DEF Inc
  <2>3. Before(a, b)
    <3>1. ASSUME NEW i \in 1 .. M, NEW j \in 1 .. N
          PROVE  a[i].n < b[j].n
      <4>1. i \in 1 .. M + N /\ M + j \in 1 .. M + N /\ i < M + j
        BY <1>1
      <4> QED BY <1>1, <1>4, <4>1 DEF Inc
    <3> QED BY <1>1, <3>1 DEF Before, Elems
  <2> QED BY <2>1, <2>2, <2>3
<1>5. ASSUME Inc(a), Inc(b), Before(a, b)
      PROVE  Inc(s)
  <2>1. ASSUME NEW i \in 1 .. M + N, NEW j \in 1 .. M + N, i < j
        PROVE  s[i].n < s[j].n
    <3>1. CASE j \in 1 .. M
      <4>1. i \in 1 .. M
        BY <1>1, <2>1, <3>1
      <4> QED BY <1>1, <1>5, <2>1, <3>1, <4>1 DEF Inc
    <3>2. CASE i \in 1 .. M /\ j - M \in 1 .. N /\ s[j] = b[j - M]
      <4>1. s[i] \in Elems(a) /\ s[j] \in Elems(b)
        BY <1>1, <3>2 DEF Elems
      <4> QED BY <1>5, <4>1 DEF Before
    <3>3. CASE i - M \in 1 .. N /\ s[i] = b[i - M] /\ j - M \in 1 .. N /\ s[j] = b[j - M]
      <4>1. i - M < j - M
        BY <1>1, <2>1
      <4> QED BY <1>1, <1>5, <3>3, <4>1 DEF Inc
    <3>4. i \in 1 .. M \/ ~(j \in 1 .. M)
      BY <1>1, <2>1
    <3> QED BY <1>2, <3>1, <3>2, <3>3, <3>4
  <2> QED BY <1>1, <2>1 DEF Inc
<1> QED BY <1>1, <1>3, <1>4, <1>5 DEF s, M, N

(* A sequence is what it begins with and the rest.                         *)
LEMMA Cut ==
  ASSUME NEW s \in Seq(Frames), NEW w \in 0 .. Len(s)
  PROVE  /\ SubSeq(s, 1, w) \in Seq(Frames) /\ SubSeq(s, w + 1, Len(s)) \in Seq(Frames)
         /\ Elems(s) = Elems(SubSeq(s, 1, w)) \cup Elems(SubSeq(s, w + 1, Len(s)))
         /\ Inc(s) => /\ Inc(SubSeq(s, 1, w)) /\ Inc(SubSeq(s, w + 1, Len(s)))
                      /\ Before(SubSeq(s, 1, w), SubSeq(s, w + 1, Len(s)))
<1> DEFINE a == SubSeq(s, 1, w)
           b == SubSeq(s, w + 1, Len(s))
<1>1. PICK L \in Nat : L = Len(s)
  OBVIOUS
<1>2. w \in Nat /\ w <= L /\ \A i \in 1 .. L : s[i] \in Frames
  BY <1>1
<1>3. a \in Seq(Frames) /\ Len(a) = w /\ \A i \in 1 .. w : a[i] = s[i]
  BY <1>1, <1>2
<1>4. b \in Seq(Frames) /\ Len(b) = L - w /\ \A i \in 1 .. L - w : b[i] = s[w + i]
  <2>1. \A i \in w + 1 .. L : s[i] \in Frames
    BY <1>2
  <2>2. w + 1 \in Int /\ L \in Int
    BY <1>2
  <2>3. /\ b \in Seq(Frames)
        /\ Len(b) = IF w + 1 <= L THEN L - (w + 1) + 1 ELSE 0
        /\ \A i \in 1 .. L - (w + 1) + 1 : b[i] = s[(w + 1) + i - 1]
    BY <1>1, <2>1, <2>2, SubSeqProperties
  <2> HIDE DEF b
  <2>4. (IF w + 1 <= L THEN L - (w + 1) + 1 ELSE 0) = L - w
    BY <1>2
  <2>5. ASSUME NEW i \in 1 .. L - w
        PROVE  b[i] = s[w + i]
    <3>1. i \in 1 .. L - (w + 1) + 1 /\ (w + 1) + i - 1 = w + i
      BY <1>2
    <3> QED BY <2>3, <3>1
  <2> QED BY <2>3, <2>4, <2>5
<1> HIDE DEF a, b
<1>5. /\ a \o b \in Seq(Frames) /\ Len(a \o b) = L
      /\ \A i \in 1 .. L : (a \o b)[i] = IF i <= w THEN a[i] ELSE b[i - w]
  <2>1. /\ a \o b \in Seq(Frames) /\ Len(a \o b) = Len(a) + Len(b)
        /\ \A i \in 1 .. Len(a) + Len(b) : (a \o b)[i] = IF i <= Len(a) THEN a[i] ELSE b[i - Len(a)]
    BY <1>3, <1>4, ConcatProperties
  <2>2. Len(a) + Len(b) = L /\ Len(a) = w
    BY <1>2, <1>3, <1>4
  <2> QED BY <2>1, <2>2
<1>6. ASSUME NEW i \in 1 .. L
      PROVE  (a \o b)[i] = s[i]
  <2>1. CASE i <= w
    <3>1. i \in 1 .. w
      BY <1>2, <2>1
    <3> QED BY <1>3, <1>5, <2>1, <3>1
  <2>2. CASE ~(i <= w)
    <3>1. i - w \in 1 .. L - w /\ w + (i - w) = i
      BY <1>2, <2>2
    <3>2. (a \o b)[i] = b[i - w]
      BY <1>5, <2>2
    <3>3. b[i - w] = s[w + (i - w)]
      BY <1>4, <3>1
    <3> QED BY <3>1, <3>2, <3>3
  <2> QED BY <2>1, <2>2
<1>7. a \o b = s
  BY <1>1, <1>5, <1>6, SeqEqual
<1>8. /\ Elems(a \o b) = Elems(a) \cup Elems(b)
      /\ Inc(a \o b) <=> Inc(a) /\ Inc(b) /\ Before(a, b)
  BY <1>3, <1>4, Joined
<1> QED BY <1>1, <1>3, <1>4, <1>7, <1>8 DEF a, b
(***************************************************************************)
(* Quotients and remainders.                                               *)
(***************************************************************************)
LEMMA DivMod ==
  ASSUME NEW M \in Nat \ {0}, NEW n \in Nat
  PROVE  n = M * (n \div M) + (n % M) /\ n % M \in 0 .. M - 1 /\ n \div M \in Nat
OBVIOUS

LEMMA MulMono ==
  ASSUME NEW a \in Nat, NEW b \in Nat, NEW c \in Nat, a <= b
  PROVE  a * c <= b * c /\ a * c \in Nat /\ b * c \in Nat
OBVIOUS

(* The quotient and the remainder are the only ones.                       *)
LEMMA Quotient ==
  ASSUME NEW M \in Nat \ {0}, NEW n \in Nat, NEW q \in Nat, NEW r \in 0 .. M - 1,
         n = M * q + r
  PROVE  q = n \div M /\ r = n % M
<1> DEFINE d == n \div M
           e == n % M
<1>1. d \in Nat /\ e \in 0 .. M - 1 /\ n = M * d + e
  BY DivMod
<1> HIDE DEF d, e
<1>2. ~(q < d)
  <2> SUFFICES ASSUME q < d PROVE FALSE
    OBVIOUS
  <2>1. (q + 1) * M <= d * M
    BY <1>1, MulMono
  <2>2. (q + 1) * M = M * q + M /\ d * M = M * d
    BY <1>1
  <2> QED BY <1>1, <2>1, <2>2
<1>3. ~(d < q)
  <2> SUFFICES ASSUME d < q PROVE FALSE
    OBVIOUS
  <2>1. (d + 1) * M <= q * M
    BY <1>1, MulMono
  <2>2. (d + 1) * M = M * d + M /\ q * M = M * q
    BY <1>1
  <2> QED BY <1>1, <2>1, <2>2
<1>4. q = d
  BY <1>1, <1>2, <1>3
<1>5. r = e
  BY <1>1, <1>4
<1> QED BY <1>4, <1>5 DEF d, e

(* What they become when n is counted on.                                  *)
LEMMA CountOn ==
  ASSUME NEW M \in Nat \ {0}, NEW n \in Nat
  PROVE  /\ (n + 1) % M = IF (n % M) + 1 = M THEN 0 ELSE (n % M) + 1
         /\ (n + 1) \div M = IF (n % M) + 1 = M THEN (n \div M) + 1 ELSE n \div M
<1> DEFINE d == n \div M
           e == n % M
<1>1. d \in Nat /\ e \in 0 .. M - 1 /\ n = M * d + e
  BY DivMod
<1> HIDE DEF d, e
<1>2. CASE e + 1 = M
  <2>1. n + 1 = M * (d + 1) + 0
    BY <1>1, <1>2
  <2>2. d + 1 = (n + 1) \div M /\ 0 = (n + 1) % M
    BY <1>1, <2>1, Quotient
  <2> QED BY <1>2, <2>2 DEF d, e
<1>3. CASE e + 1 # M
  <2>1. n + 1 = M * d + (e + 1) /\ e + 1 \in 0 .. M - 1
    BY <1>1, <1>3
  <2>2. d = (n + 1) \div M /\ e + 1 = (n + 1) % M
    BY <1>1, <2>1, Quotient
  <2> QED BY <1>3, <2>2 DEF d, e
<1> QED BY <1>2, <1>3

LEMMA DivMono ==
  ASSUME NEW M \in Nat \ {0}, NEW a \in Nat, NEW b \in Nat, a <= b
  PROVE  a \div M <= b \div M
<1> DEFINE d == a \div M
           e == b \div M
<1>1. d \in Nat /\ e \in Nat /\ M * d <= a /\ b < M * e + M
  BY DivMod
<1> HIDE DEF d, e
<1>2. ~(e < d)
  <2> SUFFICES ASSUME e < d PROVE FALSE
    OBVIOUS
  <2>1. (e + 1) * M <= d * M
    BY <1>1, MulMono
  <2>2. (e + 1) * M = M * e + M /\ d * M = M * d /\ M * d \in Nat /\ M * e \in Nat
    BY <1>1
  <2> QED BY <1>1, <2>1, <2>2
<1> QED BY <1>1, <1>2 DEF d, e

(***************************************************************************)
(* The chain of the fault sets queued.                                     *)
(***************************************************************************)
LEMMA Least ==
  ASSUME NEW T, T \subseteq Nat, T # {}
  PROVE  \E x \in T : \A y \in T : x <= y
<1>1. PICK x \in T : \A y \in T : ~(<<y, x>> \in OpToRel(<, Nat))
  BY NatLessThanWellFounded, WFMin
<1>2. \A y \in T : ~(y < x)
  <2>1. \A y \in T : ~(<<y, x>> \in {ss \in Nat \X Nat : ss[1] < ss[2]})
    BY <1>1 DEF OpToRel
  <2> QED BY <2>1
<1> QED BY <1>2

(* The sets queued up to i all keep the delay in force, and there is one.  *)
SameDelay(i) ==
  \A j \in 1 .. i : /\ Delayed(pending[j]) = Delayed(engine.spec)
                    /\ Delayed(pending[j]) # NoDelay

Chain ==
  [i \in 0 .. Len(pending) |->
     IF i = 0 THEN engine
     ELSE [spec |-> pending[i], remaining |-> 0,
           calls |-> IF SameDelay(i) THEN engine.calls ELSE 0, seen |-> 0]]

(* What the engines of the chain inherit, link by link.                    *)
LEMMA ChainLink ==
  ASSUME PumpTypeOK, NEW i \in 1 .. Len(pending)
  PROVE  Chain[i] = Inherit(New(pending[i]), Chain[i - 1])
<1>1. PICK L \in Nat : L = Len(pending)
  BY DEF PumpTypeOK
<1>2. i \in 0 .. L /\ i - 1 \in 0 .. L /\ i # 0 /\ i \in Nat /\ i \in 1 .. L
  BY <1>1
<1> DEFINE e == New(pending[i])
           p == Chain[i - 1]
           c == Chain[i]
<1>3. c = [spec |-> pending[i], remaining |-> 0,
           calls |-> IF SameDelay(i) THEN engine.calls ELSE 0, seen |-> 0]
  BY <1>1, <1>2 DEF Chain
<1>4. e = [spec |-> pending[i], remaining |-> 0, calls |-> 0, seen |-> 0]
  BY DEF New
<1>5. /\ p.spec = IF i = 1 THEN engine.spec ELSE pending[i - 1]
      /\ p.calls = IF i = 1 \/ SameDelay(i - 1) THEN engine.calls ELSE 0
  <2>1. CASE i = 1
    <3>1. i - 1 = 0
      BY <2>1
    <3>2. p = engine
      BY <1>1, <1>2, <3>1 DEF Chain
    <3> QED BY <2>1, <3>2
  <2>2. CASE i # 1
    <3>1. i - 1 # 0
      BY <1>2, <2>2
    <3>2. p = [spec |-> pending[i - 1], remaining |-> 0,
               calls |-> IF SameDelay(i - 1) THEN engine.calls ELSE 0, seen |-> 0]
      BY <1>1, <1>2, <3>1 DEF Chain
    <3> QED BY <2>2, <3>2
  <2> QED BY <2>1, <2>2
<1> HIDE DEF e, p, c
<1> DEFINE same == Delayed(e.spec) # NoDelay /\ Delayed(e.spec) = Delayed(p.spec)
<1>6. e.spec = pending[i]
  BY <1>4
<1>7. SameDelay(i) <=> (same /\ (i = 1 \/ SameDelay(i - 1)))
  <2>1. CASE i = 1
    <3>1. \A j \in 1 .. i : j = 1
      BY <2>1
    <3>2. 1 \in 1 .. i
      BY <2>1
    <3> QED BY <2>1, <3>1, <3>2, <1>5, <1>6 DEF SameDelay
  <2>2. CASE i # 1
    <3>1. \A j \in 1 .. i : j = i \/ j \in 1 .. i - 1
      BY <1>2
    <3>2. i \in 1 .. i /\ i - 1 \in 1 .. i /\ i - 1 \in 1 .. i - 1
      BY <1>2, <2>2
    <3>3. \A j \in 1 .. i - 1 : j \in 1 .. i
      BY <1>2
    <3>4. SameDelay(i) => Delayed(pending[i - 1]) = Delayed(engine.spec)
      BY <3>2 DEF SameDelay
    <3>5. SameDelay(i - 1) => Delayed(pending[i - 1]) = Delayed(engine.spec)
      BY <3>2 DEF SameDelay
    <3>6. p.spec = pending[i - 1]
      BY <1>5, <2>2
    <3>7. SameDelay(i) => SameDelay(i - 1) /\ same
      BY <3>2, <3>3, <3>4, <3>6, <1>6 DEF SameDelay
    <3>8. SameDelay(i - 1) /\ same => SameDelay(i)
      BY <3>1, <3>5, <3>6, <1>6 DEF SameDelay
    <3> QED BY <2>2, <3>7, <3>8
  <2> QED BY <2>1, <2>2
<1>8. Inherit(e, p) = IF same THEN [e EXCEPT !.calls = p.calls] ELSE e
  BY DEF Inherit
<1>9. CASE same
  <2>1. p.calls = IF SameDelay(i) THEN engine.calls ELSE 0
    BY <1>5, <1>7, <1>9
  <2>2. [e EXCEPT !.calls = p.calls] = c
    BY <1>3, <1>4, <2>1
  <2> QED BY <1>8, <1>9, <2>2 DEF e, p, c
<1>10. CASE ~same
  <2>1. ~SameDelay(i)
    BY <1>7, <1>10
  <2>2. e = c
    BY <1>3, <1>4, <2>1
  <2> QED BY <1>8, <1>10, <2>2 DEF e, p, c
<1> QED BY <1>9, <1>10

(* The engines Installed runs through are those of the chain.              *)
LEMMA InheritedIsChain ==
  ASSUME PumpTypeOK
  PROVE  Inherited = Chain
<1> DEFINE L == Len(pending)
<1>1. L \in Nat
  BY DEF PumpTypeOK
<1>2. Chain = [i \in 0 .. L |-> IF i = 0 THEN engine
                                ELSE Inherit(New(pending[i]), Chain[i - 1])]
  <2>1. \A i \in 0 .. L : Chain[i] = IF i = 0 THEN engine
                                     ELSE Inherit(New(pending[i]), Chain[i - 1])
    <3> TAKE i \in 0 .. L
    <3>1. CASE i = 0
      BY <1>1, <3>1 DEF Chain
    <3>2. CASE i # 0
      <4>1. i \in 1 .. L
        BY <1>1, <3>2
      <4> QED BY <3>2, <4>1, ChainLink
    <3> QED BY <3>1, <3>2
  <2>2. Chain = [i \in 0 .. L |-> Chain[i]]
    BY DEF Chain
  <2> QED BY <2>1, <2>2
<1>3. \E g : g = [i \in 0 .. L |-> IF i = 0 THEN engine
                                   ELSE Inherit(New(pending[i]), g[i - 1])]
  BY <1>2
<1>4. Inherited = [i \in 0 .. L |-> IF i = 0 THEN engine
                                    ELSE Inherit(New(pending[i]), Inherited[i - 1])]
  BY <1>3 DEF Inherited
<1> HIDE DEF L
<1>5. \A i \in 0 .. L : Inherited[i] = Chain[i]
  <2> DEFINE T == {i \in 0 .. L : Inherited[i] # Chain[i]}
  <2> SUFFICES ASSUME T # {} PROVE FALSE
    OBVIOUS
  <2>1. PICK x \in T : \A y \in T : x <= y
    <3>1. T \subseteq Nat
      BY <1>1
    <3> QED BY <3>1, Least
  <2>2. x \in 0 .. L /\ x \in Int
    BY <1>1, <2>1
  <2>3. CASE x = 0
    <3>1. Inherited[x] = engine
      BY <1>4, <2>2, <2>3
    <3>2. Chain[x] = engine
      BY <1>2, <2>2, <2>3
    <3> QED BY <2>1, <3>1, <3>2
  <2>4. CASE x # 0
    <3>1. x - 1 \in 0 .. L /\ ~(x <= x - 1)
      BY <1>1, <2>2, <2>4
    <3>2. Inherited[x - 1] = Chain[x - 1]
      BY <2>1, <3>1
    <3>3. Inherited[x] = Inherit(New(pending[x]), Inherited[x - 1])
      BY <1>4, <2>2, <2>4
    <3>4. Chain[x] = Inherit(New(pending[x]), Chain[x - 1])
      BY <1>2, <2>2, <2>4
    <3> QED BY <2>1, <3>2, <3>3, <3>4
  <2> QED BY <2>3, <2>4
<1>6. Inherited = [i \in 0 .. L |-> Inherited[i]]
  BY <1>4
<1>7. Chain = [i \in 0 .. L |-> Chain[i]]
  BY <1>2
<1> QED BY <1>5, <1>6, <1>7

(* The engine in force when a frame is planned.                            *)
LEMMA InForce ==
  ASSUME PumpTypeOK
  PROVE  /\ Installed \in Engines
         /\ pending = <<>> => Installed = engine
         /\ pending # <<>> => /\ Installed.spec = pending[Len(pending)]
                              /\ Installed.remaining = 0
                              /\ SameDelay(Len(pending)) => Installed.calls = engine.calls
<1>1. PICK L \in Nat : L = Len(pending)
  BY DEF PumpTypeOK
<1>2. Installed = Chain[L]
  BY <1>1, InheritedIsChain DEF Installed
<1>3. CASE pending = <<>>
  <2>1. L = 0
    BY <1>1, <1>3
  <2>2. Installed = engine
    BY <1>1, <1>2, <2>1 DEF Chain
  <2> QED BY <1>3, <2>2 DEF PumpTypeOK
<1>4. CASE pending # <<>>
  <2>1. L # 0 /\ L \in 0 .. L /\ pending[L] \in Specs
    <3>1. pending \in Seq(Specs)
      BY DEF PumpTypeOK
    <3>2. L # 0 /\ L \in 1 .. L /\ L \in 0 .. L
      BY <1>1, <1>4, <3>1
    <3> QED BY <1>1, <3>1, <3>2
  <2>2. Installed = [spec |-> pending[L], remaining |-> 0,
                     calls |-> IF SameDelay(L) THEN engine.calls ELSE 0, seen |-> 0]
    BY <1>1, <1>2, <2>1 DEF Chain
  <2>3. engine.calls \in Nat
    BY DEF PumpTypeOK, Engines
  <2>4. Installed \in Engines
    BY <2>1, <2>2, <2>3 DEF Engines
  <2> QED BY <1>1, <1>4, <2>2, <2>4
<1> QED BY <1>3, <1>4

(***************************************************************************)
(* The engine's counters and shifts.                                       *)
(***************************************************************************)
LEMMA SpecFields ==
  ASSUME NEW e \in Engines
  PROVE  /\ e.spec \in Specs /\ e.remaining \in Nat /\ e.calls \in Nat /\ e.seen \in Nat
         /\ e.spec.hold \in Nat /\ e.spec.depth \in Nat /\ e.spec.keepEvery \in Nat
         /\ e.spec.lag \in Nat /\ e.spec.drift \in Nat
<1>1. e.spec \in Specs /\ e.remaining \in Nat /\ e.calls \in Nat /\ e.seen \in Nat
  BY DEF Engines
<1>2. e.spec \in Faults
  BY <1>1, PumpAssumption
<1>3. \A x \in Faults : x.hold \in Nat /\ x.depth \in Nat /\ x.keepEvery \in Nat
                        /\ x.lag \in Nat /\ x.drift \in Nat
  BY DEF Faults
<1> QED BY <1>1, <1>2, <1>3

(* What a hold decides, and what is left of it.                            *)
LEMMA Deciding ==
  ASSUME NEW e \in Engines, NEW key \in BOOLEAN, NEW starts \in BOOLEAN,
         e.remaining > 0 => e.remaining < e.spec.hold,
         starts => e.spec.hold > 0 /\ e.remaining = 0
  PROVE  LET a == Advance(e, key, starts)
             d == DecideHold(e, starts)
         IN  /\ a \in Engines /\ a.spec = e.spec
             /\ a.calls = IF Delayed(e.spec) = NoDelay THEN 0 ELSE e.calls + 1
             /\ a.remaining > 0 => a.remaining < a.spec.hold
             /\ d \in {"none", "held", "flush"}
             /\ d = "none" => e.remaining = 0
             /\ d = "held" => /\ a.remaining > 0
                              /\ e.remaining > 0 => a.remaining = e.remaining - 1
<1> DEFINE a == Advance(e, key, starts)
           d == DecideHold(e, starts)
           r == Remaining(e, starts)
           h == e.spec.hold
           m == e.remaining
           rem == IF h = 0 THEN 0 ELSE r
           cal == IF Delayed(e.spec) = NoDelay THEN 0 ELSE e.calls + 1
           see == IF e.spec.keepEvery > 0 /\ key THEN e.seen + 1 ELSE e.seen
<1>1. /\ h \in Nat /\ m \in Nat /\ e.calls \in Nat /\ e.seen \in Nat
  BY SpecFields
<1>2. rem \in Nat => /\ a \in Engines /\ a.spec = e.spec
                     /\ a.remaining = rem /\ a.calls = cal
  <2>1. a = [e EXCEPT !.remaining = rem, !.calls = cal, !.seen = see]
    BY DEF Advance
  <2>2. cal \in Nat /\ see \in Nat
    BY <1>1
  <2> HIDE DEF a, rem, cal, see, h, m, d, r
  <2> QED BY <2>1, <2>2 DEF Engines
<1>3. r = IF m = 0 THEN (IF starts THEN h - 1 ELSE 0) ELSE m - 1
  BY DEF Remaining
<1>4. d = IF h = 0 \/ (m = 0 /\ ~starts) THEN "none" ELSE IF r = 0 THEN "flush" ELSE "held"
  BY DEF DecideHold
<1>6. (m > 0 => m < h) /\ (starts => h > 0 /\ m = 0)
  OBVIOUS
<1> HIDE DEF a, d, r, h, m, cal, see
<1>7. /\ rem \in Nat /\ (rem > 0 => rem < h)
      /\ d \in {"none", "held", "flush"}
      /\ d = "none" => m = 0
      /\ d = "held" => rem > 0 /\ (m > 0 => rem = m - 1)
  BY <1>1, <1>3, <1>4, <1>6
<1> HIDE DEF rem
<1>8. a \in Engines /\ a.spec = e.spec /\ a.calls = cal /\ a.remaining = rem
  BY <1>2, <1>7
<1> QED BY <1>7, <1>8 DEF a, d, h, m, cal

LEMMA NoLag ==
  ASSUME NEW e \in Engines, Delayed(e.spec) = NoDelay
  PROVE  LagOf(e) = 0
<1>1. e.spec.lag = 0 /\ e.spec.drift = 0
  BY DEF Delayed, NoDelay
<1>2. e.calls \in Nat /\ FrameDur \in Nat /\ Million \in Nat \ {0}
  BY SpecFields, PumpAssumption
<1>3. e.calls * FrameDur * 0 = 0 /\ 0 \div Million = 0
  BY <1>2
<1> QED BY <1>1, <1>3 DEF LagOf

LEMMA LagIs ==
  ASSUME NEW e \in Engines
  PROVE  /\ LagOf(e) \in Int
         /\ \A n \in Nat : /\ Shift(e, n) \in Int
                           /\ e.spec.depth = 0 => Shift(e, n) = LagOf(e)
<1> DEFINE p == e.calls * FrameDur * e.spec.drift
<1>1. /\ e.calls \in Nat /\ e.spec.drift \in Nat /\ e.spec.lag \in Nat /\ e.spec.depth \in Nat
      /\ FrameDur \in Nat /\ Million \in Nat \ {0}
  BY SpecFields, PumpAssumption
<1>2. p \in Nat
  BY <1>1
<1>3. LagOf(e) = 0 - e.spec.lag - (p \div Million)
  BY DEF LagOf
<1> HIDE DEF p
<1>4. p \div Million \in Nat
  BY <1>1, <1>2, DivMod
<1>5. LagOf(e) \in Int
  BY <1>1, <1>3, <1>4
<1>6. ASSUME NEW n \in Nat
      PROVE  Shift(e, n) \in Int /\ (e.spec.depth = 0 => Shift(e, n) = LagOf(e))
  <2> DEFINE W == e.spec.depth + 1
             b == IF e.spec.depth = 0 THEN 0
                  ELSE IF n % W = 0 THEN (W - 1) * FrameDur ELSE -FrameDur
  <2>1. Shift(e, n) = b - e.spec.lag - (p \div Million)
    BY DEF Shift, p
  <2>2. b \in Int
    <3>1. (W - 1) * FrameDur \in Int /\ -FrameDur \in Int
      BY <1>1
    <3> QED BY <3>1
  <2>3. e.spec.depth = 0 => b = 0
    OBVIOUS
  <2> HIDE DEF b
  <2> QED BY <1>1, <1>3, <1>4, <2>1, <2>2, <2>3
<1> QED BY <1>5, <1>6

(* One more call of the engine makes its lag no smaller.                   *)
LEMMA LagGrows ==
  ASSUME NEW e \in Engines, NEW a \in Engines, a.spec = e.spec,
         a.calls = IF Delayed(e.spec) = NoDelay THEN 0 ELSE e.calls + 1
  PROVE  LagOf(a) <= LagOf(e)
<1>1. CASE Delayed(e.spec) = NoDelay
  <2>1. LagOf(a) = 0 /\ LagOf(e) = 0
    BY <1>1, NoLag
  <2> QED BY <2>1
<1>2. CASE Delayed(e.spec) # NoDelay
  <2> DEFINE D == e.spec.drift
             c == e.calls
             p == c * FrameDur * D
             q == (c + 1) * FrameDur * D
  <2>1. c \in Nat /\ D \in Nat /\ e.spec.lag \in Nat /\ FrameDur \in Nat /\ Million \in Nat \ {0}
    BY SpecFields, PumpAssumption
  <2>2. c * FrameDur <= (c + 1) * FrameDur /\ c * FrameDur \in Nat /\ (c + 1) * FrameDur \in Nat
    <3>1. c + 1 \in Nat /\ c <= c + 1
      BY <2>1
    <3> QED BY <2>1, <3>1, MulMono
  <2>3. p <= q /\ p \in Nat /\ q \in Nat
    BY <2>1, <2>2, MulMono
  <2>4. LagOf(e) = 0 - e.spec.lag - (p \div Million)
    BY DEF LagOf
  <2>5. LagOf(a) = 0 - e.spec.lag - (q \div Million)
    BY <1>2 DEF LagOf
  <2> HIDE DEF p, q
  <2>6. p \div Million <= q \div Million /\ p \div Million \in Nat /\ q \div Million \in Nat
    BY <2>1, <2>3, DivMono, DivMod
  <2> QED BY <2>1, <2>4, <2>5, <2>6
<1> QED BY <1>1, <1>2

(***************************************************************************)
(* The sets in force since a frame, when more are installed.               *)
(***************************************************************************)
Swaps == Seq([spec : Specs, at : Nat])

LEMMA InSeq ==
  ASSUME NEW S, NEW s \in Seq(S), NEW i \in DOMAIN s
  PROVE  s[i] \in S
OBVIOUS

(* J is ins with the sets of new, which start at frame c, put behind it.   *)
Extended(ins, new, J, c) ==
  /\ J = ins \o new /\ ins # <<>>
  /\ \A u \in DOMAIN new : new[u].at = c
  /\ \A u \in DOMAIN ins : ins[u].at <= c

Longer(ins, new, J, c) ==
  /\ J \in Swaps /\ J # <<>> /\ Len(J) = Len(ins) + Len(new)
  /\ \A u \in DOMAIN J : J[u].at <= c
  /\ \A u \in DOMAIN new : J[Len(ins) + u] = new[u]
  /\ \A u \in DOMAIN ins : J[u] = ins[u]
  /\ \A n \in Nat : n < c => Since(J, n) = Since(ins, n) \cup (Len(ins) + 1 .. Len(J))
  /\ \A n, m \in Nat : n < c /\ m < c => Between(J, n, m) = Between(ins, n, m)
  /\ \A n \in Nat : Between(J, n, c) = Since(J, n)

LEMMA SwapsGrow ==
  ASSUME NEW ins \in Swaps, NEW new \in Swaps, NEW J, NEW c \in Nat,
         Extended(ins, new, J, c)
  PROVE  Longer(ins, new, J, c)
<1> DEFINE K == Len(ins)
           N == Len(new)
<1>1. /\ K \in Nat /\ N \in Nat /\ K > 0
      /\ DOMAIN ins = 1 .. K /\ DOMAIN new = 1 .. N
      /\ J \in Swaps /\ Len(J) = K + N /\ DOMAIN J = 1 .. K + N
      /\ \A i \in 1 .. K : J[i] = ins[i]
      /\ \A i \in 1 .. N : J[K + i] = new[i]
  BY DEF Swaps, Extended
<1>2. /\ \A i \in 1 .. K : ins[i].at \in Nat /\ ins[i].at <= c
      /\ \A i \in 1 .. N : new[i].at = c
      /\ \A i \in 1 .. K + N : J[i].at \in Nat
  <2>1. \A i \in 1 .. K : ins[i] \in [spec : Specs, at : Nat]
    BY <1>1, InSeq DEF Swaps
  <2>2. \A i \in 1 .. K + N : J[i] \in [spec : Specs, at : Nat]
    BY <1>1, InSeq DEF Swaps
  <2> QED BY <1>1, <2>1, <2>2 DEF Extended
<1> HIDE DEF K, N
<1>3. \A i \in K + 1 .. K + N : J[i].at = c
  <2> TAKE i \in K + 1 .. K + N
  <2>1. i - K \in 1 .. N /\ K + (i - K) = i
    BY <1>1
  <2> QED BY <1>1, <1>2, <2>1
<1>4. \A u \in 1 .. K + N : J[u].at <= c
  <2> TAKE u \in 1 .. K + N
  <2>1. CASE u <= K
    <3>1. u \in 1 .. K
      BY <1>1, <2>1
    <3> QED BY <1>1, <1>2, <3>1
  <2>2. CASE u > K
    <3>1. u \in K + 1 .. K + N
      BY <1>1, <2>2
    <3>2. J[u].at = c /\ J[u].at \in Nat
      BY <1>2, <1>3, <3>1
    <3> QED BY <3>2
  <2> QED BY <1>1, <2>1, <2>2
<1>5. ASSUME NEW n \in Nat, n < c
      PROVE  Since(J, n) = Since(ins, n) \cup (K + 1 .. K + N)
  <2>1. ASSUME NEW u \in 1 .. K + N
        PROVE  u \in Since(J, n) <=> (u \in Since(ins, n) \/ u \in K + 1 .. K + N)
    <3>1. CASE u < K
      <4>1. u \in 1 .. K /\ u + 1 \in 1 .. K /\ ~(u \in K + 1 .. K + N) /\ u # K /\ u # K + N
        BY <1>1, <3>1
      <4>2. J[u + 1] = ins[u + 1]
        BY <1>1, <4>1
      <4> QED BY <1>1, <4>1, <4>2 DEF Since, K
    <3>2. CASE u = K
      <4>1. u \in Since(ins, n)
        BY <1>1, <3>2 DEF Since, K
      <4>2. u = K + N \/ u + 1 \in K + 1 .. K + N
        BY <1>1, <3>2
      <4>3. u = K + N \/ J[u + 1].at > n
        BY <1>3, <1>5, <4>2
      <4> QED BY <1>1, <4>1, <4>3 DEF Since
    <3>3. CASE u > K
      <4>1. u \in K + 1 .. K + N
        BY <1>1, <3>3
      <4>2. u = K + N \/ u + 1 \in K + 1 .. K + N
        BY <1>1, <4>1
      <4>3. u = K + N \/ J[u + 1].at > n
        BY <1>3, <1>5, <4>2
      <4> QED BY <1>1, <4>1, <4>3 DEF Since
    <3> QED BY <1>1, <3>1, <3>2, <3>3
  <2>2. Since(J, n) \subseteq 1 .. K + N
    BY <1>1 DEF Since
  <2>3. Since(ins, n) \subseteq 1 .. K + N /\ K + 1 .. K + N \subseteq 1 .. K + N
    <3>1. Since(ins, n) \subseteq 1 .. K
      BY <1>1 DEF Since
    <3>2. 1 .. K \subseteq 1 .. K + N /\ K + 1 .. K + N \subseteq 1 .. K + N
      BY <1>1
    <3> QED BY <3>1, <3>2
  <2> QED BY <2>1, <2>2, <2>3
<1>6. ASSUME NEW n \in Nat, NEW m \in Nat, n < c, m < c
      PROVE  Between(J, n, m) = Between(ins, n, m)
  <2>1. \A u \in K + 1 .. K + N : ~(J[u].at <= m)
    <3> TAKE u \in K + 1 .. K + N
    <3>1. J[u].at = c
      BY <1>3
    <3> QED BY <1>6, <3>1
  <2>2. Since(ins, n) \subseteq 1 .. K
    BY <1>1 DEF Since
  <2>3. Since(J, n) = Since(ins, n) \cup (K + 1 .. K + N)
    BY <1>5, <1>6
  <2> QED BY <1>1, <2>1, <2>2, <2>3 DEF Between
<1>7. \A n \in Nat : Between(J, n, c) = Since(J, n)
  BY <1>1, <1>4 DEF Between, Since
<1>8. J # <<>>
  <2>1. K + N # 0
    BY <1>1
  <2>2. Len(<<>>) = 0
    OBVIOUS
  <2> QED BY <1>1, <2>1, <2>2
<1> QED BY <1>1, <1>4, <1>5, <1>6, <1>7, <1>8 DEF Longer, K, N

(***************************************************************************)
(* What the steps do to the invariant.                                     *)
(***************************************************************************)
LEMMA Known ==
  ASSUME PumpTypeOK, Accounted
  PROVE  \A f \in Everything : /\ f \in Frames /\ f.n \in Nat /\ f.shift \in Int
                               /\ f.n < frameCounter
<1>1. sent \in Seq(Frames) /\ plan.frames \in Seq(Frames) /\ held \in Seq(Frames)
  BY DEF PumpTypeOK
<1>2. \A f \in Everything : f \in Frames /\ f.n \in Nat /\ f.shift \in Int
  BY <1>1, ElemsIn DEF Everything
<1>3. ASSUME NEW f \in Everything
      PROVE  f.n < frameCounter
  <2>1. f.n \in 0 .. frameCounter - 1
    BY DEF Accounted, Books, Nums
  <2> QED BY <2>1 DEF PumpTypeOK
<1> QED BY <1>2, <1>3

(* Installing the queue: the lag in force is still the one of the frames   *)
(* that the same delay stamped.                                            *)
LEMMA Installs ==
  ASSUME PumpInv, InstallPending, NEW e, e = Installed, NEW J, J = installed'
  PROVE  /\ e \in Engines /\ (e.remaining > 0 => e.remaining < e.spec.hold)
         /\ held # <<>> /\ ~Releasing => e = engine
         /\ J \in Swaps /\ J # <<>> /\ J[Len(J)].spec = e.spec
         /\ \A u \in DOMAIN J : J[u].at <= frameCounter
         /\ \A n \in Nat : /\ Between(J, n, frameCounter) = Since(J, n)
                           /\ Steady(J, Since(J, n)) => e.spec.depth = 0
         /\ \A f \in Everything : Steady(J, Since(J, f.n)) => LagOf(e) <= f.shift
         /\ \A f, g \in Everything :
              f.n < g.n /\ Steady(J, Between(J, f.n, g.n)) => g.shift <= f.shift
<1> DEFINE new == [i \in DOMAIN pending |-> [spec |-> pending[i], at |-> frameCounter]]
           K == Len(installed)
           N == Len(pending)
<1>1. /\ pending \in Seq(Specs) /\ installed \in Swaps /\ installed # <<>>
      /\ engine \in Engines /\ frameCounter \in Nat
      /\ installed[K].spec = engine.spec
      /\ \A u \in DOMAIN installed : installed[u].at <= frameCounter
  BY DEF PumpInv, PumpTypeOK, Swaps, InstalledNow
<1>2. N \in Nat /\ K \in Nat /\ DOMAIN pending = 1 .. N /\ DOMAIN installed = 1 .. K /\ K > 0
  BY <1>1 DEF Swaps
<1>3. /\ new \in Swaps /\ Len(new) = N
      /\ \A u \in DOMAIN new : new[u].at = frameCounter /\ new[u].spec = pending[u]
      /\ DOMAIN new = 1 .. N
  <2>1. \A u \in 1 .. N : [spec |-> pending[u], at |-> frameCounter] \in [spec : Specs, at : Nat]
    BY <1>1, <1>2
  <2>2. DOMAIN new = 1 .. N /\ \A u \in 1 .. N : new[u] \in [spec : Specs, at : Nat]
    BY <1>2, <2>1
  <2>3. new \in Swaps /\ Len(new) = N
    BY <1>2, <2>2 DEF Swaps
  <2>4. \A u \in 1 .. N : new[u].at = frameCounter /\ new[u].spec = pending[u]
    BY <1>2
  <2> QED BY <2>2, <2>3, <2>4
<1>4. J = installed \o new
  BY DEF InstallPending
<1> HIDE DEF new
<1>5. /\ J \in Swaps /\ J # <<>> /\ Len(J) = K + N
      /\ \A u \in DOMAIN J : J[u].at <= frameCounter
      /\ \A u \in DOMAIN new : J[K + u] = new[u]
      /\ \A u \in DOMAIN installed : J[u] = installed[u]
      /\ \A n \in Nat : n < frameCounter => Since(J, n) = Since(installed, n) \cup (K + 1 .. K + N)
      /\ \A n, m \in Nat : n < frameCounter /\ m < frameCounter
                             => Between(J, n, m) = Between(installed, n, m)
      /\ \A n \in Nat : Between(J, n, frameCounter) = Since(J, n)
  <2>1. \A u \in DOMAIN new : new[u].at = frameCounter
    BY <1>3
  <2>2. Extended(installed, new, J, frameCounter)
    BY <1>1, <1>4, <2>1 DEF Extended
  <2>3. Longer(installed, new, J, frameCounter)
    BY <1>1, <1>3, <2>2, SwapsGrow
  <2>4. Len(J) = K + N /\ Len(installed) = K
    BY <1>3, <2>3 DEF Longer
  <2> QED BY <2>3, <2>4 DEF Longer
<1>6. /\ e \in Engines
      /\ N = 0 => e = engine
      /\ N # 0 => /\ e.spec = pending[N] /\ e.remaining = 0
                  /\ SameDelay(N) => e.calls = engine.calls
  <2>1. N = 0 <=> pending = <<>>
    BY <1>1
  <2> QED BY <2>1, InForce DEF PumpInv
<1> HIDE DEF K, N
<1>7. J[Len(J)].spec = e.spec
  <2>1. CASE N = 0
    <3>1. Len(J) = K /\ K \in 1 .. K
      BY <1>2, <1>5, <2>1
    <3> QED BY <1>1, <1>2, <1>5, <1>6, <2>1, <3>1
  <2>2. CASE N # 0
    <3>1. N \in 1 .. N
      BY <1>2, <2>2
    <3> QED BY <1>3, <1>5, <1>6, <2>2, <3>1
  <2> QED BY <2>1, <2>2
<1>8. e.remaining > 0 => e.remaining < e.spec.hold
  <2>1. CASE N = 0
    BY <1>6, <2>1 DEF PumpInv, HoldRuns
  <2>2. CASE N # 0
    BY <1>6, <2>2
  <2> QED BY <2>1, <2>2
<1>9. held # <<>> /\ ~Releasing => e = engine
  <2>1. N = 0 <=> pending = <<>>
    BY <1>1 DEF N
  <2> QED BY <1>6, <2>1 DEF Releasing
<1>10. ASSUME NEW n \in Nat, Steady(J, Since(J, n))
       PROVE  e.spec.depth = 0
  <2>1. Len(J) \in Since(J, n)
    BY <1>2, <1>5 DEF Since, Swaps
  <2> QED BY <1>7, <1>10, <2>1 DEF Steady
<1>11. ASSUME NEW n \in Nat, n < frameCounter, Steady(J, Since(J, n))
       PROVE  /\ Steady(installed, Since(installed, n))
              /\ LagOf(e) = LagOf(engine)
  <2>1. /\ Since(J, n) = Since(installed, n) \cup (K + 1 .. K + N)
        /\ Since(installed, n) \subseteq 1 .. K
        /\ \A u \in 1 .. K : J[u] = installed[u]
    BY <1>2, <1>5, <1>11 DEF Since
  <2>2. Steady(installed, Since(installed, n))
    BY <1>11, <2>1 DEF Steady
  <2>3. CASE N = 0
    BY <1>6, <2>2, <2>3
  <2>4. CASE N # 0
    <3>1. K \in Since(installed, n) /\ J[K] = installed[K]
      BY <1>2, <2>1 DEF Since, K
    <3>2. \A j \in 1 .. N : K + j \in Since(J, n) /\ J[K + j].spec = pending[j]
      <4> TAKE j \in 1 .. N
      <4>1. K + j \in K + 1 .. K + N
        BY <1>2
      <4> QED BY <1>3, <1>5, <2>1, <4>1
    <3>3. \A j \in 1 .. N : Delayed(pending[j]) = Delayed(engine.spec)
      <4>1. K \in Since(J, n)
        BY <2>1, <3>1
      <4>2. \A u, m \in Since(J, n) : Delayed(J[u].spec) = Delayed(J[m].spec)
        BY <1>11 DEF Steady
      <4> QED BY <1>1, <3>1, <3>2, <4>1, <4>2
    <3>4. N \in 1 .. N
      BY <1>2, <2>4
    <3>5. Delayed(e.spec) = Delayed(engine.spec)
      BY <1>6, <2>4, <3>3, <3>4
    <3>6. CASE Delayed(engine.spec) = NoDelay
      BY <1>1, <1>6, <2>2, <3>5, <3>6, NoLag
    <3>7. CASE Delayed(engine.spec) # NoDelay
      <4>1. SameDelay(N)
        BY <3>3, <3>7 DEF SameDelay
      <4>2. e.calls = engine.calls
        BY <1>6, <2>4, <4>1
      <4>3. e.spec.lag = engine.spec.lag /\ e.spec.drift = engine.spec.drift
        BY <3>5 DEF Delayed
      <4> QED BY <2>2, <4>2, <4>3 DEF LagOf
    <3> QED BY <3>6, <3>7
  <2> QED BY <2>3, <2>4
<1>12. \A f \in Everything : f.n \in Nat /\ f.n < frameCounter /\ f.shift \in Int
  BY Known DEF PumpInv
<1>13. ASSUME NEW f \in Everything, Steady(J, Since(J, f.n))
       PROVE  LagOf(e) <= f.shift
  <2>1. LagOf(engine) <= f.shift
    BY <1>11, <1>12, <1>13 DEF PumpInv, DriftSoFar
  <2> QED BY <1>11, <1>12, <1>13, <2>1
<1>14. ASSUME NEW f \in Everything, NEW g \in Everything,
              f.n < g.n, Steady(J, Between(J, f.n, g.n))
       PROVE  g.shift <= f.shift
  <2>1. /\ Between(J, f.n, g.n) = Between(installed, f.n, g.n)
        /\ Between(installed, f.n, g.n) \subseteq 1 .. K
        /\ \A u \in 1 .. K : J[u] = installed[u]
    <3>1. Between(J, f.n, g.n) = Between(installed, f.n, g.n)
      BY <1>5, <1>12
    <3>2. Between(installed, f.n, g.n) \subseteq 1 .. K
      BY <1>2 DEF Between, Since
    <3>3. \A u \in 1 .. K : J[u] = installed[u]
      BY <1>2, <1>5
    <3> QED BY <3>1, <3>2, <3>3
  <2>2. Steady(installed, Between(installed, f.n, g.n))
    BY <1>14, <2>1 DEF Steady
  <2> QED BY <1>14, <2>2 DEF PumpInv, DriftSoFar
<1> QED BY <1>5, <1>6, <1>7, <1>8, <1>9, <1>10, <1>13, <1>14

(* A line whose middle part is cut: what comes before the cut and after    *)
(* the part stays in order, the rest of it is lost.                        *)
Parts(a, s, r, F, B) ==
  /\ F \in Seq(Frames) /\ B \in Seq(Frames) /\ a \o F \in Seq(Frames)
  /\ Inc(a \o F) /\ Before(a \o F, r)
  /\ Elems(a) \cup Elems(s) \cup Elems(r) = Elems(a \o F) \cup Elems(r) \cup Elems(B)
  /\ \A f \in Elems(a \o F) \cup Elems(r), g \in Elems(B) : f.n # g.n

LEMMA CutLine ==
  ASSUME NEW a \in Seq(Frames), NEW s \in Seq(Frames), NEW r \in Seq(Frames),
         NEW w \in 0 .. Len(s), Ordered(a, s, r),
         NEW F, F = SubSeq(s, 1, w), NEW B, B = SubSeq(s, w + 1, Len(s))
  PROVE  Parts(a, s, r, F, B)
<1>1. F \in Seq(Frames) /\ B \in Seq(Frames)
  BY Cut
<1>2. /\ Elems(s) = Elems(F) \cup Elems(B)
      /\ Inc(F) /\ Inc(B) /\ Before(F, B)
  BY Cut DEF Ordered
<1>3. Before(a, F) /\ Before(a, B) /\ Before(F, r) /\ Before(B, r)
  BY <1>2 DEF Before, Ordered
<1>4. /\ a \o F \in Seq(Frames) /\ Elems(a \o F) = Elems(a) \cup Elems(F) /\ Inc(a \o F)
  BY <1>1, <1>2, <1>3, Joined DEF Ordered
<1>5. Before(a \o F, r)
  BY <1>3, <1>4 DEF Before, Ordered
<1>6. ASSUME NEW f \in Elems(a \o F) \cup Elems(r), NEW g \in Elems(B)
      PROVE  f.n # g.n
  <2>1. f.n \in Nat /\ g.n \in Nat
    BY <1>1, <1>4, ElemsIn
  <2>2. f.n < g.n \/ g.n < f.n
    BY <1>2, <1>3, <1>4 DEF Before, Ordered
  <2> QED BY <2>1, <2>2
<1> QED BY <1>1, <1>2, <1>4, <1>5, <1>6 DEF Parts

(* The books stay right when some frames move to the failed ones.          *)
LEMMA Written ==
  ASSUME NEW E, NEW E2, NEW B, NEW U, NEW D, NEW X,
         E = E2 \cup B, \A f \in E2, g \in B : f.n # g.n, Books(E, U, D, X)
  PROVE  Books(E2, U, D, X \cup Nums(B))
<1>1. Nums(E) = Nums(E2) \cup Nums(B)
  BY DEF Nums
<1>2. Nums(E2) \cap Nums(B) = {}
  BY DEF Nums
<1> QED BY <1>1, <1>2 DEF Books

LEMMA NumbersOf ==
  ASSUME NEW s
  PROVE  Numbers(s) = Nums(Elems(s))
BY DEF Numbers, Nums, Elems

(* Steps that touch neither the line nor the engine.                       *)
LEMMA IdleStep ==
  ASSUME PumpInv, pending' \in Seq(Specs), pc' \in {pc, "stopped"},
         UNCHANGED <<clock, engine, held, plan, sent, dropped, failed, installed>>
  PROVE  PumpInv'
<1>1. PumpTypeOK' /\ PlanReady'
  BY DEF PumpInv, PumpTypeOK, PlanReady, clock
<1>2. ClockAt' /\ HoldRuns' /\ HeldByRunningHold'
  BY DEF PumpInv, ClockAt, HoldRuns, HeldByRunningHold, clock
<1>3. Everything' = Everything
  BY DEF Everything
<1>4. InLine' /\ Accounted' /\ Stamped'
  BY <1>3 DEF PumpInv, InLine, Accounted, Stamped, clock
<1>5. InstalledNow' /\ DriftSoFar'
  BY <1>3 DEF PumpInv, InstalledNow, DriftSoFar, clock
<1> QED BY <1>1, <1>2, <1>4, <1>5 DEF PumpInv

LEMMA EmitStep ==
  ASSUME PumpInv, NEW w \in Nat, Emit(w)
  PROVE  PumpInv'
<1> DEFINE s == plan.frames
           F == SubSeq(s, 1, w)
           B == SubSeq(s, w + 1, Len(s))
<1>1. /\ s \in Seq(Frames) /\ sent \in Seq(Frames) /\ held \in Seq(Frames)
      /\ Ordered(sent, s, held)
  BY DEF PumpInv, PumpTypeOK, InLine
<1>2. w \in 0 .. Len(s)
  BY <1>1 DEF Emit
<1>3. Parts(sent, s, held, F, B)
  BY <1>1, <1>2, CutLine
<1>4. /\ sent' = sent \o F /\ failed' = failed \cup Numbers(B)
      /\ plan' = [frames |-> <<>>, released |-> 0] /\ pc' = "ready"
      /\ UNCHANGED <<idx, frameCounter, tsOffset, engine, pending, held, dropped, installed>>
  BY DEF Emit, clock
<1> HIDE DEF F, B, s
<1>5. plan'.frames = <<>> /\ plan' \in [frames : Seq(Frames), released : Nat]
  BY <1>4, EmptyLine
<1>6. PumpTypeOK' /\ PlanReady'
  BY <1>3, <1>4, <1>5 DEF PumpInv, PumpTypeOK, PlanReady, Parts
<1>7. ClockAt' /\ HoldRuns' /\ HeldByRunningHold' /\ InstalledNow'
  BY <1>4 DEF PumpInv, ClockAt, HoldRuns, HeldByRunningHold, InstalledNow
<1>8. Everything' = Elems(sent \o F) \cup Elems(held)
  BY <1>4, <1>5, EmptyLine DEF Everything
<1>9. Everything = Everything' \cup Elems(B)
  BY <1>3, <1>8 DEF Everything, s, Parts
<1>10. InLine'
  BY <1>1, <1>3, <1>4, <1>5, EmptyLine DEF InLine, Ordered, Parts
<1>11. Accounted'
  <2>1. \A f \in Everything', g \in Elems(B) : f.n # g.n
    BY <1>3, <1>8 DEF Parts
  <2>2. failed' = failed \cup Nums(Elems(B))
    BY <1>4, NumbersOf
  <2>3. Books(Everything, 0 .. frameCounter - 1, dropped, failed)
    BY DEF PumpInv, Accounted
  <2>4. Books(Everything', 0 .. frameCounter - 1, dropped, failed')
    BY <1>9, <2>1, <2>2, <2>3, Written
  <2> QED BY <1>4, <2>4 DEF Accounted
<1>12. Stamped'
  BY <1>9 DEF PumpInv, Stamped
<1>13. DriftSoFar'
  BY <1>4, <1>9 DEF PumpInv, DriftSoFar
<1> QED BY <1>6, <1>7, <1>10, <1>11, <1>12, <1>13 DEF PumpInv

LEMMA PlanFailsStep ==
  ASSUME PumpInv, NEW w \in Nat, PlanFails(w)
  PROVE  PumpInv'
<1> DEFINE s == held
           F == SubSeq(s, 1, w)
           B == SubSeq(s, w + 1, Len(s))
           e == Installed
<1>1. /\ s \in Seq(Frames) /\ sent \in Seq(Frames) /\ plan.frames = <<>>
      /\ Inc(sent) /\ Inc(s) /\ Before(sent, s)
  BY DEF Ordered,  PumpInv, PumpTypeOK, InLine, PlanReady, PlanFails
<1>2. w \in 0 .. Len(s)
  BY <1>1 DEF PlanFails
<1>3. Parts(sent, s, <<>>, F, B)
  <2>1. Ordered(sent, s, <<>>)
    BY <1>1, EmptyLine DEF Ordered
  <2>2. <<>> \in Seq(Frames)
    BY EmptyLine
  <2> QED BY <1>1, <1>2, <2>1, <2>2, CutLine
<1>4. /\ sent' = sent \o F /\ failed' = failed \cup Numbers(B)
      /\ held' = <<>> /\ engine' = e /\ pending' = <<>> /\ InstallPending
      /\ UNCHANGED <<idx, frameCounter, tsOffset, plan, pc, dropped>>
  BY DEF PlanFails, clock, InstallPending
<1> DEFINE J == installed'
<1>5. /\ e \in Engines /\ (e.remaining > 0 => e.remaining < e.spec.hold)
      /\ J \in Swaps /\ J # <<>> /\ J[Len(J)].spec = e.spec
      /\ \A u \in DOMAIN J : J[u].at <= frameCounter
      /\ \A f \in Everything : Steady(J, Since(J, f.n)) => LagOf(e) <= f.shift
      /\ \A f, g \in Everything :
           f.n < g.n /\ Steady(J, Between(J, f.n, g.n)) => g.shift <= f.shift
  <2> HIDE DEF e, J
  <2>1. e = Installed /\ J = installed'
    BY DEF e, J
  <2> QED BY <1>4, <2>1, Installs
<1> HIDE DEF F, B, s, e
<1>6. PumpTypeOK' /\ PlanReady'
  BY <1>3, <1>4, <1>5, EmptyLine DEF PumpInv, PumpTypeOK, PlanReady, Swaps, Parts
<1>7. ClockAt' /\ HoldRuns' /\ HeldByRunningHold' /\ InstalledNow'
  BY <1>4, <1>5 DEF PumpInv, ClockAt, HoldRuns, HeldByRunningHold, InstalledNow
<1>8. Everything' = Elems(sent \o F)
  BY <1>1, <1>4, EmptyLine DEF Everything
<1>9. Everything = Everything' \cup Elems(B)
  BY <1>1, <1>3, <1>8, EmptyLine DEF Everything, s, Parts
<1>10. InLine'
  BY <1>1, <1>3, <1>4, EmptyLine DEF InLine, Ordered, Parts
<1>11. Accounted'
  <2>1. \A f \in Everything', g \in Elems(B) : f.n # g.n
    BY <1>3, <1>8, EmptyLine DEF Parts
  <2>2. failed' = failed \cup Nums(Elems(B))
    BY <1>4, NumbersOf
  <2>3. Books(Everything, 0 .. frameCounter - 1, dropped, failed)
    BY DEF PumpInv, Accounted
  <2>4. Books(Everything', 0 .. frameCounter - 1, dropped, failed')
    BY <1>9, <2>1, <2>2, <2>3, Written
  <2> QED BY <1>4, <2>4 DEF Accounted
<1>12. Stamped'
  BY <1>9 DEF PumpInv, Stamped
<1>13. DriftSoFar'
  BY <1>4, <1>5, <1>9 DEF DriftSoFar
<1> QED BY <1>6, <1>7, <1>10, <1>11, <1>12, <1>13 DEF PumpInv

LEMMA If01 ==
  ASSUME NEW c \in BOOLEAN, NEW f \in Frames
  PROVE  /\ If(c, f) \in Seq(Frames) /\ Inc(If(c, f)) /\ Len(If(c, f)) <= 1
         /\ Elems(If(c, f)) = IF c THEN {f} ELSE {}
<1>1. CASE c
  BY <1>1, OneFrame DEF If
<1>2. CASE ~c
  <2>1. If(c, f) = <<>> /\ Len(<<>>) = 0
    BY <1>2 DEF If
  <2> QED BY <1>2, <2>1, EmptyLine
<1> QED BY <1>1, <1>2

(* The stamp of the frame planned is its nominal time and its shift.       *)
LEMMA Stamping ==
  ASSUME PumpTypeOK, ClockAt, NEW e \in Engines
  PROVE  /\ Frame(e) \in Frames /\ Frame(e).n = frameCounter
         /\ Frame(e).shift = Shift(e, frameCounter)
         /\ Frame(e).ts = (Nominal(frameCounter) + Frame(e).shift) % TsMod
<1> DEFINE h == Shift(e, frameCounter)
           t == tsOffset + DTS[idx + 1] + h
<1>1. Frame(e) = [n |-> frameCounter, shift |-> h, ts |-> t % TsMod]
  BY DEF Frame
<1>2. frameCounter \in Nat /\ h \in Int
  BY LagIs DEF PumpTypeOK
<1>3. tsOffset \in Nat /\ DTS[idx + 1] \in Nat
  <2>1. DTS \in Seq(Nat) /\ idx \in 0 .. Len(DTS) - 1
    BY PumpAssumption DEF PumpTypeOK
  <2>2. idx + 1 \in DOMAIN DTS
    BY <2>1
  <2> QED BY <2>1, <2>2, InSeq DEF PumpTypeOK
<1>4. Nominal(frameCounter) = tsOffset + DTS[idx + 1]
  BY DEF Nominal, ClockAt
<1> HIDE DEF h
<1>5. t \in Int /\ TsMod \in Nat \ {0}
  BY <1>2, <1>3, PumpAssumption
<1>6. t % TsMod \in Int
  BY <1>5
<1>7. t = Nominal(frameCounter) + h
  BY <1>4
<1> HIDE DEF t
<1> QED BY <1>1, <1>2, <1>6, <1>7 DEF Frames, h

(* The clock after one more frame.                                         *)
LEMMA Ticks ==
  ASSUME PumpTypeOK, ClockAt, idx' = (idx + 1) % Len(DTS), tsOffset' = AtSeam,
         frameCounter' = frameCounter + 1
  PROVE  ClockAt' /\ idx' \in 0 .. Len(DTS) - 1 /\ frameCounter' \in Nat /\ tsOffset' \in Nat
<1>1. PICK L \in Nat : L = Len(DTS)
  BY PumpAssumption
<1>2. L # 0 /\ L \in Nat \ {0} /\ DTS \in Seq(Nat) /\ FrameDur \in Nat
  BY <1>1, PumpAssumption
<1>3. frameCounter \in Nat /\ tsOffset \in Nat /\ idx \in 0 .. L - 1
  BY <1>1 DEF PumpTypeOK
<1> DEFINE P == DTS[L] + FrameDur
           d == frameCounter \div L
<1>4. P \in Nat /\ d \in Nat
  <2>1. L \in DOMAIN DTS
    BY <1>1, <1>2
  <2>2. DTS[L] \in Nat
    BY <1>2, <2>1, InSeq
  <2>3. d \in Nat
    BY <1>2, <1>3, DivMod
  <2>4. P \in Nat
    BY <1>2, <2>2
  <2> QED BY <2>3, <2>4
<1>5. idx = frameCounter % L /\ tsOffset = d * P
  BY <1>1 DEF ClockAt
<1>6. tsOffset' = IF idx + 1 = L THEN tsOffset + DTS[L] + FrameDur ELSE tsOffset
  BY <1>1 DEF AtSeam
<1>7. /\ (frameCounter + 1) % L = IF idx + 1 = L THEN 0 ELSE idx + 1
      /\ (frameCounter + 1) \div L = IF idx + 1 = L THEN d + 1 ELSE d
  BY <1>2, <1>3, <1>5, CountOn
<1>8. idx' = IF idx + 1 = L THEN 0 ELSE idx + 1
  <2>1. CASE idx + 1 = L
    <3>1. L = L * 1 + 0 /\ 0 \in 0 .. L - 1 /\ 1 \in Nat
      BY <1>2
    <3>2. L % L = 0
      BY <1>2, <3>1, Quotient
    <3> QED BY <1>1, <2>1, <3>2
  <2>2. CASE idx + 1 # L
    <3>1. idx + 1 = L * 0 + (idx + 1) /\ idx + 1 \in 0 .. L - 1 /\ 0 \in Nat /\ idx + 1 \in Nat
      BY <1>2, <1>3, <2>2
    <3>2. (idx + 1) % L = idx + 1
      BY <1>2, <3>1, Quotient
    <3> QED BY <1>1, <2>2, <3>2
  <2> QED BY <2>1, <2>2
<1>9. tsOffset' = ((frameCounter + 1) \div L) * P
  <2>1. CASE idx + 1 = L
    <3>1. tsOffset' = d * P + P
      <4>1. DTS[L] \in Nat
        <5>1. L \in DOMAIN DTS
          BY <1>1, <1>2
        <5> QED BY <1>2, <5>1, InSeq
      <4> QED BY <1>2, <1>3, <1>5, <1>6, <2>1, <4>1
    <3> HIDE DEF P, d
    <3>2. (d + 1) * P = d * P + P
      BY <1>4
    <3> QED BY <1>7, <2>1, <3>1, <3>2
  <2>2. CASE idx + 1 # L
    BY <1>5, <1>6, <1>7, <2>2
  <2> QED BY <2>1, <2>2
<1>10. idx' = frameCounter' % L
  BY <1>7, <1>8
<1>11. frameCounter' \in Nat /\ idx' \in 0 .. L - 1
  BY <1>2, <1>3, <1>8
<1>12. tsOffset' \in Nat
  <2>1. (frameCounter + 1) \div L \in Nat
    <3>1. frameCounter + 1 \in Nat
      BY <1>3
    <3> QED BY <1>2, <3>1, DivMod
  <2> HIDE DEF P
  <2>2. \A x, y \in Nat : x * y \in Nat
    OBVIOUS
  <2> QED BY <1>4, <1>9, <2>1, <2>2
<1> QED BY <1>1, <1>9, <1>10, <1>11, <1>12 DEF ClockAt

LEMMA PlanStep ==
  ASSUME PumpInv, NEW starts \in BOOLEAN, NEW fires \in BOOLEAN, Plan(starts, fires)
  PROVE  PumpInv'
<1> DEFINE e == Installed
           key == idx + 1 \in Keys
           drop == Drops(e, key, fires)
           fr == Frame(e)
           out == If(~drop, fr)
           a == Advance(e, key, starts)
           d == DecideHold(e, starts)
           J == installed'
           S == IF Releasing THEN sent \o held ELSE sent
           X == Kept \o out
<1>1. /\ engine' = a /\ sent' = S /\ pending' = <<>> /\ InstallPending
      /\ dropped' = IF drop THEN dropped \cup {frameCounter} ELSE dropped
      /\ held' = CASE d = "held" -> X [] d = "flush" -> <<>> [] d = "none" -> Kept
      /\ plan'.frames = CASE d = "held" -> <<>> [] d = "flush" -> X [] d = "none" -> out
      /\ plan'.released = IF d = "flush" THEN Len(plan'.frames) ELSE 0
      /\ plan' = [frames |-> plan'.frames, released |-> plan'.released]
      /\ idx' = (idx + 1) % Len(DTS) /\ frameCounter' = frameCounter + 1
      /\ tsOffset' = AtSeam /\ pc' = "emit" /\ failed' = failed
      /\ pc = "ready" /\ (starts => e.spec.hold > 0 /\ e.remaining = 0)
  <2>1. engine' = a /\ sent' = S
    BY DEF Plan
  <2>2. pending' = <<>> /\ InstallPending
    BY DEF Plan, InstallPending
  <2>3. dropped' = IF drop THEN dropped \cup {frameCounter} ELSE dropped
    BY DEF Plan
  <2>4. held' = CASE d = "held" -> X [] d = "flush" -> <<>> [] d = "none" -> Kept
    BY DEF Plan
  <2> DEFINE frames == CASE d = "held" -> <<>> [] d = "flush" -> X [] d = "none" -> out
  <2>5. plan' = [frames |-> frames, released |-> IF d = "flush" THEN Len(frames) ELSE 0]
    BY DEF Plan, Burst
  <2>6. /\ idx' = (idx + 1) % Len(DTS) /\ frameCounter' = frameCounter + 1
        /\ tsOffset' = AtSeam /\ pc' = "emit" /\ failed' = failed
        /\ pc = "ready" /\ (starts => e.spec.hold > 0 /\ e.remaining = 0)
    BY DEF Plan
  <2> HIDE DEF e, drop, fr, a, d, key, out, S, X
  <2>7. /\ plan'.frames = frames
        /\ plan'.released = IF d = "flush" THEN Len(plan'.frames) ELSE 0
        /\ plan' = [frames |-> plan'.frames, released |-> plan'.released]
    <3> HIDE DEF frames
    <3> QED BY <2>5
  <2> QED BY <2>1, <2>2, <2>3, <2>4, <2>6, <2>7
<1>2. /\ e \in Engines /\ (e.remaining > 0 => e.remaining < e.spec.hold)
      /\ held # <<>> /\ ~Releasing => e = engine
      /\ J \in Swaps /\ J # <<>> /\ J[Len(J)].spec = e.spec
      /\ \A u \in DOMAIN J : J[u].at <= frameCounter
      /\ \A n \in Nat : /\ Between(J, n, frameCounter) = Since(J, n)
                        /\ Steady(J, Since(J, n)) => e.spec.depth = 0
      /\ \A f \in Everything : Steady(J, Since(J, f.n)) => LagOf(e) <= f.shift
      /\ \A f, g \in Everything :
           f.n < g.n /\ Steady(J, Between(J, f.n, g.n)) => g.shift <= f.shift
  <2> HIDE DEF e, J
  <2>1. e = Installed /\ J = installed'
    BY DEF e, J
  <2> QED BY <1>1, <2>1, Installs
<1>3. key \in BOOLEAN /\ drop \in BOOLEAN
  BY DEF Drops, Starved
<1> HIDE DEF e, drop, key
<1>4. /\ a \in Engines /\ a.spec = e.spec
      /\ a.calls = IF Delayed(e.spec) = NoDelay THEN 0 ELSE e.calls + 1
      /\ a.remaining > 0 => a.remaining < a.spec.hold
      /\ d \in {"none", "held", "flush"}
      /\ d = "none" => e.remaining = 0
      /\ d = "held" => /\ a.remaining > 0
                       /\ e.remaining > 0 => a.remaining = e.remaining - 1
  BY <1>1, <1>2, <1>3, Deciding
<1>5. /\ fr \in Frames /\ fr.n = frameCounter /\ fr.shift = Shift(e, frameCounter)
      /\ fr.ts = (Nominal(frameCounter) + fr.shift) % TsMod
  BY <1>2, Stamping DEF PumpInv
<1> HIDE DEF fr, a, d, J
<1>6. /\ out \in Seq(Frames) /\ Inc(out) /\ Len(out) <= 1
      /\ Elems(out) = IF drop THEN {} ELSE {fr}
  <2>1. (~drop) \in BOOLEAN
    BY <1>3
  <2>2. /\ out \in Seq(Frames) /\ Inc(out) /\ Len(out) <= 1
        /\ Elems(out) = IF ~drop THEN {fr} ELSE {}
    BY <1>5, <2>1, If01
  <2> QED BY <2>2
<1> HIDE DEF out
<1>7. /\ sent \in Seq(Frames) /\ held \in Seq(Frames) /\ plan.frames = <<>>
      /\ Inc(sent) /\ Inc(held) /\ Before(sent, held)
      /\ frameCounter \in Nat
  BY <1>1 DEF PumpInv, PumpTypeOK, InLine, Ordered, PlanReady
<1>8. /\ Everything = Elems(sent) \cup Elems(held)
      /\ \A f \in Everything : f \in Frames /\ f.n \in Nat /\ f.shift \in Int /\ f.n < frameCounter
  <2>1. Everything = Elems(sent) \cup Elems(held)
    BY <1>7, EmptyLine DEF Everything
  <2> QED BY <2>1, Known DEF PumpInv
<1>9. /\ S \in Seq(Frames) /\ Kept \in Seq(Frames)
      /\ Inc(S) /\ Inc(Kept) /\ Before(S, Kept)
      /\ Everything = Elems(S) \cup Elems(Kept)
  <2>1. CASE Releasing
    <3>1. S = sent \o held /\ Kept = <<>>
      BY <2>1 DEF Kept
    <3>2. sent \o held \in Seq(Frames) /\ Inc(sent \o held)
          /\ Elems(sent \o held) = Elems(sent) \cup Elems(held)
      BY <1>7, Joined
    <3> HIDE DEF S
    <3> QED BY <1>8, <3>1, <3>2, EmptyLine
  <2>2. CASE ~Releasing
    <3>1. S = sent /\ Kept = held
      BY <2>2 DEF Kept
    <3> HIDE DEF S
    <3> QED BY <1>7, <1>8, <3>1
  <2> QED BY <2>1, <2>2
<1> HIDE DEF S
<1>10. \A f \in Elems(out) : f = fr /\ f.n = frameCounter /\ ~drop
  BY <1>5, <1>6
<1>11. Before(S, out) /\ Before(Kept, out)
  BY <1>8, <1>9, <1>10 DEF Before
<1>12. /\ X \in Seq(Frames) /\ Inc(X) /\ Len(X) = Len(Kept) + Len(out)
       /\ Elems(X) = Elems(Kept) \cup Elems(out)
  BY <1>6, <1>9, <1>11, Joined
<1>13. Before(S, X)
  BY <1>9, <1>11, <1>12 DEF Before
<1>14. d = "none" => Kept = <<>> /\ X = out
  <2> SUFFICES ASSUME d = "none" PROVE Kept = <<>> /\ X = out
    OBVIOUS
  <2>1. Kept = <<>>
    <3>1. CASE Releasing
      BY <3>1 DEF Kept
    <3>2. CASE held = <<>>
      BY <3>2 DEF Kept
    <3>3. CASE held # <<>> /\ ~Releasing
      BY <1>2, <1>4, <3>3 DEF PumpInv, HeldByRunningHold
    <3> QED BY <3>1, <3>2, <3>3
  <2>2. <<>> \o out = out
    BY <1>6
  <2> QED BY <2>1, <2>2
<1> HIDE DEF X
<1>15. \/ plan'.frames = X /\ held' = <<>>
       \/ plan'.frames = <<>> /\ held' = X /\ d = "held"
  BY <1>1, <1>4, <1>14
<1>16. /\ Everything' = Everything \cup Elems(out)
       /\ InLine' /\ plan'.frames \in Seq(Frames) /\ held' \in Seq(Frames)
       /\ sent' \in Seq(Frames)
  <2>1. Everything' = Elems(S) \cup Elems(X)
    BY <1>1, <1>15, EmptyLine DEF Everything
  <2>2. Ordered(sent', plan'.frames, held')
    BY <1>1, <1>9, <1>12, <1>13, <1>15, EmptyLine DEF Ordered
  <2> QED BY <1>1, <1>9, <1>12, <1>15, <2>1, <2>2, EmptyLine DEF InLine
<1>17. PumpTypeOK' /\ ClockAt' /\ PlanReady'
  <2>1. ClockAt' /\ idx' \in 0 .. Len(DTS) - 1 /\ frameCounter' \in Nat /\ tsOffset' \in Nat
    BY <1>1, Ticks DEF PumpInv
  <2>2. plan' \in [frames : Seq(Frames), released : Nat]
    <3>1. plan'.released \in Nat
      BY <1>1, <1>16
    <3> QED BY <1>1, <1>16, <3>1
  <2>3. pending' \in Seq(Specs)
    BY <1>1
  <2> QED BY <1>1, <1>2, <1>4, <1>16, <2>1, <2>2, <2>3 DEF PumpTypeOK, PlanReady, Swaps, J
<1>18. HoldRuns' /\ InstalledNow'
  <2>1. \A u \in DOMAIN J : J[u].at <= frameCounter + 1
    <3> TAKE u \in DOMAIN J
    <3>1. J[u].at \in Nat
      <4>1. J[u] \in [spec : Specs, at : Nat]
        BY <1>2, InSeq DEF Swaps
      <4> QED BY <4>1
    <3>2. J[u].at <= frameCounter
      BY <1>2
    <3> QED BY <1>7, <3>1, <3>2
  <2> QED BY <1>1, <1>2, <1>4, <2>1 DEF HoldRuns, InstalledNow, J
<1>19. HeldByRunningHold'
  <2> SUFFICES ASSUME d = "held", held' = X
               PROVE  a.remaining > 0 /\ Len(X) <= a.spec.hold - a.remaining
    BY <1>1, <1>15 DEF HeldByRunningHold
  <2>1. /\ a.remaining \in Nat /\ a.spec.hold \in Nat /\ a.remaining > 0
        /\ a.remaining < a.spec.hold
    BY <1>4, SpecFields
  <2>2. Len(Kept) \in Nat /\ Len(out) \in Nat
    BY <1>6, <1>9
  <2>3. CASE Kept = <<>>
    <3>1. Len(Kept) = 0
      BY <2>3
    <3> QED BY <1>6, <1>12, <2>1, <2>2, <3>1
  <2>4. CASE Kept # <<>>
    <3>1. Kept = held /\ ~Releasing /\ held # <<>>
      BY <2>4 DEF Kept
    <3>2. e = engine
      BY <1>2, <3>1
    <3>3. e.remaining > 0 /\ Len(Kept) <= e.spec.hold - e.remaining
      BY <3>1, <3>2 DEF PumpInv, HeldByRunningHold
    <3>4. e.remaining \in Nat /\ e.spec.hold \in Nat
      BY <1>2, SpecFields
    <3> QED BY <1>4, <1>6, <1>12, <2>1, <2>2, <3>3, <3>4
  <2> QED BY <2>3, <2>4
<1>20. Accounted'
  <2>1. Books(Everything, 0 .. frameCounter - 1, dropped, failed)
    BY DEF PumpInv, Accounted
  <2>2. 0 .. frameCounter' - 1 = (0 .. frameCounter - 1) \cup {frameCounter}
    BY <1>1, <1>7
  <2>3. ~(frameCounter \in 0 .. frameCounter - 1)
    BY <1>7
  <2>4. Nums(Everything') = IF drop THEN Nums(Everything) ELSE Nums(Everything) \cup {frameCounter}
    <3>1. CASE drop
      BY <1>6, <1>16, <3>1
    <3>2. CASE ~drop
      BY <1>5, <1>6, <1>16, <3>2 DEF Nums
    <3> QED BY <3>1, <3>2
  <2>5. Books(Everything', 0 .. frameCounter' - 1, dropped', failed')
    <3>1. CASE drop
      BY <1>1, <2>1, <2>2, <2>3, <2>4, <3>1 DEF Books
    <3>2. CASE ~drop
      BY <1>1, <2>1, <2>2, <2>3, <2>4, <3>2 DEF Books
    <3> QED BY <3>1, <3>2
  <2> QED BY <2>5 DEF Accounted
<1>21. Stamped'
  <2>1. \A f \in Everything' : f \in Everything \/ f = fr
    BY <1>10, <1>16
  <2> QED BY <1>5, <2>1 DEF PumpInv, Stamped
<1>22. DriftSoFar'
  <2>1. LagOf(a) <= LagOf(e) /\ LagOf(a) \in Int /\ LagOf(e) \in Int
    BY <1>2, <1>4, LagGrows, LagIs
  <2>2. \A f \in Everything' : f \in Everything \/ f = fr
    BY <1>10, <1>16
  <2>3. /\ fr.shift \in Int
        /\ e.spec.depth = 0 => fr.shift = LagOf(e)
    BY <1>2, <1>5, <1>7, LagIs
  <2>4. ASSUME NEW f \in Everything', Steady(J, Since(J, f.n))
        PROVE  LagOf(a) <= f.shift
    <3>1. CASE f \in Everything
      <4>1. LagOf(e) <= f.shift /\ f.shift \in Int
        BY <1>2, <1>8, <2>4, <3>1
      <4> QED BY <2>1, <4>1
    <3>2. CASE f = fr
      <4>1. e.spec.depth = 0
        BY <1>2, <1>5, <1>7, <2>4, <3>2
      <4> QED BY <2>1, <2>3, <3>2, <4>1
    <3> QED BY <2>2, <3>1, <3>2
  <2>5. ASSUME NEW f \in Everything', NEW g \in Everything',
               f.n < g.n, Steady(J, Between(J, f.n, g.n))
        PROVE  g.shift <= f.shift
    <3>1. CASE f \in Everything /\ g \in Everything
      BY <1>2, <2>5, <3>1
    <3>2. CASE f \in Everything /\ g = fr
      <4>1. Steady(J, Since(J, f.n)) /\ f.n \in Nat
        BY <1>2, <1>5, <1>8, <2>5, <3>2
      <4>2. e.spec.depth = 0 /\ LagOf(e) <= f.shift
        BY <1>2, <3>2, <4>1
      <4> QED BY <2>3, <3>2, <4>2
    <3>3. CASE f = fr
      <4>1. g.n \in Nat /\ g.n <= frameCounter
        BY <1>5, <1>7, <1>8, <2>2
      <4> QED BY <1>5, <1>7, <2>5, <3>3, <4>1
    <3> QED BY <2>2, <3>1, <3>2, <3>3
  <2> QED BY <1>1, <2>4, <2>5 DEF DriftSoFar, J
<1> QED BY <1>16, <1>17, <1>18, <1>19, <1>20, <1>21, <1>22 DEF PumpInv

LEMMA PumpStarts ==
  ASSUME Init
  PROVE  PumpInv
<1>1. /\ idx = 0 /\ frameCounter = 0 /\ tsOffset = 0 /\ engine = New(First)
      /\ pending = <<>> /\ held = <<>> /\ plan = [frames |-> <<>>, released |-> 0]
      /\ pc = "ready" /\ sent = <<>> /\ dropped = {} /\ failed = {}
      /\ installed = <<[spec |-> First, at |-> 0]>>
  BY DEF Init
<1>2. PICK L \in Nat : L = Len(DTS)
  BY PumpAssumption
<1>3. L # 0 /\ L \in Nat \ {0} /\ First \in Specs /\ DTS \in Seq(Nat) /\ FrameDur \in Nat
  BY <1>2, PumpAssumption
<1>4. engine \in Engines /\ engine.spec = First /\ engine.remaining = 0
  BY <1>1, <1>3 DEF New, Engines
<1>5. /\ installed \in Swaps /\ Len(installed) = 1 /\ installed # <<>>
      /\ DOMAIN installed = {1} /\ installed[1] = [spec |-> First, at |-> 0]
  BY <1>1, <1>3 DEF Swaps
<1>6. plan.frames = <<>> /\ plan \in [frames : Seq(Frames), released : Nat]
  BY <1>1, EmptyLine
<1>7. Everything = {}
  BY <1>1, <1>6, EmptyLine DEF Everything
<1>8. PumpTypeOK
  <2>1. 0 \in 0 .. Len(DTS) - 1
    BY <1>2, <1>3
  <2> QED BY <1>1, <1>4, <1>5, <1>6, <2>1, EmptyLine DEF PumpTypeOK, Swaps
<1>9. ClockAt
  <2>1. 0 = L * 0 + 0 /\ 0 \in Nat /\ 0 \in 0 .. L - 1
    BY <1>3
  <2>2. 0 = 0 \div L /\ 0 = 0 % L
    BY <1>3, <2>1, Quotient
  <2>3. DTS[L] + FrameDur \in Nat
    <3>1. L \in DOMAIN DTS
      BY <1>2, <1>3
    <3>2. DTS[L] \in Nat
      BY <1>3, <3>1, InSeq
    <3> QED BY <1>3, <3>2
  <2>4. \A x \in Nat : 0 * x = 0
    OBVIOUS
  <2> QED BY <1>1, <1>2, <2>2, <2>3, <2>4 DEF ClockAt
<1>10. HoldRuns /\ HeldByRunningHold /\ PlanReady
  BY <1>1, <1>4, <1>6 DEF HoldRuns, HeldByRunningHold, PlanReady
<1>11. InLine
  BY <1>1, <1>6, EmptyLine DEF InLine, Ordered
<1>12. Accounted
  <2>1. 0 .. frameCounter - 1 = {}
    BY <1>1
  <2> QED BY <1>1, <1>7, <2>1 DEF Accounted, Books, Nums
<1>13. InstalledNow
  BY <1>1, <1>4, <1>5 DEF InstalledNow
<1> QED BY <1>7, <1>8, <1>9, <1>10, <1>11, <1>12, <1>13 DEF PumpInv, Stamped, DriftSoFar

LEMMA PumpSteps ==
  ASSUME PumpInv, [Next]_vars
  PROVE  PumpInv'
<1>1. CASE UNCHANGED vars
  <2>1. pending' \in Seq(Specs)
    BY <1>1 DEF vars, PumpInv, PumpTypeOK
  <2> QED BY <1>1, <2>1, IdleStep DEF vars
<1>2. ASSUME NEW x \in Specs, SetFaults(x)
      PROVE  PumpInv'
  <2>1. pending' \in Seq(Specs)
    BY <1>2 DEF SetFaults, PumpInv, PumpTypeOK
  <2> QED BY <1>2, <2>1, IdleStep DEF SetFaults
<1>3. ASSUME NEW starts \in BOOLEAN, NEW fires \in BOOLEAN, Plan(starts, fires)
      PROVE  PumpInv'
  BY <1>3, PlanStep
<1>4. ASSUME NEW w \in 0 .. MaxFrames, PlanFails(w)
      PROVE  PumpInv'
  <2>1. w \in Nat
    BY PumpAssumption
  <2> QED BY <1>4, <2>1, PlanFailsStep
<1>5. ASSUME NEW w \in 0 .. MaxFrames, Emit(w)
      PROVE  PumpInv'
  <2>1. w \in Nat
    BY PumpAssumption
  <2> QED BY <1>5, <2>1, EmitStep
<1>6. ASSUME Stop
      PROVE  PumpInv'
  <2>1. pending' \in Seq(Specs)
    BY <1>6 DEF Stop, PumpInv, PumpTypeOK
  <2> QED BY <1>6, <2>1, IdleStep DEF Stop
<1> QED BY <1>1, <1>2, <1>3, <1>4, <1>5, <1>6 DEF Next

LEMMA PumpAlways == Spec => []PumpInv
BY PumpStarts, PumpSteps, PTL DEF Spec

LEMMA LineIs ==
  ASSUME PumpInv
  PROVE  /\ Line \in Seq(Frames) /\ Elems(Line) = Everything
         /\ Inc(Line)
<1>1. /\ sent \in Seq(Frames) /\ plan.frames \in Seq(Frames) /\ held \in Seq(Frames)
      /\ Ordered(sent, plan.frames, held)
  BY DEF PumpInv, PumpTypeOK, InLine
<1> DEFINE a == sent \o plan.frames
<1>2. /\ a \in Seq(Frames) /\ Elems(a) = Elems(sent) \cup Elems(plan.frames) /\ Inc(a)
  BY <1>1, Joined DEF Ordered
<1>3. Before(a, held)
  BY <1>1, <1>2 DEF Before, Ordered
<1>4. Line = a \o held
  BY DEF Line
<1> HIDE DEF a
<1>5. /\ a \o held \in Seq(Frames) /\ Elems(a \o held) = Elems(a) \cup Elems(held)
      /\ Inc(a \o held)
  BY <1>1, <1>2, <1>3, Joined DEF Ordered
<1> QED BY <1>2, <1>4, <1>5 DEF Everything

(* The pump's state is what the code takes it for: the position lies in    *)
(* the clip, the queue holds fault sets, the buffers hold stamped frames.  *)
THEOREM PumpTypeCorrect == Spec => []PumpTypeOK
<1>1. PumpInv => PumpTypeOK
  BY DEF PumpInv
<1> QED BY <1>1, PumpAlways, PTL

(* No frame is lost, none leaves twice and none overtakes another, with    *)
(* bursts, swaps of the fault set in the middle of one, write errors, and  *)
(* the pump stopped anywhere (plan, emit and releaseHeld in pump.go).      *)
THEOREM NoFrameIsLost == Spec => []FramesKept
<1>1. PumpInv => FramesKept
  <2> SUFFICES ASSUME PumpInv PROVE FramesKept
    OBVIOUS
  <2>1. Elems(Line) = Everything /\ Inc(Line)
    BY LineIs
  <2>2. InOrder
    BY <2>1 DEF InOrder, Inc
  <2>3. NothingLost
    BY <2>1, NumbersOf DEF NothingLost, PumpInv, Accounted, Books
  <2> QED BY <2>2, <2>3 DEF FramesKept
<1> QED BY <1>1, PumpAlways, PTL

(* A frame is in the hold buffer only while the hold that took it runs,    *)
(* whatever sets are queued meanwhile, and the buffer never holds more     *)
(* than that hold takes (DecideHold in burst.go, plan in pump.go).         *)
THEOREM HoldsAreReleased == Spec => []HeldByRunningHold
<1>1. PumpInv => HeldByRunningHold
  BY DEF PumpInv
<1> QED BY <1>1, PumpAlways, PTL

(* A stamp is the frame's place in a clip repeated without a break, moved  *)
(* by its own shift, and the drift of an unchanged pts_delayed is not set  *)
(* back by a swap of the fault set (plan, Inherit, TimestampShift).        *)
THEOREM ClockRunsOn == Spec => []ClockKept
<1>1. PumpInv => ClockKept
  <2> SUFFICES ASSUME PumpInv PROVE ClockKept
    OBVIOUS
  <2>1. Line \in Seq(Frames) /\ Elems(Line) = Everything /\ Inc(Line)
    BY LineIs
  <2>2. \A i \in DOMAIN Line : Line[i] \in Everything
    BY <2>1 DEF Elems
  <2>3. ClockContinuous
    BY <2>2 DEF ClockContinuous, PumpInv, Stamped
  <2>4. DriftKept
    <3> SUFFICES ASSUME NEW i \in DOMAIN Line, NEW j \in DOMAIN Line, i < j,
                        Steady(installed, Between(installed, Line[i].n, Line[j].n))
                 PROVE  Line[j].shift <= Line[i].shift
      BY DEF DriftKept, Steady, Between, Since
    <3>1. Line[i].n < Line[j].n
      BY <2>1 DEF Inc
    <3> QED BY <2>2, <3>1 DEF PumpInv, DriftSoFar
  <2> QED BY <2>3, <2>4 DEF ClockKept
<1> QED BY <1>1, PumpAlways, PTL


(***************************************************************************)
(* The schedule of the driver loop: what the loop waits for is the slot of *)
(* the next frame or a resynchronized start, never a time that has passed  *)
(* by more than the limit; and after a cancel there is at most one frame,  *)
(* the one that was due already.                                           *)
(***************************************************************************)
PacerTypeOK ==
  /\ now \in Nat /\ start \in Nat /\ k \in Nat /\ prevDue \in Nat /\ due \in Nat
  /\ pacing \in {"wait", "delay", "emit", "stopped"}
  /\ cancelled \in BOOLEAN
  /\ planned \in Seq(Nat)
  /\ resyncs \in Nat /\ stalled \in Nat /\ after \in Nat

(* The slot of the last frame, and what the loop waits or works for.       *)
Base == start + k * Interval
Aim == IF pacing = "wait" THEN At ELSE due

(* A frame is due no later than a delay after its slot.                    *)
DueSoon ==
  /\ prevDue <= Base + MaxDelay
  /\ pacing \in {"delay", "emit"} => due <= Base + MaxDelay

(* A frame was planned no later than a delay and the guard after its slot, *)
(* even if the schedule has been restarted since.                          *)
PlannedOnTime ==
  \A i \in DOMAIN planned :
    planned[i] + (Len(planned) - i) * Interval <= Base + Guard + MaxDelay

(* The loop is late by no more than the time it was stalled, and so is the *)
(* schedule.                                                               *)
Lateness ==
  /\ pacing # "stopped" => now <= Aim + stalled
  /\ Base <= Len(planned) * Interval + resyncs * MaxDelay + stalled
  /\ pacing # "stopped" =>
       now + Base <= Len(planned) * Interval + resyncs * MaxDelay + Aim + stalled

(* Once cancelled, a frame may leave only if it was past its wait.         *)
LastFrame ==
  /\ pacing = "stopped" => cancelled
  /\ after <= 1
  /\ ~cancelled \/ pacing = "emit" => after = 0

PacerInv ==
  /\ PacerTypeOK /\ DueSoon /\ PlannedOnTime /\ Lateness /\ LastFrame
  /\ CatchUpBounded /\ ResyncOnlyAfterStall

LEMMA OneMore ==
  ASSUME NEW a \in Int, NEW b \in Int
  PROVE  (a + 1) * b = a * b + b
OBVIOUS

(* What holds of a frame and a slot holds of both, one interval later.     *)
LEMMA NextSlot ==
  ASSUME NEW x \in Int, NEW l \in Int, NEW b \in Int, NEW c \in Int, NEW v \in Int,
         NEW g \in Int, NEW m \in Int, x + l <= b + g + m, c >= b + v
  PROVE  x + (l + v) <= c + g + m
OBVIOUS

LEMMA AtFacts ==
  ASSUME PacerTypeOK
  PROVE  /\ Base \in Nat /\ Slot = Base + Interval /\ Slot \in Nat
         /\ At \in Nat /\ At >= Slot /\ At >= prevDue /\ (At = Slot \/ At = prevDue)
<1> USE PacerAssumption DEF PacerAssumption, PacerTypeOK
<1>1. k * Interval \in Nat /\ (k + 1) * Interval = k * Interval + Interval
  BY OneMore
<1>2. Base \in Nat /\ Slot = Base + Interval /\ Slot \in Nat
  BY <1>1 DEF Base, Slot
<1> QED BY <1>2 DEF At, Later

LEMMA AtTyped ==
  PacerTypeOK => /\ At \in Nat /\ At >= Base + Interval /\ At >= prevDue
                 /\ Base \in Nat /\ prevDue \in Nat
BY AtFacts DEF PacerTypeOK

(* The rate is kept while the loop runs.                                   *)
LEMMA InvRate ==
  ASSUME PacerInv
  PROVE  pacing # "stopped" =>
           now <= Len(planned) * Interval + Interval + resyncs * MaxDelay + MaxDelay + stalled
<1> USE PacerAssumption DEF PacerAssumption
<1>1. PacerTypeOK /\ DueSoon /\ Lateness
  BY DEF PacerInv
<1>2. /\ now \in Nat /\ prevDue \in Nat /\ due \in Nat /\ stalled \in Nat
      /\ Len(planned) * Interval \in Nat /\ resyncs * MaxDelay \in Nat
  BY <1>1 DEF PacerTypeOK
<1>3. Base \in Nat /\ At \in Nat /\ At <= Base + Interval + MaxDelay
  BY <1>1, <1>2, AtFacts DEF DueSoon
<1>4. pacing # "stopped" => Aim \in Nat /\ Aim <= Base + Interval + MaxDelay
  BY <1>1, <1>2, <1>3 DEF Aim, DueSoon, PacerTypeOK
<1> QED BY <1>1, <1>2, <1>3, <1>4 DEF Lateness

(* What planning a frame, or failing to, does to the schedule: the next    *)
(* slot, or a restart at now.                                              *)
Advanced ==
  /\ pacing = "wait" /\ now >= At /\ ~cancelled
  /\ start' = IF TooLate THEN now ELSE start
  /\ k' = IF TooLate THEN 0 ELSE k + 1
  /\ prevDue' = IF TooLate THEN 0 ELSE prevDue
  /\ resyncs' = IF TooLate THEN resyncs + 1 ELSE resyncs
  /\ planned' = Append(planned, now)
  /\ UNCHANGED <<now, cancelled, stalled, after>>
  /\ due' \in Nat /\ pacing' \in {"wait", "delay", "emit"}

LEMMA AdvancedType ==
  ASSUME PacerInv, Advanced
  PROVE  PacerTypeOK'
<1> USE PacerAssumption DEF PacerAssumption
<1> QED BY DEF PacerInv, PacerTypeOK, Advanced

LEMMA AdvancedFacts ==
  ASSUME PacerInv, Advanced
  PROVE  /\ Len(planned') = Len(planned) + 1
         /\ \A i \in DOMAIN planned : i \in 1 .. Len(planned) /\ planned'[i] = planned[i] /\ planned[i] \in Nat
         /\ DOMAIN planned' = DOMAIN planned \cup {Len(planned) + 1}
         /\ planned'[Len(planned) + 1] = now
         /\ Base' = IF TooLate THEN now ELSE Base + Interval
         /\ Base' \in Nat
<1> USE PacerAssumption DEF PacerAssumption
<1>1. PacerTypeOK
  BY DEF PacerInv
<1>2. /\ planned \in Seq(Nat) /\ now \in Nat /\ planned' = Append(planned, now)
      /\ start \in Nat /\ k \in Nat
  BY <1>1 DEF PacerTypeOK, Advanced
<1>3. Base' = IF TooLate THEN now ELSE Base + Interval
  <2>1. CASE TooLate
    <3>1. Base' = now + 0 * Interval
      BY <2>1 DEF Base, Advanced
    <3> QED BY <1>2, <2>1, <3>1
  <2>2. CASE ~TooLate
    <3>1. Base' = start + (k + 1) * Interval
      BY <2>2 DEF Base, Advanced
    <3>2. (k + 1) * Interval = k * Interval + Interval /\ k * Interval \in Nat
      BY <1>2, OneMore
    <3> QED BY <1>2, <2>2, <3>1, <3>2 DEF Base
  <2> QED BY <2>1, <2>2
<1>4. Base' \in Nat
  BY <1>1, <1>2, <1>3, AtFacts
<1> QED BY <1>2, <1>3, <1>4

(* The next slot is at least an interval on, and the frame is planned no   *)
(* later than a delay and the guard after it.                              *)
LEMMA AdvancedOnTime ==
  ASSUME PacerInv, Advanced
  PROVE  /\ now >= Base + Interval /\ Base' >= Base + Interval
         /\ now <= Base' + Guard + MaxDelay
<1> USE PacerAssumption DEF PacerAssumption
<1>1. PacerTypeOK /\ DueSoon /\ now >= At
  BY DEF PacerInv, Advanced
<1>2. now \in Nat /\ Base \in Nat /\ At \in Nat /\ prevDue \in Nat
  BY <1>1, AtFacts DEF PacerTypeOK
<1>3. At >= Base + Interval /\ At <= Base + Interval + MaxDelay
  BY <1>1, <1>2, AtFacts DEF DueSoon
<1>4. CASE TooLate
  BY <1>1, <1>2, <1>3, <1>4, AdvancedFacts DEF TooLate
<1>5. CASE ~TooLate
  BY <1>1, <1>2, <1>3, <1>5, AdvancedFacts DEF TooLate
<1> QED BY <1>4, <1>5

LEMMA AdvancedHistory ==
  ASSUME PacerInv, Advanced
  PROVE  PlannedOnTime' /\ CatchUpBounded'
<1> USE PacerAssumption DEF PacerAssumption
<1> DEFINE N == Len(planned)
           Lag(i) == (N - i) * Interval
<1>1. PacerTypeOK /\ PlannedOnTime /\ CatchUpBounded
  BY DEF PacerInv
<1>2. now \in Nat /\ N \in Nat /\ Base \in Nat /\ Base' \in Nat /\ Len(planned') = N + 1
  BY <1>1, AtFacts, AdvancedFacts DEF PacerTypeOK
<1>3. \A i \in DOMAIN planned :
        /\ i \in Nat /\ planned[i] \in Nat /\ Lag(i) \in Int
        /\ planned[i] + Lag(i) <= Base + Guard + MaxDelay
        /\ ((N + 1) - i) * Interval = Lag(i) + Interval
  <2> TAKE i \in DOMAIN planned
  <2>1. i \in 1 .. N /\ planned[i] \in Nat
    BY <1>1 DEF PacerTypeOK
  <2>2. N - i \in Int /\ Lag(i) \in Int
    BY <1>2, <2>1
  <2>3. ((N - i) + 1) * Interval = Lag(i) + Interval
    BY <2>2, OneMore
  <2>4. (N + 1) - i = (N - i) + 1
    BY <1>2, <2>1
  <2>5. planned[i] + Lag(i) <= Base + Guard + MaxDelay
    BY <1>1 DEF PlannedOnTime
  <2> QED BY <2>1, <2>2, <2>3, <2>4, <2>5
<1> HIDE DEF Lag
<1>4. ((N + 1) - (N + 1)) * Interval = 0
  BY <1>2
<1>d. DOMAIN planned' = DOMAIN planned \cup {N + 1} /\ DOMAIN planned \subseteq 1 .. N
  BY AdvancedFacts
<1>5. ASSUME NEW i \in DOMAIN planned'
      PROVE  planned'[i] + (Len(planned') - i) * Interval <= Base' + Guard + MaxDelay
  <2>1. CASE i = N + 1
    <3>1. planned'[i] = now /\ (Len(planned') - i) * Interval = 0
      BY <1>2, <1>4, <2>1, AdvancedFacts
    <3>2. now <= Base' + Guard + MaxDelay
      BY AdvancedOnTime
    <3>3. now + 0 = now
      BY <1>2
    <3> QED BY <3>1, <3>2, <3>3
  <2>2. CASE i \in DOMAIN planned
    <3>1. planned'[i] = planned[i] /\ (Len(planned') - i) * Interval = Lag(i) + Interval
      BY <1>2, <1>3, <2>2, AdvancedFacts
    <3>2. planned[i] + Lag(i) <= Base + Guard + MaxDelay /\ planned[i] \in Nat /\ Lag(i) \in Int
      BY <1>3, <2>2
    <3>3. Base' >= Base + Interval
      BY AdvancedOnTime
    <3>4. planned[i] + (Lag(i) + Interval) <= Base' + Guard + MaxDelay
      BY <1>2, <3>2, <3>3, NextSlot
    <3> QED BY <3>1, <3>4
  <2> QED BY <1>d, <2>1, <2>2
<1>6. ASSUME NEW i \in DOMAIN planned', NEW j \in DOMAIN planned', i < j
      PROVE  (j - i) * Interval <= planned'[j] - planned'[i] + Guard + MaxDelay
  <2>1. i \in DOMAIN planned
    BY <1>2, <1>6, <1>d
  <2>2. CASE j \in DOMAIN planned
    <3>1. planned'[i] = planned[i] /\ planned'[j] = planned[j]
      BY <2>1, <2>2, AdvancedFacts
    <3> QED BY <1>1, <1>6, <2>1, <2>2, <3>1 DEF CatchUpBounded
  <2>3. CASE j = N + 1
    <3>1. planned'[i] = planned[i] /\ planned'[j] = now /\ (j - i) * Interval = Lag(i) + Interval
      BY <1>3, <2>1, <2>3, AdvancedFacts
    <3>2. planned[i] + Lag(i) <= Base + Guard + MaxDelay /\ planned[i] \in Nat /\ Lag(i) \in Int
      BY <1>3, <2>1
    <3>3. now >= Base + Interval
      BY AdvancedOnTime
    <3>4. \A x, l \in Int : x + l <= Base + Guard + MaxDelay =>
                             l + Interval <= now - x + Guard + MaxDelay
      BY <1>2, <3>3
    <3>5. Lag(i) + Interval <= now - planned[i] + Guard + MaxDelay
      BY <3>2, <3>4
    <3> QED BY <3>1, <3>5
  <2> QED BY <1>d, <2>2, <2>3
<1>7. PlannedOnTime'
  BY <1>5 DEF PlannedOnTime
<1>8. CatchUpBounded'
  BY <1>6 DEF CatchUpBounded
<1> QED BY <1>7, <1>8

(* What lateness becomes: behind the new slot by no more than before, or   *)
(* restarted, which costs one delay.                                       *)
LEMMA AdvancedLateness ==
  ASSUME PacerInv, Advanced
  PROVE  /\ ResyncOnlyAfterStall'
         /\ prevDue' <= Base' + MaxDelay
         /\ Base' <= Len(planned') * Interval + resyncs' * MaxDelay + stalled'
         /\ \A aim \in Nat :
              aim >= (IF TooLate THEN now ELSE At) =>
                /\ now <= aim + stalled
                /\ now + Base' <= Len(planned') * Interval + resyncs' * MaxDelay + aim + stalled
<1> USE PacerAssumption DEF PacerAssumption
<1> DEFINE N == Len(planned)
           L == N * Interval
           R == resyncs * MaxDelay
<1>1. PacerTypeOK /\ DueSoon /\ Lateness /\ ResyncOnlyAfterStall /\ pacing = "wait"
  BY DEF PacerInv, Advanced
<1>2. /\ now \in Nat /\ prevDue \in Nat /\ stalled \in Nat /\ resyncs \in Nat /\ N \in Nat
      /\ Base \in Nat /\ At \in Nat /\ L \in Nat /\ R \in Nat
  BY <1>1, AtFacts DEF PacerTypeOK
<1>3. Len(planned') * Interval = L + Interval /\ stalled' = stalled
  BY <1>2, AdvancedFacts, OneMore DEF Advanced
<1>4. now <= At + stalled /\ Base <= L + R + stalled /\ now + Base <= L + R + At + stalled
  BY <1>1 DEF Lateness, Aim
<1>5. now <= L + Interval + R + MaxDelay + stalled
  BY <1>1, InvRate
<1> HIDE DEF L, R
<1>6. CASE TooLate
  <2>1. /\ Base' = now /\ prevDue' = 0 /\ resyncs' = resyncs + 1 /\ now > At + Guard
        /\ resyncs' * MaxDelay = R + MaxDelay
    BY <1>2, <1>6, AdvancedFacts, OneMore DEF Advanced, TooLate, R
  <2>2. ResyncOnlyAfterStall'
    BY <1>2, <1>3, <1>4, <2>1 DEF ResyncOnlyAfterStall
  <2> QED BY <1>2, <1>3, <1>5, <1>6, <2>1, <2>2
<1>7. CASE ~TooLate
  <2>1. Base' = Base + Interval /\ prevDue' = prevDue /\ resyncs' = resyncs
    BY <1>7, AdvancedFacts DEF Advanced
  <2>2. resyncs' * MaxDelay = R
    BY <2>1 DEF R
  <2>3. ResyncOnlyAfterStall'
    BY <1>1, <1>3, <2>1 DEF ResyncOnlyAfterStall
  <2>4. prevDue' <= Base' + MaxDelay
    BY <1>1, <1>2, <2>1 DEF DueSoon
  <2>5. ASSUME NEW aim \in Nat, aim >= At
        PROVE  now <= aim + stalled /\ now + Base' <= L + Interval + R + aim + stalled
    BY <1>2, <1>4, <2>1, <2>5
  <2> QED BY <1>2, <1>3, <1>4, <1>7, <2>1, <2>2, <2>3, <2>4, <2>5
<1> QED BY <1>6, <1>7

LEMMA PlanFrameKeeps ==
  ASSUME PacerInv, NEW d \in 0 .. MaxDelay, PlanFrame(d)
  PROVE  PacerInv'
<1> USE PacerAssumption DEF PacerAssumption
<1>1. PacerTypeOK /\ DueSoon /\ LastFrame /\ d \in Nat /\ d <= MaxDelay
  BY DEF PacerInv
<1>2. now \in Nat /\ At \in Nat /\ Slot \in Nat /\ Base \in Nat
  BY <1>1, AtFacts DEF PacerTypeOK
<1>3. due' \in Nat /\ due' >= (IF TooLate THEN now ELSE At)
  BY <1>1, <1>2 DEF PlanFrame, Later
<1>4. Advanced /\ pacing' \in {"delay", "emit"}
  BY <1>3 DEF PlanFrame, Advanced
<1>5. due' <= Base' + MaxDelay
  <2>1. At <= Base + Interval + MaxDelay /\ Slot = Base + Interval
    BY <1>1, <1>2, AtFacts DEF DueSoon, PacerTypeOK
  <2>2. CASE TooLate
    BY <1>1, <1>2, <1>4, <2>2, AdvancedFacts DEF PlanFrame, Later
  <2>3. CASE ~TooLate
    BY <1>1, <1>2, <1>4, <2>1, <2>3, AdvancedFacts DEF PlanFrame, Later
  <2> QED BY <2>2, <2>3
<1>6. DueSoon'
  BY <1>4, <1>5, AdvancedLateness DEF DueSoon
<1>7. Lateness'
  <2>1. Aim' = due' /\ now' = now /\ stalled' = stalled
    BY <1>4 DEF Aim, Advanced
  <2> QED BY <1>3, <1>4, <2>1, AdvancedLateness DEF Lateness
<1>8. LastFrame'
  BY <1>1, <1>4 DEF LastFrame, Advanced
<1> QED BY <1>4, <1>6, <1>7, <1>8, AdvancedType, AdvancedHistory, AdvancedLateness DEF PacerInv

LEMMA PlanErrorKeeps ==
  ASSUME PacerInv, PlanError
  PROVE  PacerInv'
<1> USE PacerAssumption DEF PacerAssumption
<1>1. PacerTypeOK /\ LastFrame /\ Advanced /\ pacing' = "wait"
  BY DEF PacerInv, PlanError, Advanced, PacerTypeOK
<1>2. PacerTypeOK'
  BY <1>1, AdvancedType
<1>3. At' \in Nat /\ At' >= Base' + Interval /\ At' >= prevDue' /\ Base' \in Nat /\ prevDue' \in Nat
  <2>1. (PacerTypeOK => /\ At \in Nat /\ At >= Base + Interval /\ At >= prevDue
                        /\ Base \in Nat /\ prevDue \in Nat)'
    BY AtTyped, PTL
  <2> QED BY <1>2, <2>1
<1>4. At' >= (IF TooLate THEN now ELSE At)
  <2>1. now \in Nat /\ At \in Nat /\ Slot \in Nat /\ Base \in Nat /\ prevDue \in Nat
        /\ Slot = Base + Interval /\ (At = Slot \/ At = prevDue)
    BY <1>1, AtFacts DEF PacerTypeOK
  <2>2. Base' = (IF TooLate THEN now ELSE Base + Interval) /\ (~TooLate => prevDue' = prevDue)
    BY <1>1, AdvancedFacts DEF Advanced
  <2> QED BY <1>3, <2>1, <2>2
<1>5. DueSoon'
  BY <1>1, AdvancedLateness DEF DueSoon
<1>6. Lateness'
  <2>1. Aim' = At' /\ now' = now /\ stalled' = stalled
    BY <1>1 DEF Aim, Advanced
  <2> QED BY <1>1, <1>3, <1>4, <2>1, AdvancedLateness DEF Lateness
<1>7. LastFrame'
  BY <1>1 DEF LastFrame, Advanced
<1> QED BY <1>1, <1>2, <1>5, <1>6, <1>7, AdvancedHistory, AdvancedLateness DEF PacerInv

LEMMA TickKeeps ==
  ASSUME PacerInv, Tick
  PROVE  PacerInv'
<1> USE PacerAssumption DEF PacerAssumption
<1>1. PacerTypeOK /\ Lateness /\ pacing # "stopped"
  BY DEF PacerInv, Tick
<1>2. /\ now \in Nat /\ stalled \in Nat /\ Base \in Nat /\ Aim \in Nat
      /\ Len(planned) * Interval \in Nat /\ resyncs * MaxDelay \in Nat
  BY <1>1, AtFacts DEF PacerTypeOK, Aim
<1>3. Base' = Base /\ At' = At /\ Aim' = Aim /\ now' = now + 1
  BY DEF Tick, Base, At, Slot, Aim
<1>4. IF Ready THEN stalled' = stalled + 1 ELSE stalled' = stalled /\ now + 1 <= Aim
  <2>1. ~Ready => ~(now >= Aim)
    BY <1>1 DEF Ready, Deadline, Aim, PacerTypeOK
  <2> QED BY <1>2, <2>1 DEF Tick
<1>5. Lateness'
  BY <1>1, <1>2, <1>3, <1>4 DEF Lateness, Tick
<1>6. PacerTypeOK' /\ ResyncOnlyAfterStall'
  BY <1>1, <1>2, <1>4 DEF PacerInv, PacerTypeOK, ResyncOnlyAfterStall, Tick
<1> QED
  BY <1>3, <1>5, <1>6
  DEF PacerInv, DueSoon, PlannedOnTime, LastFrame, CatchUpBounded, Tick

LEMMA LeaveKeeps ==
  ASSUME PacerInv, Leave
  PROVE  PacerInv'
<1> USE PacerAssumption DEF PacerAssumption
<1>1. PacerTypeOK /\ DueSoon /\ Lateness /\ LastFrame /\ pacing = "emit"
  BY DEF PacerInv, Leave
<1>2. /\ now \in Nat /\ stalled \in Nat /\ Base \in Nat /\ due \in Nat /\ Slot \in Nat
      /\ Len(planned) * Interval \in Nat /\ resyncs * MaxDelay \in Nat
  BY <1>1, AtFacts DEF PacerTypeOK
<1>3. /\ Base' = Base /\ Slot' = Slot /\ pacing' = "wait" /\ now' = now /\ stalled' = stalled
      /\ planned' = planned /\ resyncs' = resyncs /\ prevDue' = due
  BY DEF Leave, Base, Slot
<1>4. Aim' \in Nat /\ Aim' >= due
  BY <1>2, <1>3 DEF Aim, At, Later
<1>5. Lateness'
  BY <1>1, <1>2, <1>3, <1>4 DEF Lateness, Aim
<1>6. PacerTypeOK' /\ LastFrame' /\ DueSoon'
  BY <1>1, <1>3 DEF Leave, PacerTypeOK, LastFrame, DueSoon
<1> QED
  BY <1>3, <1>5, <1>6 DEF PacerInv, PlannedOnTime, ResyncOnlyAfterStall, CatchUpBounded

(* The other steps leave the schedule alone, or do nothing at all.         *)
LEMMA OthersKeep ==
  ASSUME PacerInv, DelayOver \/ CancelPump \/ ExitLoop \/ UNCHANGED pacerVars
  PROVE  PacerInv'
<1>1. PacerTypeOK /\ DueSoon /\ Lateness /\ LastFrame
  BY DEF PacerInv
<1>2. /\ UNCHANGED <<now, start, k, prevDue, due, planned, resyncs, stalled, after>>
      /\ \/ UNCHANGED <<pacing, cancelled>>
         \/ pacing = "delay" /\ pacing' = "emit" /\ ~cancelled /\ cancelled' = cancelled
         \/ ~cancelled /\ cancelled' = TRUE /\ pacing' = pacing
         \/ cancelled /\ cancelled' = cancelled /\ pacing' = "stopped"
            /\ pacing \in {"wait", "delay"}
  BY DEF DelayOver, CancelPump, ExitLoop, pacerVars
<1>3. /\ Base' = Base /\ At' = At
      /\ pacing' # "stopped" => pacing # "stopped" /\ Aim' = Aim
  BY <1>2 DEF Base, At, Slot, Aim
<1>4. PacerTypeOK'
  BY <1>1, <1>2 DEF PacerTypeOK
<1>5. DueSoon' /\ Lateness'
  BY <1>1, <1>2, <1>3 DEF DueSoon, Lateness
<1>6. LastFrame'
  BY <1>1, <1>2 DEF LastFrame
<1> QED
  BY <1>2, <1>3, <1>4, <1>5, <1>6
  DEF PacerInv, PlannedOnTime, ResyncOnlyAfterStall, CatchUpBounded

LEMMA PacerInit0 == PacerInit => PacerInv
<1> USE PacerAssumption DEF PacerAssumption
<1> SUFFICES ASSUME PacerInit
             PROVE  PacerInv
  OBVIOUS
<1>1. PacerTypeOK
  <2>1. planned \in Seq(Nat)
    BY DEF PacerInit
  <2> QED BY <2>1 DEF PacerInit, PacerTypeOK
<1>2. Base = 0 /\ Len(planned) = 0 /\ DOMAIN planned = {}
  <2>1. k = 0 /\ start = 0 /\ planned = <<>>
    BY DEF PacerInit
  <2> QED BY <2>1 DEF Base
<1>3. Aim \in Nat
  BY <1>1, AtFacts DEF Aim, PacerTypeOK
<1>4. Lateness
  BY <1>2, <1>3 DEF Lateness, PacerInit
<1> QED
  BY <1>1, <1>2, <1>4
  DEF PacerInit, PacerInv, DueSoon, PlannedOnTime, LastFrame, CatchUpBounded, ResyncOnlyAfterStall

LEMMA PacerSteps == PacerInv /\ [PacerNext]_pacerVars => PacerInv'
<1> SUFFICES ASSUME PacerInv, [PacerNext]_pacerVars
             PROVE  PacerInv'
  OBVIOUS
<1>1. CASE Tick
  BY <1>1, TickKeeps
<1>2. CASE \E d \in 0 .. MaxDelay : PlanFrame(d)
  BY <1>2, PlanFrameKeeps
<1>3. CASE PlanError
  BY <1>3, PlanErrorKeeps
<1>4. CASE Leave
  BY <1>4, LeaveKeeps
<1>5. CASE DelayOver \/ CancelPump \/ ExitLoop \/ UNCHANGED pacerVars
  BY <1>5, OthersKeep
<1> QED BY <1>1, <1>2, <1>3, <1>4, <1>5 DEF PacerNext

LEMMA InvSchedule == PacerInv => ScheduleKept /\ AtMostOneAfterCancel
<1> USE PacerAssumption DEF PacerAssumption
<1> SUFFICES ASSUME PacerInv
             PROVE  ScheduleKept /\ AtMostOneAfterCancel
  OBVIOUS
<1>1. PacerTypeOK /\ LastFrame /\ CatchUpBounded /\ ResyncOnlyAfterStall
  BY DEF PacerInv
<1>2. /\ now \in Nat /\ stalled \in Nat /\ Len(planned) \in Nat /\ resyncs \in Nat
      /\ (Len(planned) + 1) * Interval = Len(planned) * Interval + Interval
      /\ (resyncs + 1) * MaxDelay = resyncs * MaxDelay + MaxDelay
      /\ Len(planned) * Interval \in Nat /\ resyncs * MaxDelay \in Nat
  BY <1>1, OneMore DEF PacerTypeOK
<1>3. RateKept
  BY <1>1, <1>2, InvRate DEF RateKept, LastFrame
<1> QED BY <1>1, <1>3 DEF ScheduleKept, AtMostOneAfterCancel, LastFrame

(* Whatever the interval, the guard and the largest delay: the frames that *)
(* catch up after a stall are few, jitter alone never makes the loop give  *)
(* its schedule up, and delays do not add up.                              *)
THEOREM ScheduleIsKept == PacerSpec => []ScheduleKept
<1>1. PacerInv => ScheduleKept
  BY InvSchedule
<1> QED BY <1>1, PacerInit0, PacerSteps, PTL DEF PacerSpec

(* Once the pump's context has ended at most one frame still leaves.       *)
THEOREM AtMostOneLeavesAfterCancel == PacerSpec => []AtMostOneAfterCancel
<1>1. PacerInv => AtMostOneAfterCancel
  BY InvSchedule
<1> QED BY <1>1, PacerInit0, PacerSteps, PTL DEF PacerSpec
===============================================================================
