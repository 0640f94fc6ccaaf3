-------------------------------- MODULE Pump --------------------------------
(***************************************************************************)
(* The media pump of one camera (internal/rtsp/pump.go) with its frame,    *)
(* burst and timestamp faults (internal/fault), and the events it records  *)
(* (internal/obs).  One goroutine plans a frame and then emits it; another *)
(* queues fault sets, which the pump installs before it plans.  Random     *)
(* draws and write errors are nondeterministic, a frame is its number and  *)
(* its timestamp, and the time at which it leaves is module Pacer's.       *)
(***************************************************************************)
EXTENDS Recorder, SequencesExt

CONSTANTS DTS,        \* the decoding times of the clip's access units
          Keys,       \* which of them are random access points
          FrameDur,   \* Media.FrameDuration
          TsMod,      \* RTP timestamps are modulo this: 2^32 in the code
          Million,    \* one drift part in Million: 1,000,000 in the code
          Specs,      \* the fault sets
          First,      \* the one the pump starts with
          MaxFrames,  \* bound on the frames planned
          MaxSwaps    \* bound on the SetFaults calls

Faults == [drop : BOOLEAN, protect : BOOLEAN, keepEvery : Nat, hold : Nat,
           depth : Nat, lag : Nat, drift : Nat]

ASSUME PumpAssumption ==
  /\ DTS \in Seq(Nat) /\ DTS # <<>> /\ DTS[1] = 0
  /\ Keys \subseteq DOMAIN DTS
  /\ FrameDur \in Nat /\ TsMod \in Nat \ {0} /\ Million \in Nat \ {0}
  /\ Specs \subseteq Faults /\ First \in Specs
  /\ MaxFrames \in Nat /\ MaxSwaps \in Nat

VARIABLES idx, frameCounter, tsOffset, \* Pump's position
          engine,    \* Pump.faults
          pending,   \* Pump.pending: queued fault sets
          held,      \* Pump.held
          plan,      \* the planned frames on their way out
          pc,        \* the pump goroutine: "ready", "emit" or "stopped"
          sent,      \* history: the frames written, in order
          dropped,   \* history: numbers of the frames a fault removed
          failed,    \* history: numbers of the frames a write error lost
          installed, \* history: the fault sets installed, and at which frame
          swaps      \* SetFaults calls so far

clock == <<idx, frameCounter, tsOffset>>
vars == <<clock, engine, pending, held, plan, pc, sent, dropped, failed,
          installed, swaps, recorderVars>>

Numbers(s) == {s[i].n : i \in DOMAIN s}

(***************************************************************************)
(* The fault engine.                                                       *)
(***************************************************************************)
(* fault.New: counters at zero.                                            *)
New(x) == [spec |-> x, remaining |-> 0, calls |-> 0, seen |-> 0]

Delayed(x) == [lag |-> x.lag, drift |-> x.drift]
NoDelay == [lag |-> 0, drift |-> 0]

(* mutant: the drift clock restarts at every swap.                         *)
InheritNothing(e, prev) == e

(* Engine.Inherit: an unchanged pts_delayed keeps its drift clock.         *)
Inherit(e, prev) ==
  IF Delayed(e.spec) # NoDelay /\ Delayed(e.spec) = Delayed(prev.spec)
  THEN [e EXCEPT !.calls = prev.calls] ELSE e

(* Engine.TimestampShift, before its call is counted.                      *)
Shift(e, n) ==
  LET W == e.spec.depth + 1
      reorder == IF e.spec.depth = 0 THEN 0
                 ELSE IF n % W = 0 THEN (W - 1) * FrameDur ELSE -FrameDur
  IN  reorder - e.spec.lag - (e.calls * FrameDur * e.spec.drift) \div Million

(* Engine.DecideHold; starts is the draw that begins a hold when none runs.*)
Remaining(e, starts) ==
  IF e.remaining = 0 THEN (IF starts THEN e.spec.hold - 1 ELSE 0) ELSE e.remaining - 1

DecideHold(e, starts) ==
  IF e.spec.hold = 0 \/ (e.remaining = 0 /\ ~starts) THEN "none"
  ELSE IF Remaining(e, starts) = 0 THEN "flush" ELSE "held"

(* Engine.DecideFrame: what becomes of a frame; fires is frame_drop's draw.*)
Starved(e, key) == e.spec.keepEvery > 0 /\ key /\ e.seen % e.spec.keepEvery # 0
Spared(e, key, fires) == fires /\ e.spec.protect /\ key
Drops(e, key, fires) == (fires /\ ~(e.spec.protect /\ key)) \/ Starved(e, key)

(* The engine's counters after one frame.                                  *)
Advance(e, key, starts) ==
  [e EXCEPT !.remaining = IF e.spec.hold = 0 THEN 0 ELSE Remaining(e, starts),
            !.calls = IF Delayed(e.spec) = NoDelay THEN 0 ELSE @ + 1,
            !.seen = IF e.spec.keepEvery > 0 /\ key THEN @ + 1 ELSE @]

(***************************************************************************)
(* The pump.                                                               *)
(***************************************************************************)
Init ==
  /\ idx = 0 /\ frameCounter = 0 /\ tsOffset = 0
  /\ engine = New(First)
  /\ pending = <<>> /\ held = <<>>
  /\ plan = [frames |-> <<>>, released |-> 0]
  /\ pc = "ready"
  /\ sent = <<>> /\ dropped = {} /\ failed = {}
  /\ installed = <<[spec |-> First, at |-> 0]>>
  /\ swaps = 0
  /\ RecorderInit

(* Pump.SetFaults.                                                         *)
SetFaults(x) ==
  /\ swaps < MaxSwaps
  /\ swaps' = swaps + 1
  /\ pending' = Append(pending, x)
  /\ UNCHANGED <<clock, engine, held, plan, pc, sent, dropped, failed, installed, recorderVars>>

(* applyPendingFaults: every queued set in order, each inheriting from the *)
(* one before, and each told the frame it starts at.                       *)
Inherited[i \in 0 .. Len(pending)] ==
  IF i = 0 THEN engine ELSE Inherit(New(pending[i]), Inherited[i - 1])
Installed == Inherited[Len(pending)]

InstallPending ==
  /\ pending' = <<>>
  /\ installed' = installed \o [i \in DOMAIN pending |->
                                  [spec |-> pending[i], at |-> frameCounter]]

(* mutant: a swap leaves the hold to some later burst.                     *)
ReleasingNever == FALSE

(* A fault set about to be installed releases the hold in progress.        *)
Releasing == pending # <<>> /\ held # <<>>

(* What is left in the buffer once the release is done.                    *)
Kept == IF Releasing THEN <<>> ELSE held

(* Record the events of one step, in order.                                *)
FaultAll(ws) ==
  LET evs == [i \in DOMAIN ws |-> [seq |-> Len(log) + i, what |-> ws[i]]]
  IN  /\ rec' = FoldLeft(Put, rec, evs)
      /\ log' = log \o evs

If(cond, w) == IF cond THEN <<w>> ELSE <<>>

(* A frame stamped by engine e at the pump's position.                     *)
Frame(e) ==
  LET shift == Shift(e, frameCounter)
  IN  [n |-> frameCounter, shift |-> shift, ts |-> (tsOffset + DTS[idx + 1] + shift) % TsMod]

(* mutant: the loop seam forgets the length of the last frame.             *)
AtSeamNoGap == IF idx + 1 = Len(DTS) THEN tsOffset + DTS[idx + 1] ELSE tsOffset
(* The timestamp offset after this frame: at the loop seam, one frame past *)
(* the last access unit.                                                   *)
AtSeam == IF idx + 1 = Len(DTS) THEN tsOffset + DTS[idx + 1] + FrameDur ELSE tsOffset

(* mutant: a burst sends the new frame before the held ones.               *)
BurstNewestFirst(out) == out \o Kept
Burst(out) == Kept \o out

(* Pump.plan: install, release, decide, stamp, hold, advance.              *)
Plan(starts, fires) ==
  LET e == Installed
      key == idx + 1 \in Keys
      drop == Drops(e, key, fires)
      out == If(~drop, Frame(e))
      hold == DecideHold(e, starts)
      frames == CASE hold = "held" -> <<>>
                  [] hold = "flush" -> Burst(out)
                  [] hold = "none" -> out
  IN  /\ pc = "ready" /\ frameCounter < MaxFrames
      /\ starts => e.spec.hold > 0 /\ e.remaining = 0
      /\ fires => e.spec.drop
      /\ InstallPending
      /\ engine' = Advance(e, key, starts)
      /\ sent' = IF Releasing THEN sent \o held ELSE sent
      /\ dropped' = IF drop THEN dropped \cup {frameCounter} ELSE dropped
      /\ held' = CASE hold = "held" -> Kept \o out
                   [] hold = "flush" -> <<>>
                   [] hold = "none" -> Kept
      /\ plan' = [frames |-> frames, released |-> IF hold = "flush" THEN Len(frames) ELSE 0]
      /\ FaultAll(If(Releasing, "released")
                  \o If(Spared(e, key, fires), "spared")
                  \o If(fires /\ ~Spared(e, key, fires), "dropped")
                  \o If(Starved(e, key), "starved")
                  \o If(~drop /\ Shift(e, frameCounter) # 0, "shifted")
                  \o If(~drop /\ hold = "held", "held"))
      /\ idx' = (idx + 1) % Len(DTS)
      /\ frameCounter' = frameCounter + 1
      /\ tsOffset' = AtSeam
      /\ pc' = "emit"
      /\ UNCHANGED <<failed, swaps>>

(* mutant: after the error the hold is still in the buffer.                *)
PlanFailsKeeps(w) ==
  /\ pc = "ready" /\ frameCounter < MaxFrames
  /\ Releasing /\ w < Len(held)
  /\ InstallPending
  /\ engine' = Installed
  /\ sent' = sent \o SubSeq(held, 1, w)
  /\ UNCHANGED <<clock, held, plan, pc, dropped, failed, swaps, recorderVars>>

(* Pump.plan when a write of the release fails after w frames: the rest is *)
(* lost, the sets stay installed and the frame is planned at the next slot.*)
PlanFails(w) ==
  /\ pc = "ready" /\ frameCounter < MaxFrames
  /\ Releasing /\ w < Len(held)
  /\ InstallPending
  /\ engine' = Installed
  /\ held' = <<>>
  /\ sent' = sent \o SubSeq(held, 1, w)
  /\ failed' = failed \cup Numbers(SubSeq(held, w + 1, Len(held)))
  /\ UNCHANGED <<clock, plan, pc, dropped, swaps, recorderVars>>

(* Pump.emit: w frames are written; short of all of them is an error, and  *)
(* the others are lost.                                                    *)
Emit(w) ==
  /\ pc = "emit" /\ w <= Len(plan.frames)
  /\ sent' = sent \o SubSeq(plan.frames, 1, w)
  /\ failed' = failed \cup Numbers(SubSeq(plan.frames, w + 1, Len(plan.frames)))
  /\ FaultAll(If(w = Len(plan.frames) /\ plan.released > 0, "released"))
  /\ plan' = [frames |-> <<>>, released |-> 0]
  /\ pc' = "ready"
  /\ UNCHANGED <<clock, engine, pending, held, dropped, installed, swaps>>

(* The pump's context ends while it waits, before a plan or for a delay.   *)
Stop ==
  /\ pc # "stopped"
  /\ pc' = "stopped"
  /\ UNCHANGED <<clock, engine, pending, held, plan, sent, dropped, failed,
                 installed, swaps, recorderVars>>

Next ==
  \/ \E x \in Specs : SetFaults(x)
  \/ \E starts, fires \in BOOLEAN : Plan(starts, fires)
  \/ \E w \in 0 .. MaxFrames : PlanFails(w)
  \/ \E w \in 0 .. MaxFrames : Emit(w)
  \/ Stop

Spec == Init /\ [][Next]_vars

(***************************************************************************)
(* Properties.                                                             *)
(***************************************************************************)
(* What was written, what is on its way out and what is held.              *)
Line == sent \o plan.frames \o held

(* Frames leave in the order they were planned and none leaves twice, with *)
(* bursts, swaps in the middle of one, and failing writes.                 *)
InOrder == \A i, j \in DOMAIN Line : i < j => Line[i].n < Line[j].n

(* Every planned frame is written, waiting, removed by a fault or lost to  *)
(* a write error, and only one of these.                                   *)
NothingLost ==
  /\ Numbers(Line) \cup dropped \cup failed = 0 .. frameCounter - 1
  /\ Numbers(Line) \cap (dropped \cup failed) = {}
  /\ dropped \cap failed = {}

(* No frame is lost, none leaves twice and none overtakes another.         *)
FramesKept == InOrder /\ NothingLost

(* A frame is held only while the hold that took it is running, so it will *)
(* be released by it, and the buffer is shorter than a hold.               *)
HeldByRunningHold ==
  held # <<>> =>
    /\ engine.remaining > 0
    /\ Len(held) <= engine.spec.hold - engine.remaining

(* The time frame n has in a clip repeated without a break.                *)
Nominal(n) ==
  (n \div Len(DTS)) * (DTS[Len(DTS)] + FrameDur) + DTS[(n % Len(DTS)) + 1]

(* Timestamps run on through the loop seam, dropped frames and swaps of    *)
(* the fault set: a stamp is the frame's nominal time plus its own shift.  *)
ClockContinuous ==
  \A i \in DOMAIN Line : Line[i].ts = (Nominal(Line[i].n) + Line[i].shift) % TsMod

(* While every installed set keeps the same pts_delayed, and no reordering,*)
(* the lag never shrinks: a swap of another fault does not reset the drift.*)
DriftKept ==
  \A i, j \in DOMAIN Line :
    LET same == {k \in DOMAIN installed : /\ installed[k].at <= Line[j].n
                                          /\ k = Len(installed) \/ installed[k + 1].at > Line[i].n}
    IN  (/\ i < j
         /\ \A k, m \in same : Delayed(installed[k].spec) = Delayed(installed[m].spec)
         /\ \A k \in same : installed[k].spec.depth = 0)
        => Line[j].shift <= Line[i].shift

(* No swap, seam or dropped frame is seen in the timestamps.               *)
ClockKept == ClockContinuous /\ DriftKept
=============================================================================
