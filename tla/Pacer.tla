------------------------------- MODULE Pacer -------------------------------
(***************************************************************************)
(* When the frames of a camera leave: the driver loop Pump.run             *)
(* (internal/rtsp/pump.go) and its clock.  The frames themselves are       *)
(* module Pump's; here a plan yields a jitter delay, or an error.          *)
(*                                                                         *)
(* Time is a counter.  It passes while the loop waits and also while the   *)
(* loop could run but does not, because a write is slow or the host is     *)
(* stalled: those ticks are counted in stalled.                            *)
(***************************************************************************)
EXTENDS Naturals, Sequences

CONSTANTS Interval,  \* Pump.interval
          Guard,     \* resyncAfter
          MaxDelay,  \* the largest jitter delay
          MaxNow     \* bound on the clock

ASSUME PacerAssumption ==
  /\ Interval \in Nat \ {0} /\ Guard \in Nat /\ MaxDelay \in Nat /\ MaxNow \in Nat

VARIABLES now,
          start, k,   \* slot k is at start + k * Interval
          prevDue,    \* when the previous frame was due to leave; 0 at first
          due,        \* when the planned frame is due to leave
          pacing,     \* "wait" for the slot, "delay", "emit" or "stopped"
          cancelled,  \* the pump's context has ended
          planned,    \* history: when each frame was planned
          resyncs,    \* history: restarts of the schedule
          stalled,    \* history: ticks the loop was late
          after       \* history: frames that left after the context ended

pacerVars == <<now, start, k, prevDue, due, pacing, cancelled, planned, resyncs, stalled, after>>

Later(a, b) == IF a > b THEN a ELSE b

PacerInit ==
  /\ now = 0 /\ start = 0 /\ k = 0 /\ prevDue = 0 /\ due = 0
  /\ pacing = "wait"
  /\ cancelled = FALSE
  /\ planned = <<>>
  /\ resyncs = 0 /\ stalled = 0 /\ after = 0

(* mutant: slots are counted from the previous frame.                      *)
SlotAfterPrevious == Later(prevDue, start) + Interval
(* The next frame's nominal slot, and when it is planned: never before the *)
(* previous frame is due.                                                  *)
Slot == start + (k + 1) * Interval
At == Later(Slot, prevDue)

(* mutant: lateness is measured against the slot.                          *)
LateForSlot == now > Slot + Guard
(* mutant: the schedule is never abandoned.                                *)
LateNever == FALSE
(* The resync guard.                                                       *)
TooLate == now > At + Guard

(* What the loop waits for.                                                *)
Deadline == IF pacing = "delay" THEN due ELSE At
Ready == pacing = "emit" \/ (pacing \in {"wait", "delay"} /\ now >= Deadline)

(* Time passes.                                                            *)
Tick ==
  /\ now < MaxNow /\ pacing # "stopped"
  /\ now' = now + 1
  /\ stalled' = IF Ready THEN stalled + 1 ELSE stalled
  /\ UNCHANGED <<start, k, prevDue, due, pacing, cancelled, planned, resyncs, after>>

(* The wait for the slot is over: resync if it ended far too late, plan    *)
(* the frame, and wait again if jitter delays it by d.                     *)
PlanFrame(d) ==
  LET slot == IF TooLate THEN now ELSE Slot
      at == IF TooLate THEN now ELSE At
  IN  /\ pacing = "wait" /\ now >= At /\ ~cancelled
      /\ start' = IF TooLate THEN now ELSE start
      /\ k' = IF TooLate THEN 0 ELSE k + 1
      /\ prevDue' = IF TooLate THEN 0 ELSE prevDue
      /\ resyncs' = IF TooLate THEN resyncs + 1 ELSE resyncs
      /\ due' = IF d > 0 THEN Later(at, slot + d) ELSE at
      /\ pacing' = IF d > 0 THEN "delay" ELSE "emit"
      /\ planned' = Append(planned, now)
      /\ UNCHANGED <<now, cancelled, stalled, after>>

(* The same when plan fails: the loop goes on with the next slot.          *)
PlanError ==
  /\ pacing = "wait" /\ now >= At /\ ~cancelled
  /\ start' = IF TooLate THEN now ELSE start
  /\ k' = IF TooLate THEN 0 ELSE k + 1
  /\ prevDue' = IF TooLate THEN 0 ELSE prevDue
  /\ resyncs' = IF TooLate THEN resyncs + 1 ELSE resyncs
  /\ planned' = Append(planned, now)
  /\ UNCHANGED <<now, due, pacing, cancelled, stalled, after>>

(* The wait for the delay is over.                                         *)
DelayOver ==
  /\ pacing = "delay" /\ now >= due /\ ~cancelled
  /\ pacing' = "emit"
  /\ UNCHANGED <<now, start, k, prevDue, due, cancelled, planned, resyncs, stalled, after>>

(* The frame has been written, or its write has failed.                    *)
Leave ==
  /\ pacing = "emit"
  /\ prevDue' = due
  /\ pacing' = "wait"
  /\ after' = IF cancelled THEN after + 1 ELSE after
  /\ UNCHANGED <<now, start, k, due, cancelled, planned, resyncs, stalled>>

(* The pump's context ends.                                                *)
CancelPump ==
  /\ ~cancelled
  /\ cancelled' = TRUE
  /\ UNCHANGED <<now, start, k, prevDue, due, pacing, planned, resyncs, stalled, after>>

(* mutant: a wait that has already ended does not look at the context.     *)
ExitUnlessDue ==
  /\ pacing \in {"wait", "delay"} /\ cancelled
  /\ pacing' = IF now < Deadline THEN "stopped" ELSE "emit"
  /\ UNCHANGED <<now, start, k, prevDue, due, cancelled, planned, resyncs, stalled, after>>

(* waitUntil sees the context, also when its deadline has passed.          *)
ExitLoop ==
  /\ pacing \in {"wait", "delay"} /\ cancelled
  /\ pacing' = "stopped"
  /\ UNCHANGED <<now, start, k, prevDue, due, cancelled, planned, resyncs, stalled, after>>

PacerNext ==
  \/ Tick
  \/ \E d \in 0 .. MaxDelay : PlanFrame(d)
  \/ PlanError
  \/ DelayOver
  \/ Leave
  \/ CancelPump
  \/ ExitLoop

PacerSpec == PacerInit /\ [][PacerNext]_pacerVars

(***************************************************************************)
(* Properties.                                                             *)
(***************************************************************************)
(* After any stall the frames that catch up are few: over any stretch of   *)
(* time no more are planned than fit in it, the guard and a delay.         *)
CatchUpBounded ==
  \A i, j \in DOMAIN planned :
    i < j => (j - i) * Interval <= planned[j] - planned[i] + Guard + MaxDelay

(* Jitter alone never trips the resync guard, however large the delays     *)
(* are: the loop must have been late by more than the guard.               *)
ResyncOnlyAfterStall == resyncs > 0 => stalled > Guard

(* Slots are absolute: delays do not add up.  The frames planned so far    *)
(* are those of the nominal rate, less one delay, one more for each time   *)
(* the schedule was restarted, and the time the loop was stalled.          *)
RateKept ==
  ~cancelled =>
    now <= (Len(planned) + 1) * Interval + (resyncs + 1) * MaxDelay + stalled

(* The loop keeps its schedule through jitter and stalls: it neither sends *)
(* a flood to catch up, nor gives the schedule up, nor falls behind.       *)
ScheduleKept == CatchUpBounded /\ ResyncOnlyAfterStall /\ RateKept

(* Once the pump is told to stop, no more than the frame that was past its *)
(* wait still leaves.                                                      *)
AtMostOneAfterCancel == after <= 1
=============================================================================
