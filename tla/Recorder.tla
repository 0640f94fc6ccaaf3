------------------------------ MODULE Recorder ------------------------------
(***************************************************************************)
(* The event log of a fleet (internal/obs/obs.go): a ring that keeps the   *)
(* newest MaxEvents fault events.  Every method holds Recorder.mu for all  *)
(* of its body, so each is one step.  log, a history variable, is every    *)
(* event ever recorded.                                                    *)
(***************************************************************************)
EXTENDS Integers, Sequences

CONSTANTS What,      \* what an event can say: camera, frame, kind, detail
          MaxEvents  \* Options.MaxEvents; the program also runs with 0

ASSUME RecorderAssumption == MaxEvents \in Nat

VARIABLES rec,  \* the ring: its slots, head, count, and Recorder.dropped
          log   \* history: what was recorded, in order

recorderVars == <<rec, log>>

Slots == 0 .. MaxEvents - 1
Event == [seq : Nat, what : What]
Unset == [seq |-> 0]          \* a slot of the slice nothing was written to

Rings == [events : [Slots -> Event \cup {Unset}],
          head : Nat, count : 0 .. MaxEvents, dropped : Nat]

RecorderTypeOK ==
  /\ rec \in Rings
  /\ log \in Seq(Event)

RecorderInit ==
  /\ rec = [events |-> [i \in Slots |-> Unset], head |-> 0, count |-> 0, dropped |-> 0]
  /\ log = <<>>

(* A slot not yet used, and the oldest event overwritten.                  *)
Fill(r, i, ev) == [r EXCEPT !.events[i] = ev, !.count = @ + 1]

(* mutant: the slot overwritten stays the head.                            *)
OverwriteHeadStuck(r, ev) == [r EXCEPT !.events[r.head] = ev, !.dropped = @ + 1]

Overwrite(r, ev) ==
  [r EXCEPT !.events[r.head] = ev, !.head = (r.head + 1) % MaxEvents, !.dropped = @ + 1]

Discard(r) == [r EXCEPT !.dropped = @ + 1]

(* Recorder.Fault on the ring.                                             *)
Put(r, ev) ==
  IF MaxEvents = 0 THEN Discard(r)
  ELSE IF r.count < MaxEvents THEN Fill(r, (r.head + r.count) % MaxEvents, ev)
  ELSE Overwrite(r, ev)

(* Recorder.Events: the ring un-rotated, oldest first.                     *)
Events(r) == [i \in 1 .. r.count |-> r.events[(r.head + i - 1) % MaxEvents]]

(* One call of Recorder.Fault.                                             *)
Fault(w) ==
  LET ev == [seq |-> Len(log) + 1, what |-> w]
  IN  /\ rec' = Put(rec, ev)
      /\ log' = Append(log, ev)

RecorderNext == \E w \in What : Fault(w)

RecorderSpec == RecorderInit /\ [][RecorderNext]_recorderVars

(* The ring holds the newest events, in the order they were recorded: as   *)
(* many as fit, none twice, and it knows how many it has discarded.        *)
KeepsNewest ==
  /\ Len(Events(rec)) + rec.dropped = Len(log)
  /\ \A i \in 1 .. rec.count : Events(rec)[i] = log[rec.dropped + i]
  /\ rec.dropped > 0 => rec.count = MaxEvents
=============================================================================
