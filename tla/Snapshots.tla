------------------------------ MODULE Snapshots ------------------------------
(***************************************************************************)
(* The pictures of the dashboard (internal/dashboard/snapshot.go): the     *)
(* requests for one camera share a capture, which runs in a goroutine of   *)
(* its own, waits for one of a few slots, and is bounded by a timeout.     *)
(*                                                                         *)
(* A camera is a handle: one that is removed and added again is another.   *)
(* Handles and flights are numbered in the order they come into being.     *)
(***************************************************************************)
EXTENDS Naturals, Sequences, FiniteSets

CONSTANTS Viewers,    \* the requests, each repeated for ever
          Ids,        \* the camera ids
          Slots,      \* MaxConcurrentSnapshots
          MaxCams,    \* bound on the handles
          MaxFlights  \* bound on the captures

ASSUME SnapAssumption == Slots \in Nat \ {0} /\ MaxCams \in Nat /\ MaxFlights \in Nat

VARIABLES cams,    \* the ids of the handles, in the order they were added
          live,    \* fleet: the handle of each id, 0 without one
          flights, \* snapshotter.flights: the flight of each handle, 0 without one
          flown,   \* every flight so far
          sem,     \* slots in use
          viewer   \* where each request is

snapVars == <<cams, live, flights, flown, sem, viewer>>

(* A flight waits for a slot ("queued"), captures, has its picture or its  *)
(* error ("captured"), has given its slot back ("released"), is no longer  *)
(* in the map ("unlisted"), and is done once its channel is closed.        *)
Away == [pc |-> "idle", cam |-> 0, flight |-> 0]

SnapInit ==
  /\ cams = <<>> /\ live = [i \in Ids |-> 0]
  /\ flights = [c \in 1 .. MaxCams |-> 0] /\ flown = <<>>
  /\ sem = 0
  /\ viewer = [v \in Viewers |-> Away]

(***************************************************************************)
(* The fleet, as far as the pictures need it.                              *)
(***************************************************************************)
AddCam(i) ==
  /\ live[i] = 0 /\ Len(cams) < MaxCams
  /\ cams' = Append(cams, i)
  /\ live' = [live EXCEPT ![i] = Len(cams) + 1]
  /\ UNCHANGED <<flights, flown, sem, viewer>>

RemoveCam(i) ==
  /\ live[i] # 0
  /\ live' = [live EXCEPT ![i] = 0]
  /\ UNCHANGED <<cams, flights, flown, sem, viewer>>

(***************************************************************************)
(* A request.                                                              *)
(***************************************************************************)
(* server.snapshot looks the camera up; without one it answers at once.    *)
Look(v, i) ==
  /\ viewer[v].pc = "idle" /\ live[i] # 0
  /\ viewer' = [viewer EXCEPT ![v] = [pc |-> "get", cam |-> live[i], flight |-> 0]]
  /\ UNCHANGED <<cams, live, flights, flown, sem>>

(* mutant: the flights are kept by id.                                     *)
ListedById(c) == LET same == {d \in 1 .. Len(cams) : cams[d] = cams[c] /\ flights[d] # 0}
                 IN  IF same = {} THEN 0 ELSE flights[CHOOSE d \in same : TRUE]
Listed(c) == flights[c]

(* snapshotter.get: join the flight of this handle, or launch one.         *)
Join(v) ==
  LET c == viewer[v].cam
      joined == Listed(c)
      f == IF joined # 0 THEN joined ELSE Len(flown) + 1
  IN  /\ viewer[v].pc = "get" /\ f <= MaxFlights
      /\ viewer' = [viewer EXCEPT ![v].pc = "wait", ![v].flight = f]
      /\ flights' = [flights EXCEPT ![c] = IF joined # 0 THEN @ ELSE f]
      /\ flown' = IF joined # 0 THEN flown
                  ELSE Append(flown, [cam |-> c, stage |-> "queued", slot |-> FALSE, result |-> "none"])
      /\ UNCHANGED <<cams, live, sem>>

(* The flight is over and its picture, or its error, is the answer; an     *)
(* error is reported as the absence of the camera if the id has none now.  *)
Answer(v) ==
  /\ viewer[v].pc = "wait" /\ flown[viewer[v].flight].stage = "done"
  /\ viewer' = [viewer EXCEPT ![v] = Away]
  /\ UNCHANGED <<cams, live, flights, flown, sem>>

(* The client of the request goes away; the flight goes on.                *)
GiveUp(v) ==
  /\ viewer[v].pc = "wait"
  /\ viewer' = [viewer EXCEPT ![v] = Away]
  /\ UNCHANGED <<cams, live, flights, flown, sem>>

(***************************************************************************)
(* snapshotter.run, the goroutine of a flight.                             *)
(***************************************************************************)
InStage(f, stage) == f \in DOMAIN flown /\ flown[f].stage = stage

Acquire(f) ==
  /\ InStage(f, "queued") /\ sem < Slots
  /\ sem' = sem + 1
  /\ flown' = [flown EXCEPT ![f].stage = "capturing", ![f].slot = TRUE]
  /\ UNCHANGED <<cams, live, flights, viewer>>

(* mutant: a flight that got no slot leaves without its cleanup.           *)
QueueTimeoutReturns(f) ==
  /\ InStage(f, "queued")
  /\ flown' = [flown EXCEPT ![f].stage = "abandoned", ![f].result = "error"]
  /\ UNCHANGED <<cams, live, flights, sem, viewer>>
(* The timeout strikes while the flight waits for a slot: there is none to *)
(* give back.                                                              *)
QueueTimeout(f) ==
  /\ InStage(f, "queued")
  /\ flown' = [flown EXCEPT ![f].stage = "released", ![f].result = "error"]
  /\ UNCHANGED <<cams, live, flights, sem, viewer>>

(* The capture and the encoding end, with a picture, an error or a panic.  *)
Captured(f, r) ==
  /\ InStage(f, "capturing")
  /\ flown' = [flown EXCEPT ![f].stage = "captured", ![f].result = r]
  /\ UNCHANGED <<cams, live, flights, sem, viewer>>

(* mutant: the slot is given back after the capture, not by a deferred call*)
(* that a panic would also run.                                            *)
ReleaseUnlessPanic(f) ==
  /\ InStage(f, "captured")
  /\ sem' = IF flown[f].result = "panic" THEN sem ELSE sem - 1
  /\ flown' = [flown EXCEPT ![f].stage = "released", ![f].slot = FALSE]
  /\ UNCHANGED <<cams, live, flights, viewer>>
(* The deferred calls, last one first: the slot, then what a panic left is *)
(* made an error, then the flight leaves the map, and then it is done.     *)
Release(f) ==
  /\ InStage(f, "captured")
  /\ sem' = sem - 1
  /\ flown' = [flown EXCEPT ![f].stage = "released", ![f].slot = FALSE,
                            ![f].result = IF @ = "panic" THEN "error" ELSE @]
  /\ UNCHANGED <<cams, live, flights, viewer>>

(* mutant: waiters are told, and the flight never leaves the map.          *)
UnlistAfterDone(f) ==
  /\ InStage(f, "released")
  /\ flown' = [flown EXCEPT ![f].stage = "done"]
  /\ UNCHANGED <<cams, live, flights, sem, viewer>>
Unlist(f) ==
  /\ InStage(f, "released")
  /\ flights' = [flights EXCEPT ![flown[f].cam] = 0]
  /\ flown' = [flown EXCEPT ![f].stage = "unlisted"]
  /\ UNCHANGED <<cams, live, sem, viewer>>

Done(f) ==
  /\ InStage(f, "unlisted")
  /\ flown' = [flown EXCEPT ![f].stage = "done"]
  /\ UNCHANGED <<cams, live, flights, sem, viewer>>

Run(f) ==
  \/ Acquire(f)
  \/ QueueTimeout(f)
  \/ \E r \in {"jpeg", "error", "panic"} : Captured(f, r)
  \/ Release(f)
  \/ Unlist(f)
  \/ Done(f)

SnapNext ==
  \/ \E i \in Ids : AddCam(i) \/ RemoveCam(i)
  \/ \E v \in Viewers : (\E i \in Ids : Look(v, i)) \/ Join(v) \/ Answer(v) \/ GiveUp(v)
  \/ \E f \in 1 .. MaxFlights : Run(f)

SnapSpec == SnapInit /\ [][SnapNext]_snapVars

(* A flight goes on, at the latest when its timeout strikes, and a request *)
(* takes its answer; a client need not go away, nor a camera.              *)
SnapFair ==
  /\ \A f \in 1 .. MaxFlights : WF_snapVars(Run(f))
  /\ \A v \in Viewers : WF_snapVars(Answer(v))

(***************************************************************************)
(* Properties.                                                             *)
(***************************************************************************)
Flight == [cam : 1 .. MaxCams,
           stage : {"queued", "capturing", "captured", "released", "unlisted", "done"},
           slot : BOOLEAN, result : {"none", "jpeg", "error", "panic"}]

(* Every variable has its type; a request past its lookup has a handle,    *)
(* and one that waits has a flight.                                        *)
SnapTypeOK ==
  /\ cams \in Seq(Ids) /\ Len(cams) <= MaxCams
  /\ live \in [Ids -> 0 .. Len(cams)]
  /\ flown \in Seq(Flight) /\ Len(flown) <= MaxFlights
  /\ flights \in [1 .. MaxCams -> 0 .. Len(flown)]
  /\ sem \in 0 .. Slots
  /\ viewer \in [Viewers -> [pc : {"idle", "get", "wait"}, cam : 0 .. MaxCams,
                            flight : 0 .. Len(flown)]]
  /\ \A v \in Viewers : /\ viewer[v].pc # "idle" => viewer[v].cam # 0
                        /\ viewer[v].pc = "wait" => viewer[v].flight # 0

(* The requests for a camera share one capture of that very camera: a      *)
(* request waits for a flight of the handle it looked up, also when the    *)
(* camera is removed and added meanwhile; and the map lists exactly the    *)
(* flights that still work, so there is never a second one beside them and *)
(* nobody joins one whose answer has gone out.                             *)
SharedCapture ==
  /\ \A v \in Viewers : viewer[v].pc = "wait" => flown[viewer[v].flight].cam = viewer[v].cam
  /\ \A f \in DOMAIN flown :
       flights[flown[f].cam] = f <=> flown[f].stage \notin {"unlisted", "done"}

(* A slot is in use exactly while some flight has it: none is lost to a    *)
(* timeout, an error or a panic, and there are never more than Slots.      *)
SlotsKept ==
  /\ sem = Cardinality({f \in DOMAIN flown : flown[f].slot})
  /\ sem <= Slots

(* Every request is answered, whatever becomes of the capture it shares.   *)
RequestsAnswered == \A v \in Viewers : viewer[v].pc = "wait" ~> viewer[v].pc = "idle"
=============================================================================
