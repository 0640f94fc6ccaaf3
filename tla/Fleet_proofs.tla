----------------------------- MODULE Fleet_proofs -----------------------------
(***************************************************************************)
(* Proofs about the fleet: every variable keeps its type, the fleet and    *)
(* its servers agree on the cameras there are, no failed step leaves an    *)
(* orphan in a server, the cache of parsed sources holds what is in use,   *)
(* a camera's index is never reused, and the journal of an id alternates   *)
(* between its comings and goings: the fleet implements its roster.  They  *)
(* hold for any number of callers, ids, files and cameras.                 *)
(***************************************************************************)
EXTENDS Fleet, TLAPS

Adding == {"add.load", "add.check", "add.rtsp", "add.onvif", "add.undo"}
Loaded == {"add.check", "add.rtsp", "add.onvif", "add.undo"}
Indexed == {"add.rtsp", "add.onvif", "add.undo"}
Undoable == {"add.onvif", "add.undo"}
Removing == {"rm.publish", "rm.rtsp", "rm.onvif"}
Unserved == {"rm.publish", "rm.rtsp"}
Swapping == {"swap.inject", "swap.clear"}

(***************************************************************************)
(* Types.                                                                  *)
(***************************************************************************)

(* A call in progress knows what it is about.                              *)
JobsKnown ==
  \A p \in Callers :
    /\ pc[p] \in Adding \cup Removing \cup Swapping => job[p].id \in Ids
    /\ pc[p] = "add.load" => job[p].key \in Key
    /\ pc[p] \in Loaded => job[p].media \in Media
    /\ pc[p] \in Indexed \cup Swapping => job[p].cam \in Index

Typed == TypeOK /\ JobsKnown

(* A job with one field changed is a job.                                  *)
LEMMA JobWith ==
  ASSUME NEW j \in Job
  PROVE  /\ \A v \in Ids : [j EXCEPT !.id = v] \in Job /\ [j EXCEPT !.id = v].id = v
         /\ \A v \in Index : /\ [j EXCEPT !.cam = v] \in Job /\ [j EXCEPT !.cam = v].cam = v
                              /\ [j EXCEPT !.cam = v].id = j.id
                              /\ [j EXCEPT !.cam = v].media = j.media
         /\ \A v \in Key : /\ [j EXCEPT !.key = v] \in Job /\ [j EXCEPT !.key = v].key = v
                            /\ [j EXCEPT !.key = v].id = j.id
         /\ \A v \in Media : /\ [j EXCEPT !.media = v] \in Job
                              /\ [j EXCEPT !.media = v].media = v
                              /\ [j EXCEPT !.media = v].id = j.id
  BY DEF Job, OrNone

LEMMA TypedInit == Init => Typed
<1> SUFFICES ASSUME Init PROVE Typed
  OBVIOUS
<1> USE FleetAssumption DEF FleetAssumption
<1>1. /\ NoJob \in Job
      /\ \A id \in Ids : <<>> \in Seq({"added", "removed", "fault"})
  BY DEF NoJob, Job, OrNone
<1>2. TypeOK
  BY <1>1 DEF Init, TypeOK, OrNone, State, Index
<1>3. JobsKnown
  BY DEF Init, JobsKnown, Adding, Loaded, Indexed, Removing, Swapping
<1> QED BY <1>2, <1>3 DEF Typed

(* What a step that only moves its caller, or returns, does to pc and job. *)
Others(p) == \A q \in Callers \ {p} : pc'[q] = pc[q] /\ job'[q] = job[q]

LEMMA GotoMoves ==
  ASSUME Typed, NEW p \in Callers, NEW label \in State, Goto(p, label)
  PROVE  /\ pc' \in [Callers -> State] /\ pc'[p] = label
         /\ \A q \in Callers \ {p} : pc'[q] = pc[q]
  BY DEF Typed, TypeOK, Goto

LEMMA ReturnMoves ==
  ASSUME Typed, NEW p \in Callers, Return(p)
  PROVE  /\ pc' \in [Callers -> State] /\ pc'[p] = "idle"
         /\ job' \in [Callers -> Job] /\ job'[p] = NoJob
         /\ Others(p)
  BY DEF Typed, TypeOK, Return, Goto, State, NoJob, Job, OrNone, Others

LEMMA EvictShrinks == ASSUME NEW m, NEW table PROVE Evict(m, table) \subseteq sources
  BY DEF Evict

(* Every step of a call keeps the types.                                   *)
LEMMA TypedStep == Typed /\ [Next]_vars => Typed'
<1> SUFFICES ASSUME Typed, [Next]_vars
             PROVE  Typed'
  OBVIOUS
<1> USE FleetAssumption DEF FleetAssumption, Typed, OrNone
<1>n. NoJob \in Job
  BY DEF NoJob, Job
<1>k. ASSUME NEW p \in Callers, Others(p),
             pc'[p] \in Adding \cup Removing \cup Swapping => job'[p].id \in Ids,
             pc'[p] = "add.load" => job'[p].key \in Key,
             pc'[p] \in Loaded => job'[p].media \in Media,
             pc'[p] \in Indexed \cup Swapping => job'[p].cam \in Index
      PROVE  JobsKnown'
  BY <1>k DEF JobsKnown, Others
<1>i. ASSUME NEW p \in Callers, Others(p), pc'[p] = "idle"
      PROVE  JobsKnown'
  BY <1>k, <1>i DEF Adding, Loaded, Indexed, Removing, Swapping
<1>f. ASSUME NEW p \in Callers, AddFails(p)
      PROVE  /\ sources' \subseteq sources /\ mu' = None
             /\ pc' \in [Callers -> State] /\ job' \in [Callers -> Job]
             /\ JobsKnown'
  BY <1>i, <1>f, ReturnMoves, EvictShrinks DEF AddFails
<1>1. ASSUME NEW p \in Callers, NEW id \in Ids, NEW src \in Files \cup {Fixture},
             AddBegin(p, id, src)
      PROVE  Typed'
  <2>1. [source |-> src, written |-> written[src]] \in Key
    BY DEF Key, TypeOK
  <2>j. job' \in [Callers -> Job] /\ job'[p].id = id /\ job'[p].key \in Key
        /\ \A q \in Callers \ {p} : job'[q] = job[q]
    <3>1. job[p] \in Job /\ job \in [Callers -> Job]
      BY DEF TypeOK
    <3>2. [job[p] EXCEPT !.id = id] \in Job /\ [job[p] EXCEPT !.id = id].id = id
      BY <3>1, JobWith
    <3> DEFINE j == [[job[p] EXCEPT !.id = id] EXCEPT !.key = [source |-> src, written |-> written[src]]]
    <3>3. j \in Job /\ j.id = id /\ j.key \in Key
      BY <2>1, <3>2, JobWith
    <3>4. job' = [job EXCEPT ![p] = j]
      BY <1>1, <3>1 DEF AddBegin
    <3> QED BY <3>1, <3>3, <3>4
  <2>2. TypeOK'
    BY <1>1, <2>j DEF TypeOK, AddBegin, Goto, serverVars, State
  <2>3. JobsKnown'
    BY <1>1, <2>j DEF TypeOK, JobsKnown, AddBegin, Goto, Adding, Loaded, Indexed, Removing,
                      Swapping
  <2> QED BY <2>2, <2>3
<1>2. ASSUME NEW p \in Callers, AddLoad(p)
      PROVE  Typed'
  <2>1. job[p].key \in Key /\ job[p] \in Job
    BY <1>2 DEF AddLoad, JobsKnown, TypeOK
  <2> DEFINE read == [key |-> job[p].key, content |-> written[job[p].key.source],
                      parse |-> nextIndex]
  <2>2. read \in Media
    BY <2>1 DEF Media, Key, TypeOK
  <2>3. PICK m \in Media :
          /\ \/ /\ job' = [job EXCEPT ![p].media = m]
                /\ pc' = [pc EXCEPT ![p] = "add.check"] /\ mu' = mu
             \/ /\ job' = [job EXCEPT ![p] = NoJob]
                /\ pc' = [pc EXCEPT ![p] = "idle"] /\ mu' = None
          /\ sources' \in {sources, sources \cup {m}}
    <3> DEFINE hit == {m \in sources : m.key = job[p].key}
    <3>1. CASE hit # {} /\ job' = [job EXCEPT ![p].media = CHOOSE m \in hit : TRUE]
      <4>1. (CHOOSE m \in hit : TRUE) \in Media
        BY <3>1 DEF TypeOK
      <4> QED BY <1>2, <3>1, <4>1 DEF AddLoad, Goto
    <3>2. CASE hit = {}
      BY <1>2, <2>2, <3>2 DEF AddLoad, Goto, Return
    <3> QED BY <1>2, <3>1, <3>2 DEF AddLoad
  <2>j. job' \in [Callers -> Job]
        /\ (pc'[p] # "idle" => job'[p].id = job[p].id /\ job'[p].media \in Media)
        /\ \A q \in Callers \ {p} : job'[q] = job[q]
    <3>1. job \in [Callers -> Job]
      BY DEF TypeOK
    <3>2. [job[p] EXCEPT !.media = m] \in Job
          /\ [job[p] EXCEPT !.media = m].id = job[p].id
          /\ [job[p] EXCEPT !.media = m].media = m
      BY <2>1, JobWith
    <3>3. PICK j \in Job : job' = [job EXCEPT ![p] = j]
                           /\ (pc'[p] # "idle" => j.id = job[p].id /\ j.media = m)
      BY <1>n, <2>3, <3>1, <3>2 DEF TypeOK
    <3> QED BY <3>1, <3>3
  <2>p. pc' \in [Callers -> State] /\ pc'[p] \in {"idle", "add.check"}
        /\ \A q \in Callers \ {p} : pc'[q] = pc[q]
    BY <2>3 DEF TypeOK, State
  <2>4. TypeOK'
    BY <1>2, <2>3, <2>j, <2>p DEF TypeOK, AddLoad, serverVars
  <2>5. JobsKnown'
    BY <1>2, <2>j, <2>p DEF JobsKnown, AddLoad, Adding, Loaded, Indexed, Removing, Swapping
  <2> QED BY <2>4, <2>5
<1>3. ASSUME NEW p \in Callers, AddCheck(p)
      PROVE  Typed'
  <2>1. CASE AddFails(p) /\ UNCHANGED nextIndex
    BY <1>3, <1>f, <2>1 DEF AddCheck, TypeOK, serverVars
  <2>2. CASE /\ nextIndex < MaxIndex
             /\ job' = [job EXCEPT ![p].cam = nextIndex]
             /\ nextIndex' = nextIndex + 1
             /\ Goto(p, "add.rtsp")
             /\ UNCHANGED <<mu, sources>>
    <3>1. job[p] \in Job /\ job \in [Callers -> Job] /\ "add.rtsp" \in State
      BY DEF TypeOK, State
    <3>2. nextIndex \in Index /\ nextIndex' \in 0 .. MaxIndex
      BY <2>2 DEF TypeOK, Index
    <3>3. job' = [job EXCEPT ![p] = [job[p] EXCEPT !.cam = nextIndex]]
      BY <2>2
    <3>4. /\ job' \in [Callers -> Job] /\ job'[p].cam \in Index
          /\ job'[p].id = job[p].id /\ job'[p].media = job[p].media
          /\ \A q \in Callers \ {p} : job'[q] = job[q]
      BY <3>1, <3>2, <3>3, JobWith
    <3>5. /\ pc' \in [Callers -> State] /\ pc'[p] = "add.rtsp"
          /\ \A q \in Callers \ {p} : pc'[q] = pc[q]
      BY <2>2, <3>1, GotoMoves
    <3>6. TypeOK'
      BY <1>3, <2>2, <3>2, <3>4, <3>5 DEF AddCheck, TypeOK, serverVars
    <3>7. JobsKnown'
      BY <1>k, <1>3, <3>4, <3>5 DEF AddCheck, JobsKnown, Others, Adding, Loaded, Indexed
    <3> QED BY <3>6, <3>7
  <2> QED BY <1>3, <2>1, <2>2 DEF AddCheck
<1>4. ASSUME NEW p \in Callers, AddRtsp(p)
      PROVE  Typed'
  <2>0. /\ job[p].id \in Ids /\ job[p].cam \in Index /\ job[p].media \in Media
        /\ "add.onvif" \in State
    BY <1>4 DEF AddRtsp, JobsKnown, Adding, Loaded, Indexed, State
  <2>1. CASE AddFails(p) /\ UNCHANGED rtsp
    BY <1>4, <1>f, <2>1 DEF AddRtsp, TypeOK
  <2>2. CASE /\ rtsp' = [rtsp EXCEPT ![job[p].id] = job[p].cam]
             /\ Goto(p, "add.onvif")
             /\ UNCHANGED <<mu, sources, job>>
    <3>1. /\ pc' \in [Callers -> State] /\ pc'[p] = "add.onvif"
          /\ \A q \in Callers \ {p} : pc'[q] = pc[q]
      BY <2>0, <2>2, GotoMoves
    <3>2. TypeOK'
      BY <1>4, <2>0, <2>2, <3>1 DEF AddRtsp, TypeOK
    <3>3. JobsKnown'
      BY <1>k, <2>0, <2>2, <3>1 DEF Others
    <3> QED BY <3>2, <3>3
  <2> QED BY <1>4, <2>1, <2>2 DEF AddRtsp
<1>5. ASSUME NEW p \in Callers, AddOnvif(p)
      PROVE  Typed'
  <2>0. /\ job[p].id \in Ids /\ job[p].cam \in Index /\ job[p].media \in Media
        /\ "add.undo" \in State
    BY <1>5 DEF AddOnvif, JobsKnown, Adding, Loaded, Indexed, State
  <2>1. CASE /\ onvif' = [onvif EXCEPT ![job[p].id] = job[p].cam]
             /\ cameras' = [cameras EXCEPT ![job[p].id] = job[p].cam]
             /\ camera' = [camera EXCEPT ![job[p].cam] = [id |-> job[p].id, media |-> job[p].media]]
             /\ Record(job[p].id, "added")
             /\ mu' = None
             /\ Return(p)
    <3>1. [id |-> job[p].id, media |-> job[p].media] \in Camera
      BY <2>0 DEF Camera
    <3>2. journal' \in [Ids -> Seq({"added", "removed", "fault"})]
      BY <2>0, <2>1 DEF Record, TypeOK
    <3>3. TypeOK'
      BY <1>5, <2>0, <2>1, <3>1, <3>2, ReturnMoves DEF AddOnvif, TypeOK
    <3> QED BY <1>i, <2>1, <3>3, ReturnMoves
  <2>2. CASE Goto(p, "add.undo") /\ UNCHANGED <<onvif, cameras, camera, journal, mu, job>>
    <3>1. /\ pc' \in [Callers -> State] /\ pc'[p] = "add.undo"
          /\ \A q \in Callers \ {p} : pc'[q] = pc[q]
      BY <2>0, <2>2, GotoMoves
    <3>2. TypeOK'
      BY <1>5, <2>2, <3>1 DEF AddOnvif, TypeOK
    <3>3. JobsKnown'
      BY <1>k, <2>0, <2>2, <3>1 DEF Others
    <3> QED BY <3>2, <3>3
  <2> QED BY <1>5, <2>1, <2>2 DEF AddOnvif
<1>6. ASSUME NEW p \in Callers, AddUndo(p)
      PROVE  Typed'
  BY <1>6, <1>f DEF AddUndo, TypeOK
<1>7. ASSUME NEW p \in Callers, NEW id \in Ids, RemoveBegin(p, id)
      PROVE  Typed'
  <2>1. /\ cameras' = [cameras EXCEPT ![id] = None]
        /\ sources' \subseteq sources
        /\ removed' = removed \cup {cameras[id]} /\ cameras[id] \in Index
    BY <1>7, EvictShrinks DEF RemoveBegin, TypeOK
  <2>2. job' \in [Callers -> Job] /\ job'[p].id = id
        /\ \A q \in Callers \ {p} : job'[q] = job[q]
    <3>1. job[p] \in Job /\ job \in [Callers -> Job]
      BY DEF TypeOK
    <3>2. job' = [job EXCEPT ![p] = [job[p] EXCEPT !.id = id]]
      BY <1>7 DEF RemoveBegin
    <3> QED BY <3>1, <3>2, JobWith
  <2>3. /\ pc' \in [Callers -> State] /\ pc'[p] = "rm.publish"
        /\ \A q \in Callers \ {p} : pc'[q] = pc[q]
    BY <1>7, GotoMoves DEF RemoveBegin, State
  <2>4. TypeOK'
    BY <1>7, <2>1, <2>2, <2>3 DEF RemoveBegin, TypeOK, serverVars
  <2>5. JobsKnown'
    BY <1>k, <2>2, <2>3 DEF Others, Adding, Loaded, Indexed, Removing, Swapping
  <2> QED BY <2>4, <2>5
<1>8. ASSUME NEW p \in Callers, RemovePublish(p)
      PROVE  Typed'
  <2>1. job[p].id \in Ids
    BY <1>8 DEF RemovePublish, JobsKnown, Removing
  <2>2. journal' \in [Ids -> Seq({"added", "removed", "fault"})]
    BY <1>8, <2>1 DEF RemovePublish, Record, TypeOK
  <2>3. /\ pc' \in [Callers -> State] /\ pc'[p] = "rm.rtsp"
        /\ \A q \in Callers \ {p} : pc'[q] = pc[q]
    BY <1>8, GotoMoves DEF RemovePublish, State
  <2>4. TypeOK'
    BY <1>8, <2>2, <2>3 DEF RemovePublish, TypeOK, fleetVars, serverVars
  <2>5. JobsKnown'
    BY <1>k, <1>8, <2>1, <2>3 DEF RemovePublish, Others, Loaded, Indexed, Swapping
  <2> QED BY <2>4, <2>5
<1>9. ASSUME NEW p \in Callers, RemoveRtsp(p)
      PROVE  Typed'
  <2>1. job[p].id \in Ids
    BY <1>9 DEF RemoveRtsp, JobsKnown, Removing
  <2>2. rtsp' \in [Ids -> OrNone(Index)]
    BY <1>9 DEF RemoveRtsp, TypeOK
  <2>3. /\ pc' \in [Callers -> State] /\ pc'[p] = "rm.onvif"
        /\ \A q \in Callers \ {p} : pc'[q] = pc[q]
    BY <1>9, GotoMoves DEF RemoveRtsp, State
  <2>4. TypeOK'
    BY <1>9, <2>2, <2>3 DEF RemoveRtsp, TypeOK, fleetVars
  <2>5. JobsKnown'
    BY <1>k, <1>9, <2>1, <2>3 DEF RemoveRtsp, Others, Loaded, Indexed, Swapping
  <2> QED BY <2>4, <2>5
<1>10. ASSUME NEW p \in Callers, RemoveOnvif(p)
       PROVE  Typed'
  <2>1. TypeOK'
    BY <1>10, ReturnMoves DEF RemoveOnvif, TypeOK, fleetVars
  <2> QED BY <1>i, <1>10, <2>1, ReturnMoves DEF RemoveOnvif
<1>11. ASSUME NEW p \in Callers, NEW n \in Index, NEW label \in Swapping, SwapBegin(p, n, label)
       PROVE  Typed'
  <2>1. camera[n].id \in Ids
    BY <1>11 DEF SwapBegin, Handles, TypeOK, Camera
  <2>2. /\ job' \in [Callers -> Job] /\ job'[p].id \in Ids /\ job'[p].cam \in Index
        /\ \A q \in Callers \ {p} : job'[q] = job[q]
    <3>1. job[p] \in Job /\ job \in [Callers -> Job]
      BY DEF TypeOK
    <3>2. [job[p] EXCEPT !.cam = n] \in Job /\ [job[p] EXCEPT !.cam = n].cam = n
      BY <3>1, JobWith
    <3> DEFINE j == [[job[p] EXCEPT !.cam = n] EXCEPT !.id = camera[n].id]
    <3>3. j \in Job /\ j.id \in Ids /\ j.cam = n
      BY <2>1, <3>2, JobWith DEF Job
    <3>4. job' = [job EXCEPT ![p] = j]
      BY <1>11, <3>1 DEF SwapBegin
    <3> QED BY <3>1, <3>3, <3>4
  <2>3. /\ pc' \in [Callers -> State] /\ pc'[p] = label
        /\ \A q \in Callers \ {p} : pc'[q] = pc[q]
    BY <1>11, GotoMoves DEF SwapBegin, State, Swapping
  <2>4. TypeOK'
    BY <1>11, <2>2, <2>3 DEF SwapBegin, TypeOK, fleetVars, serverVars
  <2>5. JobsKnown'
    BY <1>k, <2>2, <2>3 DEF Others, Loaded, Adding, Swapping
  <2> QED BY <2>4, <2>5
<1>12. ASSUME NEW p \in Callers, SwapApply(p)
       PROVE  Typed'
  <2>1. /\ job[p].id \in Ids /\ job[p].cam \in Index
        /\ rtsp[job[p].id] \in OrNone(Index)
    BY <1>12 DEF SwapApply, JobsKnown, Swapping, TypeOK
  <2>2. /\ faults' \in [Index -> SUBSET Kinds] /\ installed' \in [Index -> SUBSET Kinds]
        /\ journal' \in [Ids -> Seq({"added", "removed", "fault"})]
    <3>1. PICK next \in SUBSET Kinds :
            \/ /\ rtsp[job[p].id] # None
               /\ installed' = [installed EXCEPT ![rtsp[job[p].id]] = next]
               /\ faults' = [faults EXCEPT ![job[p].cam] = next]
               /\ Record(job[p].id, "fault") \/ UNCHANGED journal
            \/ UNCHANGED <<installed, faults, journal>>
      BY <1>12 DEF SwapApply
    <3>2. Record(job[p].id, "fault") => journal' \in [Ids -> Seq({"added", "removed", "fault"})]
      BY <2>1 DEF Record, TypeOK
    <3> QED BY <2>1, <3>1, <3>2 DEF TypeOK
  <2>3. TypeOK'
    BY <1>12, <2>2, ReturnMoves DEF SwapApply, TypeOK, fleetVars
  <2> QED BY <1>i, <1>12, <2>3, ReturnMoves DEF SwapApply
<1>13. ASSUME NEW p \in Callers, CloseBegin(p)
       PROVE  Typed'
  <2>1. /\ pc' \in [Callers -> State] /\ pc'[p] = "close.rtsp"
        /\ \A q \in Callers \ {p} : pc'[q] = pc[q]
    BY <1>13, GotoMoves DEF CloseBegin, State
  <2>2. TypeOK'
    BY <1>13, <2>1 DEF CloseBegin, TypeOK, serverVars
  <2>3. JobsKnown'
    BY <1>k, <1>13, <2>1 DEF CloseBegin, Others, Adding, Loaded, Indexed, Removing, Swapping
  <2> QED BY <2>2, <2>3
<1>14. ASSUME NEW p \in Callers, CloseRtsp(p)
       PROVE  Typed'
  <2>1. /\ pc' \in [Callers -> State] /\ pc'[p] = "idle"
        /\ \A q \in Callers \ {p} : pc'[q] = pc[q]
    BY <1>14, GotoMoves DEF CloseRtsp, State
  <2>2. TypeOK'
    BY <1>14, <2>1 DEF CloseRtsp, TypeOK, fleetVars
  <2> QED BY <1>i, <1>14, <2>1, <2>2 DEF CloseRtsp, Others
<1>15. ASSUME NEW f \in Files, Overwrite(f)
       PROVE  Typed'
  BY <1>15 DEF Overwrite, TypeOK, JobsKnown, fleetVars, serverVars
<1>16. CASE UNCHANGED vars
  BY <1>16 DEF TypeOK, JobsKnown, vars, fleetVars, serverVars
<1> QED
  BY <1>1, <1>2, <1>3, <1>4, <1>5, <1>6, <1>7, <1>8, <1>9, <1>10, <1>11, <1>12, <1>13,
     <1>14, <1>15, <1>16 DEF Next, Advance, Swapping

(* Every variable keeps its type, and a call in progress knows what it is  *)
(* about (camfarm.go, struct Fleet and the arguments of its methods).      *)
THEOREM TypeCorrect == Spec => []TypeOK
<1>1. Typed => TypeOK
  BY DEF Typed
<1> QED BY <1>1, TypedInit, TypedStep, PTL DEF Spec

(***************************************************************************)
(* The registries.                                                         *)
(***************************************************************************)

(* An AddCamera holds the mutex, and its id is not a camera's yet.         *)
AddersLock ==
  \A p \in Callers : pc[p] \in Adding => mu = p /\ cameras[job[p].id] = None

(* Past its locked part a RemoveCamera has its id to itself in both        *)
(* servers: the fleet refuses a second removal, and the ids it has not yet *)
(* removed keep an AddCamera from taking them.                             *)
RemoversOwn ==
  \A p \in Callers :
    /\ pc[p] \in Removing =>
         /\ cameras[job[p].id] = None /\ onvif[job[p].id] # None
         /\ \A q \in Callers \ {p} : pc[q] \in Removing => job[q].id # job[p].id
    /\ pc[p] \in Unserved => rtsp[job[p].id] # None

(* An AddCamera that registered with the RTSP server finds its camera      *)
(* there, and no removal of its id has that step ahead of it.              *)
AddersServed ==
  \A p \in Callers :
    pc[p] \in Undoable =>
      /\ rtsp[job[p].id] = job[p].cam
      /\ \A q \in Callers : pc[q] \in Unserved => job[q].id # job[p].id

RegInv == AddersLock /\ RemoversOwn /\ AddersServed /\ RegistriesAgree

LEMMA RegInit == Init => RegInv
  BY DEF Init, RegInv, AddersLock, RemoversOwn, AddersServed, RegistriesAgree,
         Adding, Undoable, Removing, Unserved

(* A step that leaves the registries alone, and whose caller afterwards is *)
(* in no later stage than it was, or has returned.                         *)
LEMMA RegElsewhere ==
  ASSUME Typed, RegInv, NEW p \in Callers, Others(p),
         UNCHANGED <<cameras, rtsp, onvif>>,
         pc'[p] \notin Adding \cup Removing, mu' \in {mu, None}, mu # p => mu' = mu,
         pc[p] \notin Adding => mu' = mu
  PROVE  RegInv'
<1> USE FleetAssumption DEF FleetAssumption, RegInv, Others, Adding, Removing, Unserved, Undoable
<1>1. AddersLock'
  BY DEF AddersLock
<1>2. RemoversOwn'
  BY DEF RemoversOwn
<1>3. AddersServed'
  BY DEF AddersServed
<1>4. RegistriesAgree'
  BY DEF RegistriesAgree
<1> QED BY <1>1, <1>2, <1>3, <1>4

(* Every step keeps the registries in agreement.                           *)
LEMMA RegStep == Typed /\ RegInv /\ [Next]_vars => RegInv'
<1> SUFFICES ASSUME Typed, RegInv, [Next]_vars
             PROVE  RegInv'
  OBVIOUS
<1> USE FleetAssumption DEF FleetAssumption, RegInv, Adding, Removing, Unserved, Undoable
<1>t. /\ mu \in OrNone(Callers) /\ cameras \in [Ids -> OrNone(Index)]
      /\ rtsp \in [Ids -> OrNone(Index)] /\ onvif \in [Ids -> OrNone(Index)]
      /\ pc \in [Callers -> State] /\ job \in [Callers -> Job]
      /\ None \notin Index \cup Callers
  BY DEF Typed, TypeOK, Index
<1>j. /\ \A p \in Callers : pc[p] \in Adding \cup Removing => job[p].id \in Ids
      /\ \A p \in Callers : pc[p] \in Indexed => job[p].cam \in Index
  BY DEF Typed, JobsKnown
<1>1. ASSUME NEW p \in Callers, NEW id \in Ids, NEW src \in Files \cup {Fixture},
             AddBegin(p, id, src)
      PROVE  RegInv'
  <2>1. /\ job'[p].id = id
        /\ \A q \in Callers \ {p} : job'[q] = job[q]
        /\ pc' = [pc EXCEPT ![p] = "add.load"]
    BY <1>1, <1>t DEF AddBegin, Goto, Job
  <2>2. /\ mu = None /\ mu' = p /\ cameras[id] = None
        /\ UNCHANGED <<cameras, rtsp, onvif>>
    BY <1>1 DEF AddBegin, serverVars
  <2>3. AddersLock'
    BY <1>t, <2>1, <2>2 DEF AddersLock
  <2>4. RemoversOwn'
    BY <1>t, <2>1, <2>2 DEF RemoversOwn
  <2>5. AddersServed'
    BY <1>t, <2>1, <2>2 DEF AddersServed
  <2> QED BY <2>2, <2>3, <2>4, <2>5 DEF RegistriesAgree
<1>2. ASSUME NEW p \in Callers, AddLoad(p)
      PROVE  RegInv'
  <2>1. CASE Return(p)
    <3>1. mu' = None /\ UNCHANGED <<cameras, rtsp, onvif>> /\ pc[p] = "add.load"
      BY <1>2, <2>1, <1>t DEF AddLoad, serverVars, Return, Goto
    <3> QED BY <2>1, <3>1, RegElsewhere, ReturnMoves DEF AddersLock
  <2>2. CASE Goto(p, "add.check")
    <3>1. /\ pc[p] = "add.load"
          /\ pc' = [pc EXCEPT ![p] = "add.check"] /\ mu' = mu
          /\ job'[p].id = job[p].id
          /\ \A q \in Callers \ {p} : job'[q] = job[q]
          /\ UNCHANGED <<cameras, rtsp, onvif>>
      BY <1>2, <2>2, <1>t DEF AddLoad, serverVars, Goto, Return, Job
    <3>2. AddersLock'
      BY <1>t, <3>1 DEF AddersLock
    <3>3. RemoversOwn'
      BY <1>t, <3>1 DEF RemoversOwn
    <3>4. AddersServed'
      BY <1>t, <3>1 DEF AddersServed
    <3> QED BY <3>1, <3>2, <3>3, <3>4 DEF RegistriesAgree
  <2> QED BY <1>2, <2>1, <2>2 DEF AddLoad
<1>f. ASSUME NEW p \in Callers, AddFails(p), pc[p] \in Adding, UNCHANGED <<cameras, rtsp, onvif>>
      PROVE  RegInv'
  <2>1. mu' = None /\ Return(p)
    BY <1>f DEF AddFails
  <2> QED BY <1>f, <2>1, RegElsewhere, ReturnMoves DEF AddersLock
<1>3. ASSUME NEW p \in Callers, AddCheck(p)
      PROVE  RegInv'
  <2>1. CASE AddFails(p)
    BY <1>3, <1>f, <2>1 DEF AddCheck, serverVars
  <2>2. CASE ~AddFails(p)
    <3>1. /\ pc[p] = "add.check"
          /\ pc' = [pc EXCEPT ![p] = "add.rtsp"] /\ mu' = mu
          /\ job'[p].id = job[p].id
          /\ \A q \in Callers \ {p} : job'[q] = job[q]
          /\ UNCHANGED <<cameras, rtsp, onvif>>
      BY <1>3, <2>2, <1>t DEF AddCheck, serverVars, Goto, Job
    <3>2. AddersLock'
      BY <1>t, <3>1 DEF AddersLock
    <3>3. RemoversOwn'
      BY <1>t, <3>1 DEF RemoversOwn
    <3>4. AddersServed'
      BY <1>t, <3>1 DEF AddersServed
    <3> QED BY <3>1, <3>2, <3>3, <3>4 DEF RegistriesAgree
  <2> QED BY <2>1, <2>2
<1>4. ASSUME NEW p \in Callers, AddRtsp(p)
      PROVE  RegInv'
  <2>1. CASE AddFails(p) /\ UNCHANGED rtsp
    BY <1>4, <1>f, <2>1 DEF AddRtsp
  <2>2. CASE /\ rtsp[job[p].id] = None
             /\ rtsp' = [rtsp EXCEPT ![job[p].id] = job[p].cam]
             /\ Goto(p, "add.onvif")
             /\ UNCHANGED <<mu, job>>
    <3>1. /\ pc[p] = "add.rtsp" /\ job[p].id \in Ids /\ job[p].cam \in Index
          /\ cameras[job[p].id] = None /\ mu = p
          /\ pc' = [pc EXCEPT ![p] = "add.onvif"]
          /\ UNCHANGED <<cameras, onvif>>
      BY <1>4, <2>2, <1>j DEF AddRtsp, Goto, Indexed, AddersLock
    <3>2. AddersLock'
      BY <1>t, <2>2, <3>1 DEF AddersLock
    <3>3. RemoversOwn'
      BY <1>t, <1>j, <2>2, <3>1 DEF RemoversOwn
    <3>4. AddersServed'
      BY <1>t, <1>j, <2>2, <3>1 DEF AddersServed, RemoversOwn, AddersLock
    <3>5. RegistriesAgree'
      BY <1>t, <2>2, <3>1 DEF RegistriesAgree
    <3> QED BY <3>2, <3>3, <3>4, <3>5
  <2> QED BY <1>4, <2>1, <2>2 DEF AddRtsp
<1>5. ASSUME NEW p \in Callers, AddOnvif(p)
      PROVE  RegInv'
  <2>0. /\ pc[p] = "add.onvif" /\ job[p].id \in Ids /\ job[p].cam \in Index
        /\ cameras[job[p].id] = None /\ mu = p
        /\ UNCHANGED rtsp /\ rtsp[job[p].id] = job[p].cam
    BY <1>5, <1>j DEF AddOnvif, Indexed, AddersLock, AddersServed
  <2>1. CASE /\ onvif[job[p].id] = None
             /\ onvif' = [onvif EXCEPT ![job[p].id] = job[p].cam]
             /\ cameras' = [cameras EXCEPT ![job[p].id] = job[p].cam]
             /\ mu' = None
             /\ Return(p)
    <3>1. /\ pc' = [pc EXCEPT ![p] = "idle"]
          /\ \A q \in Callers \ {p} : job'[q] = job[q]
      BY <2>1, <1>t DEF Return, Goto
    <3>2. AddersLock'
      BY <1>t, <2>0, <2>1, <3>1 DEF AddersLock
    <3>3. RemoversOwn'
      BY <1>t, <1>j, <2>0, <2>1, <3>1 DEF RemoversOwn
    <3>4. AddersServed'
      BY <1>t, <2>0, <2>1, <3>1 DEF AddersServed
    <3>5. RegistriesAgree'
      BY <1>t, <2>0, <2>1 DEF RegistriesAgree
    <3> QED BY <3>2, <3>3, <3>4, <3>5
  <2>2. CASE Goto(p, "add.undo") /\ UNCHANGED <<onvif, cameras, mu, job>>
    <3>1. pc' = [pc EXCEPT ![p] = "add.undo"]
      BY <2>2 DEF Goto
    <3>2. AddersLock'
      BY <1>t, <2>0, <2>2, <3>1 DEF AddersLock
    <3>3. RemoversOwn'
      BY <1>t, <2>0, <2>2, <3>1 DEF RemoversOwn
    <3>4. AddersServed'
      BY <1>t, <2>0, <2>2, <3>1 DEF AddersServed
    <3> QED BY <2>0, <2>2, <3>2, <3>3, <3>4 DEF RegistriesAgree
  <2> QED BY <1>5, <2>1, <2>2 DEF AddOnvif
<1>6. ASSUME NEW p \in Callers, AddUndo(p)
      PROVE  RegInv'
  <2>1. /\ pc[p] = "add.undo" /\ mu = p /\ job[p].id \in Ids
        /\ cameras[job[p].id] = None
        /\ \A q \in Callers : pc[q] \in Unserved => job[q].id # job[p].id
        /\ rtsp' \in {rtsp, [rtsp EXCEPT ![job[p].id] = None]}
        /\ UNCHANGED <<cameras, onvif>>
        /\ mu' = None /\ Return(p)
    BY <1>6, <1>j DEF AddUndo, AddFails, AddersLock, AddersServed
  <2>2. /\ pc' = [pc EXCEPT ![p] = "idle"]
        /\ \A q \in Callers \ {p} : job'[q] = job[q]
    BY <2>1, <1>t DEF Return, Goto
  <2>3. AddersLock'
    BY <1>t, <2>1, <2>2 DEF AddersLock
  <2>4. RemoversOwn'
    BY <1>t, <1>j, <2>1, <2>2 DEF RemoversOwn
  <2>5. AddersServed'
    BY <1>t, <2>1, <2>2 DEF AddersServed, AddersLock
  <2>6. RegistriesAgree'
    BY <1>t, <2>1 DEF RegistriesAgree
  <2> QED BY <2>3, <2>4, <2>5, <2>6
<1>7. ASSUME NEW p \in Callers, NEW id \in Ids, RemoveBegin(p, id)
      PROVE  RegInv'
  <2>1. /\ mu = None /\ mu' = None /\ pc[p] = "idle" /\ cameras[id] # None
        /\ pc' = [pc EXCEPT ![p] = "rm.publish"]
        /\ cameras' = [cameras EXCEPT ![id] = None]
        /\ UNCHANGED <<rtsp, onvif>>
        /\ job'[p].id = id
        /\ \A q \in Callers \ {p} : job'[q] = job[q]
    BY <1>7, <1>t DEF RemoveBegin, Goto, Job, serverVars
  <2>2. rtsp[id] # None /\ onvif[id] # None
    BY <2>1 DEF RegistriesAgree
  <2>3. AddersLock'
    BY <1>t, <2>1 DEF AddersLock
  <2>4. RemoversOwn'
    BY <1>t, <1>j, <2>1, <2>2 DEF RemoversOwn
  <2>5. AddersServed'
    BY <1>t, <2>1 DEF AddersServed, AddersLock
  <2>6. RegistriesAgree'
    BY <1>t, <2>1 DEF RegistriesAgree
  <2> QED BY <2>3, <2>4, <2>5, <2>6
<1>8. ASSUME NEW p \in Callers, RemovePublish(p)
      PROVE  RegInv'
  <2>1. /\ pc[p] = "rm.publish" /\ pc' = [pc EXCEPT ![p] = "rm.rtsp"]
        /\ UNCHANGED <<mu, cameras, rtsp, onvif, job>>
    BY <1>8 DEF RemovePublish, Goto, fleetVars, serverVars
  <2>2. AddersLock' /\ RemoversOwn'
    BY <1>t, <2>1 DEF AddersLock, RemoversOwn
  <2>3. AddersServed'
    BY <1>t, <2>1 DEF AddersServed
  <2> QED BY <2>1, <2>2, <2>3 DEF RegistriesAgree
<1>9. ASSUME NEW p \in Callers, RemoveRtsp(p)
      PROVE  RegInv'
  <2>1. /\ pc[p] = "rm.rtsp" /\ pc' = [pc EXCEPT ![p] = "rm.onvif"]
        /\ UNCHANGED <<mu, cameras, onvif, job>>
        /\ rtsp' \in {rtsp, [rtsp EXCEPT ![job[p].id] = None]}
        /\ job[p].id \in Ids /\ cameras[job[p].id] = None
    BY <1>9, <1>j DEF RemoveRtsp, Goto, fleetVars, RemoversOwn
  <2>2. AddersLock'
    BY <1>t, <2>1 DEF AddersLock
  <2>3. RemoversOwn'
    BY <1>t, <1>j, <2>1 DEF RemoversOwn
  <2>4. AddersServed'
    BY <1>t, <1>j, <2>1 DEF AddersServed
  <2>5. RegistriesAgree'
    BY <1>t, <2>1 DEF RegistriesAgree
  <2> QED BY <2>2, <2>3, <2>4, <2>5
<1>10. ASSUME NEW p \in Callers, RemoveOnvif(p)
       PROVE  RegInv'
  <2>1. /\ pc[p] = "rm.onvif" /\ pc' = [pc EXCEPT ![p] = "idle"]
        /\ UNCHANGED <<mu, cameras, rtsp>>
        /\ onvif' = [onvif EXCEPT ![job[p].id] = None]
        /\ job[p].id \in Ids /\ cameras[job[p].id] = None
        /\ \A q \in Callers \ {p} : job'[q] = job[q]
    BY <1>10, <1>j, <1>t DEF RemoveOnvif, Return, Goto, fleetVars, RemoversOwn
  <2>2. AddersLock'
    BY <1>t, <2>1 DEF AddersLock
  <2>3. RemoversOwn'
    BY <1>t, <1>j, <2>1 DEF RemoversOwn
  <2>4. AddersServed'
    BY <1>t, <2>1 DEF AddersServed
  <2>5. RegistriesAgree'
    BY <1>t, <2>1 DEF RegistriesAgree
  <2> QED BY <2>2, <2>3, <2>4, <2>5
<1>11. ASSUME NEW p \in Callers, NEW n \in Index, NEW label \in Swapping, SwapBegin(p, n, label)
       PROVE  RegInv'
  <2>1. /\ pc[p] = "idle" /\ pc' = [pc EXCEPT ![p] = label]
        /\ UNCHANGED <<mu, cameras, rtsp, onvif>>
        /\ \A q \in Callers \ {p} : job'[q] = job[q]
    BY <1>11, <1>t DEF SwapBegin, Goto, fleetVars, serverVars
  <2> QED BY <1>t, <2>1, RegElsewhere DEF Others, Swapping
<1>12. ASSUME NEW p \in Callers, SwapApply(p)
       PROVE  RegInv'
  <2>1. UNCHANGED <<mu, cameras, rtsp, onvif>> /\ Return(p)
    BY <1>12 DEF SwapApply, fleetVars
  <2> QED BY <2>1, RegElsewhere, ReturnMoves
<1>13. ASSUME NEW p \in Callers, CloseBegin(p)
       PROVE  RegInv'
  <2>1. /\ pc' = [pc EXCEPT ![p] = "close.rtsp"]
        /\ UNCHANGED <<mu, cameras, rtsp, onvif, job>>
    BY <1>13 DEF CloseBegin, Goto, serverVars
  <2> QED BY <1>t, <2>1, RegElsewhere DEF Others
<1>14. ASSUME NEW p \in Callers, CloseRtsp(p)
       PROVE  RegInv'
  <2>1. /\ pc' = [pc EXCEPT ![p] = "idle"]
        /\ UNCHANGED <<mu, cameras, rtsp, onvif, job>>
    BY <1>14 DEF CloseRtsp, Goto, fleetVars
  <2> QED BY <1>t, <2>1, RegElsewhere DEF Others
<1>15. ASSUME UNCHANGED <<mu, cameras, rtsp, onvif, pc, job>>
       PROVE  RegInv'
  BY <1>15 DEF AddersLock, RemoversOwn, AddersServed, RegistriesAgree
<1>16. ASSUME NEW f \in Files, Overwrite(f)
       PROVE  RegInv'
  BY <1>15, <1>16 DEF Overwrite, fleetVars, serverVars
<1>17. CASE UNCHANGED vars
  BY <1>15, <1>17 DEF vars, fleetVars, serverVars
<1> QED
  BY <1>1, <1>2, <1>3, <1>4, <1>5, <1>6, <1>7, <1>8, <1>9, <1>10, <1>11, <1>12, <1>13,
     <1>14, <1>16, <1>17 DEF Next, Advance, Swapping

(* A camera of the fleet is the one both servers hold under its id,        *)
(* whatever calls are under way and whichever of their steps fail          *)
(* (AddCamera and RemoveCamera, camfarm.go:419-532).                       *)
THEOREM RegistriesAlwaysAgree == Spec => []RegistriesAgree
<1>1. Init => Typed /\ RegInv
  BY TypedInit, RegInit
<1>2. Typed /\ RegInv /\ [Next]_vars => (Typed /\ RegInv)'
  BY TypedStep, RegStep
<1>3. RegInv => RegistriesAgree
  BY DEF RegInv
<1> QED BY <1>1, <1>2, <1>3, PTL DEF Spec

(* Who answers for an id that only a server holds.                         *)
Answered ==
  \A id \in Ids :
    cameras[id] = None =>
      /\ onvif[id] # None =>
           \E p \in Callers : pc[p] \in Removing /\ job[p].id = id
      /\ rtspUp = "up" /\ rtsp[id] # None =>
           \E p \in Callers : pc[p] \in Undoable \cup Unserved /\ job[p].id = id

LEMMA AnsweredInit == Init => Answered
  BY DEF Init, Answered

(* A step of a call that answers for no id, and changes no registry.       *)
LEMMA AnsweredElsewhere ==
  ASSUME Answered, NEW p \in Callers, Others(p), pc[p] \notin Undoable \cup Removing,
         UNCHANGED <<cameras, rtsp, onvif>>, rtspUp' \in {rtspUp, "down"}
  PROVE  Answered'
<1> QED BY DEF Answered, Others, Undoable, Removing, Unserved

(* Every step leaves an answering call for what only a server holds.       *)
LEMMA AnsweredStep == Typed /\ RegInv /\ Answered /\ [Next]_vars => Answered'
<1> SUFFICES ASSUME Typed, RegInv, Answered, [Next]_vars
             PROVE  Answered'
  OBVIOUS
<1> USE FleetAssumption DEF FleetAssumption, Undoable, Removing, Unserved
<1>t. /\ cameras \in [Ids -> OrNone(Index)]
      /\ rtsp \in [Ids -> OrNone(Index)] /\ onvif \in [Ids -> OrNone(Index)]
      /\ pc \in [Callers -> State] /\ job \in [Callers -> Job]
      /\ None \notin Index
  BY DEF Typed, TypeOK, Index
<1>j. /\ \A p \in Callers : pc[p] \in Adding \cup Removing => job[p].id \in Ids
      /\ \A p \in Callers : pc[p] \in Indexed => job[p].cam \in Index
  BY DEF Typed, JobsKnown
<1>1. ASSUME NEW p \in Callers, NEW id \in Ids, NEW src \in Files \cup {Fixture},
             AddBegin(p, id, src)
      PROVE  Answered'
  <2>1. /\ pc[p] = "idle" /\ pc' = [pc EXCEPT ![p] = "add.load"]
        /\ \A q \in Callers \ {p} : job'[q] = job[q]
        /\ UNCHANGED <<cameras, rtsp, onvif, rtspUp>>
    BY <1>1, <1>t DEF AddBegin, Goto, serverVars
  <2> QED BY <1>t, <2>1, AnsweredElsewhere DEF Others
<1>2. ASSUME NEW p \in Callers, AddLoad(p)
      PROVE  Answered'
  <2>1. /\ pc[p] = "add.load"
        /\ \A q \in Callers \ {p} : pc'[q] = pc[q] /\ job'[q] = job[q]
        /\ UNCHANGED <<cameras, rtsp, onvif, rtspUp>>
    BY <1>2, <1>t DEF AddLoad, Goto, Return, serverVars
  <2> QED BY <2>1, AnsweredElsewhere DEF Others
<1>3. ASSUME NEW p \in Callers, AddCheck(p)
      PROVE  Answered'
  <2>1. /\ pc[p] = "add.check"
        /\ \A q \in Callers \ {p} : pc'[q] = pc[q] /\ job'[q] = job[q]
        /\ UNCHANGED <<cameras, rtsp, onvif, rtspUp>>
    BY <1>3, <1>t DEF AddCheck, AddFails, Goto, Return, serverVars
  <2> QED BY <2>1, AnsweredElsewhere DEF Others
<1>4. ASSUME NEW p \in Callers, AddRtsp(p)
      PROVE  Answered'
  <2>1. CASE AddFails(p) /\ UNCHANGED rtsp
    <3>1. /\ pc[p] = "add.rtsp" /\ Return(p) /\ UNCHANGED <<cameras, rtsp, onvif, rtspUp>>
      BY <1>4, <2>1 DEF AddRtsp, AddFails
    <3> QED BY <3>1, AnsweredElsewhere, ReturnMoves
  <2>2. CASE /\ rtsp' = [rtsp EXCEPT ![job[p].id] = job[p].cam]
             /\ Goto(p, "add.onvif")
             /\ UNCHANGED job
    <3>1. /\ pc[p] = "add.rtsp" /\ pc' = [pc EXCEPT ![p] = "add.onvif"]
          /\ UNCHANGED <<cameras, onvif, rtspUp>>
          /\ job[p].id \in Ids
      BY <1>4, <1>j, <2>2 DEF AddRtsp, Goto, Adding
    <3> QED BY <1>t, <2>2, <3>1 DEF Answered
  <2> QED BY <1>4, <2>1, <2>2 DEF AddRtsp
<1>5. ASSUME NEW p \in Callers, AddOnvif(p)
      PROVE  Answered'
  <2>0. /\ pc[p] = "add.onvif" /\ job[p].id \in Ids /\ job[p].cam \in Index
        /\ UNCHANGED <<rtsp, rtspUp>>
    BY <1>5, <1>j DEF AddOnvif, Indexed, Adding
  <2>1. CASE /\ onvif' = [onvif EXCEPT ![job[p].id] = job[p].cam]
             /\ cameras' = [cameras EXCEPT ![job[p].id] = job[p].cam]
             /\ Return(p)
    <3>1. /\ pc' = [pc EXCEPT ![p] = "idle"]
          /\ \A q \in Callers \ {p} : job'[q] = job[q]
      BY <2>1, <1>t DEF Return, Goto
    <3> QED BY <1>t, <2>0, <2>1, <3>1 DEF Answered
  <2>2. CASE Goto(p, "add.undo") /\ UNCHANGED <<onvif, cameras, job>>
    BY <1>t, <2>0, <2>2 DEF Answered, Goto
  <2> QED BY <1>5, <2>1, <2>2 DEF AddOnvif
<1>6. ASSUME NEW p \in Callers, AddUndo(p)
      PROVE  Answered'
  <2>1. /\ pc[p] = "add.undo" /\ job[p].id \in Ids
        /\ rtsp' = (IF rtspUp = "up" THEN [rtsp EXCEPT ![job[p].id] = None] ELSE rtsp)
        /\ UNCHANGED <<cameras, onvif, rtspUp>>
        /\ Return(p)
    BY <1>6, <1>j DEF AddUndo, AddFails, Adding
  <2>2. /\ pc' = [pc EXCEPT ![p] = "idle"]
        /\ \A q \in Callers \ {p} : job'[q] = job[q]
    BY <2>1, <1>t DEF Return, Goto
  <2> QED BY <1>t, <2>1, <2>2 DEF Answered
<1>7. ASSUME NEW p \in Callers, NEW id \in Ids, RemoveBegin(p, id)
      PROVE  Answered'
  <2>1. /\ pc[p] = "idle" /\ pc' = [pc EXCEPT ![p] = "rm.publish"]
        /\ cameras' = [cameras EXCEPT ![id] = None]
        /\ UNCHANGED <<rtsp, onvif, rtspUp>>
        /\ job'[p].id = id
        /\ \A q \in Callers \ {p} : job'[q] = job[q]
    BY <1>7, <1>t DEF RemoveBegin, Goto, Job, serverVars
  <2> QED BY <1>t, <2>1 DEF Answered
<1>8. ASSUME NEW p \in Callers, RemovePublish(p)
      PROVE  Answered'
  <2>1. /\ pc[p] = "rm.publish" /\ pc' = [pc EXCEPT ![p] = "rm.rtsp"]
        /\ UNCHANGED <<cameras, rtsp, onvif, job, rtspUp>>
    BY <1>8 DEF RemovePublish, Goto, fleetVars, serverVars
  <2> QED BY <1>t, <2>1 DEF Answered
<1>9. ASSUME NEW p \in Callers, RemoveRtsp(p)
      PROVE  Answered'
  <2>1. /\ pc[p] = "rm.rtsp" /\ pc' = [pc EXCEPT ![p] = "rm.onvif"]
        /\ UNCHANGED <<cameras, onvif, job, rtspUp>>
        /\ rtsp' = (IF rtspUp = "up" THEN [rtsp EXCEPT ![job[p].id] = None] ELSE rtsp)
        /\ job[p].id \in Ids
    BY <1>9, <1>j DEF RemoveRtsp, Goto, fleetVars
  <2> QED BY <1>t, <2>1 DEF Answered
<1>10. ASSUME NEW p \in Callers, RemoveOnvif(p)
       PROVE  Answered'
  <2>1. /\ pc[p] = "rm.onvif" /\ pc' = [pc EXCEPT ![p] = "idle"]
        /\ UNCHANGED <<cameras, rtsp, rtspUp>>
        /\ onvif' = [onvif EXCEPT ![job[p].id] = None]
        /\ job[p].id \in Ids
        /\ \A q \in Callers \ {p} : job'[q] = job[q]
    BY <1>10, <1>j, <1>t DEF RemoveOnvif, Return, Goto, fleetVars
  <2> QED BY <1>t, <2>1 DEF Answered
<1>11. ASSUME NEW p \in Callers, NEW n \in Index, NEW label \in Swapping, SwapBegin(p, n, label)
       PROVE  Answered'
  <2>1. /\ pc[p] = "idle" /\ pc' = [pc EXCEPT ![p] = label]
        /\ UNCHANGED <<cameras, rtsp, onvif, rtspUp>>
        /\ \A q \in Callers \ {p} : job'[q] = job[q]
    BY <1>11, <1>t DEF SwapBegin, Goto, fleetVars, serverVars
  <2> QED BY <1>t, <2>1, AnsweredElsewhere DEF Others
<1>12. ASSUME NEW p \in Callers, SwapApply(p)
       PROVE  Answered'
  <2>1. /\ UNCHANGED <<cameras, rtsp, onvif, rtspUp>> /\ Return(p)
        /\ pc[p] \notin {"add.onvif", "add.undo", "rm.publish", "rm.rtsp", "rm.onvif"}
    BY <1>12 DEF SwapApply, fleetVars
  <2> QED BY <2>1, AnsweredElsewhere, ReturnMoves
<1>13. ASSUME NEW p \in Callers, CloseBegin(p)
       PROVE  Answered'
  <2>1. /\ pc[p] = "idle" /\ pc' = [pc EXCEPT ![p] = "close.rtsp"]
        /\ UNCHANGED <<cameras, rtsp, onvif, job, rtspUp>>
    BY <1>13 DEF CloseBegin, Goto, serverVars
  <2> QED BY <1>t, <2>1, AnsweredElsewhere DEF Others
<1>14. ASSUME NEW p \in Callers, CloseRtsp(p)
       PROVE  Answered'
  <2>1. /\ pc[p] = "close.rtsp" /\ pc' = [pc EXCEPT ![p] = "idle"]
        /\ rtspUp' = "down"
        /\ UNCHANGED <<cameras, rtsp, onvif, job>>
    BY <1>14 DEF CloseRtsp, Goto, fleetVars
  <2> QED BY <1>t, <2>1, AnsweredElsewhere DEF Others
<1>15. CASE UNCHANGED <<cameras, rtsp, onvif, rtspUp, pc, job>>
  BY <1>15 DEF Answered
<1>16. ASSUME NEW f \in Files, Overwrite(f)
       PROVE  Answered'
  BY <1>15, <1>16 DEF Overwrite, fleetVars, serverVars
<1>17. CASE UNCHANGED vars
  BY <1>15, <1>17 DEF vars, fleetVars, serverVars
<1> QED
  BY <1>1, <1>2, <1>3, <1>4, <1>5, <1>6, <1>7, <1>8, <1>9, <1>10, <1>11, <1>12, <1>13,
     <1>14, <1>16, <1>17 DEF Next, Advance, Swapping

(* No failed step of an AddCamera or a RemoveCamera leaves an id in a      *)
(* server that the fleet does not know and no call will remove             *)
(* (camfarm.go:448-470, 514-531).                                          *)
THEOREM NothingOrphaned == Spec => []NoOrphan
<1>1. Init => Typed /\ RegInv /\ Answered
  BY TypedInit, RegInit, AnsweredInit
<1>2. Typed /\ RegInv /\ Answered /\ [Next]_vars => (Typed /\ RegInv /\ Answered)'
  BY TypedStep, RegStep, AnsweredStep
<1>3. Answered => NoOrphan
  BY DEF Answered, NoOrphan, Undoable, Removing, Unserved
<1> QED BY <1>1, <1>2, <1>3, PTL DEF Spec

(* So no id is ever half added or half removed with nobody to finish it:   *)
(* the two together, as the run checks them.                               *)
THEOREM RegistriesStaySound == Spec => []RegistriesSound
<1>1. (RegistriesAgree /\ NoOrphan) => RegistriesSound
  BY DEF RegistriesSound
<1> QED BY <1>1, RegistriesAlwaysAgree, NothingOrphaned, PTL

(***************************************************************************)
(* Indexes.                                                                *)
(***************************************************************************)

(* Every handle is below the next index, and below the index an AddCamera  *)
(* in progress was given; a live camera has a handle.                      *)
Counted ==
  /\ \A n \in Handles : n < nextIndex
  /\ \A p \in Callers :
       pc[p] \in Indexed =>
         job[p].cam < nextIndex /\ \A n \in Handles : n < job[p].cam
  /\ \A id \in Ids : cameras[id] # None => cameras[id] \in Handles

LEMMA CountedInit == Init => Counted
<1> USE FleetAssumption DEF FleetAssumption
<1>1. ASSUME Init PROVE Handles = {}
  BY <1>1 DEF Init, Handles
<1> QED BY <1>1 DEF Init, Counted, Indexed

(* A step that adds no camera and gives no call an index.                  *)
LEMMA CountedElsewhere ==
  ASSUME Counted, NEW p \in Callers, Others(p), UNCHANGED <<camera, nextIndex>>,
         pc'[p] \in Indexed => pc[p] \in Indexed /\ job'[p].cam = job[p].cam,
         \A id \in Ids : cameras'[id] \in {cameras[id], None}
  PROVE  Counted' /\ UNCHANGED Handles
<1>1. UNCHANGED Handles
  BY DEF Handles
<1> QED BY <1>1 DEF Counted, Others

(* Every step keeps the handles below the next index; and the camera it    *)
(* adds, if it adds one, is above every handle.                            *)
LEMMA CountedStep ==
  Typed /\ RegInv /\ Counted /\ [Next]_vars =>
    /\ Counted'
    /\ \A id \in Ids : cameras'[id] \notin {cameras[id], None} =>
         \A n \in Handles : n < cameras'[id]
<1> SUFFICES ASSUME Typed, RegInv, Counted, [Next]_vars
             PROVE  /\ Counted'
                    /\ \A id \in Ids : cameras'[id] \notin {cameras[id], None} =>
                         \A n \in Handles : n < cameras'[id]
  OBVIOUS
<1> USE FleetAssumption DEF FleetAssumption
<1>t. /\ cameras \in [Ids -> OrNone(Index)] /\ camera \in [Index -> OrNone(Camera)]
      /\ pc \in [Callers -> State] /\ job \in [Callers -> Job]
      /\ nextIndex \in 0 .. MaxIndex
      /\ None \notin Index /\ Index \subseteq Nat
  BY DEF Typed, TypeOK, Index
<1>j. /\ \A p \in Callers : pc[p] \in Adding => job[p].id \in Ids
      /\ \A p \in Callers : pc[p] \in Indexed => job[p].cam \in Index /\ job[p].media \in Media
      /\ \A p, q \in Callers : pc[p] \in Adding /\ pc[q] \in Adding => p = q
  BY DEF Typed, JobsKnown, Loaded, Indexed, RegInv, AddersLock
<1>o. ASSUME NEW p \in Callers, Others(p), UNCHANGED <<camera, nextIndex>>,
             pc'[p] \in Indexed => pc[p] \in Indexed /\ job'[p].cam = job[p].cam,
             \A id \in Ids : cameras'[id] \in {cameras[id], None}
      PROVE  /\ Counted'
             /\ \A id \in Ids : cameras'[id] \notin {cameras[id], None} =>
                  \A n \in Handles : n < cameras'[id]
  BY <1>o, CountedElsewhere
<1>r. ASSUME NEW p \in Callers, Return(p), UNCHANGED <<camera, nextIndex, cameras>>
      PROVE  Counted'
  BY <1>o, <1>r, ReturnMoves DEF Indexed
<1>1. ASSUME NEW p \in Callers, NEW id \in Ids, NEW src \in Files \cup {Fixture},
             AddBegin(p, id, src)
      PROVE  Counted' /\ UNCHANGED cameras
  <2>1. /\ pc' = [pc EXCEPT ![p] = "add.load"]
        /\ \A q \in Callers \ {p} : job'[q] = job[q]
        /\ UNCHANGED <<cameras, camera, nextIndex>>
    BY <1>1, <1>t DEF AddBegin, Goto
  <2> QED BY <1>o, <1>t, <2>1 DEF Others, Indexed
<1>2. ASSUME NEW p \in Callers, AddLoad(p)
      PROVE  Counted' /\ UNCHANGED cameras
  <2>1. /\ pc'[p] \in {"add.check", "idle"}
        /\ \A q \in Callers \ {p} : pc'[q] = pc[q] /\ job'[q] = job[q]
        /\ UNCHANGED <<cameras, camera, nextIndex>>
    BY <1>2, <1>t DEF AddLoad, Goto, Return
  <2> QED BY <1>o, <2>1 DEF Others, Indexed
<1>3. ASSUME NEW p \in Callers, AddCheck(p)
      PROVE  Counted' /\ UNCHANGED cameras
  <2>1. CASE AddFails(p) /\ UNCHANGED nextIndex
    <3>1. Return(p) /\ UNCHANGED <<camera, nextIndex, cameras>>
      BY <1>3, <2>1 DEF AddCheck, AddFails
    <3> QED BY <1>r, <3>1
  <2>2. CASE /\ nextIndex < MaxIndex
             /\ job' = [job EXCEPT ![p].cam = nextIndex]
             /\ nextIndex' = nextIndex + 1
             /\ Goto(p, "add.rtsp")
    <3>1. /\ pc[p] = "add.check" /\ UNCHANGED <<cameras, camera>>
      BY <1>3 DEF AddCheck
    <3>2. /\ job'[p].cam = nextIndex
          /\ \A q \in Callers \ {p} : pc'[q] = pc[q] /\ job'[q] = job[q]
      BY <1>t, <2>2 DEF Goto, Job
    <3>3. UNCHANGED Handles /\ Handles \subseteq Nat
      BY <1>t, <3>1 DEF Handles
    <3>4. \A n \in Handles' : n < nextIndex'
      BY <1>t, <2>2, <3>3 DEF Counted
    <3>5. \A q \in Callers \ {p} : pc'[q] \notin Indexed
      BY <1>j, <3>1, <3>2 DEF Adding, Indexed
    <3>6. \A q \in Callers : pc'[q] \in Indexed =>
            job'[q].cam < nextIndex' /\ \A n \in Handles' : n < job'[q].cam
      BY <1>t, <2>2, <3>2, <3>3, <3>5 DEF Counted
    <3>7. \A i \in Ids : cameras'[i] # None => cameras'[i] \in Handles'
      BY <3>1, <3>3 DEF Counted
    <3> QED BY <3>1, <3>4, <3>6, <3>7 DEF Counted
  <2> QED BY <1>3, <2>1, <2>2 DEF AddCheck
<1>4. ASSUME NEW p \in Callers, AddRtsp(p)
      PROVE  Counted' /\ UNCHANGED cameras
  <2>1. UNCHANGED <<camera, nextIndex, cameras>> /\ pc[p] = "add.rtsp"
    BY <1>4 DEF AddRtsp
  <2>2. CASE AddFails(p)
    BY <1>r, <2>1, <2>2 DEF AddFails
  <2>3. CASE Goto(p, "add.onvif") /\ UNCHANGED job
    <3>1. Others(p)
      BY <1>t, <2>3 DEF Goto, Others
    <3> QED BY <1>o, <2>1, <2>3, <3>1 DEF Indexed
  <2> QED BY <1>4, <2>2, <2>3 DEF AddRtsp
<1>5. ASSUME NEW p \in Callers, AddOnvif(p)
      PROVE  /\ Counted'
             /\ \A id \in Ids : cameras'[id] \notin {cameras[id], None} =>
                  \A n \in Handles : n < cameras'[id]
  <2>0. /\ pc[p] = "add.onvif" /\ UNCHANGED nextIndex
        /\ job[p].id \in Ids /\ job[p].cam \in Index /\ job[p].media \in Media
        /\ job[p].cam < nextIndex /\ \A n \in Handles : n < job[p].cam
    BY <1>5, <1>j DEF AddOnvif, Adding, Indexed, Counted
  <2>1. CASE /\ cameras' = [cameras EXCEPT ![job[p].id] = job[p].cam]
             /\ camera' = [camera EXCEPT ![job[p].cam] = [id |-> job[p].id, media |-> job[p].media]]
             /\ Return(p)
    <3>1. [id |-> job[p].id, media |-> job[p].media] # None
      BY <2>0 DEF Camera
    <3>2. Handles' = Handles \cup {job[p].cam}
      BY <1>t, <2>0, <2>1, <3>1 DEF Handles
    <3>3. \A n \in Handles' : n < nextIndex'
      BY <2>0, <3>2 DEF Counted
    <3>4. \A q \in Callers : pc'[q] \notin Indexed
      BY <1>j, <2>0, <2>1, ReturnMoves DEF Others, Indexed, Adding
    <3>5. \A i \in Ids : cameras'[i] # None => cameras'[i] \in Handles'
      BY <1>t, <2>0, <2>1, <3>2 DEF Counted
    <3>6. Counted'
      BY <3>3, <3>4, <3>5 DEF Counted
    <3>7. \A i \in Ids : cameras'[i] \in {cameras[i], job[p].cam}
      BY <1>t, <2>0, <2>1
    <3> QED BY <2>0, <3>6, <3>7
  <2>2. CASE Goto(p, "add.undo") /\ UNCHANGED <<cameras, camera, job>>
    <3>1. Others(p)
      BY <1>t, <2>2 DEF Goto, Others
    <3> QED BY <1>o, <2>0, <2>2, <3>1 DEF Indexed
  <2> QED BY <1>5, <2>1, <2>2 DEF AddOnvif
<1>6. ASSUME NEW p \in Callers, AddUndo(p)
      PROVE  Counted' /\ UNCHANGED cameras
  BY <1>6, <1>r DEF AddUndo, AddFails
<1>7. ASSUME NEW p \in Callers, NEW id \in Ids, RemoveBegin(p, id)
      PROVE  Counted' /\ \A i \in Ids : cameras'[i] \in {cameras[i], None}
  <2>1. /\ pc' = [pc EXCEPT ![p] = "rm.publish"]
        /\ cameras' = [cameras EXCEPT ![id] = None]
        /\ UNCHANGED <<camera, nextIndex>>
        /\ \A q \in Callers \ {p} : job'[q] = job[q]
    BY <1>7, <1>t DEF RemoveBegin, Goto, serverVars
  <2> QED BY <1>o, <1>t, <2>1 DEF Others, Indexed
<1>8. ASSUME NEW p \in Callers, RemovePublish(p) \/ RemoveRtsp(p)
      PROVE  Counted' /\ UNCHANGED cameras
  <2>1. /\ pc'[p] \in {"rm.rtsp", "rm.onvif"}
        /\ \A q \in Callers \ {p} : pc'[q] = pc[q]
        /\ UNCHANGED <<cameras, camera, nextIndex, job>>
    BY <1>8, <1>t DEF RemovePublish, RemoveRtsp, Goto, fleetVars
  <2> QED BY <1>o, <2>1 DEF Others, Indexed
<1>9. ASSUME NEW p \in Callers, RemoveOnvif(p) \/ SwapApply(p)
      PROVE  Counted' /\ UNCHANGED cameras
  BY <1>r, <1>9 DEF RemoveOnvif, SwapApply, fleetVars
<1>10. ASSUME NEW p \in Callers, NEW n \in Index, NEW label \in Swapping, SwapBegin(p, n, label)
       PROVE  Counted' /\ UNCHANGED cameras
  <2>1. /\ pc' = [pc EXCEPT ![p] = label]
        /\ UNCHANGED <<cameras, camera, nextIndex>>
        /\ \A q \in Callers \ {p} : job'[q] = job[q]
    BY <1>10, <1>t DEF SwapBegin, Goto, fleetVars
  <2> QED BY <1>o, <1>t, <2>1 DEF Others, Indexed, Swapping
<1>11. ASSUME NEW p \in Callers, CloseBegin(p) \/ CloseRtsp(p)
       PROVE  Counted' /\ UNCHANGED cameras
  <2>1. /\ pc'[p] \in {"close.rtsp", "idle"}
        /\ \A q \in Callers \ {p} : pc'[q] = pc[q]
        /\ UNCHANGED <<cameras, camera, nextIndex, job>>
    BY <1>11, <1>t DEF CloseBegin, CloseRtsp, Goto, fleetVars
  <2> QED BY <1>o, <2>1 DEF Others, Indexed
<1>12. CASE UNCHANGED <<camera, cameras, nextIndex, pc, job>>
  BY <1>12 DEF Counted, Handles
<1>13. ASSUME NEW f \in Files, Overwrite(f)
       PROVE  Counted' /\ UNCHANGED cameras
  BY <1>12, <1>13 DEF Overwrite, fleetVars
<1>14. CASE UNCHANGED vars
  BY <1>12, <1>14 DEF vars, fleetVars
<1>15. Counted' /\ (\A i \in Ids : cameras'[i] \in {cameras[i], None}) =>
         /\ Counted'
         /\ \A id \in Ids : cameras'[id] \notin {cameras[id], None} =>
              \A n \in Handles : n < cameras'[id]
  OBVIOUS
<1> QED
  BY <1>1, <1>2, <1>3, <1>4, <1>5, <1>6, <1>7, <1>8, <1>9, <1>10, <1>11, <1>13, <1>14, <1>15
  DEF Next, Advance, Swapping

(* A new camera's index is above that of every camera there ever was, also *)
(* of those removed since (camfarm.go:415-416, 441-446).                   *)
THEOREM IndexesGrow == Spec => IndexNeverReused
<1>1. Init => Typed /\ RegInv /\ Counted
  BY TypedInit, RegInit, CountedInit
<1>2. Typed /\ RegInv /\ Counted /\ [Next]_vars => (Typed /\ RegInv /\ Counted)'
  BY TypedStep, RegStep, CountedStep
<1>3. Typed /\ RegInv /\ Counted /\ [Next]_vars =>
        [\A id \in Ids : cameras'[id] \notin {cameras[id], None} =>
           \A n \in Handles : n < cameras'[id]]_vars
  BY CountedStep
<1> QED BY <1>1, <1>2, <1>3, PTL DEF Spec, IndexNeverReused

(***************************************************************************)
(* The cache.                                                              *)
(***************************************************************************)
OfFile(S) == {m \in S : m.key.source \in Files}

(* The cache holds the media in use and, beyond them, of the files only    *)
(* what the AddCamera in progress has loaded; one parse of each key.       *)
Cached ==
  /\ InUse(cameras) \subseteq sources
  /\ \A m, n \in sources : m.key = n.key => m = n
  /\ mu = None => OfFile(sources) \subseteq InUse(cameras)
  /\ \A p \in Callers :
       /\ pc[p] = "add.load" => OfFile(sources) \subseteq InUse(cameras)
       /\ pc[p] \in Loaded =>
            /\ job[p].media \in sources
            /\ OfFile(sources) \subseteq InUse(cameras) \cup {job[p].media}

LEMMA CachedInit == Init => Cached
<1> USE FleetAssumption DEF FleetAssumption
<1>1. ASSUME Init PROVE InUse(cameras) = {} /\ OfFile(sources) = {}
  BY <1>1 DEF Init, InUse, OfFile
<1> QED BY <1>1 DEF Init, Cached, Loaded

(* What an eviction leaves: the media still used, and not the one that is  *)
(* no longer.                                                              *)
LEMMA EvictExactly ==
  ASSUME NEW m, NEW table, InUse(table) \subseteq sources,
         OfFile(sources) \subseteq InUse(table) \cup {m}
  PROVE  /\ InUse(table) \subseteq Evict(m, table)
         /\ OfFile(Evict(m, table)) \subseteq InUse(table)
<1> USE FleetAssumption DEF FleetAssumption, OfFile, Evict
<1>1. CASE m \in InUse(table)
  BY <1>1
<1>2. CASE m \notin InUse(table)
  BY <1>2
<1> QED BY <1>1, <1>2

(* A step that leaves the cache and its users alone, of a call that is not *)
(* adding a camera afterwards.                                             *)
LEMMA CachedElsewhere ==
  ASSUME Typed, Cached, NEW p \in Callers, Others(p), UNCHANGED <<mu, cameras, camera, sources>>,
         pc'[p] \notin Adding
  PROVE  Cached'
<1>1. UNCHANGED InUse(cameras)
  BY DEF InUse
<1> QED BY <1>1 DEF Cached, Others, Adding, Loaded, OfFile

(* Every step keeps the cache exact.                                       *)
LEMMA CachedStep == Typed /\ RegInv /\ Counted /\ Cached /\ [Next]_vars => Cached'
<1> SUFFICES ASSUME Typed, RegInv, Counted, Cached, [Next]_vars
             PROVE  Cached'
  OBVIOUS
<1> USE FleetAssumption DEF FleetAssumption
<1>t. /\ cameras \in [Ids -> OrNone(Index)] /\ camera \in [Index -> OrNone(Camera)]
      /\ pc \in [Callers -> State] /\ job \in [Callers -> Job]
      /\ sources \subseteq Media
      /\ None \notin Index /\ None \notin Callers
  BY DEF Typed, TypeOK, Index
<1>j. /\ \A p \in Callers : pc[p] \in Adding => job[p].id \in Ids /\ mu = p
      /\ \A p \in Callers : pc[p] \in Loaded => job[p].media \in Media
      /\ \A p \in Callers : pc[p] \in Indexed => job[p].cam \in Index
  BY DEF Typed, JobsKnown, RegInv, AddersLock
<1>f. ASSUME NEW p \in Callers, AddFails(p), pc[p] \in Loaded, UNCHANGED <<cameras, camera>>
      PROVE  Cached'
  <2>1. /\ sources' = Evict(job[p].media, cameras) /\ mu' = None
        /\ pc'[p] = "idle" /\ Others(p)
    BY <1>f, ReturnMoves DEF AddFails
  <2>2. UNCHANGED InUse(cameras)
    BY <1>f DEF InUse
  <2>3. /\ InUse(cameras)' \subseteq sources' /\ OfFile(sources') \subseteq InUse(cameras)'
        /\ sources' \subseteq sources
    BY <1>f, <2>1, <2>2, EvictExactly, EvictShrinks DEF Cached
  <2>4. \A q \in Callers : pc'[q] \notin Adding
    BY <1>f, <1>j, <2>1 DEF Others, Adding, Loaded
  <2> QED BY <2>3, <2>4 DEF Cached, Adding, Loaded, OfFile
<1>1. ASSUME NEW p \in Callers, NEW id \in Ids, NEW src \in Files \cup {Fixture},
             AddBegin(p, id, src)
      PROVE  Cached'
  <2>1. /\ mu = None /\ mu' = p /\ pc' = [pc EXCEPT ![p] = "add.load"]
        /\ UNCHANGED <<cameras, camera, sources>>
    BY <1>1 DEF AddBegin, Goto
  <2>2. UNCHANGED InUse(cameras)
    BY <2>1 DEF InUse
  <2>3. \A q \in Callers : pc'[q] \notin Loaded
    BY <1>j, <1>t, <2>1 DEF Loaded, Adding
  <2> QED BY <2>1, <2>2, <2>3, <1>t DEF Cached, OfFile
<1>2. ASSUME NEW p \in Callers, AddLoad(p)
      PROVE  Cached'
  <2> DEFINE key == job[p].key
             hit == {m \in sources : m.key = key}
             read == [key |-> key, content |-> written[key.source], parse |-> nextIndex]
  <2>0. /\ pc[p] = "add.load" /\ mu = p /\ UNCHANGED <<cameras, camera>>
        /\ OfFile(sources) \subseteq InUse(cameras)
        /\ \A q \in Callers \ {p} : pc[q] \notin Adding
    BY <1>2, <1>j DEF AddLoad, Adding, Cached
  <2>u. UNCHANGED InUse(cameras)
    BY <2>0 DEF InUse
  <2>1. ASSUME NEW m, m \in sources', sources' \in {sources, sources \cup {m}},
               m \notin sources => \A n \in sources : n.key # m.key,
               job' = [job EXCEPT ![p].media = m], Goto(p, "add.check"), UNCHANGED mu
        PROVE  Cached'
    <3>1. /\ pc'[p] = "add.check" /\ job'[p].media = m
          /\ \A q \in Callers \ {p} : pc'[q] \notin Adding
      BY <1>t, <2>0, <2>1 DEF Goto, Job
    <3>2. OfFile(sources') \subseteq InUse(cameras)' \cup {m}
      BY <2>0, <2>1, <2>u DEF OfFile
    <3>3. \A a, b \in sources' : a.key = b.key => a = b
      BY <2>1 DEF Cached
    <3>4. InUse(cameras)' \subseteq sources'
      BY <2>1, <2>u DEF Cached
    <3>5. mu' # None
      BY <2>0, <2>1
    <3> QED BY <2>1, <3>1, <3>2, <3>3, <3>4, <3>5 DEF Cached, Adding, Loaded, OfFile
  <2>2. CASE /\ hit # {}
             /\ job' = [job EXCEPT ![p].media = CHOOSE m \in hit : TRUE]
             /\ Goto(p, "add.check")
             /\ UNCHANGED <<mu, sources>>
    <3>1. (CHOOSE m \in hit : TRUE) \in sources
      BY <2>2
    <3> QED BY <2>1, <2>2, <3>1
  <2>3. CASE /\ hit = {}
             /\ job' = [job EXCEPT ![p].media = read]
             /\ sources' = sources \cup {read}
             /\ Goto(p, "add.check")
             /\ UNCHANGED mu
    <3>1. read.key = key
      OBVIOUS
    <3> QED BY <2>1, <2>3, <3>1
  <2>4. CASE mu' = None /\ Return(p) /\ UNCHANGED sources
    <3>1. \A q \in Callers : pc'[q] \notin Adding
      BY <2>0, <2>4, ReturnMoves DEF Others, Adding
    <3> QED BY <2>0, <2>u, <2>4, <3>1 DEF Cached, Adding, Loaded, OfFile
  <2> QED BY <1>2, <2>2, <2>3, <2>4 DEF AddLoad
<1>s. ASSUME NEW p \in Callers, pc[p] \in Loaded, pc'[p] \in Loaded, job'[p].media = job[p].media,
             Others(p), UNCHANGED <<mu, cameras, camera, sources>>
      PROVE  Cached'
  <2>1. UNCHANGED InUse(cameras)
    BY <1>s DEF InUse
  <2> QED BY <1>s, <2>1 DEF Cached, Others, Loaded, OfFile
<1>3. ASSUME NEW p \in Callers, AddCheck(p)
      PROVE  Cached'
  <2>1. CASE AddFails(p)
    BY <1>3, <1>f, <2>1 DEF AddCheck, Loaded
  <2>2. CASE ~AddFails(p)
    <3>1. /\ pc[p] = "add.check" /\ pc'[p] = "add.rtsp" /\ job'[p].media = job[p].media
          /\ Others(p) /\ UNCHANGED <<mu, cameras, camera, sources>>
      BY <1>3, <1>t, <2>2 DEF AddCheck, Goto, Job, Others
    <3> QED BY <1>s, <3>1 DEF Loaded
  <2> QED BY <2>1, <2>2
<1>4. ASSUME NEW p \in Callers, AddRtsp(p)
      PROVE  Cached'
  <2>1. CASE AddFails(p)
    BY <1>4, <1>f, <2>1 DEF AddRtsp, Loaded
  <2>2. CASE ~AddFails(p)
    <3>1. /\ pc[p] = "add.rtsp" /\ pc'[p] = "add.onvif" /\ UNCHANGED job
          /\ Others(p) /\ UNCHANGED <<mu, cameras, camera, sources>>
      BY <1>4, <1>t, <2>2 DEF AddRtsp, Goto, Others
    <3> QED BY <1>s, <3>1 DEF Loaded
  <2> QED BY <2>1, <2>2
<1>5. ASSUME NEW p \in Callers, AddOnvif(p)
      PROVE  Cached'
  <2>0. /\ pc[p] = "add.onvif" /\ UNCHANGED sources /\ mu = p
        /\ job[p].id \in Ids /\ job[p].cam \in Index /\ job[p].cam \notin Handles
        /\ cameras[job[p].id] = None
        /\ job[p].media \in sources
        /\ OfFile(sources) \subseteq InUse(cameras) \cup {job[p].media}
    <3>1. pc[p] = "add.onvif" /\ UNCHANGED sources
      BY <1>5 DEF AddOnvif
    <3>2. job[p].cam \notin Handles
      BY <3>1 DEF Counted, Indexed, Handles, Index
    <3> QED BY <1>j, <3>1, <3>2 DEF Adding, Indexed, Loaded, Cached, RegInv, AddersLock
  <2>1. CASE /\ cameras' = [cameras EXCEPT ![job[p].id] = job[p].cam]
             /\ camera' = [camera EXCEPT ![job[p].cam] = [id |-> job[p].id, media |-> job[p].media]]
             /\ mu' = None
             /\ Return(p)
    <3>1. \A i \in Ids \ {job[p].id} :
            /\ cameras'[i] = cameras[i]
            /\ cameras[i] # None => camera'[cameras[i]] = camera[cameras[i]]
      BY <1>t, <2>0, <2>1 DEF Counted
    <3>2. /\ cameras'[job[p].id] = job[p].cam /\ job[p].cam # None
          /\ camera'[job[p].cam].media = job[p].media
      BY <1>t, <2>0, <2>1
    <3>3. InUse(cameras)' = InUse(cameras) \cup {job[p].media}
      BY <1>t, <2>0, <3>1, <3>2 DEF InUse
    <3>4. \A q \in Callers : pc'[q] \notin Adding
      BY <1>j, <2>0, <2>1, ReturnMoves DEF Others, Adding
    <3> QED BY <2>0, <2>1, <3>3, <3>4 DEF Cached, Adding, Loaded, OfFile
  <2>2. CASE Goto(p, "add.undo") /\ UNCHANGED <<cameras, camera, mu, job>>
    <3>1. pc'[p] = "add.undo" /\ Others(p)
      BY <1>t, <2>2 DEF Goto, Others
    <3> QED BY <1>s, <2>0, <2>2, <3>1 DEF Loaded
  <2> QED BY <1>5, <2>1, <2>2 DEF AddOnvif
<1>6. ASSUME NEW p \in Callers, AddUndo(p)
      PROVE  Cached'
  BY <1>6, <1>f DEF AddUndo, Loaded
<1>7. ASSUME NEW p \in Callers, NEW id \in Ids, RemoveBegin(p, id)
      PROVE  Cached'
  <2> DEFINE table == [cameras EXCEPT ![id] = None]
             m == camera[cameras[id]].media
  <2>1. /\ mu = None /\ mu' = None /\ cameras[id] # None /\ cameras' = table
        /\ sources' = Evict(m, table) /\ UNCHANGED camera
        /\ pc' = [pc EXCEPT ![p] = "rm.publish"]
    BY <1>7 DEF RemoveBegin, Goto
  <2>2. InUse(table) \subseteq InUse(cameras) /\ InUse(cameras) \subseteq InUse(table) \cup {m}
    BY <1>t DEF InUse
  <2>3. InUse(cameras)' = InUse(table)
    BY <2>1 DEF InUse
  <2>4. InUse(table) \subseteq sources /\ OfFile(sources) \subseteq InUse(table) \cup {m}
    BY <2>1, <2>2 DEF Cached
  <2>5. InUse(table) \subseteq sources' /\ OfFile(sources') \subseteq InUse(table)
        /\ sources' \subseteq sources
    BY <2>1, <2>4, EvictExactly, EvictShrinks
  <2>6. \A q \in Callers : pc'[q] \notin Adding
    BY <1>j, <1>t, <2>1 DEF Adding
  <2>7. /\ InUse(cameras)' \subseteq sources' /\ OfFile(sources') \subseteq InUse(cameras)'
        /\ sources' \subseteq sources
    BY <2>3, <2>5
  <2> HIDE DEF table, m
  <2> QED BY <2>6, <2>7 DEF Cached, Adding, Loaded, OfFile
<1>8. ASSUME NEW p \in Callers, RemovePublish(p) \/ RemoveRtsp(p)
      PROVE  Cached'
  <2>1. /\ pc'[p] \in {"rm.rtsp", "rm.onvif"} /\ Others(p)
        /\ UNCHANGED <<mu, cameras, camera, sources>>
    BY <1>8, <1>t DEF RemovePublish, RemoveRtsp, Goto, fleetVars, Others
  <2> QED BY <2>1, CachedElsewhere DEF Adding
<1>9. ASSUME NEW p \in Callers, RemoveOnvif(p) \/ SwapApply(p)
      PROVE  Cached'
  <2>1. Return(p) /\ UNCHANGED <<mu, cameras, camera, sources>>
    BY <1>9 DEF RemoveOnvif, SwapApply, fleetVars
  <2> QED BY <2>1, CachedElsewhere, ReturnMoves DEF Adding
<1>10. ASSUME NEW p \in Callers, NEW n \in Index, NEW label \in Swapping, SwapBegin(p, n, label)
       PROVE  Cached'
  <2>1. /\ pc'[p] = label /\ Others(p) /\ UNCHANGED <<mu, cameras, camera, sources>>
    BY <1>10, <1>t DEF SwapBegin, Goto, fleetVars, Others
  <2> QED BY <2>1, CachedElsewhere DEF Adding, Swapping
<1>11. ASSUME NEW p \in Callers, CloseBegin(p) \/ CloseRtsp(p)
       PROVE  Cached'
  <2>1. /\ pc'[p] \in {"close.rtsp", "idle"} /\ Others(p)
        /\ UNCHANGED <<mu, cameras, camera, sources>>
    BY <1>11, <1>t DEF CloseBegin, CloseRtsp, Goto, fleetVars, Others
  <2> QED BY <2>1, CachedElsewhere DEF Adding
<1>12. ASSUME UNCHANGED <<mu, camera, cameras, sources, pc, job>>
       PROVE  Cached'
  <2>1. UNCHANGED InUse(cameras)
    BY <1>12 DEF InUse
  <2> QED BY <1>12, <2>1 DEF Cached, OfFile
<1>13. ASSUME NEW f \in Files, Overwrite(f)
       PROVE  Cached'
  BY <1>12, <1>13 DEF Overwrite, fleetVars
<1>14. CASE UNCHANGED vars
  BY <1>12, <1>14 DEF vars, fleetVars
<1> QED
  BY <1>1, <1>2, <1>3, <1>4, <1>5, <1>6, <1>7, <1>8, <1>9, <1>10, <1>11, <1>13, <1>14
  DEF Next, Advance, Swapping

(* With no AddCamera under way the cache of parsed sources holds the files *)
(* in use and no other, whatever failed or was overwritten meanwhile, and  *)
(* one parse of each unchanged file (sourceMedia and evictUnusedSource,    *)
(* camfarm.go:298-335).                                                    *)
THEOREM CacheIsExact == Spec => []SourcesExact
<1>1. Init => Typed /\ RegInv /\ Counted /\ Cached
  BY TypedInit, RegInit, CountedInit, CachedInit
<1>2. Typed /\ RegInv /\ Counted /\ Cached /\ [Next]_vars
        => (Typed /\ RegInv /\ Counted /\ Cached)'
  BY TypedStep, RegStep, CountedStep, CachedStep
<1>3. Cached => SourcesExact
  BY DEF Cached, SourcesExact, OfFile
<1> QED BY <1>1, <1>2, <1>3, PTL DEF Spec

(***************************************************************************)
(* The journal.                                                            *)
(***************************************************************************)
Types == {"added", "removed", "fault"}

(* The last coming or going of a sequence of entries is a coming.          *)
There(s) ==
  \E j \in DOMAIN s :
    /\ s[j] = "added"
    /\ \A k \in DOMAIN s : s[k] # "fault" => k <= j

Alternating(s) ==
  \A i \in DOMAIN s : s[i] # "fault" =>
    (s[i] = "removed" <=>
       \E j \in DOMAIN s :
         /\ s[j] = "added" /\ j < i
         /\ \A k \in DOMAIN s : s[k] # "fault" => k <= j \/ i <= k)

(* An entry that fits the last one keeps the entries alternating.          *)
LEMMA EntryFits ==
  ASSUME NEW s \in Seq(Types), NEW e \in Types, Alternating(s),
         e = "added" => ~There(s),
         e = "removed" => There(s)
  PROVE  /\ Alternating(Append(s, e))
         /\ There(Append(s, e)) <=> (e = "added" \/ (e = "fault" /\ There(s)))
<1> DEFINE t == Append(s, e)
           n == Len(s) + 1
<1>1. /\ n \in Nat /\ DOMAIN s = 1 .. n - 1 /\ DOMAIN t = 1 .. n /\ t[n] = e
      /\ \A i \in DOMAIN s : i \in DOMAIN t /\ t[i] = s[i] /\ i < n /\ i \in Nat
      /\ \A i \in DOMAIN t : i \in DOMAIN s \/ i = n
      /\ \A i \in DOMAIN t : i \in Nat /\ i <= n
      /\ n \in DOMAIN t /\ n \notin DOMAIN s
  OBVIOUS
<1> HIDE DEF t, n
<1>2. ASSUME NEW i \in DOMAIN t, t[i] # "fault"
      PROVE  t[i] = "removed" <=>
               \E j \in DOMAIN t :
                 /\ t[j] = "added" /\ j < i
                 /\ \A k \in DOMAIN t : t[k] # "fault" => k <= j \/ i <= k
  <2>1. CASE i \in DOMAIN s
    <3>1. s[i] = t[i] /\ s[i] # "fault"
      BY <1>1, <1>2, <2>1
    <3>2. ASSUME NEW j \in DOMAIN s
          PROVE  (\A k \in DOMAIN s : s[k] # "fault" => k <= j \/ i <= k)
                   <=> (\A k \in DOMAIN t : t[k] # "fault" => k <= j \/ i <= k)
      BY <1>1, <2>1
    <3>3. ASSUME NEW j \in DOMAIN t, j < i
          PROVE  j \in DOMAIN s /\ s[j] = t[j]
      BY <1>1, <2>1, <3>3
    <3> QED BY <1>1, <2>1, <3>1, <3>2, <3>3 DEF Alternating
  <2>2. CASE i = n
    <3>1. t[i] = e /\ e \in {"added", "removed"}
      BY <1>1, <1>2, <2>2 DEF Types
    <3>2. ASSUME NEW j \in DOMAIN s
          PROVE  (\A k \in DOMAIN s : s[k] # "fault" => k <= j)
                   <=> (\A k \in DOMAIN t : t[k] # "fault" => k <= j \/ i <= k)
      BY <1>1, <2>2
    <3>3. ASSUME NEW j \in DOMAIN t, j < i
          PROVE  j \in DOMAIN s /\ s[j] = t[j]
      BY <1>1, <2>2, <3>3
    <3>4. There(s) <=>
            \E j \in DOMAIN t :
              /\ t[j] = "added" /\ j < i
              /\ \A k \in DOMAIN t : t[k] # "fault" => k <= j \/ i <= k
      BY <1>1, <2>2, <3>2, <3>3 DEF There
    <3> QED BY <3>1, <3>4
  <2> QED BY <1>1, <2>1, <2>2
<1>3. Alternating(t)
  BY <1>2 DEF Alternating
<1>4. There(t) <=> (e = "added" \/ (e = "fault" /\ There(s)))
  <2>1. CASE e = "added"
    BY <1>1, <2>1 DEF There
  <2>2. CASE e = "removed"
    <3>1. ASSUME NEW j \in DOMAIN t, t[j] = "added" PROVE ~(n <= j)
      BY <1>1, <2>2, <3>1
    <3> QED BY <1>1, <2>2, <3>1 DEF There
  <2>3. CASE e = "fault"
    <3>1. ASSUME NEW j \in DOMAIN s
          PROVE  (\A k \in DOMAIN s : s[k] # "fault" => k <= j)
                   <=> (\A k \in DOMAIN t : t[k] # "fault" => k <= j)
      BY <1>1, <2>3
    <3> QED BY <1>1, <2>3, <3>1 DEF There
  <2> QED BY <2>1, <2>2, <2>3 DEF Types
<1> QED BY <1>3, <1>4 DEF t

(* A camera id is there, as its journal has it, while the fleet has it or  *)
(* its removal is on the way to the journal.                               *)
Journaled ==
  \A id \in Ids :
    /\ Alternating(journal[id])
    /\ There(journal[id]) <=>
         \/ cameras[id] # None
         \/ \E p \in Callers : pc[p] = "rm.publish" /\ job[p].id = id

LEMMA JournaledInit == Init => Journaled
  BY DEF Init, Journaled, Alternating, There

(* A step that journals nothing, of a call with no removal to journal.     *)
LEMMA JournaledElsewhere ==
  ASSUME Journaled, NEW p \in Callers, Others(p),
         pc[p] # "rm.publish", pc'[p] # "rm.publish",
         UNCHANGED <<cameras, journal>>
  PROVE  Journaled'
<1> QED BY DEF Journaled, Others

(* A step that journals an entry that fits.                                *)
LEMMA JournaledEntry ==
  ASSUME Typed, Journaled, NEW id \in Ids, NEW e \in Types, Record(id, e),
         e = "added" => ~There(journal[id]),
         e = "removed" => There(journal[id])
  PROVE  \A x \in Ids :
           /\ Alternating(journal'[x])
           /\ There(journal'[x]) <=>
                IF x = id THEN e = "added" \/ (e = "fault" /\ There(journal[x]))
                ELSE There(journal[x])
<1>1. /\ journal \in [Ids -> Seq(Types)]
      /\ journal' = [journal EXCEPT ![id] = Append(journal[id], e)]
  BY DEF Typed, TypeOK, Record, Types
<1>2. /\ journal'[id] = Append(journal[id], e) /\ journal[id] \in Seq(Types)
      /\ \A x \in Ids : x # id => journal'[x] = journal[x]
      /\ \A x \in Ids : Alternating(journal[x])
  BY <1>1 DEF Journaled
<1>3. /\ Alternating(journal'[id])
      /\ There(journal'[id]) <=> (e = "added" \/ (e = "fault" /\ There(journal[id])))
  BY <1>2, EntryFits
<1> QED BY <1>2, <1>3

(* Every step leaves the journal alternating.                              *)
LEMMA JournaledStep == Typed /\ RegInv /\ Journaled /\ [Next]_vars => Journaled'
<1> SUFFICES ASSUME Typed, RegInv, Journaled, [Next]_vars
             PROVE  Journaled'
  OBVIOUS
<1>t. /\ cameras \in [Ids -> OrNone(Index)]
      /\ rtsp \in [Ids -> OrNone(Index)] /\ onvif \in [Ids -> OrNone(Index)]
      /\ pc \in [Callers -> State] /\ job \in [Callers -> Job]
      /\ None \notin Index
      /\ {"added", "removed", "fault"} = Types
  BY FleetAssumption DEF FleetAssumption, Typed, TypeOK, Index, Types
<1>j. /\ \A p \in Callers : pc[p] \in Adding \cup Removing \cup Swapping => job[p].id \in Ids
      /\ \A p \in Callers : pc[p] \in Indexed => job[p].cam \in Index
  BY DEF Typed, JobsKnown
<1>r. ASSUME NEW p \in Callers, pc[p] # "rm.publish", Return(p), UNCHANGED <<cameras, journal>>
      PROVE  Journaled'
  <2>1. pc'[p] = "idle" /\ Others(p)
    BY <1>r, ReturnMoves
  <2> QED BY <1>r, <2>1, JournaledElsewhere
<1>g. ASSUME NEW p \in Callers, NEW label \in State \ {"rm.publish"}, pc[p] # "rm.publish",
             Goto(p, label), \A q \in Callers \ {p} : job'[q] = job[q],
             UNCHANGED <<cameras, journal>>
      PROVE  Journaled'
  <2>1. pc'[p] = label /\ Others(p)
    BY <1>g, GotoMoves DEF Others
  <2> QED BY <1>g, <2>1, JournaledElsewhere
<1>1. ASSUME NEW p \in Callers, NEW id \in Ids, NEW src \in Files \cup {Fixture},
             AddBegin(p, id, src)
      PROVE  Journaled'
  <2>1. \A q \in Callers \ {p} : job'[q] = job[q]
    BY <1>1, <1>t DEF AddBegin
  <2> QED BY <1>1, <2>1, <1>g DEF AddBegin, State
<1>2. ASSUME NEW p \in Callers, AddLoad(p)
      PROVE  Journaled'
  <2>1. \A q \in Callers \ {p} : job'[q] = job[q]
    BY <1>2, <1>t DEF AddLoad, Return
  <2>2. /\ pc[p] = "add.load" /\ UNCHANGED <<cameras, journal>>
        /\ Goto(p, "add.check") \/ Return(p)
    BY <1>2 DEF AddLoad
  <2> QED BY <2>1, <2>2, <1>g, <1>r DEF State
<1>3. ASSUME NEW p \in Callers, AddCheck(p)
      PROVE  Journaled'
  <2>1. \A q \in Callers \ {p} : job'[q] = job[q]
    BY <1>3, <1>t DEF AddCheck, AddFails, Return
  <2>2. /\ pc[p] = "add.check" /\ UNCHANGED <<cameras, journal>>
        /\ Goto(p, "add.rtsp") \/ Return(p)
    BY <1>3 DEF AddCheck, AddFails
  <2> QED BY <2>1, <2>2, <1>g, <1>r DEF State
<1>4. ASSUME NEW p \in Callers, AddRtsp(p)
      PROVE  Journaled'
  <2>1. \A q \in Callers \ {p} : job'[q] = job[q]
    BY <1>4, <1>t DEF AddRtsp, AddFails, Return
  <2>2. /\ pc[p] = "add.rtsp" /\ UNCHANGED <<cameras, journal>>
        /\ Goto(p, "add.onvif") \/ Return(p)
    BY <1>4 DEF AddRtsp, AddFails
  <2> QED BY <2>1, <2>2, <1>g, <1>r DEF State
<1>5. ASSUME NEW p \in Callers, AddOnvif(p)
      PROVE  Journaled'
  <2>0. pc[p] = "add.onvif" /\ job[p].id \in Ids /\ job[p].cam \in Index
    BY <1>5, <1>j DEF AddOnvif, Indexed, Adding
  <2>1. CASE /\ cameras' = [cameras EXCEPT ![job[p].id] = job[p].cam]
             /\ Record(job[p].id, "added")
             /\ Return(p)
    <3>1. /\ cameras[job[p].id] = None
          /\ \A q \in Callers : pc[q] = "rm.publish" => job[q].id # job[p].id
      BY <2>0 DEF RegInv, AddersLock, AddersServed, Adding, Undoable, Unserved
    <3>2. ~There(journal[job[p].id])
      BY <2>0, <3>1 DEF Journaled
    <3>3. \A x \in Ids :
            /\ Alternating(journal'[x])
            /\ There(journal'[x]) <=> (x = job[p].id \/ There(journal[x]))
      BY <2>0, <2>1, <3>2, JournaledEntry DEF Types
    <3>4. pc'[p] = "idle" /\ Others(p)
      BY <2>1, ReturnMoves
    <3>5. ASSUME NEW x \in Ids
          PROVE  /\ x = job[p].id => cameras'[x] # None
                 /\ x # job[p].id => cameras'[x] = cameras[x]
                 /\ (\E q \in Callers : pc'[q] = "rm.publish" /\ job'[q].id = x)
                      <=> (\E q \in Callers : pc[q] = "rm.publish" /\ job[q].id = x)
      BY <1>t, <2>0, <2>1, <3>4 DEF Others
    <3> QED BY <3>3, <3>5 DEF Journaled
  <2>2. CASE Goto(p, "add.undo") /\ UNCHANGED <<cameras, journal, job>>
    BY <2>0, <2>2, <1>g DEF State
  <2> QED BY <1>5, <2>1, <2>2 DEF AddOnvif
<1>6. ASSUME NEW p \in Callers, AddUndo(p)
      PROVE  Journaled'
  BY <1>6, <1>r DEF AddUndo, AddFails
<1>7. ASSUME NEW p \in Callers, NEW id \in Ids, RemoveBegin(p, id)
      PROVE  Journaled'
  <2>1. /\ pc[p] = "idle" /\ pc'[p] = "rm.publish" /\ job'[p].id = id /\ Others(p)
        /\ cameras[id] # None /\ cameras' = [cameras EXCEPT ![id] = None]
        /\ UNCHANGED journal
    BY <1>7, <1>t DEF RemoveBegin, Goto, Job, Others
  <2>2. ASSUME NEW x \in Ids
        PROVE  (\/ cameras'[x] # None
                \/ \E q \in Callers : pc'[q] = "rm.publish" /\ job'[q].id = x)
                 <=> (\/ cameras[x] # None
                      \/ \E q \in Callers : pc[q] = "rm.publish" /\ job[q].id = x)
    <3>1. CASE x = id
      BY <1>t, <2>1, <3>1
    <3>2. CASE x # id
      BY <1>t, <2>1, <3>2 DEF Others
    <3> QED BY <3>1, <3>2
  <2> QED BY <2>1, <2>2 DEF Journaled
<1>8. ASSUME NEW p \in Callers, RemovePublish(p)
      PROVE  Journaled'
  <2>1. /\ pc[p] = "rm.publish" /\ job[p].id \in Ids
        /\ Record(job[p].id, "removed")
        /\ pc'[p] = "rm.rtsp" /\ Others(p)
        /\ UNCHANGED <<cameras, job>>
    BY <1>8, <1>t, <1>j DEF RemovePublish, Goto, Others, Removing, fleetVars
  <2>2. /\ cameras[job[p].id] = None
        /\ \A q \in Callers \ {p} : pc[q] = "rm.publish" => job[q].id # job[p].id
    BY <2>1 DEF RegInv, RemoversOwn, Removing
  <2>3. There(journal[job[p].id])
    BY <2>1 DEF Journaled
  <2>4. \A x \in Ids :
          /\ Alternating(journal'[x])
          /\ There(journal'[x]) <=> (x # job[p].id /\ There(journal[x]))
    BY <2>1, <2>3, JournaledEntry DEF Types
  <2>5. ASSUME NEW x \in Ids
        PROVE  (\E q \in Callers : pc'[q] = "rm.publish" /\ job'[q].id = x)
                 <=> (x # job[p].id /\ \E q \in Callers : pc[q] = "rm.publish" /\ job[q].id = x)
    BY <2>1, <2>2 DEF Others
  <2> QED BY <2>1, <2>2, <2>4, <2>5 DEF Journaled
<1>9. ASSUME NEW p \in Callers, RemoveRtsp(p)
      PROVE  Journaled'
  BY <1>9, <1>g DEF RemoveRtsp, State, fleetVars
<1>10. ASSUME NEW p \in Callers, RemoveOnvif(p)
       PROVE  Journaled'
  BY <1>10, <1>r DEF RemoveOnvif, fleetVars
<1>11. ASSUME NEW p \in Callers, NEW n \in Index, NEW label \in Swapping, SwapBegin(p, n, label)
       PROVE  Journaled'
  <2>1. /\ \A q \in Callers \ {p} : job'[q] = job[q]
        /\ label \in State \ {"rm.publish"}
    BY <1>11, <1>t DEF SwapBegin, Swapping, State
  <2> QED BY <1>11, <2>1, <1>g DEF SwapBegin, fleetVars
<1>12. ASSUME NEW p \in Callers, SwapApply(p)
       PROVE  Journaled'
  <2>1. /\ pc[p] \in Swapping /\ job[p].id \in Ids /\ Return(p) /\ UNCHANGED cameras
        /\ Record(job[p].id, "fault") \/ UNCHANGED journal
    BY <1>12, <1>j DEF SwapApply, Swapping, fleetVars
  <2>2. CASE Record(job[p].id, "fault")
    <3>1. \A x \in Ids :
            /\ Alternating(journal'[x])
            /\ There(journal'[x]) <=> There(journal[x])
      BY <2>1, <2>2, JournaledEntry DEF Types
    <3>2. pc[p] # "rm.publish" /\ pc'[p] = "idle" /\ Others(p)
      BY <2>1, ReturnMoves DEF Swapping
    <3>3. ASSUME NEW x \in Ids
          PROVE  (\E q \in Callers : pc'[q] = "rm.publish" /\ job'[q].id = x)
                   <=> (\E q \in Callers : pc[q] = "rm.publish" /\ job[q].id = x)
      BY <3>2 DEF Others
    <3> QED BY <2>1, <3>1, <3>3 DEF Journaled
  <2>3. CASE UNCHANGED journal
    BY <2>1, <2>3, <1>r DEF Swapping
  <2> QED BY <2>1, <2>2, <2>3
<1>13. ASSUME NEW p \in Callers, CloseBegin(p)
       PROVE  Journaled'
  BY <1>13, <1>g DEF CloseBegin, State
<1>14. ASSUME NEW p \in Callers, CloseRtsp(p)
       PROVE  Journaled'
  BY <1>14, <1>g DEF CloseRtsp, State, fleetVars
<1>15. ASSUME NEW f \in Files, Overwrite(f)
       PROVE  Journaled'
  BY <1>15 DEF Overwrite, Journaled, fleetVars
<1>16. CASE UNCHANGED vars
  BY <1>16 DEF Journaled, vars, fleetVars
<1> QED
  BY <1>1, <1>2, <1>3, <1>4, <1>5, <1>6, <1>7, <1>8, <1>9, <1>10, <1>11, <1>12, <1>13,
     <1>14, <1>15, <1>16 DEF Next, Advance, Swapping

(* In the journal an id is added, removed, added, ... in turn, however the *)
(* calls of AddCamera and RemoveCamera interleave: a removal that is not   *)
(* journaled yet keeps the id in both servers, which refuse to add it      *)
(* (camfarm.go:488,515).                                                   *)
THEOREM ComingsAlternate == Spec => []JournalAlternates
<1>1. Journaled => JournalAlternates
  <2> SUFFICES ASSUME Journaled, NEW id \in Ids, NEW i \in Comings(id)
               PROVE  journal[id][i] = "removed" <=>
                        \E j \in Comings(id) :
                          /\ j < i /\ journal[id][j] = "added"
                          /\ \A k \in Comings(id) : k <= j \/ i <= k
    BY DEF JournalAlternates
  <2>1. /\ i \in DOMAIN journal[id] /\ journal[id][i] # "fault"
        /\ Alternating(journal[id])
    BY DEF Comings, Journaled
  <2> QED BY <2>1 DEF Alternating, Comings
<1> QED BY <1>1, TypedInit, TypedStep, RegInit, RegStep, JournaledInit, JournaledStep, PTL DEF Spec

(***************************************************************************)
(* The roster.                                                             *)
(***************************************************************************)

(* A removal past its locked part has its id to itself: the life of the id *)
(* is where that call is.                                                  *)
LEMMA RemoverKnows ==
  ASSUME Typed, RegInv, NEW p \in Callers, pc[p] \in Removing
  PROVE  /\ job[p].id \in Ids
         /\ Lives[job[p].id] = IF pc[p] = "rm.publish" THEN "leaving" ELSE "left"
         /\ \A q \in Callers \ {p} : pc[q] \in Removing => job[q].id # job[p].id
<1>1. /\ job[p].id \in Ids /\ cameras[job[p].id] = None
      /\ \A q \in Callers \ {p} : pc[q] \in Removing => job[q].id # job[p].id
  BY DEF Typed, JobsKnown, RegInv, RemoversOwn
<1> QED BY <1>1 DEF Lives, Leaving, Removing

(* A step of a call that removes nothing, and leaves the fleet's cameras.  *)
LEMMA LivesElsewhere ==
  ASSUME NEW p \in Callers, Others(p), pc[p] \notin Removing, pc'[p] \notin Removing,
         UNCHANGED cameras
  PROVE  UNCHANGED Lives
<1>1. ASSUME NEW id \in Ids, NEW labels \in SUBSET Removing
      PROVE  (\E q \in Callers : pc'[q] \in labels /\ job'[q].id = id)
               <=> (\E q \in Callers : pc[q] \in labels /\ job[q].id = id)
  BY DEF Others
<1>2. ASSUME NEW id \in Ids
      PROVE  /\ Leaving(id, {"rm.publish"})' <=> Leaving(id, {"rm.publish"})
             /\ Leaving(id, {"rm.rtsp", "rm.onvif"})' <=> Leaving(id, {"rm.rtsp", "rm.onvif"})
  BY <1>1 DEF Leaving, Removing
<1> QED BY <1>2 DEF Lives

(* A step that moves the life of one id.                                   *)
LEMMA LivesTurn ==
  ASSUME NEW id \in Ids, NEW from, NEW to, Lives[id] = from, Lives'[id] = to,
         \A x \in Ids \ {id} : Lives'[x] = Lives[x]
  PROVE  Ledger!Turn(id, from, to)
<1>1. Lives = [x \in Ids |-> Lives[x]] /\ Lives' = [x \in Ids |-> Lives'[x]]
  BY DEF Lives
<1> QED BY <1>1 DEF Ledger!Turn

LEMMA RosterInit == Init => Ledger!Init
<1> SUFFICES ASSUME Init PROVE Lives = [id \in Ids |-> "absent"] /\ journal = [id \in Ids |-> <<>>]
  BY DEF Ledger!Init
<1>1. \A id \in Ids : cameras[id] = None /\ ~Leaving(id, {"rm.publish"})
                      /\ ~Leaving(id, {"rm.rtsp", "rm.onvif"})
  BY DEF Init, Leaving
<1> QED BY <1>1 DEF Init, Lives

(* Every step of the fleet is one of the roster, or none.                  *)
LEMMA RosterStep ==
  Typed /\ RegInv /\ [Next]_vars => [Ledger!Next]_<<Lives, journal>>
<1> SUFFICES ASSUME Typed, RegInv, [Next]_vars
             PROVE  Ledger!Next \/ UNCHANGED <<Lives, journal>>
  OBVIOUS
<1> DEFINE Goal == Ledger!Next \/ UNCHANGED <<Lives, journal>>
<1>t. /\ cameras \in [Ids -> OrNone(Index)]
      /\ pc \in [Callers -> State] /\ job \in [Callers -> Job]
      /\ None \notin Index
  BY FleetAssumption DEF FleetAssumption, Typed, TypeOK, Index
<1>j. /\ \A p \in Callers : pc[p] \in Adding \cup Removing \cup Swapping => job[p].id \in Ids
      /\ \A p \in Callers : pc[p] \in Indexed => job[p].cam \in Index
  BY DEF Typed, JobsKnown
<1>r. ASSUME NEW p \in Callers, pc[p] \notin Removing, Return(p), UNCHANGED <<cameras, journal>>
      PROVE  Goal
  <2>1. pc'[p] \notin Removing /\ Others(p)
    BY <1>r, ReturnMoves DEF Removing
  <2> QED BY <1>r, <2>1, LivesElsewhere
<1>g. ASSUME NEW p \in Callers, NEW label \in State \ Removing, pc[p] \notin Removing,
             Goto(p, label), \A q \in Callers \ {p} : job'[q] = job[q],
             UNCHANGED <<cameras, journal>>
      PROVE  Goal
  <2>1. pc'[p] = label /\ Others(p)
    BY <1>g, GotoMoves DEF Others
  <2> QED BY <1>g, <2>1, LivesElsewhere
<1>1. ASSUME NEW p \in Callers, NEW id \in Ids, NEW src \in Files \cup {Fixture},
             AddBegin(p, id, src)
      PROVE  Goal
  <2>1. \A q \in Callers \ {p} : job'[q] = job[q]
    BY <1>1, <1>t DEF AddBegin
  <2> QED BY <1>1, <2>1, <1>g DEF AddBegin, State, Removing
<1>2. ASSUME NEW p \in Callers, AddLoad(p) \/ AddCheck(p) \/ AddRtsp(p)
      PROVE  Goal
  <2>1. \A q \in Callers \ {p} : job'[q] = job[q]
    BY <1>2, <1>t DEF AddLoad, AddCheck, AddRtsp, AddFails, Return
  <2>2. /\ pc[p] \in {"add.load", "add.check", "add.rtsp"} /\ UNCHANGED <<cameras, journal>>
        /\ \/ \E label \in {"add.check", "add.rtsp", "add.onvif"} : Goto(p, label)
           \/ Return(p)
    BY <1>2 DEF AddLoad, AddCheck, AddRtsp, AddFails
  <2> QED BY <2>1, <2>2, <1>g, <1>r DEF State, Removing
<1>3. ASSUME NEW p \in Callers, AddOnvif(p)
      PROVE  Goal
  <2>0. pc[p] = "add.onvif" /\ job[p].id \in Ids /\ job[p].cam \in Index
    BY <1>3, <1>j DEF AddOnvif, Indexed, Adding
  <2>1. CASE /\ onvif[job[p].id] = None
             /\ cameras' = [cameras EXCEPT ![job[p].id] = job[p].cam]
             /\ Record(job[p].id, "added")
             /\ Return(p)
    <3>1. /\ cameras[job[p].id] = None
          /\ \A q \in Callers : pc[q] \in Removing => job[q].id # job[p].id
      BY <2>0, <2>1 DEF RegInv, AddersLock, RemoversOwn, Adding
    <3>2. Lives[job[p].id] = "absent"
      BY <2>0, <3>1 DEF Lives, Leaving, Removing
    <3>3. pc'[p] = "idle" /\ Others(p)
      BY <2>1, ReturnMoves
    <3>4. Lives'[job[p].id] = "present"
      BY <1>t, <2>0, <2>1 DEF Lives
    <3>5. ASSUME NEW x \in Ids \ {job[p].id}
          PROVE  Lives'[x] = Lives[x]
      <4>1. cameras'[x] = cameras[x]
        BY <2>1, <1>t
      <4>2. ASSUME NEW labels \in SUBSET Removing
            PROVE  (\E q \in Callers : pc'[q] \in labels /\ job'[q].id = x)
                     <=> (\E q \in Callers : pc[q] \in labels /\ job[q].id = x)
        BY <2>0, <3>3 DEF Others, Removing
      <4>3. /\ {"rm.publish"} \in SUBSET Removing
            /\ {"rm.rtsp", "rm.onvif"} \in SUBSET Removing
        BY DEF Removing
      <4> QED BY <4>1, <4>2, <4>3 DEF Lives, Leaving
    <3>6. Ledger!Come(job[p].id)
      BY <2>0, <2>1, <3>2, <3>4, <3>5, LivesTurn DEF Ledger!Come, Ledger!Tell, Record
    <3> QED BY <2>0, <3>6 DEF Ledger!Next
  <2>2. CASE Goto(p, "add.undo") /\ UNCHANGED <<cameras, journal, job>>
    BY <2>0, <2>2, <1>g DEF State, Removing
  <2> QED BY <1>3, <2>1, <2>2 DEF AddOnvif
<1>4. ASSUME NEW p \in Callers, AddUndo(p)
      PROVE  Goal
  BY <1>4, <1>r DEF AddUndo, AddFails, Removing
<1>5. ASSUME NEW p \in Callers, NEW id \in Ids, RemoveBegin(p, id)
      PROVE  Goal
  <2>1. /\ pc[p] = "idle" /\ pc'[p] = "rm.publish" /\ job'[p].id = id /\ Others(p)
        /\ cameras[id] # None /\ cameras' = [cameras EXCEPT ![id] = None]
        /\ UNCHANGED journal
    BY <1>5, <1>t DEF RemoveBegin, Goto, Job, Others
  <2>2. Lives[id] = "present" /\ Lives'[id] = "leaving"
    <3>1. cameras'[id] = None /\ \E q \in Callers : pc'[q] = "rm.publish" /\ job'[q].id = id
      BY <1>t, <2>1
    <3> QED BY <2>1, <3>1 DEF Lives, Leaving
  <2>3. ASSUME NEW x \in Ids \ {id}
        PROVE  Lives'[x] = Lives[x]
    <3>1. cameras'[x] = cameras[x]
      BY <2>1, <1>t
    <3>2. ASSUME NEW labels
          PROVE  (\E q \in Callers : pc'[q] \in labels \cap Removing /\ job'[q].id = x)
                   <=> (\E q \in Callers : pc[q] \in labels \cap Removing /\ job[q].id = x)
      BY <2>1 DEF Others, Removing
    <3>3. /\ {"rm.publish"} \cap Removing = {"rm.publish"}
          /\ {"rm.rtsp", "rm.onvif"} \cap Removing = {"rm.rtsp", "rm.onvif"}
      BY DEF Removing
    <3>4. Leaving(x, {"rm.publish"})' <=> Leaving(x, {"rm.publish"})
      BY <3>2, <3>3 DEF Leaving
    <3>5. Leaving(x, {"rm.rtsp", "rm.onvif"})' <=> Leaving(x, {"rm.rtsp", "rm.onvif"})
      BY <3>2, <3>3 DEF Leaving
    <3> QED BY <3>1, <3>4, <3>5 DEF Lives
  <2>4. Ledger!Go(id)
    BY <2>1, <2>2, <2>3, LivesTurn DEF Ledger!Go
  <2> QED BY <2>4 DEF Ledger!Next
<1>6. ASSUME NEW p \in Callers, RemovePublish(p)
      PROVE  Goal
  <2>1. /\ pc[p] = "rm.publish" /\ pc'[p] = "rm.rtsp" /\ Others(p)
        /\ Record(job[p].id, "removed")
        /\ UNCHANGED <<cameras, job>>
    BY <1>6, <1>t DEF RemovePublish, Goto, Others, fleetVars
  <2>2. /\ job[p].id \in Ids /\ cameras[job[p].id] = None
        /\ Lives[job[p].id] = "leaving"
        /\ \A q \in Callers \ {p} : pc[q] \in Removing => job[q].id # job[p].id
    BY <2>1, RemoverKnows DEF Removing, RegInv, RemoversOwn
  <2>3. Lives'[job[p].id] = "left"
    BY <2>1, <2>2 DEF Lives, Leaving, Others, Removing
  <2>4. ASSUME NEW x \in Ids \ {job[p].id}
        PROVE  Lives'[x] = Lives[x]
    BY <2>1 DEF Lives, Leaving, Others
  <2>5. Ledger!Announce(job[p].id)
    BY <2>1, <2>2, <2>3, <2>4, LivesTurn DEF Ledger!Announce, Ledger!Tell, Record
  <2> QED BY <2>2, <2>5 DEF Ledger!Next
<1>7. ASSUME NEW p \in Callers, RemoveRtsp(p)
      PROVE  Goal
  <2>1. /\ pc[p] = "rm.rtsp" /\ pc'[p] = "rm.onvif" /\ Others(p)
        /\ UNCHANGED <<cameras, job, journal>>
    BY <1>7, <1>t DEF RemoveRtsp, Goto, Others, fleetVars
  <2>2. ASSUME NEW x \in Ids
        PROVE  Lives'[x] = Lives[x]
    <3>1. Leaving(x, {"rm.publish"})' <=> Leaving(x, {"rm.publish"})
      BY <2>1 DEF Leaving, Others
    <3>2. Leaving(x, {"rm.rtsp", "rm.onvif"})' <=> Leaving(x, {"rm.rtsp", "rm.onvif"})
      BY <2>1 DEF Leaving, Others
    <3> QED BY <2>1, <3>1, <3>2 DEF Lives
  <2> QED BY <2>1, <2>2 DEF Lives
<1>8. ASSUME NEW p \in Callers, RemoveOnvif(p)
      PROVE  Goal
  <2>1. /\ pc[p] = "rm.onvif" /\ pc'[p] = "idle" /\ Others(p)
        /\ UNCHANGED <<cameras, journal>>
    BY <1>8, ReturnMoves DEF RemoveOnvif, fleetVars
  <2>2. /\ job[p].id \in Ids /\ cameras[job[p].id] = None
        /\ Lives[job[p].id] = "left"
        /\ \A q \in Callers \ {p} : pc[q] \in Removing => job[q].id # job[p].id
    BY <2>1, RemoverKnows DEF Removing, RegInv, RemoversOwn
  <2>3. Lives'[job[p].id] = "absent"
    BY <2>1, <2>2 DEF Lives, Leaving, Others, Removing
  <2>4. ASSUME NEW x \in Ids \ {job[p].id}
        PROVE  Lives'[x] = Lives[x]
    BY <2>1 DEF Lives, Leaving, Others
  <2>5. Ledger!Free(job[p].id)
    BY <2>1, <2>2, <2>3, <2>4, LivesTurn DEF Ledger!Free
  <2> QED BY <2>2, <2>5 DEF Ledger!Next
<1>9. ASSUME NEW p \in Callers, NEW n \in Index, NEW label \in Swapping, SwapBegin(p, n, label)
      PROVE  Goal
  <2>1. /\ \A q \in Callers \ {p} : job'[q] = job[q]
        /\ label \in State \ Removing
    BY <1>9, <1>t DEF SwapBegin, Swapping, State, Removing
  <2> QED BY <1>9, <2>1, <1>g DEF SwapBegin, fleetVars, Removing
<1>10. ASSUME NEW p \in Callers, SwapApply(p)
       PROVE  Goal
  <2>1. /\ pc[p] \in Swapping /\ job[p].id \in Ids /\ Return(p) /\ UNCHANGED cameras
        /\ Record(job[p].id, "fault") \/ UNCHANGED journal
    BY <1>10, <1>j DEF SwapApply, Swapping, fleetVars
  <2>2. UNCHANGED Lives
    <3>1. pc[p] \notin Removing /\ pc'[p] \notin Removing /\ Others(p)
      BY <2>1, ReturnMoves DEF Swapping, Removing
    <3> QED BY <2>1, <3>1, LivesElsewhere
  <2>3. CASE Record(job[p].id, "fault")
    <3>1. Ledger!Fault(job[p].id)
      BY <2>2, <2>3 DEF Ledger!Fault, Ledger!Tell, Record
    <3> QED BY <2>1, <3>1 DEF Ledger!Next
  <2> QED BY <2>1, <2>2, <2>3
<1>11. ASSUME NEW p \in Callers, CloseBegin(p)
       PROVE  Goal
  BY <1>11, <1>g DEF CloseBegin, State, Removing
<1>12. ASSUME NEW p \in Callers, CloseRtsp(p)
       PROVE  Goal
  BY <1>12, <1>g DEF CloseRtsp, State, Removing, fleetVars
<1>13. CASE UNCHANGED vars \/ \E f \in Files : Overwrite(f)
  BY <1>13 DEF Overwrite, Lives, Leaving, vars, fleetVars
<1>14. ASSUME NEW p \in Callers, Advance(p)
       PROVE  Goal
  BY <1>14, <1>2, <1>3, <1>4, <1>6, <1>7, <1>8, <1>10, <1>12 DEF Advance
<1> QED BY <1>1, <1>5, <1>9, <1>11, <1>13, <1>14 DEF Next, Swapping

(* The fleet implements the roster: however the unlocked parts of calls    *)
(* interleave, what they do to an id comes down to single steps that       *)
(* follow one another in order (AddCamera and RemoveCamera).               *)
THEOREM FleetRefinesRoster == Spec => FleetImplementsRoster
<1> QED
  BY TypedInit, TypedStep, RegInit, RegStep, RosterInit, RosterStep, PTL
     DEF Spec, FleetImplementsRoster, Ledger!Spec, Ledger!rosterVars
=============================================================================
