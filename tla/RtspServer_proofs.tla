------------------------- MODULE RtspServer_proofs -------------------------
(***************************************************************************)
(* Sessions are armed by the fault their camera has now, and pumps have    *)
(* open streams, for every number of sessions, cameras and requests.       *)
(***************************************************************************)
EXTENDS RtspServer, TLAPS

(* A camera is added with a number of its own, above those before it.      *)
LEMMA NewCameraTyped ==
  ASSUME TypeOK, NEW x \in OrNone(Specs), added < MaxCams, NewCamera(added + 1, x)
  PROVE  /\ added' \in 0 .. MaxCams /\ cur' \in OrNone(1 .. added')
         /\ stream' \in [Cams -> {"none", "open", "closed"}]
         /\ pump' \in [Cams -> {"none", "running", "told", "done"}]
         /\ engine' \in [Cams -> OrNone(Specs)]
         /\ added' = added + 1 /\ added \in Nat
  BY RtspAssumption DEF TypeOK, NewCamera, OrNone, Cams

(* What names a camera goes on naming one when another is added.           *)
LEMMA NamesStay ==
  ASSUME TypeOK, added' = added + 1,
         UNCHANGED <<removal, sessionVars, armed, due, setting, sets>>
  PROVE  /\ request' \in [Sessions -> OrNone(Asked')]
         /\ armed' \in [Sessions -> OrNone(Arming')]
         /\ due' \in [Cams -> SUBSET [session : Sessions, cam : 1 .. added', spec : Specs]]
         /\ setting' \in OrNone([cam : 1 .. added', spec : OrNone(Specs)])
<1>0. added \in Nat /\ 1 .. added \subseteq 1 .. added'
  BY RtspAssumption DEF TypeOK
<1>1. Asked \subseteq Asked' BY <1>0 DEF Asked
<1>2. Arming \subseteq Arming' BY <1>0 DEF Arming
<1>3. request' \in [Sessions -> OrNone(Asked')]
  BY <1>1 DEF TypeOK, OrNone, sessionVars
<1>4. armed' \in [Sessions -> OrNone(Arming')]
  BY <1>2 DEF TypeOK, OrNone
<1>5. [session : Sessions, cam : 1 .. added, spec : Specs] \subseteq
        [session : Sessions, cam : 1 .. added', spec : Specs]
  BY <1>0
<1>6. due' \in [Cams -> SUBSET [session : Sessions, cam : 1 .. added', spec : Specs]]
  BY <1>5 DEF TypeOK
<1>7. [cam : 1 .. added, spec : OrNone(Specs)] \subseteq [cam : 1 .. added', spec : OrNone(Specs)]
  BY <1>0
<1>8. setting' \in OrNone([cam : 1 .. added', spec : OrNone(Specs)])
  BY <1>7 DEF TypeOK, OrNone
<1> QED BY <1>3, <1>4, <1>6, <1>8

(* No camera is added before Start, a camera on the path was added, and    *)
(* pumps have ended once Close has waited for them.                        *)
Stages ==
  /\ server = "new" => added = 0 /\ cur = None
  /\ server \in {"streams", "sessions", "down"} =>
       \A n \in Cams : pump[n] \in {"none", "done"}

Inv == TypeOK /\ Stages /\ NoWriteToClosedStream /\ ArmingSound

LEMMA Starts == Init => Inv
<1> SUFFICES ASSUME Init PROVE Inv OBVIOUS
<1>1. TypeOK BY RtspAssumption DEF Init, TypeOK, OrNone
<1>2. Stages BY DEF Init, Stages
<1>3. NoWriteToClosedStream BY DEF Init, NoWriteToClosedStream
<1>4. ArmingSound BY DEF Init, ArmingSound
<1> QED BY <1>1, <1>2, <1>3, <1>4 DEF Inv

(***************************************************************************)
(* The actions, by what they touch.                                        *)
(***************************************************************************)
LEMMA Adds ==
  ASSUME Inv, NEW x \in OrNone(Specs), Start(x) \/ AddCamera(x)
  PROVE  Inv'
<1>0. TypeOK BY DEF Inv
<1>1. CASE NewCamera(added + 1, x) /\ added < MaxCams /\ server' = "up"
  <2>0. UNCHANGED <<removal, sessionVars, armed, due, setting, sets>>
    BY DEF Start, AddCamera
  <2>1. /\ added' \in 0 .. MaxCams /\ cur' \in OrNone(1 .. added')
        /\ stream' \in [Cams -> {"none", "open", "closed"}]
        /\ pump' \in [Cams -> {"none", "running", "told", "done"}]
        /\ engine' \in [Cams -> OrNone(Specs)]
        /\ added' = added + 1 /\ added \in Nat
    BY <1>0, <1>1, NewCameraTyped
  <2>2. /\ request' \in [Sessions -> OrNone(Asked')]
        /\ armed' \in [Sessions -> OrNone(Arming')]
        /\ due' \in [Cams -> SUBSET [session : Sessions, cam : 1 .. added', spec : Specs]]
        /\ setting' \in OrNone([cam : 1 .. added', spec : OrNone(Specs)])
    BY <1>0, <2>0, <2>1, NamesStay
  <2>3. TypeOK' BY <1>0, <1>1, <2>0, <2>1, <2>2 DEF TypeOK, sessionVars
  <2>4. Stages' BY <1>1 DEF Stages
  <2>5. NoWriteToClosedStream'
    BY <1>0, <1>1 DEF Inv, NoWriteToClosedStream, NewCamera, TypeOK
  <2>6. ArmingSound'
    <3> USE DEF ArmingSound
    <3> TAKE s \in Sessions
    <3>1. ASSUME armed'[s] # None PROVE armed'[s].spec = engine'[armed'[s].cam]
      <4>1. armed[s] \in Arming /\ armed'[s] = armed[s]
        BY <1>0, <2>0, <3>1 DEF TypeOK, OrNone
      <4>2. armed[s].cam \in 1 .. added BY <4>1 DEF Arming
      <4>3. engine'[armed[s].cam] = engine[armed[s].cam]
        BY <1>0, <1>1, <2>1, <4>2 DEF NewCamera, TypeOK, Cams
      <4> QED BY <3>1, <4>1, <4>3 DEF Inv, ArmingSound
    <3> QED BY <3>1, <2>0 DEF Inv, ArmingSound, sessionVars
  <2> QED BY <2>3, <2>4, <2>5, <2>6 DEF Inv
<1>2. CASE Start(x) /\ UNCHANGED <<cur, added, stream, pump, engine>>
  <2>0. UNCHANGED <<cur, added, stream, pump, engine, removal, sessionVars, armed, due, setting, sets>>
        /\ server' = "up"
    BY <1>2 DEF Start
  <2>1. TypeOK' BY <1>0, <2>0 DEF TypeOK, sessionVars, Asked, Arming
  <2> QED BY <2>0, <2>1 DEF Inv, Stages, NoWriteToClosedStream, ArmingSound, sessionVars
<1>3. ASSUME Start(x), NewCamera(1, x)
      PROVE NewCamera(added + 1, x) /\ added < MaxCams /\ server' = "up"
  <2>1. added = 0 BY <1>3 DEF Start, Inv, Stages
  <2> QED BY <1>3, <2>1, RtspAssumption DEF Start
<1>4. ASSUME AddCamera(x)
      PROVE NewCamera(added + 1, x) /\ added < MaxCams /\ server' = "up"
  BY <1>4 DEF AddCamera
<1> QED BY <1>1, <1>2, <1>3, <1>4 DEF Start

PumpsOnlyEnd ==
  /\ pump' \in [Cams -> {"none", "running", "told", "done"}]
  /\ \A n \in Cams : /\ pump'[n] \in {"running", "told"} => pump[n] \in {"running", "told"}
                     /\ pump[n] \in {"none", "done"} => pump'[n] = pump[n]

(* Actions that leave engines, armings and cameras added alone, and end no *)
(* session's request or membership in a way that matters.                  *)
LEMMA Pumps ==
  ASSUME Inv,
         \/ RemoveCamera \/ CloseBegin \/ Closing
         \/ \E n \in Cams : RemoveStream(n) \/ PumpExit(n)
  PROVE  Inv'
<1>0. TypeOK /\ Stages BY DEF Inv
<1>1. UNCHANGED <<added, engine, request, readers, plays, armed, due, setting, sets>>
  BY DEF RemoveCamera, CloseBegin, Closing, ClosePumps, CloseStreams, CloseDone, RemoveStream,
         PumpExit, cameraVars, sessionVars
<1>2. /\ sess' \in [Sessions -> {"new", "open", "ending", "leaving", "closed"}]
      /\ \A s \in Sessions : sess'[s] \in {"leaving", "closed"} => sess'[s] = sess[s]
  BY <1>0 DEF TypeOK, RemoveCamera, CloseBegin, Closing, ClosePumps, CloseStreams, CloseDone,
         RemoveStream, PumpExit, cameraVars, sessionVars
<1>3. ArmingSound' BY <1>1, <1>2 DEF Inv, ArmingSound
<1>4. PumpsOnlyEnd
  <2>1. CASE RemoveCamera BY <1>0, <2>1 DEF RemoveCamera, Tell, TypeOK, PumpsOnlyEnd
  <2>2. CASE CloseBegin BY <1>0, <2>2 DEF CloseBegin, Tell, TypeOK, PumpsOnlyEnd
  <2>3. CASE Closing
    BY <1>0, <2>3 DEF Closing, ClosePumps, CloseStreams, CloseDone, TypeOK, cameraVars, PumpsOnlyEnd
  <2>4. ASSUME NEW n \in Cams, RemoveStream(n) \/ PumpExit(n)
        PROVE  PumpsOnlyEnd
    BY <1>0, <2>4 DEF RemoveStream, PumpExit, TypeOK, PumpsOnlyEnd
  <2> QED BY <2>1, <2>2, <2>3, <2>4
<1>5. NoWriteToClosedStream'
  <2>1. CASE CloseStreams
    <3>1. \A n \in Cams : pump'[n] \in {"none", "done"}
      BY <1>0, <2>1 DEF CloseStreams, Stages
    <3> QED BY <3>1 DEF NoWriteToClosedStream
  <2>2. ASSUME NEW n \in Cams, RemoveStream(n) PROVE NoWriteToClosedStream'
    BY <1>0, <2>2 DEF RemoveStream, Inv, NoWriteToClosedStream, TypeOK
  <2>3. CASE UNCHANGED stream
    BY <2>3, <1>4 DEF Inv, NoWriteToClosedStream, PumpsOnlyEnd
  <2> QED BY <2>1, <2>2, <2>3
       DEF RemoveCamera, CloseBegin, Closing, ClosePumps, CloseDone, PumpExit, cameraVars
<1>6. TypeOK'
  <2>1. /\ server' \in {"new", "up", "pumps", "streams", "sessions", "down"}
        /\ cur' \in OrNone(1 .. added)
        /\ stream' \in [Cams -> {"none", "open", "closed"}]
        /\ removal' \in [Cams -> {"no", "stopping", "disarming", "done"}]
    BY <1>0 DEF TypeOK, OrNone, RemoveCamera, CloseBegin, Closing, ClosePumps, CloseStreams,
         CloseDone, RemoveStream, PumpExit, cameraVars
  <2> QED BY <1>0, <1>1, <1>2, <1>4, <2>1 DEF TypeOK, Asked, Arming, PumpsOnlyEnd
<1>7. Stages'
  <2>1. CASE ClosePumps BY <2>1, <1>0 DEF ClosePumps, Stages, cameraVars
  <2>2. CASE ~ClosePumps
    <3>1. server' \in {"streams", "sessions", "down"} => server \in {"streams", "sessions", "down"}
      BY <2>2 DEF RemoveCamera, CloseBegin, Closing, CloseStreams, CloseDone, RemoveStream, PumpExit
    <3>2. server' # "new" \/ (server = "new" /\ cur' = cur)
      BY <2>2 DEF RemoveCamera, CloseBegin, Closing, CloseStreams, CloseDone, RemoveStream, PumpExit
    <3> QED BY <3>1, <3>2, <1>0, <1>1, <1>4 DEF Stages, PumpsOnlyEnd
  <2> QED BY <2>1, <2>2
<1> QED BY <1>3, <1>5, <1>6, <1>7 DEF Inv

(* Nothing but the sessions, their requests and armings, and SetFaults.    *)
PathStays == UNCHANGED <<server, cur, added, stream, pump>>

LEMMA PathKept ==
  ASSUME Inv, PathStays
  PROVE  Stages' /\ NoWriteToClosedStream'
  BY DEF Inv, PathStays, Stages, NoWriteToClosedStream

(* The frames of a pump, counted against the armed sessions, and the       *)
(* sessions they end.                                                      *)
LEMMA Frames ==
  ASSUME Inv, NEW n \in Cams, Frame(n) \/ TearDown(n)
  PROVE  Inv'
<1>0. TypeOK /\ PathStays BY DEF Inv, Frame, TearDown, PathStays, cameraVars
<1>1. CASE Frame(n)
  <2> DEFINE ripe == {s \in Sessions : armed[s] # None /\ armed[s].left <= 1}
             stay(s) == [armed[s] EXCEPT !.left = @ - 1]
  <2>0. /\ due' = [due EXCEPT ![n] = {[session |-> s, cam |-> armed[s].cam,
                                       spec |-> armed[s].spec] : s \in ripe}]
        /\ armed' = [s \in Sessions |-> IF armed[s] = None \/ s \in ripe THEN None ELSE stay(s)]
        /\ UNCHANGED <<server, cur, cameraVars, sessionVars, setting, sets>>
    BY <1>1 DEF Frame
  <2>1. \A s \in Sessions : armed[s] # None => armed[s] \in Arming
    BY <1>0 DEF TypeOK, OrNone
  <2>2. \A s \in Sessions : armed[s] # None /\ s \notin ripe =>
          stay(s) \in Arming /\ stay(s).cam = armed[s].cam /\ stay(s).spec = armed[s].spec
    BY <2>1 DEF Arming
  <2>3. armed' \in [Sessions -> OrNone(Arming)]
    <3> HIDE DEF ripe, stay
    <3> QED BY <2>0, <2>2 DEF OrNone
  <2>4. {[session |-> s, cam |-> armed[s].cam, spec |-> armed[s].spec] : s \in ripe} \subseteq
          [session : Sessions, cam : 1 .. added, spec : Specs]
    BY <2>1 DEF Arming
  <2>5. due' \in [Cams -> SUBSET [session : Sessions, cam : 1 .. added, spec : Specs]]
    <3> HIDE DEF ripe
    <3> QED BY <1>0, <2>0, <2>4 DEF TypeOK
  <2>6. TypeOK' BY <1>0, <2>0, <2>3, <2>5 DEF TypeOK, cameraVars, sessionVars, Asked, Arming
  <2>7. ArmingSound'
    <3> USE DEF ArmingSound
    <3> TAKE s \in Sessions
    <3>1. ASSUME armed'[s] # None PROVE armed'[s].spec = engine'[armed'[s].cam]
      <4>1. armed[s] # None /\ s \notin ripe /\ armed'[s] = stay(s)
        <5> HIDE DEF ripe, stay
        <5> QED BY <2>0, <3>1
      <4>2. armed[s].spec = engine[armed[s].cam] BY <4>1 DEF Inv, ArmingSound
      <4>3. armed'[s].cam = armed[s].cam /\ armed'[s].spec = armed[s].spec
        <5> HIDE DEF ripe, stay
        <5> QED BY <2>2, <4>1
      <4> QED BY <4>2, <4>3, <2>0 DEF cameraVars
    <3>2. sess[s] = "closed" => armed'[s] = None
      BY <2>0 DEF Inv, ArmingSound
    <3> QED BY <3>1, <3>2, <2>0 DEF Inv, ArmingSound, sessionVars
  <2> QED BY <2>6, <2>7, <1>0, PathKept DEF Inv
<1>2. CASE TearDown(n)
  <2> PICK d \in due[n] :
        /\ due' = [due EXCEPT ![n] = @ \ {d}]
        /\ sess' = [sess EXCEPT ![d.session] = IF @ = "open" THEN "ending" ELSE @]
        /\ UNCHANGED <<server, cur, cameraVars, request, readers, plays, armed, setting, sets>>
    BY <1>2 DEF TearDown
  <2>1. TypeOK' BY <1>0 DEF TypeOK, cameraVars, Asked, Arming
  <2>2. \A s \in Sessions : sess'[s] \in {"leaving", "closed"} => sess'[s] = sess[s]
    BY <1>0 DEF TypeOK
  <2>3. ArmingSound' BY <2>2 DEF Inv, ArmingSound, cameraVars
  <2> QED BY <2>1, <2>3, <1>0, PathKept DEF Inv
<1> QED BY <1>1, <1>2

LEMMA Requests ==
  ASSUME Inv, NEW s \in Sessions, Setup(s) \/ Play(s) \/ Answer(s) \/ Leave(s) \/ Disarm(s)
  PROVE  Inv'
<1>0. /\ TypeOK /\ PathStays /\ UNCHANGED <<engine, removal, due, setting, sets>>
  BY DEF Inv, Setup, Play, Answer, SetupAnswer, PlayAnswer, Leave, Disarm, PathStays, cameraVars
<1>1. Stages' /\ NoWriteToClosedStream' BY <1>0, PathKept
<1>2. CASE Setup(s) \/ Play(s)
  <2> PICK m \in {"setup", "play"} :
        request' = [request EXCEPT ![s] = [method |-> m, cam |-> cur]]
    BY <1>2 DEF Setup, Play
  <2>1. cur \in 1 .. added BY <1>0, <1>2 DEF Setup, Play, Found, TypeOK, OrNone
  <2>2. request' \in [Sessions -> OrNone(Asked)]
    BY <1>0, <2>1 DEF TypeOK, OrNone, Asked
  <2>3. sess' \in [Sessions -> {"new", "open", "ending", "leaving", "closed"}] /\ sess'[s] = "open"
        /\ plays' \in 0 .. MaxPlays /\ UNCHANGED <<readers, armed>>
        /\ \A t \in Sessions : t # s => sess'[t] = sess[t]
    BY <1>0, <1>2, RtspAssumption DEF Setup, Play, TypeOK
  <2>4. TypeOK' BY <1>0, <2>2, <2>3 DEF TypeOK, PathStays, Asked, Arming
  <2>5. ArmingSound'
    <3> USE DEF ArmingSound
    <3> TAKE t \in Sessions
    <3>1. CASE t = s BY <3>1, <2>3, <1>0 DEF Inv, ArmingSound
    <3>2. CASE t # s
      <4>1. request'[t] = request[t] BY <3>2, <1>0 DEF TypeOK
      <4> QED BY <4>1, <3>2, <2>3, <1>0 DEF Inv, ArmingSound
    <3> QED BY <3>1, <3>2
  <2> QED BY <1>1, <2>4, <2>5 DEF Inv
<1>3. CASE SetupAnswer(s)
  <2>0. /\ request[s] # None /\ request' = [request EXCEPT ![s] = None]
        /\ readers' \in {readers, readers \cup {s}} /\ UNCHANGED <<sess, plays, armed>>
    BY <1>3 DEF SetupAnswer
  <2>1. TypeOK' BY <1>0, <2>0 DEF TypeOK, PathStays, Asked, Arming, OrNone
  <2>2. sess[s] \notin {"leaving", "closed"} BY <2>0 DEF Inv, ArmingSound
  <2>3. ArmingSound' BY <1>0, <2>0, <2>2 DEF Inv, ArmingSound, TypeOK
  <2> QED BY <1>1, <2>1, <2>3 DEF Inv
<1>4. CASE PlayAnswer(s)
  <2> DEFINE c == request[s].cam
             a == [cam |-> c, spec |-> engine[c], left |-> After[engine[c]]]
  <2>0. /\ request[s] # None /\ request' = [request EXCEPT ![s] = None]
        /\ UNCHANGED <<sess, readers, plays>>
        /\ \/ engine[c] # None /\ armed' = [armed EXCEPT ![s] = a]
           \/ UNCHANGED armed
    BY <1>4 DEF PlayAnswer, MayArm, Arm
  <2>1. sess[s] \notin {"leaving", "closed"} BY <2>0 DEF Inv, ArmingSound
  <2>2. c \in 1 .. added /\ c \in Cams
    <3>1. request[s] \in Asked BY <1>0, <2>0 DEF TypeOK, OrNone
    <3>2. c \in 1 .. added BY <3>1 DEF Asked
    <3> QED BY <3>2, <1>0, RtspAssumption DEF TypeOK, Cams
  <2>3. CASE UNCHANGED armed
    <3>1. TypeOK' BY <1>0, <2>0, <2>3 DEF TypeOK, PathStays, Asked, Arming, OrNone
    <3>2. ArmingSound' BY <1>0, <2>0, <2>3 DEF Inv, ArmingSound, TypeOK
    <3> QED BY <1>1, <3>1, <3>2 DEF Inv
  <2>4. CASE engine[c] # None /\ armed' = [armed EXCEPT ![s] = a]
    <3>1. engine[c] \in Specs BY <1>0, <2>2, <2>4 DEF TypeOK, OrNone
    <3>2. After[engine[c]] \in Nat \ {0} BY <3>1, RtspAssumption
    <3>3. a \in Arming BY <2>2, <3>1, <3>2 DEF Arming
    <3>4. armed' \in [Sessions -> OrNone(Arming)]
      <4> HIDE DEF a
      <4> QED BY <1>0, <2>4, <3>3 DEF TypeOK, OrNone
    <3>5. TypeOK' BY <1>0, <2>0, <3>4 DEF TypeOK, PathStays, Asked, Arming, OrNone
    <3>6. armed'[s] = a /\ a.spec = engine[a.cam] BY <1>0, <2>4 DEF TypeOK
    <3>7. \A t \in Sessions : t # s => armed'[t] = armed[t] /\ request'[t] = request[t]
      BY <1>0, <2>0, <2>4 DEF TypeOK
    <3>8. ArmingSound'
      <4> HIDE DEF a
      <4> USE DEF ArmingSound
      <4> TAKE t \in Sessions
      <4>1. CASE t = s BY <4>1, <1>0, <2>0, <2>1, <3>6
      <4>2. CASE t # s BY <4>2, <1>0, <2>0, <3>7 DEF Inv, ArmingSound
      <4> QED BY <4>1, <4>2
    <3> QED BY <1>1, <3>5, <3>8 DEF Inv
  <2> QED BY <2>0, <2>3, <2>4
<1>5. CASE Leave(s) \/ Disarm(s)
  <2>0. /\ sess' \in [Sessions -> {"new", "open", "ending", "leaving", "closed"}]
        /\ readers' \subseteq readers /\ UNCHANGED <<request, plays>>
        /\ armed' \in [Sessions -> OrNone(Arming)]
        /\ \A t \in Sessions : armed'[t] # None => armed'[t] = armed[t]
        /\ \A t \in Sessions : t # s => sess'[t] = sess[t] /\ armed'[t] = armed[t]
        /\ request[s] = None /\ s \notin readers' /\ (sess'[s] = "closed" => armed'[s] = None)
    BY <1>0, <1>5 DEF Leave, Disarm, TypeOK, OrNone, Inv, ArmingSound
  <2>1. TypeOK' BY <1>0, <2>0 DEF TypeOK, PathStays, Asked, Arming
  <2>2. ArmingSound'
    <3> USE DEF ArmingSound
    <3> TAKE t \in Sessions
    <3>1. CASE t = s BY <3>1, <1>0, <2>0 DEF Inv, ArmingSound
    <3>2. CASE t # s BY <3>2, <1>0, <2>0 DEF Inv, ArmingSound
    <3> QED BY <3>1, <3>2
  <2> QED BY <1>1, <2>1, <2>2 DEF Inv
<1> QED BY <1>2, <1>3, <1>4, <1>5 DEF Answer

(* SetFaults and RemoveCamera disarm the sessions of the path, so that a   *)
(* new fault finds none armed.                                             *)
LEMMA Disarms ==
  ASSUME Inv, Swap \/ (\E x \in OrNone(Specs) : SetFaults(x)) \/ (\E n \in Cams : RemoveDisarm(n))
  PROVE  Inv'
<1>0. TypeOK /\ PathStays /\ UNCHANGED <<sessionVars, due>>
  BY DEF Inv, Swap, SetFaults, RemoveDisarm, PathStays, cameraVars
<1>1. Stages' /\ NoWriteToClosedStream' BY <1>0, PathKept
<1>2. /\ armed' \in [Sessions -> OrNone(Arming)]
      /\ \A t \in Sessions : armed'[t] # None => armed'[t] = armed[t]
  BY <1>0 DEF Swap, SetFaults, RemoveDisarm, DisarmAll, TypeOK, OrNone
<1>3. ASSUME NEW x \in OrNone(Specs), SetFaults(x) PROVE Inv'
  <2>0. cur \in 1 .. added BY <1>0, <1>3 DEF SetFaults, TypeOK, OrNone
  <2>1. setting' \in OrNone([cam : 1 .. added, spec : OrNone(Specs)]) /\ sets' \in 0 .. MaxSets
    BY <1>0, <1>3, <2>0, RtspAssumption DEF SetFaults, OrNone, TypeOK
  <2>2. UNCHANGED <<engine, removal, armed>> BY <1>3 DEF SetFaults, cameraVars
  <2>3. TypeOK' BY <1>0, <2>1, <2>2 DEF TypeOK, PathStays, sessionVars, Asked, Arming
  <2>4. ArmingSound' BY <1>0, <2>2 DEF Inv, ArmingSound, sessionVars
  <2> QED BY <1>1, <2>3, <2>4 DEF Inv
<1>4. ASSUME NEW n \in Cams, RemoveDisarm(n) PROVE Inv'
  <2>1. UNCHANGED <<engine, setting, sets>> BY <1>4 DEF RemoveDisarm
  <2>2. removal' \in [Cams -> {"no", "stopping", "disarming", "done"}]
    BY <1>0, <1>4 DEF RemoveDisarm, TypeOK
  <2>3. TypeOK' BY <1>0, <1>2, <2>1, <2>2 DEF TypeOK, PathStays, sessionVars, Asked, Arming
  <2>4. ArmingSound' BY <1>0, <1>2, <2>1 DEF Inv, ArmingSound, sessionVars
  <2> QED BY <1>1, <2>3, <2>4 DEF Inv
<1>5. CASE Swap
  <2> DEFINE c == setting.cam
  <2>0. setting \in [cam : 1 .. added, spec : OrNone(Specs)]
    BY <1>0, <1>5 DEF Swap, TypeOK, OrNone
  <2>1. /\ c \in Cams /\ setting.spec \in OrNone(Specs)
        /\ engine' = [engine EXCEPT ![c] = setting.spec]
        /\ setting' = None /\ UNCHANGED <<removal, sets>>
    BY <1>0, <1>5, <2>0, RtspAssumption DEF Swap, Install, TypeOK, Cams
  <2>2. engine' \in [Cams -> OrNone(Specs)] BY <1>0, <2>1 DEF TypeOK
  <2>3. TypeOK'
    BY <1>0, <1>2, <2>1, <2>2 DEF TypeOK, PathStays, sessionVars, Asked, Arming, OrNone
  <2>4. CASE engine[c] = setting.spec
    <3>1. engine' = engine BY <1>0, <2>1, <2>4 DEF TypeOK
    <3> QED BY <3>1, <2>3, <1>0, <1>1, <1>2 DEF Inv, ArmingSound, sessionVars
  <2>5. CASE engine[c] # setting.spec
    <3>1. \A t \in Sessions : armed'[t] = None BY <1>5, <2>5 DEF Swap, DisarmAll
    <3> QED BY <3>1, <2>3, <1>0, <1>1 DEF Inv, ArmingSound, sessionVars
  <2> QED BY <2>4, <2>5
<1> QED BY <1>3, <1>4, <1>5

LEMMA InvKept == Inv /\ [Next]_vars => Inv'
<1> SUFFICES ASSUME Inv, [Next]_vars PROVE Inv' OBVIOUS
<1>1. CASE UNCHANGED vars
  BY <1>1 DEF vars, cameraVars, sessionVars, Inv, TypeOK, Stages, NoWriteToClosedStream,
       ArmingSound, Asked, Arming
<1>2. ASSUME NEW x \in OrNone(Specs), Start(x) \/ AddCamera(x) \/ SetFaults(x) PROVE Inv'
  BY <1>2, Adds, Disarms
<1>3. ASSUME NEW n \in Cams, Removal(n) \/ Frame(n) \/ TearDown(n) \/ PumpExit(n) PROVE Inv'
  BY <1>3, Pumps, Disarms, Frames DEF Removal
<1>4. ASSUME NEW s \in Sessions, Setup(s) \/ Play(s) \/ Answer(s) \/ Leave(s) \/ Disarm(s)
      PROVE  Inv'
  BY <1>4, Requests
<1>5. CASE RemoveCamera \/ CloseBegin \/ Closing BY <1>5, Pumps
<1>6. CASE Swap BY <1>6, Disarms
<1> QED BY <1>1, <1>2, <1>3, <1>4, <1>5, <1>6 DEF Next

LEMMA InvAlways == Spec => []Inv
  BY Starts, InvKept, PTL DEF Spec

(* Every variable of the RTSP server has its type.                         *)
THEOREM TypeCorrect == Spec => []TypeOK
<1>1. Inv => TypeOK BY DEF Inv
<1> QED BY <1>1, InvAlways, PTL

(* A session is armed only by the teardown fault its camera has now, and a *)
(* session that is over has left nothing behind.                           *)
THEOREM ArmingStaysSound == Spec => []ArmingSound
<1>1. Inv => ArmingSound BY DEF Inv
<1> QED BY <1>1, InvAlways, PTL

(* A pump that may still write has an open stream.                         *)
THEOREM NoPumpWritesToClosed == Spec => []NoWriteToClosedStream
<1>1. Inv => NoWriteToClosedStream BY DEF Inv
<1> QED BY <1>1, InvAlways, PTL
=============================================================================
