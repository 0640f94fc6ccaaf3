----------------------------- MODULE RtspServer -----------------------------
(***************************************************************************)
(* One path of the RTSP server (internal/rtsp/server.go, control.go) and   *)
(* the cameras added and removed under it, one after the other: their      *)
(* streams, their pumps, the sessions of clients, and the teardown fault,  *)
(* which ends a session some frames after its PLAY.                        *)
(*                                                                         *)
(* Sections under Server.mu and under armMu are one step each.  Handlers   *)
(* look a camera up, let go of mu and act on what they found; sessions are *)
(* armed under the path, not under the camera that armed them.             *)
(***************************************************************************)
EXTENDS Naturals, FiniteSets

CONSTANTS Sessions,
          Specs,     \* teardown faults
          After,     \* After[x]: frames from PLAY to teardown under x
          None,
          MaxCams,   \* bound on the cameras added
          MaxPlays,  \* bound on the PLAY requests
          MaxSets    \* bound on the SetFaults calls

ASSUME RtspAssumption ==
  /\ MaxCams \in Nat \ {0} /\ MaxPlays \in Nat /\ MaxSets \in Nat
  /\ After \in [Specs -> Nat \ {0}]
  /\ None \notin Specs \cup Nat

VARIABLES server,   \* new, up, then the stages of Close: pumps, streams,
                    \* sessions, down
          cur,      \* Server.cams: the camera on the path, or None
          added,    \* cameras added so far: they are numbered 1, 2, ...
          stream,   \* each camera's stream
          pump,     \* each camera's pump goroutine
          engine,   \* the teardown fault of each camera's control engine
          removal,  \* how far RemoveCamera has come with each camera
          sess,     \* each client session
          request,  \* the request a session's handler is in the middle of
          readers,  \* Server.readers
          armed,    \* Server.armed
          due,      \* sessions a pump's afterFrame has yet to tear down
          setting,  \* the SetFaults call in progress
          plays, sets

cameraVars == <<added, stream, pump, engine, removal>>
sessionVars == <<sess, request, readers, plays>>
vars == <<server, cur, cameraVars, sessionVars, armed, due, setting, sets>>

Cams == 1 .. MaxCams
OrNone(S) == S \cup {None}

Init ==
  /\ server = "new"
  /\ cur = None
  /\ added = 0
  /\ stream = [n \in Cams |-> "none"]
  /\ pump = [n \in Cams |-> "none"]
  /\ engine = [n \in Cams |-> None]
  /\ removal = [n \in Cams |-> "no"]
  /\ sess = [s \in Sessions |-> "new"]
  /\ request = [s \in Sessions |-> None]
  /\ readers = {}
  /\ armed = [s \in Sessions |-> None]
  /\ due = [n \in Cams |-> {}]
  /\ setting = None
  /\ plays = 0
  /\ sets = 0

(***************************************************************************)
(* Cameras.                                                                *)
(***************************************************************************)
(* A camera with its control engine, its stream and its running pump.      *)
NewCamera(n, x) ==
  /\ cur' = n
  /\ added' = n
  /\ stream' = [stream EXCEPT ![n] = "open"]
  /\ pump' = [pump EXCEPT ![n] = "running"]
  /\ engine' = [engine EXCEPT ![n] = x]

(* Start, with a camera configured for the path or only for others.  A     *)
(* Start that fails has unwound all it did before a handler could see it.  *)
Start(x) ==
  /\ server = "new"
  /\ server' = "up"
  /\ \/ NewCamera(1, x)
     \/ UNCHANGED <<cur, added, stream, pump, engine>>
  /\ UNCHANGED <<removal, sessionVars, armed, due, setting, sets>>

(* validateCameraConfig: no camera has the path.                           *)
Free == cur = None

AddCamera(x) ==
  /\ server = "up" /\ Free /\ added < MaxCams
  /\ NewCamera(added + 1, x)
  /\ UNCHANGED <<server, removal, sessionVars, armed, due, setting, sets>>

(* Told to stop: the camera's context is cancelled.                        *)
Tell(S) == pump' = [n \in Cams |-> IF n \in S /\ pump[n] = "running" THEN "told" ELSE pump[n]]

RemoveCamera ==
  /\ server = "up" /\ cur # None
  /\ cur' = None
  /\ removal' = [removal EXCEPT ![cur] = "stopping"]
  /\ Tell({cur})
  /\ UNCHANGED <<server, added, stream, engine, sessionVars, armed, due, setting, sets>>

(* <-done, then the stream.                                                *)
RemoveStream(n) ==
  /\ removal[n] = "stopping" /\ pump[n] = "done"
  /\ stream' = [stream EXCEPT ![n] = "closed"]
  /\ removal' = [removal EXCEPT ![n] = "disarming"]
  /\ UNCHANGED <<server, cur, added, pump, engine, sessionVars, armed, due,
                 setting, sets>>

(* mutant: nothing is disarmed.                                            *)
RemoveNoDisarm(n) ==
  /\ removal[n] = "disarming"
  /\ removal' = [removal EXCEPT ![n] = "done"]
  /\ UNCHANGED <<server, cur, added, stream, pump, engine, sessionVars, armed, due,
                 setting, sets>>

DisarmAll == armed' = [s \in Sessions |-> None]

(* disarmCamera: every session armed under the path.                       *)
RemoveDisarm(n) ==
  /\ removal[n] = "disarming"
  /\ DisarmAll
  /\ removal' = [removal EXCEPT ![n] = "done"]
  /\ UNCHANGED <<server, cur, added, stream, pump, engine, sessionVars, due,
                 setting, sets>>

(* One step of a pump: a frame written, and afterFrame counts it against   *)
(* every session armed under the path.  A pump told to stop may still take *)
(* a frame whose slot has come.                                            *)
Frame(n) ==
  /\ pump[n] \in {"running", "told"} /\ due[n] = {}
  /\ LET ripe == {s \in Sessions : armed[s] # None /\ armed[s].left <= 1}
     IN  /\ due' = [due EXCEPT ![n] = {[session |-> s, cam |-> armed[s].cam,
                                        spec |-> armed[s].spec] : s \in ripe}]
         /\ armed' = [s \in Sessions |->
                        IF armed[s] = None \/ s \in ripe THEN None
                        ELSE [armed[s] EXCEPT !.left = @ - 1]]
  /\ UNCHANGED <<server, cur, cameraVars, sessionVars, setting, sets>>

(* tearDown of one session, after armMu is let go.                         *)
TearDown(n) ==
  \E d \in due[n] :
    /\ due' = [due EXCEPT ![n] = @ \ {d}]
    /\ sess' = [sess EXCEPT ![d.session] = IF @ = "open" THEN "ending" ELSE @]
    /\ UNCHANGED <<server, cur, cameraVars, request, readers, plays, armed, setting, sets>>

PumpExit(n) ==
  /\ pump[n] = "told" /\ due[n] = {}
  /\ pump' = [pump EXCEPT ![n] = "done"]
  /\ UNCHANGED <<server, cur, added, stream, engine, removal, sessionVars, armed,
                 due, setting, sets>>

(***************************************************************************)
(* Sessions.  gortsplib runs a session's requests and its end one after    *)
(* the other.                                                              *)
(***************************************************************************)

(* lookup: a closing server has no streams.                                *)
Found == server = "up" /\ cur # None

Setup(s) ==
  /\ sess[s] \in {"new", "open"} /\ request[s] = None /\ s \notin readers
  /\ Found
  /\ sess' = [sess EXCEPT ![s] = "open"]
  /\ request' = [request EXCEPT ![s] = [method |-> "setup", cam |-> cur]]
  /\ UNCHANGED <<server, cur, cameraVars, readers, plays, armed, due, setting, sets>>

(* A reader, unless an rtsp_error fired.                                   *)
SetupAnswer(s) ==
  /\ request[s] # None /\ request[s].method = "setup"
  /\ request' = [request EXCEPT ![s] = None]
  /\ readers' \in {readers, readers \cup {s}}
  /\ UNCHANGED <<server, cur, cameraVars, sess, plays, armed, due, setting, sets>>

Play(s) ==
  /\ sess[s] = "open" /\ request[s] = None /\ s \in readers
  /\ Found /\ plays < MaxPlays
  /\ plays' = plays + 1
  /\ request' = [request EXCEPT ![s] = [method |-> "play", cam |-> cur]]
  /\ UNCHANGED <<server, cur, cameraVars, sess, readers, armed, due, setting, sets>>

(* ArmPlay: there is a teardown fault to draw from; the draw may miss.     *)
MayArm(n) == engine[n] # None

(* armLocked: session s is armed with what camera n's engine drew.         *)
Arm(s, n, x) ==
  armed' = [armed EXCEPT ![s] = [cam |-> n, spec |-> x, left |-> After[x]]]

(* The draw and the arming under one armMu; a missed draw or an rtsp_error *)
(* arms nothing and leaves an earlier arming alone.                        *)
PlayAnswer(s) ==
  /\ request[s] # None /\ request[s].method = "play"
  /\ request' = [request EXCEPT ![s] = None]
  /\ LET n == request[s].cam
     IN  \/ MayArm(n) /\ Arm(s, n, engine[n])
         \/ UNCHANGED armed
  /\ UNCHANGED <<server, cur, cameraVars, sess, readers, plays, due, setting, sets>>

(* OnSessionClose, by the client's or the server's wish: first the reader, *)
(* under mu.                                                               *)
Leave(s) ==
  /\ sess[s] \in {"open", "ending"} /\ request[s] = None
  /\ sess' = [sess EXCEPT ![s] = "leaving"]
  /\ readers' = readers \ {s}
  /\ UNCHANGED <<server, cur, cameraVars, request, plays, armed, due, setting, sets>>

LeaveArmed(s) ==                               \* mutant: the arming outlives the session
  /\ sess[s] = "leaving"
  /\ sess' = [sess EXCEPT ![s] = "closed"]
  /\ UNCHANGED <<server, cur, cameraVars, request, readers, plays, armed, due, setting, sets>>

(* Then its arming, under armMu.                                           *)
Disarm(s) ==
  /\ sess[s] = "leaving"
  /\ sess' = [sess EXCEPT ![s] = "closed"]
  /\ armed' = [armed EXCEPT ![s] = None]
  /\ UNCHANGED <<server, cur, cameraVars, request, readers, plays, due, setting, sets>>

(***************************************************************************)
(* SetFaults with teardown x, or None: the camera is looked up under mu,   *)
(* its engine swapped under armMu.                                         *)
(***************************************************************************)
SetFaults(x) ==
  /\ setting = None /\ sets < MaxSets
  /\ server = "up" /\ cur # None
  /\ setting' = [cam |-> cur, spec |-> x]
  /\ sets' = sets + 1
  /\ UNCHANGED <<server, cur, cameraVars, sessionVars, armed, due>>

(* ControlEngine.SetAt.                                                    *)
Install(n, x) == engine' = [engine EXCEPT ![n] = x]

SwapNoDisarm ==                                 \* mutant: armed sessions stay armed
  /\ setting # None
  /\ Install(setting.cam, setting.spec)
  /\ setting' = None
  /\ UNCHANGED <<server, cur, added, stream, pump, removal, sessionVars, armed, due, sets>>

Swap ==
  /\ setting # None
  /\ Install(setting.cam, setting.spec)
  /\ IF engine[setting.cam] # setting.spec THEN DisarmAll ELSE UNCHANGED armed
  /\ setting' = None
  /\ UNCHANGED <<server, cur, added, stream, pump, removal, sessionVars, due, sets>>

(***************************************************************************)
(* Close: the root context, the pumps, the streams it found, the sessions. *)
(***************************************************************************)
CloseNoCancel ==                                  \* mutant: the pumps are not told
  /\ server = "up"
  /\ server' = "pumps"
  /\ UNCHANGED <<cur, cameraVars, sessionVars, armed, due, setting, sets>>

CloseBegin ==
  /\ server = "up"
  /\ server' = "pumps"
  /\ Tell(Cams)
  /\ UNCHANGED <<cur, added, stream, engine, removal, sessionVars, armed, due,
                 setting, sets>>

ClosePumpsUnwaited ==                              \* mutant: no wg.Wait
  /\ server = "pumps"
  /\ server' = "streams"
  /\ UNCHANGED <<cur, cameraVars, sessionVars, armed, due, setting, sets>>

ClosePumps ==
  /\ server = "pumps"
  /\ \A n \in Cams : pump[n] \in {"none", "done"}
  /\ server' = "streams"
  /\ UNCHANGED <<cur, cameraVars, sessionVars, armed, due, setting, sets>>

CloseStreams ==
  /\ server = "streams"
  /\ server' = "sessions"
  /\ stream' = [n \in Cams |-> IF n = cur THEN "closed" ELSE stream[n]]
  /\ sess' = [s \in Sessions |-> IF sess[s] = "open" THEN "ending" ELSE sess[s]]
  /\ UNCHANGED <<cur, added, pump, engine, removal, request, readers, plays, armed,
                 due, setting, sets>>

(* gortsplib's Close waits for the sessions.                               *)
CloseDone ==
  /\ server = "sessions"
  /\ \A s \in Sessions : sess[s] \in {"new", "closed"}
  /\ server' = "down"
  /\ UNCHANGED <<cur, cameraVars, sessionVars, armed, due, setting, sets>>

Removal(n) == RemoveStream(n) \/ RemoveDisarm(n)
Answer(s) == SetupAnswer(s) \/ PlayAnswer(s)
EndSession(s) == (sess[s] = "ending" /\ Leave(s)) \/ Disarm(s)
Closing == ClosePumps \/ CloseStreams \/ CloseDone

Next ==
  \/ \E x \in OrNone(Specs) : Start(x) \/ AddCamera(x) \/ SetFaults(x)
  \/ RemoveCamera
  \/ \E n \in Cams : Removal(n) \/ Frame(n) \/ TearDown(n) \/ PumpExit(n)
  \/ \E s \in Sessions : Setup(s) \/ Play(s) \/ Answer(s) \/ Leave(s) \/ Disarm(s)
  \/ Swap
  \/ CloseBegin \/ Closing

Spec == Init /\ [][Next]_vars

(* Every goroutine that can run does: handlers, pumps (a frame takes one   *)
(* interval of the clock), SetFaults, RemoveCamera and Close once begun,   *)
(* and a session that was told to end.  PumpExit is strongly fair: its     *)
(* waitUntil looks at the context before every frame, so a pump told to    *)
(* stop finishes at most the frame it is at (Pacer!AtMostOneAfterCancel).  *)
RtspFair ==
  /\ \A n \in Cams :
       WF_vars(Removal(n)) /\ WF_vars(Frame(n)) /\ WF_vars(TearDown(n)) /\ SF_vars(PumpExit(n))
  /\ \A s \in Sessions : WF_vars(Answer(s)) /\ WF_vars(EndSession(s))
  /\ WF_vars(Swap) /\ WF_vars(Closing)
-----------------------------------------------------------------------------
Arming == [cam : 1 .. added, spec : Specs, left : Nat \ {0}]
Asked == [method : {"setup", "play"}, cam : 1 .. added]

(* Every variable has its type, and whatever names a camera names one that *)
(* was added.                                                              *)
TypeOK ==
  /\ server \in {"new", "up", "pumps", "streams", "sessions", "down"}
  /\ added \in 0 .. MaxCams /\ cur \in OrNone(1 .. added)
  /\ stream \in [Cams -> {"none", "open", "closed"}]
  /\ pump \in [Cams -> {"none", "running", "told", "done"}]
  /\ engine \in [Cams -> OrNone(Specs)]
  /\ removal \in [Cams -> {"no", "stopping", "disarming", "done"}]
  /\ sess \in [Sessions -> {"new", "open", "ending", "leaving", "closed"}]
  /\ request \in [Sessions -> OrNone(Asked)]
  /\ readers \subseteq Sessions
  /\ armed \in [Sessions -> OrNone(Arming)]
  /\ due \in [Cams -> SUBSET [session : Sessions, cam : 1 .. added, spec : Specs]]
  /\ setting \in OrNone([cam : 1 .. added, spec : OrNone(Specs)])
  /\ plays \in 0 .. MaxPlays /\ sets \in 0 .. MaxSets

(* "no session can be armed by the old teardown spec after the swap, and   *)
(* none armed before it survives the disarm" (control.go:120-123), even    *)
(* when the swap and the PLAY found their camera before it was removed;    *)
(* and a session that is over is no reader and is not armed: a handler     *)
(* still at work when its session was told to end leaves nothing behind.   *)
ArmingSound ==
  \A s \in Sessions :
    /\ armed[s] # None => armed[s].spec = engine[armed[s].cam]
    /\ sess[s] \in {"leaving", "closed"} => s \notin readers /\ request[s] = None
    /\ sess[s] = "closed" => armed[s] = None

(* No pump that may still write has a closed stream, whether its camera is *)
(* removed, the server is closed, or both at once (server.go:375-379).     *)
NoWriteToClosedStream ==
  \A n \in Cams : pump[n] \in {"running", "told"} => stream[n] = "open"

(* A session armed by the camera on the path does not stay armed for ever: *)
(* the frames run out, or the session, the fault or the camera goes.       *)
ArmingEnds ==
  \A s \in Sessions :
    armed[s] # None /\ armed[s].cam = cur ~> armed[s] = None

(* "Close stops the pumps, then the server and every stream" (server.go:   *)
(* 366): it waits for pumps and sessions, and both always come to an end.  *)
CloseReturns == server = "pumps" ~> server = "down"

(* "Drop after the pump is gone, so no stale entry can hit a camera        *)
(* re-added under the same ID" (server.go:520-521): once an earlier camera *)
(* is fully removed, frames of a later one end no session it armed.        *)
NoStaleTeardown ==
  [][\A n \in Cams : \A d \in due'[n] \ due[n] :
       d.cam < n => removal[d.cam] # "done"]_vars

(* "A session armed by a teardown that was removed or changed must not be  *)
(* ended by it" (control.go:131-132).                                      *)
NoTeardownAfterSwap ==
  [][\A n \in Cams : \A d \in due[n] \ due'[n] :
       sess[d.session] = "open" => d.spec = engine[d.cam]]_vars
=============================================================================
