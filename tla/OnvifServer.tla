---------------------------- MODULE OnvifServer ----------------------------
(***************************************************************************)
(* Life of the ONVIF server (internal/onvif/server.go, discovery.go):      *)
(* Start and Close called by several goroutines, cameras added and removed *)
(* beside them.  Start binds a listener and, with discovery on, waits for  *)
(* a responder with Server.mu released, behind Server.starting; a Close    *)
(* that comes meanwhile makes that Start undo itself.                      *)
(*                                                                         *)
(* Sections under Server.mu are one step.  What a Start brings up          *)
(* (listener, responder, serving goroutine) carries the name of its        *)
(* caller, as does the channel it or a Close closes when it is done.  The  *)
(* responder runs in a goroutine of its own, which may bind its socket     *)
(* late, never, or just as the wait for it is given up, and may die.       *)
(***************************************************************************)
EXTENDS Naturals, FiniteSets

CONSTANTS Callers,   \* goroutines, each making one call
          Cameras,   \* cameras
          Nobody

ASSUME OnvifAssumption == Nobody \notin Callers

VARIABLES discovery,  \* whether cfg.Discovery is set
          ln, http, responder,  \* the fields: whose listener, server, responder
          starting,   \* Server.starting: the Start whose channel it is, or Nobody
          aborted,    \* Server.startAborted
          closing,    \* Server.closing: the Close whose channel it is, or Nobody
          cams,       \* Server.cams
          advertised, \* advertised[c]: the cameras registered with c's responder
          listening,  \* whose listener is bound
          running,    \* whose responder goroutine runs
          bound,      \* the responders awaited whose ready channel is closed
          serving,    \* each Start's serving goroutine
          pc,         \* where each caller is
          took,       \* what a Close took out of the fields
          awaited     \* whose channel a caller waits for

fields == <<ln, http, responder, starting, aborted, closing>>
resources == <<listening, running, bound, serving>>
onvifVars == <<discovery, fields, cams, advertised, resources, pc, took, awaited>>

OrNobody == Callers \cup {Nobody}

OnvifInit ==
  /\ discovery \in {"on", "off"}
  /\ ln = Nobody /\ http = Nobody /\ responder = Nobody
  /\ starting = Nobody /\ aborted = FALSE /\ closing = Nobody
  /\ cams \in SUBSET Cameras
  /\ advertised = [c \in Callers |-> {}]
  /\ listening = {} /\ running = {} /\ bound = {}
  /\ serving = [c \in Callers |-> "no"]
  /\ pc = [c \in Callers |-> "new"]
  /\ took = [c \in Callers |-> [http |-> Nobody, responder |-> Nobody]]
  /\ awaited = [c \in Callers |-> Nobody]

Goto(c, label) == pc' = [pc EXCEPT ![c] = label]

(* A channel is closed when the call that made it has returned from it.    *)
Closed(c) == pc[c] = "done"

(***************************************************************************)
(* Start.                                                                  *)
(***************************************************************************)

(* The locked part: refuse if started, bind, and without discovery publish *)
(* the server, with it register every camera and open the starting window. *)
StartBegin(c) ==
  /\ pc[c] = "new"
  /\ ln = Nobody /\ http = Nobody /\ starting = Nobody
  /\ \/ /\ discovery = "off"
        /\ ln' = c /\ http' = c
        /\ listening' = listening \cup {c}
        /\ Goto(c, "start.serve")
        /\ UNCHANGED <<starting, aborted, advertised>>
     \/ /\ discovery = "on"
        /\ ln' = c
        /\ listening' = listening \cup {c}
        /\ starting' = c /\ aborted' = FALSE
        /\ advertised' = [advertised EXCEPT ![c] = cams]
        /\ Goto(c, "start.run")
        /\ UNCHANGED http
     \/ /\ discovery = "on"            \* registering failed, or the host is loopback
        /\ listening' = listening \cup {c}
        /\ Goto(c, "start.failed")
        /\ UNCHANGED <<ln, http, starting, aborted, advertised>>
  /\ UNCHANGED <<discovery, responder, closing, cams, running, serving, bound, took, awaited>>

(* runResponder starts the responder's goroutine,                          *)
StartRun(c) ==
  /\ pc[c] = "start.run"
  /\ running' = running \cup {c}
  /\ Goto(c, "start.ready")
  /\ UNCHANGED <<discovery, fields, cams, advertised, listening, bound, serving, took, awaited>>

(* which binds its socket,                                                 *)
Binds(c) ==
  /\ pc[c] = "start.ready" /\ c \in running \ bound
  /\ bound' = bound \cup {c}
  /\ UNCHANGED <<discovery, fields, cams, advertised, listening, running, serving, pc, took, awaited>>

(* or fails to, or stops with an error later on, when it is only logged.   *)
Dies(c) ==
  /\ c \in running
  /\ running' = running \ {c}
  /\ UNCHANGED <<discovery, fields, cams, advertised, listening, bound, serving, pc, took, awaited>>

(* runResponder's select; what is ready there may all be ready at once.    *)
StartReady(c) ==
  /\ pc[c] = "start.ready" /\ c \in bound
  /\ bound' = bound \ {c}
  /\ Goto(c, "start.settle")
  /\ UNCHANGED <<discovery, fields, cams, advertised, listening, running, serving, took, awaited>>

StartError(c) ==
  /\ pc[c] = "start.ready" /\ c \notin running
  /\ bound' = bound \ {c}
  /\ Goto(c, "start.error")
  /\ UNCHANGED <<discovery, fields, cams, advertised, listening, running, serving, took, awaited>>

(* mutant: the wait is given up, the goroutine is not.                     *)
StartTimeoutLeaves(c) ==
  /\ pc[c] = "start.ready"
  /\ Goto(c, "start.error")
  /\ UNCHANGED <<discovery, fields, cams, advertised, resources, took, awaited>>

(* The timeout: cancel the goroutine and wait for it, bound or not.        *)
StartTimeout(c) ==
  /\ pc[c] = "start.ready"
  /\ running' = running \ {c} /\ bound' = bound \ {c}
  /\ Goto(c, "start.error")
  /\ UNCHANGED <<discovery, fields, cams, advertised, listening, serving, took, awaited>>

StartSettleBlind(c) ==                          \* mutant: startAborted is not read
  /\ pc[c] \in {"start.settle", "start.error"}
  /\ starting' = Nobody /\ aborted' = FALSE
  /\ IF pc[c] = "start.settle"
     THEN responder' = c /\ http' = c /\ Goto(c, "start.serve") /\ UNCHANGED ln
     ELSE /\ ln' = Nobody
          /\ Goto(c, IF pc[c] = "start.error" THEN "start.failed" ELSE "start.undo")
          /\ UNCHANGED <<responder, http>>
  /\ UNCHANGED <<discovery, closing, cams, advertised, resources, took, awaited>>

(* The second locked part ends the window, for better or worse.            *)
StartSettle(c) ==
  /\ pc[c] \in {"start.settle", "start.error"}
  /\ starting' = Nobody /\ aborted' = FALSE
  /\ IF pc[c] = "start.settle" /\ ~aborted
     THEN responder' = c /\ http' = c /\ Goto(c, "start.serve") /\ UNCHANGED ln
     ELSE /\ ln' = Nobody
          /\ Goto(c, IF pc[c] = "start.error" THEN "start.failed" ELSE "start.undo")
          /\ UNCHANGED <<responder, http>>
  /\ UNCHANGED <<discovery, closing, cams, advertised, resources, took, awaited>>

(* mutant: an undone Start returns without closing its channel.            *)
StartUndoSilent(c) ==
  /\ pc[c] = "start.undo"
  /\ running' = running \ {c}
  /\ listening' = listening \ {c}
  /\ UNCHANGED <<discovery, fields, cams, advertised, serving, pc, bound, took, awaited>>

(* The teardown: the responder of a Start that was aborted, and the        *)
(* listener of any that failed; its channel is closed as it returns.       *)
StartUndo(c) ==
  \/ /\ pc[c] = "start.undo"
     /\ running' = running \ {c}
     /\ Goto(c, "start.failed")
     /\ UNCHANGED <<discovery, fields, cams, advertised, listening, serving, bound, took, awaited>>
  \/ /\ pc[c] = "start.failed"
     /\ listening' = listening \ {c}
     /\ Goto(c, "done")
     /\ UNCHANGED <<discovery, fields, cams, advertised, running, serving, bound, took, awaited>>

(* serve: the goroutine is made, and Start returns.                        *)
StartServe(c) ==
  /\ pc[c] = "start.serve"
  /\ serving' = [serving EXCEPT ![c] = IF @ = "shut" THEN "shut" ELSE "made"]
  /\ Goto(c, "done")
  /\ UNCHANGED <<discovery, fields, cams, advertised, listening, running, bound, took, awaited>>

(* http.Server.Serve: on a server already closed it only closes the        *)
(* listener it was given.                                                  *)
Serve(c) ==
  /\ pc[c] = "done"
  /\ \/ /\ serving[c] = "made"
        /\ serving' = [serving EXCEPT ![c] = "serving"]
        /\ UNCHANGED listening
     \/ /\ serving[c] = "shut" /\ c \in listening
        /\ listening' = listening \ {c}
        /\ UNCHANGED serving
  /\ UNCHANGED <<discovery, fields, cams, advertised, running, pc, bound, took, awaited>>

(***************************************************************************)
(* Close.                                                                  *)
(***************************************************************************)
AtLoop(c) == pc[c] = "new" \/ (pc[c] = "close.wait" /\ Closed(awaited[c]))

(* A Start is in its window: have it abort, and wait for its channel.      *)
CloseAbort(c) ==
  /\ AtLoop(c)
  /\ starting # Nobody
  /\ aborted' = TRUE
  /\ awaited' = [awaited EXCEPT ![c] = starting]
  /\ Goto(c, "close.wait")
  /\ UNCHANGED <<discovery, ln, http, responder, starting, closing, cams, advertised,
                 resources, took>>

(* Another Close is at work: wait for its channel.                         *)
CloseJoin(c) ==
  \/ /\ AtLoop(c)
     /\ starting = Nobody /\ closing # Nobody
     /\ awaited' = [awaited EXCEPT ![c] = closing]
     /\ Goto(c, "close.join")
     /\ UNCHANGED <<discovery, fields, cams, advertised, resources, took>>
  \/ /\ pc[c] = "close.join" /\ Closed(awaited[c])
     /\ Goto(c, "done")
     /\ UNCHANGED <<discovery, fields, cams, advertised, resources, took, awaited>>

(* Nothing to close, or the fields are taken and reset.                    *)
CloseTake(c) ==
  /\ AtLoop(c)
  /\ starting = Nobody /\ closing = Nobody
  /\ IF http = Nobody /\ responder = Nobody
     THEN Goto(c, "done") /\ UNCHANGED <<closing, ln, http, responder, took>>
     ELSE /\ closing' = c
          /\ took' = [took EXCEPT ![c] = [http |-> http, responder |-> responder]]
          /\ ln' = Nobody /\ http' = Nobody /\ responder' = Nobody
          /\ Goto(c, "close.stop")
  /\ UNCHANGED <<discovery, starting, aborted, cams, advertised, resources, awaited>>

CloseKeepsResponder(c) ==                       \* mutant: the responder is not stopped
  /\ pc[c] = "close.stop"
  /\ Goto(c, "close.http")
  /\ UNCHANGED <<discovery, fields, cams, advertised, resources, took, awaited>>

(* The responder first.                                                    *)
CloseResponder(c) ==
  /\ pc[c] = "close.stop"
  /\ running' = running \ {took[c].responder}
  /\ Goto(c, "close.http")
  /\ UNCHANGED <<discovery, fields, cams, advertised, listening, serving, bound, took, awaited>>

(* http.Server.Close closes the listeners it serves, and no other.         *)
CloseHttp(c) ==
  /\ pc[c] = "close.http"
  /\ LET h == took[c].http
     IN  /\ listening' = IF serving[h] = "serving" THEN listening \ {h} ELSE listening
         /\ serving' = [serving EXCEPT ![h] = "shut"]
  /\ Goto(c, "close.end")
  /\ UNCHANGED <<discovery, fields, cams, advertised, running, bound, took, awaited>>

CloseEnd(c) ==
  /\ pc[c] = "close.end"
  /\ closing' = Nobody
  /\ Goto(c, "done")
  /\ UNCHANGED <<discovery, ln, http, responder, starting, aborted, cams, advertised,
                 resources, took, awaited>>

(***************************************************************************)
(* Cameras, at any time but in a Start's window (lockIdle).                *)
(***************************************************************************)
(* registerLocked, while a responder runs.                                 *)
Register(x) ==
  advertised' = IF responder = Nobody THEN advertised
                ELSE [advertised EXCEPT ![responder] = @ \cup {x}]

AddInWindow(x) ==                               \* mutant: the window is not waited out
  /\ x \notin cams
  /\ cams' = cams \cup {x}
  /\ Register(x)
  /\ UNCHANGED <<discovery, fields, resources, pc, took, awaited>>

(* A failed registration takes the camera out again: no change at all.     *)
OnvifAddCamera(x) ==
  /\ starting = Nobody
  /\ x \notin cams
  /\ cams' = cams \cup {x}
  /\ Register(x)
  /\ UNCHANGED <<discovery, fields, resources, pc, took, awaited>>

OnvifRemoveCamera(x) ==
  /\ starting = Nobody
  /\ x \in cams
  /\ cams' = cams \ {x}
  /\ advertised' = IF responder = Nobody THEN advertised
                   ELSE [advertised EXCEPT ![responder] = @ \ {x}]
  /\ UNCHANGED <<discovery, fields, resources, pc, took, awaited>>

Proceed(c) ==
  \/ StartRun(c) \/ StartReady(c) \/ StartError(c) \/ StartTimeout(c) \/ StartSettle(c) \/ StartUndo(c) \/ StartServe(c) \/ Serve(c)
  \/ CloseAbort(c) /\ pc[c] # "new"
  \/ CloseJoin(c) /\ pc[c] # "new"
  \/ CloseTake(c) /\ pc[c] # "new"
  \/ CloseResponder(c) \/ CloseHttp(c) \/ CloseEnd(c)

OnvifNext ==
  \/ \E c \in Callers :
       \/ StartBegin(c) \/ CloseAbort(c) \/ CloseJoin(c) \/ CloseTake(c) \/ Proceed(c)
       \/ Binds(c) \/ Dies(c)
  \/ \E x \in Cameras : OnvifAddCamera(x) \/ OnvifRemoveCamera(x)

OnvifSpec == OnvifInit /\ [][OnvifNext]_onvifVars

(* A call that is not waiting goes on; runResponder waits at most its      *)
(* timeout, and a serving goroutine reaches Serve.  A responder need not   *)
(* bind its socket.                                                        *)
OnvifFair == \A c \in Callers : WF_onvifVars(Proceed(c))
-----------------------------------------------------------------------------
Labels == {"new", "start.run", "start.ready", "start.settle", "start.error", "start.undo",
           "start.failed", "start.serve", "close.wait", "close.join", "close.stop",
           "close.http", "close.end", "done"}

(* Every variable has its type; what Starts and Closes hold is named after *)
(* callers.                                                                *)
OnvifTypeOK ==
  /\ discovery \in {"on", "off"} /\ aborted \in BOOLEAN
  /\ ln \in OrNobody /\ http \in OrNobody /\ responder \in OrNobody
  /\ starting \in OrNobody /\ closing \in OrNobody
  /\ cams \subseteq Cameras /\ advertised \in [Callers -> SUBSET Cameras]
  /\ listening \subseteq Callers /\ running \subseteq Callers /\ bound \subseteq Callers
  /\ serving \in [Callers -> {"no", "made", "serving", "shut"}]
  /\ pc \in [Callers -> Labels]
  /\ took \in [Callers -> [http : OrNobody, responder : OrNobody]]
  /\ awaited \in [Callers -> OrNobody]

(* A client that probes finds the cameras it can reach, whatever was added *)
(* or removed while Start waited for the responder (server.go:102-105).    *)
AdvertisedAreServed == responder # Nobody => advertised[responder] = cams

(* Whatever is up is in the fields, for the next Close to find, or some    *)
(* call still has it in hand: failed, aborted and raced Starts leave no    *)
(* listener and no responder behind, nor does one that gives up on a       *)
(* responder which binds that moment.  "A Close that arrives while Start   *)
(* is bringing the responder up makes that Start fail and tear itself      *)
(* down" (server.go:389-391): when it goes on, nothing of that is left.    *)
NothingOrphaned ==
  /\ \A c \in running :
       \/ responder = c \/ pc[c] # "done"
       \/ \E d \in Callers : took[d].responder = c /\ pc[d] = "close.stop"
  /\ \A c \in listening :
       \/ ln = c \/ pc[c] # "done" \/ serving[c] = "shut"
       \/ \E d \in Callers : took[d].http = c /\ pc[d] \in {"close.stop", "close.http"}
  /\ \A c \in Callers :
       pc[c] = "close.wait" /\ Closed(awaited[c]) =>
         awaited[c] \notin running \cup listening /\ serving[awaited[c]] = "no"

(* A Close waits for one other call at most: the Start or Close it waits   *)
(* for has begun and waits for nobody's channel itself, so that no circle  *)
(* of calls can form, however many of them come in the same moment         *)
(* (server.go:392-408).                                                    *)
NoWaitForAWaiter ==
  \A c \in Callers :
    pc[c] \in {"close.wait", "close.join"} =>
      pc[awaited[c]] \notin {"new", "close.wait", "close.join"}

(* Every Close returns: the window of a Start it waits for ends, and every *)
(* channel that is waited for is closed.  A caller calls once, so none     *)
(* stays in its Close just if there is always a time when none is in one.  *)
OnvifCloseReturns ==
  []<>(\A c \in Callers :
         pc[c] \notin {"close.wait", "close.join", "close.stop", "close.http", "close.end"})

(* "every call returns only after the server has fully stopped"            *)
(* (server.go:388-389): when a Close returns no responder is running.      *)
ClosedIsStopped ==
  [][\A c \in Callers :
       (CloseJoin(c) \/ CloseTake(c) \/ CloseEnd(c)) /\ pc'[c] = "done"
         => running = {}]_onvifVars
=============================================================================
