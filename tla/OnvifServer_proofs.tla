------------------------ MODULE OnvifServer_proofs ------------------------
(***************************************************************************)
(* Starts and Closes of the ONVIF server leave nothing behind and never    *)
(* wait in a circle, and what is advertised is served, for every number of *)
(* callers and cameras.                                                    *)
(***************************************************************************)
EXTENDS OnvifServer, TLAPS

InWindow == {"start.run", "start.ready", "start.settle", "start.error"}
HasTaken == {"close.stop", "close.http"}

(* A window is that of the one Start which is in it.  Its listener is in   *)
(* the fields, its server and responder are not yet.  Outside a window the *)
(* three fields are those of one Start.                                    *)
Window ==
  /\ \A c \in Callers : pc[c] \in InWindow <=> starting = c
  /\ starting # Nobody => ln = starting /\ http = Nobody /\ responder = Nobody
  /\ starting = Nobody => ln = http /\ responder \in {Nobody, http}

(* The cameras do not change in a window, and change with the responder.   *)
Registered ==
  /\ starting # Nobody => advertised[starting] = cams
  /\ responder # Nobody => advertised[responder] = cams

(* A responder runs for a Start that is still to settle or undo it, or is  *)
(* in the fields, or taken by a Close that is about to stop it.            *)
Run1(c) ==
  \/ pc[c] \in {"start.ready", "start.settle", "start.undo"}
  \/ responder = c
  \/ \E d \in Callers : took[d].responder = c /\ pc[d] = "close.stop"
Responders ==
  /\ \A c \in running : Run1(c)
  /\ \A c \in Callers : pc[c] = "start.error" => c \notin running

(* The same of listeners; one whose server was shut before it was served   *)
(* is closed by serve.                                                     *)
Listen1(c) ==
  \/ pc[c] \in InWindow \cup {"start.undo", "start.failed"}
  \/ ln = c \/ serving[c] = "shut"
  \/ \E d \in Callers : took[d].http = c /\ pc[d] \in HasTaken
Listeners == \A c \in listening : Listen1(c)

(* Only a server that was published is served, is in the fields, or was    *)
(* taken by a Close.                                                       *)
Published(c) == pc[c] \in {"start.serve", "done"}
Servers ==
  /\ \A c \in Callers : serving[c] # "no" \/ http = c => Published(c)
  /\ \A c, d \in Callers : took[d].http = c => Published(c)
  /\ \A d \in Callers : pc[d] \in HasTaken => took[d].http # Nobody

(* The Start that a Close waits for is told to abort, or has failed and is *)
(* on its way out.  Its server was never published.                        *)
Failing(a) ==
  \/ starting = a /\ aborted
  \/ /\ pc[a] \in {"start.undo", "start.failed", "done"}
     /\ pc[a] # "start.undo" => a \notin running
     /\ pc[a] = "done" => a \notin listening
     /\ serving[a] = "no" /\ http # a
     /\ \A d \in Callers : took[d].http # a
Waits ==
  \A c \in Callers :
    pc[c] = "close.wait" => awaited[c] \in Callers /\ Failing(awaited[c])

Inv == /\ OnvifTypeOK /\ Window /\ Registered /\ Responders
       /\ Listeners /\ Servers /\ Waits

LEMMA StartKeeps ==
  ASSUME Inv, NEW c \in Callers, StartBegin(c)
  PROVE  Inv'
<1>1. OnvifTypeOK'
  <2>1. /\ ln' \in OrNobody /\ http' \in OrNobody /\ responder' \in OrNobody
       /\ starting' \in OrNobody /\ closing' \in OrNobody /\ aborted' \in BOOLEAN
    BY OnvifAssumption DEF Inv, OnvifTypeOK, OrNobody, Labels, StartBegin, Goto
  <2>2. advertised' \in [Callers -> SUBSET Cameras] /\ pc' \in [Callers -> Labels]
    BY OnvifAssumption DEF Inv, OnvifTypeOK, OrNobody, Labels, StartBegin, Goto
  <2>3. /\ listening' \subseteq Callers
        /\ UNCHANGED <<discovery, cams, running, bound, serving, took, awaited>>
    BY OnvifAssumption DEF Inv, OnvifTypeOK, OrNobody, Labels, StartBegin, Goto
  <2> QED BY <2>1, <2>2, <2>3 DEF Inv, OnvifTypeOK
<1>2. Window' BY OnvifAssumption DEF Inv, OnvifTypeOK, Window, InWindow, StartBegin, Goto
<1>3. Registered' BY DEF Inv, OnvifTypeOK, Window, Registered, StartBegin, Goto
<1>4. Responders' BY DEF Inv, OnvifTypeOK, Responders, Run1, StartBegin, Goto
<1>5. Listeners' BY DEF Inv, OnvifTypeOK, Window, HasTaken, Listeners, Listen1, StartBegin, Goto
<1>6. Servers' BY DEF Inv, OnvifTypeOK, OrNobody, HasTaken, Servers, Published, StartBegin, Goto
<1>7. Waits'
  BY DEF Inv, OnvifTypeOK, OrNobody, Window, InWindow, Servers, Published, Responders, Waits,
       Failing, StartBegin, Goto
<1> QED BY <1>1, <1>2, <1>3, <1>4, <1>5, <1>6, <1>7 DEF Inv

LEMMA StartRunKeeps ==
  ASSUME Inv, NEW c \in Callers, StartRun(c)
  PROVE  Inv'
<1>1. OnvifTypeOK' BY DEF Inv, OnvifTypeOK, Labels, StartRun, Goto, fields
<1>2. Window' BY DEF Inv, OnvifTypeOK, Window, InWindow, StartRun, Goto, fields
<1>3. Registered' BY DEF Inv, OnvifTypeOK, Registered, StartRun, Goto, fields
<1>4. Responders' BY DEF Inv, OnvifTypeOK, Responders, Run1, StartRun, Goto, fields
<1>5. Listeners'
  BY DEF Inv, OnvifTypeOK, InWindow, HasTaken, Listeners, Listen1, StartRun, Goto, fields
<1>6. Servers' BY DEF Inv, OnvifTypeOK, HasTaken, Servers, Published, StartRun, Goto, fields
<1>7. Waits'
  BY DEF Inv, OnvifTypeOK, Servers, Published, Responders, Waits, Failing, StartRun, Goto,
       fields
<1> QED BY <1>1, <1>2, <1>3, <1>4, <1>5, <1>6, <1>7 DEF Inv

LEMMA BindsKeeps ==
  ASSUME Inv, NEW c \in Callers, Binds(c)
  PROVE  Inv'
<1>1. OnvifTypeOK' BY DEF Inv, OnvifTypeOK, Labels, Binds, fields
<1>2. Window' BY DEF Inv, OnvifTypeOK, Window, Binds, fields
<1>3. Registered' BY DEF Inv, OnvifTypeOK, Registered, Binds, fields
<1>4. Responders' BY DEF Inv, OnvifTypeOK, Responders, Run1, Binds, fields
<1>5. Listeners' BY DEF Inv, OnvifTypeOK, Listeners, Listen1, Binds, fields
<1>6. Servers' BY DEF Inv, OnvifTypeOK, Servers, Published, Binds, fields
<1>7. Waits' BY DEF Inv, OnvifTypeOK, Servers, Published, Responders, Waits, Failing, Binds, fields
<1> QED BY <1>1, <1>2, <1>3, <1>4, <1>5, <1>6, <1>7 DEF Inv

LEMMA DiesKeeps ==
  ASSUME Inv, NEW c \in Callers, Dies(c)
  PROVE  Inv'
<1>1. OnvifTypeOK' BY DEF Inv, OnvifTypeOK, Labels, Dies, fields
<1>2. Window' BY DEF Inv, OnvifTypeOK, Window, Dies, fields
<1>3. Registered' BY DEF Inv, OnvifTypeOK, Registered, Dies, fields
<1>4. Responders' BY DEF Inv, OnvifTypeOK, Responders, Run1, Dies, fields
<1>5. Listeners' BY DEF Inv, OnvifTypeOK, Listeners, Listen1, Dies, fields
<1>6. Servers' BY DEF Inv, OnvifTypeOK, Servers, Published, Dies, fields
<1>7. Waits' BY DEF Inv, OnvifTypeOK, Servers, Published, Responders, Waits, Failing, Dies, fields
<1> QED BY <1>1, <1>2, <1>3, <1>4, <1>5, <1>6, <1>7 DEF Inv

LEMMA StartReadyKeeps ==
  ASSUME Inv, NEW c \in Callers, StartReady(c)
  PROVE  Inv'
<1>1. OnvifTypeOK' BY DEF Inv, OnvifTypeOK, Labels, StartReady, Goto, fields
<1>2. Window' BY DEF Inv, OnvifTypeOK, Window, InWindow, StartReady, Goto, fields
<1>3. Registered' BY DEF Inv, OnvifTypeOK, Registered, StartReady, Goto, fields
<1>4. Responders' BY DEF Inv, OnvifTypeOK, Responders, Run1, StartReady, Goto, fields
<1>5. Listeners'
  BY DEF Inv, OnvifTypeOK, InWindow, HasTaken, Listeners, Listen1, StartReady, Goto, fields
<1>6. Servers' BY DEF Inv, OnvifTypeOK, HasTaken, Servers, Published, StartReady, Goto, fields
<1>7. Waits'
  BY DEF Inv, OnvifTypeOK, Servers, Published, Responders, Waits, Failing, StartReady, Goto,
       fields
<1> QED BY <1>1, <1>2, <1>3, <1>4, <1>5, <1>6, <1>7 DEF Inv

LEMMA StartErrorKeeps ==
  ASSUME Inv, NEW c \in Callers, StartError(c)
  PROVE  Inv'
<1>1. OnvifTypeOK' BY DEF Inv, OnvifTypeOK, Labels, StartError, Goto, fields
<1>2. Window' BY DEF Inv, OnvifTypeOK, Window, InWindow, StartError, Goto, fields
<1>3. Registered' BY DEF Inv, OnvifTypeOK, Registered, StartError, Goto, fields
<1>4. Responders' BY DEF Inv, OnvifTypeOK, Responders, Run1, StartError, Goto, fields
<1>5. Listeners'
  BY DEF Inv, OnvifTypeOK, InWindow, HasTaken, Listeners, Listen1, StartError, Goto, fields
<1>6. Servers' BY DEF Inv, OnvifTypeOK, HasTaken, Servers, Published, StartError, Goto, fields
<1>7. Waits'
  BY DEF Inv, OnvifTypeOK, Servers, Published, Responders, Waits, Failing, StartError, Goto,
       fields
<1> QED BY <1>1, <1>2, <1>3, <1>4, <1>5, <1>6, <1>7 DEF Inv

LEMMA StartTimeoutKeeps ==
  ASSUME Inv, NEW c \in Callers, StartTimeout(c)
  PROVE  Inv'
<1>1. OnvifTypeOK' BY DEF Inv, OnvifTypeOK, Labels, StartTimeout, Goto, fields
<1>2. Window' BY DEF Inv, OnvifTypeOK, Window, InWindow, StartTimeout, Goto, fields
<1>3. Registered' BY DEF Inv, OnvifTypeOK, Registered, StartTimeout, Goto, fields
<1>4. Responders' BY DEF Inv, OnvifTypeOK, Responders, Run1, StartTimeout, Goto, fields
<1>5. Listeners'
  BY DEF Inv, OnvifTypeOK, InWindow, HasTaken, Listeners, Listen1, StartTimeout, Goto, fields
<1>6. Servers' BY DEF Inv, OnvifTypeOK, HasTaken, Servers, Published, StartTimeout, Goto, fields
<1>7. Waits'
  BY DEF Inv, OnvifTypeOK, Servers, Published, Responders, Waits, Failing, StartTimeout, Goto,
       fields
<1> QED BY <1>1, <1>2, <1>3, <1>4, <1>5, <1>6, <1>7 DEF Inv

LEMMA StartSettleKeeps ==
  ASSUME Inv, NEW c \in Callers, StartSettle(c)
  PROVE  Inv'
<1>1. OnvifTypeOK'
  <2>1. /\ ln' \in OrNobody /\ http' \in OrNobody /\ responder' \in OrNobody
       /\ starting' \in OrNobody /\ closing' \in OrNobody /\ aborted' \in BOOLEAN
    BY OnvifAssumption DEF Inv, OnvifTypeOK, OrNobody, Labels, StartSettle, Goto, resources
  <2>2. advertised' \in [Callers -> SUBSET Cameras] /\ pc' \in [Callers -> Labels]
    BY OnvifAssumption DEF Inv, OnvifTypeOK, OrNobody, Labels, StartSettle, Goto, resources
  <2>3. /\ listening' \subseteq Callers
        /\ UNCHANGED <<discovery, cams, running, bound, serving, took, awaited>>
    BY OnvifAssumption DEF Inv, OnvifTypeOK, OrNobody, Labels, StartSettle, Goto, resources
  <2> QED BY <2>1, <2>2, <2>3 DEF Inv, OnvifTypeOK
<1>2. Window' BY OnvifAssumption DEF Inv, OnvifTypeOK, Window, InWindow, StartSettle, Goto, resources
<1>3. Registered' BY DEF Inv, OnvifTypeOK, Window, InWindow, Registered, StartSettle, Goto, resources
<1>4. Responders'
  BY OnvifAssumption DEF Inv, OnvifTypeOK, Window, InWindow, Responders, Run1, StartSettle,
       Goto, resources
<1>5. Listeners'
  <2>1. /\ UNCHANGED <<listening, serving, took>> /\ pc[c] \in {"start.settle", "start.error"}
        /\ pc'[c] \in {"start.serve", "start.failed", "start.undo"}
        /\ pc'[c] = "start.serve" => UNCHANGED ln
        /\ \A d \in Callers : d # c => pc'[d] = pc[d]
    BY DEF Inv, OnvifTypeOK, StartSettle, Goto, resources
  <2>2. ln = c
    BY <2>1, OnvifAssumption DEF Inv, Window, InWindow
  <2>3. ASSUME NEW x \in listening' PROVE Listen1(x)'
    <3>1. Listen1(x) /\ x \in Callers BY <2>1 DEF Inv, OnvifTypeOK, Listeners
    <3>2. CASE x = c BY <2>1, <2>2, <3>2 DEF Listen1
    <3>3. CASE x # c BY <2>1, <2>2, <3>1, <3>3 DEF Listen1, InWindow, HasTaken
    <3> QED BY <3>2, <3>3
  <2> QED BY <2>3 DEF Listeners
<1>6. Servers'
  <2>1. /\ UNCHANGED <<serving, took>> /\ pc[c] \in {"start.settle", "start.error"}
        /\ \/ pc'[c] = "start.serve" /\ http' = c
           \/ pc'[c] \in {"start.failed", "start.undo"} /\ UNCHANGED http
        /\ \A d \in Callers : d # c => pc'[d] = pc[d]
    <3>1. pc \in [Callers -> Labels] BY DEF Inv, OnvifTypeOK
    <3> QED BY <3>1 DEF StartSettle, Goto, resources
  <2>2. \A d \in Callers : /\ Published(d) => Published(d)'
                           /\ pc'[d] \in HasTaken => pc[d] \in HasTaken
    BY <2>1 DEF Published, HasTaken
  <2>3. http' = c => Published(c)' BY <2>1, <2>2 DEF Published, Inv, Servers
  <2> QED BY <2>1, <2>2, <2>3 DEF Inv, Servers
<1>7. Waits'
  BY DEF Inv, OnvifTypeOK, Window, InWindow, Servers, Published, Responders, Waits, Failing,
       StartSettle, Goto, resources
<1> QED BY <1>1, <1>2, <1>3, <1>4, <1>5, <1>6, <1>7 DEF Inv

LEMMA StartUndoKeeps ==
  ASSUME Inv, NEW c \in Callers, StartUndo(c)
  PROVE  Inv'
<1>1. OnvifTypeOK' BY DEF Inv, OnvifTypeOK, Labels, StartUndo, Goto, fields
<1>2. Window' BY DEF Inv, OnvifTypeOK, Window, InWindow, StartUndo, Goto, fields
<1>3. Registered' BY DEF Inv, OnvifTypeOK, Registered, StartUndo, Goto, fields
<1>4. Responders' BY DEF Inv, OnvifTypeOK, Responders, Run1, StartUndo, Goto, fields
<1>5. Listeners'
  <2>1. /\ UNCHANGED <<ln, serving, took>> /\ listening' \subseteq listening
        /\ pc[c] \in {"start.undo", "start.failed"}
        /\ pc'[c] = "start.failed" \/ c \notin listening'
        /\ \A d \in Callers : d # c => pc'[d] = pc[d]
    BY DEF Inv, OnvifTypeOK, StartUndo, Goto, fields
  <2>2. ASSUME NEW x \in listening' PROVE Listen1(x)'
    <3>1. Listen1(x) /\ x \in Callers BY <2>1 DEF Inv, OnvifTypeOK, Listeners
    <3>2. CASE x = c BY <2>1, <3>2 DEF Listen1
    <3>3. CASE x # c BY <2>1, <3>1, <3>3 DEF Listen1, HasTaken
    <3> QED BY <3>2, <3>3
  <2> QED BY <2>2 DEF Listeners
<1>6. Servers'
  <2>1. /\ UNCHANGED <<http, serving, took>>
        /\ \A d \in Callers : /\ Published(d) => Published(d)'
                              /\ pc'[d] \in HasTaken => pc[d] \in HasTaken
    BY DEF Inv, OnvifTypeOK, StartUndo, Goto, fields, Published, HasTaken
  <2> QED BY <2>1 DEF Inv, Servers
<1>7. Waits'
  BY DEF Inv, OnvifTypeOK, Servers, Published, Responders, Waits, Failing, StartUndo, Goto,
       fields
<1> QED BY <1>1, <1>2, <1>3, <1>4, <1>5, <1>6, <1>7 DEF Inv

LEMMA StartServeKeeps ==
  ASSUME Inv, NEW c \in Callers, StartServe(c)
  PROVE  Inv'
<1>1. OnvifTypeOK' BY DEF Inv, OnvifTypeOK, Labels, StartServe, Goto, fields
<1>2. Window' BY DEF Inv, OnvifTypeOK, Window, InWindow, StartServe, Goto, fields
<1>3. Registered' BY DEF Inv, OnvifTypeOK, Registered, StartServe, Goto, fields
<1>4. Responders' BY DEF Inv, OnvifTypeOK, Responders, Run1, StartServe, Goto, fields
<1>5. Listeners'
  BY DEF Inv, OnvifTypeOK, InWindow, HasTaken, Listeners, Listen1, StartServe, Goto, fields
<1>6. Servers' BY DEF Inv, OnvifTypeOK, HasTaken, Servers, Published, StartServe, Goto, fields
<1>7. Waits'
  BY DEF Inv, OnvifTypeOK, Servers, Published, Responders, Waits, Failing, StartServe, Goto,
       fields
<1> QED BY <1>1, <1>2, <1>3, <1>4, <1>5, <1>6, <1>7 DEF Inv

LEMMA ServeKeeps ==
  ASSUME Inv, NEW c \in Callers, Serve(c)
  PROVE  Inv'
<1>1. OnvifTypeOK' BY DEF Inv, OnvifTypeOK, Labels, Serve, fields
<1>2. Window' BY DEF Inv, OnvifTypeOK, Window, Serve, fields
<1>3. Registered' BY DEF Inv, OnvifTypeOK, Registered, Serve, fields
<1>4. Responders' BY DEF Inv, OnvifTypeOK, Responders, Run1, Serve, fields
<1>5. Listeners' BY DEF Inv, OnvifTypeOK, Listeners, Listen1, Serve, fields
<1>6. Servers' BY DEF Inv, OnvifTypeOK, Servers, Published, Serve, fields
<1>7. Waits' BY DEF Inv, OnvifTypeOK, Servers, Published, Responders, Waits, Failing, Serve, fields
<1> QED BY <1>1, <1>2, <1>3, <1>4, <1>5, <1>6, <1>7 DEF Inv

LEMMA CloseAbortKeeps ==
  ASSUME Inv, NEW c \in Callers, CloseAbort(c)
  PROVE  Inv'
<1>1. OnvifTypeOK' BY DEF Inv, OnvifTypeOK, Labels, CloseAbort, Goto, resources, AtLoop, Closed
<1>2. Window' BY DEF Inv, OnvifTypeOK, Window, InWindow, CloseAbort, Goto, resources, AtLoop, Closed
<1>3. Registered' BY DEF Inv, OnvifTypeOK, Registered, CloseAbort, Goto, resources, AtLoop, Closed
<1>4. Responders'
  BY DEF Inv, OnvifTypeOK, Responders, Run1, CloseAbort, Goto, resources, AtLoop, Closed
<1>5. Listeners'
  BY DEF Inv, OnvifTypeOK, Window, HasTaken, Listeners, Listen1, CloseAbort, Goto, resources,
       AtLoop, Closed
<1>6. Servers'
  BY DEF Inv, OnvifTypeOK, HasTaken, Servers, Published, CloseAbort, Goto, resources, AtLoop,
       Closed
<1>7. Waits'
  BY DEF Inv, OnvifTypeOK, OrNobody, Servers, Published, Responders, Waits, Failing, CloseAbort,
       Goto, resources, AtLoop, Closed
<1> QED BY <1>1, <1>2, <1>3, <1>4, <1>5, <1>6, <1>7 DEF Inv

LEMMA CloseJoinKeeps ==
  ASSUME Inv, NEW c \in Callers, CloseJoin(c)
  PROVE  Inv'
<1>0. /\ UNCHANGED <<discovery, fields, cams, advertised, resources, took>>
      /\ pc[c] \in {"new", "close.wait", "close.join"} /\ pc'[c] \in {"close.join", "done"}
      /\ \A d \in Callers : d # c => pc'[d] = pc[d] /\ awaited'[d] = awaited[d]
  BY DEF Inv, OnvifTypeOK, CloseJoin, Goto, AtLoop
<1>1. pc' \in [Callers -> Labels] /\ awaited' \in [Callers -> OrNobody]
  <2>1. pc' \in [Callers -> Labels] BY DEF Inv, OnvifTypeOK, CloseJoin, Goto, Labels
  <2>2. awaited' \in [Callers -> OrNobody] BY DEF Inv, OnvifTypeOK, CloseJoin
  <2> QED BY <2>1, <2>2
<1>2. OnvifTypeOK' BY <1>0, <1>1 DEF Inv, OnvifTypeOK, fields, resources
<1>3. Window'
  <2>1. \A d \in Callers : pc'[d] \in InWindow <=> pc[d] \in InWindow
    BY <1>0 DEF InWindow
  <2> QED BY <1>0, <2>1 DEF Inv, Window, fields
<1>4. Registered' BY <1>0 DEF Inv, Registered, fields
<1>5. Responders'
  <2>1. \A x \in running : x \in Callers /\ Run1(x) BY DEF Inv, OnvifTypeOK, Responders
  <2>2. \A x \in running : Run1(x)' BY <1>0, <2>1 DEF Run1, fields
  <2> QED BY <1>0, <2>2 DEF Inv, Responders, resources
<1>6. Listeners'
  <2>1. \A x \in listening : x \in Callers /\ Listen1(x) BY DEF Inv, OnvifTypeOK, Listeners
  <2>2. \A x \in listening : Listen1(x)'
    BY <1>0, <2>1 DEF Listen1, InWindow, HasTaken, fields, resources
  <2> QED BY <1>0, <2>2 DEF Listeners, resources
<1>7. Servers'
  <2>1. \A d \in Callers : /\ Published(d) => Published(d)'
                           /\ pc'[d] \in HasTaken => pc[d] \in HasTaken
    BY <1>0 DEF Published, HasTaken
  <2> QED BY <1>0, <2>1 DEF Inv, Servers, fields, resources
<1>8. Waits'
  <2>1. ASSUME NEW a \in Callers, Failing(a) PROVE Failing(a)'
    <3>1. CASE a = c BY <1>0, <2>1, <3>1 DEF Inv, Window, InWindow, Failing
    <3>2. CASE a # c BY <1>0, <2>1, <3>2 DEF Failing, fields, resources
    <3> QED BY <3>1, <3>2
  <2> QED BY <1>0, <2>1 DEF Inv, Waits
<1> QED BY <1>2, <1>3, <1>4, <1>5, <1>6, <1>7, <1>8 DEF Inv

LEMMA CloseTakeKeeps ==
  ASSUME Inv, NEW c \in Callers, CloseTake(c)
  PROVE  Inv'
<1>1. OnvifTypeOK' BY DEF Inv, OnvifTypeOK, OrNobody, Labels, CloseTake, Goto, resources, AtLoop, Closed
<1>2. Window' BY DEF Inv, OnvifTypeOK, Window, InWindow, CloseTake, Goto, resources, AtLoop, Closed
<1>3. Registered' BY DEF Inv, OnvifTypeOK, Registered, CloseTake, Goto, resources, AtLoop, Closed
<1>4. Responders'
  BY DEF Inv, OnvifTypeOK, OrNobody, Window, Responders, Run1, CloseTake, Goto, resources,
       AtLoop, Closed
<1>5. Listeners'
  <2>1. /\ UNCHANGED <<listening, serving>> /\ pc[c] \in {"new", "close.wait"}
        /\ \A d \in Callers : d # c => pc'[d] = pc[d] /\ took'[d] = took[d]
    BY DEF Inv, OnvifTypeOK, CloseTake, Goto, resources, AtLoop
  <2>2. \/ UNCHANGED ln
        \/ ln' = Nobody /\ pc'[c] = "close.stop" /\ took'[c].http = ln
    BY DEF Inv, OnvifTypeOK, Window, CloseTake, Goto
  <2>3. ASSUME NEW x \in listening' PROVE Listen1(x)'
    <3>1. Listen1(x) /\ x \in Callers BY <2>1 DEF Inv, OnvifTypeOK, Listeners
    <3>2. CASE pc[x] \in InWindow \cup {"start.undo", "start.failed"}
      <4>1. x # c BY <2>1, <3>2 DEF InWindow
      <4> QED BY <2>1, <3>1, <3>2, <4>1 DEF Listen1, InWindow
    <3>3. CASE ln = x BY <2>2, <3>3 DEF Listen1, HasTaken
    <3>4. CASE serving[x] = "shut" BY <2>1, <3>4 DEF Listen1
    <3>5. ASSUME NEW d \in Callers, took[d].http = x, pc[d] \in HasTaken PROVE Listen1(x)'
      <4>1. d # c BY <2>1, <3>5 DEF HasTaken
      <4> QED BY <2>1, <3>5, <4>1 DEF Listen1, HasTaken
    <3> QED BY <3>1, <3>2, <3>3, <3>4, <3>5 DEF Listen1
  <2> QED BY <2>3 DEF Listeners
<1>6. Servers'
  <2>1. /\ UNCHANGED serving /\ pc[c] \in {"new", "close.wait"}
        /\ \A d \in Callers : Published(d) => Published(d)'
    BY DEF Inv, OnvifTypeOK, CloseTake, AtLoop, Goto, resources, Published
  <2>2. \A d \in Callers : http' = d \/ (\E e \in Callers : took'[e].http = d) =>
                            http = d \/ \E e \in Callers : took[e].http = d
    BY OnvifAssumption DEF Inv, OnvifTypeOK, OrNobody, CloseTake
  <2>3. \A d \in Callers : pc'[d] \in HasTaken => took'[d].http # Nobody
    BY DEF Inv, OnvifTypeOK, OrNobody, HasTaken, CloseTake, Goto, AtLoop, Window, Servers
  <2> QED BY <2>1, <2>2, <2>3 DEF Inv, Servers
<1>7. Waits'
  BY OnvifAssumption DEF Inv, OnvifTypeOK, OrNobody, Window, Servers, Published, Responders,
       Waits, Failing, CloseTake, Goto, resources, AtLoop, Closed
<1> QED BY <1>1, <1>2, <1>3, <1>4, <1>5, <1>6, <1>7 DEF Inv

LEMMA CloseResponderKeeps ==
  ASSUME Inv, NEW c \in Callers, CloseResponder(c)
  PROVE  Inv'
<1>1. OnvifTypeOK' BY DEF Inv, OnvifTypeOK, Labels, CloseResponder, Goto, fields
<1>2. Window' BY DEF Inv, OnvifTypeOK, Window, InWindow, CloseResponder, Goto, fields
<1>3. Registered' BY DEF Inv, OnvifTypeOK, Registered, CloseResponder, Goto, fields
<1>4. Responders' BY DEF Inv, OnvifTypeOK, Responders, Run1, CloseResponder, Goto, fields
<1>5. Listeners'
  BY DEF Inv, OnvifTypeOK, InWindow, HasTaken, Listeners, Listen1, CloseResponder, Goto, fields
<1>6. Servers' BY DEF Inv, OnvifTypeOK, HasTaken, Servers, Published, CloseResponder, Goto, fields
<1>7. Waits'
  BY DEF Inv, OnvifTypeOK, Servers, Published, Responders, Waits, Failing, CloseResponder,
       Goto, fields
<1> QED BY <1>1, <1>2, <1>3, <1>4, <1>5, <1>6, <1>7 DEF Inv

LEMMA CloseHttpKeeps ==
  ASSUME Inv, NEW c \in Callers, CloseHttp(c)
  PROVE  Inv'
<1>1. OnvifTypeOK' BY DEF Inv, OnvifTypeOK, Labels, CloseHttp, Goto, fields
<1>2. Window' BY DEF Inv, OnvifTypeOK, Window, InWindow, CloseHttp, Goto, fields
<1>3. Registered' BY DEF Inv, OnvifTypeOK, Registered, CloseHttp, Goto, fields
<1>4. Responders' BY DEF Inv, OnvifTypeOK, Responders, Run1, CloseHttp, Goto, fields
<1>5. Listeners' BY DEF Inv, OnvifTypeOK, InWindow, Listeners, Listen1, CloseHttp, Goto, fields
<1>6. Servers' BY DEF Inv, OnvifTypeOK, HasTaken, Servers, Published, CloseHttp, Goto, fields
<1>7. Waits'
  BY DEF Inv, OnvifTypeOK, Servers, Published, Responders, Waits, Failing, CloseHttp, Goto,
       fields
<1> QED BY <1>1, <1>2, <1>3, <1>4, <1>5, <1>6, <1>7 DEF Inv

LEMMA CloseEndKeeps ==
  ASSUME Inv, NEW c \in Callers, CloseEnd(c)
  PROVE  Inv'
<1>1. OnvifTypeOK' BY DEF Inv, OnvifTypeOK, OrNobody, Labels, CloseEnd, Goto, resources
<1>2. Window' BY DEF Inv, OnvifTypeOK, Window, InWindow, CloseEnd, Goto, resources
<1>3. Registered' BY DEF Inv, OnvifTypeOK, Registered, CloseEnd, Goto, resources
<1>4. Responders' BY DEF Inv, OnvifTypeOK, Responders, Run1, CloseEnd, Goto, resources
<1>5. Listeners'
  BY DEF Inv, OnvifTypeOK, InWindow, HasTaken, Listeners, Listen1, CloseEnd, Goto, resources
<1>6. Servers' BY DEF Inv, OnvifTypeOK, HasTaken, Servers, Published, CloseEnd, Goto, resources
<1>7. Waits'
  BY DEF Inv, OnvifTypeOK, Servers, Published, Responders, Waits, Failing, CloseEnd, Goto,
       resources
<1> QED BY <1>1, <1>2, <1>3, <1>4, <1>5, <1>6, <1>7 DEF Inv

(***************************************************************************)
(* Cameras come and go outside the windows, with their registration.       *)
(***************************************************************************)
LEMMA CamerasKeep ==
  ASSUME Inv, NEW x \in Cameras, OnvifAddCamera(x) \/ OnvifRemoveCamera(x)
  PROVE  Inv'
<1>0. /\ UNCHANGED <<discovery, fields, resources, pc, took, awaited>>
      /\ starting = Nobody
  BY DEF OnvifAddCamera, OnvifRemoveCamera
<1>1. cams' \subseteq Cameras /\ advertised' \in [Callers -> SUBSET Cameras]
  BY DEF Inv, OnvifTypeOK, OnvifAddCamera, OnvifRemoveCamera, Register
<1>2. OnvifTypeOK' BY <1>0, <1>1 DEF Inv, OnvifTypeOK, fields, resources
<1>3. Registered'
  <2>1. CASE responder = Nobody BY <1>0, <2>1 DEF Registered, fields
  <2>2. CASE responder # Nobody
    <3>1. responder \in Callers /\ advertised[responder] = cams
      BY <2>2 DEF Inv, OnvifTypeOK, OrNobody, Registered
    <3> QED BY <1>0, <2>2, <3>1
         DEF Inv, OnvifTypeOK, Registered, OnvifAddCamera, OnvifRemoveCamera, Register, fields
  <2> QED BY <2>1, <2>2
<1>4. Window' /\ Responders' /\ Listeners'
  BY <1>0 DEF Inv, Window, Responders, Run1, Listeners, Listen1, fields, resources
<1>5. Servers' /\ Waits'
  BY <1>0 DEF Inv, Servers, Published, Waits, Failing, fields, resources
<1> QED BY <1>2, <1>3, <1>4, <1>5 DEF Inv

LEMMA InvStarts == OnvifInit => Inv
<1> SUFFICES ASSUME OnvifInit PROVE Inv OBVIOUS
<1>1. OnvifTypeOK BY DEF OnvifInit, OnvifTypeOK, OrNobody, Labels
<1>2. Window /\ Registered BY OnvifAssumption DEF OnvifInit, Window, InWindow, Registered
<1>3. Responders /\ Listeners BY DEF OnvifInit, Responders, Listeners
<1>4. Servers /\ Waits BY OnvifAssumption DEF OnvifInit, Servers, HasTaken, Waits
<1> QED BY <1>1, <1>2, <1>3, <1>4 DEF Inv

LEMMA InvKept == Inv /\ [OnvifNext]_onvifVars => Inv'
<1> SUFFICES ASSUME Inv, [OnvifNext]_onvifVars PROVE Inv' OBVIOUS
<1>1. ASSUME NEW c \in Callers,
             StartBegin(c) \/ StartRun(c) \/ StartReady(c) \/ StartError(c) \/ StartTimeout(c)
               \/ StartSettle(c) \/ StartUndo(c) \/ StartServe(c) \/ Serve(c)
      PROVE  Inv'
  BY <1>1, StartKeeps, StartRunKeeps, StartReadyKeeps, StartErrorKeeps, StartTimeoutKeeps,
     StartSettleKeeps, StartUndoKeeps, StartServeKeeps, ServeKeeps
<1>2. ASSUME NEW c \in Callers,
             CloseAbort(c) \/ CloseJoin(c) \/ CloseTake(c) \/ CloseResponder(c)
               \/ CloseHttp(c) \/ CloseEnd(c)
      PROVE  Inv'
  BY <1>2, CloseAbortKeeps, CloseJoinKeeps, CloseTakeKeeps, CloseResponderKeeps,
     CloseHttpKeeps, CloseEndKeeps
<1>3. ASSUME NEW c \in Callers, Binds(c) \/ Dies(c) PROVE Inv'
  BY <1>3, BindsKeeps, DiesKeeps
<1>4. ASSUME NEW x \in Cameras, OnvifAddCamera(x) \/ OnvifRemoveCamera(x) PROVE Inv'
  BY <1>4, CamerasKeep
<1>5. CASE UNCHANGED onvifVars
  BY <1>5 DEF onvifVars, fields, resources, Inv, OnvifTypeOK, Window, Registered, Responders, Run1,
       Listeners, Listen1, Servers, Published, Waits, Failing
<1> QED BY <1>1, <1>2, <1>3, <1>4, <1>5 DEF OnvifNext, Proceed

LEMMA InvAlways == OnvifSpec => []Inv
  BY InvStarts, InvKept, PTL DEF OnvifSpec

(* Every variable of the ONVIF server has its type.                        *)
THEOREM TypeCorrect == OnvifSpec => []OnvifTypeOK
<1>1. Inv => OnvifTypeOK BY DEF Inv
<1> QED BY <1>1, InvAlways, PTL

(* A probe finds the cameras that are served, whatever was added, removed, *)
(* started or closed meanwhile.                                            *)
THEOREM AdvertisedAlwaysServed == OnvifSpec => []AdvertisedAreServed
<1>1. Inv => AdvertisedAreServed BY DEF Inv, Registered, AdvertisedAreServed
<1> QED BY <1>1, InvAlways, PTL

(* Failed, aborted and raced Starts leave no listener and no responder     *)
(* that nobody will close.                                                 *)
THEOREM NothingStaysOrphaned == OnvifSpec => []NothingOrphaned
<1>1. ASSUME Inv PROVE NothingOrphaned
  <2>1. ASSUME NEW c \in running
        PROVE  \/ responder = c \/ pc[c] # "done"
               \/ \E d \in Callers : took[d].responder = c /\ pc[d] = "close.stop"
    BY <1>1, <2>1 DEF Inv, Responders, Run1
  <2>2. ASSUME NEW c \in listening
        PROVE  \/ ln = c \/ pc[c] # "done" \/ serving[c] = "shut"
               \/ \E d \in Callers : took[d].http = c /\ pc[d] \in HasTaken
    BY <1>1, <2>2 DEF Inv, Listeners, Listen1, InWindow
  <2>3. ASSUME NEW c \in Callers, pc[c] = "close.wait", Closed(awaited[c])
        PROVE  awaited[c] \notin running \cup listening /\ serving[awaited[c]] = "no"
    <3>1. awaited[c] \in Callers /\ Failing(awaited[c]) BY <1>1, <2>3 DEF Inv, Waits
    <3>2. starting # awaited[c]
      BY <1>1, <2>3, <3>1 DEF Inv, Window, InWindow, Closed
    <3> QED BY <2>3, <3>1, <3>2 DEF Failing, Closed
  <2> QED BY <2>1, <2>2, <2>3 DEF NothingOrphaned, HasTaken
<1> QED BY <1>1, InvAlways, PTL

(* The Close in closing is the one that has taken the fields and is not    *)
(* over; a Close that joined another joined one that had.                  *)
Stopping == {"close.stop", "close.http", "close.end"}
Closers ==
  /\ \A c \in Callers : pc[c] \in Stopping <=> closing = c
  /\ \A c \in Callers :
       pc[c] = "close.join" =>
         awaited[c] \in Callers /\ pc[awaited[c]] \in Stopping \cup {"done"}

(* A step moves its caller on, and from a Close that stops the server only *)
(* towards its end.                                                        *)
LEMMA ClosersMove ==
  ASSUME OnvifTypeOK, Closers, NEW c \in Callers, NEW label \in Labels \ Stopping,
         pc[c] \notin Stopping \cup {"done"}, label # "close.join",
         Goto(c, label), UNCHANGED <<closing>>,
         \A d \in Callers \ {c} : awaited'[d] = awaited[d]
  PROVE  Closers'
<1>1. /\ pc'[c] = label /\ \A d \in Callers \ {c} : pc'[d] = pc[d]
  BY DEF OnvifTypeOK, Goto
<1>2. \A d \in Callers : pc'[d] \in Stopping <=> closing' = d
  BY <1>1 DEF Closers
<1>3. ASSUME NEW d \in Callers, pc'[d] = "close.join"
      PROVE  awaited'[d] \in Callers /\ pc'[awaited'[d]] \in Stopping \cup {"done"}
  BY <1>1, <1>3 DEF Closers
<1> QED BY <1>2, <1>3 DEF Closers

LEMMA ClosersKept == OnvifTypeOK /\ Closers /\ [OnvifNext]_onvifVars => Closers'
<1> SUFFICES ASSUME OnvifTypeOK, Closers, [OnvifNext]_onvifVars PROVE Closers'
  OBVIOUS
<1>t. /\ pc \in [Callers -> Labels] /\ awaited \in [Callers -> OrNobody]
      /\ closing \in OrNobody /\ Nobody \notin Callers
  BY OnvifAssumption DEF OnvifTypeOK
<1>1. ASSUME NEW c \in Callers,
             \/ StartBegin(c) \/ StartRun(c) \/ StartReady(c) \/ StartError(c) \/ StartTimeout(c)
             \/ StartSettle(c) \/ StartUndo(c) \/ StartServe(c)
      PROVE  Closers'
  <2>1. /\ pc[c] \notin Stopping \cup {"done"}
        /\ \E label \in Labels \ (Stopping \cup {"close.join"}) : Goto(c, label)
        /\ UNCHANGED <<closing, awaited>>
    BY <1>1 DEF StartBegin, StartRun, StartReady, StartError, StartTimeout, StartSettle, StartUndo,
                StartServe, fields, Labels, Stopping
  <2> QED BY <2>1, ClosersMove
<1>2. ASSUME NEW c \in Callers, CloseAbort(c)
      PROVE  Closers'
  <2>1. /\ pc[c] \notin Stopping \cup {"done"} /\ Goto(c, "close.wait")
        /\ UNCHANGED closing
        /\ \A d \in Callers \ {c} : awaited'[d] = awaited[d]
    BY <1>2, <1>t DEF CloseAbort, AtLoop, Stopping
  <2> QED BY <2>1, ClosersMove DEF Labels, Stopping
<1>3. ASSUME NEW c \in Callers, CloseJoin(c)
      PROVE  Closers'
  <2>1. CASE /\ AtLoop(c) /\ closing # Nobody
             /\ awaited' = [awaited EXCEPT ![c] = closing]
             /\ Goto(c, "close.join")
             /\ UNCHANGED closing
    <3>1. /\ closing \in Callers /\ pc[closing] \in Stopping /\ closing # c
          /\ pc[c] \notin Stopping \cup {"done"}
      BY <1>t, <2>1 DEF Closers, OrNobody, AtLoop, Stopping
    <3>2. /\ pc'[c] = "close.join" /\ awaited'[c] = closing
          /\ \A d \in Callers \ {c} : pc'[d] = pc[d] /\ awaited'[d] = awaited[d]
      BY <1>t, <2>1 DEF Goto
    <3>3. \A d \in Callers : pc'[d] \in Stopping <=> closing' = d
      BY <2>1, <3>1, <3>2 DEF Closers, Stopping
    <3>4. ASSUME NEW d \in Callers, pc'[d] = "close.join"
          PROVE  awaited'[d] \in Callers /\ pc'[awaited'[d]] \in Stopping \cup {"done"}
      BY <3>1, <3>2, <3>4 DEF Closers
    <3> QED BY <3>3, <3>4 DEF Closers
  <2>2. CASE /\ pc[c] = "close.join" /\ Goto(c, "done")
             /\ UNCHANGED <<closing, awaited>>
    BY <2>2, ClosersMove DEF Labels, Stopping
  <2> QED BY <1>3, <2>1, <2>2 DEF CloseJoin, fields
<1>4. ASSUME NEW c \in Callers, CloseTake(c)
      PROVE  Closers'
  <2>1. /\ pc[c] \notin Stopping \cup {"done", "close.join"} /\ closing = Nobody
        /\ UNCHANGED awaited
    BY <1>4 DEF CloseTake, AtLoop, Stopping
  <2>2. CASE Goto(c, "done") /\ UNCHANGED closing
    BY <2>1, <2>2, ClosersMove DEF Labels, Stopping
  <2>3. CASE closing' = c /\ Goto(c, "close.stop")
    <3>1. /\ pc'[c] = "close.stop"
          /\ \A d \in Callers \ {c} : pc'[d] = pc[d]
      BY <1>t, <2>3 DEF Goto
    <3>2. \A d \in Callers : pc'[d] \in Stopping <=> closing' = d
      BY <1>t, <2>1, <2>3, <3>1 DEF Closers, Stopping
    <3>3. ASSUME NEW d \in Callers, pc'[d] = "close.join"
          PROVE  awaited'[d] \in Callers /\ pc'[awaited'[d]] \in Stopping \cup {"done"}
      BY <2>1, <3>1, <3>3 DEF Closers, Stopping
    <3> QED BY <3>2, <3>3 DEF Closers
  <2> QED BY <1>4, <2>2, <2>3 DEF CloseTake
<1>5. ASSUME NEW c \in Callers, CloseResponder(c) \/ CloseHttp(c)
      PROVE  Closers'
  <2>1. /\ pc[c] \in Stopping
        /\ \E label \in Stopping : Goto(c, label)
        /\ UNCHANGED <<closing, awaited>>
    BY <1>5 DEF CloseResponder, CloseHttp, fields, Stopping
  <2>2. /\ pc'[c] \in Stopping /\ \A d \in Callers \ {c} : pc'[d] = pc[d]
    BY <1>t, <2>1 DEF Goto
  <2> QED BY <2>1, <2>2 DEF Closers, Stopping
<1>6. ASSUME NEW c \in Callers, CloseEnd(c)
      PROVE  Closers'
  <2>1. /\ pc[c] \in Stopping /\ closing' = Nobody
        /\ pc'[c] = "done" /\ \A d \in Callers \ {c} : pc'[d] = pc[d]
        /\ UNCHANGED awaited
    BY <1>6, <1>t DEF CloseEnd, Goto, Stopping
  <2>2. \A d \in Callers : pc'[d] \in Stopping <=> closing' = d
    BY <1>t, <2>1 DEF Closers, Stopping
  <2>3. ASSUME NEW d \in Callers, pc'[d] = "close.join"
        PROVE  awaited'[d] \in Callers /\ pc'[awaited'[d]] \in Stopping \cup {"done"}
    BY <2>1, <2>3 DEF Closers
  <2> QED BY <2>2, <2>3 DEF Closers
<1>7. CASE \/ UNCHANGED onvifVars
           \/ \E c \in Callers : Serve(c) \/ Binds(c) \/ Dies(c)
           \/ \E x \in Cameras : OnvifAddCamera(x) \/ OnvifRemoveCamera(x)
  <2>1. UNCHANGED <<pc, closing, awaited>>
    BY <1>7 DEF Serve, Binds, Dies, OnvifAddCamera, OnvifRemoveCamera, fields, onvifVars
  <2> QED BY <2>1 DEF Closers
<1> QED
  BY <1>1, <1>2, <1>3, <1>4, <1>5, <1>6, <1>7 DEF OnvifNext, Proceed

(* However many Starts and Closes meet, whoever is waited for waits for    *)
(* nobody: the Start in its window, the Close that took the fields, or one *)
(* of them that has returned.  So no calls wait for one another.           *)
THEOREM NobodyWaitsForAWaiter == OnvifSpec => []NoWaitForAWaiter
<1>1. OnvifInit => Closers
  BY OnvifAssumption DEF OnvifInit, Closers, Stopping
<1>2. Inv /\ Closers => NoWaitForAWaiter
  <2> SUFFICES ASSUME Inv, Closers, NEW c \in Callers, pc[c] \in {"close.wait", "close.join"}
               PROVE  pc[awaited[c]] \notin {"new", "close.wait", "close.join"}
    BY DEF NoWaitForAWaiter
  <2>1. CASE pc[c] = "close.join"
    BY <2>1 DEF Closers, Stopping
  <2>2. CASE pc[c] = "close.wait"
    <3>1. awaited[c] \in Callers /\ Failing(awaited[c])
      BY <2>2 DEF Inv, Waits
    <3>2. starting = awaited[c] => pc[awaited[c]] \in InWindow
      BY <3>1 DEF Inv, Window
    <3> QED BY <3>1, <3>2 DEF Failing, InWindow
  <2> QED BY <2>1, <2>2
<1>3. Inv => OnvifTypeOK
  BY DEF Inv
<1> QED BY <1>1, <1>2, <1>3, InvAlways, ClosersKept, PTL DEF OnvifSpec
=============================================================================
