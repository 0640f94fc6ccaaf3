------------------------------- MODULE Fleet -------------------------------
(***************************************************************************)
(* A running fleet (camfarm.go): cameras come and go while callers hold    *)
(* handles to them.  Fleet.mu covers a whole AddCamera but only the first  *)
(* part of a RemoveCamera, whose journal entry and removals from the RTSP  *)
(* and ONVIF servers follow unlocked; Inject and Clear hold only the       *)
(* handle's own lock, and Close runs beside all of them.  Each call is a   *)
(* sequence of steps of its caller, cut where another caller may run.      *)
(*                                                                         *)
(* A camera is named by its index, which no two cameras share: the same    *)
(* id, added twice, is two cameras.  The RTSP and ONVIF servers are their  *)
(* dispatch tables here, and faults are of the per-request class, which    *)
(* takes effect inside SetFaults.                                          *)
(***************************************************************************)
EXTENDS Naturals, Sequences, FiniteSets

CONSTANTS Callers,   \* goroutines calling the fleet
          Ids,       \* camera ids
          Files,     \* source files
          Fixture,   \* the embedded source, never evicted from the cache
          Kinds,     \* kinds of fault
          None,      \* no camera, no media
          MaxIndex,  \* bound on the cameras ever started
          MaxWrites, \* bound on the overwrites of each source file
          MaxSwaps   \* bound on the calls of Inject and Clear

VARIABLES mu,         \* Fleet.mu: its holder, or None
          cameras,    \* Fleet.cameras: the live camera of each id, or None
          nextIndex,  \* Fleet.nextIndex
          sources,    \* Fleet.sources: parsed media, each with its key
          closed,     \* Fleet.closed: open or closed
          journal,    \* the journal's entries about each id
          camera,     \* the handle of every camera ever added: its id and media
          removed,    \* cameras whose removed flag is set
          faults,     \* Camera.faults of each handle
          rtsp,       \* rtsp.Server.cams
          rtspUp,     \* up while rtsp.Server.srv is not nil, then down
          installed,  \* the fault set each RTSP camera applies
          onvif,      \* onvif.Server.cams
          written,    \* how often each file was overwritten (size and mtime)
          swaps,      \* how many Inject and Clear calls began
          pc,         \* what each caller is doing
          job         \* and to what

fleetVars == <<mu, cameras, nextIndex, sources, closed, removed, camera>>
serverVars == <<rtsp, rtspUp, installed, onvif>>
vars == <<fleetVars, serverVars, journal, faults, written, swaps, pc, job>>

Index == 0 .. MaxIndex - 1
Key == [source : Files \cup {Fixture}, written : 0 .. MaxWrites]

(* A parse in memory: what it was looked up by, what the file held, and    *)
(* which parse it is: the index its first camera will get, since a parse   *)
(* that gets its camera no index is evicted.                               *)
Media == [key : Key, content : 0 .. MaxWrites, parse : 0 .. MaxIndex]

Camera == [id : Ids, media : Media]

ASSUME FleetAssumption ==
  /\ MaxIndex \in Nat /\ MaxWrites \in Nat
  /\ Fixture \notin Files
  /\ None \notin Nat \cup Ids \cup Callers \cup Key \cup Media \cup Camera

OrNone(S) == S \cup {None}

Job == [id : OrNone(Ids), cam : OrNone(Index), key : OrNone(Key), media : OrNone(Media)]
NoJob == [id |-> None, cam |-> None, key |-> None, media |-> None]

State == {"idle", "add.load", "add.check", "add.rtsp", "add.onvif", "add.undo",
          "rm.publish", "rm.rtsp", "rm.onvif", "swap.inject", "swap.clear",
          "close.rtsp"}

Live == {cameras[id] : id \in Ids} \ {None}

Init ==
  /\ mu = None
  /\ cameras = [id \in Ids |-> None]
  /\ nextIndex = 0
  /\ sources = {}
  /\ closed = "open"
  /\ journal = [id \in Ids |-> <<>>]
  /\ camera = [n \in Index |-> None]
  /\ removed = {}
  /\ faults = [n \in Index |-> {}]
  /\ rtsp = [id \in Ids |-> None]
  /\ rtspUp = "up"
  /\ installed = [n \in Index |-> {}]
  /\ onvif = [id \in Ids |-> None]
  /\ written = [f \in Files \cup {Fixture} |-> 0]
  /\ swaps = 0
  /\ pc = [p \in Callers |-> "idle"]
  /\ job = [p \in Callers |-> NoJob]

Goto(p, label) == pc' = [pc EXCEPT ![p] = label]

Return(p) == Goto(p, "idle") /\ job' = [job EXCEPT ![p] = NoJob]

(* The media still in use once the camera table is table.                  *)
InUse(table) == {camera[table[id]].media : id \in {i \in Ids : table[i] # None}}

EvictNever(m, table) == sources                      \* mutant: nothing evicts

(* evictUnusedSource: the cache without m, unless a camera uses m.         *)
Evict(m, table) ==
  IF m \in InUse(table) THEN sources
  ELSE {s \in sources : s # m \/ s.key.source = Fixture}

Record(id, type) == journal' = [journal EXCEPT ![id] = Append(@, type)]

(***************************************************************************)
(* AddCamera.                                                              *)
(***************************************************************************)

(* Lock, refuse a duplicate id, and take the source's key.                 *)
AddBegin(p, id, src) ==
  /\ pc[p] = "idle" /\ mu = None
  /\ cameras[id] = None
  /\ mu' = p
  /\ Goto(p, "add.load")
  /\ job' = [job EXCEPT ![p].id = id,
                        ![p].key = [source |-> src, written |-> written[src]]]
  /\ UNCHANGED <<cameras, nextIndex, sources, closed, removed, camera, serverVars,
                 journal, faults, written, swaps>>

(* sourceMedia, after its stat: the cached parse, or a new one of whatever *)
(* the file holds by now, or an error and a return.                        *)
AddLoad(p) ==
  /\ pc[p] = "add.load"
  /\ LET key  == job[p].key
         hit  == {m \in sources : m.key = key}
         read == [key |-> key, content |-> written[key.source], parse |-> nextIndex]
     IN  \/ /\ hit # {}
            /\ job' = [job EXCEPT ![p].media = CHOOSE m \in hit : TRUE]
            /\ Goto(p, "add.check")
            /\ UNCHANGED <<mu, sources>>
         \/ /\ hit = {}
            /\ job' = [job EXCEPT ![p].media = read]
            /\ sources' = sources \cup {read}
            /\ Goto(p, "add.check")
            /\ UNCHANGED mu
         \/ /\ hit = {} /\ key.source \in Files
            /\ mu' = None
            /\ Return(p)
            /\ UNCHANGED <<sources>>
  /\ UNCHANGED <<cameras, nextIndex, closed, removed, camera, serverVars,
                 journal, faults, written, swaps>>

(* What every failing return of AddCamera does after its media is loaded.  *)
AddFails(p) ==
  /\ sources' = Evict(job[p].media, cameras)
  /\ mu' = None
  /\ Return(p)

(* mutant: the next index is the number of live cameras.                   *)
AddCheckReuse(p) ==
  /\ pc[p] = "add.check"
  /\ \/ /\ AddFails(p)
        /\ UNCHANGED nextIndex
     \/ /\ nextIndex < MaxIndex
        /\ job' = [job EXCEPT ![p].cam = Cardinality(Live)]
        /\ nextIndex' = nextIndex + 1
        /\ Goto(p, "add.rtsp")
        /\ UNCHANGED <<mu, sources>>
  /\ UNCHANGED <<cameras, closed, removed, camera, serverVars, journal, faults,
                 written, swaps>>

(* checkAdvertised, and the camera's index.                                *)
AddCheck(p) ==
  /\ pc[p] = "add.check"
  /\ \/ /\ AddFails(p)
        /\ UNCHANGED nextIndex
     \/ /\ nextIndex < MaxIndex
        /\ job' = [job EXCEPT ![p].cam = nextIndex]
        /\ nextIndex' = nextIndex + 1
        /\ Goto(p, "add.rtsp")
        /\ UNCHANGED <<mu, sources>>
  /\ UNCHANGED <<cameras, closed, removed, camera, serverVars, journal, faults,
                 written, swaps>>

(* mutant: a known id is replaced.                                         *)
AddRtspReplaces(p) ==
  /\ pc[p] = "add.rtsp"
  /\ \/ /\ rtspUp = "up"
        /\ rtsp' = [rtsp EXCEPT ![job[p].id] = job[p].cam]
        /\ Goto(p, "add.onvif")
        /\ UNCHANGED <<mu, sources, job>>
     \/ AddFails(p) /\ UNCHANGED rtsp
  /\ UNCHANGED <<cameras, nextIndex, closed, removed, camera, rtspUp, installed,
                 onvif, journal, faults, written, swaps>>

(* rtsp.Server.AddCamera: refused once closed and for a known id, and it   *)
(* may fail to build the stream.                                           *)
AddRtsp(p) ==
  /\ pc[p] = "add.rtsp"
  /\ \/ /\ rtspUp = "up" /\ rtsp[job[p].id] = None
        /\ rtsp' = [rtsp EXCEPT ![job[p].id] = job[p].cam]
        /\ Goto(p, "add.onvif")
        /\ UNCHANGED <<mu, sources, job>>
     \/ AddFails(p) /\ UNCHANGED rtsp
  /\ UNCHANGED <<cameras, nextIndex, closed, removed, camera, rtspUp, installed,
                 onvif, journal, faults, written, swaps>>

(* mutant: a known id is replaced in the ONVIF server.                     *)
AddOnvifReplaces(p) ==
  /\ pc[p] = "add.onvif"
  /\ LET id == job[p].id
     IN  /\ onvif' = [onvif EXCEPT ![id] = job[p].cam]
         /\ cameras' = [cameras EXCEPT ![id] = job[p].cam]
         /\ camera' = [camera EXCEPT ![job[p].cam] = [id |-> id, media |-> job[p].media]]
         /\ Record(id, "added")
         /\ mu' = None
         /\ Return(p)
  /\ UNCHANGED <<nextIndex, sources, closed, removed, rtsp, rtspUp, installed,
                 faults, written, swaps>>

(* onvif.Server.AddCamera refuses a known id, or fails to advertise the    *)
(* camera; when it succeeds the camera is in the fleet and in the journal. *)
AddOnvif(p) ==
  /\ pc[p] = "add.onvif"
  /\ LET id == job[p].id
     IN  \/ /\ onvif[id] = None
            /\ onvif' = [onvif EXCEPT ![id] = job[p].cam]
            /\ cameras' = [cameras EXCEPT ![id] = job[p].cam]
            /\ camera' = [camera EXCEPT ![job[p].cam] = [id |-> id, media |-> job[p].media]]
            /\ Record(id, "added")
            /\ mu' = None
            /\ Return(p)
         \/ /\ Goto(p, "add.undo")
            /\ UNCHANGED <<onvif, cameras, camera, journal, mu, job>>
  /\ UNCHANGED <<nextIndex, sources, closed, removed, rtsp, rtspUp, installed,
                 faults, written, swaps>>

AddUndoForgotten(p) ==                     \* mutant: no rollback of the RTSP side
  /\ pc[p] = "add.undo"
  /\ AddFails(p)
  /\ UNCHANGED <<cameras, nextIndex, closed, removed, camera, serverVars, journal,
                 faults, written, swaps>>

(* The rollback of the RTSP side; a closed server refuses that too.        *)
AddUndo(p) ==
  /\ pc[p] = "add.undo"
  /\ rtsp' = IF rtspUp = "up" THEN [rtsp EXCEPT ![job[p].id] = None] ELSE rtsp
  /\ AddFails(p)
  /\ UNCHANGED <<cameras, nextIndex, closed, removed, camera, rtspUp, installed,
                 onvif, journal, faults, written, swaps>>

(***************************************************************************)
(* RemoveCamera.                                                           *)
(***************************************************************************)

(* The locked part: the handle is dead, the id free in the fleet.          *)
RemoveBegin(p, id) ==
  /\ pc[p] = "idle" /\ mu = None
  /\ cameras[id] # None
  /\ LET table == [cameras EXCEPT ![id] = None]
     IN  /\ cameras' = table
         /\ sources' = Evict(camera[cameras[id]].media, table)
  /\ removed' = removed \cup {cameras[id]}
  /\ Goto(p, "rm.publish")
  /\ job' = [job EXCEPT ![p].id = id]
  /\ UNCHANGED <<mu, nextIndex, closed, camera, serverVars, journal, faults,
                 written, swaps>>

(* mutant: the servers forget the camera before the journal says so.       *)
RemovePublishLast(p) ==
  /\ pc[p] = "rm.publish"
  /\ \/ /\ job[p].cam = None
        /\ rtsp' = IF rtspUp = "up" THEN [rtsp EXCEPT ![job[p].id] = None] ELSE rtsp
        /\ onvif' = [onvif EXCEPT ![job[p].id] = None]
        /\ job' = [job EXCEPT ![p].cam = 0]
        /\ UNCHANGED <<journal, pc>>
     \/ /\ job[p].cam = 0
        /\ Record(job[p].id, "removed")
        /\ Return(p)
        /\ UNCHANGED <<rtsp, onvif>>
  /\ UNCHANGED <<fleetVars, rtspUp, installed, faults, written, swaps>>

RemovePublish(p) ==
  /\ pc[p] = "rm.publish"
  /\ Record(job[p].id, "removed")
  /\ Goto(p, "rm.rtsp")
  /\ UNCHANGED <<fleetVars, serverVars, faults, written, swaps, job>>

(* mutant: a failing RTSP side ends the call.                              *)
RemoveRtspOrReturn(p) ==
  /\ pc[p] = "rm.rtsp"
  /\ IF rtspUp = "up" THEN /\ rtsp' = [rtsp EXCEPT ![job[p].id] = None]
                    /\ Goto(p, "rm.onvif") /\ UNCHANGED job
               ELSE Return(p) /\ UNCHANGED rtsp
  /\ UNCHANGED <<fleetVars, rtspUp, installed, onvif, journal, faults, written,
                 swaps>>

(* A closed RTSP server refuses; the ONVIF side is attempted all the same. *)
RemoveRtsp(p) ==
  /\ pc[p] = "rm.rtsp"
  /\ rtsp' = IF rtspUp = "up" THEN [rtsp EXCEPT ![job[p].id] = None] ELSE rtsp
  /\ Goto(p, "rm.onvif")
  /\ UNCHANGED <<fleetVars, rtspUp, installed, onvif, journal, faults, written,
                 swaps, job>>

RemoveOnvif(p) ==
  /\ pc[p] = "rm.onvif"
  /\ onvif' = [onvif EXCEPT ![job[p].id] = None]
  /\ Return(p)
  /\ UNCHANGED <<fleetVars, rtsp, rtspUp, installed, journal, faults, written,
                 swaps>>

(***************************************************************************)
(* Inject and Clear, through the handle of camera n, added under id.       *)
(***************************************************************************)
Handles == {n \in Index : camera[n] # None}

Held(n) == \E q \in Callers : pc[q] \in {"swap.inject", "swap.clear"} /\ job[q].cam = n

(* The handle's lock, and the removed flag.                                *)
SwapBegin(p, n, label) ==
  /\ pc[p] = "idle" /\ swaps < MaxSwaps
  /\ n \in Handles \ removed /\ ~Held(n)
  /\ label = "swap.clear" => faults[n] # {}
  /\ swaps' = swaps + 1
  /\ Goto(p, label)
  /\ job' = [job EXCEPT ![p].cam = n, ![p].id = camera[n].id]
  /\ UNCHANGED <<fleetVars, serverVars, journal, faults, written>>

(* SetFaults finds the camera by id; a set equal to the installed one is   *)
(* neither swapped nor journaled.                                          *)
SwapApply(p) ==
  /\ pc[p] \in {"swap.inject", "swap.clear"}
  /\ LET n  == job[p].cam
         on == rtsp[job[p].id]
     IN  \E next \in SUBSET Kinds :
           /\ IF pc[p] = "swap.clear" THEN next = {}
              ELSE \E k \in Kinds : next = faults[n] \cup {k}
           /\ IF rtspUp = "up" /\ on # None
              THEN /\ installed' = [installed EXCEPT ![on] = next]
                   /\ faults' = [faults EXCEPT ![n] = next]
                   /\ IF installed[on] # next THEN Record(job[p].id, "fault")
                      ELSE UNCHANGED journal
              ELSE UNCHANGED <<installed, faults, journal>>
  /\ Return(p)
  /\ UNCHANGED <<fleetVars, rtsp, rtspUp, onvif, written, swaps>>

(***************************************************************************)
(* Close, and the files underneath.                                        *)
(***************************************************************************)
CloseBegin(p) ==
  /\ pc[p] = "idle" /\ mu = None
  /\ closed = "open"
  /\ closed' = "closed"
  /\ Goto(p, "close.rtsp")
  /\ UNCHANGED <<mu, cameras, nextIndex, sources, removed, camera, serverVars,
                 journal, faults, written, swaps, job>>

CloseRtsp(p) ==
  /\ pc[p] = "close.rtsp"
  /\ rtspUp' = "down"
  /\ Goto(p, "idle")
  /\ UNCHANGED <<fleetVars, rtsp, installed, onvif, journal, faults, written,
                 swaps, job>>

(* Someone overwrites a source file.                                       *)
Overwrite(f) ==
  /\ written[f] < MaxWrites
  /\ written' = [written EXCEPT ![f] = @ + 1]
  /\ UNCHANGED <<fleetVars, serverVars, journal, faults, swaps, pc, job>>

Advance(p) ==
  \/ AddLoad(p) \/ AddCheck(p) \/ AddRtsp(p) \/ AddOnvif(p) \/ AddUndo(p)
  \/ RemovePublish(p) \/ RemoveRtsp(p) \/ RemoveOnvif(p)
  \/ SwapApply(p)
  \/ CloseRtsp(p)

Next ==
  \/ \E p \in Callers :
       \/ \E id \in Ids :
            \/ \E src \in Files \cup {Fixture} : AddBegin(p, id, src)
            \/ RemoveBegin(p, id)
       \/ \E n \in Index, label \in {"swap.inject", "swap.clear"} : SwapBegin(p, n, label)
       \/ CloseBegin(p)
       \/ Advance(p)
  \/ \E f \in Files : Overwrite(f)

Spec == Init /\ [][Next]_vars

(* A call that has begun runs to its end: the mutexes starve nobody and a  *)
(* pump told to stop returns at its next frame.                            *)
FairSpec == Spec /\ \A p \in Callers : WF_vars(Advance(p))
-----------------------------------------------------------------------------
(* The type of every variable.                                             *)
TypeOK ==
  /\ mu \in OrNone(Callers)
  /\ cameras \in [Ids -> OrNone(Index)]
  /\ nextIndex \in 0 .. MaxIndex
  /\ sources \subseteq Media
  /\ closed \in {"open", "closed"} /\ rtspUp \in {"up", "down"}
  /\ journal \in [Ids -> Seq({"added", "removed", "fault"})]
  /\ camera \in [Index -> OrNone(Camera)]
  /\ removed \subseteq Index
  /\ faults \in [Index -> SUBSET Kinds] /\ installed \in [Index -> SUBSET Kinds]
  /\ rtsp \in [Ids -> OrNone(Index)] /\ onvif \in [Ids -> OrNone(Index)]
  /\ written \in [Files \cup {Fixture} -> 0 .. MaxWrites]
  /\ pc \in [Callers -> State]
  /\ job \in [Callers -> Job]

(* A camera of the fleet is the one both servers hold under its id, even   *)
(* while it is added, its id is being removed elsewhere, or the fleet is   *)
(* closing (camfarm.go:448-482).                                           *)
RegistriesAgree ==
  \A id \in Ids : cameras[id] # None => rtsp[id] = cameras[id] /\ onvif[id] = cameras[id]

(* A server holds an id the fleet does not know only while some call is on *)
(* its way to add or remove it: no failed step leaves an orphan behind,    *)
(* which would make the id unusable for good.                              *)
NoOrphan ==
  \A id \in Ids :
    cameras[id] = None /\ (onvif[id] # None \/ (rtspUp = "up" /\ rtsp[id] # None)) =>
      \E p \in Callers :
        /\ job[p].id = id
        /\ pc[p] \in {"add.onvif", "add.undo", "rm.publish", "rm.rtsp", "rm.onvif"}

(* So an id is never half added nor half removed: fleet, RTSP and ONVIF    *)
(* server agree on it, or a call that will see to it is under way.         *)
RegistriesSound == RegistriesAgree /\ NoOrphan

(* With no AddCamera under way the cache holds the files in use and no     *)
(* other, whatever failed or was overwritten on the way (camfarm.go:322);  *)
(* and two live cameras of one unchanged file share one parse of it.       *)
SourcesExact ==
  /\ mu = None =>
       {m \in sources : m.key.source \in Files}
         = {m \in InUse(cameras) : m.key.source \in Files}
  /\ \A m, n \in InUse(cameras) : m.key = n.key => m = n

(* The entries about a camera's coming and going.                          *)
Comings(id) == {i \in DOMAIN journal[id] : journal[id][i] # "fault"}

(* In the journal each camera id is added, removed, added, ... in turn,    *)
(* a removal just where the coming before it is an addition: RemoveCamera  *)
(* publishes with no lock held, yet an AddCamera of the same id is never   *)
(* journaled before the removal it follows (camfarm.go:488,515).           *)
JournalAlternates ==
  \A id \in Ids : \A i \in Comings(id) :
    journal[id][i] = "removed" <=>
      \E j \in Comings(id) :
        /\ j < i /\ journal[id][j] = "added"
        /\ \A k \in Comings(id) : k <= j \/ i <= k

(* Each id as the roster has it: it is the removing call, with no lock     *)
(* held, that stands between an id's camera and the next.                  *)
Leaving(id, labels) == \E p \in Callers : pc[p] \in labels /\ job[p].id = id

Lives ==
  [id \in Ids |->
     IF cameras[id] # None THEN "present"
     ELSE IF Leaving(id, {"rm.publish"}) THEN "leaving"
     ELSE IF Leaving(id, {"rm.rtsp", "rm.onvif"}) THEN "left"
     ELSE "absent"]

Ledger == INSTANCE Roster WITH life <- Lives, log <- journal

(* Adding and removing look like single steps, per id one after another:   *)
(* whatever a RemoveCamera has left to do unlocked, it has done it before  *)
(* an AddCamera of the id succeeds (camfarm.go:448-532).                   *)
FleetImplementsRoster == Ledger!Spec

(* "Its seed is derived from a monotonically increasing index that never   *)
(* resets, even across RemoveCamera calls" (camfarm.go:415-416): a new     *)
(* camera's index is above that of every camera there ever was.            *)
IndexNeverReused ==
  [][\A id \in Ids : cameras'[id] \notin {cameras[id], None} =>
       \A n \in Handles : n < cameras'[id]]_vars

(* A removed camera leaves both servers, whichever of them fails           *)
(* (camfarm.go:495-497); only a closed RTSP server keeps its table.        *)
RemovedEverywhere ==
  \A n \in Index :
    n \in removed ~>
      \A id \in Ids : onvif[id] # n /\ (rtsp[id] # n \/ rtspUp = "down")

(* "A handle kept past removal must not act on a camera later re-added     *)
(* under the same id" (camfarm.go:133-134): only the handle of a camera    *)
(* changes the faults it applies.                                          *)
HandleActsOnItsCamera ==
  [][\A n \in Index : installed'[n] # installed[n] =>
       \E p \in Callers : job[p].cam = n /\ pc[p] \in {"swap.inject", "swap.clear"}]_vars
=============================================================================
