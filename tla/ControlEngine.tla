---------------------------- MODULE ControlEngine ----------------------------
(***************************************************************************)
(* The faults decided per RTSP request: the control engine of one camera   *)
(* (internal/fault/control.go), the handlers that ask it and the lies they *)
(* leave for the answer (internal/rtsp/server.go, control.go).             *)
(*                                                                         *)
(* A connection serves one request at a time; requests of several          *)
(* connections run beside each other and beside SetFaults.  A kind's       *)
(* stream of random numbers is a pure function of the seed: here it is a   *)
(* sequence that does not change.                                          *)
(***************************************************************************)
EXTENDS Catalogue, Sequences, FiniteSets

CONSTANTS Conns,       \* the connections to the camera
          ControlSets, \* the fault sets, each with at most one of a kind
          Draws,       \* the streams a seed may give, kind by kind, in parts of Unit
          MaxRequests, \* bound on the requests decided
          MaxControl   \* bound on the swaps of the fault set

ControlKinds == {"rtsp_error", "sdp_lie", "teardown"}
Methods == {"describe", "setup", "play"}

ASSUME ControlAssumption ==
  /\ \A s \in ControlSets : \A x \in s :
       /\ x.kind \in ControlKinds /\ Accepts(x)
       /\ \A y \in s : x.kind = y.kind => x = y
  /\ \A d \in Draws, k \in ControlKinds : d[k] \in Seq(0 .. Unit - 1)
  /\ MaxRequests \in Nat /\ MaxControl \in Nat

VARIABLES stream,     \* the streams of this seed
          ctlEntries,    \* ControlEngine.specs: kind -> entry
          total,      \* ControlEngine.total
          serving,    \* what each connection is at
          pendingLie, \* Server.pendingLie: connection -> the request's index
          armedBy,    \* Server.armed: connection -> the index of its PLAY
          decided,    \* history: every request decided, by its index
          installs,   \* history: the fault sets, each with the total at its swap
          arms        \* history: the teardown draws, in their order

controlVars == <<stream, ctlEntries, total, serving, pendingLie, armedBy, decided, installs, arms>>
controlHistory == <<decided, installs, arms>>

Idle == [at |-> "idle"]
KindsOf(set) == {x.kind : x \in set}
SpecOf(set, k) == CHOOSE x \in set : x.kind = k

(* An installed kind: its counters start at zero, its stream at its start. *)
Entry(x) == [spec |-> x, seen |-> [m \in Methods \cup {"all"} |-> 0], drawn |-> 0]
Fresh(set) == [k \in KindsOf(set) |-> Entry(SpecOf(set, k))]

ControlInit ==
  \E set \in ControlSets :
    /\ stream \in Draws
    /\ ctlEntries = Fresh(set)
    /\ total = 0
    /\ serving = [c \in Conns |-> Idle]
    /\ pendingLie = <<>> /\ armedBy = <<>>
    /\ decided = <<>> /\ arms = <<>>
    /\ installs = <<[at |-> 0, set |-> set]>>

(***************************************************************************)
(* The engine.                                                             *)
(***************************************************************************)
Matches(x, m) ==
  CASE x.kind = "rtsp_error" -> x.set.on \in {"all", m}
    [] x.kind = "sdp_lie" -> m = "describe"
    [] x.kind = "teardown" -> m = "play"

(* The rate an entry is drawn against.                                     *)
DrawRate(x) == IF x.kind = "rtsp_error" THEN WithDefaults(x).rate ELSE RateOrOne(Value(x, "rate"))

(* mutant: every method is counted by itself, also under "all".            *)
KeyOfMethod(x, m) == m
(* What a request is counted under.                                        *)
Key(x, m) == IF x.kind = "rtsp_error" /\ x.set.on = "all" THEN "all" ELSE m

(* fires: one count and one draw for every matching request.               *)
Counted(e, m) == [e EXCEPT !.seen[Key(e.spec, m)] = @ + 1, !.drawn = @ + 1]
Fires(k, e, m) ==
  LET only == Value(e.spec, "onlyRequest")
  IN  IF only > 0 THEN e.seen[Key(e.spec, m)] + 1 = only
      ELSE stream[k][e.drawn + 1] < DrawRate(e.spec)

Asked(m) == {k \in DOMAIN ctlEntries \ {"teardown"} : Matches(ctlEntries[k].spec, m)}

(* mutant: a request that is answered with an error draws no lie.          *)
DrawsUnlessErrored(m) ==
  IF "rtsp_error" \in Asked(m) /\ Fires("rtsp_error", ctlEntries["rtsp_error"], m)
  THEN {"rtsp_error"} ELSE Asked(m)
(* The kinds that draw for a request: all that match.                      *)
DrawsFor(m) == Asked(m)

(* Decide, for a request of connection c.  A lie within a failed answer is *)
(* none.                                                                   *)
Decided(m) ==
  LET fired == {k \in DrawsFor(m) : Fires(k, ctlEntries[k], m)}
  IN  [method |-> m, error |-> "rtsp_error" \in fired, lie |-> fired = {"sdp_lie"}]
Decide(m) ==
  /\ total < MaxRequests
  /\ total' = total + 1
  /\ ctlEntries' = [k \in DOMAIN ctlEntries |-> IF k \in DrawsFor(m) THEN Counted(ctlEntries[k], m) ELSE ctlEntries[k]]
  /\ decided' = Append(decided, Decided(m))

(***************************************************************************)
(* The handlers.                                                           *)
(***************************************************************************)
(* A request for a path without a camera, or of another method: not        *)
(* decided.                                                                *)
OtherRequest(c) ==
  /\ serving[c] = Idle
  /\ \E ok \in BOOLEAN : serving' = [serving EXCEPT ![c] = [at |-> "answer", request |-> 0, ok |-> ok]]
  /\ UNCHANGED <<stream, ctlEntries, total, pendingLie, armedBy, controlHistory>>

(* OnDescribe with noteLie.                                                *)
Describe(c) ==
  LET d == Decided("describe")
  IN  /\ serving[c] = Idle
      /\ Decide("describe")
      /\ serving' = [serving EXCEPT ![c] = [at |-> "answer", request |-> total + 1, ok |-> ~d.error]]
      /\ pendingLie' = IF d.lie THEN [x \in DOMAIN pendingLie \cup {c} |->
                                        IF x = c THEN total + 1 ELSE pendingLie[x]]
                       ELSE pendingLie
      /\ UNCHANGED <<stream, armedBy, installs, arms>>

(* OnSetup.                                                                *)
Setup(c) ==
  /\ serving[c] = Idle
  /\ Decide("setup")
  /\ serving' = [serving EXCEPT ![c] = [at |-> "answer", request |-> total + 1, ok |-> ~Decided("setup").error]]
  /\ UNCHANGED <<stream, pendingLie, armedBy, installs, arms>>

(* OnPlay, up to armMu.                                                    *)
Play(c) ==
  /\ serving[c] = Idle
  /\ Decide("play")
  /\ serving' = [serving EXCEPT ![c] = [at |-> "arm", request |-> total + 1, ok |-> ~Decided("play").error]]
  /\ UNCHANGED <<stream, pendingLie, armedBy, installs, arms>>

(* mutant: a PLAY that is answered with an error takes no teardown draw.   *)
TakesDrawIfOk(c) == "teardown" \in DOMAIN ctlEntries /\ serving[c].ok
(* ArmPlay draws on every PLAY.                                            *)
TakesDraw(c) == "teardown" \in DOMAIN ctlEntries

(* OnPlay under armMu: an errored PLAY discards the arming.                *)
Arm(c) ==
  LET e == ctlEntries["teardown"]
      fires == TakesDraw(c) /\ stream["teardown"][e.drawn + 1] < DrawRate(e.spec)
      armed == fires /\ serving[c].ok
  IN  /\ serving[c].at = "arm"
      /\ ctlEntries' = IF TakesDraw(c) THEN [ctlEntries EXCEPT !["teardown"].drawn = @ + 1] ELSE ctlEntries
      /\ armedBy' = IF armed THEN [x \in DOMAIN armedBy \cup {c} |->
                                     IF x = c THEN serving[c].request ELSE armedBy[x]]
                    ELSE armedBy
      /\ arms' = Append(arms, [request |-> serving[c].request, install |-> Len(installs), armed |-> armed])
      /\ serving' = [serving EXCEPT ![c].at = "answer"]
      /\ UNCHANGED <<stream, total, pendingLie, decided, installs>>

Without(f, c) == [x \in DOMAIN f \ {c} |-> f[x]]

(* mutant: a lie stays until an answer of 200 takes it.                    *)
TakeLieIfOk(c, ok) == IF ok THEN Without(pendingLie, c) ELSE pendingLie
(* applyLie takes the lie off its connection whatever the answer is.       *)
TakeLie(c, ok) == Without(pendingLie, c)

(* OnResponse.  A DESCRIBE that OnDescribe accepted may still fail in the  *)
(* library.                                                                *)
Answer(c) ==
  /\ serving[c].at = "answer"
  /\ \E ok \in {FALSE, serving[c].ok} : pendingLie' = TakeLie(c, ok)
  /\ serving' = [serving EXCEPT ![c] = Idle]
  /\ UNCHANGED <<stream, ctlEntries, total, armedBy, controlHistory>>

(* OnConnClose and OnSessionClose; the connection may end before its       *)
(* answer is written.                                                      *)
CloseConn(c) ==
  /\ serving[c].at # "arm"
  /\ serving[c] # Idle \/ c \in DOMAIN armedBy
  /\ serving' = [serving EXCEPT ![c] = Idle]
  /\ pendingLie' = Without(pendingLie, c)
  /\ armedBy' = Without(armedBy, c)
  /\ UNCHANGED <<stream, ctlEntries, total, controlHistory>>

(***************************************************************************)
(* SetFaults, the control class: nothing happens to a set that is the same.*)
(***************************************************************************)
CurrentSet == installs[Len(installs)].set
TeardownOf(set) == {x \in set : x.kind = "teardown"}

SetControl(set) ==
  /\ Len(installs) <= MaxControl
  /\ set # CurrentSet
  /\ ctlEntries' = Fresh(set)
  /\ armedBy' = IF TeardownOf(set) = TeardownOf(CurrentSet) THEN armedBy ELSE <<>>
  /\ installs' = Append(installs, [at |-> total, set |-> set])
  /\ UNCHANGED <<stream, total, serving, pendingLie, decided, arms>>

ControlNext ==
  \/ \E c \in Conns :
       \/ OtherRequest(c) \/ Describe(c) \/ Setup(c) \/ Play(c)
       \/ Arm(c) \/ Answer(c) \/ CloseConn(c)
  \/ \E set \in ControlSets : SetControl(set)

ControlSpec == ControlInit /\ [][ControlNext]_controlVars

(***************************************************************************)
(* Properties.                                                             *)
(***************************************************************************)
(* The fault set of request i, and what a kind of it makes of the nth      *)
(* request that matches, both read off the history.                        *)
InstallOf(i) == CHOOSE n \in DOMAIN installs :
                  /\ installs[n].at < i
                  /\ \A m \in DOMAIN installs : installs[m].at < i => m <= n
Ruled(k, x, n) ==
  IF Value(x, "onlyRequest") > 0 THEN n = Value(x, "onlyRequest")
  ELSE stream[k][n] < DrawRate(x)
RuledAt(k, i) ==
  LET in == installs[InstallOf(i)]
      x == SpecOf(in.set, k)
  IN  /\ k \in KindsOf(in.set) /\ Matches(x, decided[i].method)
      /\ Ruled(k, x, Cardinality({j \in in.at + 1 .. i : Matches(x, decided[j].method)}))

(* A run can be replayed: what happens to a request follows from the seed, *)
(* the fault set it was decided under and the number of matching requests  *)
(* since that set came, whatever other kinds, methods and connections do;  *)
(* and the teardown draws go to the PLAYs in the order in which they arm,  *)
(* the failed ones included.                                               *)
Replayable ==
  /\ \A i \in DOMAIN decided :
       /\ decided[i].error <=> RuledAt("rtsp_error", i)
       /\ decided[i].lie <=> RuledAt("sdp_lie", i) /\ ~decided[i].error
  /\ \A i \in DOMAIN arms :
       LET a == arms[i]
           set == installs[a.install].set
           rank == Cardinality({j \in 1 .. i : arms[j].install = a.install})
       IN  a.armed <=> /\ "teardown" \in KindsOf(set)
                       /\ Ruled("teardown", SpecOf(set, "teardown"), rank)
                       /\ ~decided[a.request].error

(* A lie waits only for the answer to the DESCRIBE it was decided for, and *)
(* is never left to another answer or another connection.                  *)
LieOnOwnAnswer ==
  \A c \in DOMAIN pendingLie :
    /\ serving[c].at = "answer" /\ serving[c].request = pendingLie[c]
    /\ decided[pendingLie[c]].lie /\ decided[pendingLie[c]].method = "describe"

(* internal/seed says that a decision is a function of the seed and of an  *)
(* event counter, never of scheduling; the journal names a teardown by the *)
(* index of its PLAY.  So which PLAY is torn down would follow from its    *)
(* index, as an error does.                                                *)
TeardownByIndex ==
  \A i \in DOMAIN arms :
    LET r == arms[i].request
    IN  arms[i].armed <=> RuledAt("teardown", r) /\ ~decided[r].error
=============================================================================
