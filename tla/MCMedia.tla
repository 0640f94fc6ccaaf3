------------------------------ MODULE MCMedia -------------------------------
(* What the stream of a camera is made of, each part by itself: the pump   *)
(* and its frame faults, the schedule of its driver loop, the faults       *)
(* decided per request, and the library its file comes from.  A behaviour  *)
(* is one of one part.                                                     *)
EXTENDS Pump, Pacer, ControlEngine, Library

(* A clip of two frames, the first a random access point, played about two *)
(* and a half times.  Timestamps wrap after a clip and a half.             *)
Plain == [drop |-> FALSE, protect |-> FALSE, keepEvery |-> 0, hold |-> 0,
          depth |-> 0, lag |-> 0, drift |-> 0]
Lagging == [Plain EXCEPT !.lag = 1, !.drift = 1]

MCDTS == <<0, 2>>
MCKeys == {1}
MCWhat == {"released", "spared", "dropped", "starved", "shifted", "held"}
MCFirst == [Lagging EXCEPT !.hold = 3]
MCSpecs == {MCFirst, Lagging,
            [Plain EXCEPT !.depth = 1, !.drop = TRUE, !.protect = TRUE],
            [Plain EXCEPT !.keepEvery = 2, !.hold = 2]}

(* Two connections, and every control fault with and without onlyRequest.  *)
CONSTANTS c1, c2
MCConns == {c1, c2}
Spec1(kind, set) == [kind |-> kind, set |-> set]
MCControlSets ==
  {{},
   {Spec1("rtsp_error", [on |-> "all", rate |-> 1]),
    Spec1("sdp_lie", [mode |-> "codec", rate |-> 1]),
    Spec1("teardown", [afterFrames |-> 1, rate |-> 1])},
   {Spec1("rtsp_error", [on |-> "all", onlyRequest |-> 2]),
    Spec1("sdp_lie", [mode |-> "codec", onlyRequest |-> 2])},
   {Spec1("rtsp_error", [on |-> "play"]),
    Spec1("teardown", [afterFrames |-> 1, rate |-> 1])}}
MCDraws == {[rtsp_error |-> <<0, 4, 0, 4>>, sdp_lie |-> <<4, 0, 4, 0>>, teardown |-> <<0, 4, 4, 0>>]}

(* Two requests at a time, one scan after another, and two names that may  *)
(* be written twice in all.                                                *)
CONSTANTS p, q
MCHandlers == {p, q}
MCNames == <<"a", "a-1">>

VARIABLE part

MediaInit ==
  /\ Init /\ PacerInit /\ ControlInit /\ LibraryInit
  /\ part \in {"pump", "pacer", "control", "library"}
  /\ part # "control" => installs[1].set = {}
  /\ part # "library" => links

MediaNext ==
  /\ UNCHANGED part
  /\ \/ part = "pump" /\ Next /\ UNCHANGED <<pacerVars, controlVars, libraryVars>>
     \/ part = "pacer" /\ PacerNext /\ UNCHANGED <<vars, controlVars, libraryVars>>
     \/ part = "control" /\ ControlNext /\ UNCHANGED <<vars, pacerVars, libraryVars>>
     \/ part = "library" /\ LibraryNext /\ UNCHANGED <<vars, pacerVars, controlVars>>

MediaSpec == MediaInit /\ [][MediaNext]_<<vars, pacerVars, controlVars, libraryVars, part>>
=============================================================================
