------------------------------ MODULE MCFleet ------------------------------
(* Two callers on one id, or two, over one source file that is overwritten *)
(* once.                                                                   *)
EXTENDS Fleet

CONSTANTS p, q, x, y, clip, latency

MCCallers == {p, q}
MCIds == {x, y}
MCOneId == {x}
MCFiles == {clip}
MCKinds == {latency}
=============================================================================
