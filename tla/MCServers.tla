------------------------------ MODULE MCServers ------------------------------
(* The two servers of a fleet, each by itself.  A behaviour is one of one  *)
(* part.                                                                   *)
EXTENDS RtspServer, OnvifServer

(* One session, which may SETUP, PLAY three times and leave, two cameras   *)
(* one after the other, and a teardown after two frames that SetFaults     *)
(* may install or remove twice.                                            *)
CONSTANTS viewer, teardown
MCSessions == {viewer}
MCSpecs == {teardown}
MCAfter == [x \in MCSpecs |-> 2]

(* Four calls of Start and Close in any mix, or three, and a camera that   *)
(* comes and goes.                                                         *)
CONSTANTS p, q, r, s, door
MCCallers == {p, q, r, s}
MCThree == {p, q, r}
MCCameras == {door}

VARIABLE part

rtspVars == vars
serversVars == <<rtspVars, onvifVars, part>>

(* While the RTSP server runs, one ONVIF server that does not is enough.   *)
ServersInit ==
  /\ Init /\ OnvifInit
  /\ \/ part = "rtsp" /\ discovery = "off" /\ cams = {}
     \/ part = "onvif"

ServersNext ==
  /\ UNCHANGED part
  /\ \/ part = "rtsp" /\ Next /\ UNCHANGED onvifVars
     \/ part = "onvif" /\ OnvifNext /\ UNCHANGED rtspVars

ServersSpec ==
  /\ ServersInit /\ [][ServersNext]_serversVars
  /\ RtspFair /\ OnvifFair
=============================================================================
