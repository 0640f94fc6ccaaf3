----------------------------- MODULE MCDashboard -----------------------------
(* The quality tests of the dashboard, and the command that starts and     *)
(* stops the dashboard, each by itself.  A behaviour is one of one part.   *)
EXTENDS Quality, Command

(* Two requests at a time on one camera, which may be removed and added    *)
(* again.                                                                  *)
CONSTANTS p, q, door
MCCallers == {p, q}
MCCameras == {door}

(***************************************************************************)
(* Fleet files: every host to bind and every host to tell with every kind  *)
(* of discovery, and cameras whose ids and faults are right or wrong.      *)
(***************************************************************************)
Wildcard == Host("ip4", "bare", "wildcard")
Wildcard6 == Host("ip6", "brackets", "wildcard")
Lan == Host("ip4", "bare", "lan")
Localhost == Host("localhost", "bare", "loopback")
WithPort == Host("ip4", "port", "lan")
Short127 == Host("numeric", "bare", "loopback")
InBrackets == Host("ip4", "brackets", "wildcard")
OnlyBrackets == Host("empty", "brackets", "wildcard")
ZonedWildcard == Host("ip6", "zone", "wildcard")
ZonedLoopback == Host("ip6", "zone", "loopback")
ZonedLan == Host("ip6", "zone", "lan")
Named(addr) == Host("name", "bare", addr)

Cam(id, faults) ==
  [id |-> id, source |-> "", path |-> FALSE, codec |-> "", faults |-> faults,
   username |-> FALSE, password |-> FALSE]
FileOf(host, advertise, discovery, cameras) ==
  [host |-> host, advertise |-> advertise, discovery |-> discovery, cameras |-> cameras,
   fromFile |-> TRUE]
Of(kind, set) == [kind |-> kind, set |-> set]

Discoveries ==
  {<<>>, [mode |-> "multicast"], [mode |-> "multicast", addr |-> TRUE],
   [mode |-> "unicast", addr |-> TRUE], [mode |-> "unicast", addr |-> TRUE, announceAddr |-> TRUE]}
FaultLists ==
  {<<Of("frame_drop", [rate |-> 1])>>,
   <<Of("frame_drop", [rate |-> 1]), Of("frame_drop", [rate |-> 2])>>,
   <<Of("packet_loss", [rate |-> 1, meanBurst |-> 11])>>,
   <<Of("packet_loss", [rate |-> 9, meanBurst |-> 11])>>,
   <<Of("packet_loss", [rate |-> 10, meanBurst |-> 30])>>,
   <<Of("packet_loss", [rate |-> 11])>>,
   <<Of("teardown", [rate |-> 1])>>,
   <<Of("burst_delivery", [holdFrames |-> 1])>>,
   <<Of("rtsp_error", [on |-> "all"]), Of("jitter", [maxMs |-> 5000])>>,
   <<Of("pts_delayed", <<>>)>>,
   <<Of("accept_then_silence", <<>>)>>}
CameraLists ==
  {<<>>, <<Cam("a", <<>>), Cam("a", <<>>)>>, <<Cam("..", <<>>)>>,
   <<[Cam("a", <<>>) EXCEPT !.source = "file"]>>, <<[Cam("a", <<>>) EXCEPT !.username = TRUE]>>}
  \cup {<<Cam("a", faults), Cam("b", <<>>)>> : faults \in FaultLists}

HostsToBind ==
  {NoHost, Wildcard, Wildcard6, InBrackets, OnlyBrackets, ZonedWildcard, Named("wildcard"),
   Localhost, ZonedLoopback, Named("loopback"), Short127, Lan, ZonedLan, WithPort}
HostsToTell ==
  {NoHost, Wildcard, Wildcard6, Localhost, Named("loopback"), Short127, Lan, ZonedLan, WithPort}
MCFleetFiles ==
  {FileOf(h, a, d, <<Cam("a", <<>>)>>) : h \in HostsToBind, a \in {NoHost, Lan}, d \in Discoveries}
  \cup {FileOf(Wildcard, a, d, <<Cam("a", <<>>)>>) : a \in HostsToTell, d \in Discoveries}
  \cup {FileOf(NoHost, NoHost, <<>>, cameras) : cameras \in CameraLists}

(* A wildcard with a zone, which net.ParseIP does not read.                *)
MCZonedFiles == {FileOf(ZonedWildcard, NoHost, <<>>, <<Cam("a", <<>>)>>)}

Plain == [ports |-> TRUE, http |-> TRUE, cameras |-> FALSE, discovery |-> "",
          interface |-> FALSE, host |-> <<>>, advertise |-> <<>>]
MCCommandLines ==
  {[Plain EXCEPT !.discovery = d, !.interface = i] :
     d \in {"", "multicast", "unicast", "bad"}, i \in BOOLEAN}
  \cup {[Plain EXCEPT !.host = <<Lan>>], [Plain EXCEPT !.advertise = <<Lan>>]}
MCRequests == {p}

(***************************************************************************)
(* The parts.                                                              *)
(***************************************************************************)
VARIABLE part

qualityVars == vars
dashboardVars == <<qualityVars, commandVars, part>>

DashboardInit ==
  /\ Init /\ CommandInit
  /\ part \in {"quality", "command"}

DashboardNext ==
  /\ UNCHANGED part
  /\ \/ part = "quality" /\ Next /\ UNCHANGED commandVars
     \/ part = "command" /\ CommandNext /\ UNCHANGED qualityVars

DashboardSpec ==
  /\ DashboardInit /\ [][DashboardNext]_dashboardVars
  /\ QualityFair /\ CommandFair
=============================================================================
