------------------------------ MODULE FleetFile ------------------------------
(***************************************************************************)
(* The fleet file and the flags that change it (spec.go, run.go): what is  *)
(* refused, and what a fleet that starts has been asked for.               *)
(*                                                                         *)
(* A host is what the parsers of the code find out about its text, its     *)
(* form and how it is written, and where it leads: the address that the    *)
(* listeners get when they bind it.                                        *)
(***************************************************************************)
EXTENDS Catalogue, Sequences

(* form: "empty", "blank", "ip4", "ip6", "localhost", "name" (any other),  *)
(* "numeric" (0, 127.1) or "malformed"; wrap: "bare", "brackets", "port",  *)
(* "url" or "zone"; addr: "none", "wildcard", "loopback" or "lan".         *)
Host(form, wrap, addr) == [form |-> form, wrap |-> wrap, addr |-> addr]
NoHost == Host("empty", "bare", "none")
Loopback == Host("ip4", "bare", "loopback")

(* mutant: a host in brackets is not looked into.                          *)
ReadsAsWritten(h) == h.form \in {"ip4", "ip6"} /\ h.wrap = "bare"
(* normalizeHost takes the brackets off before the address is parsed; a    *)
(* port, a scheme or a zone is in its way, and 127.1 is no address to it.  *)
ReadsAsAddress(h) == h.form \in {"ip4", "ip6"} /\ h.wrap \in {"bare", "brackets"}

IsWildcard(h) == ReadsAsAddress(h) /\ h.addr = "wildcard"
IsLoopback(h) ==
  /\ ReadsAsAddress(h) \/ (h.form = "localhost" /\ h.wrap \in {"bare", "brackets"})
  /\ h.addr = "loopback"

(* validateAdvertiseHost and validateHostname.                             *)
AdvertiseAccepted(host, adv) ==
  IF adv = NoHost THEN ~IsWildcard(host)
  ELSE /\ ~IsWildcard(adv)
       /\ adv.wrap \in {"bare", "brackets"}
       /\ adv.wrap = "brackets" => adv.form = "ip6"
       /\ adv.form \in {"ip4", "ip6", "localhost", "name"}

(* validateDiscovery; d has the fields of DiscoverySpec that are set, and  *)
(* is <<>> for a fleet without discovery.                                  *)
DiscoveryAccepted(d, host, adv) ==
  IF d = <<>> THEN TRUE
  ELSE /\ d.mode \in {"multicast", "unicast"}
       /\ d.mode = "multicast" =>
            /\ {"addr", "announceAddr"} \cap DOMAIN d = {}
            /\ ~IsLoopback(host)
            /\ adv # NoHost => ~IsLoopback(adv)
       /\ d.mode = "unicast" =>
            /\ "addr" \in DOMAIN d /\ d.addr
            /\ "interface" \notin DOMAIN d
            /\ "announceAddr" \in DOMAIN d => d.announceAddr
       /\ host.wrap # "port"

Safe(id) == id \notin {"", ".", "..", "a/b", "a b"}

NewId(cams, i) == \A j \in 1 .. i - 1 : cams[j].id # cams[i].id

EachKindOnce(faults) == \A i, j \in DOMAIN faults : i # j => faults[i].kind # faults[j].kind

(* validateCameraSpec for the ith camera.                                  *)
CameraAccepted(cams, i) ==
  LET c == cams[i]
  IN  /\ Safe(c.id) /\ NewId(cams, i)
      /\ c.source \in {"", "fixture", "file"}
      /\ c.path <=> c.source = "file"
      /\ c.codec \in {"", "h264", "h265"}
      /\ \A k \in DOMAIN c.faults : Accepts(c.faults[k])
      /\ EachKindOnce(c.faults)
      /\ c.username <=> c.password

(* Spec.validate fills in the bind host.                                   *)
Defaulted(spec) == [spec EXCEPT !.host = IF spec.host = NoHost THEN Loopback ELSE @]

Validated(spec) ==
  LET s == Defaulted(spec)
  IN  /\ s.cameras # <<>>
      /\ AdvertiseAccepted(s.host, s.advertise)
      /\ DiscoveryAccepted(s.discovery, s.host, s.advertise)
      /\ \A i \in DOMAIN s.cameras : CameraAccepted(s.cameras, i)

(***************************************************************************)
(* The flags.                                                              *)
(***************************************************************************)
(* applyDiscovery: --discovery replaces the block of the file.             *)
Discovery(d, mode) ==
  CASE mode = "" -> d
    [] mode = "multicast" -> [mode |-> "multicast"]
    [] mode = "unicast" -> [mode |-> "unicast", addr |-> TRUE]

(* --discovery-interface is for multicast, from the flag or from the file. *)
InterfaceFits(d, flags) == ~flags.interface \/ (d # <<>> /\ d.mode = "multicast")
WithInterface(d, flags) ==
  IF flags.interface THEN [p \in DOMAIN d \cup {"interface"} |-> IF p = "mode" THEN d.mode ELSE TRUE] ELSE d

UsageOk(flags, fromFile) ==
  /\ flags.ports /\ flags.http
  /\ ~(flags.cameras /\ fromFile)
  /\ flags.discovery # "bad"

(* run folds the flags into the file's spec.                               *)
Folded(spec, flags) ==
  LET d == Discovery(spec.discovery, flags.discovery)
  IN  [spec EXCEPT !.host = IF flags.host = <<>> THEN @ ELSE flags.host[1],
                   !.advertise = IF flags.advertise = <<>> THEN @ ELSE flags.advertise[1],
                   !.discovery = WithInterface(d, flags)]

(***************************************************************************)
(* What a started fleet must be.                                           *)
(***************************************************************************)
(* An address that is written as one, be it in brackets.  With a zone it   *)
(* is none to net.ParseIP, and what comes of that is NoWildcardTold's.     *)
Literal(h) == h.form \in {"ip4", "ip6"} /\ h.wrap # "zone"

(* Clients are told the advertised host, or the address that is bound.     *)
(* Where an advertised name leads is up to them.  No text can be dialled   *)
(* that has a port, a path or a zone; no wildcard is told that is written  *)
(* as an address; no multicast answer leads a client to itself; no two     *)
(* cameras share a path; and no engine gets a fault it cannot work with or *)
(* one of two faults of a kind.                                            *)
Sound(spec) ==
  /\ IF spec.advertise = NoHost THEN Literal(spec.host) => spec.host.addr # "wildcard"
     ELSE /\ spec.advertise.form \in {"ip4", "ip6", "localhost", "name"}
          /\ spec.advertise.wrap \notin {"port", "url", "zone"}
          /\ spec.advertise.addr = "wildcard" => spec.advertise.form = "name"
  /\ spec.discovery # <<>> =>
       /\ spec.discovery.mode = "multicast" =>
            /\ spec.host.addr # "loopback"
            /\ spec.advertise.addr = "loopback" => spec.advertise.form = "name"
       /\ ("interface" \in DOMAIN spec.discovery) => spec.discovery.mode = "multicast"
       /\ ("addr" \in DOMAIN spec.discovery) => spec.discovery.mode = "unicast"
  /\ \A i, j \in DOMAIN spec.cameras : i # j => spec.cameras[i].id # spec.cameras[j].id
  /\ \A i \in DOMAIN spec.cameras :
       LET faults == spec.cameras[i].faults
       IN  /\ \A k \in DOMAIN faults : Workable(faults[k])
           /\ \A k, m \in DOMAIN faults : k # m => faults[k].kind # faults[m].kind
=============================================================================
