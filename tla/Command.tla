------------------------------- MODULE Command -------------------------------
(***************************************************************************)
(* The camfarm command (cmd/camfarm/run.go): it reads a fleet, starts the  *)
(* parts one after the other, serves the dashboard until a signal comes,   *)
(* and takes everything down again in the opposite order.                  *)
(*                                                                         *)
(* The parts are what the command knows of them: a scan and quality tests  *)
(* that run until they end or are cancelled, a fleet that is open or       *)
(* closed, and handlers of the dashboard, which may use them all.          *)
(***************************************************************************)
EXTENDS FleetFile, Integers, FiniteSets

CONSTANTS FleetFiles,   \* the fleet files, and what --cameras makes up
          CommandLines, \* the command lines
          Requests      \* the requests, each repeated for ever

(* What a text can turn out to be.  Empty brackets are the empty host,     *)
(* which is every interface; a name or a number leads where the resolver   *)
(* says.                                                                   *)
Hosts ==
  {h \in [form : {"empty", "blank", "ip4", "ip6", "localhost", "name", "numeric", "malformed"},
          wrap : {"bare", "brackets", "port", "url", "zone"},
          addr : {"none", "wildcard", "loopback", "lan"}] :
     /\ h.form = "empty" => h.addr = IF h.wrap = "brackets" THEN "wildcard" ELSE "none"
     /\ h.form = "localhost" => h.addr = "loopback"}

(* The parameters that are numbers, of any size until they are checked.    *)
Numeric ==
  {"rate", "meanBurst", "keepEvery", "status", "onlyRequest", "afterFrames", "maxMs",
   "holdFrames", "reorderDepth", "delayMs", "driftPpm"}

ASSUME CommandAssumption ==
  /\ \A f \in FleetFiles :
       /\ DOMAIN f = {"host", "advertise", "discovery", "cameras", "fromFile"}
       /\ f.host \in Hosts /\ f.advertise \in Hosts
       /\ DOMAIN f.cameras \subseteq Nat \ {0}
       /\ \A i \in DOMAIN f.cameras : \A k \in DOMAIN f.cameras[i].faults :
            LET set == f.cameras[i].faults[k].set
            IN  \A p \in DOMAIN set \cap Numeric : set[p] \in Int
  /\ \A g \in CommandLines :
       /\ g.host # <<>> => g.host[1] \in Hosts
       /\ g.advertise # <<>> => g.advertise[1] \in Hosts

VARIABLES input,      \* the file and the flags
          stage,      \* where run is
          exit,       \* its result: "none", "ok", "usage", "error"
          listener,   \* ln: "none", "open", "closed"
          asked,      \* the validated spec the fleet was started with
          fleetState, \* "none", "open", "closed"
          testing,    \* a quality test runs
          tests,      \* quality.Runner: "none", "open", "closed"
          metrics,    \* hostmetrics.Sampler, likewise
          scan,       \* the scan goroutine: "none", "running", "ended"
          serving,    \* srv.Serve: "none", "running", "shut", "failed"
          handler,    \* what each request is: "none", "short", "stream" or "slow"
          signalled,  \* ctx is done
          base,       \* bctx is alive
          forced      \* srv.Close was called: the grace period was over

given == <<input, asked>>
parts == <<listener, fleetState, testing, tests, metrics, scan>>
web == <<serving, handler, base, forced>>
commandVars == <<given, stage, exit, parts, web, signalled>>

CommandInit ==
  /\ input = <<>>
  /\ stage = "none" /\ exit = "none"
  /\ listener = "none" /\ fleetState = "none"
  /\ testing = FALSE /\ tests = "none" /\ metrics = "none" /\ scan = "none"
  /\ asked = <<>>
  /\ serving = "none" /\ handler = [h \in Requests |-> "none"]
  /\ signalled = FALSE /\ base = TRUE /\ forced = FALSE

(***************************************************************************)
(* Coming up.                                                              *)
(***************************************************************************)
(* Somebody runs the command.                                              *)
Invoke(f, g) ==
  /\ stage = "none"
  /\ input' = [file |-> f, flags |-> g]
  /\ stage' = "parse"
  /\ UNCHANGED <<exit, asked, parts, web, signalled>>

Wanted == Folded(input.file, input.flags)

(* Everything up to library.New.  There is more that can be wrong than the *)
(* flags modelled here: a file that cannot be read, a media directory.     *)
(* --help and --version return as well.                                    *)
Parse ==
  /\ stage = "parse"
  /\ \/ /\ UsageOk(input.flags, input.file.fromFile)
        /\ InterfaceFits(Discovery(input.file.discovery, input.flags.discovery), input.flags)
        /\ stage' = "listen" /\ UNCHANGED exit
     \/ stage' = "returned" /\ exit' \in {"ok", "usage", "error"}
  /\ UNCHANGED <<given, parts, web, signalled>>

Listen ==
  /\ stage = "listen"
  /\ \/ listener' = "open" /\ stage' = "start" /\ UNCHANGED exit
     \/ stage' = "returned" /\ exit' = "error" /\ UNCHANGED listener
  /\ UNCHANGED <<given, fleetState, testing, tests, metrics, scan, web, signalled>>

(* What net.Listen makes of a host that JoinHostPort has joined with a     *)
(* port: text with a colon gets brackets, so an IPv6 address must have     *)
(* none of its own but may have a zone, and any other text may have them.  *)
(* Names and numbers are the resolver's; it may know nothing of them.      *)
Bindable(h) ==
  /\ \/ h.wrap = "bare" /\ h.form \in {"ip4", "ip6", "localhost", "name", "numeric"}
     \/ h.wrap = "zone" /\ h.form = "ip6"
     \/ h.wrap = "brackets" /\ h.form \in {"empty", "ip4", "localhost", "name", "numeric"}
  /\ h.addr # "none"

(* mutant: the address that is bound is not looked at.                     *)
ListensAnywhere(spec) == Bindable(spec.host)
(* Both servers listen on the host; the ONVIF server refuses to answer     *)
(* multicast probes with a loopback address, whatever text led to it.      *)
Listens(spec) ==
  /\ Bindable(spec.host)
  /\ spec.discovery # <<>> =>
       (spec.discovery.mode = "multicast" => spec.host.addr # "loopback")

(* camfarm.Start validates; it may also fail at a source or a listener,    *)
(* and has then undone what it did.                                        *)
StartFleet ==
  /\ stage = "start"
  /\ \/ /\ Validated(Wanted) /\ Listens(Defaulted(Wanted))
        /\ asked' = Defaulted(Wanted)
        /\ fleetState' = "open" /\ tests' = "open" /\ metrics' = "open"
        /\ stage' = "serve" /\ UNCHANGED exit
     \/ /\ stage' = "close listener" /\ exit' = "error"
        /\ UNCHANGED <<asked, fleetState, tests, metrics>>
  /\ UNCHANGED <<input, listener, testing, scan, web, signalled>>

(* The server's goroutine and the scan's are started.                      *)
StartServing ==
  /\ stage = "serve" /\ serving = "none"
  /\ serving' = "running" /\ scan' = "running"
  /\ UNCHANGED <<given, stage, exit, listener, fleetState, testing, tests, metrics,
                 handler, base, forced, signalled>>

(***************************************************************************)
(* Running.                                                                *)
(***************************************************************************)
Signal ==
  /\ stage # "none" /\ ~signalled
  /\ signalled' = TRUE
  /\ UNCHANGED <<given, stage, exit, parts, web>>

(* The listener of the dashboard fails under the server.                   *)
ServeFails ==
  /\ serving = "running"
  /\ serving' = "failed"
  /\ UNCHANGED <<given, stage, exit, parts, handler, base, forced, signalled>>

(* The scan ends, at the latest when its context does.                     *)
ScanEnds ==
  /\ scan = "running"
  /\ scan' = "ended"
  /\ UNCHANGED <<given, stage, exit, listener, fleetState, testing, tests, metrics, web, signalled>>

(* A request: one that ends soon, an event stream, or one that takes long. *)
Request(h, kind) ==
  /\ serving = "running" /\ handler[h] = "none"
  /\ handler' = [handler EXCEPT ![h] = kind]
  /\ UNCHANGED <<given, stage, exit, parts, serving, base, forced, signalled>>

(* A handler starts a test; a closed runner refuses.                       *)
StartTest(h) ==
  /\ handler[h] # "none" /\ tests = "open"
  /\ testing' = TRUE
  /\ UNCHANGED <<given, stage, exit, listener, fleetState, tests, metrics, scan, web, signalled>>

TestEnds ==
  /\ testing
  /\ testing' = FALSE
  /\ UNCHANGED <<given, stage, exit, listener, fleetState, tests, metrics, scan, web, signalled>>

(* A handler returns; a stream does so when its client is gone, or when    *)
(* the base context is.                                                    *)
Respond(h) ==
  /\ handler[h] # "none"
  /\ handler' = [handler EXCEPT ![h] = "none"]
  /\ UNCHANGED <<given, stage, exit, parts, serving, base, forced, signalled>>

(***************************************************************************)
(* Going down.                                                             *)
(***************************************************************************)
(* The select of run: a signal, or a server that failed.                   *)
SeeSignal ==
  /\ stage = "serve" /\ serving # "none" /\ signalled
  /\ stage' = "shutdown"
  /\ UNCHANGED <<given, exit, parts, web, signalled>>

SeeFailure ==
  /\ stage = "serve" /\ serving = "failed"
  /\ stage' = "stop scan" /\ exit' = "error"
  /\ UNCHANGED <<given, parts, web, signalled>>

(* srv.Shutdown closes the listener and calls bcancel.                     *)
BeginShutdown ==
  /\ stage = "shutdown" /\ serving # "shut"
  /\ serving' = "shut" /\ listener' = "closed" /\ base' = FALSE
  /\ UNCHANGED <<given, stage, exit, fleetState, testing, tests, metrics, scan, handler, forced, signalled>>

(* It returns when the last handler has.                                   *)
Shutdown ==
  /\ stage = "shutdown" /\ serving = "shut"
  /\ \A h \in Requests : handler[h] = "none"
  /\ stage' = "stop scan" /\ exit' = "ok"
  /\ UNCHANGED <<given, parts, web, signalled>>

(* mutant: Shutdown has no deadline.                                       *)
GraceOverNever == FALSE
(* Five seconds are over: srv.Close cuts the connections off and does not  *)
(* wait for their handlers.                                                *)
GraceOver ==
  /\ stage = "shutdown" /\ serving = "shut"
  /\ \E h \in Requests : handler[h] # "none"
  /\ forced' = TRUE
  /\ stage' = "stop scan" /\ exit' = "ok"
  /\ UNCHANGED <<given, parts, serving, handler, base, signalled>>

(* The deferred calls, last one first.                                     *)
StopScan ==
  /\ stage = "stop scan" /\ scan = "ended"
  /\ base' = FALSE
  /\ stage' = "close metrics"
  /\ UNCHANGED <<given, exit, parts, serving, handler, forced, signalled>>

CloseMetrics ==
  /\ stage = "close metrics"
  /\ metrics' = "closed"
  /\ stage' = "close tests"
  /\ UNCHANGED <<given, exit, listener, fleetState, testing, tests, scan, web, signalled>>

(* mutant: Close of the runner does not wait for its tests.                *)
CloseTestsUnwaited ==
  /\ stage = "close tests"
  /\ tests' = "closed"
  /\ stage' = "close fleet"
  /\ UNCHANGED <<given, exit, listener, fleetState, testing, metrics, scan, web, signalled>>
(* Runner.Close refuses new tests first, then waits for the running ones.  *)
CloseTests ==
  /\ stage = "close tests"
  /\ tests' = "closed"
  /\ stage' = IF tests = "closed" /\ ~testing THEN "close fleet" ELSE stage
  /\ UNCHANGED <<given, exit, listener, fleetState, testing, metrics, scan, web, signalled>>

CloseFleet ==
  /\ stage = "close fleet"
  /\ fleetState' = "closed"
  /\ stage' = "close listener"
  /\ UNCHANGED <<given, exit, listener, testing, tests, metrics, scan, web, signalled>>

CloseListener ==
  /\ stage = "close listener"
  /\ listener' = "closed"
  /\ stage' = "returned"
  /\ UNCHANGED <<given, exit, fleetState, testing, tests, metrics, scan, web, signalled>>

GoingUp == Parse \/ Listen \/ StartFleet \/ StartServing
GoingDown ==
  \/ SeeSignal \/ SeeFailure
  \/ BeginShutdown \/ Shutdown \/ GraceOver
  \/ StopScan \/ CloseMetrics \/ CloseTests \/ CloseFleet \/ CloseListener

CommandNext ==
  \/ \E f \in FleetFiles, g \in CommandLines : Invoke(f, g)
  \/ GoingUp
  \/ Signal \/ ServeFails \/ ScanEnds \/ TestEnds
  \/ \E h \in Requests :
       \/ \E kind \in {"short", "stream", "slow"} : Request(h, kind)
       \/ StartTest(h)
       \/ Respond(h)
  \/ GoingDown

CommandSpec == CommandInit /\ [][CommandNext]_commandVars

(* The command goes on, the grace period ends, a quality test ends, and    *)
(* the scan ends once its context has.  A short request is answered, and a *)
(* stream notices its context; other requests take as long as they like,   *)
(* and a signal may never come.                                            *)
CommandFair ==
  /\ WF_commandVars(GoingUp) /\ WF_commandVars(GoingDown)
  /\ WF_commandVars((signalled \/ stage = "stop scan") /\ ScanEnds)
  /\ WF_commandVars(TestEnds)
  /\ \A h \in Requests :
       WF_commandVars((handler[h] = "short" \/ (handler[h] = "stream" /\ ~base)) /\ Respond(h))

(***************************************************************************)
(* Properties.                                                             *)
(***************************************************************************)
(* The parts end in the opposite order of their start: no test runs, and   *)
(* none can be started, once the fleet is closed; no request is served by  *)
(* a closed fleet, unless its handler outlived the grace period or the     *)
(* server itself failed; and when run returns nothing of it is left.       *)
ShutdownOrder ==
  /\ fleetState = "closed" =>
       /\ ~testing /\ tests = "closed" /\ metrics = "closed" /\ scan = "ended"
       /\ (\A h \in Requests : handler[h] = "none") \/ forced \/ serving = "failed"
  /\ stage = "returned" => listener # "open" /\ scan # "running" /\ fleetState # "open"

(* A fleet that was started is one that can be used: between them the      *)
(* rules of the file, the flags, the catalogue and the servers let no      *)
(* other start, but for the wildcards of NoWildcardTold.                   *)
StartedFleetSound == fleetState # "none" => Sound(asked)

(* The comment at validateAdvertiseHost says that without an advertised    *)
(* host no wildcard is bound, which would be in every URL.                 *)
NoWildcardTold ==
  fleetState # "none" => (asked.advertise = NoHost => asked.host.addr # "wildcard")

(* Once told to stop the command returns, and it needs no client for that: *)
(* streams are told to end, and a handler that takes long is waited for no *)
(* longer than the grace period.                                           *)
RunReturns == (signalled \/ serving = "failed") ~> stage = "returned"
=============================================================================
