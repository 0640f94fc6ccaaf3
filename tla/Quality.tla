------------------------------ MODULE Quality ------------------------------
(***************************************************************************)
(* The stream quality tests (internal/quality) and the dashboard handlers  *)
(* that drive them (internal/dashboard/quality.go, dashboard.go).          *)
(*                                                                         *)
(* Each section under Runner.mu is one step.  A test is an entry with a    *)
(* goroutine of its own, which runs the analysis outside the lock, reads   *)
(* its context, and only then takes the lock to record the result; Cancel  *)
(* and Forget let go of the lock before they cancel and wait.              *)
(***************************************************************************)
EXTENDS Naturals, Sequences, FiniteSets

CONSTANTS Callers,   \* concurrent requests
          Cameras,   \* camera ids
          Max,       \* Options.MaxConcurrent
          Buffer,    \* eventBuffer
          None,
          MaxRuns,   \* bound on the tests started
          MaxAdds    \* bound on the cameras added again

ASSUME QualityAssumption ==
  /\ Max \in Nat \ {0} /\ Buffer \in Nat \ {0} /\ MaxRuns \in Nat /\ MaxAdds \in Nat
  /\ None \notin Cameras \cup Nat

VARIABLES fleet,    \* the cameras that exist; external to this module
          adds,
          runs,     \* Runner.runs: the current entry of each camera, or None
          active,   \* Runner.active
          closed,   \* Runner.closed
          started,  \* entries so far: they are numbered 1, 2, ...
          entry,    \* each entry's camera, run.State, context and goroutine
          last,     \* history: the event published last
          sub,      \* one subscription: its place in Runner.subs and goroutine
          buffered, \* events in its channel
          job,      \* what each caller is in the middle of
          done      \* history: entries a Cancel or Forget has waited for

runnerVars == <<runs, active, closed, started, entry, last>>
subVars == <<sub, buffered>>
vars == <<fleet, adds, runnerVars, subVars, job, done>>

Entries == 1 .. MaxRuns
Idle == [op |-> "idle"]

(* A goroutine is analyzing; sampled, with what it saw of its context; or  *)
(* recorded, and then gone once e.done is closed and wg.Done has run.      *)
Unborn == [cam |-> None, state |-> "none", cancelled |-> FALSE, go |-> "none", saw |-> FALSE]

Init ==
  /\ fleet = Cameras /\ adds = 0
  /\ runs = [c \in Cameras |-> None]
  /\ active = 0 /\ closed = FALSE
  /\ started = 0
  /\ entry = [n \in Entries |-> Unborn]
  /\ last = None
  /\ sub = "none" /\ buffered = 0
  /\ job = [p \in Callers |-> Idle]
  /\ done = {}

Become(p, j) == job' = [job EXCEPT ![p] = j]

(* publishLocked: a full subscriber is dropped, and its goroutine woken.   *)
Publish(n, state) ==
  /\ last' = [entry |-> n, state |-> state]
  /\ \/ /\ sub = "open" /\ buffered < Buffer
        /\ buffered' = buffered + 1
        /\ UNCHANGED sub
     \/ /\ sub = "open" /\ buffered = Buffer
        /\ sub' = "dropped"
        /\ UNCHANGED buffered
     \/ /\ sub # "open"
        /\ UNCHANGED subVars

(***************************************************************************)
(* The runner.                                                             *)
(***************************************************************************)
(* startQuality looks the camera up; Start comes after the request has     *)
(* been decoded.                                                           *)
StartLook(p, c) ==
  /\ job[p] = Idle /\ c \in fleet
  /\ Become(p, [op |-> "start", cam |-> c])
  /\ UNCHANGED <<fleet, adds, runnerVars, subVars, done>>

(* mutant: tests of one camera are counted, tests in flight are not.       *)
RefusesCurrentOnly(c) ==
  \/ closed
  \/ runs[c] # None /\ entry[runs[c]].state = "running"
  \/ Cardinality({x \in Cameras : runs[x] # None /\ entry[runs[x]].state = "running"}) >= Max

Refuses(c) ==
  \/ closed
  \/ runs[c] # None /\ entry[runs[c]].state = "running"
  \/ active >= Max

(* Runner.Start: refused, or a new entry, its event and its goroutine.     *)
Start(p) ==
  /\ job[p].op = "start"
  /\ Become(p, Idle)
  /\ LET c == job[p].cam
         n == started + 1
     IN  \/ /\ Refuses(c)
            /\ UNCHANGED <<runnerVars, subVars>>
         \/ /\ ~Refuses(c) /\ started < MaxRuns
            /\ started' = n
            /\ entry' = [entry EXCEPT ![n] = [cam |-> c, state |-> "running",
                            cancelled |-> FALSE, go |-> "analyzing", saw |-> FALSE]]
            /\ runs' = [runs EXCEPT ![c] = n]
            /\ active' = active + 1
            /\ Publish(n, "running")
            /\ UNCHANGED closed
  /\ UNCHANGED <<fleet, adds, done>>

(* The analysis returns and execute reads its context.                     *)
Analyzed(n) ==
  /\ entry[n].go = "analyzing"
  /\ entry' = [entry EXCEPT ![n].go = "sampled", ![n].saw = entry[n].cancelled]
  /\ UNCHANGED <<fleet, adds, runs, active, closed, started, last, subVars, job, done>>

(* mutant: the record is written whoever is the camera's current entry.    *)
IsCurrentAlways(n) == TRUE
IsCurrent(n) == runs[entry[n].cam] = n

(* execute under the lock: its place is freed, and unless it was forgotten *)
(* or replaced the result is recorded and published.                       *)
Record(n) ==
  /\ entry[n].go = "sampled"
  /\ active' = active - 1
  /\ \/ /\ ~IsCurrent(n)
        /\ entry' = [entry EXCEPT ![n].go = "recorded", ![n].saw = FALSE]
        /\ UNCHANGED <<last, subVars>>
     \/ /\ IsCurrent(n)
        /\ \E result \in IF entry[n].saw THEN {"cancelled"} ELSE {"done", "failed"} :
             /\ entry' = [entry EXCEPT ![n].go = "recorded", ![n].saw = FALSE, ![n].state = result]
             /\ Publish(n, result)
  /\ UNCHANGED <<fleet, adds, runs, closed, started, job, done>>

(* mutant: e.done is closed as soon as the analysis has returned.          *)
FinishEarly(n) ==
  /\ entry[n].go \in {"sampled", "recorded"}
  /\ entry' = [entry EXCEPT ![n].go = "gone"]
  /\ UNCHANGED <<fleet, adds, runs, active, closed, started, last, subVars, job, done>>

(* The deferred close(e.done) and wg.Done.                                 *)
Finish(n) ==
  /\ entry[n].go = "recorded"
  /\ entry' = [entry EXCEPT ![n].go = "gone"]
  /\ UNCHANGED <<fleet, adds, runs, active, closed, started, last, subVars, job, done>>

(* cancelQuality and the first section of Runner.Cancel.                   *)
CancelCheck(p, c) ==
  /\ job[p] = Idle /\ c \in fleet
  /\ runs[c] # None /\ entry[runs[c]].state = "running"
  /\ Become(p, [op |-> "cancel", entry |-> runs[c]])
  /\ UNCHANGED <<fleet, adds, runnerVars, subVars, done>>

(* Runner.Forget, called by removeCamera after the camera is gone.         *)
Forget(p) ==
  /\ job[p].op = "forget"
  /\ LET c == job[p].cam
     IN  /\ runs' = [runs EXCEPT ![c] = None]
         /\ Become(p, IF runs[c] = None THEN Idle ELSE [op |-> "cancel", entry |-> runs[c]])
  /\ UNCHANGED <<fleet, adds, active, closed, started, entry, last, subVars, done>>

(* e.cancel() of Cancel and of Forget.                                     *)
CancelContext(p) ==
  /\ job[p].op = "cancel"
  /\ entry' = [entry EXCEPT ![job[p].entry].cancelled = TRUE]
  /\ Become(p, [op |-> "wait", entry |-> job[p].entry])
  /\ UNCHANGED <<fleet, adds, runs, active, closed, started, last, subVars, done>>

(* <-e.done                                                                *)
Waited(p) ==
  /\ job[p].op = "wait" /\ entry[job[p].entry].go = "gone"
  /\ done' = done \cup {job[p].entry}
  /\ Become(p, Idle)
  /\ UNCHANGED <<fleet, adds, runnerVars, subVars>>

(* removeCamera: Fleet.RemoveCamera, with Forget to follow.                *)
RemoveCamera(p, c) ==
  /\ job[p] = Idle /\ c \in fleet
  /\ fleet' = fleet \ {c}
  /\ Become(p, [op |-> "forget", cam |-> c])
  /\ UNCHANGED <<adds, runnerVars, subVars, done>>

(* Fleet.AddCamera with an id that was removed.                            *)
AddCamera(c) ==
  /\ c \notin fleet /\ adds < MaxAdds
  /\ fleet' = fleet \cup {c}
  /\ adds' = adds + 1
  /\ UNCHANGED <<runnerVars, subVars, job, done>>

(* Subscribe, the end of its context, and the exit of its goroutine.       *)
Subscribe ==
  /\ sub = "none"
  /\ sub' = IF closed THEN "gone" ELSE "open"
  /\ UNCHANGED <<fleet, adds, runnerVars, buffered, job, done>>

Receive ==
  /\ buffered > 0
  /\ buffered' = buffered - 1
  /\ UNCHANGED <<fleet, adds, runnerVars, sub, job, done>>

SubEnds ==
  /\ sub \in {"open", "dropped"}
  /\ sub' = "gone"
  /\ UNCHANGED <<fleet, adds, runnerVars, buffered, job, done>>

(* mutant: Close cancels the contexts but leaves the subscriptions.        *)
CloseDropsNone == sub
CloseDrops == IF sub = "open" THEN "dropped" ELSE sub

(* Runner.Close: its section, and the wait for every goroutine.            *)
Close(p) ==
  /\ job[p] = Idle
  /\ Become(p, [op |-> "close"])
  /\ closed' = TRUE
  /\ \/ /\ closed
        /\ UNCHANGED <<entry, sub>>
     \/ /\ ~closed
        /\ entry' = [n \in Entries |->
             IF \E c \in Cameras : runs[c] = n /\ entry[n].state = "running"
             THEN [entry[n] EXCEPT !.cancelled = TRUE] ELSE entry[n]]
        /\ sub' = CloseDrops
  /\ UNCHANGED <<fleet, adds, runs, active, started, last, buffered, done>>

Quiet ==
  /\ \A n \in Entries : entry[n].go \in {"none", "gone"}
  /\ sub \in {"none", "gone"}

CloseReturn(p) ==
  /\ job[p].op = "close" /\ Quiet
  /\ Become(p, [op |-> "closed"])
  /\ UNCHANGED <<fleet, adds, runnerVars, subVars, done>>

Steps(p) == Start(p) \/ Forget(p) \/ CancelContext(p) \/ Waited(p) \/ CloseReturn(p)
Goroutine(n) == Record(n) \/ Finish(n)

Next ==
  \/ \E p \in Callers : Steps(p) \/ Close(p)
  \/ \E p \in Callers, c \in Cameras : StartLook(p, c) \/ CancelCheck(p, c) \/ RemoveCamera(p, c)
  \/ \E n \in Entries : Analyzed(n) \/ Goroutine(n)
  \/ \E c \in Cameras : AddCamera(c)
  \/ Subscribe \/ Receive \/ SubEnds

Spec == Init /\ [][Next]_vars

(* Handlers and goroutines go on; an analysis ends, at the latest when its *)
(* timeout does; a dropped subscription's goroutine is woken.  A client    *)
(* need not end its subscription.                                          *)
QualityFair ==
  /\ \A p \in Callers : WF_vars(Steps(p))
  /\ \A n \in Entries : WF_vars(Analyzed(n)) /\ WF_vars(Goroutine(n))
  /\ WF_vars(sub = "dropped" /\ SubEnds)

(***************************************************************************)
(* Properties.                                                             *)
(***************************************************************************)
Entry == [cam : Cameras \cup {None}, state : {"none", "running", "cancelled", "done", "failed"},
          cancelled : BOOLEAN, go : {"none", "analyzing", "sampled", "recorded", "gone"},
          saw : BOOLEAN]
Job == [op : {"idle", "close", "closed"}] \cup [op : {"start", "forget"}, cam : Cameras]
         \cup [op : {"cancel", "wait"}, entry : 1 .. started]

(* Every variable has its type; entries are named only once started, and   *)
(* those that are have a camera.                                           *)
TypeOK ==
  /\ fleet \subseteq Cameras /\ adds \in 0 .. MaxAdds
  /\ active \in Nat /\ closed \in BOOLEAN /\ started \in 0 .. MaxRuns
  /\ runs \in [Cameras -> 1 .. started \cup {None}]
  /\ entry \in [Entries -> Entry]
  /\ \A n \in Entries : IF n <= started THEN entry[n].cam # None ELSE entry[n] = Unborn
  /\ last \in [entry : 1 .. started, state : {"running", "cancelled", "done", "failed"}] \cup {None}
  /\ sub \in {"none", "open", "dropped", "gone"} /\ buffered \in 0 .. Buffer
  /\ job \in [Callers -> Job]
  /\ done \subseteq 1 .. started

(* Analyses in flight, including those whose camera was removed, are       *)
(* counted exactly and never exceed the limit.                             *)
ActiveIsInFlight ==
  /\ active = Cardinality({n \in Entries : entry[n].go \in {"analyzing", "sampled"}})
  /\ active <= Max

(* The test of a camera that was removed, or replaced by a newer one, ends *)
(* in silence: only the current test of a camera has its end published.    *)
OnlyCurrentSpeaks ==
  [][\A n \in Entries :
       entry'[n].state # entry[n].state =>
         /\ runs'[entry'[n].cam] = n
         /\ last' = [entry |-> n, state |-> entry'[n].state]]_vars

(* When Cancel or Forget returns, the analysis has ended, and a test that  *)
(* is still its camera's current one shows a final state.                  *)
CancelSettles ==
  \A n \in done :
    /\ entry[n].go = "gone"
    /\ runs[entry[n].cam] = n => entry[n].state \in {"cancelled", "done", "failed"}

(* Cancel, Forget and Close come to an end.                                *)
CallsReturn ==
  \A p \in Callers : job[p].op \in {"cancel", "wait", "close"} ~>
                       job[p].op \in {"idle", "closed"}
=============================================================================
