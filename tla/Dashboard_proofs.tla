--------------------------- MODULE Dashboard_proofs ---------------------------
(***************************************************************************)
(* The dashboard's quality tests, and the command that starts and stops    *)
(* the dashboard, for every number of requests, cameras and tests and for  *)
(* every fleet file and command line.                                      *)
(***************************************************************************)
EXTENDS Quality, Command, FiniteSetTheorems, TLAPS

(***************************************************************************)
(* The quality tests are counted, waited for and published right.  What a  *)
(* test is worth is in its entry: the ones in flight are those counted, a  *)
(* test that has ended has its final state recorded, and only the current  *)
(* test of a camera publishes.                                             *)
(***************************************************************************)
(* The analyses in flight, which Runner.active counts.                     *)
Flying == {n \in Entries : entry[n].go \in {"analyzing", "sampled"}}

(* The current test of a camera has a final state once it is recorded.     *)
Final == {"cancelled", "done", "failed"}
Settled ==
  \A n \in Entries : entry[n].go \in {"recorded", "gone"} /\ runs[entry[n].cam] = n =>
    entry[n].state \in Final
DoneIsGone == \A n \in done : entry[n].go = "gone"

QualityInv == TypeOK /\ ActiveIsInFlight /\ Settled /\ DoneIsGone

(* What a job names.                                                       *)
LEMMA JobFacts ==
  ASSUME TypeOK, NEW p \in Callers
  PROVE  /\ job[p] \in Job
         /\ job[p].op \in {"start", "forget"} => job[p].cam \in Cameras
         /\ job[p].op \in {"cancel", "wait"} => job[p].entry \in 1 .. started
  BY DEF TypeOK, Job

LEMMA EntriesFinite ==
  ASSUME TypeOK
  PROVE  /\ MaxRuns \in Nat /\ started \in Nat /\ 1 .. started \subseteq Entries
         /\ None \notin Entries /\ None \notin Cameras
         /\ IsFiniteSet(Flying) /\ Cardinality(Flying) \in Nat
<1>1. MaxRuns \in Nat /\ started \in Nat /\ 1 .. started \subseteq Entries
  BY QualityAssumption DEF TypeOK, Entries
<1>2. IsFiniteSet(Entries) BY <1>1, FS_Interval DEF Entries
<1>3. IsFiniteSet(Flying) BY <1>2, FS_Subset DEF Flying
<1> QED BY <1>1, <1>3, FS_CardinalityType, QualityAssumption DEF Entries

(***************************************************************************)
(* Steps that leave the tests alone: the fleet, and who waits for what.    *)
(***************************************************************************)
LEMMA TestsUntouched ==
  ASSUME QualityInv, UNCHANGED <<runs, active, started, entry>>, DoneIsGone'
  PROVE  ActiveIsInFlight' /\ Settled'
  BY DEF QualityInv, ActiveIsInFlight, Settled

LEMMA TestsRest ==
  ASSUME QualityInv,
         \/ Subscribe \/ Receive \/ SubEnds
         \/ \E c \in Cameras : AddCamera(c)
         \/ \E p \in Callers, c \in Cameras : StartLook(p, c) \/ CancelCheck(p, c) \/ RemoveCamera(p, c)
         \/ \E p \in Callers : CloseReturn(p) \/ Waited(p)
  PROVE  QualityInv'
<1>0. TypeOK /\ UNCHANGED <<runs, active, started, entry, last>>
  BY DEF QualityInv, Subscribe, Receive, SubEnds, AddCamera, StartLook, CancelCheck, RemoveCamera,
         CloseReturn, Waited, runnerVars
<1>1. fleet' \subseteq Cameras /\ adds' \in 0 .. MaxAdds /\ closed' = closed
  <2>1. ASSUME NEW c \in Cameras, AddCamera(c)
        PROVE  fleet' \subseteq Cameras /\ adds' \in 0 .. MaxAdds /\ closed' = closed
    BY <1>0, <2>1, QualityAssumption DEF TypeOK, AddCamera, runnerVars
  <2>2. ASSUME NEW p \in Callers, NEW c \in Cameras, RemoveCamera(p, c)
        PROVE  fleet' \subseteq Cameras /\ adds' \in 0 .. MaxAdds /\ closed' = closed
    BY <1>0, <2>2 DEF TypeOK, RemoveCamera, runnerVars
  <2>3. CASE UNCHANGED <<fleet, adds, closed>> BY <1>0, <2>3 DEF TypeOK
  <2> QED BY <2>1, <2>2, <2>3
       DEF Subscribe, Receive, SubEnds, StartLook, CancelCheck, CloseReturn, Waited, runnerVars
<1>2. sub' \in {"none", "open", "dropped", "gone"} /\ buffered' \in 0 .. Buffer
  <2>1. CASE Subscribe \/ Receive \/ SubEnds
    BY <1>0, <2>1, QualityAssumption DEF TypeOK, Subscribe, Receive, SubEnds
  <2>2. CASE UNCHANGED subVars BY <1>0, <2>2 DEF TypeOK, subVars
  <2> QED BY <2>1, <2>2
       DEF AddCamera, StartLook, CancelCheck, RemoveCamera, CloseReturn, Waited
<1>3. job' \in [Callers -> Job]
  <2>1. ASSUME NEW p \in Callers, NEW c \in Cameras, StartLook(p, c) \/ RemoveCamera(p, c)
        PROVE  job' \in [Callers -> Job]
    BY <1>0, <2>1 DEF TypeOK, Job, StartLook, RemoveCamera, Become
  <2>2. ASSUME NEW p \in Callers, NEW c \in Cameras, CancelCheck(p, c)
        PROVE  job' \in [Callers -> Job]
    <3>1. runs[c] \in 1 .. started BY <1>0, <2>2 DEF TypeOK, CancelCheck
    <3> QED BY <1>0, <2>2, <3>1 DEF TypeOK, Job, CancelCheck, Become
  <2>3. ASSUME NEW p \in Callers, CloseReturn(p) \/ Waited(p)
        PROVE  job' \in [Callers -> Job]
    BY <1>0, <2>3 DEF TypeOK, Job, CloseReturn, Waited, Become, Idle
  <2>4. CASE job' = job BY <1>0, <2>4 DEF TypeOK
  <2> QED BY <2>1, <2>2, <2>3, <2>4 DEF Subscribe, Receive, SubEnds, AddCamera
<1>4. done' \subseteq 1 .. started /\ DoneIsGone'
  <2>1. ASSUME NEW p \in Callers, Waited(p) PROVE done' \subseteq 1 .. started /\ DoneIsGone'
    <3>1. job[p].entry \in 1 .. started BY <1>0, <2>1, JobFacts DEF Waited
    <3> QED BY <1>0, <2>1, <3>1 DEF TypeOK, Waited, QualityInv, DoneIsGone
  <2>2. CASE done' = done BY <1>0, <2>2 DEF TypeOK, QualityInv, DoneIsGone
  <2> QED BY <2>1, <2>2
       DEF Subscribe, Receive, SubEnds, AddCamera, StartLook, CancelCheck, RemoveCamera, CloseReturn
<1>5. TypeOK' BY <1>0, <1>1, <1>2, <1>3, <1>4 DEF TypeOK, Job
<1> QED BY <1>0, <1>4, <1>5, TestsUntouched DEF QualityInv

(* An event is published; the subscription and its channel keep their type.*)
LEMMA PublishTyped ==
  ASSUME TypeOK, NEW n, NEW state, Publish(n, state)
  PROVE  /\ last' = [entry |-> n, state |-> state]
         /\ sub' \in {"none", "open", "dropped", "gone"} /\ buffered' \in 0 .. Buffer
  BY QualityAssumption DEF TypeOK, Publish, subVars

(* What names an entry goes on naming one when another is started.         *)
LEMMA TestStarts ==
  ASSUME QualityInv, NEW p \in Callers, Start(p)
  PROVE  QualityInv'
<1>0. TypeOK BY DEF QualityInv
<1>1. UNCHANGED <<fleet, adds, done>> /\ job' = [job EXCEPT ![p] = Idle]
      /\ job[p].cam \in Cameras
  BY <1>0, JobFacts DEF Start, Become
<1>2. CASE UNCHANGED <<runnerVars, subVars>>
  <2>1. TypeOK' BY <1>0, <1>1, <1>2 DEF TypeOK, Job, Idle, runnerVars, subVars
  <2>2. DoneIsGone' BY <1>1, <1>2 DEF QualityInv, DoneIsGone, runnerVars
  <2> QED BY <2>1, <2>2, <1>2, TestsUntouched DEF QualityInv, runnerVars
<1>3. CASE ~UNCHANGED <<runnerVars, subVars>>
  <2> DEFINE c == job[p].cam
             n == started + 1
             e == [cam |-> c, state |-> "running", cancelled |-> FALSE, go |-> "analyzing",
                   saw |-> FALSE]
  <2>1. /\ ~Refuses(c) /\ started < MaxRuns /\ started' = n /\ UNCHANGED closed
        /\ entry' = [entry EXCEPT ![n] = e] /\ runs' = [runs EXCEPT ![c] = n]
        /\ active' = active + 1 /\ Publish(n, "running")
    BY <1>3 DEF Start
  <2>2. /\ started \in Nat /\ MaxRuns \in Nat /\ n \in Entries /\ n \in 1 .. MaxRuns
        /\ 1 .. started' = 1 .. started \cup {n} /\ n \notin 1 .. started
        /\ entry[n] = Unborn /\ c \in Cameras /\ None \notin Cameras /\ None \notin Entries
    <3>1. n \in Entries /\ ~(n <= started) BY <2>1, <1>0, EntriesFinite DEF Entries
    <3> QED BY <3>1, <2>1, <1>0, <1>1, EntriesFinite DEF TypeOK, Entries
  <2>3. e \in Entry BY <2>2 DEF Entry
  <2>4. entry' \in [Entries -> Entry] /\ entry'[n] = e
        /\ \A m \in Entries : m # n => entry'[m] = entry[m]
    <3> HIDE DEF e
    <3> QED BY <1>0, <2>1, <2>2, <2>3 DEF TypeOK
  <2>5. runs' \in [Cameras -> 1 .. started' \cup {None}]
    <3> HIDE DEF n
    <3> QED BY <1>0, <2>1, <2>2 DEF TypeOK
  <2>6. TypeOK'
    <3>1. \A m \in Entries : IF m <= started' THEN entry'[m].cam # None ELSE entry'[m] = Unborn
      <4> TAKE m \in Entries
      <4>1. CASE m = n BY <4>1, <2>1, <2>2, <2>4
      <4>2. CASE m # n BY <4>2, <1>0, <2>1, <2>2, <2>4 DEF TypeOK, Entries
      <4> QED BY <4>1, <4>2
    <3>2. /\ last' \in [entry : 1 .. started', state : {"running", "cancelled", "done", "failed"}]
          /\ sub' \in {"none", "open", "dropped", "gone"} /\ buffered' \in 0 .. Buffer
      <4> HIDE DEF n
      <4> QED BY <1>0, <2>1, <2>2, PublishTyped
    <3>3. Job \subseteq Job' BY <2>2 DEF Job
    <3>4. job' \in [Callers -> Job'] BY <1>0, <1>1, <3>3 DEF TypeOK, Job, Idle
    <3>5. active' \in Nat /\ started' \in 0 .. MaxRuns BY <1>0, <2>1, <2>2 DEF TypeOK
    <3>6. done' \subseteq 1 .. started' BY <1>0, <1>1, <2>2 DEF TypeOK
    <3> QED BY <1>0, <1>1, <2>1, <2>4, <2>5, <3>1, <3>2, <3>4, <3>5, <3>6 DEF TypeOK
  <2>7. ActiveIsInFlight'
    <3>1. Flying' = Flying \cup {n} /\ n \notin Flying
      BY <2>2, <2>4 DEF Flying, Unborn
    <3>2. Cardinality(Flying') = Cardinality(Flying) + 1
      BY <1>0, <3>1, EntriesFinite, FS_AddElement
    <3>3. active < Max /\ active \in Nat /\ Max \in Nat
      BY <1>0, <2>1, QualityAssumption DEF Refuses, TypeOK
    <3>4. active' = Cardinality(Flying') /\ active' <= Max
      BY <2>1, <3>2, <3>3 DEF QualityInv, ActiveIsInFlight, Flying
    <3> QED BY <3>4 DEF ActiveIsInFlight, Flying
  <2>8. Settled'
    <3> SUFFICES ASSUME NEW m \in Entries, entry'[m].go \in {"recorded", "gone"},
                        runs'[entry'[m].cam] = m
                 PROVE  entry'[m].state \in Final
      BY DEF Settled
    <3>1. m # n /\ entry'[m] = entry[m] BY <2>4
    <3>2. runs[entry[m].cam] = m \/ entry[m].cam \notin Cameras BY <1>0, <2>1, <3>1 DEF TypeOK
    <3>3. entry[m].cam # None
      <4>1. entry[m] # Unborn BY <3>1 DEF Unborn
      <4> QED BY <1>0, <4>1 DEF TypeOK
    <3>4. entry[m].cam \in Cameras BY <1>0, <3>3 DEF TypeOK, Entry
    <3> QED BY <3>1, <3>2, <3>4 DEF QualityInv, Settled
  <2>9. DoneIsGone'
    BY <1>0, <1>1, <2>2, <2>4, EntriesFinite DEF QualityInv, DoneIsGone, TypeOK
  <2> QED BY <2>6, <2>7, <2>8, <2>9 DEF QualityInv
<1> QED BY <1>2, <1>3

(* The goroutine of a test, and what a Cancel, a Forget or a Close does to *)
(* its context: the entry changes, and keeps its camera.                   *)
LEMMA EntryTyped ==
  ASSUME TypeOK, NEW n \in 1 .. started, NEW e \in Entry, e.cam = entry[n].cam,
         entry' = [entry EXCEPT ![n] = e], UNCHANGED <<started, runs, adds, fleet, done>>,
         job' \in [Callers -> Job], closed' \in BOOLEAN, active' \in Nat,
         last' \in [entry : 1 .. started, state : {"running", "cancelled", "done", "failed"}] \cup {None},
         sub' \in {"none", "open", "dropped", "gone"}, buffered' \in 0 .. Buffer
  PROVE  TypeOK'
<1>1. n \in Entries BY EntriesFinite
<1>2. entry' \in [Entries -> Entry] BY <1>1 DEF TypeOK
<1>3. \A m \in Entries : IF m <= started' THEN entry'[m].cam # None ELSE entry'[m] = Unborn
  BY <1>1, EntriesFinite DEF TypeOK
<1> QED BY <1>2, <1>3 DEF TypeOK, Job

(* What the goroutine of a test is at.                                     *)
LEMMA TestRuns ==
  ASSUME QualityInv, NEW n \in Entries, Analyzed(n) \/ Record(n) \/ Finish(n)
  PROVE  QualityInv'
<1>0. TypeOK BY DEF QualityInv
<1>1. entry[n] \in Entry /\ entry[n] # Unborn
  BY <1>0 DEF TypeOK, Analyzed, Record, Finish, Unborn
<1>2. n \in 1 .. started /\ entry[n].cam \in Cameras
  <2>1. n \in 1 .. started BY <1>0, <1>1, EntriesFinite DEF TypeOK, Entries
  <2>2. entry[n].cam # None BY <1>0, <2>1, EntriesFinite DEF TypeOK
  <2> QED BY <1>1, <2>1, <2>2 DEF Entry
<1>3. UNCHANGED <<fleet, adds, runs, closed, started, job, done>>
  BY DEF Analyzed, Record, Finish
<1>4. job' \in [Callers -> Job] /\ closed' \in BOOLEAN BY <1>0, <1>3 DEF TypeOK
<1>5. CASE Analyzed(n) \/ Finish(n)
  <2> DEFINE e == IF entry[n].go = "analyzing"
                  THEN [entry[n] EXCEPT !.go = "sampled", !.saw = entry[n].cancelled]
                  ELSE [entry[n] EXCEPT !.go = "gone"]
  <2>1. e \in Entry /\ e.cam = entry[n].cam /\ e.state = entry[n].state BY <1>1 DEF Entry
  <2>2. entry' = [entry EXCEPT ![n] = e] BY <1>0, <1>5 DEF Analyzed, Finish, TypeOK
  <2>3. UNCHANGED <<active, last, subVars>> BY <1>5 DEF Analyzed, Finish
  <2>4. /\ e.go \in {"analyzing", "sampled"} <=> entry[n].go \in {"analyzing", "sampled"}
        /\ e.go \in {"recorded", "gone"} => entry[n].go \in {"recorded", "gone"}
        /\ entry[n].go # "gone"
    BY <1>1, <1>5 DEF Analyzed, Finish, Entry
  <2> HIDE DEF e
  <2>5. entry'[n] = e /\ \A m \in Entries : m # n => entry'[m] = entry[m]
    BY <1>0, <2>2 DEF TypeOK
  <2>6. TypeOK' BY <1>0, <1>2, <1>3, <1>4, <2>1, <2>2, <2>3, EntryTyped DEF TypeOK, subVars
  <2>7. ActiveIsInFlight'
    <3>1. Flying' = Flying BY <2>4, <2>5 DEF Flying
    <3> QED BY <3>1, <2>3 DEF QualityInv, ActiveIsInFlight, Flying
  <2>8. Settled' BY <1>3, <2>1, <2>4, <2>5 DEF QualityInv, Settled
  <2>9. DoneIsGone'
    BY <1>0, <1>3, <2>4, <2>5, EntriesFinite DEF QualityInv, DoneIsGone, TypeOK
  <2> QED BY <2>6, <2>7, <2>8, <2>9 DEF QualityInv
<1>6. CASE Record(n)
  <2> DEFINE quiet == [entry[n] EXCEPT !.go = "recorded", !.saw = FALSE]
             told(r) == [entry[n] EXCEPT !.go = "recorded", !.saw = FALSE, !.state = r]
  <2>1. entry[n].go = "sampled" /\ active' = active - 1 BY <1>6 DEF Record
  <2>2. PICK e \in Entry :
          /\ entry' = [entry EXCEPT ![n] = e]
          /\ e.cam = entry[n].cam /\ e.go = "recorded"
          /\ runs[entry[n].cam] = n => e.state \in Final
    <3>1. CASE ~IsCurrent(n)
      <4>1. quiet \in Entry /\ quiet.cam = entry[n].cam /\ quiet.go = "recorded"
        BY <1>1 DEF Entry
      <4>2. entry' = [entry EXCEPT ![n] = quiet] BY <1>0, <1>6, <3>1 DEF Record, TypeOK
      <4> HIDE DEF quiet
      <4> QED BY <3>1, <4>1, <4>2 DEF IsCurrent
    <3>2. CASE IsCurrent(n)
      <4>1. PICK r \in Final : entry' = [entry EXCEPT ![n] = told(r)]
        BY <1>0, <1>6, <3>2 DEF Record, TypeOK, Final
      <4>2. told(r) \in Entry /\ told(r).cam = entry[n].cam /\ told(r).go = "recorded"
            /\ told(r).state = r
        BY <1>1 DEF Entry, Final
      <4> HIDE DEF told
      <4> QED BY <4>1, <4>2
    <3> QED BY <3>1, <3>2
  <2>3. entry'[n] = e /\ \A m \in Entries : m # n => entry'[m] = entry[m]
    BY <1>0, <2>2 DEF TypeOK
  <2>4. /\ last' \in [entry : 1 .. started, state : {"running", "cancelled", "done", "failed"}] \cup {None}
        /\ sub' \in {"none", "open", "dropped", "gone"} /\ buffered' \in 0 .. Buffer
    <3>1. CASE UNCHANGED <<last, subVars>> BY <1>0, <3>1 DEF TypeOK, subVars
    <3>2. CASE \E r \in Final : Publish(n, r) BY <1>0, <1>2, <3>2, PublishTyped DEF Final
    <3> QED BY <1>6, <3>1, <3>2 DEF Record, Final
  <2>5. /\ Flying' = Flying \ {n} /\ n \in Flying
        /\ active' = Cardinality(Flying') /\ active' \in Nat /\ active' <= Max
    <3>1. Flying' = Flying \ {n} /\ n \in Flying BY <2>1, <2>2, <2>3 DEF Flying
    <3>2. Cardinality(Flying') = Cardinality(Flying) - 1 /\ Cardinality(Flying') \in Nat
      BY <1>0, <3>1, EntriesFinite, FS_RemoveElement, FS_Subset, FS_CardinalityType
    <3>3. active = Cardinality(Flying) /\ active <= Max /\ active \in Nat /\ Max \in Nat
      BY <1>0, QualityAssumption DEF QualityInv, ActiveIsInFlight, Flying, TypeOK
    <3> QED BY <2>1, <3>1, <3>2, <3>3
  <2>6. TypeOK' BY <1>0, <1>2, <1>3, <1>4, <2>2, <2>4, <2>5, EntryTyped
  <2>7. ActiveIsInFlight' BY <2>5 DEF ActiveIsInFlight, Flying
  <2>8. Settled' BY <1>3, <2>2, <2>3 DEF QualityInv, Settled
  <2>9. DoneIsGone'
    BY <1>0, <1>3, <2>1, <2>3, EntriesFinite DEF QualityInv, DoneIsGone, TypeOK
  <2> QED BY <2>6, <2>7, <2>8, <2>9 DEF QualityInv
<1> QED BY <1>5, <1>6

(* Steps that at most cancel contexts or take entries from the cameras.    *)
LEMMA TestCancels ==
  ASSUME QualityInv, NEW p \in Callers, Forget(p) \/ CancelContext(p) \/ Close(p)
  PROVE  QualityInv'
<1>0. TypeOK /\ UNCHANGED <<fleet, adds, active, started, last, buffered, done>>
  BY DEF QualityInv, Forget, CancelContext, Close, subVars
<1>1. /\ entry' \in [Entries -> Entry]
      /\ \A n \in Entries : /\ entry'[n].cam = entry[n].cam /\ entry'[n].go = entry[n].go
                            /\ entry'[n].state = entry[n].state
                            /\ entry[n] = Unborn => entry'[n] = Unborn \/ n <= started
  <2>1. CASE Forget(p) BY <1>0, <2>1 DEF Forget, TypeOK
  <2>2. CASE CancelContext(p)
    <3> DEFINE m == job[p].entry
               e == [entry[m] EXCEPT !.cancelled = TRUE]
    <3>1. m \in 1 .. started /\ m \in Entries BY <1>0, <2>2, JobFacts, EntriesFinite DEF CancelContext
    <3>2. e \in Entry /\ e.cam = entry[m].cam /\ e.go = entry[m].go /\ e.state = entry[m].state
      <4>1. entry[m] \in Entry BY <1>0, <3>1 DEF TypeOK
      <4> QED BY <4>1 DEF Entry
    <3>3. entry' = [entry EXCEPT ![m] = e] BY <1>0, <2>2, <3>1 DEF CancelContext, TypeOK
    <3>4. m <= started BY <3>1
    <3> HIDE DEF e
    <3> QED BY <1>0, <3>1, <3>2, <3>3, <3>4 DEF TypeOK
  <2>3. CASE Close(p)
    <3> DEFINE e(n) == [entry[n] EXCEPT !.cancelled = TRUE]
    <3>1. \A n \in Entries : /\ e(n) \in Entry /\ e(n).cam = entry[n].cam
                             /\ e(n).go = entry[n].go /\ e(n).state = entry[n].state
      BY <1>0 DEF TypeOK, Entry
    <3>2. \A n \in Entries : entry'[n] = entry[n] \/ (entry'[n] = e(n) /\ entry[n].state = "running")
      BY <1>0, <2>3 DEF Close, TypeOK
    <3>3. entry' = [n \in Entries |-> entry'[n]] BY <1>0, <2>3 DEF Close, TypeOK
    <3> HIDE DEF e
    <3>4. entry' \in [Entries -> Entry] BY <1>0, <3>1, <3>2, <3>3 DEF TypeOK
    <3>5. \A n \in Entries : entry[n] = Unborn => entry[n].state # "running" BY DEF Unborn
    <3> QED BY <3>1, <3>2, <3>4, <3>5
  <2> QED BY <2>1, <2>2, <2>3
<1>2. /\ runs' \in [Cameras -> 1 .. started \cup {None}]
      /\ \A c \in Cameras : runs'[c] # None => runs'[c] = runs[c]
  BY <1>0 DEF TypeOK, Forget, CancelContext, Close
<1>3. job' \in [Callers -> Job]
  <2>1. CASE Forget(p)
    <3>1. job[p].cam \in Cameras BY <1>0, <2>1, JobFacts DEF Forget
    <3>2. runs[job[p].cam] \in 1 .. started \cup {None} BY <1>0, <3>1 DEF TypeOK
    <3> QED BY <1>0, <2>1, <3>2 DEF TypeOK, Forget, Become, Job, Idle
  <2>2. CASE CancelContext(p)
    <3>1. job[p].entry \in 1 .. started BY <1>0, <2>2, JobFacts DEF CancelContext
    <3> QED BY <1>0, <2>2, <3>1 DEF TypeOK, CancelContext, Become, Job
  <2>3. CASE Close(p) BY <1>0, <2>3 DEF TypeOK, Close, Become, Job
  <2> QED BY <2>1, <2>2, <2>3
<1>4. closed' \in BOOLEAN /\ sub' \in {"none", "open", "dropped", "gone"}
  BY <1>0 DEF TypeOK, Forget, CancelContext, Close, CloseDrops, subVars
<1>5. \A n \in Entries : IF n <= started THEN entry'[n].cam # None ELSE entry'[n] = Unborn
  BY <1>0, <1>1 DEF TypeOK
<1>6. TypeOK' BY <1>0, <1>1, <1>2, <1>3, <1>4, <1>5 DEF TypeOK, Job
<1>7. ActiveIsInFlight'
  <2>1. Flying' = Flying BY <1>1 DEF Flying
  <2> QED BY <2>1, <1>0 DEF QualityInv, ActiveIsInFlight, Flying
<1>8. Settled'
  <2> SUFFICES ASSUME NEW n \in Entries, entry'[n].go \in {"recorded", "gone"},
                      runs'[entry'[n].cam] = n
               PROVE  entry'[n].state \in Final
    BY DEF Settled
  <2>1. entry[n] # Unborn BY <1>1 DEF Unborn
  <2>2. entry[n].cam \in Cameras BY <1>0, <2>1 DEF TypeOK, Entry
  <2>3. runs[entry[n].cam] = n BY <1>0, <1>1, <1>2, <2>2, EntriesFinite
  <2> QED BY <1>1, <2>3 DEF QualityInv, Settled
<1>9. DoneIsGone' BY <1>0, <1>1, EntriesFinite DEF QualityInv, DoneIsGone, TypeOK
<1> QED BY <1>6, <1>7, <1>8, <1>9 DEF QualityInv

LEMMA QualityKept == QualityInv /\ [Next]_vars => QualityInv'
<1> SUFFICES ASSUME QualityInv, [Next]_vars PROVE QualityInv' OBVIOUS
<1>1. ASSUME NEW p \in Callers, Steps(p) \/ Close(p) PROVE QualityInv'
  BY <1>1, TestStarts, TestCancels, TestsRest DEF Steps
<1>2. ASSUME NEW n \in Entries, Analyzed(n) \/ Goroutine(n) PROVE QualityInv'
  BY <1>2, TestRuns DEF Goroutine
<1>3. CASE UNCHANGED vars
  <2>1. TypeOK' BY <1>3 DEF QualityInv, vars, runnerVars, subVars, TypeOK, Job
  <2>2. DoneIsGone' BY <1>3 DEF QualityInv, vars, runnerVars, DoneIsGone
  <2> QED BY <1>3, <2>1, <2>2, TestsUntouched DEF QualityInv, vars, runnerVars
<1> QED BY <1>1, <1>2, <1>3, TestsRest DEF Next

LEMMA QualityStarts == Init => QualityInv
<1> SUFFICES ASSUME Init PROVE QualityInv OBVIOUS
<1>0. MaxRuns \in Nat /\ Max \in Nat /\ Buffer \in Nat /\ MaxAdds \in Nat
  BY QualityAssumption
<1>1. TypeOK
  <2>1. entry \in [Entries -> Entry] BY DEF Init, Entry, Unborn
  <2>2. \A n \in Entries : ~(n <= started) /\ entry[n] = Unborn BY <1>0 DEF Init, Entries
  <2>3. job \in [Callers -> Job] BY DEF Init, Job, Idle
  <2>4. runs \in [Cameras -> 1 .. started \cup {None}] BY DEF Init
  <2>5. /\ adds \in 0 .. MaxAdds /\ active \in Nat /\ started \in 0 .. MaxRuns
        /\ buffered \in 0 .. Buffer
    BY <1>0 DEF Init
  <2>6. fleet \subseteq Cameras /\ closed \in BOOLEAN /\ last = None /\ sub = "none" /\ done = {}
    BY DEF Init
  <2> QED BY <2>1, <2>2, <2>3, <2>4, <2>5, <2>6 DEF TypeOK
<1>2. Flying = {} BY DEF Init, Flying, Unborn
<1>3. ActiveIsInFlight BY <1>0, <1>2, FS_EmptySet DEF Init, ActiveIsInFlight, Flying
<1>4. Settled /\ DoneIsGone BY DEF Init, Settled, DoneIsGone, Unborn
<1> QED BY <1>1, <1>3, <1>4 DEF QualityInv

LEMMA QualityAlways == Spec => []QualityInv
  BY QualityStarts, QualityKept, PTL DEF Spec

(* Every variable of the runner has its type.                              *)
THEOREM QualityTypeCorrect == Spec => []TypeOK
<1>1. QualityInv => TypeOK BY DEF QualityInv
<1> QED BY <1>1, QualityAlways, PTL

(* Runner.active is the number of analyses in flight, and within its limit.*)
THEOREM ActiveStaysExact == Spec => []ActiveIsInFlight
<1>1. QualityInv => ActiveIsInFlight BY DEF QualityInv
<1> QED BY <1>1, QualityAlways, PTL

(* Whoever Cancel or Forget has waited for is over, with its result shown  *)
(* if it is still the test of its camera.                                  *)
THEOREM CancelAlwaysSettles == Spec => []CancelSettles
<1>1. QualityInv => CancelSettles
  BY EntriesFinite DEF QualityInv, TypeOK, DoneIsGone, Settled, CancelSettles, Final
<1> QED BY <1>1, QualityAlways, PTL

(* A test that is no longer its camera's ends in silence.                  *)
THEOREM OnlyTheCurrentSpeaks == Spec => OnlyCurrentSpeaks
<1> DEFINE Speaks(n) == entry'[n].state # entry[n].state =>
                          /\ runs'[entry'[n].cam] = n
                          /\ last' = [entry |-> n, state |-> entry'[n].state]
<1>1. QualityInv /\ [Next]_vars => [\A n \in Entries : Speaks(n)]_vars
  <2> SUFFICES ASSUME TypeOK, Next, NEW n \in Entries, entry'[n].state # entry[n].state
               PROVE  Speaks(n)
    BY DEF QualityInv
  <2>1. ASSUME NEW p \in Callers, Start(p) PROVE Speaks(n)
    <3>1. entry' # entry OBVIOUS
    <3>2. job[p].cam \in Cameras BY <2>1, JobFacts DEF Start
    <3> DEFINE m == started + 1
    <3>3. /\ m \in Entries /\ runs' = [runs EXCEPT ![job[p].cam] = m] /\ Publish(m, "running")
          /\ entry' = [entry EXCEPT ![m] = [cam |-> job[p].cam, state |-> "running",
                                            cancelled |-> FALSE, go |-> "analyzing", saw |-> FALSE]]
      BY <2>1, <3>1, EntriesFinite DEF Start, runnerVars, Entries
    <3>4. n = m BY <3>3 DEF TypeOK
    <3>5. entry'[n].cam = job[p].cam /\ entry'[n].state = "running" BY <3>3, <3>4 DEF TypeOK
    <3>6. runs'[job[p].cam] = n BY <3>2, <3>3, <3>4 DEF TypeOK
    <3> QED BY <3>3, <3>4, <3>5, <3>6 DEF Publish
  <2>2. ASSUME NEW m \in Entries, Record(m) PROVE Speaks(n)
    <3>1. n = m /\ IsCurrent(m)
      <4>0. entry[n] \in Entry BY DEF TypeOK
      <4>1. CASE n # m BY <2>2, <4>1 DEF Record, TypeOK
      <4>2. CASE n = m /\ ~IsCurrent(m)
        <5>1. entry' = [entry EXCEPT ![n].go = "recorded", ![n].saw = FALSE]
          BY <2>2, <4>2 DEF Record
        <5> QED BY <4>0, <5>1 DEF TypeOK, Entry
      <4> QED BY <4>1, <4>2
    <3>2. PICK r \in Final :
            /\ entry' = [entry EXCEPT ![n].go = "recorded", ![n].saw = FALSE, ![n].state = r]
            /\ Publish(n, r)
      BY <2>2, <3>1 DEF Record, Final
    <3>3. entry[n] \in Entry BY DEF TypeOK
    <3>4. entry'[n].state = r /\ entry'[n].cam = entry[n].cam BY <3>2, <3>3 DEF TypeOK, Entry
    <3>5. runs' = runs BY <2>2 DEF Record
    <3> QED BY <3>1, <3>2, <3>4, <3>5 DEF Publish, IsCurrent
  <2>3. ASSUME NEW m \in Entries, Analyzed(m) \/ Finish(m) PROVE FALSE
    BY <2>3 DEF Analyzed, Finish, TypeOK, Entry
  <2>4. ASSUME NEW p \in Callers, CancelContext(p) PROVE FALSE
    BY <2>4 DEF CancelContext, TypeOK, Entry
  <2>5. ASSUME NEW p \in Callers, Close(p) PROVE FALSE
    BY <2>5 DEF Close, TypeOK, Entry
  <2>6. entry' # entry OBVIOUS
  <2> QED BY <2>1, <2>2, <2>3, <2>4, <2>5, <2>6
       DEF Next, Steps, Goroutine, Forget, Waited, CloseReturn, StartLook, CancelCheck,
           RemoveCamera, AddCamera, Subscribe, Receive, SubEnds, runnerVars
<1> QED BY <1>1, QualityAlways, PTL DEF Spec, OnlyCurrentSpeaks


(***************************************************************************)
(* The command.  A fleet that is started is sound because each check of    *)
(* the flags, the file and the catalogue excludes what some part could not *)
(* work with.  The parts end in order because run walks through its stages *)
(* one by one: which parts are up, and whether handlers may still be there,*)
(* is a matter of the stage.                                               *)
(***************************************************************************)
(***************************************************************************)
(* What passes validation can be worked with.                              *)
(***************************************************************************)
WithNumbers(s) == \A p \in DOMAIN s.set \cap Numeric : s.set[p] \in Int

(* A number that is set is in its range, one that is not reads as zero.    *)
LEMMA InRange ==
  ASSUME NEW s, Accepts(s), WithNumbers(s), NEW p \in Numeric, NEW min \in Nat, NEW max \in Nat,
         Kinds[s.kind].params[p] = Number(min, max)
  PROVE  /\ Value(s, p) \in Nat /\ Value(s, p) <= max
         /\ Value(s, p) # 0 => p \in DOMAIN s.set /\ min <= Value(s, p)
         /\ p \in DOMAIN s.set => min <= Value(s, p)
<1>1. CASE p \in DOMAIN s.set
  <2>1. Allowed(Number(min, max), s.set[p]) /\ s.set[p] \in Int
    BY <1>1 DEF Accepts, CheckParams, WithNumbers
  <2>2. min <= s.set[p] /\ s.set[p] <= max
    BY <2>1 DEF Allowed, Number
  <2> QED BY <1>1, <2>1, <2>2 DEF Value
<1>2. CASE p \notin DOMAIN s.set
  BY <1>2 DEF Value
<1> QED BY <1>1, <1>2

(* The entries of the catalogue that the engines depend on.                *)
LEMMA CatalogueFacts ==
  /\ Kinds["packet_loss"].params.rate = Number(0, Unit)
  /\ Kinds["packet_loss"].params.meanBurst = Number(Unit, 1000 * Unit)
  /\ Kinds["keyframe_starvation"].params.keepEvery = Number(2, 1000)
  /\ Kinds["keyframe_starvation"].required = {"keepEvery"}
  /\ Kinds["rtsp_error"].params.status = Number(400, 599)
  /\ Kinds["rtsp_error"].params.rate = Number(0, Unit)
  /\ Kinds["teardown"].params.afterFrames = Number(1, 100000)
  /\ Kinds["teardown"].required = {"afterFrames"}
  /\ Kinds["jitter"].params.maxMs = Number(1, 5000)
  /\ Kinds["jitter"].required = {"maxMs"}
  /\ Kinds["burst_delivery"].params.holdFrames = Number(2, 300)
  /\ Kinds["burst_delivery"].required = {"holdFrames"}
  /\ Kinds["pts_delayed"].params.delayMs = Number(1, 60000)
  /\ Kinds["pts_delayed"].params.driftPpm = Number(1, 100000)
BY DEF Kinds, Kind, Rate

(* The largest rate that bursts can reach keeps both a probability.        *)
LEMMA LossIsProbable ==
  ASSUME NEW s, Value(s, "rate") \in Nat, Value(s, "meanBurst") \in Nat,
         Value(s, "meanBurst") > Unit, Value(s, "rate") < Unit,
         Limit(Value(s, "rate"), Value(s, "meanBurst"))
  PROVE  Probability(LossP(s)) /\ Probability(LossQ(s))
<1> DEFINE r == Value(s, "rate")
           b == Value(s, "meanBurst")
<1>1. r \in Nat /\ b \in Nat /\ b > Unit /\ r < Unit /\ r * (Unit + b) <= b * Unit
  BY DEF Limit
<1>2. Unit \in Nat /\ Unit > 0
  BY CatalogueAssumption
<1> HIDE DEF r, b
<1>3. b * (Unit - r) > 0 /\ 0 <= r * Unit /\ r * Unit <= b * (Unit - r)
  <2>1. Unit - r \in Nat /\ Unit - r > 0
    BY <1>1, <1>2
  <2>2. r * (Unit + b) = r * Unit + r * b /\ b * (Unit - r) = b * Unit - r * b
    BY <1>1, <1>2
  <2>3. r * Unit \in Nat /\ r * b \in Nat /\ b * Unit \in Nat
    BY <1>1, <1>2
  <2>4. b * (Unit - r) >= 1
    BY <1>1, <1>2, <2>1
  <2> QED BY <1>1, <2>2, <2>3, <2>4
<1>4. b > 0 /\ 0 <= b - Unit /\ b - Unit <= b
  BY <1>1, <1>2
<1> QED BY <1>3, <1>4 DEF Probability, LossP, LossQ, r, b

LEMMA AcceptedIsWorkable ==
  ASSUME NEW s, Accepts(s), WithNumbers(s)
  PROVE  Workable(s)
<1>1. Unit \in Nat /\ 1000 * Unit \in Nat
  BY CatalogueAssumption
<1>2. Kinds[s.kind].required \subseteq DOMAIN s.set
  BY DEF Accepts, CheckParams, HasRequired
<1>3. CASE s.kind = "packet_loss"
  <2>0. /\ Kinds[s.kind].params.rate = Number(0, Unit)
        /\ Kinds[s.kind].params.meanBurst = Number(Unit, 1000 * Unit)
    BY <1>3, CatalogueFacts
  <2>1. Value(s, "rate") \in Nat /\ Value(s, "rate") <= Unit
    BY <1>1, <2>0, InRange DEF Numeric
  <2>2. Value(s, "meanBurst") \in Nat
    BY <1>1, <2>0, InRange DEF Numeric
  <2>3. Value(s, "meanBurst") > Unit =>
          Value(s, "rate") < Unit /\ Limit(Value(s, "rate"), Value(s, "meanBurst"))
    BY <1>1, <1>3, <2>2 DEF Accepts, CheckParams
  <2>4. Value(s, "meanBurst") > Unit => Probability(LossP(s)) /\ Probability(LossQ(s))
    BY <2>1, <2>2, <2>3, LossIsProbable
  <2> QED BY <1>3, <2>1, <2>4 DEF Workable
<1>4. CASE s.kind = "keyframe_starvation"
  <2>0. Kinds[s.kind].params.keepEvery = Number(2, 1000) /\ "keepEvery" \in DOMAIN s.set
    BY <1>2, <1>4, CatalogueFacts
  <2>1. Value(s, "keepEvery") \in Nat /\ 2 <= Value(s, "keepEvery")
    BY <2>0, InRange DEF Numeric
  <2> QED BY <1>4, <2>1 DEF Workable
<1>5. CASE s.kind = "burst_delivery"
  <2>0. Kinds[s.kind].params.holdFrames = Number(2, 300) /\ "holdFrames" \in DOMAIN s.set
    BY <1>2, <1>5, CatalogueFacts
  <2>1. Value(s, "holdFrames") \in Nat /\ 2 <= Value(s, "holdFrames")
    BY <2>0, InRange DEF Numeric
  <2> QED BY <1>5, <2>1 DEF Workable
<1>6. CASE s.kind = "teardown"
  <2>0. Kinds[s.kind].params.afterFrames = Number(1, 100000) /\ "afterFrames" \in DOMAIN s.set
    BY <1>2, <1>6, CatalogueFacts
  <2>1. Value(s, "afterFrames") \in Nat /\ 1 <= Value(s, "afterFrames")
    BY <2>0, InRange DEF Numeric
  <2> QED BY <1>6, <2>1 DEF Workable
<1>7. CASE s.kind = "jitter"
  <2>0. Kinds[s.kind].params.maxMs = Number(1, 5000) /\ "maxMs" \in DOMAIN s.set
    BY <1>2, <1>7, CatalogueFacts
  <2>1. Value(s, "maxMs") \in Nat /\ 1 <= Value(s, "maxMs")
    BY <2>0, InRange DEF Numeric
  <2> QED BY <1>7, <2>1 DEF Workable
<1>8. CASE s.kind = "rtsp_error"
  <2>0. /\ Kinds[s.kind].params.status = Number(400, 599)
        /\ Kinds[s.kind].params.rate = Number(0, Unit)
    BY <1>8, CatalogueFacts
  <2>1. /\ Value(s, "status") \in Nat /\ Value(s, "status") <= 599
        /\ Value(s, "status") # 0 => 400 <= Value(s, "status")
    BY <2>0, InRange DEF Numeric
  <2>2. Value(s, "rate") \in Nat /\ Value(s, "rate") <= Unit
    BY <1>1, <2>0, InRange DEF Numeric
  <2>3. WithDefaults(s).status \in 400 .. 599
    BY <2>1 DEF WithDefaults
  <2>4. WithDefaults(s).rate <= Unit
    BY <1>1, <2>2 DEF WithDefaults
  <2> QED BY <1>8, <2>3, <2>4 DEF Workable
<1>9. CASE s.kind = "pts_delayed"
  <2>0. /\ Kinds[s.kind].params.delayMs = Number(1, 60000)
        /\ Kinds[s.kind].params.driftPpm = Number(1, 100000)
    BY <1>9, CatalogueFacts
  <2>1. Value(s, "delayMs") \in Nat /\ Value(s, "driftPpm") \in Nat
    BY <2>0, InRange DEF Numeric
  <2>2. Value(s, "delayMs") # 0 \/ Value(s, "driftPpm") # 0
    BY <1>9 DEF Accepts, CheckParams
  <2> QED BY <1>9, <2>1, <2>2 DEF Workable
<1>10. s.kind \in DOMAIN Kinds
  BY DEF Accepts
<1> QED BY <1>3, <1>4, <1>5, <1>6, <1>7, <1>8, <1>9, <1>10 DEF Workable

(***************************************************************************)
(* A fleet that passes validation and comes up is sound.                   *)
(***************************************************************************)
Filed(f) ==
  /\ DOMAIN f = {"host", "advertise", "discovery", "cameras", "fromFile"}
  /\ f.host \in Hosts /\ f.advertise \in Hosts
  /\ DOMAIN f.cameras \subseteq Nat \ {0}
  /\ \A i \in DOMAIN f.cameras : \A k \in DOMAIN f.cameras[i].faults :
       WithNumbers(f.cameras[i].faults[k])

LEMMA FoldedIsFiled ==
  ASSUME NEW f \in FleetFiles, NEW g \in CommandLines
  PROVE  Filed(Folded(f, g))
<1>1. Filed(f)
  BY CommandAssumption DEF Filed, WithNumbers
<1>2. /\ g.host # <<>> => g.host[1] \in Hosts
      /\ g.advertise # <<>> => g.advertise[1] \in Hosts
  BY CommandAssumption
<1> DEFINE host == IF g.host = <<>> THEN f.host ELSE g.host[1]
           adv == IF g.advertise = <<>> THEN f.advertise ELSE g.advertise[1]
           dis == WithInterface(Discovery(f.discovery, g.discovery), g)
           F == Folded(f, g)
<1>3. F = [f EXCEPT !.host = host, !.advertise = adv, !.discovery = dis]
  BY DEF Folded
<1>4. host \in Hosts /\ adv \in Hosts
  BY <1>1, <1>2 DEF Filed
<1> HIDE DEF host, adv, dis, F
<1>5. /\ DOMAIN F = DOMAIN f /\ F.host = host /\ F.advertise = adv /\ F.cameras = f.cameras
  BY <1>1, <1>3 DEF Filed
<1>6. Filed(F)
  BY <1>1, <1>4, <1>5 DEF Filed
<1> QED BY <1>6 DEF F

LEMMA ValidatedIsSound ==
  ASSUME NEW f, Filed(f), Validated(f), Listens(Defaulted(f))
  PROVE  Sound(Defaulted(f))
<1> DEFINE s == Defaulted(f)
<1>1. /\ s.advertise = f.advertise /\ s.discovery = f.discovery /\ s.cameras = f.cameras
      /\ s.host = (IF f.host = NoHost THEN Loopback ELSE f.host)
  BY DEF Filed, Defaulted
<1>2. /\ AdvertiseAccepted(s.host, s.advertise)
      /\ DiscoveryAccepted(s.discovery, s.host, s.advertise)
      /\ \A i \in DOMAIN s.cameras : CameraAccepted(s.cameras, i)
      /\ Listens(s)
  BY DEF Validated
<1>3. s.advertise \in Hosts /\ s.host \in Hosts
  BY <1>1 DEF Filed, Hosts, Loopback, Host
<1>4. /\ DOMAIN s.cameras \subseteq Nat \ {0}
      /\ \A i \in DOMAIN s.cameras : \A k \in DOMAIN s.cameras[i].faults :
           WithNumbers(s.cameras[i].faults[k])
  BY <1>1 DEF Filed
<1> HIDE DEF s
<1>5. IF s.advertise = NoHost THEN Literal(s.host) => s.host.addr # "wildcard"
      ELSE /\ s.advertise.form \in {"ip4", "ip6", "localhost", "name"}
           /\ s.advertise.wrap \notin {"port", "url", "zone"}
           /\ s.advertise.addr = "wildcard" => s.advertise.form = "name"
  <2>1. CASE s.advertise = NoHost
    <3>1. ~IsWildcard(s.host) /\ (Literal(s.host) => s.host.wrap \in {"bare", "brackets"})
      BY <1>2, <2>1 DEF AdvertiseAccepted, Listens, Bindable, Literal
    <3> QED BY <2>1, <3>1 DEF Literal, IsWildcard, ReadsAsAddress
  <2>2. CASE s.advertise # NoHost
    <3>1. /\ ~IsWildcard(s.advertise) /\ s.advertise.wrap \in {"bare", "brackets"}
          /\ s.advertise.form \in {"ip4", "ip6", "localhost", "name"}
      BY <1>2, <2>2 DEF AdvertiseAccepted
    <3>2. s.advertise.form = "localhost" => s.advertise.addr = "loopback"
      BY <1>3 DEF Hosts
    <3> QED BY <2>2, <3>1, <3>2 DEF IsWildcard, ReadsAsAddress
  <2> QED BY <2>1, <2>2
<1>6. ASSUME s.discovery # <<>>, s.discovery.mode = "multicast"
      PROVE  /\ s.host.addr # "loopback"
             /\ s.advertise.addr = "loopback" => s.advertise.form = "name"
  <2>1. s.host.addr # "loopback"
    BY <1>2, <1>6 DEF Listens
  <2>2. CASE s.advertise = NoHost
    BY <2>1, <2>2 DEF NoHost, Host
  <2>3. CASE s.advertise # NoHost
    BY <1>2, <1>6, <2>1, <2>3 DEF DiscoveryAccepted, AdvertiseAccepted, IsLoopback, ReadsAsAddress
  <2> QED BY <2>1, <2>2, <2>3
<1>7. ASSUME s.discovery # <<>>
      PROVE  /\ ("interface" \in DOMAIN s.discovery) => s.discovery.mode = "multicast"
             /\ ("addr" \in DOMAIN s.discovery) => s.discovery.mode = "unicast"
  BY <1>2, <1>7 DEF DiscoveryAccepted
<1>8. \A i, j \in DOMAIN s.cameras : i # j => s.cameras[i].id # s.cameras[j].id
  <2>1. ASSUME NEW i \in DOMAIN s.cameras, NEW j \in DOMAIN s.cameras, j < i
        PROVE  s.cameras[i].id # s.cameras[j].id
    <3>1. j \in 1 .. i - 1
      BY <1>4, <2>1
    <3> QED BY <1>2, <3>1 DEF CameraAccepted, NewId
  <2>2. ASSUME NEW i \in DOMAIN s.cameras, NEW j \in DOMAIN s.cameras, i # j
        PROVE  i < j \/ j < i
    BY <1>4, <2>2
  <2> QED BY <2>1, <2>2
<1>9. ASSUME NEW i \in DOMAIN s.cameras
      PROVE  /\ \A k \in DOMAIN s.cameras[i].faults : Workable(s.cameras[i].faults[k])
             /\ \A k, m \in DOMAIN s.cameras[i].faults :
                  k # m => s.cameras[i].faults[k].kind # s.cameras[i].faults[m].kind
  <2>1. CameraAccepted(s.cameras, i)
    BY <1>2
  <2>2. \A k \in DOMAIN s.cameras[i].faults :
          Accepts(s.cameras[i].faults[k]) /\ WithNumbers(s.cameras[i].faults[k])
    BY <1>4, <2>1 DEF CameraAccepted
  <2>3. EachKindOnce(s.cameras[i].faults)
    BY <2>1 DEF CameraAccepted
  <2> QED BY <2>2, <2>3, AcceptedIsWorkable DEF EachKindOnce
<1>10. Sound(s)
  BY <1>5, <1>6, <1>7, <1>8, <1>9 DEF Sound
<1> QED BY <1>10 DEF s

(***************************************************************************)
(* What is up and what is down, by where run is.                           *)
(***************************************************************************)
NoHandler == \A h \in Requests : handler[h] = "none"

(* BeforeUp the fleet is up; while it is; and while it is taken down.        *)
BeforeUp == {"none", "parse", "listen", "start"}
Taking == {"stop scan", "close metrics", "close tests", "close fleet"}
UpAndRunning == {"serve", "shutdown"} \cup Taking

NothingUp ==
  /\ fleetState = "none" /\ tests = "none" /\ metrics = "none" /\ scan = "none" /\ ~testing
  /\ serving = "none" /\ NoHandler

(* The handlers that are still there outlived the grace period or the server. *)
NobodyServed == serving \in {"shut", "failed"} /\ (NoHandler \/ forced \/ serving = "failed")

AllDown ==
  /\ fleetState = "closed" /\ tests = "closed" /\ metrics = "closed" /\ scan = "ended" /\ ~testing
  /\ NobodyServed

StageOK ==
  /\ stage \in BeforeUp => NothingUp
  /\ stage \in {"none", "parse", "listen"} => listener = "none"
  /\ stage \in UpAndRunning => fleetState = "open"
  /\ stage = "serve" => serving # "shut" /\ (serving = "none" => NoHandler /\ scan = "none")
  /\ stage = "shutdown" => serving # "none"
  /\ stage \in Taking => NobodyServed
  /\ stage \in Taking \ {"stop scan"} => scan = "ended"
  /\ stage \in {"close tests", "close fleet"} => metrics = "closed"
  /\ stage = "close fleet" => tests = "closed" /\ ~testing
  /\ stage = "close listener" => NothingUp \/ AllDown
  /\ stage = "returned" => listener # "open" /\ (NothingUp \/ AllDown)

StageTypeOK ==
  /\ stage \in BeforeUp \cup UpAndRunning \cup {"close listener", "returned"}
  /\ handler \in [Requests -> {"none", "short", "stream", "slow"}]
  /\ stage # "none" => /\ input.file \in FleetFiles /\ input.flags \in CommandLines

CommandInv ==
  /\ StageTypeOK /\ StageOK
  /\ fleetState # "none" => Sound(asked)

LEMMA InvokeKeeps ==
  ASSUME CommandInv, NEW f \in FleetFiles, NEW g \in CommandLines, Invoke(f, g)
  PROVE  CommandInv'
BY DEF CommandInv, StageTypeOK, StageOK, Invoke, parts, web, BeforeUp, UpAndRunning, Taking,
   NothingUp, AllDown, NobodyServed, NoHandler

LEMMA GoingUpKeeps ==
  ASSUME CommandInv, GoingUp
  PROVE  CommandInv'
<1>1. CASE Parse
  BY <1>1 DEF CommandInv, StageTypeOK, StageOK, Parse, given, parts, web, BeforeUp, UpAndRunning, Taking,
     NothingUp, AllDown, NobodyServed, NoHandler
<1>2. CASE Listen
  BY <1>2 DEF CommandInv, StageTypeOK, StageOK, Listen, given, web, BeforeUp, UpAndRunning, Taking,
     NothingUp, AllDown, NobodyServed, NoHandler
<1>3. CASE StartFleet
  <2>1. stage = "start" /\ NothingUp /\ listener' = listener
        /\ UNCHANGED <<input, testing, scan, serving, handler, base, forced>>
    BY <1>3 DEF CommandInv, StageOK, StartFleet, web, BeforeUp
  <2>2. CASE /\ Validated(Wanted) /\ Listens(Defaulted(Wanted))
             /\ asked' = Defaulted(Wanted) /\ fleetState' = "open" /\ stage' = "serve"
    <3>1. Filed(Wanted)
      BY <2>1, FoldedIsFiled DEF CommandInv, StageTypeOK, Wanted
    <3>2. Sound(asked')
      BY <2>2, <3>1, ValidatedIsSound
    <3>3. StageTypeOK' /\ StageOK'
      BY <2>1, <2>2 DEF CommandInv, StageTypeOK, StageOK, BeforeUp, UpAndRunning, Taking, NothingUp, NoHandler
    <3> QED BY <3>2, <3>3 DEF CommandInv
  <2>3. CASE stage' = "close listener" /\ UNCHANGED <<asked, fleetState, tests, metrics>>
    <3>1. StageTypeOK' /\ StageOK'
      BY <2>1, <2>3 DEF CommandInv, StageTypeOK, StageOK, BeforeUp, UpAndRunning, Taking, NothingUp, NoHandler
    <3> QED BY <2>3, <3>1 DEF CommandInv
  <2> QED BY <1>3, <2>2, <2>3 DEF StartFleet
<1>4. CASE StartServing
  BY <1>4 DEF CommandInv, StageTypeOK, StageOK, StartServing, given, BeforeUp, UpAndRunning, Taking,
     NothingUp, AllDown, NobodyServed, NoHandler
<1> QED BY <1>1, <1>2, <1>3, <1>4 DEF GoingUp

LEMMA RunningKeeps ==
  ASSUME CommandInv, Signal \/ ServeFails \/ ScanEnds \/ TestEnds
  PROVE  CommandInv'
<1>1. CASE Signal
  BY <1>1 DEF CommandInv, StageTypeOK, StageOK, Signal, given, parts, web, NothingUp, AllDown,
     NobodyServed, NoHandler
<1>2. CASE ServeFails
  BY <1>2 DEF CommandInv, StageTypeOK, StageOK, ServeFails, given, parts, BeforeUp, UpAndRunning, Taking,
     NothingUp, AllDown, NobodyServed, NoHandler
<1>3. CASE ScanEnds
  BY <1>3 DEF CommandInv, StageTypeOK, StageOK, ScanEnds, given, web, BeforeUp, UpAndRunning, Taking,
     NothingUp, AllDown, NobodyServed, NoHandler
<1>4. CASE TestEnds
  BY <1>4 DEF CommandInv, StageTypeOK, StageOK, TestEnds, given, web, BeforeUp, UpAndRunning, Taking,
     NothingUp, AllDown, NobodyServed, NoHandler
<1> QED BY <1>1, <1>2, <1>3, <1>4

LEMMA RequestKeeps ==
  ASSUME CommandInv, NEW h \in Requests,
         \/ \E kind \in {"short", "stream", "slow"} : Request(h, kind)
         \/ StartTest(h) \/ Respond(h)
  PROVE  CommandInv'
<1>1. ASSUME NEW kind \in {"short", "stream", "slow"}, Request(h, kind)
      PROVE  CommandInv'
  BY <1>1 DEF CommandInv, StageTypeOK, StageOK, Request, given, parts, BeforeUp, UpAndRunning, Taking,
     NothingUp, AllDown, NobodyServed, NoHandler
<1>2. CASE StartTest(h)
  BY <1>2 DEF CommandInv, StageTypeOK, StageOK, StartTest, given, web, BeforeUp, UpAndRunning, Taking,
     NothingUp, AllDown, NobodyServed, NoHandler
<1>3. CASE Respond(h)
  <2>1. NoHandler => NoHandler'
    BY <1>3 DEF NoHandler, Respond, CommandInv, StageTypeOK
  <2> QED BY <1>3, <2>1 DEF CommandInv, StageTypeOK, StageOK, Respond, given, parts,
          NothingUp, AllDown, NobodyServed
<1> QED BY <1>1, <1>2, <1>3

LEMMA GoingDownKeeps ==
  ASSUME CommandInv, GoingDown
  PROVE  CommandInv'
<1>1. CASE SeeSignal \/ SeeFailure
  BY <1>1 DEF CommandInv, StageTypeOK, StageOK, SeeSignal, SeeFailure, given, parts, web, BeforeUp,
     UpAndRunning, Taking, NothingUp, AllDown, NobodyServed, NoHandler
<1>2. CASE BeginShutdown
  BY <1>2 DEF CommandInv, StageTypeOK, StageOK, BeginShutdown, given, BeforeUp,
     UpAndRunning, Taking, NothingUp, AllDown, NobodyServed, NoHandler
<1>3. CASE Shutdown \/ GraceOver
  BY <1>3 DEF CommandInv, StageTypeOK, StageOK, Shutdown, GraceOver, given, parts, web, BeforeUp,
     UpAndRunning, Taking, NothingUp, AllDown, NobodyServed, NoHandler
<1>4. CASE StopScan
  BY <1>4 DEF CommandInv, StageTypeOK, StageOK, StopScan, given, parts, BeforeUp,
     UpAndRunning, Taking, NothingUp, AllDown, NobodyServed, NoHandler
<1>5. CASE CloseMetrics
  BY <1>5 DEF CommandInv, StageTypeOK, StageOK, CloseMetrics, given, web, BeforeUp,
     UpAndRunning, Taking, NothingUp, AllDown, NobodyServed, NoHandler
<1>6. CASE CloseTests
  BY <1>6 DEF CommandInv, StageTypeOK, StageOK, CloseTests, given, web, BeforeUp,
     UpAndRunning, Taking, NothingUp, AllDown, NobodyServed, NoHandler
<1>7. CASE CloseFleet
  BY <1>7 DEF CommandInv, StageTypeOK, StageOK, CloseFleet, given, web, BeforeUp,
     UpAndRunning, Taking, NothingUp, AllDown, NobodyServed, NoHandler
<1>8. CASE CloseListener
  BY <1>8 DEF CommandInv, StageTypeOK, StageOK, CloseListener, given, web, BeforeUp,
     UpAndRunning, Taking, NothingUp, AllDown, NobodyServed, NoHandler
<1> QED BY <1>1, <1>2, <1>3, <1>4, <1>5, <1>6, <1>7, <1>8 DEF GoingDown

LEMMA CommandStarts == CommandInit => CommandInv
BY DEF CommandInit, CommandInv, StageTypeOK, StageOK, BeforeUp, UpAndRunning, Taking, NothingUp, AllDown,
   NobodyServed, NoHandler

LEMMA CommandSteps == CommandInv /\ [CommandNext]_commandVars => CommandInv'
<1> SUFFICES ASSUME CommandInv, [CommandNext]_commandVars PROVE CommandInv'
  OBVIOUS
<1>1. CASE CommandNext
  BY <1>1, InvokeKeeps, GoingUpKeeps, RunningKeeps, RequestKeeps, GoingDownKeeps DEF CommandNext
<1>2. CASE UNCHANGED commandVars
  BY <1>2 DEF commandVars, given, parts, web, CommandInv, StageTypeOK, StageOK, NothingUp, AllDown,
     NobodyServed, NoHandler
<1> QED BY <1>1, <1>2

LEMMA CommandAlways == CommandSpec => []CommandInv
BY CommandStarts, CommandSteps, PTL DEF CommandSpec

(* The parts of the command end in the opposite order of their start,      *)
(* whatever signals, failures and requests come in between: a closed fleet *)
(* serves nobody and tests nothing, and nothing outlives run.              *)
THEOREM PartsEndInOrder == CommandSpec => []ShutdownOrder
<1>1. CommandInv => ShutdownOrder
  BY DEF CommandInv, StageTypeOK, StageOK, ShutdownOrder, BeforeUp, UpAndRunning, Taking, NothingUp,
     AllDown, NobodyServed, NoHandler
<1> QED BY <1>1, CommandAlways, PTL

(* A fleet that run starts is sound, for every file and every flags, of    *)
(* any number of cameras and faults, with every unit of rates: what passes *)
(* the validation of the flags, the hosts, the discovery and the faults    *)
(* leads no client astray and gives no engine what it cannot work with.    *)
THEOREM StartedFleetsAreSound == CommandSpec => []StartedFleetSound
<1>1. CommandInv => StartedFleetSound
  BY DEF CommandInv, StartedFleetSound
<1> QED BY <1>1, CommandAlways, PTL
===============================================================================
