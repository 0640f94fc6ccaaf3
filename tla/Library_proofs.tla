--------------------------- MODULE Library_proofs ---------------------------
(***************************************************************************)
(* What the media library lists is true of the files (module Library).     *)
(*                                                                         *)
(* The argument: a version that was once on disk is used up.  A file that  *)
(* has lost it gets another version, one just written or one an upload     *)
(* still holds back, and never that one again.  So what is known about a   *)
(* file with a used version, that a report is not of it or that the file   *)
(* has it no longer, stays so until the entry is stored or pruned.         *)
(***************************************************************************)
EXTENDS Library, TLAPS

Entries == [Files -> Listing \cup {None}]

Jobs ==
  {NoRequest}
  \cup [op : {"place"}, part : Nat, rep : Nat, try : DOMAIN Names]
  \cup [op : {"rename", "lstat"}, part : Nat, rep : Nat, name : Files]
  \cup [op : {"store", "restore"}, name : Files, stat : Nat, rep : Nat]
  \cup [op : {"recheck"}, name : Files, entry : Listing]
  \cup [op : {"reparse"}, name : Files, stat : Nat]
  \cup [op : {"add"}, name : Files, rep : Nat]
  \cup [op : {"delete", "unlist"}, name : Files]

Scans ==
  {NoScan}
  \cup [stage : {"walk"}, force : BOOLEAN, todo : SUBSET Files, found : [Files -> Nat]]
  \cup [stage : {"check"}, force : BOOLEAN, todo : SUBSET Files, found : [Files -> Nat],
        parsed : [Files -> Nat \cup {None}]]
  \cup [stage : {"lstat"}, todo : SUBSET Files, gone : SUBSET Files, listed : Entries]

LibraryTypeOK ==
  /\ links \in BOOLEAN /\ disk \in [Files -> Nat] /\ versions \in Nat
  /\ entries \in Entries
  /\ cameras \subseteq Files
  /\ libMu \in Handlers \cup {None}
  /\ job \in [Handlers -> Jobs]
  /\ scan \in Scans
  /\ scans \in Nat /\ quiet \in BOOLEAN

(* The handlers that add or delete hold libMu from their check to the end. *)
Locking == {"recheck", "reparse", "restore", "add", "delete", "unlist"}
LockHeld == \A h \in Handlers : job[h].op \in Locking => libMu = h
NotInUse == \A h \in Handlers : job[h].op = "delete" => job[h].name \notin cameras

(* The uploads whose content is not yet in its place, and the versions     *)
(* that were written and are not held back by one of them.                 *)
Bringing == {"place", "rename"}
Parts ==
  /\ \A h \in Handlers : job[h].op \in Bringing => job[h].part \in 1 .. versions
  /\ \A h, i \in Handlers :
       h # i /\ job[h].op \in Bringing /\ job[i].op \in Bringing => job[h].part # job[i].part
Used == {v \in 1 .. versions : \A h \in Handlers : job[h].op \in Bringing => job[h].part # v}
DiskUsed == \A f \in Files : disk[f] # Absent => disk[f] \in Used

(* The report rep is not of version v, and not because it was never made.  *)
Another(rep, v) == rep # Unread /\ rep # v

(* Of an entry e for file f, when the disk is d and the versions U used.   *)
EntryGood(d, U, f, e) ==
  /\ e.stat \in U
  /\ e.by = "check" /\ Another(e.rep, e.stat) => d[f] # e.stat

JobGood(d, U, j) ==
  /\ j.op \in {"store", "restore", "reparse"} => j.stat \in U
  /\ j.op = "restore" /\ Another(j.rep, j.stat) => d[j.name] # j.stat

ScanGood(d, U, s) ==
  /\ s.stage \in {"walk", "check"} => \A f \in Files : s.found[f] # Absent => s.found[f] \in U
  /\ s.stage = "check" =>
       \A f \in s.todo :
         /\ s.found[f] # Absent
         /\ s.parsed[f] # None /\ Another(s.parsed[f], s.found[f]) => d[f] # s.found[f]
  /\ s.stage = "lstat" =>
       /\ \A f \in s.todo \cup s.gone : s.listed[f] # None /\ s.listed[f].stat \in U
       /\ \A f \in s.gone : d[f] # s.listed[f].stat

(* What a scan that nobody disturbed has found out by now.                 *)
Right(d, es, f) == es[f] # None /\ es[f].stat = d[f]
QuietGood(d, es, s) ==
  /\ s.stage = "walk" => \A f \in Files \ s.todo : s.found[f] = d[f]
  /\ s.stage = "check" =>
       /\ \A f \in Files : s.found[f] = d[f]
       /\ \A f \in Files \ s.todo : d[f] # Absent => Right(d, es, f)
  /\ s.stage = "lstat" =>
       /\ \A f \in Files : d[f] # Absent => Right(d, es, f)
       /\ \A f \in Files : d[f] = Absent /\ es[f] # None => f \in s.todo \cup s.gone
       /\ \A f \in s.todo \cup s.gone : s.listed[f] = es[f]

LibraryInv ==
  /\ LibraryTypeOK /\ LockHeld /\ NotInUse /\ Parts /\ DiskUsed
  /\ \A f \in Files : entries[f] # None => EntryGood(disk, Used, f, entries[f])
  /\ \A h \in Handlers : JobGood(disk, Used, job[h])
  /\ ScanGood(disk, Used, scan)
  /\ quiet => QuietGood(disk, entries, scan)

(***************************************************************************)
(* Types.                                                                  *)
(***************************************************************************)
LEMMA Nothing ==
  /\ None \notin Nat /\ None \notin Handlers /\ None \notin Listing
  /\ Names \in Seq(STRING) /\ Names # <<>>
  /\ \A i \in DOMAIN Names : Names[i] \in Files
  /\ 1 \in DOMAIN Names
<1>1. Names \in Seq(STRING) /\ Names # <<>>
  BY LibraryAssumption
<1>2. 1 \in DOMAIN Names
  BY <1>1
<1> QED BY <1>1, <1>2, LibraryAssumption DEF Files

LEMMA JobFacts ==
  ASSUME NEW j \in Jobs
  PROVE  /\ j.op \in Bringing \cup Locking \cup {"idle", "lstat", "store"}
         /\ j.op = "idle" => j = NoRequest
         /\ j.op = "place" => j.part \in Nat /\ j.rep \in Nat /\ j.try \in DOMAIN Names
         /\ j.op = "rename" => j \in [op : {"rename"}, part : Nat, rep : Nat, name : Files]
         /\ j.op \in {"rename", "lstat"} => j.part \in Nat /\ j.rep \in Nat /\ j.name \in Files
         /\ j.op \in {"store", "restore"} => j.name \in Files /\ j.stat \in Nat /\ j.rep \in Nat
         /\ j.op = "recheck" => j.name \in Files /\ j.entry \in Listing
         /\ j.op = "reparse" => j.name \in Files /\ j.stat \in Nat
         /\ j.op = "add" => j.name \in Files /\ j.rep \in Nat
         /\ j.op = "delete" => j \in [op : {"delete"}, name : Files]
         /\ j.op \in {"delete", "unlist"} => j.name \in Files
<1>1. CASE j = NoRequest
  BY <1>1 DEF NoRequest, Bringing, Locking
<1>2. CASE j \in [op : {"place"}, part : Nat, rep : Nat, try : DOMAIN Names]
  BY <1>2 DEF Bringing
<1>3. CASE j \in [op : {"rename", "lstat"}, part : Nat, rep : Nat, name : Files]
  BY <1>3 DEF Bringing
<1>4. CASE j \in [op : {"store", "restore"}, name : Files, stat : Nat, rep : Nat]
  BY <1>4 DEF Locking
<1>5. CASE j \in [op : {"reparse"}, name : Files, stat : Nat]
  BY <1>5 DEF Locking
<1>6. CASE j \in [op : {"add"}, name : Files, rep : Nat]
  BY <1>6 DEF Locking
<1>7. CASE j \in [op : {"delete", "unlist"}, name : Files]
  BY <1>7 DEF Locking
<1>8. CASE j \in [op : {"recheck"}, name : Files, entry : Listing]
  BY <1>8 DEF Locking
<1> QED BY <1>1, <1>2, <1>3, <1>4, <1>5, <1>6, <1>7, <1>8 DEF Jobs

LEMMA ScanFacts ==
  ASSUME NEW s \in Scans
  PROVE  /\ s.stage \in {"idle", "walk", "check", "lstat"}
         /\ s.stage = "walk" =>
              s \in [stage : {"walk"}, force : BOOLEAN, todo : SUBSET Files, found : [Files -> Nat]]
         /\ s.stage = "check" =>
              s \in [stage : {"check"}, force : BOOLEAN, todo : SUBSET Files,
                     found : [Files -> Nat], parsed : [Files -> Nat \cup {None}]]
         /\ s.stage = "lstat" =>
              s \in [stage : {"lstat"}, todo : SUBSET Files, gone : SUBSET Files, listed : Entries]
         /\ s.stage \in {"walk", "check", "lstat"} => s.todo \subseteq Files
         /\ s.stage \in {"walk", "check"} => s.found \in [Files -> Nat]
<1>1. CASE s = NoScan
  BY <1>1 DEF NoScan
<1>2. CASE s \in [stage : {"walk"}, force : BOOLEAN, todo : SUBSET Files, found : [Files -> Nat]]
  BY <1>2
<1>3. CASE s \in [stage : {"check"}, force : BOOLEAN, todo : SUBSET Files,
                  found : [Files -> Nat], parsed : [Files -> Nat \cup {None}]]
  BY <1>3
<1>4. CASE s \in [stage : {"lstat"}, todo : SUBSET Files, gone : SUBSET Files, listed : Entries]
  BY <1>4
<1> QED BY <1>1, <1>2, <1>3, <1>4 DEF Scans

(***************************************************************************)
(* What a step does to the world the handlers share.                       *)
(***************************************************************************)
(* From U on, a file that has lost a used version does not get it back.    *)
Moves(d, d2, U, U2) ==
  /\ U \subseteq U2
  /\ \A f \in Files : \A v \in U : d[f] # v => d2[f] # v

LEMMA EntryStays ==
  ASSUME NEW d, NEW d2, NEW U, NEW U2, Moves(d, d2, U, U2), NEW f \in Files, NEW e,
         EntryGood(d, U, f, e)
  PROVE  EntryGood(d2, U2, f, e)
BY DEF EntryGood, Moves

LEMMA JobStays ==
  ASSUME NEW d, NEW d2, NEW U, NEW U2, Moves(d, d2, U, U2), NEW j \in Jobs,
         JobGood(d, U, j)
  PROVE  JobGood(d2, U2, j)
<1>1. j.op = "restore" => j.name \in Files
  BY JobFacts
<1> QED BY <1>1 DEF JobGood, Moves

LEMMA ScanStays ==
  ASSUME NEW d, NEW d2, NEW U, NEW U2, Moves(d, d2, U, U2), NEW s \in Scans,
         ScanGood(d, U, s)
  PROVE  ScanGood(d2, U2, s)
<1>1. s.stage \in {"check", "lstat"} => s.todo \subseteq Files
  BY ScanFacts
<1>2. s.stage = "lstat" => s.gone \subseteq Files
  BY ScanFacts
<1>3. s.stage \in {"walk", "check"} => \A f \in Files : s.found[f] # Absent => s.found[f] \in U2
  BY DEF ScanGood, Moves
<1>4. s.stage = "check" =>
        \A f \in s.todo :
          /\ s.found[f] # Absent
          /\ s.parsed[f] # None /\ Another(s.parsed[f], s.found[f]) => d2[f] # s.found[f]
  BY <1>1 DEF ScanGood, Moves
<1>5. s.stage = "lstat" =>
        /\ \A f \in s.todo \cup s.gone : s.listed[f] # None /\ s.listed[f].stat \in U2
        /\ \A f \in s.gone : d2[f] # s.listed[f].stat
  BY <1>2 DEF ScanGood, Moves
<1> QED BY <1>3, <1>4, <1>5 DEF ScanGood

(* The four ways a step leaves the files and the uploads.  It touches      *)
(* neither, or no upload begins and one may place its content;             *)
SameParts ==
  \A h \in Handlers : job'[h].op \in Bringing => job[h].op \in Bringing /\ job'[h].part = job[h].part

World == Parts /\ DiskUsed

LEMMA UsedGrows ==
  ASSUME LibraryTypeOK, Parts, SameParts, versions' \in Nat, versions <= versions'
  PROVE  Used \subseteq Used' /\ Parts'
<1>1. 1 .. versions \subseteq 1 .. versions'
  BY DEF LibraryTypeOK
<1>2. Used \subseteq Used'
  BY <1>1 DEF Used, SameParts
<1>3. Parts'
  BY <1>1 DEF Parts, SameParts
<1> QED BY <1>2, <1>3

LEMMA WorldRests ==
  ASSUME LibraryTypeOK, World, SameParts, UNCHANGED <<disk, versions>>
  PROVE  World' /\ Moves(disk, disk', Used, Used')
<1>1. versions' \in Nat /\ versions <= versions'
  BY DEF LibraryTypeOK
<1>2. Used \subseteq Used' /\ Parts'
  BY <1>1, UsedGrows DEF World
<1>3. DiskUsed'
  BY <1>2 DEF World, DiskUsed
<1> QED BY <1>2, <1>3 DEF World, Moves

(* a file gets the content of an upload that is done with it, or vanishes; *)
LEMMA WorldMoves ==
  ASSUME LibraryTypeOK, World, SameParts, versions' = versions, NEW f \in Files, NEW x,
         disk' = [disk EXCEPT ![f] = x],
         x = Absent \/ \E h \in Handlers : /\ job[h].op \in Bringing /\ x = job[h].part
                                           /\ job'[h].op \notin Bringing
  PROVE  World' /\ Moves(disk, disk', Used, Used')
<1>1. versions' \in Nat /\ versions <= versions'
  BY DEF LibraryTypeOK
<1>2. Used \subseteq Used' /\ Parts'
  BY <1>1, UsedGrows DEF World
<1>3. \A g \in Files : disk'[g] = IF g = f THEN x ELSE disk[g]
  BY DEF LibraryTypeOK
<1>4. x # Absent => x \in Used' /\ x \notin Used
  <2> SUFFICES ASSUME x # Absent PROVE x \in Used' /\ x \notin Used
    OBVIOUS
  <2>1. PICK h \in Handlers : /\ job[h].op \in Bringing /\ x = job[h].part
                              /\ job'[h].op \notin Bringing
    OBVIOUS
  <2>2. x \in 1 .. versions'
    BY <2>1 DEF World, Parts
  <2>3. \A i \in Handlers : job'[i].op \in Bringing => job'[i].part # x
    <3> TAKE i \in Handlers
    <3> HAVE job'[i].op \in Bringing
    <3>1. i # h /\ job[i].op \in Bringing /\ job'[i].part = job[i].part
      BY <2>1 DEF SameParts
    <3> QED BY <2>1, <3>1 DEF World, Parts
  <2>4. x \notin Used
    BY <2>1 DEF Used
  <2> QED BY <2>2, <2>3, <2>4 DEF Used
<1>5. DiskUsed'
  BY <1>2, <1>3, <1>4 DEF World, DiskUsed
<1>6. \A v \in Used : v # Absent
  BY DEF Used, Absent, LibraryTypeOK
<1>7. Moves(disk, disk', Used, Used')
  BY <1>2, <1>3, <1>4, <1>6 DEF Moves
<1> QED BY <1>2, <1>5, <1>7 DEF World

(* a file gets content that is new altogether;                             *)
LEMMA WorldWritten ==
  ASSUME LibraryTypeOK, World, SameParts, versions' = versions + 1, NEW f \in Files,
         disk' = [disk EXCEPT ![f] = versions']
  PROVE  World' /\ Moves(disk, disk', Used, Used')
<1>1. versions' \in Nat /\ versions <= versions' /\ versions \in Nat
  BY DEF LibraryTypeOK
<1>2. Used \subseteq Used' /\ Parts'
  BY <1>1, UsedGrows DEF World
<1>3. \A g \in Files : disk'[g] = IF g = f THEN versions' ELSE disk[g]
  BY DEF LibraryTypeOK
<1>4. versions' \in 1 .. versions' /\ versions' \notin 1 .. versions
  BY <1>1
<1>5. versions' \in Used' /\ versions' \notin Used
  <2>1. \A h \in Handlers : job'[h].op \in Bringing => job'[h].part \in 1 .. versions
    BY DEF World, Parts, SameParts
  <2> QED BY <1>4, <2>1 DEF Used
<1>6. DiskUsed'
  BY <1>2, <1>3, <1>5 DEF World, DiskUsed
<1>7. Moves(disk, disk', Used, Used')
  BY <1>2, <1>3, <1>5 DEF Moves
<1> QED BY <1>2, <1>6, <1>7 DEF World

(* an upload begins.                                                       *)
LEMMA WorldUploads ==
  ASSUME LibraryTypeOK, World, versions' = versions + 1, disk' = disk, NEW h \in Handlers,
         \A i \in Handlers \ {h} : job'[i] = job[i], job'[h].part = versions'
  PROVE  World' /\ Moves(disk, disk', Used, Used')
<1>1. versions' \in Nat /\ versions <= versions' /\ versions \in Nat
  BY DEF LibraryTypeOK
<1>2. 1 .. versions \subseteq 1 .. versions' /\ versions' \in 1 .. versions' /\ versions' \notin 1 .. versions
  BY <1>1
<1>3. Parts'
  BY <1>2 DEF World, Parts
<1>4. Used \subseteq Used'
  BY <1>2 DEF Used
<1>5. DiskUsed'
  BY <1>4 DEF World, DiskUsed
<1> QED BY <1>3, <1>4, <1>5 DEF World, Moves

(***************************************************************************)
(* The invariant, by who steps.                                            *)
(***************************************************************************)
LEMMA ScanMoves ==
  ASSUME LibraryInv, UNCHANGED <<diskVars, cameras, libMu, job>>,
         entries' \in Entries, scan' \in Scans, scans' \in Nat, quiet' \in BOOLEAN,
         \A f \in Files : entries'[f] # None =>
           entries'[f] = entries[f] \/ EntryGood(disk, Used, f, entries'[f]),
         ScanGood(disk, Used, scan'), quiet' => QuietGood(disk, entries', scan')
  PROVE  LibraryInv'
<1>1. UNCHANGED <<links, disk, versions, cameras, libMu, job>>
  BY DEF diskVars
<1>2. LibraryTypeOK'
  BY <1>1 DEF LibraryInv, LibraryTypeOK
<1>3. LockHeld' /\ NotInUse'
  BY <1>1 DEF LibraryInv, LockHeld, NotInUse
<1>4. Used' = Used
  BY <1>1 DEF Used
<1>5. Parts' /\ DiskUsed'
  BY <1>1, <1>4 DEF LibraryInv, Parts, DiskUsed
<1>6. \A f \in Files : entries'[f] # None => EntryGood(disk', Used', f, entries'[f])
  BY <1>1, <1>4 DEF LibraryInv
<1>7. \A h \in Handlers : JobGood(disk', Used', job'[h])
  BY <1>1, <1>4 DEF LibraryInv
<1>8. ScanGood(disk', Used', scan') /\ (quiet' => QuietGood(disk', entries', scan'))
  BY <1>1, <1>4
<1> QED BY <1>2, <1>3, <1>5, <1>6, <1>7, <1>8 DEF LibraryInv

(* What is known of the entries, the other requests and the scan stays so. *)
LEMMA KnownStays ==
  ASSUME LibraryInv, Moves(disk, disk', Used, Used')
  PROVE  /\ \A f \in Files : entries[f] # None => EntryGood(disk', Used', f, entries[f])
         /\ \A h \in Handlers : JobGood(disk', Used', job[h])
         /\ ScanGood(disk', Used', scan)
<1>1. \A f \in Files : entries[f] # None => EntryGood(disk', Used', f, entries[f])
  BY EntryStays DEF LibraryInv
<1>2. ASSUME NEW h \in Handlers
      PROVE  JobGood(disk', Used', job[h])
  <2>1. job[h] \in Jobs /\ JobGood(disk, Used, job[h])
    BY DEF LibraryInv, LibraryTypeOK
  <2> QED BY <2>1, JobStays
<1>3. ScanGood(disk', Used', scan)
  <2>1. scan \in Scans /\ ScanGood(disk, Used, scan)
    BY DEF LibraryInv, LibraryTypeOK
  <2> QED BY <2>1, ScanStays
<1> QED BY <1>1, <1>2, <1>3

LEMMA HandlerMoves ==
  ASSUME LibraryInv, LibraryTypeOK', World', Moves(disk, disk', Used, Used'),
         NEW h \in Handlers, \A i \in Handlers \ {h} : job'[i] = job[i],
         scan' = scan, JobGood(disk', Used', job'[h]),
         \A f \in Files : entries'[f] # None =>
           entries'[f] = entries[f] \/ EntryGood(disk', Used', f, entries'[f]),
         quiet' => quiet /\ disk' = disk /\ entries' = entries,
         job'[h].op \in Locking => libMu' = h,
         libMu' = libMu \/ libMu \in {None, h},
         cameras' \subseteq cameras \/ libMu = h,
         job'[h].op = "delete" => job'[h].name \notin cameras'
  PROVE  LibraryInv'
<1>1. /\ \A f \in Files : entries'[f] # None => EntryGood(disk', Used', f, entries'[f])
      /\ \A i \in Handlers : JobGood(disk', Used', job'[i])
      /\ ScanGood(disk', Used', scan')
  BY KnownStays
<1>2. \A i \in Handlers \ {h} : job'[i].op \in Locking => libMu = i /\ libMu' = i /\ libMu # h
  BY Nothing DEF LibraryInv, LockHeld
<1>3. LockHeld'
  BY <1>2 DEF LockHeld
<1>4. NotInUse'
  <2> SUFFICES ASSUME NEW i \in Handlers, job'[i].op = "delete"
               PROVE  job'[i].name \notin cameras'
    BY DEF NotInUse
  <2>1. CASE i = h
    BY <2>1
  <2>2. CASE i # h
    <3>1. libMu # h /\ job'[i] = job[i]
      BY <1>2, <2>2 DEF Locking
    <3> QED BY <3>1 DEF LibraryInv, NotInUse
  <2> QED BY <2>1, <2>2
<1>5. quiet' => QuietGood(disk', entries', scan')
  BY DEF LibraryInv
<1> QED BY <1>1, <1>3, <1>4, <1>5 DEF LibraryInv, World

LEMMA OutsideMoves ==
  ASSUME LibraryInv, LibraryTypeOK', World', Moves(disk, disk', Used, Used'),
         UNCHANGED <<job, scan, entries, libMu>>,
         quiet' => quiet /\ disk' = disk, cameras' \subseteq cameras
  PROVE  LibraryInv'
<1>1. /\ \A f \in Files : entries'[f] # None => EntryGood(disk', Used', f, entries'[f])
      /\ \A i \in Handlers : JobGood(disk', Used', job'[i])
      /\ ScanGood(disk', Used', scan')
  BY KnownStays
<1>2. LockHeld' /\ NotInUse'
  BY DEF LibraryInv, LockHeld, NotInUse
<1>3. quiet' => QuietGood(disk', entries', scan')
  BY DEF LibraryInv
<1> QED BY <1>1, <1>2, <1>3 DEF LibraryInv, World

(***************************************************************************)
(* The scan.                                                               *)
(***************************************************************************)
LEMMA ScanBegins ==
  ASSUME LibraryInv, ScanBegin
  PROVE  LibraryInv'
<1>1. PICK force \in BOOLEAN :
        scan' = [stage |-> "walk", force |-> force, todo |-> Files,
                 found |-> [f \in Files |-> Absent]]
  BY DEF ScanBegin
<1>2. scan' \in Scans
  BY <1>1 DEF Scans, Absent
<1>3. ScanGood(disk, Used, scan')
  BY <1>1 DEF ScanGood
<1>4. QuietGood(disk, entries', scan')
  BY <1>1 DEF QuietGood
<1>5. scans' \in Nat /\ quiet' \in BOOLEAN /\ entries' = entries /\ entries \in Entries
  BY DEF LibraryInv, LibraryTypeOK, ScanBegin
<1>6. UNCHANGED <<diskVars, cameras, libMu, job>>
  BY DEF ScanBegin
<1> QED BY <1>2, <1>3, <1>4, <1>5, <1>6, ScanMoves

(* Of a scan step that touches nothing but its own state.                  *)
LEMMA ScanSteps ==
  ASSUME LibraryInv, UNCHANGED <<diskVars, entries, cameras, libMu, job, scans, quiet>>,
         scan' \in Scans, ScanGood(disk, Used, scan'),
         quiet => QuietGood(disk, entries, scan')
  PROVE  LibraryInv'
<1>1. /\ scans' \in Nat /\ quiet' \in BOOLEAN /\ entries' = entries /\ entries' \in Entries
      /\ quiet' = quiet
  BY DEF LibraryInv, LibraryTypeOK
<1>2. UNCHANGED <<diskVars, cameras, libMu, job>>
  OBVIOUS
<1> QED BY <1>1, <1>2, ScanMoves

LEMMA IdleScan ==
  ASSUME NEW d, NEW U, NEW es
  PROVE  NoScan \in Scans /\ ScanGood(d, U, NoScan) /\ QuietGood(d, es, NoScan)
BY DEF NoScan, Scans, ScanGood, QuietGood

LEMMA Walks ==
  ASSUME LibraryInv, NEW f \in Files, ScanVisit(f)
  PROVE  LibraryInv'
<1>1. scan \in [stage : {"walk"}, force : BOOLEAN, todo : SUBSET Files, found : [Files -> Nat]]
  BY ScanFacts DEF ScanVisit, LibraryInv, LibraryTypeOK
<1>2. scan' = [scan EXCEPT !.todo = @ \ {f}, !.found[f] = disk[f]]
  BY DEF ScanVisit
<1>3. disk[f] \in Nat
  BY DEF LibraryInv, LibraryTypeOK
<1>4. /\ scan' \in [stage : {"walk"}, force : BOOLEAN, todo : SUBSET Files, found : [Files -> Nat]]
      /\ scan'.todo = scan.todo \ {f}
      /\ \A g \in Files : scan'.found[g] = IF g = f THEN disk[f] ELSE scan.found[g]
  BY <1>1, <1>2, <1>3
<1>5. scan' \in Scans /\ scan'.stage = "walk" /\ scan.stage = "walk"
  BY <1>1, <1>4 DEF Scans
<1>6. ScanGood(disk, Used, scan')
  BY <1>4, <1>5 DEF ScanGood, LibraryInv, DiskUsed
<1>7. quiet => QuietGood(disk, entries, scan')
  BY <1>4, <1>5 DEF QuietGood, LibraryInv
<1>8. UNCHANGED <<diskVars, entries, cameras, libMu, job, scans, quiet>>
  BY DEF ScanVisit
<1> QED BY <1>5, <1>6, <1>7, <1>8, ScanSteps

LEMMA Walked ==
  ASSUME LibraryInv, ScanWalked
  PROVE  LibraryInv'
<1>1. /\ scan \in [stage : {"walk"}, force : BOOLEAN, todo : SUBSET Files, found : [Files -> Nat]]
      /\ scan.todo = {}
  BY ScanFacts DEF ScanWalked, LibraryInv, LibraryTypeOK
<1>2. scan' = [stage |-> "check", force |-> scan.force, todo |-> {f \in Files : scan.found[f] # Absent},
               found |-> scan.found, parsed |-> [f \in Files |-> None]]
  BY DEF ScanWalked
<1>3. scan' \in Scans /\ scan'.stage = "check" /\ scan.stage = "walk"
  BY <1>1, <1>2 DEF Scans
<1>4. /\ scan'.todo = {f \in Files : scan.found[f] # Absent} /\ scan'.found = scan.found
      /\ \A f \in Files : scan'.parsed[f] = None
  BY <1>2
<1>5. ScanGood(disk, Used, scan')
  BY <1>3, <1>4 DEF ScanGood, LibraryInv
<1>6. quiet => QuietGood(disk, entries, scan')
  BY <1>1, <1>3, <1>4 DEF QuietGood, LibraryInv
<1>7. UNCHANGED <<diskVars, entries, cameras, libMu, job, scans, quiet>>
  BY DEF ScanWalked
<1> QED BY <1>3, <1>5, <1>6, <1>7, ScanSteps

LEMMA Skips ==
  ASSUME LibraryInv, NEW f \in Files, ScanSkip(f)
  PROVE  LibraryInv'
<1> DEFINE S == [stage : {"check"}, force : BOOLEAN, todo : SUBSET Files,
                 found : [Files -> Nat], parsed : [Files -> Nat \cup {None}]]
<1>1. scan \in S
  BY ScanFacts DEF ScanSkip, LibraryInv, LibraryTypeOK
<1>2. scan' = [scan EXCEPT !.todo = @ \ {f}] /\ Unchanged(f)
  BY DEF ScanSkip
<1>3. /\ scan' \in S /\ scan'.todo = scan.todo \ {f}
      /\ scan'.found = scan.found /\ scan'.parsed = scan.parsed
  BY <1>1, <1>2
<1>4. scan' \in Scans /\ scan'.stage = "check" /\ scan.stage = "check"
  BY <1>1, <1>3 DEF Scans
<1>5. ScanGood(disk, Used, scan')
  BY <1>3, <1>4 DEF ScanGood, LibraryInv
<1>6. quiet => QuietGood(disk, entries, scan')
  BY <1>2, <1>3, <1>4 DEF QuietGood, Right, LibraryInv, Unchanged
<1>7. UNCHANGED <<diskVars, entries, cameras, libMu, job, scans, quiet>>
  BY DEF ScanSkip
<1> QED BY <1>4, <1>5, <1>6, <1>7, ScanSteps

LEMMA Parses ==
  ASSUME LibraryInv, NEW f \in Files, ScanParse(f)
  PROVE  LibraryInv'
<1> DEFINE S == [stage : {"check"}, force : BOOLEAN, todo : SUBSET Files,
                 found : [Files -> Nat], parsed : [Files -> Nat \cup {None}]]
<1>1. scan \in S
  BY ScanFacts DEF ScanParse, LibraryInv, LibraryTypeOK
<1>2. PICK rep \in Reports(disk[f]) : scan' = [scan EXCEPT !.parsed[f] = rep]
  BY DEF ScanParse
<1>3. rep \in Nat /\ rep \in {disk[f], Unread}
  BY DEF Reports, Unread, Absent, LibraryInv, LibraryTypeOK
<1>4. /\ scan' \in S /\ scan'.todo = scan.todo /\ scan'.found = scan.found
      /\ \A g \in Files : scan'.parsed[g] = IF g = f THEN rep ELSE scan.parsed[g]
  BY <1>1, <1>2, <1>3
<1>5. scan' \in Scans /\ scan'.stage = "check" /\ scan.stage = "check" /\ scan.todo \subseteq Files
  BY <1>1, <1>4 DEF Scans
<1>6. ScanGood(disk, Used, scan')
  BY <1>3, <1>4, <1>5 DEF ScanGood, LibraryInv, Another
<1>7. quiet => QuietGood(disk, entries, scan')
  BY <1>4, <1>5 DEF QuietGood, LibraryInv
<1>8. UNCHANGED <<diskVars, entries, cameras, libMu, job, scans, quiet>>
  BY DEF ScanParse
<1> QED BY <1>5, <1>6, <1>7, <1>8, ScanSteps

LEMMA Stores ==
  ASSUME LibraryInv, NEW f \in Files, ScanStore(f)
  PROVE  LibraryInv'
<1> DEFINE S == [stage : {"check"}, force : BOOLEAN, todo : SUBSET Files,
                 found : [Files -> Nat], parsed : [Files -> Nat \cup {None}]]
           e == [stat |-> scan.found[f], rep |-> scan.parsed[f], by |-> "check"]
<1>1. scan \in S /\ f \in scan.todo /\ scan.parsed[f] # None
  BY ScanFacts DEF ScanStore, LibraryInv, LibraryTypeOK
<1>2. scan' = [scan EXCEPT !.todo = @ \ {f}] /\ entries' = [entries EXCEPT ![f] = e]
  BY DEF ScanStore, Store, StatOfWalk
<1>3. /\ scan' \in S /\ scan'.todo = scan.todo \ {f}
      /\ scan'.found = scan.found /\ scan'.parsed = scan.parsed
  BY <1>1, <1>2
<1>4. scan' \in Scans /\ scan'.stage = "check" /\ scan.stage = "check"
  BY <1>1, <1>3 DEF Scans
<1>5. e \in Listing /\ e # None /\ e.stat = scan.found[f]
  <2>1. scan.found[f] \in Nat /\ scan.parsed[f] \in Nat
    BY <1>1
  <2>2. e \in Listing
    BY <2>1 DEF Listing
  <2> QED BY <2>2, Nothing
<1>6. EntryGood(disk, Used, f, e)
  BY <1>1, <1>4 DEF EntryGood, LibraryInv, ScanGood
<1> HIDE DEF e
<1>7. entries' \in Entries /\ \A g \in Files : entries'[g] = IF g = f THEN e ELSE entries[g]
  BY <1>2, <1>5 DEF LibraryInv, LibraryTypeOK, Entries
<1>8. ScanGood(disk, Used, scan')
  BY <1>3, <1>4 DEF ScanGood, LibraryInv
<1>9. quiet => QuietGood(disk, entries', scan')
  BY <1>1, <1>3, <1>4, <1>5, <1>7 DEF QuietGood, Right, LibraryInv
<1>10. UNCHANGED <<diskVars, cameras, libMu, job>> /\ scans' \in Nat /\ quiet' = quiet /\ quiet' \in BOOLEAN
  BY DEF ScanStore, LibraryInv, LibraryTypeOK
<1>11. \A g \in Files : entries'[g] # None =>
         entries'[g] = entries[g] \/ EntryGood(disk, Used, g, entries'[g])
  BY <1>6, <1>7
<1> QED BY <1>4, <1>7, <1>8, <1>9, <1>10, <1>11, ScanMoves

LEMMA PruneLists ==
  ASSUME LibraryInv, PruneList
  PROVE  LibraryInv'
<1> DEFINE unseen == {f \in Files : entries[f] # None /\ scan.found[f] = Absent}
<1>1. /\ scan.stage = "check" /\ scan.todo = {}
      /\ scan' = [stage |-> "lstat", todo |-> unseen, gone |-> {}, listed |-> entries]
  BY DEF PruneList
<1>2. scan' \in Scans
  BY <1>1 DEF Scans, LibraryInv, LibraryTypeOK
<1>3. scan'.stage = "lstat" /\ scan'.todo = unseen /\ scan'.gone = {} /\ scan'.listed = entries
  BY <1>1
<1>4. ScanGood(disk, Used, scan')
  BY <1>3 DEF ScanGood, LibraryInv, EntryGood
<1>5. quiet => QuietGood(disk, entries, scan')
  BY <1>1, <1>3 DEF QuietGood, LibraryInv
<1>6. UNCHANGED <<diskVars, entries, cameras, libMu, job, scans, quiet>>
  BY DEF PruneList
<1> QED BY <1>2, <1>4, <1>5, <1>6, ScanSteps

LEMMA PruneLstats ==
  ASSUME LibraryInv, NEW f \in Files, PruneLstat(f)
  PROVE  LibraryInv'
<1> DEFINE S == [stage : {"lstat"}, todo : SUBSET Files, gone : SUBSET Files, listed : Entries]
           gone == IF disk[f] = Absent THEN scan.gone \cup {f} ELSE scan.gone
<1>1. scan \in S /\ f \in scan.todo
  BY ScanFacts DEF PruneLstat, LibraryInv, LibraryTypeOK
<1>2. scan' = [scan EXCEPT !.todo = @ \ {f}, !.gone = gone]
  BY DEF PruneLstat
<1>3. /\ scan' \in S /\ scan'.todo = scan.todo \ {f} /\ scan'.gone = gone
      /\ scan'.listed = scan.listed
  BY <1>1, <1>2
<1>4. scan' \in Scans /\ scan'.stage = "lstat" /\ scan.stage = "lstat"
  BY <1>1, <1>3 DEF Scans
<1>5. ScanGood(disk, Used, scan')
  <2>1. \A v \in Used : v # Absent
    BY DEF Used, Absent, LibraryInv, LibraryTypeOK
  <2> QED BY <1>1, <1>3, <1>4, <2>1 DEF ScanGood, LibraryInv
<1>6. quiet => QuietGood(disk, entries, scan')
  BY <1>1, <1>3, <1>4 DEF QuietGood, LibraryInv
<1>7. UNCHANGED <<diskVars, entries, cameras, libMu, job, scans, quiet>>
  BY DEF PruneLstat
<1> QED BY <1>4, <1>5, <1>6, <1>7, ScanSteps

(* The end of a scan: entries are kept or dropped, never made.             *)
LEMMA ScanEnds ==
  ASSUME LibraryInv, UNCHANGED <<diskVars, cameras, libMu, job, scans, quiet>>,
         scan' = NoScan, entries' \in Entries,
         \A f \in Files : entries'[f] # None => entries'[f] = entries[f]
  PROVE  LibraryInv'
<1>1. scans' \in Nat /\ quiet' \in BOOLEAN
  BY DEF LibraryInv, LibraryTypeOK
<1>2. UNCHANGED <<diskVars, cameras, libMu, job>>
  OBVIOUS
<1> QED BY <1>1, <1>2, IdleScan, ScanMoves

LEMMA ScanKeeps ==
  ASSUME LibraryInv, ScanStep
  PROVE  LibraryInv'
<1>1. CASE ScanRootGone
  BY <1>1, ScanEnds DEF ScanRootGone, Entries
<1>2. CASE Prune
  <2>1. /\ scan' = NoScan /\ UNCHANGED <<diskVars, cameras, libMu, job, scans, quiet>>
        /\ entries' = [f \in Files |->
                         IF f \in scan.gone /\ StillListed(f) THEN None ELSE entries[f]]
    BY <1>2 DEF Prune
  <2>2. entries \in Entries
    BY DEF LibraryInv, LibraryTypeOK
  <2>3. entries' \in Entries /\ \A f \in Files : entries'[f] # None => entries'[f] = entries[f]
    BY <2>1, <2>2 DEF Entries
  <2> QED BY <2>1, <2>3, ScanEnds
<1>3. CASE ScanCancelled
  <2>1. entries' \in Entries /\ entries' = entries
    BY <1>3 DEF ScanCancelled, LibraryInv, LibraryTypeOK
  <2> QED BY <1>3, <2>1, ScanEnds DEF ScanCancelled
<1> QED BY <1>1, <1>2, <1>3, ScanBegins, Walks, Walked, Skips, Parses, Stores, PruneLists, PruneLstats
         DEF ScanStep

(***************************************************************************)
(* Uploads.                                                                *)
(***************************************************************************)
(* A request that goes on while entries, cameras and libMu stay.           *)
LEMMA UploadMoves ==
  ASSUME LibraryInv, NEW h \in Handlers, NEW j \in Jobs, Become(h, j),
         j.op \notin Locking, UNCHANGED <<links, entries, cameras, libMu, scan, scans>>,
         disk' \in [Files -> Nat], versions' \in Nat, quiet' \in BOOLEAN,
         quiet' => quiet /\ disk' = disk,
         World', Moves(disk, disk', Used, Used'), JobGood(disk', Used', j)
  PROVE  LibraryInv'
<1>1. job' \in [Handlers -> Jobs] /\ job'[h] = j /\ \A i \in Handlers \ {h} : job'[i] = job[i]
  BY DEF Become, LibraryInv, LibraryTypeOK
<1>2. LibraryTypeOK'
  BY <1>1 DEF LibraryInv, LibraryTypeOK
<1>3. j.op # "delete"
  BY DEF Locking
<1> QED BY <1>1, <1>2, <1>3, HandlerMoves

LEMMA SamePartsWhen ==
  ASSUME LibraryInv, NEW h \in Handlers, NEW j, Become(h, j),
         j.op \in Bringing => job[h].op \in Bringing /\ j.part = job[h].part
  PROVE  SameParts /\ job'[h] = j /\ \A i \in Handlers \ {h} : job'[i] = job[i]
BY DEF Become, LibraryInv, LibraryTypeOK, SameParts

LEMMA Receives ==
  ASSUME LibraryInv, NEW h \in Handlers, UploadReceive(h)
  PROVE  LibraryInv'
<1>1. PICK rep \in Reports(versions') :
        Become(h, [op |-> "place", part |-> versions', rep |-> rep, try |-> 1])
  BY DEF UploadReceive
<1> DEFINE j == [op |-> "place", part |-> versions', rep |-> rep, try |-> 1]
<1>2. /\ versions' = versions + 1 /\ versions' \in Nat
      /\ UNCHANGED <<links, disk, entries, cameras, libMu, scan, scans, quiet>>
      /\ job[h] = NoRequest
  BY DEF UploadReceive, LibraryInv, LibraryTypeOK
<1>3. rep \in Nat
  BY <1>2 DEF Reports, Unread
<1>4. j \in Jobs /\ j.op \notin Locking /\ j.part = versions' /\ j.op = "place"
  BY <1>2, <1>3, Nothing DEF Jobs, Locking
<1> HIDE DEF j
<1>5. job'[h] = j /\ \A i \in Handlers \ {h} : job'[i] = job[i]
  BY <1>1 DEF Become, LibraryInv, LibraryTypeOK, j
<1>6. World' /\ Moves(disk, disk', Used, Used')
  BY <1>2, <1>4, <1>5, WorldUploads DEF LibraryInv, World
<1>7. JobGood(disk', Used', j)
  BY <1>4 DEF JobGood
<1>8. /\ disk' \in [Files -> Nat] /\ quiet' \in BOOLEAN /\ disk' = disk /\ quiet' = quiet
      /\ Become(h, j)
  BY <1>1, <1>2 DEF LibraryInv, LibraryTypeOK, j
<1> QED BY <1>2, <1>4, <1>6, <1>7, <1>8, UploadMoves

(* A request that goes on with its upload and leaves the files alone.      *)
LEMMA UploadGoesOn ==
  ASSUME LibraryInv, NEW h \in Handlers, NEW j \in Jobs, Become(h, j),
         j.op \notin Locking, UNCHANGED <<diskVars, entries, cameras, libMu, scan, scans, quiet>>,
         j.op \in Bringing => job[h].op \in Bringing /\ j.part = job[h].part,
         JobGood(disk, Used', j)
  PROVE  LibraryInv'
<1>1. SameParts
  BY SamePartsWhen
<1>2. UNCHANGED <<links, disk, versions, entries, cameras, libMu, scan, scans, quiet>>
  BY DEF diskVars
<1>3. World' /\ Moves(disk, disk', Used, Used')
  BY <1>1, <1>2, WorldRests DEF LibraryInv, World
<1>4. /\ disk' \in [Files -> Nat] /\ versions' \in Nat /\ quiet' \in BOOLEAN
      /\ quiet' = quiet /\ disk' = disk
  BY <1>2 DEF LibraryInv, LibraryTypeOK
<1> QED BY <1>2, <1>3, <1>4, UploadMoves

LEMMA IdleJob ==
  /\ NoRequest \in Jobs /\ NoRequest.op = "idle"
  /\ NoRequest.op \notin Locking /\ NoRequest.op \notin Bringing
  /\ \A d, U : JobGood(d, U, NoRequest)
BY DEF NoRequest, Jobs, Locking, Bringing, JobGood

LEMMA TriesNext ==
  ASSUME LibraryInv, NEW h \in Handlers, UploadNext(h)
  PROVE  LibraryInv'
<1> DEFINE on == [job[h] EXCEPT !.try = @ + 1]
           j == IF job[h].try < Len(Names) THEN on ELSE NoRequest
<1>1. /\ job[h].op = "place" /\ Become(h, j)
      /\ UNCHANGED <<diskVars, entries, cameras, libMu, scan, scans, quiet>>
  BY DEF UploadNext
<1>2. job[h] \in [op : {"place"}, part : Nat, rep : Nat, try : DOMAIN Names]
  <2>1. job[h] \in Jobs
    BY DEF LibraryInv, LibraryTypeOK
  <2> QED BY <1>1, <2>1 DEF Jobs, NoRequest
<1>3. CASE job[h].try < Len(Names)
  <2>1. job[h].try + 1 \in DOMAIN Names
    <3>1. Names \in Seq(STRING) /\ job[h].try \in DOMAIN Names
      BY <1>2, Nothing
    <3> QED BY <1>3, <3>1
  <2>2. /\ on \in [op : {"place"}, part : Nat, rep : Nat, try : DOMAIN Names]
        /\ on.part = job[h].part
    BY <1>2, <2>1
  <2> HIDE DEF on
  <2>3. on \in Jobs /\ on.op = "place"
    BY <2>2 DEF Jobs
  <2>4. JobGood(disk, Used', on) /\ on.op \notin Locking
    BY <2>3 DEF JobGood, Locking
  <2> QED BY <1>1, <1>3, <2>2, <2>3, <2>4, UploadGoesOn DEF Bringing
<1>4. CASE ~(job[h].try < Len(Names))
  <2>1. Become(h, NoRequest)
    BY <1>1, <1>4
  <2> QED BY <1>1, <2>1, IdleJob, UploadGoesOn
<1> QED BY <1>3, <1>4

LEMMA Links ==
  ASSUME LibraryInv, NEW h \in Handlers, UploadLink(h)
  PROVE  LibraryInv'
<1> DEFINE f == Names[job[h].try]
           j == [op |-> "lstat", part |-> job[h].part, rep |-> job[h].rep, name |-> f]
<1>1. /\ job[h].op = "place" /\ disk' = [disk EXCEPT ![f] = job[h].part] /\ Become(h, j)
      /\ quiet' = FALSE
      /\ UNCHANGED <<links, versions, entries, cameras, libMu, scan, scans>>
  BY DEF UploadLink
<1>2. job[h].part \in Nat /\ job[h].rep \in Nat /\ f \in Files
  BY <1>1, JobFacts, Nothing DEF LibraryInv, LibraryTypeOK
<1> HIDE DEF f
<1>3. j \in Jobs /\ j.op = "lstat"
  BY <1>2 DEF Jobs
<1> HIDE DEF j
<1>4. j.op \notin Locking /\ j.op \notin Bringing
  BY <1>3 DEF Locking, Bringing
<1>5. SameParts /\ job'[h] = j
  BY <1>1, <1>4, SamePartsWhen
<1>6. World' /\ Moves(disk, disk', Used, Used')
  <2>1. job[h].op \in Bringing /\ job'[h].op \notin Bringing
    BY <1>1, <1>4, <1>5 DEF Bringing
  <2> QED BY <1>1, <1>2, <1>5, <2>1, WorldMoves DEF LibraryInv, World
<1>7. JobGood(disk', Used', j)
  BY <1>3 DEF JobGood
<1>8. disk' \in [Files -> Nat] /\ versions' \in Nat /\ quiet' \in BOOLEAN /\ ~quiet'
  BY <1>1, <1>2 DEF LibraryInv, LibraryTypeOK
<1> QED BY <1>1, <1>3, <1>4, <1>6, <1>7, <1>8, UploadMoves

LEMMA Reserves ==
  ASSUME LibraryInv, NEW h \in Handlers, UploadReserve(h)
  PROVE  LibraryInv'
<1> DEFINE f == Names[job[h].try]
           j == [op |-> "rename", part |-> job[h].part, rep |-> job[h].rep, name |-> f]
<1>1. /\ job[h].op = "place" /\ disk' = [disk EXCEPT ![f] = versions'] /\ Become(h, j)
      /\ versions' = versions + 1 /\ quiet' = FALSE
      /\ UNCHANGED <<links, entries, cameras, libMu, scan, scans>>
  BY DEF UploadReserve
<1>2. job[h].part \in Nat /\ job[h].rep \in Nat /\ f \in Files
  BY <1>1, JobFacts, Nothing DEF LibraryInv, LibraryTypeOK
<1> HIDE DEF f
<1>3. j \in Jobs /\ j.op = "rename" /\ j.part = job[h].part
  BY <1>2 DEF Jobs
<1> HIDE DEF j
<1>4. j.op \notin Locking
  BY <1>3 DEF Locking
<1>5. SameParts
  <2>1. job[h].op \in Bringing
    BY <1>1 DEF Bringing
  <2> QED BY <1>1, <1>3, <2>1, SamePartsWhen
<1>6. World' /\ Moves(disk, disk', Used, Used')
  BY <1>1, <1>2, <1>5, WorldWritten DEF LibraryInv, World
<1>7. JobGood(disk', Used', j)
  BY <1>3 DEF JobGood
<1>8. disk' \in [Files -> Nat] /\ versions' \in Nat /\ quiet' \in BOOLEAN /\ ~quiet'
  <2>1. versions' \in Nat /\ disk \in [Files -> Nat]
    BY <1>1 DEF LibraryInv, LibraryTypeOK
  <2> QED BY <1>1, <1>2, <2>1
<1> QED BY <1>1, <1>3, <1>4, <1>6, <1>7, <1>8, UploadMoves

LEMMA Renames ==
  ASSUME LibraryInv, NEW h \in Handlers, UploadRename(h)
  PROVE  LibraryInv'
<1> DEFINE f == job[h].name
           on == [job[h] EXCEPT !.op = "lstat"]
<1>1. /\ job[h].op = "rename" /\ quiet' = FALSE
      /\ UNCHANGED <<links, versions, entries, cameras, libMu, scan, scans>>
      /\ \/ disk' = [disk EXCEPT ![f] = job[h].part] /\ Become(h, on)
         \/ disk' = [disk EXCEPT ![f] = Absent] /\ Become(h, NoRequest)
  BY DEF UploadRename
<1>2. job[h] \in [op : {"rename"}, part : Nat, rep : Nat, name : Files]
  BY <1>1, JobFacts DEF LibraryInv, LibraryTypeOK
<1>3. job[h].part \in Nat /\ f \in Files /\ job[h].op \in Bringing
  BY <1>1, <1>2 DEF Bringing
<1>4. on \in [op : {"lstat"}, part : Nat, rep : Nat, name : Files]
  BY <1>2
<1> HIDE DEF f, on
<1>5. on \in Jobs /\ on.op = "lstat" /\ on.op \notin Locking /\ on.op \notin Bringing
  BY <1>4 DEF Jobs, Locking, Bringing
<1>6. versions' \in Nat /\ quiet' \in BOOLEAN /\ ~quiet' /\ versions' = versions
  BY <1>1 DEF LibraryInv, LibraryTypeOK
<1>7. CASE disk' = [disk EXCEPT ![f] = job[h].part] /\ Become(h, on)
  <2>1. SameParts /\ job'[h] = on
    BY <1>5, <1>7, SamePartsWhen
  <2>2. World' /\ Moves(disk, disk', Used, Used')
    BY <1>3, <1>5, <1>6, <1>7, <2>1, WorldMoves DEF LibraryInv, World
  <2>3. JobGood(disk', Used', on)
    BY <1>5 DEF JobGood
  <2>4. disk' \in [Files -> Nat]
    BY <1>3, <1>7 DEF LibraryInv, LibraryTypeOK
  <2> QED BY <1>1, <1>5, <1>6, <1>7, <2>2, <2>3, <2>4, UploadMoves
<1>8. CASE disk' = [disk EXCEPT ![f] = Absent] /\ Become(h, NoRequest)
  <2>1. SameParts
    BY <1>8, IdleJob, SamePartsWhen
  <2>2. World' /\ Moves(disk, disk', Used, Used')
    BY <1>3, <1>6, <1>8, <2>1, WorldMoves DEF LibraryInv, World
  <2>3. disk' \in [Files -> Nat]
    BY <1>3, <1>8 DEF LibraryInv, LibraryTypeOK, Absent
  <2> QED BY <1>1, <1>6, <1>8, <2>2, <2>3, IdleJob, UploadMoves
<1> QED BY <1>1, <1>7, <1>8

LEMMA UploadLooks ==
  ASSUME LibraryInv, NEW h \in Handlers, UploadLstat(h)
  PROVE  LibraryInv'
<1> DEFINE f == job[h].name
           j == [op |-> "store", name |-> f, stat |-> disk[f], rep |-> job[h].rep]
<1>1. /\ job[h].op = "lstat" /\ Become(h, IF disk[f] = Absent THEN NoRequest ELSE j)
      /\ UNCHANGED <<diskVars, entries, cameras, libMu, scan, scans, quiet>>
  BY DEF UploadLstat
<1>2. f \in Files /\ job[h].rep \in Nat
  BY <1>1, JobFacts DEF LibraryInv, LibraryTypeOK
<1> HIDE DEF f
<1>3. CASE disk[f] = Absent
  BY <1>1, <1>3, IdleJob, UploadGoesOn
<1>4. CASE disk[f] # Absent
  <2>1. disk[f] \in Nat /\ disk[f] \in Used
    BY <1>2, <1>4 DEF LibraryInv, LibraryTypeOK, DiskUsed
  <2>2. j \in Jobs /\ j.op = "store" /\ j.stat = disk[f]
    BY <1>2, <2>1 DEF Jobs
  <2> HIDE DEF j
  <2>3. j.op \notin Locking /\ j.op \notin Bringing /\ Become(h, j)
    BY <1>1, <1>4, <2>2 DEF Locking, Bringing
  <2>4. Used \subseteq Used'
    <3>1. SameParts
      BY <2>3, SamePartsWhen
    <3>2. versions' \in Nat /\ versions <= versions'
      BY <1>1 DEF diskVars, LibraryInv, LibraryTypeOK
    <3> QED BY <3>1, <3>2, UsedGrows DEF LibraryInv
  <2>5. JobGood(disk, Used', j)
    BY <2>1, <2>2, <2>4 DEF JobGood
  <2> QED BY <1>1, <2>2, <2>3, <2>5, UploadGoesOn
<1> QED BY <1>3, <1>4

(* A request that leaves the files alone and what it may change besides.   *)
OnlyItsOwn(h, j) ==
  /\ UNCHANGED <<diskVars, scan, scans>>
  /\ entries' \in Entries /\ quiet' \in BOOLEAN
  /\ quiet' => quiet /\ entries' = entries
  /\ libMu' = libMu \/ (libMu \in {None, h} /\ libMu' \in {None, h})
  /\ j.op \in Locking => libMu' = h
  /\ cameras' \subseteq cameras \/ (libMu = h /\ cameras' \subseteq Files)
  /\ j.op = "delete" => j.name \notin cameras'

LEMMA RequestGoesOn ==
  ASSUME LibraryInv, NEW h \in Handlers, NEW j \in Jobs, Become(h, j), OnlyItsOwn(h, j),
         \A f \in Files : entries'[f] # None =>
           entries'[f] = entries[f] \/ EntryGood(disk, Used, f, entries'[f]),
         j.op \notin Bringing, JobGood(disk, Used, j)
  PROVE  LibraryInv'
<1>1. SameParts /\ job'[h] = j /\ \A i \in Handlers \ {h} : job'[i] = job[i]
  BY SamePartsWhen
<1>2. UNCHANGED <<links, disk, versions, scan, scans>>
  BY DEF diskVars, OnlyItsOwn
<1>3. World' /\ Moves(disk, disk', Used, Used')
  BY <1>1, <1>2, WorldRests DEF LibraryInv, World
<1>4. JobGood(disk', Used', job'[h])
  BY <1>1, <1>3, JobStays
<1>5. \A f \in Files : entries'[f] # None =>
        entries'[f] = entries[f] \/ EntryGood(disk', Used', f, entries'[f])
  BY <1>3, EntryStays
<1>6. job' \in [Handlers -> Jobs]
  BY DEF Become, LibraryInv, LibraryTypeOK
<1>7. libMu' \in Handlers \cup {None} /\ cameras' \subseteq Files
  BY DEF LibraryInv, LibraryTypeOK, OnlyItsOwn
<1>8. LibraryTypeOK'
  BY <1>2, <1>6, <1>7 DEF LibraryInv, LibraryTypeOK, OnlyItsOwn
<1>9. /\ quiet' => quiet /\ disk' = disk /\ entries' = entries
      /\ job'[h].op \in Locking => libMu' = h
      /\ libMu' = libMu \/ libMu \in {None, h}
      /\ cameras' \subseteq cameras \/ libMu = h
      /\ job'[h].op = "delete" => job'[h].name \notin cameras'
  BY <1>1, <1>2 DEF OnlyItsOwn
<1> QED BY <1>1, <1>2, <1>3, <1>4, <1>5, <1>8, <1>9, HandlerMoves

(* A request that stores an entry.                                         *)
LEMMA EntryPut ==
  ASSUME LibraryInv, NEW h \in Handlers, NEW j \in Jobs, Become(h, j), NEW f \in Files,
         NEW e \in Listing, Store(f, e), EntryGood(disk, Used, f, e), quiet' = FALSE,
         UNCHANGED <<diskVars, cameras, libMu, scan, scans>>,
         j.op \in Locking => libMu = h,
         j.op \notin Bringing, JobGood(disk, Used, j), j.op # "delete"
  PROVE  LibraryInv'
<1>1. entries' \in Entries /\ \A g \in Files : entries'[g] = IF g = f THEN e ELSE entries[g]
  BY DEF Store, LibraryInv, LibraryTypeOK, Entries
<1>2. \A g \in Files : entries'[g] # None =>
        entries'[g] = entries[g] \/ EntryGood(disk, Used, g, entries'[g])
  BY <1>1
<1>3. OnlyItsOwn(h, j)
  BY <1>1 DEF OnlyItsOwn
<1> QED BY <1>1, <1>2, <1>3, RequestGoesOn

LEMMA UploadStores ==
  ASSUME LibraryInv, NEW h \in Handlers, UploadStore(h)
  PROVE  LibraryInv'
<1> DEFINE f == job[h].name
           e == [stat |-> job[h].stat, rep |-> job[h].rep, by |-> "upload"]
<1>1. /\ job[h].op = "store" /\ Store(f, e) /\ Become(h, NoRequest) /\ quiet' = FALSE
      /\ UNCHANGED <<diskVars, cameras, libMu, scan, scans>>
  BY DEF UploadStore
<1>2. f \in Files /\ job[h].stat \in Nat /\ job[h].rep \in Nat
  BY <1>1, JobFacts DEF LibraryInv, LibraryTypeOK
<1>3. e \in Listing /\ EntryGood(disk, Used, f, e)
  <2>1. e \in Listing
    BY <1>2 DEF Listing
  <2>2. job[h].stat \in Used
    BY <1>1 DEF LibraryInv, JobGood
  <2> QED BY <2>1, <2>2 DEF EntryGood
<1> HIDE DEF f, e
<1>4. NoRequest \in Jobs
  BY IdleJob
<1> QED BY <1>1, <1>2, <1>3, <1>4, IdleJob, EntryPut

LEMMA UploadKeeps ==
  ASSUME LibraryInv, NEW h \in Handlers, Upload(h)
  PROVE  LibraryInv'
BY Receives, TriesNext, Links, Reserves, Renames, UploadLooks, UploadStores DEF Upload

(***************************************************************************)
(* The dashboard's requests.                                               *)
(***************************************************************************)
LEMMA Resolves ==
  ASSUME LibraryInv, NEW h \in Handlers, NEW f \in Files, AddResolve(h, f)
  PROVE  LibraryInv'
<1> DEFINE j == [op |-> "recheck", name |-> f, entry |-> entries[f]]
<1>1. /\ libMu = None /\ entries[f] # None /\ libMu' = h /\ Become(h, j)
      /\ UNCHANGED <<diskVars, entries, cameras, scan, scans, quiet>>
  BY DEF AddResolve
<1>2. entries[f] \in Listing
  BY <1>1 DEF LibraryInv, LibraryTypeOK, Entries
<1>3. j \in [op : {"recheck"}, name : Files, entry : Listing]
  BY <1>2
<1> HIDE DEF j
<1>4. j \in Jobs /\ j.op = "recheck"
  BY <1>3 DEF Jobs
<1>5. JobGood(disk, Used, j) /\ j.op \in Locking /\ j.op \notin Bringing
  BY <1>4 DEF JobGood, Locking, Bringing
<1>6. entries' \in Entries /\ quiet' \in BOOLEAN /\ \A g \in Files : entries'[g] = entries[g]
  BY <1>1 DEF LibraryInv, LibraryTypeOK
<1>7. OnlyItsOwn(h, j)
  BY <1>1, <1>4, <1>5, <1>6 DEF OnlyItsOwn
<1> QED BY <1>1, <1>4, <1>5, <1>6, <1>7, RequestGoesOn

LEMMA Rechecks ==
  ASSUME LibraryInv, NEW h \in Handlers, AddLstat(h)
  PROVE  LibraryInv'
<1> DEFINE f == job[h].name
           e == job[h].entry
           missing == [op |-> "unlist", name |-> f]
           here == [op |-> "add", name |-> f, rep |-> e.rep]
           changed == [op |-> "reparse", name |-> f, stat |-> disk[f]]
<1>1. /\ job[h].op = "recheck"
      /\ UNCHANGED <<diskVars, entries, cameras, libMu, scan, scans, quiet>>
      /\ \/ Become(h, missing)
         \/ Become(h, here)
         \/ disk[f] # Absent /\ Become(h, changed)
  BY DEF AddLstat
<1>2. f \in Files /\ e \in Listing
  BY <1>1, JobFacts DEF LibraryInv, LibraryTypeOK
<1> HIDE DEF f, e
<1>3. /\ missing \in [op : {"delete", "unlist"}, name : Files]
      /\ here \in [op : {"add"}, name : Files, rep : Nat]
      /\ changed \in [op : {"reparse"}, name : Files, stat : Nat]
  BY <1>2 DEF Listing, LibraryInv, LibraryTypeOK
<1>4. disk[f] # Absent => changed.stat \in Used
  BY <1>2 DEF LibraryInv, DiskUsed
<1>5. missing.op = "unlist" /\ here.op = "add" /\ changed.op = "reparse"
  OBVIOUS
<1> HIDE DEF missing, here, changed
<1>6. PICK j \in Jobs : /\ Become(h, j) /\ j.op \in {"unlist", "add", "reparse"}
                        /\ j.op = "reparse" => j.stat \in Used
  BY <1>1, <1>3, <1>4, <1>5 DEF Jobs
<1>7. JobGood(disk, Used, j) /\ j.op \in Locking /\ j.op \notin Bringing /\ j.op # "delete"
  BY <1>6 DEF JobGood, Locking, Bringing
<1>8. libMu = h /\ libMu' = h
  BY <1>1 DEF LibraryInv, LockHeld, Locking
<1>9. entries' \in Entries /\ quiet' \in BOOLEAN /\ \A g \in Files : entries'[g] = entries[g]
  BY <1>1 DEF LibraryInv, LibraryTypeOK
<1>10. OnlyItsOwn(h, j)
  BY <1>1, <1>7, <1>8, <1>9 DEF OnlyItsOwn
<1> QED BY <1>6, <1>7, <1>9, <1>10, RequestGoesOn

LEMMA Reparses ==
  ASSUME LibraryInv, NEW h \in Handlers, AddReparse(h)
  PROVE  LibraryInv'
<1> DEFINE f == job[h].name
           v == job[h].stat
           j(rep) == [op |-> "restore", name |-> f, stat |-> v, rep |-> rep]
<1>1. /\ job[h].op = "reparse" /\ UNCHANGED <<diskVars, entries, cameras, scan, scans, quiet>>
      /\ \/ (\E rep \in Reports(disk[f]) : Become(h, j(rep))) /\ libMu' = libMu
         \/ Become(h, NoRequest) /\ libMu' = None
  BY DEF AddReparse
<1>2. f \in Files /\ v \in Nat
  BY <1>1, JobFacts DEF LibraryInv, LibraryTypeOK
<1>3. v \in Used
  BY <1>1 DEF LibraryInv, JobGood
<1>4. libMu = h
  BY <1>1 DEF LibraryInv, LockHeld, Locking
<1>5. entries' \in Entries /\ quiet' \in BOOLEAN /\ \A g \in Files : entries'[g] = entries[g]
  BY <1>1 DEF LibraryInv, LibraryTypeOK
<1> HIDE DEF f, v
<1>6. CASE (\E rep \in Reports(disk[f]) : Become(h, j(rep))) /\ libMu' = libMu
  <2>1. PICK rep \in Reports(disk[f]) : Become(h, j(rep))
    BY <1>6
  <2>2. rep \in Nat /\ rep \in {disk[f], Unread}
    BY <1>2 DEF Reports, Unread, Absent, LibraryInv, LibraryTypeOK
  <2>3. PICK k \in Jobs : /\ k = j(rep) /\ k.op = "restore" /\ k.stat = v /\ k.rep = rep
                          /\ k.name = f /\ Become(h, k)
    BY <1>2, <2>1, <2>2 DEF Jobs
  <2> HIDE DEF j
  <2>4. JobGood(disk, Used, k)
    BY <1>3, <2>2, <2>3 DEF JobGood, Another
  <2>5. k.op \in Locking /\ k.op \notin Bringing /\ k.op # "delete"
    BY <2>3 DEF Locking, Bringing
  <2>6. OnlyItsOwn(h, k)
    BY <1>1, <1>4, <1>5, <1>6, <2>5 DEF OnlyItsOwn
  <2> QED BY <1>5, <2>3, <2>4, <2>5, <2>6, RequestGoesOn
<1>7. CASE Become(h, NoRequest) /\ libMu' = None
  <2>1. OnlyItsOwn(h, NoRequest)
    BY <1>1, <1>4, <1>5, <1>7, IdleJob DEF OnlyItsOwn
  <2> QED BY <1>5, <1>7, <2>1, IdleJob, RequestGoesOn
<1> QED BY <1>1, <1>6, <1>7

LEMMA Restores ==
  ASSUME LibraryInv, NEW h \in Handlers, AddRestore(h)
  PROVE  LibraryInv'
<1> DEFINE f == job[h].name
           e == [stat |-> job[h].stat, rep |-> job[h].rep, by |-> "check"]
           j == [op |-> "add", name |-> f, rep |-> job[h].rep]
<1>1. /\ job[h].op = "restore" /\ Store(f, e) /\ Become(h, j) /\ quiet' = FALSE
      /\ UNCHANGED <<diskVars, cameras, libMu, scan, scans>>
  BY DEF AddRestore
<1>2. f \in Files /\ job[h].stat \in Nat /\ job[h].rep \in Nat
  BY <1>1, JobFacts DEF LibraryInv, LibraryTypeOK
<1>3. e \in Listing /\ EntryGood(disk, Used, f, e)
  <2>1. e \in Listing
    BY <1>2 DEF Listing
  <2>2. JobGood(disk, Used, job[h])
    BY DEF LibraryInv
  <2> QED BY <1>1, <2>1, <2>2 DEF EntryGood, JobGood
<1>4. j \in Jobs /\ j.op = "add"
  BY <1>2 DEF Jobs
<1> HIDE DEF f, e, j
<1>5. JobGood(disk, Used, j) /\ j.op \notin Bringing /\ j.op # "delete"
  BY <1>4 DEF JobGood, Bringing
<1>6. libMu = h
  BY <1>1 DEF LibraryInv, LockHeld, Locking
<1> QED BY <1>1, <1>2, <1>3, <1>4, <1>5, <1>6, EntryPut

LEMMA AddsCamera ==
  ASSUME LibraryInv, NEW h \in Handlers, AddCamera(h)
  PROVE  LibraryInv'
<1>1. /\ job[h].op = "add" /\ libMu' = None /\ Become(h, NoRequest)
      /\ UNCHANGED <<diskVars, entries, scan, scans, quiet>>
      /\ cameras' = cameras \cup {job[h].name} \/ cameras' = cameras
  BY DEF AddCamera
<1>2. job[h].name \in Files
  BY <1>1, JobFacts DEF LibraryInv, LibraryTypeOK
<1>3. libMu = h
  BY <1>1 DEF LibraryInv, LockHeld, Locking
<1>4. cameras' \subseteq Files
  BY <1>1, <1>2 DEF LibraryInv, LibraryTypeOK
<1>5. entries' \in Entries /\ quiet' \in BOOLEAN /\ \A g \in Files : entries'[g] = entries[g]
  BY <1>1 DEF LibraryInv, LibraryTypeOK
<1>6. OnlyItsOwn(h, NoRequest)
  BY <1>1, <1>3, <1>4, <1>5, IdleJob DEF OnlyItsOwn
<1> QED BY <1>1, <1>5, <1>6, IdleJob, RequestGoesOn

LEMMA DeleteChecks ==
  ASSUME LibraryInv, NEW h \in Handlers, NEW f \in Files, DeleteCheck(h, f)
  PROVE  LibraryInv'
<1> DEFINE j == [op |-> "delete", name |-> f]
<1>1. /\ libMu = None /\ f \notin cameras /\ libMu' = h /\ Become(h, j)
      /\ UNCHANGED <<diskVars, entries, cameras, scan, scans, quiet>>
  BY DEF DeleteCheck
<1>2. j \in Jobs /\ j.op = "delete" /\ j.name = f
  BY DEF Jobs
<1> HIDE DEF j
<1>3. JobGood(disk, Used, j) /\ j.op \notin Bringing /\ j.op \in Locking
  BY <1>2 DEF JobGood, Bringing, Locking
<1>4. entries' \in Entries /\ quiet' \in BOOLEAN /\ \A g \in Files : entries'[g] = entries[g]
  BY <1>1 DEF LibraryInv, LibraryTypeOK
<1>5. OnlyItsOwn(h, j)
  BY <1>1, <1>2, <1>3, <1>4 DEF OnlyItsOwn
<1> QED BY <1>1, <1>2, <1>3, <1>4, <1>5, RequestGoesOn

LEMMA DeletesFile ==
  ASSUME LibraryInv, NEW h \in Handlers, DeleteFile(h)
  PROVE  LibraryInv'
<1> DEFINE f == job[h].name
           j == [job[h] EXCEPT !.op = "unlist"]
<1>1. /\ job[h].op = "delete" /\ UNCHANGED <<links, versions, entries, cameras, scan, scans>>
      /\ \/ /\ disk' = [disk EXCEPT ![f] = Absent] /\ Become(h, j) /\ quiet' = FALSE
            /\ UNCHANGED libMu
         \/ libMu' = None /\ Become(h, NoRequest) /\ UNCHANGED <<disk, quiet>>
  BY DEF DeleteFile
<1>2. job[h] \in [op : {"delete"}, name : Files]
  BY <1>1, JobFacts DEF LibraryInv, LibraryTypeOK
<1>3. f \in Files /\ j \in [op : {"unlist"}, name : Files]
  BY <1>2
<1>4. libMu = h
  BY <1>1 DEF LibraryInv, LockHeld, Locking
<1> HIDE DEF f, j
<1>5. j \in Jobs /\ j.op = "unlist"
  BY <1>3 DEF Jobs
<1>6. (\A d, U : JobGood(d, U, j)) /\ j.op \notin Bringing /\ j.op \in Locking
  BY <1>5 DEF JobGood, Bringing, Locking
<1>7. CASE disk' = [disk EXCEPT ![f] = Absent] /\ Become(h, j) /\ quiet' = FALSE /\ UNCHANGED libMu
  <2>1. SameParts /\ job'[h] = j /\ \A i \in Handlers \ {h} : job'[i] = job[i]
    BY <1>6, <1>7, SamePartsWhen
  <2>2. versions' = versions
    BY <1>1
  <2>3. World' /\ Moves(disk, disk', Used, Used')
    BY <1>3, <1>7, <2>1, <2>2, WorldMoves DEF LibraryInv, World
  <2>4. disk' \in [Files -> Nat]
    BY <1>3, <1>7 DEF LibraryInv, LibraryTypeOK, Absent
  <2>5. job' \in [Handlers -> Jobs]
    BY <1>5, <1>7 DEF Become, LibraryInv, LibraryTypeOK
  <2>6. LibraryTypeOK'
    BY <1>1, <1>7, <2>2, <2>4, <2>5 DEF LibraryInv, LibraryTypeOK
  <2>7. JobGood(disk', Used', job'[h])
    BY <1>6, <2>1
  <2> QED BY <1>1, <1>4, <1>5, <1>7, <2>1, <2>3, <2>6, <2>7, HandlerMoves
<1>8. CASE libMu' = None /\ Become(h, NoRequest) /\ UNCHANGED <<disk, quiet>>
  <2>1. UNCHANGED diskVars /\ entries' \in Entries /\ quiet' \in BOOLEAN
        /\ \A g \in Files : entries'[g] = entries[g]
    BY <1>1, <1>8 DEF diskVars, LibraryInv, LibraryTypeOK
  <2>2. OnlyItsOwn(h, NoRequest)
    BY <1>1, <1>4, <1>8, <2>1, IdleJob DEF OnlyItsOwn
  <2> QED BY <1>8, <2>1, <2>2, IdleJob, RequestGoesOn
<1> QED BY <1>1, <1>7, <1>8

LEMMA DeletesEntry ==
  ASSUME LibraryInv, NEW h \in Handlers, DeleteEntry(h)
  PROVE  LibraryInv'
<1> DEFINE f == job[h].name
<1>1. /\ job[h].op = "unlist" /\ Store(f, None) /\ libMu' = None /\ Become(h, NoRequest)
      /\ quiet' = FALSE /\ UNCHANGED <<diskVars, cameras, scan, scans>>
  BY DEF DeleteEntry
<1>2. libMu = h
  BY <1>1 DEF LibraryInv, LockHeld, Locking
<1>3. entries' \in Entries /\ \A g \in Files : entries'[g] # None => entries'[g] = entries[g]
  <2> HIDE DEF f
  <2> QED BY <1>1 DEF Store, LibraryInv, LibraryTypeOK, Entries
<1>4. OnlyItsOwn(h, NoRequest)
  BY <1>1, <1>2, <1>3, IdleJob DEF OnlyItsOwn
<1> QED BY <1>1, <1>3, <1>4, IdleJob, RequestGoesOn

LEMMA HandlerKeeps ==
  ASSUME LibraryInv, NEW h \in Handlers, Handler(h)
  PROVE  LibraryInv'
BY Resolves, Rechecks, Reparses, Restores, AddsCamera, DeleteChecks, DeletesFile, DeletesEntry
   DEF Handler

(***************************************************************************)
(* Cameras that are removed, and everybody else who has the disk.          *)
(***************************************************************************)
LEMMA RemovesCamera ==
  ASSUME LibraryInv, NEW f \in Files, RemoveCamera(f)
  PROVE  LibraryInv'
<1>1. cameras' = cameras \ {f} /\ UNCHANGED <<diskVars, entries, libMu, job, scan, scans, quiet>>
  BY DEF RemoveCamera
<1>2. UNCHANGED <<links, disk, versions, entries, libMu, job, scan, scans, quiet>>
  BY <1>1 DEF diskVars
<1>3. LibraryTypeOK' /\ cameras' \subseteq cameras
  BY <1>1, <1>2 DEF LibraryInv, LibraryTypeOK
<1>4. SameParts
  BY <1>2 DEF SameParts
<1>5. World' /\ Moves(disk, disk', Used, Used')
  BY <1>2, <1>4, WorldRests DEF LibraryInv, World
<1> QED BY <1>2, <1>3, <1>5, OutsideMoves

LEMMA ElsewhereKeeps ==
  ASSUME LibraryInv, NEW f \in Files, Elsewhere(f)
  PROVE  LibraryInv'
<1>1. /\ quiet' = FALSE /\ UNCHANGED <<links, entries, cameras, libMu, job, scan, scans>>
      /\ \/ versions' = versions + 1 /\ disk' = [disk EXCEPT ![f] = versions']
         \/ disk' = [disk EXCEPT ![f] = Absent] /\ versions' = versions
  BY DEF Elsewhere
<1>2. SameParts
  BY <1>1 DEF SameParts
<1>3. World' /\ Moves(disk, disk', Used, Used')
  BY <1>1, <1>2, WorldWritten, WorldMoves DEF LibraryInv, World
<1>4. versions' \in Nat /\ disk' \in [Files -> Nat]
  <2>1. versions' \in Nat
    BY <1>1 DEF LibraryInv, LibraryTypeOK
  <2> QED BY <1>1, <2>1 DEF LibraryInv, LibraryTypeOK, Absent
<1>5. LibraryTypeOK'
  BY <1>1, <1>4 DEF LibraryInv, LibraryTypeOK
<1> QED BY <1>1, <1>3, <1>5, OutsideMoves

(***************************************************************************)
(* The theorems.                                                           *)
(***************************************************************************)
LEMMA LibraryStarts == LibraryInit => LibraryInv
<1> SUFFICES ASSUME LibraryInit PROVE LibraryInv
  OBVIOUS
<1>1. LibraryTypeOK
  BY IdleJob DEF LibraryInit, LibraryTypeOK, Entries, Scans, Absent
<1>2. \A h \in Handlers : job[h] = NoRequest
  BY DEF LibraryInit
<1>3. LockHeld /\ NotInUse /\ Parts
  BY <1>2, IdleJob DEF LockHeld, NotInUse, Parts, Locking
<1>4. DiskUsed
  BY DEF LibraryInit, DiskUsed
<1>5. \A f \in Files : entries[f] = None
  BY DEF LibraryInit
<1>6. \A h \in Handlers : JobGood(disk, Used, job[h])
  BY <1>2, IdleJob
<1>7. ScanGood(disk, Used, scan) /\ QuietGood(disk, entries, scan)
  BY IdleScan DEF LibraryInit
<1> QED BY <1>1, <1>3, <1>4, <1>5, <1>6, <1>7 DEF LibraryInv

LEMMA LibrarySteps == LibraryInv /\ [LibraryNext]_libraryVars => LibraryInv'
<1> SUFFICES ASSUME LibraryInv, [LibraryNext]_libraryVars PROVE LibraryInv'
  OBVIOUS
<1>1. CASE LibraryNext
  BY <1>1, ScanKeeps, UploadKeeps, HandlerKeeps, RemovesCamera, ElsewhereKeeps DEF LibraryNext
<1>2. CASE UNCHANGED libraryVars
  BY <1>2 DEF libraryVars, diskVars, LibraryInv, LibraryTypeOK, LockHeld, NotInUse, Parts,
     DiskUsed, Used
<1> QED BY <1>1, <1>2

LEMMA LibraryAlways == LibrarySpec => []LibraryInv
BY LibraryStarts, LibrarySteps, PTL DEF LibrarySpec

(* The state of the library and of its users has the types the code gives  *)
(* it, whatever the names, the number of requests and the bounds.          *)
THEOREM LibraryTypeCorrect == LibrarySpec => []LibraryTypeOK
<1>1. LibraryInv => LibraryTypeOK
  BY DEF LibraryInv
<1> QED BY <1>1, LibraryAlways, PTL

(* The report the library lists is of the very file on disk, when the file *)
(* still has the size and mtime it is listed with and a scan or a re-check *)
(* made the entry, whoever writes the file during the parse.               *)
THEOREM ListedReportIsOfFile == LibrarySpec => []ReportOfFile
<1>1. LibraryInv => ReportOfFile
  BY DEF LibraryInv, EntryGood, Another, ReportOfFile
<1> QED BY <1>1, LibraryAlways, PTL

LEMMA Spares ==
  ASSUME LibraryInv, [LibraryNext]_libraryVars, NEW h \in Handlers,
         job[h].op = "delete", job'[h].op = "unlist"
  PROVE  job[h].name \notin cameras'
<1>1. job[h].name \notin cameras
  BY DEF LibraryInv, NotInUse
<1>2. CASE cameras' \subseteq cameras
  BY <1>1, <1>2
<1>3. CASE \E i \in Handlers : AddCamera(i)
  <2>1. PICK i \in Handlers : AddCamera(i)
    BY <1>3
  <2>2. job[i].op = "add" /\ job' = [job EXCEPT ![i] = NoRequest]
    BY <2>1 DEF AddCamera, Become
  <2>3. job \in [Handlers -> Jobs]
    BY DEF LibraryInv, LibraryTypeOK
  <2>4. i = h \/ job'[h] = job[h]
    BY <2>2, <2>3
  <2>5. QED BY <2>2, <2>4
<1>4. CASE UNCHANGED libraryVars
  BY <1>1, <1>4 DEF libraryVars
<1>5. CASE ScanStep
  BY <1>1, <1>5 DEF ScanStep, ScanBegin, ScanWalked, ScanRootGone, PruneList, Prune, ScanCancelled,
     ScanVisit, ScanSkip, ScanParse, ScanStore, PruneLstat
<1>6. CASE \E i \in Handlers : Upload(i)
  BY <1>1, <1>6 DEF Upload, UploadReceive, UploadNext, UploadLink, UploadReserve, UploadRename,
     UploadLstat, UploadStore
<1>7. CASE \E i \in Handlers : Handler(i)
  BY <1>2, <1>3, <1>7 DEF Handler, AddResolve, AddLstat, AddReparse, AddRestore, DeleteCheck,
     DeleteFile, DeleteEntry
<1>8. CASE \E f \in Files : RemoveCamera(f) \/ Elsewhere(f)
  BY <1>2, <1>8 DEF RemoveCamera, Elsewhere
<1> QED BY <1>4, <1>5, <1>6, <1>7, <1>8 DEF LibraryNext

(* deleteFile never takes away the file of a camera, however its check,    *)
(* the adds of cameras and the delete interleave: libMu is held from the   *)
(* one to the other.                                                       *)
THEOREM DeletedFilesAreUnused == LibrarySpec => DeleteSparesInUse
<1> DEFINE Act == \A p \in Handlers :
           (job[p].op = "delete" /\ job'[p].op = "unlist") => job[p].name \notin cameras'
<1>1. LibraryInv /\ [LibraryNext]_libraryVars => [Act]_libraryVars
  BY Spares
<1>2. DeleteSparesInUse <=> [][Act]_libraryVars
  BY DEF DeleteSparesInUse
<1> HIDE DEF Act
<1> QED BY <1>1, <1>2, LibraryAlways, PTL DEF LibrarySpec

LEMMA Prunes ==
  ASSUME LibraryInv, LibraryNext, scan.stage = "lstat", scan' = NoScan
  PROVE  Prune
<1>1. scan' # scan /\ scan'.stage = "idle"
  BY DEF NoScan
<1>2. CASE ScanStep
  <2>1. ~ScanBegin /\ ~ScanWalked /\ ~ScanRootGone /\ ~PruneList /\ ~ScanCancelled
    BY <1>1 DEF ScanBegin, ScanWalked, ScanRootGone, PruneList, ScanCancelled
  <2>2. \A f \in Files : ~ScanVisit(f) /\ ~ScanSkip(f) /\ ~ScanParse(f) /\ ~ScanStore(f)
    BY DEF ScanVisit, ScanSkip, ScanParse, ScanStore
  <2>3. ASSUME NEW f \in Files, PruneLstat(f) PROVE FALSE
    <3>1. scan \in [stage : {"lstat"}, todo : SUBSET Files, gone : SUBSET Files, listed : Entries]
      BY ScanFacts DEF LibraryInv, LibraryTypeOK
    <3>2. scan'.stage = "lstat"
      BY <2>3, <3>1 DEF PruneLstat
    <3> QED BY <1>1, <3>2
  <2> QED BY <1>2, <2>1, <2>2, <2>3 DEF ScanStep
<1>3. CASE \E h \in Handlers : Upload(h)
  BY <1>1, <1>3 DEF Upload, UploadReceive, UploadNext, UploadLink, UploadReserve, UploadRename,
     UploadLstat, UploadStore
<1>4. CASE \E h \in Handlers : Handler(h)
  BY <1>1, <1>4 DEF Handler, AddResolve, AddLstat, AddReparse, AddRestore, AddCamera,
     DeleteCheck, DeleteFile, DeleteEntry
<1>5. CASE \E f \in Files : RemoveCamera(f) \/ Elsewhere(f)
  BY <1>1, <1>5 DEF RemoveCamera, Elsewhere
<1> QED BY <1>2, <1>3, <1>4, <1>5 DEF LibraryNext

LEMMA PruneTells ==
  ASSUME LibraryInv, Prune, NEW f \in Files
  PROVE  /\ entries[f] # None /\ entries[f].stat = disk[f] => entries'[f] = entries[f]
         /\ quiet => IF disk[f] = Absent THEN entries'[f] = None
                     ELSE entries'[f] # None /\ entries'[f].stat = disk[f]
<1>1. /\ scan.stage = "lstat" /\ scan.todo = {}
      /\ entries'[f] = IF f \in scan.gone /\ StillListed(f) THEN None ELSE entries[f]
  BY DEF Prune
<1>2. f \in scan.gone => disk[f] # scan.listed[f].stat
  BY <1>1 DEF LibraryInv, ScanGood
<1>3. entries[f] # None /\ entries[f].stat = disk[f] => entries'[f] = entries[f]
  BY <1>1, <1>2 DEF StillListed
<1>4. ASSUME quiet
      PROVE  IF disk[f] = Absent THEN entries'[f] = None
             ELSE entries'[f] # None /\ entries'[f].stat = disk[f]
  <2>1. QuietGood(disk, entries, scan)
    BY <1>4 DEF LibraryInv
  <2>2. CASE disk[f] = Absent
    <3>1. entries[f] # None => f \in scan.gone /\ scan.listed[f] = entries[f]
      BY <1>1, <2>1, <2>2 DEF QuietGood
    <3> QED BY <1>1, <2>2, <3>1 DEF StillListed
  <2>3. CASE disk[f] # Absent
    <3>1. entries[f] # None /\ entries[f].stat = disk[f]
      BY <1>1, <2>1, <2>3 DEF QuietGood, Right
    <3> QED BY <1>3, <2>3, <3>1
  <2> QED BY <2>2, <2>3
<1> QED BY <1>3, <1>4

(* The prune at the end of a scan drops no entry of a file that is there   *)
(* as it is listed; and a scan nobody disturbed leaves the library listing *)
(* exactly what is on disk.                                                *)
THEOREM ScansAreTruthful == LibrarySpec => ScanTruthful
<1>1. LibraryInv /\ [LibraryNext]_libraryVars =>
        [scan.stage = "lstat" /\ scan' = NoScan =>
           \A f \in Files :
             /\ entries[f] # None /\ entries[f].stat = disk[f] => entries'[f] = entries[f]
             /\ quiet => IF disk[f] = Absent THEN entries'[f] = None
                         ELSE entries'[f] # None /\ entries'[f].stat = disk[f]]_libraryVars
  <2> SUFFICES ASSUME LibraryInv, LibraryNext, scan.stage = "lstat", scan' = NoScan,
                      NEW f \in Files
               PROVE  /\ entries[f] # None /\ entries[f].stat = disk[f] => entries'[f] = entries[f]
                      /\ quiet => IF disk[f] = Absent THEN entries'[f] = None
                                  ELSE entries'[f] # None /\ entries'[f].stat = disk[f]
    OBVIOUS
  <2>1. Prune
    BY Prunes
  <2> QED BY <2>1, PruneTells
<1> QED BY <1>1, LibraryAlways, PTL DEF LibrarySpec, ScanTruthful
=============================================================================
