------------------------------ MODULE Library ------------------------------
(***************************************************************************)
(* The media library (internal/library) and the dashboard handlers that    *)
(* use it (internal/dashboard/library.go, dashboard.go): a scan of the     *)
(* upload directory, uploads, the re-check before a camera is added, and   *)
(* the deletion of a file.                                                 *)
(*                                                                         *)
(* The disk is shared with everybody and every system call is a step.      *)
(* Library.mu covers single reads and writes of the entries, libMu the     *)
(* handlers that add a camera or delete a file.  A content has a version,  *)
(* which its size and mtime tell from every other; a report is the version *)
(* that was parsed, or Unread if the parse timed out or found no file.     *)
(***************************************************************************)
EXTENDS Naturals, Sequences, FiniteSets

CONSTANTS Handlers,    \* concurrent dashboard requests
          Names,       \* a file name and its numbered alternatives, in order
          None,
          MaxUploads,  \* maxConcurrentUploads
          MaxVersions, \* bound on the contents ever written
          MaxScans     \* bound on the scans

(* An entry: the size and mtime of a file, and the report on it.           *)
Listing == [stat : Nat, rep : Nat, by : {"check", "upload"}]

ASSUME LibraryAssumption ==
  /\ MaxUploads \in Nat \ {0} /\ MaxVersions \in Nat /\ MaxScans \in Nat
  /\ Names \in Seq(STRING) /\ Names # <<>>
  /\ None \notin STRING \cup Nat \cup Handlers \cup Listing

VARIABLES links,    \* whether the filesystem has hard links
          disk,     \* the version each file has; 0 when there is none
          versions, \* versions so far
          entries,  \* Library.entries
          cameras,  \* the files the fleet's cameras serve
          libMu,    \* the handler that holds server.libMu, or None
          job,      \* what each handler is in the middle of
          scan,     \* the scan: its stage and what it has found
          scans,
          quiet     \* history: nobody else changed anything during the scan

diskVars == <<links, disk, versions>>
libraryVars == <<diskVars, entries, cameras, libMu, job, scan, scans, quiet>>

Files == {Names[i] : i \in DOMAIN Names}
Absent == 0
Unread == 0
Versions == 1 .. MaxVersions
NoRequest == [op |-> "idle"]
NoScan == [stage |-> "idle"]

LibraryInit ==
  /\ links \in BOOLEAN
  /\ disk = [f \in Files |-> Absent] /\ versions = 0
  /\ entries = [f \in Files |-> None]
  /\ cameras = {}
  /\ libMu = None
  /\ job = [p \in Handlers |-> NoRequest]
  /\ scan = NoScan /\ scans = 0
  /\ quiet = FALSE

Become(p, j) == job' = [job EXCEPT ![p] = j]
Store(f, e) == entries' = [entries EXCEPT ![f] = e]

(* Parsing a file that holds version v: its report, or none in time.       *)
Reports(v) == IF v = Absent THEN {Unread} ELSE {v, Unread}

(***************************************************************************)
(* The scan of one root: walk, analyze what changed, prune.                *)
(***************************************************************************)
ScanBegin ==
  /\ scan = NoScan /\ scans < MaxScans
  /\ scans' = scans + 1
  /\ \E force \in BOOLEAN :
       scan' = [stage |-> "walk", force |-> force, todo |-> Files,
                found |-> [f \in Files |-> Absent]]
  /\ quiet' = TRUE
  /\ UNCHANGED <<diskVars, entries, cameras, libMu, job>>

(* The walk comes by a file.  Hidden files, links, other extensions and    *)
(* directories that cannot be listed are not Files.                        *)
ScanVisit(f) ==
  /\ scan.stage = "walk" /\ f \in scan.todo
  /\ scan' = [scan EXCEPT !.todo = @ \ {f}, !.found[f] = disk[f]]
  /\ UNCHANGED <<diskVars, entries, cameras, libMu, job, scans, quiet>>

ScanWalked ==
  /\ scan.stage = "walk" /\ scan.todo = {}
  /\ scan' = [stage |-> "check", force |-> scan.force, todo |-> {f \in Files : scan.found[f] # Absent},
              found |-> scan.found, parsed |-> [f \in Files |-> None]]
  /\ UNCHANGED <<diskVars, entries, cameras, libMu, job, scans, quiet>>

(* The root cannot be read: none of its files may stay listed.             *)
ScanRootGone ==
  /\ scan.stage = "walk"
  /\ entries' = [f \in Files |-> None]
  /\ scan' = NoScan
  /\ UNCHANGED <<diskVars, cameras, libMu, job, scans, quiet>>

(* mutant: a file that is listed is not checked again.                     *)
UnchangedIfListed(f) == entries[f] # None
Unchanged(f) == entries[f] # None /\ entries[f].stat = scan.found[f]

(* An unchanged file keeps its report, any other is parsed.                *)
ScanSkip(f) ==
  /\ scan.stage = "check" /\ f \in scan.todo /\ scan.parsed[f] = None
  /\ Unchanged(f) /\ ~scan.force
  /\ scan' = [scan EXCEPT !.todo = @ \ {f}]
  /\ UNCHANGED <<diskVars, entries, cameras, libMu, job, scans, quiet>>

ScanParse(f) ==
  /\ scan.stage = "check" /\ f \in scan.todo /\ scan.parsed[f] = None
  /\ ~Unchanged(f) \/ scan.force
  /\ \E rep \in Reports(disk[f]) : scan' = [scan EXCEPT !.parsed[f] = rep]
  /\ UNCHANGED <<diskVars, entries, cameras, libMu, job, scans, quiet>>

(* mutant: the entry takes its size and mtime after the parse.             *)
StatAfterParse(f) == disk[f]
StatOfWalk(f) == scan.found[f]

ScanStore(f) ==
  /\ scan.stage = "check" /\ f \in scan.todo /\ scan.parsed[f] # None
  /\ Store(f, [stat |-> StatOfWalk(f), rep |-> scan.parsed[f], by |-> "check"])
  /\ scan' = [scan EXCEPT !.todo = @ \ {f}]
  /\ UNCHANGED <<diskVars, cameras, libMu, job, scans, quiet>>

(* Every analysis has ended: note the entries the walk did not see.        *)
PruneList ==
  /\ scan.stage = "check" /\ scan.todo = {}
  /\ LET unseen == {f \in Files : entries[f] # None /\ scan.found[f] = Absent}
     IN  scan' = [stage |-> "lstat", todo |-> unseen, gone |-> {}, listed |-> entries]
  /\ UNCHANGED <<diskVars, entries, cameras, libMu, job, scans, quiet>>

(* fileGone on one of them.                                                *)
PruneLstat(f) ==
  /\ scan.stage = "lstat" /\ f \in scan.todo
  /\ scan' = [scan EXCEPT !.todo = @ \ {f},
                          !.gone = IF disk[f] = Absent THEN @ \cup {f} ELSE @]
  /\ UNCHANGED <<diskVars, entries, cameras, libMu, job, scans, quiet>>

(* mutant: an entry stored since the list was made is dropped all the same.*)
StillListedUnchecked(f) == entries[f] # None
StillListed(f) == entries[f] # None /\ entries[f].stat = scan.listed[f].stat

(* Drop those that are gone, unless they were stored again meanwhile.      *)
Prune ==
  /\ scan.stage = "lstat" /\ scan.todo = {}
  /\ entries' = [f \in Files |->
                   IF f \in scan.gone /\ StillListed(f) THEN None ELSE entries[f]]
  /\ scan' = NoScan
  /\ UNCHANGED <<diskVars, cameras, libMu, job, scans, quiet>>

(* The scan's context ends.                                                *)
ScanCancelled ==
  /\ scan.stage \in {"walk", "check"}
  /\ scan' = NoScan
  /\ UNCHANGED <<diskVars, entries, cameras, libMu, job, scans, quiet>>

(***************************************************************************)
(* Library.Upload.                                                         *)
(***************************************************************************)
Uploading == {p \in Handlers : job[p].op \in {"place", "rename", "lstat", "store"}}

(* A slot, and the part file received and parsed.                          *)
UploadReceive(p) ==
  /\ job[p] = NoRequest /\ Cardinality(Uploading) < MaxUploads /\ versions < MaxVersions
  /\ versions' = versions + 1
  /\ \E rep \in Reports(versions') :
       Become(p, [op |-> "place", part |-> versions', rep |-> rep, try |-> 1])
  /\ UNCHANGED <<links, disk, entries, cameras, libMu, scan, scans, quiet>>

(* place: the name is taken, try the next one; or give up.                 *)
UploadNext(p) ==
  /\ job[p].op = "place" /\ disk[Names[job[p].try]] # Absent
  /\ Become(p, IF job[p].try < Len(Names) THEN [job[p] EXCEPT !.try = @ + 1] ELSE NoRequest)
  /\ UNCHANGED <<diskVars, entries, cameras, libMu, scan, scans, quiet>>

(* place with hard links: the part file gets the free name.                *)
UploadLink(p) ==
  LET f == Names[job[p].try]
  IN  /\ job[p].op = "place" /\ links /\ disk[f] = Absent
      /\ disk' = [disk EXCEPT ![f] = job[p].part]
      /\ Become(p, [op |-> "lstat", part |-> job[p].part, rep |-> job[p].rep, name |-> f])
      /\ quiet' = FALSE
      /\ UNCHANGED <<links, versions, entries, cameras, libMu, scan, scans>>

(* place without them: an empty placeholder reserves the name,             *)
UploadReserve(p) ==
  LET f == Names[job[p].try]
  IN  /\ job[p].op = "place" /\ ~links /\ disk[f] = Absent /\ versions < MaxVersions
      /\ versions' = versions + 1
      /\ disk' = [disk EXCEPT ![f] = versions']
      /\ Become(p, [op |-> "rename", part |-> job[p].part, rep |-> job[p].rep, name |-> f])
      /\ quiet' = FALSE
      /\ UNCHANGED <<links, entries, cameras, libMu, scan, scans>>

(* and the part file is renamed over it; if that fails the name is freed.  *)
UploadRename(p) ==
  LET f == job[p].name
  IN  /\ job[p].op = "rename"
      /\ \/ /\ disk' = [disk EXCEPT ![f] = job[p].part]
            /\ Become(p, [job[p] EXCEPT !.op = "lstat"])
         \/ /\ disk' = [disk EXCEPT ![f] = Absent]
            /\ Become(p, NoRequest)
      /\ quiet' = FALSE
      /\ UNCHANGED <<links, versions, entries, cameras, libMu, scan, scans>>

UploadLstat(p) ==
  LET f == job[p].name
  IN  /\ job[p].op = "lstat"
      /\ Become(p, IF disk[f] = Absent THEN NoRequest
                   ELSE [op |-> "store", name |-> f, stat |-> disk[f], rep |-> job[p].rep])
      /\ UNCHANGED <<diskVars, entries, cameras, libMu, scan, scans, quiet>>

UploadStore(p) ==
  /\ job[p].op = "store"
  /\ Store(job[p].name, [stat |-> job[p].stat, rep |-> job[p].rep, by |-> "upload"])
  /\ Become(p, NoRequest)
  /\ quiet' = FALSE
  /\ UNCHANGED <<diskVars, cameras, libMu, scan, scans>>

(***************************************************************************)
(* The dashboard: addCamera with a libraryId, and deleteFile.              *)
(***************************************************************************)
(* addCamera holds libMu; Library.Refresh looks the entry up,              *)
AddResolve(p, f) ==
  /\ job[p] = NoRequest /\ libMu = None /\ entries[f] # None
  /\ libMu' = p
  /\ Become(p, [op |-> "recheck", name |-> f, entry |-> entries[f]])
  /\ UNCHANGED <<diskVars, entries, cameras, scan, scans, quiet>>

(* and looks at the file: gone, as it was listed, or changed.              *)
AddLstat(p) ==
  LET f == job[p].name
  IN  /\ job[p].op = "recheck"
      /\ \/ disk[f] = Absent /\ Become(p, [op |-> "unlist", name |-> f])
         \/ /\ disk[f] = job[p].entry.stat /\ disk[f] # Absent
            /\ Become(p, [op |-> "add", name |-> f, rep |-> job[p].entry.rep])
         \/ /\ disk[f] \notin {Absent, job[p].entry.stat}
            /\ Become(p, [op |-> "reparse", name |-> f, stat |-> disk[f]])
      /\ UNCHANGED <<diskVars, entries, cameras, libMu, scan, scans, quiet>>

(* The file changed: it is parsed again, unless the request's context ends.*)
AddReparse(p) ==
  /\ job[p].op = "reparse"
  /\ \/ /\ \E rep \in Reports(disk[job[p].name]) :
              Become(p, [op |-> "restore", name |-> job[p].name, stat |-> job[p].stat, rep |-> rep])
        /\ UNCHANGED libMu
     \/ Become(p, NoRequest) /\ libMu' = None
  /\ UNCHANGED <<diskVars, entries, cameras, scan, scans, quiet>>

AddRestore(p) ==
  /\ job[p].op = "restore"
  /\ Store(job[p].name, [stat |-> job[p].stat, rep |-> job[p].rep, by |-> "check"])
  /\ Become(p, [op |-> "add", name |-> job[p].name, rep |-> job[p].rep])
  /\ quiet' = FALSE
  /\ UNCHANGED <<diskVars, cameras, libMu, scan, scans>>

(* Fleet.AddCamera, unless the report is invalid; it may fail by itself.   *)
AddCamera(p) ==
  /\ job[p].op = "add"
  /\ \/ /\ job[p].rep # Unread
        /\ cameras' = cameras \cup {job[p].name}
     \/ UNCHANGED cameras
  /\ libMu' = None
  /\ Become(p, NoRequest)
  /\ UNCHANGED <<diskVars, entries, scan, scans, quiet>>

RemoveCamera(f) ==
  /\ f \in cameras
  /\ cameras' = cameras \ {f}
  /\ UNCHANGED <<diskVars, entries, libMu, job, scan, scans, quiet>>

(* mutant: deleteFile does not take libMu.                                 *)
DeleteCheckUnlocked(p, f) ==
  /\ job[p] = NoRequest /\ entries[f] # None /\ f \notin cameras
  /\ Become(p, [op |-> "delete", name |-> f])
  /\ UNCHANGED <<diskVars, entries, cameras, libMu, scan, scans, quiet>>

(* deleteFile: the file is listed and no camera uses it.                   *)
DeleteCheck(p, f) ==
  /\ job[p] = NoRequest /\ libMu = None /\ entries[f] # None /\ f \notin cameras
  /\ libMu' = p
  /\ Become(p, [op |-> "delete", name |-> f])
  /\ UNCHANGED <<diskVars, entries, cameras, scan, scans, quiet>>

(* Library.Delete: the file, which may be gone already, or an error.       *)
DeleteFile(p) ==
  /\ job[p].op = "delete"
  /\ \/ /\ disk' = [disk EXCEPT ![job[p].name] = Absent]
        /\ Become(p, [job[p] EXCEPT !.op = "unlist"])
        /\ quiet' = FALSE
        /\ UNCHANGED libMu
     \/ /\ libMu' = None
        /\ Become(p, NoRequest)
        /\ UNCHANGED <<disk, quiet>>
  /\ UNCHANGED <<links, versions, entries, cameras, scan, scans>>

(* The entry goes with the file that was deleted, or that Refresh missed.  *)
DeleteEntry(p) ==
  /\ job[p].op = "unlist"
  /\ Store(job[p].name, None)
  /\ libMu' = None
  /\ Become(p, NoRequest)
  /\ quiet' = FALSE
  /\ UNCHANGED <<diskVars, cameras, scan, scans>>

(* Somebody else writes or removes a file.                                 *)
Elsewhere(f) ==
  /\ \/ /\ versions < MaxVersions
        /\ versions' = versions + 1
        /\ disk' = [disk EXCEPT ![f] = versions']
     \/ /\ disk[f] # Absent
        /\ disk' = [disk EXCEPT ![f] = Absent]
        /\ UNCHANGED versions
  /\ quiet' = FALSE
  /\ UNCHANGED <<links, entries, cameras, libMu, job, scan, scans>>

ScanStep ==
  \/ ScanBegin \/ ScanWalked \/ ScanRootGone \/ PruneList \/ Prune \/ ScanCancelled
  \/ \E f \in Files : ScanVisit(f) \/ ScanSkip(f) \/ ScanParse(f) \/ ScanStore(f) \/ PruneLstat(f)

Upload(p) ==
  \/ UploadReceive(p) \/ UploadNext(p) \/ UploadLink(p) \/ UploadReserve(p)
  \/ UploadRename(p) \/ UploadLstat(p) \/ UploadStore(p)

Handler(p) ==
  \/ \E f \in Files : AddResolve(p, f) \/ DeleteCheck(p, f)
  \/ AddLstat(p) \/ AddReparse(p) \/ AddRestore(p) \/ AddCamera(p) \/ DeleteFile(p) \/ DeleteEntry(p)

LibraryNext ==
  \/ ScanStep
  \/ \E p \in Handlers : Upload(p) \/ Handler(p)
  \/ \E f \in Files : RemoveCamera(f) \/ Elsewhere(f)

LibrarySpec == LibraryInit /\ [][LibraryNext]_libraryVars

(***************************************************************************)
(* Properties.                                                             *)
(***************************************************************************)
(* A file that still has the size and mtime it is listed with is the one   *)
(* whose report is listed, when a scan or a re-check made the entry.       *)
ReportOfFile ==
  \A f \in Files :
    (/\ entries[f] # None
     /\ entries[f].by = "check" /\ entries[f].rep # Unread
     /\ entries[f].stat = disk[f])
    => entries[f].rep = disk[f]

(* The dashboard never deletes the file of a camera that was added from    *)
(* the library, however the check, the add and the delete interleave.      *)
DeleteSparesInUse ==
  [][\A p \in Handlers :
       (job[p].op = "delete" /\ job'[p].op = "unlist") => job[p].name \notin cameras']_libraryVars

(* Pruning never drops the entry of a file that is there as it is listed,  *)
(* also when it was uploaded or checked again after the walk; and a scan   *)
(* during which nobody else changed a file or an entry leaves the library  *)
(* listing exactly what is on disk.                                        *)
ScanTruthful ==
  [][scan.stage = "lstat" /\ scan' = NoScan =>
       \A f \in Files :
         /\ entries[f] # None /\ entries[f].stat = disk[f] => entries'[f] = entries[f]
         /\ quiet => IF disk[f] = Absent THEN entries'[f] = None
                     ELSE entries'[f] # None /\ entries'[f].stat = disk[f]]_libraryVars
=============================================================================
