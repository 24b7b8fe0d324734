---------------------------- MODULE FileDeployment ----------------------------
(***************************************************************************)
(* Deployer.Backup, Apply and Rollback on the file system of the host: the *)
(* configuration file of one service, its fixed temporary names, and the   *)
(* backups named after the second in which they are made.                  *)
(*                                                                         *)
(* A name leads to an inode.  Writing through a name that exists truncates *)
(* and fills the inode it leads to, whoever else has it open; a rename     *)
(* moves a name and leaves the inodes alone.  What is written or renamed   *)
(* is safe from a power failure after an fsync, respectively after the     *)
(* file system has committed its directories, which it does in order and   *)
(* at a time of its own.                                                   *)
(***************************************************************************)
EXTENDS Naturals

CONSTANTS
  Job,           \* executions of executeUpdate, each with a staged file of its own
  Exclusive,     \* at most one job works on the service at any time
  Size,          \* the pieces in which a file is copied
  LastSecond,    \* bounds the clock
  Inode,
  NoInode,
  OldConfig,     \* the content of a configuration installed before
  NoConfig,      \* no configuration file, no backup
  Torn           \* part of a file, or pieces of several

ASSUME DeploymentAssumption ==
  /\ Exclusive \in BOOLEAN
  /\ Size \in Nat \ {0}
  /\ LastSecond \in Nat
  /\ Inode # {} /\ NoInode \notin Inode
  /\ OldConfig \notin Job /\ NoConfig \notin Job /\ Torn \notin Job
  /\ OldConfig # NoConfig /\ OldConfig # Torn /\ NoConfig # Torn

VARIABLES
  dir,           \* dir[name]: the inode the name leads to
  disk,          \* the directories as last committed
  data,          \* data[i][p]: the content piece p of inode i is of
  dirty,         \* inodes with data that is not on disk
  clock,         \* the second
  job            \* job[j]: the call and the statement job j stands at

vars == << dir, disk, data, dirty, clock, job >>
fsVars == << dir, disk, data, dirty >>

Second == 0 .. LastSecond
Target == << "target", 0 >>
NewName == << "target.new", 0 >>
RollbackName == << "target.rollback", 0 >>
BackupName(t) == << "backup", t >>
BackupTemp(t) == << "backup.tmp", t >>
Temporary == { NewName, RollbackName } \cup { BackupTemp(t) : t \in Second }
Permanent == { Target } \cup { BackupName(t) : t \in Second }
Name == Temporary \cup Permanent

Piece == 1 .. Size
Content == Job \cup { OldConfig }
Empty == [p \in Piece |-> Torn]
WholeOf(c) == [p \in Piece |-> c]

Read(pieces) ==
  IF \E c \in Content : pieces = WholeOf(c) THEN CHOOSE c \in Content : pieces = WholeOf(c)
                                           ELSE Torn

\* What is read from the inode a name leads to, in directory d.
ContentAt(d, name) == IF d[name] = NoInode THEN NoConfig ELSE Read(data[d[name]])

Call == { "backup", "apply", "applied", "rollback" }
At == { "open", "truncate", "copy", "sync", "sync_name", "rename" }
JobState == [call : Call \cup { "new", "over" }, at : At, done : 0 .. Size, second : Second,
             kept : BOOLEAN, source : Inode \cup {NoInode}, temp : Inode \cup {NoInode}]
NewJob == [call |-> "new", at |-> "open", done |-> 0, second |-> 0, kept |-> FALSE,
           source |-> NoInode, temp |-> NoInode]
EndedJob == [NewJob EXCEPT !.call = "over"]

TypeOK ==
  /\ dir \in [Name -> Inode \cup {NoInode}]
  /\ disk \in [Name -> Inode \cup {NoInode}]
  /\ data \in [Inode -> [Piece -> Content \cup {Torn}]]
  /\ dirty \subseteq Inode
  /\ clock \in Second
  /\ job \in [Job -> JobState]

Init ==
  /\ \E i \in { NoInode, CHOOSE i \in Inode : TRUE } :
       dir = [n \in Name |-> IF n = Target THEN i ELSE NoInode]
  /\ disk = dir
  /\ data = [i \in Inode |-> WholeOf(OldConfig)]
  /\ dirty = {}
  /\ clock = 0
  /\ job = [j \in Job |-> NewJob]

InCall(j, call) == job[j].call = call
Copying(j) == job[j].call \in { "backup", "apply", "rollback" }
Stands(j, at) == Copying(j) /\ job[j].at = at
Active(j) == job[j].call \in Call

Becomes(j, state) == job' = [job EXCEPT ![j] = state]
Goto(j, at) == Becomes(j, [job[j] EXCEPT !.at = at])

\* Mutant: Apply copies straight to its target.
MutantTempName(j) ==
  CASE InCall(j, "backup") -> BackupTemp(job[j].second)
    [] InCall(j, "apply")  -> Target
    [] OTHER               -> RollbackName

\* The name a call copies to, and the one it renames it to.
TempName(j) ==
  CASE InCall(j, "backup") -> BackupTemp(job[j].second)
    [] InCall(j, "apply")  -> NewName
    [] OTHER               -> RollbackName
Destination(j) == IF InCall(j, "backup") THEN BackupName(job[j].second) ELSE Target

Calls(j, call, kept) ==
  Becomes(j, [NewJob EXCEPT !.call = call, !.second = job[j].second, !.kept = kept])
Over(j) == Becomes(j, EndedJob)

\* Where executeUpdate goes after a call that returned nil, or an error.
Succeeds(j) ==
  CASE InCall(j, "backup") -> Calls(j, "apply", TRUE)
    [] InCall(j, "apply")  -> Calls(j, "applied", job[j].kept)
    [] OTHER               -> Over(j)
Fails(j) ==
  IF InCall(j, "apply") /\ job[j].kept THEN Calls(j, "rollback", TRUE) ELSE Over(j)

-----------------------------------------------------------------------------
(* The steps of a job *)

\* Mutant: the time is rounded to the second instead of cut off.
MutantBegin(j) ==
  /\ InCall(j, "new")
  /\ Exclusive => \A k \in Job : ~Active(k)
  /\ \E t \in { clock, clock + 1 } : Becomes(j, [NewJob EXCEPT !.call = "backup", !.second = t])
  /\ UNCHANGED << fsVars, clock >>

\* executeUpdate: the name of the backup is taken from the clock, then Backup
\* is called.
Begin(j) ==
  /\ InCall(j, "new")
  /\ Exclusive => \A k \in Job : ~Active(k)
  /\ Becomes(j, [NewJob EXCEPT !.call = "backup", !.second = clock])
  /\ UNCHANGED << fsVars, clock >>

\* Mutant: Backup makes no new copy when one of its name exists.
MutantOpen(j) ==
  /\ Stands(j, "open")
  /\ LET from == IF InCall(j, "backup") THEN Target ELSE BackupName(job[j].second) IN
       CASE InCall(j, "apply") -> Goto(j, "truncate")
         [] InCall(j, "backup") /\ dir[BackupName(job[j].second)] # NoInode -> Succeeds(j)
         [] ~InCall(j, "apply") /\ dir[from] # NoInode ->
              Becomes(j, [job[j] EXCEPT !.source = dir[from], !.at = "truncate"])
         [] OTHER -> Calls(j, "apply", FALSE)
  /\ UNCHANGED << fsVars, clock >>

\* os.Stat and the os.Open of copyFile.  Without a target there is nothing to
\* back up; without a backup nothing is rolled back.
Open(j) ==
  /\ Stands(j, "open")
  /\ LET from == IF InCall(j, "backup") THEN Target ELSE BackupName(job[j].second) IN
       CASE InCall(j, "apply") -> Goto(j, "truncate")
         [] ~InCall(j, "apply") /\ dir[from] # NoInode ->
              Becomes(j, [job[j] EXCEPT !.source = dir[from], !.at = "truncate"])
         [] InCall(j, "backup") /\ dir[from] = NoInode -> Calls(j, "apply", FALSE)
         [] OTHER -> Over(j)
  /\ UNCHANGED << fsVars, clock >>

\* An inode that no name leads to, on disk or in memory, and nobody has open.
Unused(i) ==
  /\ \A n \in Name : dir[n] # i /\ disk[n] # i
  /\ \A j \in Job : job[j].source # i /\ job[j].temp # i

\* os.OpenFile with O_CREATE and O_TRUNC: the inode the name leads to, or a new
\* one, emptied.
Truncate(j) ==
  /\ Stands(j, "truncate")
  /\ LET found == dir[TempName(j)]
         i == IF found # NoInode THEN found ELSE CHOOSE new \in Inode : Unused(new)
     IN
       /\ found = NoInode => \E new \in Inode : Unused(new)
       /\ dir' = [dir EXCEPT ![TempName(j)] = i]
       /\ data' = [data EXCEPT ![i] = Empty]
       /\ dirty' = dirty \cup {i}
       /\ Becomes(j, [job[j] EXCEPT !.temp = i, !.at = "copy"])
  /\ UNCHANGED << disk, clock >>

\* One round of io.CopyBuffer.
Copy(j) ==
  /\ Stands(j, "copy") /\ job[j].done < Size
  /\ LET p == job[j].done + 1
         from == IF InCall(j, "apply") THEN j ELSE data[job[j].source][p]
     IN  /\ data' = [data EXCEPT ![job[j].temp][p] = from]
         /\ Becomes(j, [job[j] EXCEPT !.done = p, !.at = IF p = Size THEN "sync" ELSE "copy"])
  /\ dirty' = dirty \cup { job[j].temp }
  /\ UNCHANGED << dir, disk, clock >>

\* Mutant: fsync is left out.
MutantFsync(i) == UNCHANGED dirty
Fsync(i) == dirty' = dirty \ {i}

\* The Sync of copyFile, through the open file.
Sync(j) ==
  /\ Stands(j, "sync")
  /\ Fsync(job[j].temp)
  /\ Goto(j, "sync_name")
  /\ UNCHANGED << dir, disk, data, clock >>

\* syncFile, which opens the name again: an error when it has gone.
SyncName(j) ==
  /\ Stands(j, "sync_name")
  /\ IF dir[TempName(j)] = NoInode
     THEN Fails(j) /\ UNCHANGED dirty
     ELSE Fsync(dir[TempName(j)]) /\ Goto(j, "rename")
  /\ UNCHANGED << dir, disk, data, clock >>

\* os.Rename of the temporary name, the end of the call.
Rename(j) ==
  /\ Stands(j, "rename")
  /\ IF dir[TempName(j)] = NoInode
     THEN Fails(j) /\ UNCHANGED dir
     ELSE /\ dir' = [dir EXCEPT ![Destination(j)] = dir[TempName(j)], ![TempName(j)] = NoInode]
          /\ Succeeds(j)
  /\ UNCHANGED << disk, data, dirty, clock >>

\* Any of the calls to the file system returns an error; so may, before Apply,
\* the advance to APPLYING.
Error(j) ==
  /\ Copying(j)
  /\ Fails(j)
  /\ UNCHANGED << fsVars, clock >>

\* With the new configuration in place: restart, health check, and a rollback
\* when they fail and a backup was kept.
Settle(j) ==
  /\ InCall(j, "applied")
  /\ Over(j) \/ (job[j].kept /\ Calls(j, "rollback", TRUE))
  /\ UNCHANGED << fsVars, clock >>

-----------------------------------------------------------------------------
(* The machine *)

\* The worker's process ends; what it has written and renamed stays.
Crash(j) ==
  /\ Active(j)
  /\ Over(j)
  /\ UNCHANGED << fsVars, clock >>

Commit ==
  /\ disk # dir
  /\ disk' = dir
  /\ UNCHANGED << dir, data, dirty, clock, job >>

\* The host goes down: directories as committed, and any data never synced may
\* be lost.
PowerFailure ==
  /\ dir' = disk
  /\ \E lost \in SUBSET dirty : data' = [i \in Inode |-> IF i \in lost THEN Empty ELSE data[i]]
  /\ dirty' = {}
  /\ job' = [j \in Job |-> IF Active(j) THEN EndedJob ELSE job[j]]
  /\ UNCHANGED << disk, clock >>

Tick ==
  /\ clock < LastSecond
  /\ clock' = clock + 1
  /\ UNCHANGED << fsVars, job >>

Next ==
  \/ \E j \in Job :
       \/ Begin(j) \/ Open(j) \/ Truncate(j) \/ Copy(j) \/ Sync(j) \/ SyncName(j) \/ Rename(j)
       \/ Error(j) \/ Settle(j) \/ Crash(j)
  \/ Commit
  \/ PowerFailure
  \/ Tick

Spec == Init /\ [][Next]_vars

-----------------------------------------------------------------------------
(* Properties *)

\* Whoever reads the configuration file, now or after a power failure, reads a
\* whole configuration or none (docs/project.md, "never a half-written config").
NeverHalfWritten ==
  /\ ContentAt(dir, Target) # Torn
  /\ ContentAt(disk, Target) # Torn
  /\ disk[Target] \notin dirty

\* What job j can put back.
Kept(j) ==
  IF job[j].kept THEN ContentAt(dir, BackupName(job[j].second)) ELSE NoConfig

\* One job at a time, its copies, syncs and renames are the single steps of
\* AtomicConfig: it keeps what it is about to replace, installs, restores what
\* it has kept; a power failure brings back what was there before.
Atomic == INSTANCE AtomicConfig WITH
  config <- ContentAt(dir, Target),
  stable <- ContentAt(disk, Target),
  kept   <- [j \in Job |-> Kept(j)]

DeploysAtomically == Atomic!Spec

-----------------------------------------------------------------------------
(* The inductive invariant *)

\* A call that has opened its files has them open.
Writing == { "copy", "sync", "sync_name", "rename" }
HandlesOpen ==
  \A j \in Job : Copying(j) =>
    /\ ~InCall(j, "apply") /\ job[j].at # "open" => job[j].source # NoInode
    /\ job[j].at \in Writing => job[j].temp # NoInode

TypeInv == TypeOK /\ HandlesOpen

OneActive == \A j, k \in Job : Active(j) /\ Active(k) => j = k

\* An inode has one name, and no job can write what a permanent name will lead
\* to after a power failure.
OneName(d) == \A m, n \in Name : m # n /\ d[m] # NoInode => d[m] # d[n]
NamesApart ==
  /\ OneName(dir) /\ OneName(disk)
  /\ \A r \in Permanent, t \in Temporary : disk[r] # NoInode => disk[r] # dir[t]

\* A whole file, safe from a power failure.
Safe(i) == i \notin dirty /\ \E c \in Content : data[i] = WholeOf(c)
PermanentSafe ==
  \A r \in Permanent :
    /\ dir[r] # NoInode => Safe(dir[r])
    /\ disk[r] # NoInode => Safe(disk[r])

\* What the present call of job j copies, and from which name.
Copied(j) == IF InCall(j, "apply") THEN WholeOf(j) ELSE data[job[j].source]
SourceName(j) == IF InCall(j, "backup") THEN Target ELSE BackupName(job[j].second)

\* The copy agrees with its source as far as it has come, and is synced in time.
CopyAsSource(j) ==
  /\ job[j].at \in { "open", "truncate" } => job[j].done = 0
  /\ ~InCall(j, "apply") /\ job[j].at # "open" => job[j].source = dir[SourceName(j)]
  /\ job[j].at \in Writing =>
       /\ job[j].temp = dir[TempName(j)]
       /\ \A p \in 1 .. job[j].done : data[job[j].temp][p] = Copied(j)[p]
  /\ job[j].at \in Writing \ { "copy" } => job[j].done = Size
  /\ job[j].at = "rename" => job[j].temp \notin dirty

\* The backup a job relies on is there, and is what its Apply is to replace.
KeepsBackup(j) ==
  /\ job[j].kept => /\ dir[BackupName(job[j].second)] # NoInode
                    /\ Active(j) /\ ~InCall(j, "backup")
  /\ InCall(j, "rollback") => job[j].kept
  /\ InCall(j, "apply") => Kept(j) = ContentAt(dir, Target)

DeploymentInv ==
  /\ TypeInv
  /\ OneActive
  /\ NamesApart
  /\ PermanentSafe
  /\ \A j \in Job : Copying(j) => CopyAsSource(j)
  /\ \A j \in Job : KeepsBackup(j)
=============================================================================
