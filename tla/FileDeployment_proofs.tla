------------------------- MODULE FileDeployment_proofs -------------------------
(***************************************************************************)
(* Proofs about FileDeployment.                                            *)
(***************************************************************************)
EXTENDS FileDeployment, TLAPS

-----------------------------------------------------------------------------
(* Types *)

\* The states a job is put in are states of a job.
LEMMA JobStates ==
  /\ NewJob \in JobState /\ EndedJob \in JobState
  /\ \A call \in Call, t \in Second, kept \in BOOLEAN :
       [NewJob EXCEPT !.call = call, !.second = t, !.kept = kept] \in JobState
  /\ \A t \in Second : [NewJob EXCEPT !.call = "backup", !.second = t] \in JobState
  /\ \A s \in JobState, at \in At : [s EXCEPT !.at = at] \in JobState
<1>1. 0 \in Second /\ 0 \in 0 .. Size
  BY DeploymentAssumption DEF Second
<1> QED BY <1>1 DEF NewJob, EndedJob, JobState, Call, At

\* A step of one job leaves the others where they stand.
LEMMA OtherJobs ==
  ASSUME job \in [Job -> JobState], NEW j \in Job, NEW s \in JobState, Becomes(j, s)
  PROVE  /\ job' \in [Job -> JobState]
         /\ job'[j] = s
         /\ \A k \in Job : k # j => job'[k] = job[k]
BY DEF Becomes

\* The first state has its types and no open file.
LEMMA TypeInvInit == Init => TypeInv
<1>1. ASSUME Init
      PROVE  TypeOK
  <2>1. 0 \in Second
    BY DeploymentAssumption DEF Second
  <2>2. dir \in [Name -> Inode \cup {NoInode}]
    BY <1>1, DeploymentAssumption DEF Init
  <2>3. data \in [Inode -> [Piece -> Content \cup {Torn}]]
    BY <1>1 DEF Init, WholeOf, Content
  <2> QED BY <1>1, <2>1, <2>2, <2>3, JobStates DEF Init, TypeOK
<1>2. Init => HandlesOpen
  BY DEF Init, HandlesOpen, Copying, NewJob
<1> QED BY <1>1, <1>2 DEF TypeInv

\* A temporary name and a destination of each call.
LEMMA CallNames ==
  ASSUME TypeOK, NEW j \in Job, Copying(j)
  PROVE  /\ TempName(j) \in Temporary /\ TempName(j) \in Name
         /\ Destination(j) \in Permanent /\ Destination(j) \in Name
         /\ SourceName(j) \in Permanent /\ SourceName(j) \in Name
<1>1. job[j].second \in Second
  BY DEF TypeOK, JobState
<1> QED
  BY <1>1 DEF TempName, Destination, SourceName, Temporary, Permanent, Name

\* What a step has to show of the one job it moves.
OpenIn(s) ==
  s.call \in { "backup", "apply", "rollback" } =>
    /\ s.call # "apply" /\ s.at # "open" => s.source # NoInode
    /\ s.at \in Writing => s.temp # NoInode

\* A job that goes on to a well-formed state keeps the types.
LEMMA JobTyped ==
  ASSUME TypeInv, NEW j \in Job, NEW s \in JobState, OpenIn(s), Becomes(j, s)
  PROVE  job' \in [Job -> JobState] /\ HandlesOpen'
<1>1. job \in [Job -> JobState] /\ HandlesOpen
  BY DEF TypeInv, TypeOK
<1>2. /\ job' \in [Job -> JobState]
      /\ job'[j] = s
      /\ \A k \in Job : k # j => job'[k] = job[k]
  BY <1>1, OtherJobs
<1> QED BY <1>1, <1>2 DEF HandlesOpen, OpenIn, Copying, InCall

\* So does one that begins its next call, or ends.
LEMMA JobsTyped ==
  ASSUME TypeInv, NEW j \in Job,
         \/ Over(j)
         \/ \E call \in Call, kept \in BOOLEAN : Calls(j, call, kept)
         \/ Fails(j)
         \/ Succeeds(j)
  PROVE  job' \in [Job -> JobState] /\ HandlesOpen'
<1>1. job[j].second \in Second /\ job[j].kept \in BOOLEAN
  BY DEF TypeInv, TypeOK, JobState
<1>2. ASSUME Over(j)
      PROVE  job' \in [Job -> JobState] /\ HandlesOpen'
  BY <1>2, JobStates, JobTyped DEF Over, OpenIn, EndedJob, NewJob
<1>3. ASSUME NEW call \in Call, NEW kept \in BOOLEAN, Calls(j, call, kept)
      PROVE  job' \in [Job -> JobState] /\ HandlesOpen'
  <2> DEFINE state == [NewJob EXCEPT !.call = call, !.second = job[j].second, !.kept = kept]
  <2>1. state \in JobState
    BY <1>1, JobStates
  <2>2. OpenIn(state)
    BY DEF OpenIn, NewJob, Writing
  <2>3. Becomes(j, state)
    BY <1>3 DEF Calls
  <2> QED BY <2>1, <2>2, <2>3, JobTyped
<1>4. "apply" \in Call /\ "applied" \in Call /\ "rollback" \in Call
  BY DEF Call
<1> QED BY <1>1, <1>2, <1>3, <1>4 DEF Fails, Succeeds

\* Every step keeps the types, with one job at a time or several.
LEMMA TypeInvStep ==
  ASSUME TypeInv, [Next]_vars
  PROVE  TypeInv'
<1>0. /\ dir \in [Name -> Inode \cup {NoInode}]
      /\ disk \in [Name -> Inode \cup {NoInode}]
      /\ data \in [Inode -> [Piece -> Content \cup {Torn}]]
      /\ dirty \subseteq Inode
      /\ clock \in Second
      /\ job \in [Job -> JobState]
      /\ HandlesOpen
  BY DEF TypeInv, TypeOK
\* Steps that leave the files and the clock alone.
<1>1. ASSUME job' \in [Job -> JobState] /\ HandlesOpen', UNCHANGED << fsVars, clock >>
      PROVE  TypeInv'
  BY <1>0, <1>1 DEF TypeInv, TypeOK, fsVars
<1>2. ASSUME NEW j \in Job, Begin(j)
      PROVE  TypeInv'
  <2> DEFINE state == [NewJob EXCEPT !.call = "backup", !.second = clock]
  <2>1. state \in JobState /\ OpenIn(state)
    <3>1. state \in JobState
      BY <1>0, JobStates
    <3>2. OpenIn(state)
      BY DEF OpenIn, NewJob, Writing
    <3> QED BY <3>1, <3>2
  <2>2. Becomes(j, state)
    BY <1>2 DEF Begin
  <2>3. job' \in [Job -> JobState] /\ HandlesOpen'
    BY <2>1, <2>2, JobTyped
  <2> QED BY <1>1, <1>2, <2>3 DEF Begin
<1>3. ASSUME NEW j \in Job, Open(j)
      PROVE  TypeInv'
  <2> DEFINE from == IF InCall(j, "backup") THEN Target ELSE BackupName(job[j].second)
             opened == [job[j] EXCEPT !.source = dir[from], !.at = "truncate"]
             skipped == [job[j] EXCEPT !.at = "truncate"]
  <2>1. from \in Name /\ job[j] \in JobState
    BY <1>0 DEF Name, Permanent, JobState
  <2>2. CASE dir[from] # NoInode /\ Becomes(j, opened)
    <3>1. dir[from] \in Inode \cup {NoInode}
      BY <1>0, <2>1
    <3>2. opened \in JobState /\ OpenIn(opened)
      BY <2>1, <2>2, <3>1 DEF JobState, At, OpenIn, Writing
    <3> QED BY <1>1, <1>3, <2>2, <3>2, JobTyped DEF Open
  <2>3. CASE InCall(j, "apply") /\ Becomes(j, skipped)
    <3>1. skipped \in JobState /\ OpenIn(skipped)
      BY <2>1, <2>3 DEF JobState, At, OpenIn, Writing, InCall
    <3> QED BY <1>1, <1>3, <2>3, <3>1, JobTyped DEF Open
  <2>4. CASE Calls(j, "apply", FALSE) \/ Over(j)
    BY <1>1, <1>3, <2>4, JobsTyped DEF Open, Call
  <2> QED BY <1>3, <2>2, <2>3, <2>4 DEF Open, Goto
<1>4. ASSUME NEW j \in Job, Truncate(j)
      PROVE  TypeInv'
  <2> DEFINE i == IF dir[TempName(j)] # NoInode THEN dir[TempName(j)]
                                                ELSE CHOOSE new \in Inode : Unused(new)
             state == [job[j] EXCEPT !.temp = i, !.at = "copy"]
  <2>1. TempName(j) \in Name /\ Copying(j) /\ job[j].at = "truncate"
    BY <1>4, CallNames DEF Truncate, Stands, TypeInv
  <2>2. i \in Inode
    BY <1>0, <1>4, <2>1 DEF Truncate
  <2>3. /\ dir' = [dir EXCEPT ![TempName(j)] = i]
        /\ data' = [data EXCEPT ![i] = Empty]
        /\ dirty' = dirty \cup {i}
        /\ Becomes(j, state)
        /\ disk' = disk /\ clock' = clock
    BY <1>4 DEF Truncate
  <2> HIDE DEF i
  <2>4. Empty \in [Piece -> Content \cup {Torn}]
    BY DEF Empty
  <2>5. state \in JobState /\ OpenIn(state)
    <3>1. job[j] \in JobState /\ i # NoInode
      BY <1>0, <2>2, DeploymentAssumption
    <3>2. state \in JobState
      BY <2>2, <3>1 DEF JobState, At
    <3>3. OpenIn(state)
      BY <1>0, <2>1, <3>1 DEF HandlesOpen, OpenIn, Writing, Copying, InCall, JobState
    <3> QED BY <3>2, <3>3
  <2>6. job' \in [Job -> JobState] /\ HandlesOpen'
    BY <2>3, <2>5, JobTyped
  <2> QED BY <1>0, <2>2, <2>3, <2>4, <2>6 DEF TypeInv, TypeOK
<1>5. ASSUME NEW j \in Job, Copy(j)
      PROVE  TypeInv'
  <2> DEFINE p == job[j].done + 1
             from == IF InCall(j, "apply") THEN j ELSE data[job[j].source][p]
             state == [job[j] EXCEPT !.done = p, !.at = IF p = Size THEN "sync" ELSE "copy"]
  <2>1. Copying(j) /\ job[j].at = "copy" /\ job[j].done < Size /\ job[j] \in JobState
    BY <1>0, <1>5 DEF Copy, Stands
  <2>2. p \in Piece /\ p \in 0 .. Size
    BY <2>1, DeploymentAssumption DEF JobState, Piece
  <2>3. job[j].temp \in Inode /\ (~InCall(j, "apply") => job[j].source \in Inode)
    BY <1>0, <2>1 DEF HandlesOpen, Writing, JobState
  <2>4. from \in Content \cup {Torn}
    BY <1>0, <2>2, <2>3 DEF Content
  <2>5. /\ data' = [data EXCEPT ![job[j].temp][p] = from]
        /\ Becomes(j, state)
        /\ dirty' = dirty \cup { job[j].temp }
        /\ dir' = dir /\ disk' = disk /\ clock' = clock
    BY <1>5 DEF Copy
  <2>6. state \in JobState /\ OpenIn(state)
    BY <1>0, <2>1, <2>2, <2>3, DeploymentAssumption
    DEF JobState, At, OpenIn, HandlesOpen, Writing, Copying, InCall
  <2>7. job' \in [Job -> JobState] /\ HandlesOpen'
    BY <2>5, <2>6, JobTyped
  <2> HIDE DEF p, from
  <2>8. data' \in [Inode -> [Piece -> Content \cup {Torn}]]
    BY <1>0, <2>2, <2>3, <2>4, <2>5
  <2> QED BY <1>0, <2>3, <2>5, <2>7, <2>8 DEF TypeInv, TypeOK
<1>6. ASSUME NEW j \in Job, NEW at \in Writing, Copying(j), job[j].at \in Writing, Goto(j, at)
      PROVE  job' \in [Job -> JobState] /\ HandlesOpen'
  <2> DEFINE state == [job[j] EXCEPT !.at = at]
  <2>1. at \in At /\ job[j] \in JobState /\ Becomes(j, state)
    BY <1>0, <1>6 DEF Writing, At, Goto
  <2>2. state \in JobState
    BY <2>1, JobStates
  <2>3. OpenIn(state)
    BY <1>0, <1>6, <2>1 DEF HandlesOpen, OpenIn, Writing, Copying, InCall, JobState
  <2> QED BY <2>1, <2>2, <2>3, JobTyped
<1>7. ASSUME NEW j \in Job, Sync(j)
      PROVE  TypeInv'
  <2>1. job' \in [Job -> JobState] /\ HandlesOpen'
    BY <1>6, <1>7 DEF Sync, Stands, Writing
  <2> QED BY <1>0, <1>7, <2>1 DEF Sync, Fsync, TypeInv, TypeOK
<1>8. ASSUME NEW j \in Job, SyncName(j)
      PROVE  TypeInv'
  <2>1. job' \in [Job -> JobState] /\ HandlesOpen'
    BY <1>6, <1>8, JobsTyped DEF SyncName, Stands, Writing
  <2>2. dirty' \subseteq Inode
    BY <1>0, <1>8 DEF SyncName, Fsync
  <2> QED BY <1>0, <1>8, <2>1, <2>2 DEF SyncName, TypeInv, TypeOK
<1>9. ASSUME NEW j \in Job, Rename(j)
      PROVE  TypeInv'
  <2>1. job' \in [Job -> JobState] /\ HandlesOpen'
    BY <1>9, JobsTyped DEF Rename
  <2>2. TempName(j) \in Name
    BY <1>9, CallNames DEF Rename, Stands, TypeInv
  <2>3. dir' \in [Name -> Inode \cup {NoInode}]
    BY <1>0, <1>9, <2>2 DEF Rename
  <2> QED BY <1>0, <1>9, <2>1, <2>3 DEF Rename, TypeInv, TypeOK
<1>10. ASSUME NEW j \in Job, Error(j) \/ Settle(j) \/ Crash(j)
       PROVE  TypeInv'
  <2>1. job' \in [Job -> JobState] /\ HandlesOpen'
    BY <1>10, JobsTyped DEF Error, Settle, Crash, Call
  <2> QED BY <1>1, <1>10, <2>1 DEF Error, Settle, Crash
<1>11. CASE Commit
  BY <1>0, <1>11 DEF Commit, TypeInv, TypeOK, HandlesOpen, Copying, InCall
<1>12. CASE PowerFailure
  <2>1. data' \in [Inode -> [Piece -> Content \cup {Torn}]]
    BY <1>0, <1>12 DEF PowerFailure, Empty
  <2>2. job' \in [Job -> JobState]
    BY <1>0, <1>12, JobStates DEF PowerFailure
  <2>3. HandlesOpen'
    BY <1>0, <1>12 DEF PowerFailure, HandlesOpen, Copying, InCall, EndedJob, NewJob
  <2> QED BY <1>0, <1>12, <2>1, <2>2, <2>3 DEF PowerFailure, TypeInv, TypeOK
<1>13. CASE Tick
  <2>1. clock' \in Second
    BY <1>0, <1>13, DeploymentAssumption DEF Tick, Second
  <2> QED BY <1>0, <1>13, <2>1 DEF Tick, fsVars, TypeInv, TypeOK, HandlesOpen, Copying, InCall
<1>14. CASE UNCHANGED vars
  BY <1>0, <1>14 DEF vars, TypeInv, TypeOK, HandlesOpen, Copying, InCall
<1> QED
  BY <1>2, <1>3, <1>4, <1>5, <1>7, <1>8, <1>9, <1>10, <1>11, <1>12, <1>13, <1>14 DEF Next

\* The state of the file system and of every job is of its type in every
\* behaviour, whether or not one job works at a time.
THEOREM DeploymentTypeCorrect == Spec => []TypeOK
<1>1. TypeInv /\ [Next]_vars => TypeInv'
  BY TypeInvStep
<1>2. TypeInv => TypeOK
  BY DEF TypeInv
<1> QED BY TypeInvInit, <1>1, <1>2, PTL DEF Spec
-----------------------------------------------------------------------------
(* One job at a time: the inductive invariant *)

\* The names are apart, and Target and the backups are permanent ones.
LEMMA Names ==
  /\ Permanent \subseteq Name /\ Temporary \subseteq Name
  /\ \A r \in Permanent, t \in Temporary : r # t
  /\ Target \in Permanent
  /\ \A t \in Second : BackupName(t) \in Permanent /\ BackupName(t) # Target
BY DEF Permanent, Temporary, Name, Target, NewName, RollbackName, BackupName, BackupTemp

\* The invariant holds of a configuration found installed, or of none.
LEMMA InitInv == Init => DeploymentInv
<1> SUFFICES ASSUME Init
             PROVE  DeploymentInv
  OBVIOUS
<1>1. /\ \A n \in Name : n # Target => dir[n] = NoInode
      /\ dir[Target] \in Inode \cup {NoInode}
      /\ disk = dir
      /\ dirty = {}
      /\ data = [i \in Inode |-> WholeOf(OldConfig)]
  BY Names, DeploymentAssumption DEF Init
<1>2. NamesApart
  BY <1>1, Names DEF NamesApart, OneName
<1>3. PermanentSafe
  BY <1>1, Names DEF PermanentSafe, Safe, Content
<1>4. \A j \in Job : job[j].call = "new" /\ ~job[j].kept
  BY DEF Init, NewJob
<1> QED
  BY <1>2, <1>3, <1>4, TypeInvInit
  DEF DeploymentInv, OneActive, Active, Call, Copying, KeepsBackup, InCall

\* While one job works, the others have no call and keep nothing.
LEMMA OthersIdle ==
  ASSUME DeploymentInv, NEW j \in Job, NEW s \in JobState, Becomes(j, s),
         \A k \in Job : k # j => ~Active(k)
  PROVE  /\ job'[j] = s
         /\ \A k \in Job : k # j => job'[k] = job[k]
         /\ OneActive'
         /\ \A k \in Job : k # j => ~Copying(k)' /\ KeepsBackup(k)'
<1>1. /\ job' \in [Job -> JobState]
      /\ job'[j] = s
      /\ \A k \in Job : k # j => job'[k] = job[k]
  BY OtherJobs DEF DeploymentInv, TypeInv, TypeOK
<1>2. \A k \in Job : k # j => ~Active(k)'
  BY <1>1 DEF Active
<1>3. \A k \in Job : k # j => ~job[k].kept /\ job[k].call \notin Call
  BY DEF DeploymentInv, KeepsBackup, Active
<1>4. \A k \in Job : k # j => ~Copying(k)' /\ KeepsBackup(k)'
  BY <1>1, <1>3 DEF Copying, KeepsBackup, InCall, Call
<1> QED BY <1>1, <1>2, <1>4 DEF OneActive

\* What a step of one job has to show.
LEMMA JobStep ==
  ASSUME DeploymentInv, TypeInv', NEW j \in Job, NEW s \in JobState, Becomes(j, s),
         \A k \in Job : k # j => ~Active(k),
         NamesApart', PermanentSafe', Copying(j)' => CopyAsSource(j)', KeepsBackup(j)'
  PROVE  DeploymentInv'
BY OthersIdle DEF DeploymentInv

\* A job that has a call is the only one.
LEMMA AloneActive ==
  ASSUME DeploymentInv, NEW j \in Job, Active(j)
  PROVE  \A k \in Job : k # j => ~Active(k)
BY DEF DeploymentInv, OneActive

\* A job that copies is a job at work.
LEMMA CopyingActive == \A j \in Job : Copying(j) => Active(j)
BY DEF Copying, Active, Call

\* The job goes on with another call, or ends, and the files stay as they are.
LEMMA CallOrOver ==
  ASSUME DeploymentInv, TypeInv', UNCHANGED fsVars, NEW j \in Job, Active(j),
         \/ Over(j)
         \/ Calls(j, "rollback", TRUE) /\ job[j].kept
         \/ /\ Calls(j, "apply", FALSE)
            /\ dir[Target] = NoInode
  PROVE  DeploymentInv'
<1>1. \A k \in Job : k # j => ~Active(k)
  BY AloneActive
<1>2. NamesApart' /\ PermanentSafe'
  BY DEF fsVars, DeploymentInv, NamesApart, OneName, PermanentSafe, Safe
<1>3. job[j].second \in Second /\ job \in [Job -> JobState]
  BY DEF DeploymentInv, TypeInv, TypeOK, JobState
<1>4. CASE Over(j)
  <2>1. job'[j] = EndedJob /\ Becomes(j, EndedJob)
    BY <1>3, <1>4, JobStates, OtherJobs DEF Over
  <2>2. ~Copying(j)' /\ KeepsBackup(j)'
    BY <2>1 DEF Copying, KeepsBackup, InCall, EndedJob, NewJob
  <2> QED BY <1>1, <1>2, <2>1, <2>2, JobStates, JobStep
<1>5. ASSUME NEW call \in {"apply", "rollback"}, NEW kept \in BOOLEAN, Calls(j, call, kept)
      PROVE  \E s \in JobState :
               /\ Becomes(j, s) /\ job'[j] = s
               /\ s.call = call /\ s.at = "open" /\ s.done = 0
               /\ s.second = job[j].second /\ s.kept = kept
  <2> DEFINE s == [NewJob EXCEPT !.call = call, !.second = job[j].second, !.kept = kept]
  <2>1. s \in JobState
    BY <1>3, JobStates DEF Call
  <2>2. Becomes(j, s)
    BY <1>5 DEF Calls
  <2>3. job'[j] = s
    BY <1>3, <2>1, <2>2, OtherJobs
  <2> QED BY <2>1, <2>2, <2>3 DEF NewJob
<1>6. CASE Calls(j, "rollback", TRUE) /\ job[j].kept
  <2>1. PICK s \in JobState :
               /\ Becomes(j, s) /\ job'[j] = s
               /\ s.call = "rollback" /\ s.at = "open" /\ s.done = 0
               /\ s.second = job[j].second /\ s.kept = TRUE
    BY <1>5, <1>6
  <2>2. CopyAsSource(j)'
    BY <2>1 DEF CopyAsSource, InCall, Writing
  <2>3. dir[BackupName(job[j].second)] # NoInode
    BY <1>6 DEF DeploymentInv, KeepsBackup
  <2>4. KeepsBackup(j)'
    BY <2>1, <2>3 DEF KeepsBackup, InCall, Active, Call, fsVars
  <2> QED BY <1>1, <1>2, <2>1, <2>2, <2>4, JobStep
<1>7. CASE Calls(j, "apply", FALSE) /\ dir[Target] = NoInode
  <2>1. PICK s \in JobState :
               /\ Becomes(j, s) /\ job'[j] = s
               /\ s.call = "apply" /\ s.at = "open" /\ s.done = 0
               /\ s.second = job[j].second /\ s.kept = FALSE
    BY <1>5, <1>7
  <2>2. CopyAsSource(j)'
    BY <2>1 DEF CopyAsSource, InCall, Writing
  <2>3. KeepsBackup(j)'
    BY <1>7, <2>1 DEF KeepsBackup, InCall, Kept, ContentAt, fsVars
  <2> QED BY <1>1, <1>2, <2>1, <2>2, <2>3, JobStep
<1> QED BY <1>4, <1>6, <1>7

\* A job may begin where no other is at work.
LEMMA BeginInv ==
  ASSUME DeploymentInv, TypeInv', Exclusive, NEW j \in Job, Begin(j)
  PROVE  DeploymentInv'
<1> DEFINE s == [NewJob EXCEPT !.call = "backup", !.second = clock]
<1>1. /\ \A k \in Job : ~Active(k)
      /\ Becomes(j, s)
      /\ UNCHANGED fsVars
  BY DEF Begin
<1>2. s \in JobState
  BY JobStates DEF DeploymentInv, TypeInv, TypeOK
<1>3. job'[j] = s
  BY <1>1, <1>2, OthersIdle
<1>4. s.call = "backup" /\ s.at = "open" /\ s.done = 0 /\ s.kept = FALSE
  BY DEF NewJob
<1> HIDE DEF s
<1>5. NamesApart' /\ PermanentSafe'
  BY <1>1 DEF fsVars, DeploymentInv, NamesApart, OneName, PermanentSafe, Safe
<1>6. CopyAsSource(j)' /\ KeepsBackup(j)'
  BY <1>3, <1>4 DEF CopyAsSource, KeepsBackup, InCall, Writing
<1> QED BY <1>1, <1>2, <1>5, <1>6, JobStep

\* A step inside a call that keeps what the call is about.
LEMMA SameCall ==
  ASSUME DeploymentInv, NEW j \in Job, Copying(j), NEW s \in JobState, Becomes(j, s),
         s.call = job[j].call, s.second = job[j].second, s.kept = job[j].kept,
         \A r \in Permanent :
           dir'[r] = dir[r] /\ (dir[r] # NoInode => data'[dir[r]] = data[dir[r]])
  PROVE  /\ job'[j] = s
         /\ \A k \in Job : k # j => ~Active(k) /\ job'[k] = job[k]
         /\ \A r \in Permanent : ContentAt(dir, r)' = ContentAt(dir, r)
         /\ KeepsBackup(j)'
<1>1. \A k \in Job : k # j => ~Active(k)
  BY AloneActive, CopyingActive
<1>2. job'[j] = s /\ \A k \in Job : k # j => job'[k] = job[k]
  BY <1>1, OthersIdle
<1>3. \A r \in Permanent : ContentAt(dir, r)' = ContentAt(dir, r)
  BY DEF ContentAt
<1>4. BackupName(job[j].second) \in Permanent /\ Target \in Permanent
  BY Names DEF DeploymentInv, TypeInv, TypeOK, JobState
<1>5. KeepsBackup(j)
  BY DEF DeploymentInv
<1>6. Kept(j)' = Kept(j)
  BY <1>2, <1>3, <1>4 DEF Kept
<1>7. KeepsBackup(j)'
  BY <1>2, <1>3, <1>4, <1>5, <1>6 DEF KeepsBackup, InCall, Active
<1> QED BY <1>1, <1>2, <1>3, <1>7

\* Opening the source, and the early returns of Backup and Rollback.
LEMMA OpenInv ==
  ASSUME DeploymentInv, TypeInv', NEW j \in Job, Open(j)
  PROVE  DeploymentInv'
<1>1. /\ Copying(j) /\ job[j].at = "open" /\ Active(j)
      /\ UNCHANGED fsVars
      /\ job[j] \in JobState
      /\ CopyAsSource(j)
  BY CopyingActive DEF Open, Stands, DeploymentInv, TypeInv, TypeOK
<1>2. NamesApart' /\ PermanentSafe'
  BY <1>1 DEF fsVars, DeploymentInv, NamesApart, OneName, PermanentSafe, Safe
<1>3. ASSUME NEW s \in JobState, Becomes(j, s), s.call = job[j].call,
             s.second = job[j].second, s.kept = job[j].kept,
             s.at = "truncate", s.done = 0,
             InCall(j, "apply") \/ s.source = dir[SourceName(j)]
      PROVE  DeploymentInv'
  <2>1. /\ job'[j] = s /\ KeepsBackup(j)'
        /\ \A k \in Job : k # j => ~Active(k)
    BY <1>1, <1>3, SameCall DEF fsVars
  <2>2. CopyAsSource(j)'
    BY <1>1, <1>3, <2>1 DEF CopyAsSource, SourceName, InCall, Writing, fsVars
  <2> QED BY <1>2, <1>3, <2>1, <2>2, JobStep
<1>4. job[j].done = 0
  BY <1>1 DEF CopyAsSource
<1>5. CASE InCall(j, "apply") /\ Goto(j, "truncate")
  <2>1. [job[j] EXCEPT !.at = "truncate"] \in JobState
    BY <1>1 DEF JobState, At
  <2> QED BY <1>1, <1>3, <1>4, <1>5, <2>1 DEF Goto, JobState
<1>6. ASSUME ~InCall(j, "apply"),
             Becomes(j, [job[j] EXCEPT !.source = dir[SourceName(j)], !.at = "truncate"])
      PROVE  DeploymentInv'
  <2>1. dir[SourceName(j)] \in Inode \cup {NoInode}
    BY <1>1, CallNames DEF DeploymentInv, TypeInv, TypeOK
  <2>2. [job[j] EXCEPT !.source = dir[SourceName(j)], !.at = "truncate"] \in JobState
    BY <1>1, <2>1 DEF JobState, At
  <2> QED BY <1>1, <1>3, <1>4, <1>6, <2>2 DEF JobState
<1>7. CASE Over(j) \/ (Calls(j, "apply", FALSE) /\ dir[Target] = NoInode)
  BY <1>1, <1>7, CallOrOver
<1> QED BY <1>5, <1>6, <1>7 DEF Open, SourceName

\* Only inodes of temporary names are emptied or filled.
LEMMA Writes ==
  ASSUME DeploymentInv, NEW j \in Job, Truncate(j) \/ Copy(j)
  PROVE  /\ \A r \in Permanent :
              /\ dir'[r] = dir[r] /\ disk'[r] = disk[r]
              /\ dir[r] # NoInode =>
                   data'[dir[r]] = data[dir[r]] /\ (dir[r] \in dirty' => dir[r] \in dirty)
              /\ disk[r] # NoInode =>
                   data'[disk[r]] = data[disk[r]] /\ (disk[r] \in dirty' => disk[r] \in dirty)
         /\ NamesApart'
         /\ PermanentSafe'
<1>1. /\ NamesApart /\ PermanentSafe
      /\ dir \in [Name -> Inode \cup {NoInode}]
      /\ data \in [Inode -> [Piece -> Content \cup {Torn}]]
  BY DEF DeploymentInv, TypeInv, TypeOK
<1>2. Copying(j)
  BY DEF Truncate, Copy, Stands
<1>3. TempName(j) \in Temporary /\ TempName(j) \in Name
  BY <1>2, CallNames DEF DeploymentInv, TypeInv
<1>4. ASSUME NEW i \in Inode, disk' = disk, dirty' = dirty \cup {i},
             \A other \in Inode : other # i => data'[other] = data[other],
             dir' = [dir EXCEPT ![TempName(j)] = i],
             dir[TempName(j)] = i \/ \A n \in Name : dir[n] # i /\ disk[n] # i
      PROVE  /\ \A r \in Permanent :
                  /\ dir'[r] = dir[r] /\ disk'[r] = disk[r]
                  /\ dir[r] # NoInode =>
                       data'[dir[r]] = data[dir[r]] /\ (dir[r] \in dirty' => dir[r] \in dirty)
                  /\ disk[r] # NoInode =>
                       data'[disk[r]] = data[disk[r]] /\ (disk[r] \in dirty' => disk[r] \in dirty)
             /\ NamesApart'
             /\ PermanentSafe'
  <2>1. \A r \in Permanent : dir'[r] = dir[r] /\ disk'[r] = disk[r] /\ dir[r] # i /\ disk[r] # i
    BY <1>1, <1>3, <1>4, Names, DeploymentAssumption DEF NamesApart, OneName
  <2>2. \A r \in Permanent :
          /\ dir[r] # NoInode =>
               data'[dir[r]] = data[dir[r]] /\ (dir[r] \in dirty' => dir[r] \in dirty)
          /\ disk[r] # NoInode =>
               data'[disk[r]] = data[disk[r]] /\ (disk[r] \in dirty' => disk[r] \in dirty)
    <3>1. \A r \in Permanent : dir[r] \in Inode \cup {NoInode} /\ disk[r] \in Inode \cup {NoInode}
      BY Names DEF DeploymentInv, TypeInv, TypeOK
    <3> QED BY <1>4, <2>1, <3>1
  <2>3. NamesApart'
    <3>1. OneName(dir')
      BY <1>1, <1>3, <1>4 DEF NamesApart, OneName
    <3>2. \A r \in Permanent, t \in Temporary : disk[r] # NoInode => disk[r] # dir'[t]
      BY <1>1, <1>3, <1>4, <2>1, Names DEF NamesApart
    <3> QED BY <1>1, <1>4, <3>1, <3>2 DEF NamesApart, OneName
  <2>4. PermanentSafe'
    BY <1>1, <2>1, <2>2 DEF PermanentSafe, Safe
  <2> QED BY <2>1, <2>2, <2>3, <2>4
<1>5. CASE Truncate(j)
  <2> DEFINE i == IF dir[TempName(j)] # NoInode THEN dir[TempName(j)]
                                                ELSE CHOOSE new \in Inode : Unused(new)
  <2>1. /\ i \in Inode
        /\ dir[TempName(j)] = i \/ \A n \in Name : dir[n] # i /\ disk[n] # i
    BY <1>1, <1>3, <1>5 DEF Truncate, Unused
  <2>2. /\ dir' = [dir EXCEPT ![TempName(j)] = i]
        /\ data' = [data EXCEPT ![i] = Empty]
        /\ dirty' = dirty \cup {i}
        /\ disk' = disk
    BY <1>5 DEF Truncate
  <2> HIDE DEF i
  <2> QED BY <1>1, <1>4, <2>1, <2>2
<1>6. CASE Copy(j)
  <2>1. job[j].temp = dir[TempName(j)] /\ job[j].temp \in Inode
    BY <1>2, <1>6 DEF Copy, Stands, DeploymentInv, CopyAsSource, Writing, TypeInv, TypeOK,
                      HandlesOpen, JobState
  <2>2. /\ disk' = disk /\ dir' = dir
        /\ dirty' = dirty \cup { job[j].temp }
        /\ \A other \in Inode : other # job[j].temp => data'[other] = data[other]
    BY <1>1, <1>6 DEF Copy
  <2>3. dir' = [dir EXCEPT ![TempName(j)] = job[j].temp]
    BY <1>1, <1>3, <2>1, <2>2
  <2> QED BY <1>4, <2>1, <2>2, <2>3
<1> QED BY <1>5, <1>6

\* The temporary name leads to an inode no permanent name leads to: emptying
\* it harms nobody.
LEMMA TruncateInv ==
  ASSUME DeploymentInv, TypeInv', NEW j \in Job, Truncate(j)
  PROVE  DeploymentInv'
<1> DEFINE i == IF dir[TempName(j)] # NoInode THEN dir[TempName(j)]
                                              ELSE CHOOSE new \in Inode : Unused(new)
           s == [job[j] EXCEPT !.temp = i, !.at = "copy"]
<1>1. /\ Copying(j) /\ job[j].at = "truncate" /\ job[j] \in JobState
      /\ CopyAsSource(j)
      /\ dir \in [Name -> Inode \cup {NoInode}]
  BY DEF Truncate, Stands, DeploymentInv, TypeInv, TypeOK
<1>2. TempName(j) \in Name /\ SourceName(j) \in Permanent
  BY <1>1, CallNames DEF DeploymentInv, TypeInv
<1>3. /\ i \in Inode
      /\ dir' = [dir EXCEPT ![TempName(j)] = i]
      /\ Becomes(j, s)
  BY <1>1, <1>2 DEF Truncate
<1> HIDE DEF i
<1>4. s \in JobState
  BY <1>1, <1>3 DEF JobState, At
<1>5. /\ s.call = job[j].call /\ s.second = job[j].second /\ s.kept = job[j].kept
      /\ s.at = "copy" /\ s.temp = i /\ s.source = job[j].source /\ s.done = job[j].done
  BY <1>1 DEF JobState
<1> HIDE DEF s
<1>6. /\ job'[j] = s /\ KeepsBackup(j)'
      /\ \A k \in Job : k # j => ~Active(k)
  BY <1>1, <1>3, <1>4, <1>5, SameCall, Writes
<1>7. CopyAsSource(j)'
  <2>1. dir'[SourceName(j)] = dir[SourceName(j)]
    BY <1>2, Writes
  <2>2. TempName(j)' = TempName(j) /\ SourceName(j)' = SourceName(j)
    BY <1>5, <1>6 DEF TempName, SourceName, InCall
  <2>3. job[j].done = 0
    BY <1>1 DEF CopyAsSource
  <2> QED
    BY <1>1, <1>2, <1>3, <1>5, <1>6, <2>1, <2>2, <2>3 DEF CopyAsSource, InCall, Writing
<1> QED BY <1>3, <1>4, <1>6, <1>7, Writes, JobStep

\* Another piece of the copy agrees with the source.
LEMMA CopyInv ==
  ASSUME DeploymentInv, TypeInv', NEW j \in Job, Copy(j)
  PROVE  DeploymentInv'
<1> DEFINE p == job[j].done + 1
           from == IF InCall(j, "apply") THEN j ELSE data[job[j].source][p]
           s == [job[j] EXCEPT !.done = p, !.at = IF p = Size THEN "sync" ELSE "copy"]
<1>1. /\ Copying(j) /\ job[j].at = "copy" /\ job[j].done < Size /\ job[j] \in JobState
      /\ CopyAsSource(j)
      /\ dir \in [Name -> Inode \cup {NoInode}]
      /\ data \in [Inode -> [Piece -> Content \cup {Torn}]]
  BY DEF Copy, Stands, DeploymentInv, TypeInv, TypeOK
<1>2. TempName(j) \in Temporary /\ TempName(j) \in Name /\ SourceName(j) \in Permanent
  BY <1>1, CallNames DEF DeploymentInv, TypeInv
<1>3. /\ data' = [data EXCEPT ![job[j].temp][p] = from]
      /\ Becomes(j, s)
      /\ dir' = dir
  BY DEF Copy
<1>4. p \in Piece /\ p \in 0 .. Size /\ p # 0 /\ job[j].done \in Nat
  BY <1>1, DeploymentAssumption DEF JobState, Piece
<1>5. /\ job[j].temp = dir[TempName(j)] /\ job[j].temp \in Inode
      /\ ~InCall(j, "apply") => job[j].source = dir[SourceName(j)] /\ job[j].source \in Inode
  BY <1>1 DEF DeploymentInv, TypeInv, HandlesOpen, CopyAsSource, Writing, JobState
<1>6. ~InCall(j, "apply") => job[j].source # job[j].temp
  BY <1>2, <1>5, Names, DeploymentAssumption DEF DeploymentInv, NamesApart, OneName
<1>7. s \in JobState
  BY <1>1, <1>4 DEF JobState, At
<1>8. /\ s.call = job[j].call /\ s.second = job[j].second /\ s.kept = job[j].kept
      /\ s.at \in { "copy", "sync" } /\ (s.at = "sync" => p = Size)
      /\ s.temp = job[j].temp /\ s.source = job[j].source /\ s.done = p
  BY <1>1 DEF JobState
<1> HIDE DEF s
<1>9. /\ job'[j] = s /\ KeepsBackup(j)'
      /\ \A k \in Job : k # j => ~Active(k)
  BY <1>1, <1>3, <1>7, <1>8, SameCall, Writes
<1>10. CopyAsSource(j)'
  <2>1. TempName(j)' = TempName(j) /\ SourceName(j)' = SourceName(j)
    BY <1>8, <1>9 DEF TempName, SourceName, InCall
  <2>2. Copied(j)' = Copied(j)
    BY <1>1, <1>3, <1>5, <1>6, <1>8, <1>9 DEF Copied, InCall, WholeOf
  <2>3. Copied(j)[p] = from
    BY <1>4 DEF Copied, WholeOf
  <2>4. /\ data'[job[j].temp][p] = from
        /\ \A q \in Piece : q # p => data'[job[j].temp][q] = data[job[j].temp][q]
    BY <1>1, <1>3, <1>4, <1>5
  <2>5. \A q \in 1 .. job[j].done : data[job[j].temp][q] = Copied(j)[q]
    BY <1>1 DEF CopyAsSource, Writing
  <2> HIDE DEF from
  <2>6. \A q \in 1 .. p : data'[job[j].temp][q] = Copied(j)[q]
    <3> TAKE q \in 1 .. p
    <3>1. CASE q = p
      BY <2>3, <2>4, <3>1
    <3>2. CASE q # p
      <4>1. q \in 1 .. job[j].done /\ q \in Piece
        BY <1>4, <3>2, DeploymentAssumption DEF Piece
      <4> QED BY <2>4, <2>5, <3>2, <4>1
    <3> QED BY <3>1, <3>2
  <2> HIDE DEF p
  <2>7. ~InCall(j, "apply")' => job'[j].source = dir'[SourceName(j)]
    BY <1>3, <1>5, <1>8, <1>9 DEF InCall
  <2>8. /\ job'[j].temp = dir'[TempName(j)]
        /\ \A q \in 1 .. job'[j].done : data'[job'[j].temp][q] = Copied(j)'[q]
    BY <1>3, <1>5, <1>8, <1>9, <2>2, <2>6
  <2> QED BY <1>8, <1>9, <2>1, <2>7, <2>8 DEF CopyAsSource, Writing
<1> QED BY <1>3, <1>7, <1>9, <1>10, Writes, JobStep

\* After the fsync of a whole copy its inode is safe.
LEMMA SyncInv ==
  ASSUME DeploymentInv, TypeInv', NEW j \in Job, Sync(j) \/ SyncName(j)
  PROVE  DeploymentInv'
<1>1. /\ Copying(j) /\ job[j].at \in { "sync", "sync_name" } /\ job[j] \in JobState
      /\ CopyAsSource(j)
      /\ UNCHANGED << dir, disk, data >>
  BY DEF Sync, SyncName, Stands, DeploymentInv, TypeInv, TypeOK
<1>2. job[j].temp = dir[TempName(j)] /\ job[j].temp # NoInode /\ job[j].done = Size
  BY <1>1 DEF DeploymentInv, TypeInv, HandlesOpen, CopyAsSource, Writing
<1> DEFINE at == IF job[j].at = "sync" THEN "sync_name" ELSE "rename"
           s == [job[j] EXCEPT !.at = at]
<1>3. Becomes(j, s) /\ dirty' = dirty \ { job[j].temp }
  BY <1>1, <1>2 DEF Sync, SyncName, Stands, Goto, Fsync
<1>4. s \in JobState
  BY <1>1 DEF JobState, At
<1>5. /\ s.call = job[j].call /\ s.second = job[j].second /\ s.kept = job[j].kept
      /\ s.at = at /\ s.temp = job[j].temp /\ s.source = job[j].source /\ s.done = job[j].done
  BY <1>1 DEF JobState
<1> HIDE DEF s
<1>6. /\ job'[j] = s /\ KeepsBackup(j)'
      /\ \A k \in Job : k # j => ~Active(k)
  BY <1>1, <1>3, <1>4, <1>5, SameCall
<1>7. NamesApart' /\ PermanentSafe'
  BY <1>1, <1>3 DEF DeploymentInv, NamesApart, OneName, PermanentSafe, Safe
<1>8. CopyAsSource(j)'
  <2>1. TempName(j)' = TempName(j) /\ SourceName(j)' = SourceName(j) /\ Copied(j)' = Copied(j)
    BY <1>1, <1>5, <1>6 DEF TempName, SourceName, Copied, InCall
  <2> QED
    BY <1>1, <1>2, <1>3, <1>5, <1>6, <2>1 DEF CopyAsSource, InCall, Writing
<1> QED BY <1>3, <1>4, <1>6, <1>7, <1>8, JobStep

\* The file a call is about to rename is the whole of what it copied.
LEMMA CopyWhole ==
  ASSUME DeploymentInv, NEW j \in Job, Stands(j, "rename")
  PROVE  /\ job[j].temp = dir[TempName(j)] /\ job[j].temp \in Inode
         /\ data[job[j].temp] = Copied(j)
         /\ Safe(job[j].temp)
         /\ ~InCall(j, "apply") =>
              dir[SourceName(j)] # NoInode /\ Copied(j) = data[dir[SourceName(j)]]
<1>1. /\ Copying(j) /\ job[j].at = "rename" /\ job[j] \in JobState
      /\ CopyAsSource(j)
      /\ data \in [Inode -> [Piece -> Content \cup {Torn}]]
  BY DEF Stands, DeploymentInv, TypeInv, TypeOK
<1>2. /\ job[j].temp = dir[TempName(j)] /\ job[j].temp \in Inode
      /\ job[j].temp \notin dirty
      /\ ~InCall(j, "apply") => job[j].source = dir[SourceName(j)] /\ job[j].source \in Inode
      /\ \A p \in Piece : data[job[j].temp][p] = Copied(j)[p]
  BY <1>1 DEF DeploymentInv, TypeInv, HandlesOpen, CopyAsSource, Writing, JobState, Piece
<1>3. Copied(j) \in [Piece -> Content \cup {Torn}]
  BY <1>1, <1>2 DEF Copied, WholeOf, Content
<1>4. data[job[j].temp] \in [Piece -> Content \cup {Torn}]
  BY <1>1, <1>2
<1>5. data[job[j].temp] = Copied(j)
  BY <1>2, <1>3, <1>4
<1>6. \E c \in Content : Copied(j) = WholeOf(c)
  <2>1. CASE InCall(j, "apply")
    BY <2>1 DEF Copied, Content
  <2>2. CASE ~InCall(j, "apply")
    BY <1>1, <1>2, <2>2, CallNames, DeploymentAssumption
    DEF DeploymentInv, TypeInv, PermanentSafe, Safe, Copied
  <2> QED BY <2>1, <2>2
<1> QED
  BY <1>2, <1>5, <1>6, DeploymentAssumption DEF Safe, Copied

\* The rename gives a permanent name to a whole and synced inode.
LEMMA RenameInv ==
  ASSUME DeploymentInv, TypeInv', NEW j \in Job, Rename(j)
  PROVE  DeploymentInv'
<1>1. /\ Copying(j) /\ Stands(j, "rename") /\ Active(j) /\ job[j] \in JobState
      /\ job \in [Job -> JobState]
      /\ dir \in [Name -> Inode \cup {NoInode}]
      /\ KeepsBackup(j)
      /\ NamesApart /\ PermanentSafe
  BY CopyingActive DEF Rename, Stands, DeploymentInv, TypeInv, TypeOK
<1>2. /\ TempName(j) \in Temporary /\ TempName(j) \in Name
      /\ Destination(j) \in Permanent /\ Destination(j) \in Name
      /\ Destination(j) # TempName(j)
  BY <1>1, CallNames, Names DEF DeploymentInv, TypeInv
<1>3. /\ dir[TempName(j)] = job[j].temp /\ job[j].temp # NoInode
      /\ Safe(job[j].temp)
      /\ data[job[j].temp] = Copied(j)
      /\ ~InCall(j, "apply") =>
           dir[SourceName(j)] # NoInode /\ Copied(j) = data[dir[SourceName(j)]]
  BY <1>1, CopyWhole, DeploymentAssumption
<1>4. /\ dir' = [dir EXCEPT ![Destination(j)] = dir[TempName(j)], ![TempName(j)] = NoInode]
      /\ Succeeds(j)
      /\ UNCHANGED << disk, data, dirty >>
  BY <1>3 DEF Rename
<1>5. /\ dir'[Destination(j)] = job[j].temp
      /\ dir'[TempName(j)] = NoInode
      /\ \A n \in Name : n # Destination(j) /\ n # TempName(j) => dir'[n] = dir[n]
  BY <1>1, <1>2, <1>3, <1>4
<1>6. NamesApart'
  <2>1. OneName(dir')
    BY <1>1, <1>2, <1>3, <1>5 DEF NamesApart, OneName
  <2>2. \A r \in Permanent, t \in Temporary : disk[r] # NoInode => disk[r] # dir'[t]
    BY <1>1, <1>2, <1>5, Names DEF NamesApart
  <2> QED BY <1>1, <1>4, <2>1, <2>2 DEF NamesApart, OneName
<1>7. PermanentSafe'
  <2>1. \A r \in Permanent : dir'[r] # NoInode => Safe(dir'[r])
    BY <1>1, <1>2, <1>3, <1>5, Names DEF PermanentSafe
  <2> QED BY <1>1, <1>4, <2>1 DEF PermanentSafe, Safe
<1>8. \A k \in Job : k # j => ~Active(k)
  BY <1>1, AloneActive
<1>9. job[j].second \in Second /\ job[j].kept \in BOOLEAN
  BY <1>1 DEF JobState
<1>10. CASE InCall(j, "rollback")
  <2>1. Becomes(j, EndedJob)
    BY <1>4, <1>10 DEF Succeeds, Over, InCall
  <2>2. job'[j] = EndedJob
    BY <1>1, <2>1, JobStates, OtherJobs
  <2>3. ~Copying(j)' /\ KeepsBackup(j)'
    BY <2>2 DEF Copying, KeepsBackup, InCall, EndedJob, NewJob
  <2> QED BY <1>6, <1>7, <1>8, <2>1, <2>3, JobStates, JobStep
<1>11. ASSUME NEW call \in {"apply", "applied"}, NEW kept \in BOOLEAN, Calls(j, call, kept)
       PROVE  \E s \in JobState :
                /\ Becomes(j, s) /\ job'[j] = s
                /\ s.call = call /\ s.at = "open" /\ s.done = 0
                /\ s.second = job[j].second /\ s.kept = kept
  <2> DEFINE s == [NewJob EXCEPT !.call = call, !.second = job[j].second, !.kept = kept]
  <2>1. s \in JobState
    BY <1>9, JobStates DEF Call
  <2>2. Becomes(j, s)
    BY <1>11 DEF Calls
  <2>3. job'[j] = s
    BY <1>1, <2>1, <2>2, OtherJobs
  <2> QED BY <2>1, <2>2, <2>3 DEF NewJob
<1>12. CASE InCall(j, "backup")
  <2> Calls(j, "apply", TRUE)
    BY <1>4, <1>12 DEF Succeeds, InCall, Calls
  <2>1. PICK s \in JobState :
          /\ Becomes(j, s) /\ job'[j] = s
          /\ s.call = "apply" /\ s.at = "open" /\ s.done = 0
          /\ s.second = job[j].second /\ s.kept = TRUE
    BY <1>11
  <2>2. CopyAsSource(j)'
    BY <2>1 DEF CopyAsSource, InCall, Writing
  <2>3. Destination(j) = BackupName(job[j].second) /\ SourceName(j) = Target
    BY <1>12 DEF Destination, SourceName
  <2>4. dir'[Target] = dir[Target] /\ dir[Target] # NoInode /\ data[dir[Target]] = data[job[j].temp]
    BY <1>2, <1>3, <1>5, <1>9, <1>12, <2>3, Names DEF InCall
  <2>5. Kept(j)' = ContentAt(dir, Target)'
    BY <1>3, <1>4, <1>5, <2>1, <2>3, <2>4 DEF Kept, ContentAt
  <2>6. KeepsBackup(j)'
    BY <1>3, <1>5, <2>1, <2>3, <2>5 DEF KeepsBackup, InCall, Active, Call
  <2> QED BY <1>6, <1>7, <1>8, <2>1, <2>2, <2>6, JobStep
<1>13. CASE InCall(j, "apply")
  <2>1. PICK s \in JobState :
          /\ Becomes(j, s) /\ job'[j] = s
          /\ s.call = "applied" /\ s.at = "open" /\ s.done = 0
          /\ s.second = job[j].second /\ s.kept = job[j].kept
    BY <1>4, <1>9, <1>11, <1>13 DEF Succeeds, InCall
  <2>2. ~Copying(j)'
    BY <2>1 DEF Copying
  <2>3. dir'[BackupName(job[j].second)] = dir[BackupName(job[j].second)]
    BY <1>2, <1>5, <1>9, <1>13, Names DEF Destination, InCall
  <2>4. KeepsBackup(j)'
    BY <1>1, <2>1, <2>3 DEF KeepsBackup, InCall, Active, Call
  <2> QED BY <1>6, <1>7, <1>8, <2>1, <2>2, <2>4, JobStep
<1> QED BY <1>1, <1>10, <1>12, <1>13 DEF Copying, InCall

\* The invariant is inductive when jobs exclude each other.
LEMMA DeploymentInvStep ==
  ASSUME Exclusive, DeploymentInv, [Next]_vars
  PROVE  DeploymentInv'
<1>1. TypeInv'
  BY TypeInvStep DEF DeploymentInv
<1>2. ASSUME NEW j \in Job, Error(j) \/ Settle(j) \/ Crash(j)
      PROVE  DeploymentInv'
  <2>1. Active(j) /\ UNCHANGED fsVars
    BY <1>2, CopyingActive DEF Error, Settle, Crash, Active, InCall, Call
  <2>2. Over(j) \/ (Calls(j, "rollback", TRUE) /\ job[j].kept)
    BY <1>2 DEF Error, Settle, Crash, Fails
  <2> QED BY <1>1, <2>1, <2>2, CallOrOver
<1>3. CASE Commit
  <2>1. disk' = dir /\ UNCHANGED << dir, data, dirty, job >>
    BY <1>3 DEF Commit
  <2>2. NamesApart'
    BY <2>1, Names DEF DeploymentInv, NamesApart, OneName
  <2>3. PermanentSafe'
    BY <2>1 DEF DeploymentInv, PermanentSafe, Safe
  <2>4. (\A j \in Job : Copying(j) => CopyAsSource(j))'
    BY <2>1 DEF DeploymentInv, Copying, CopyAsSource, Copied, SourceName, TempName, InCall
  <2>5. OneActive' /\ (\A j \in Job : KeepsBackup(j))'
    BY <2>1 DEF DeploymentInv, OneActive, Active, KeepsBackup, Kept, ContentAt, InCall
  <2> QED BY <1>1, <2>2, <2>3, <2>4, <2>5 DEF DeploymentInv
<1>4. CASE PowerFailure
  <2>1. \A r \in Permanent : disk[r] # NoInode => disk[r] \in Inode /\ Safe(disk[r])
    BY Names DEF DeploymentInv, TypeInv, TypeOK, PermanentSafe
  <2>2. \A r \in Permanent : disk[r] # NoInode => Safe(disk[r])'
    BY <1>4, <2>1 DEF PowerFailure, Safe
  <2>3. dir' = disk /\ disk' = disk
    BY <1>4 DEF PowerFailure
  <2>4. PermanentSafe'
    BY <2>2, <2>3 DEF PermanentSafe, Safe
  <2>5. NamesApart'
    BY <2>3, Names DEF DeploymentInv, NamesApart, OneName
  <2>6. \A j \in Job : job'[j].call \notin Call /\ ~job'[j].kept
    BY <1>4 DEF PowerFailure, EndedJob, NewJob, Active, Call, DeploymentInv, KeepsBackup
  <2> QED
    BY <1>1, <2>4, <2>5, <2>6
    DEF DeploymentInv, OneActive, Active, Copying, Call, KeepsBackup, InCall
<1>5. CASE Tick \/ UNCHANGED vars
  BY <1>1, <1>5
  DEF Tick, vars, fsVars, DeploymentInv, OneActive, Active, NamesApart, OneName, PermanentSafe,
      Safe, Copying, CopyAsSource, Copied, SourceName, TempName, KeepsBackup, Kept, ContentAt,
      InCall
<1> QED
  BY <1>1, <1>2, <1>3, <1>4, <1>5, BeginInv, OpenInv, TruncateInv, CopyInv, SyncInv, RenameInv
  DEF Next

\* What is read is whole.
LEMMA ReadWhole ==
  \A c \in Content : Read(WholeOf(c)) = c /\ c # Torn /\ c # NoConfig
<1> TAKE c \in Content
<1>1. 1 \in Piece
  BY DeploymentAssumption DEF Piece
<1>2. \A other \in Content : WholeOf(other) = WholeOf(c) => other = c
  BY <1>1, Zenon DEF WholeOf
<1> QED BY <1>2, DeploymentAssumption DEF Read, Content

\* With one job at a time on a service, nobody ever finds half a configuration,
\* not even after a power failure: every copy goes to a name of its own and is
\* synced before the rename.
THEOREM NoHalfWrittenConfig ==
  ASSUME Exclusive
  PROVE  Spec => []NeverHalfWritten
<1>1. DeploymentInv => NeverHalfWritten
  <2> SUFFICES ASSUME DeploymentInv
               PROVE  NeverHalfWritten
    OBVIOUS
  <2>1. /\ dir[Target] # NoInode => Safe(dir[Target])
        /\ disk[Target] # NoInode => Safe(disk[Target])
    BY Names DEF DeploymentInv, PermanentSafe
  <2>2. ContentAt(dir, Target) # Torn /\ ContentAt(disk, Target) # Torn
    BY <2>1, ReadWhole, DeploymentAssumption DEF Safe, ContentAt
  <2>3. disk[Target] \notin dirty
    BY <2>1, DeploymentAssumption DEF Safe, DeploymentInv, TypeInv, TypeOK
  <2> QED BY <2>2, <2>3 DEF NeverHalfWritten
<1>2. DeploymentInv /\ [Next]_vars => DeploymentInv'
  BY DeploymentInvStep
<1> QED BY InitInv, <1>1, <1>2, PTL DEF Spec

-----------------------------------------------------------------------------
(* One job at a time: the refinement *)

\* The first state is one of AtomicConfig.
LEMMA InitAtomic == Init => Atomic!Init
<1> SUFFICES ASSUME Init
             PROVE  Atomic!Init
  OBVIOUS
<1>1. disk = dir /\ data = [i \in Inode |-> WholeOf(OldConfig)]
      /\ dir[Target] \in Inode \cup {NoInode}
  BY Names, DeploymentAssumption DEF Init
<1>2. ContentAt(dir, Target) \in { OldConfig, NoConfig }
  BY <1>1, ReadWhole DEF ContentAt, Content
<1>3. ContentAt(disk, Target) = ContentAt(dir, Target)
  BY <1>1
<1>4. \A j \in Job : Kept(j) = NoConfig
  BY DEF Init, NewJob, Kept
<1> QED BY <1>2, <1>3, <1>4 DEF Atomic!Init

\* What is in the files, as AtomicConfig sees it.
Unread == /\ ContentAt(dir, Target)' = ContentAt(dir, Target)
          /\ ContentAt(disk, Target)' = ContentAt(disk, Target)

\* A job that is not at work keeps nothing.
LEMMA KeptByActive ==
  ASSUME DeploymentInv, NEW j \in Job, ~Active(j)
  PROVE  Kept(j) = NoConfig
BY DEF DeploymentInv, KeepsBackup, Kept

\* The other jobs keep nothing, before or after.
LEMMA OthersKeepNothing ==
  ASSUME DeploymentInv, NEW j \in Job, NEW s \in JobState, Becomes(j, s),
         \A k \in Job : k # j => ~Active(k)
  PROVE  \A k \in Job : k # j => Kept(k) = NoConfig /\ Kept(k)' = NoConfig
<1>1. \A k \in Job : k # j => ~job[k].kept /\ job'[k] = job[k]
  BY OthersIdle DEF DeploymentInv, KeepsBackup
<1> QED BY <1>1 DEF Kept

\* A job that ends forgets, one that goes on with the backup it has does not.
LEMMA OverOrOn ==
  ASSUME DeploymentInv, UNCHANGED fsVars, NEW j \in Job, NEW s \in JobState, Becomes(j, s),
         \A k \in Job : k # j => ~Active(k),
         \/ ~s.kept
         \/ s.kept /\ job[j].kept /\ s.second = job[j].second
  PROVE  [Atomic!Next]_(Atomic!vars)
<1> DEFINE K == [k \in Job |-> Kept(k)]
<1>1. job'[j] = s
  BY OthersIdle
<1>2. Unread
  BY DEF Unread, ContentAt, fsVars
<1>3. \A k \in Job : k # j => Kept(k)' = Kept(k)
  BY OthersKeepNothing
<1>4. CASE ~s.kept
  <2>1. Kept(j)' = NoConfig
    BY <1>1, <1>4 DEF Kept
  <2>2. K' = [K EXCEPT ![j] = NoConfig]
    BY <1>3, <2>1
  <2>3. Atomic!Forget(j)
    BY <1>2, <2>2 DEF Atomic!Forget, Unread
  <2> QED BY <2>3 DEF Atomic!Next
<1>5. CASE s.kept /\ job[j].kept /\ s.second = job[j].second
  <2>1. Kept(j)' = Kept(j)
    BY <1>1, <1>5 DEF Kept, ContentAt, fsVars
  <2>2. K' = K
    BY <1>3, <2>1
  <2> QED BY <1>2, <2>2 DEF Atomic!vars, Unread
<1> QED BY <1>4, <1>5

\* Every step is a step of AtomicConfig or changes nothing it knows of.
LEMMA StepAtomic ==
  ASSUME Exclusive, DeploymentInv, [Next]_vars
  PROVE  [Atomic!Next]_(Atomic!vars)
<1> DEFINE K == [k \in Job |-> Kept(k)]
<1>0. job \in [Job -> JobState] /\ clock \in Second
  BY DEF DeploymentInv, TypeInv, TypeOK
<1>1. ASSUME NEW j \in Job, Begin(j)
      PROVE  [Atomic!Next]_(Atomic!vars)
  <2> DEFINE s == [NewJob EXCEPT !.call = "backup", !.second = clock]
  <2>1. s \in JobState /\ ~s.kept
    BY <1>0, JobStates DEF NewJob
  <2>2. Becomes(j, s) /\ UNCHANGED fsVars /\ \A k \in Job : ~Active(k)
    BY <1>1 DEF Begin
  <2> QED BY <2>1, <2>2, OverOrOn
<1>2. ASSUME NEW j \in Job, Active(j), UNCHANGED fsVars,
             \/ Over(j)
             \/ Calls(j, "rollback", TRUE) /\ job[j].kept
             \/ Calls(j, "apply", FALSE)
      PROVE  [Atomic!Next]_(Atomic!vars)
  <2>1. \A k \in Job : k # j => ~Active(k)
    BY <1>2, AloneActive
  <2>2. job[j].second \in Second
    BY <1>0 DEF JobState
  <2>3. CASE Over(j)
    BY <1>2, <2>1, <2>3, JobStates, OverOrOn DEF Over, EndedJob, NewJob
  <2>4. ASSUME NEW call \in Call, NEW kept \in BOOLEAN, Calls(j, call, kept),
               kept => job[j].kept
        PROVE  [Atomic!Next]_(Atomic!vars)
    <3> DEFINE s == [NewJob EXCEPT !.call = call, !.second = job[j].second, !.kept = kept]
    <3>1. s \in JobState
      BY <2>2, JobStates
    <3>2. s.kept = kept /\ s.second = job[j].second
      BY DEF NewJob
    <3>3. Becomes(j, s)
      BY <2>4 DEF Calls
    <3> QED BY <1>2, <2>1, <2>4, <3>1, <3>2, <3>3, OverOrOn
  <2>5. CASE Calls(j, "rollback", TRUE) /\ job[j].kept
    <3>1. "rollback" \in Call
      BY DEF Call
    <3> QED BY <2>4, <2>5, <3>1
  <2>6. CASE Calls(j, "apply", FALSE)
    <3>1. "apply" \in Call
      BY DEF Call
    <3> QED BY <2>4, <2>6, <3>1
  <2> QED BY <1>2, <2>3, <2>5, <2>6
\* Inside a call.
<1>3. ASSUME NEW j \in Job, Copying(j), NEW s \in JobState, Becomes(j, s),
             s.call = job[j].call, s.second = job[j].second, s.kept = job[j].kept,
             \A r \in Permanent :
               /\ dir'[r] = dir[r] /\ (dir[r] # NoInode => data'[dir[r]] = data[dir[r]])
               /\ disk'[r] = disk[r] /\ (disk[r] # NoInode => data'[disk[r]] = data[disk[r]])
      PROVE  [Atomic!Next]_(Atomic!vars)
  <2>1. /\ job'[j] = s
        /\ \A k \in Job : k # j => ~Active(k)
        /\ \A r \in Permanent : ContentAt(dir, r)' = ContentAt(dir, r)
    BY <1>3, SameCall
  <2>2. ContentAt(disk, Target)' = ContentAt(disk, Target)
    BY <1>3, Names DEF ContentAt
  <2>3. BackupName(job[j].second) \in Permanent
    BY <1>0, Names DEF JobState
  <2>4. Kept(j)' = Kept(j)
    BY <1>3, <2>1, <2>3 DEF Kept
  <2>5. K' = K
    BY <1>3, <2>1, <2>4, OthersKeepNothing
  <2> QED BY <2>1, <2>2, <2>5, Names DEF Atomic!vars
<1>4. ASSUME NEW j \in Job, Open(j)
      PROVE  [Atomic!Next]_(Atomic!vars)
  <2>1. Copying(j) /\ Active(j) /\ UNCHANGED fsVars /\ job[j] \in JobState
    BY <1>0, <1>4, CopyingActive DEF Open, Stands
  <2>2. CASE Over(j) \/ Calls(j, "apply", FALSE)
    BY <1>2, <2>1, <2>2
  <2>3. CASE Goto(j, "truncate")
    <3>1. [job[j] EXCEPT !.at = "truncate"] \in JobState
      BY <2>1 DEF JobState, At
    <3> QED BY <1>3, <2>1, <2>3, <3>1 DEF Goto, JobState, fsVars
  <2>4. CASE Becomes(j, [job[j] EXCEPT !.source = dir[SourceName(j)], !.at = "truncate"])
    <3>1. dir[SourceName(j)] \in Inode \cup {NoInode}
      BY <2>1, CallNames DEF DeploymentInv, TypeInv, TypeOK
    <3>2. [job[j] EXCEPT !.source = dir[SourceName(j)], !.at = "truncate"] \in JobState
      BY <2>1, <3>1 DEF JobState, At
    <3> QED BY <1>3, <2>1, <2>4, <3>2 DEF JobState, fsVars
  <2> QED BY <1>4, <2>2, <2>3, <2>4 DEF Open, SourceName
<1>5. ASSUME NEW j \in Job, Truncate(j)
      PROVE  [Atomic!Next]_(Atomic!vars)
  <2> DEFINE i == IF dir[TempName(j)] # NoInode THEN dir[TempName(j)]
                                                ELSE CHOOSE new \in Inode : Unused(new)
             s == [job[j] EXCEPT !.temp = i, !.at = "copy"]
  <2>1. Copying(j) /\ job[j] \in JobState /\ Becomes(j, s)
    BY <1>0, <1>5 DEF Truncate, Stands
  <2>2. dir[TempName(j)] \in Inode \cup {NoInode}
    BY <2>1, CallNames DEF DeploymentInv, TypeInv, TypeOK
  <2>3. i \in Inode
    BY <1>5, <2>2 DEF Truncate
  <2> HIDE DEF i
  <2>4. s \in JobState /\ s.call = job[j].call /\ s.second = job[j].second /\ s.kept = job[j].kept
    BY <2>1, <2>3 DEF JobState, At
  <2> QED BY <1>3, <1>5, <2>1, <2>4, Writes
<1>6. ASSUME NEW j \in Job, Copy(j)
      PROVE  [Atomic!Next]_(Atomic!vars)
  <2> DEFINE p == job[j].done + 1
             s == [job[j] EXCEPT !.done = p, !.at = IF p = Size THEN "sync" ELSE "copy"]
  <2>1. Copying(j) /\ job[j] \in JobState /\ job[j].done < Size /\ Becomes(j, s)
    BY <1>0, <1>6 DEF Copy, Stands
  <2>2. p \in 0 .. Size
    BY <2>1, DeploymentAssumption DEF JobState
  <2>3. s \in JobState /\ s.call = job[j].call /\ s.second = job[j].second /\ s.kept = job[j].kept
    BY <2>1, <2>2 DEF JobState, At
  <2> QED BY <1>3, <1>6, <2>1, <2>3, Writes
<1>7. ASSUME NEW j \in Job, Sync(j) \/ SyncName(j)
      PROVE  [Atomic!Next]_(Atomic!vars)
  <2>1. /\ Copying(j) /\ Active(j) /\ job[j] \in JobState
        /\ UNCHANGED << dir, disk, data >>
        /\ dir[TempName(j)] # NoInode
    BY <1>0, <1>7, CopyingActive
    DEF Sync, SyncName, Stands, DeploymentInv, TypeInv, HandlesOpen, CopyAsSource, Writing
  <2> DEFINE s == [job[j] EXCEPT !.at = IF job[j].at = "sync" THEN "sync_name" ELSE "rename"]
  <2>2. Becomes(j, s)
    BY <1>7, <2>1 DEF Sync, SyncName, Stands, Goto
  <2>3. s \in JobState /\ s.call = job[j].call /\ s.second = job[j].second /\ s.kept = job[j].kept
    BY <2>1 DEF JobState, At
  <2> HIDE DEF s
  <2> QED BY <1>3, <2>1, <2>2, <2>3
<1>8. ASSUME NEW j \in Job, Rename(j)
      PROVE  [Atomic!Next]_(Atomic!vars)
  <2>1. /\ Copying(j) /\ Stands(j, "rename") /\ Active(j) /\ job[j] \in JobState
        /\ dir \in [Name -> Inode \cup {NoInode}]
        /\ KeepsBackup(j)
    BY <1>0, <1>8, CopyingActive DEF Rename, Stands, DeploymentInv, TypeInv, TypeOK
  <2>2. /\ TempName(j) \in Temporary /\ TempName(j) \in Name
        /\ Destination(j) \in Permanent /\ Destination(j) \in Name
        /\ SourceName(j) \in Permanent
    BY <2>1, CallNames DEF DeploymentInv, TypeInv
  <2>3. /\ dir[TempName(j)] = job[j].temp /\ job[j].temp # NoInode
        /\ data[job[j].temp] = Copied(j)
        /\ ~InCall(j, "apply") =>
             dir[SourceName(j)] # NoInode /\ Copied(j) = data[dir[SourceName(j)]]
    BY <2>1, CopyWhole, DeploymentAssumption
  <2>4. /\ dir' = [dir EXCEPT ![Destination(j)] = dir[TempName(j)], ![TempName(j)] = NoInode]
        /\ Succeeds(j)
        /\ UNCHANGED << disk, data, dirty >>
    BY <1>8, <2>3 DEF Rename
  <2>5. /\ dir'[Destination(j)] = job[j].temp
        /\ \A n \in Permanent : n # Destination(j) => dir'[n] = dir[n]
    BY <2>1, <2>2, <2>3, <2>4, Names
  <2>6. /\ \A n \in Permanent : ContentAt(dir, n)' = IF n = Destination(j) THEN Read(Copied(j))
                                                    ELSE ContentAt(dir, n)
        /\ ContentAt(disk, Target)' = ContentAt(disk, Target)
        /\ ~InCall(j, "apply") => /\ ContentAt(dir, SourceName(j)) = Read(Copied(j))
                                  /\ Read(Copied(j)) # NoConfig
    <3>1. \A n \in Permanent : ContentAt(dir, n)' = IF dir'[n] = NoInode THEN NoConfig
                                                                         ELSE Read(data[dir'[n]])
      BY <2>4 DEF ContentAt
    <3>2. ~InCall(j, "apply") => Safe(dir[SourceName(j)])
      BY <2>2, <2>3 DEF DeploymentInv, PermanentSafe
    <3>3. \A n \in Permanent : dir'[n] = IF n = Destination(j) THEN job[j].temp ELSE dir[n]
      BY <2>2, <2>5
    <3>4. \A n \in Permanent : ContentAt(dir, n)' = IF n = Destination(j) THEN Read(Copied(j))
                                                    ELSE ContentAt(dir, n)
      BY <2>3, <3>1, <3>3 DEF ContentAt
    <3>5. ContentAt(disk, Target)' = ContentAt(disk, Target)
      BY <2>4 DEF ContentAt
    <3>6. ~InCall(j, "apply") => /\ ContentAt(dir, SourceName(j)) = Read(Copied(j))
                                 /\ Read(Copied(j)) # NoConfig
      BY <2>3, <3>2, ReadWhole DEF ContentAt, Safe
    <3> QED BY <3>4, <3>5, <3>6
  <2>7. \A k \in Job : k # j => ~Active(k)
    BY <2>1, AloneActive
  <2>8. job[j].second \in Second /\ job[j].kept \in BOOLEAN
    BY <2>1 DEF JobState
  <2>9. PICK Back \in Permanent : Back = BackupName(job[j].second) /\ Back # Target
    BY <2>8, Names
  <2> Target \in Permanent
    BY Names
  <2>10. CASE InCall(j, "backup")
    <3> DEFINE s == [NewJob EXCEPT !.call = "apply", !.second = job[j].second, !.kept = TRUE]
    <3>1. Becomes(j, s)
      BY <2>4, <2>10 DEF Succeeds, InCall, Calls
    <3>2. s \in JobState /\ s.kept = TRUE /\ s.second = job[j].second
      BY <2>8, JobStates DEF Call, NewJob
    <3> HIDE DEF s
    <3>3. job'[j] = s /\ \A k \in Job : k # j => Kept(k)' = Kept(k)
      BY <2>7, <3>1, <3>2, OthersIdle, OthersKeepNothing
    <3>4. Destination(j) = Back /\ SourceName(j) = Target
      BY <2>9, <2>10 DEF Destination, SourceName
    <3>5. /\ ContentAt(dir, Target)' = ContentAt(dir, Target)
          /\ ContentAt(dir, Target) # NoConfig
          /\ ContentAt(dir, Back)' = ContentAt(dir, Target)
      BY <2>6, <2>9, <2>10, <3>4 DEF InCall
    <3>6. Kept(j)' = ContentAt(dir, Target)
      BY <2>9, <3>2, <3>3, <3>5 DEF Kept
    <3>7. K' = [K EXCEPT ![j] = ContentAt(dir, Target)]
      BY <3>3, <3>6
    <3>8. Atomic!Keep(j)
      BY <2>6, <3>5, <3>7 DEF Atomic!Keep
    <3> QED BY <3>8 DEF Atomic!Next
  <2>11. CASE InCall(j, "apply")
    <3> DEFINE s == [NewJob EXCEPT !.call = "applied", !.second = job[j].second,
                                   !.kept = job[j].kept]
    <3>1. Becomes(j, s)
      BY <2>4, <2>11 DEF Succeeds, InCall, Calls
    <3>2. s \in JobState /\ s.kept = job[j].kept /\ s.second = job[j].second
      BY <2>8, JobStates DEF Call, NewJob
    <3> HIDE DEF s
    <3>3. job'[j] = s /\ \A k \in Job : k # j => Kept(k)' = Kept(k)
      BY <2>7, <3>1, <3>2, OthersIdle, OthersKeepNothing
    <3>4. Destination(j) = Target
      BY <2>11 DEF Destination, InCall
    <3>5. ContentAt(dir, Target)' = j
      <4>1. Read(Copied(j)) = j
        BY <2>11, ReadWhole DEF Copied, Content
      <4> QED BY <2>6, <3>4, <4>1
    <3>6. Kept(j)' = Kept(j)
      BY <2>6, <2>9, <3>2, <3>3, <3>4 DEF Kept
    <3>7. K' = K
      BY <3>3, <3>6
    <3>8. K[j] = ContentAt(dir, Target)
      BY <2>1, <2>11 DEF KeepsBackup
    <3>9. Atomic!Install(j)
      BY <2>6, <3>5, <3>7, <3>8 DEF Atomic!Install, Atomic!Becomes
    <3> QED BY <3>9 DEF Atomic!Next
  <2>12. CASE InCall(j, "rollback")
    <3>1. Becomes(j, EndedJob)
      BY <2>4, <2>12 DEF Succeeds, InCall, Over
    <3>2. ~EndedJob.kept
      BY DEF EndedJob, NewJob
    <3>3. job'[j] = EndedJob /\ \A k \in Job : k # j => Kept(k)' = Kept(k)
      BY <2>7, <3>1, JobStates, OthersIdle, OthersKeepNothing
    <3>4. Destination(j) = Target /\ SourceName(j) = Back
      BY <2>9, <2>12 DEF Destination, SourceName, InCall
    <3>5. Kept(j) = ContentAt(dir, Back) /\ Kept(j) # NoConfig
      BY <2>1, <2>6, <2>9, <2>12, <3>4 DEF KeepsBackup, Kept, InCall
    <3>6. ContentAt(dir, Target)' = Kept(j)
      <4>1. Read(Copied(j)) = Kept(j)
        BY <2>6, <2>12, <3>4, <3>5 DEF InCall
      <4> QED BY <2>6, <3>4, <4>1
    <3>7. Kept(j)' = NoConfig
      BY <3>2, <3>3 DEF Kept
    <3>8. K' = [K EXCEPT ![j] = NoConfig]
      BY <3>3, <3>7
    <3>9. Atomic!Restore(j)
      BY <2>6, <3>5, <3>6, <3>8 DEF Atomic!Restore, Atomic!Becomes
    <3> QED BY <3>9 DEF Atomic!Next
  <2> QED BY <2>1, <2>10, <2>11, <2>12 DEF Copying, InCall
<1>9. ASSUME NEW j \in Job, Error(j) \/ Settle(j) \/ Crash(j)
      PROVE  [Atomic!Next]_(Atomic!vars)
  <2>1. Active(j) /\ UNCHANGED fsVars
    BY <1>9, CopyingActive DEF Error, Settle, Crash, Active, InCall, Call
  <2>2. Over(j) \/ (Calls(j, "rollback", TRUE) /\ job[j].kept)
    BY <1>9 DEF Error, Settle, Crash, Fails
  <2> QED BY <1>2, <2>1, <2>2
<1>10. CASE Commit
  <2>1. /\ ContentAt(dir, Target)' = ContentAt(dir, Target)
        /\ ContentAt(disk, Target)' = ContentAt(dir, Target)
        /\ \A k \in Job : Kept(k)' = Kept(k)
    BY <1>10 DEF Commit, Kept, ContentAt
  <2>2. Atomic!Stabilize
    BY <2>1 DEF Atomic!Stabilize
  <2> QED BY <2>2 DEF Atomic!Next
<1>11. CASE PowerFailure
  <2>1. dir' = disk /\ disk' = disk
    BY <1>11 DEF PowerFailure
  <2>2. disk[Target] # NoInode => data'[disk[Target]] = data[disk[Target]]
    <3>1. disk[Target] # NoInode => disk[Target] \in Inode \ dirty
      BY Names DEF DeploymentInv, TypeInv, TypeOK, PermanentSafe, Safe
    <3> QED BY <1>11, <3>1 DEF PowerFailure
  <2>3. ContentAt(dir, Target)' = ContentAt(disk, Target)
        /\ ContentAt(disk, Target)' = ContentAt(disk, Target)
    BY <2>1, <2>2 DEF ContentAt
  <2>4. \A k \in Job : Kept(k)' = NoConfig
    BY <1>11 DEF PowerFailure, Kept, EndedJob, NewJob, DeploymentInv, KeepsBackup
  <2>5. Atomic!PowerFailure
    BY <2>3, <2>4 DEF Atomic!PowerFailure
  <2> QED BY <2>5 DEF Atomic!Next
<1>12. CASE Tick \/ UNCHANGED vars
  <2>1. /\ ContentAt(dir, Target)' = ContentAt(dir, Target)
        /\ ContentAt(disk, Target)' = ContentAt(disk, Target)
        /\ \A k \in Job : Kept(k)' = Kept(k)
    BY <1>12 DEF Tick, vars, fsVars, Kept, ContentAt
  <2> QED BY <2>1 DEF Atomic!vars
<1> QED
  BY <1>1, <1>4, <1>5, <1>6, <1>7, <1>8, <1>9, <1>10, <1>11, <1>12 DEF Next

\* With one job at a time on a service, the copies, syncs and renames of its
\* calls, with errors, crashes and power failures between any two of them, are
\* the single steps of AtomicConfig.
THEOREM DeploymentIsAtomic ==
  ASSUME Exclusive
  PROVE  Spec => DeploysAtomically
<1>1. DeploymentInv /\ [Next]_vars => DeploymentInv' /\ [Atomic!Next]_(Atomic!vars)
  BY DeploymentInvStep, StepAtomic
<1> QED BY InitInv, InitAtomic, <1>1, PTL DEF Spec, DeploysAtomically, Atomic!Spec
=============================================================================
