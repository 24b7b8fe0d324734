--------------------------- MODULE Downloader_proofs ---------------------------
(***************************************************************************)
(* Theorems about the downloader, for every set of chunks and goroutines   *)
(* and any number of retries, faults and calls.  They follow from one      *)
(* inductive invariant, DownloaderInv.  Its core: a chunk that a goroutine *)
(* works on is neither pending nor recorded, and no other goroutine's, so  *)
(* that nothing is written over a recorded chunk; and what the holder of   *)
(* stateMu has read is what the state file still says.                     *)
(***************************************************************************)
EXTENDS Downloader, FiniteSetTheorems, TLAPS

\* Before the first call there is no file and no goroutine.
LEMMA InvInit == Init => DownloaderInv
<1> SUFFICES ASSUME Init PROVE DownloaderInv
  OBVIOUS
<1>0. Capacity \in Nat
  BY FS_CardinalityType, DownloaderAssumption DEF Capacity
<1>1. TypeOK
  BY <1>0, DownloaderAssumption DEF Init, TypeOK, CallAt, RoutineAt, Off, Routine
<1>2. RunOnlyInFetch /\ FilesAreThere /\ LockProtectsState
  BY DEF Init, RunOnlyInFetch, FilesAreThere, LockProtectsState, Off, Routine
<1>3. FetchedOnce /\ FetchedIsWhole /\ VerifiedIsRight
  BY DEF Init, FetchedOnce, FetchedIsWhole, VerifiedIsRight, Off, Routine
<1>4. DestIsRight /\ RecordedIsWhole
  BY DEF Init, DestIsRight, RecordedIsWhole
<1> QED BY <1>1, <1>2, <1>3, <1>4 DEF DownloaderInv

\* Every statement of Download and of its goroutines, and the end of the
\* process, keep the invariant: one step per action, one per conjunct below.
LEMMA InvStep == DownloaderInv /\ [Next]_vars => DownloaderInv'
<1> SUFFICES ASSUME DownloaderInv, [Next]_vars PROVE DownloaderInv'
  OBVIOUS
<1>0. Capacity \in Nat
  BY FS_CardinalityType, DownloaderAssumption DEF Capacity
<1> USE <1>0, DownloaderAssumption
    DEF DownloaderInv, CallGoto, Fault, NoFault, At, Goto, GiveUp, Off, Routine, Working, files
<1>1. ASSUME Begin PROVE DownloaderInv'
  <2>1. TypeOK'
    BY <1>1 DEF TypeOK, Content, CallAt, RoutineAt, Begin
  <2>2. RunOnlyInFetch'
    BY <1>1 DEF RunOnlyInFetch, Begin
  <2>3. FilesAreThere'
    BY <1>1 DEF FilesAreThere, TypeOK, Begin
  <2>4. LockProtectsState'
    BY <1>1 DEF LockProtectsState, RunOnlyInFetch, Begin
  <2>5. FetchedOnce'
    BY <1>1 DEF FetchedOnce, RunOnlyInFetch, Begin
  <2>6. FetchedIsWhole'
    BY <1>1 DEF FetchedIsWhole, RunOnlyInFetch, Begin
  <2>7. VerifiedIsRight'
    BY <1>1 DEF VerifiedIsRight, Accepted, Matches, Begin
  <2>8. DestIsRight'
    BY <1>1 DEF DestIsRight, Begin
  <2>9. RecordedIsWhole'
    BY <1>1 DEF RecordedIsWhole, Begin
  <2> QED BY <2>1, <2>2, <2>3, <2>4, <2>5, <2>6, <2>7, <2>8, <2>9
<1>2. ASSUME LoadState PROVE DownloaderInv'
  <2>1. TypeOK'
    BY <1>2 DEF TypeOK, Content, CallAt, RoutineAt, LoadState
  <2>2. RunOnlyInFetch'
    BY <1>2 DEF RunOnlyInFetch, LoadState
  <2>3. FilesAreThere'
    BY <1>2 DEF FilesAreThere, TypeOK, LoadState
  <2>4. LockProtectsState'
    BY <1>2 DEF LockProtectsState, RunOnlyInFetch, LoadState
  <2>5. FetchedOnce'
    BY <1>2 DEF FetchedOnce, RunOnlyInFetch, LoadState
  <2>6. FetchedIsWhole'
    BY <1>2 DEF FetchedIsWhole, RunOnlyInFetch, LoadState
  <2>7. VerifiedIsRight'
    BY <1>2 DEF VerifiedIsRight, Accepted, Matches, LoadState
  <2>8. DestIsRight'
    BY <1>2 DEF DestIsRight, LoadState
  <2>9. RecordedIsWhole'
    BY <1>2 DEF RecordedIsWhole, LoadState
  <2> QED BY <2>1, <2>2, <2>3, <2>4, <2>5, <2>6, <2>7, <2>8, <2>9
<1>3. ASSUME OpenPart PROVE DownloaderInv'
  <2>1. TypeOK'
    BY <1>3 DEF TypeOK, Content, CallAt, RoutineAt, FilesAreThere, OpenPart
  <2>2. RunOnlyInFetch'
    BY <1>3 DEF RunOnlyInFetch, OpenPart
  <2>3. FilesAreThere'
    BY <1>3 DEF FilesAreThere, TypeOK, Content, OpenPart
  <2>4. LockProtectsState'
    BY <1>3 DEF LockProtectsState, RunOnlyInFetch, TypeOK, OpenPart
  <2>5. FetchedOnce'
    BY <1>3 DEF FetchedOnce, RunOnlyInFetch, TypeOK, OpenPart
  <2>6. FetchedIsWhole'
    BY <1>3 DEF FetchedIsWhole, RunOnlyInFetch, TypeOK, OpenPart
  <2>7. VerifiedIsRight'
    BY <1>3 DEF VerifiedIsRight, Accepted, Matches, OpenPart
  <2>8. DestIsRight'
    BY <1>3 DEF DestIsRight, OpenPart
  <2>9. RecordedIsWhole'
    BY <1>3 DEF RecordedIsWhole, FilesAreThere, TypeOK, OpenPart
  <2> QED BY <2>1, <2>2, <2>3, <2>4, <2>5, <2>6, <2>7, <2>8, <2>9
<1>4. ASSUME Join PROVE DownloaderInv'
  <2>1. TypeOK'
    BY <1>4 DEF TypeOK, Content, CallAt, RoutineAt, Join
  <2>2. RunOnlyInFetch'
    BY <1>4 DEF RunOnlyInFetch, TypeOK, Join
  <2>3. FilesAreThere'
    BY <1>4 DEF FilesAreThere, Join
  <2>4. LockProtectsState'
    BY <1>4 DEF LockProtectsState, RunOnlyInFetch, TypeOK, Join
  <2>5. FetchedOnce'
    BY <1>4 DEF FetchedOnce, RunOnlyInFetch, Join
  <2>6. FetchedIsWhole'
    BY <1>4 DEF FetchedIsWhole, RunOnlyInFetch, Join
  <2>7. VerifiedIsRight'
    BY <1>4 DEF VerifiedIsRight, Accepted, Matches, Join
  <2>8. DestIsRight'
    BY <1>4 DEF DestIsRight, Join
  <2>9. RecordedIsWhole'
    BY <1>4 DEF RecordedIsWhole, Join
  <2> QED BY <2>1, <2>2, <2>3, <2>4, <2>5, <2>6, <2>7, <2>8, <2>9
<1>5. ASSUME Verify PROVE DownloaderInv'
  <2>1. TypeOK'
    BY <1>5 DEF TypeOK, Content, CallAt, RoutineAt, Verify
  <2>2. RunOnlyInFetch'
    BY <1>5 DEF RunOnlyInFetch, Verify
  <2>3. FilesAreThere'
    BY <1>5 DEF FilesAreThere, Verify
  <2>4. LockProtectsState'
    BY <1>5 DEF LockProtectsState, RunOnlyInFetch, Verify
  <2>5. FetchedOnce'
    BY <1>5 DEF FetchedOnce, RunOnlyInFetch, Verify
  <2>6. FetchedIsWhole'
    BY <1>5 DEF FetchedIsWhole, RunOnlyInFetch, Verify
  <2>7. VerifiedIsRight'
    BY <1>5 DEF VerifiedIsRight, Accepted, Matches, Verify
  <2>8. DestIsRight'
    BY <1>5 DEF DestIsRight, Verify
  <2>9. RecordedIsWhole'
    BY <1>5 DEF RecordedIsWhole, Verify
  <2> QED BY <2>1, <2>2, <2>3, <2>4, <2>5, <2>6, <2>7, <2>8, <2>9
<1>6. ASSUME DiscardPart PROVE DownloaderInv'
  <2>1. TypeOK'
    BY <1>6 DEF TypeOK, Content, CallAt, RoutineAt, DiscardPart
  <2>2. RunOnlyInFetch'
    BY <1>6 DEF RunOnlyInFetch, DiscardPart
  <2>3. FilesAreThere'
    BY <1>6 DEF FilesAreThere, DiscardPart
  <2>4. LockProtectsState'
    BY <1>6 DEF LockProtectsState, RunOnlyInFetch, DiscardPart
  <2>5. FetchedOnce'
    BY <1>6 DEF FetchedOnce, RunOnlyInFetch, DiscardPart
  <2>6. FetchedIsWhole'
    BY <1>6 DEF FetchedIsWhole, RunOnlyInFetch, DiscardPart
  <2>7. VerifiedIsRight'
    BY <1>6 DEF VerifiedIsRight, Accepted, Matches, DiscardPart
  <2>8. DestIsRight'
    BY <1>6 DEF DestIsRight, DiscardPart
  <2>9. RecordedIsWhole'
    BY <1>6 DEF RecordedIsWhole, DiscardPart
  <2> QED BY <2>1, <2>2, <2>3, <2>4, <2>5, <2>6, <2>7, <2>8, <2>9
<1>7. ASSUME ForgetState PROVE DownloaderInv'
  <2>1. TypeOK'
    BY <1>7 DEF TypeOK, Content, CallAt, RoutineAt, ForgetState
  <2>2. RunOnlyInFetch'
    BY <1>7 DEF RunOnlyInFetch, ForgetState
  <2>3. FilesAreThere'
    BY <1>7 DEF FilesAreThere, ForgetState
  <2>4. LockProtectsState'
    BY <1>7 DEF LockProtectsState, RunOnlyInFetch, ForgetState
  <2>5. FetchedOnce'
    BY <1>7 DEF FetchedOnce, RunOnlyInFetch, ForgetState
  <2>6. FetchedIsWhole'
    BY <1>7 DEF FetchedIsWhole, RunOnlyInFetch, ForgetState
  <2>7. VerifiedIsRight'
    BY <1>7 DEF VerifiedIsRight, Accepted, Matches, ForgetState
  <2>8. DestIsRight'
    BY <1>7 DEF DestIsRight, ForgetState
  <2>9. RecordedIsWhole'
    BY <1>7 DEF RecordedIsWhole, ForgetState
  <2> QED BY <2>1, <2>2, <2>3, <2>4, <2>5, <2>6, <2>7, <2>8, <2>9
<1>8. ASSUME Rename PROVE DownloaderInv'
  <2>1. TypeOK'
    BY <1>8 DEF TypeOK, Content, CallAt, RoutineAt, Rename
  <2>2. RunOnlyInFetch'
    BY <1>8 DEF RunOnlyInFetch, Rename
  <2>3. FilesAreThere'
    BY <1>8 DEF FilesAreThere, Rename
  <2>4. LockProtectsState'
    BY <1>8 DEF LockProtectsState, RunOnlyInFetch, Rename
  <2>5. FetchedOnce'
    BY <1>8 DEF FetchedOnce, RunOnlyInFetch, Rename
  <2>6. FetchedIsWhole'
    BY <1>8 DEF FetchedIsWhole, RunOnlyInFetch, Rename
  <2>7. VerifiedIsRight'
    BY <1>8 DEF VerifiedIsRight, Accepted, Matches, Rename
  <2>8. DestIsRight'
    BY <1>8 DEF DestIsRight, VerifiedIsRight, Accepted, Matches, Rename
  <2>9. RecordedIsWhole'
    BY <1>8 DEF RecordedIsWhole, Rename
  <2> QED BY <2>1, <2>2, <2>3, <2>4, <2>5, <2>6, <2>7, <2>8, <2>9
<1>9. ASSUME Crash PROVE DownloaderInv'
  <2>1. TypeOK'
    BY <1>9 DEF TypeOK, Content, CallAt, RoutineAt, Crash
  <2>2. RunOnlyInFetch'
    BY <1>9 DEF RunOnlyInFetch, Crash
  <2>3. FilesAreThere'
    BY <1>9 DEF FilesAreThere, Crash
  <2>4. LockProtectsState'
    BY <1>9 DEF LockProtectsState, RunOnlyInFetch, Crash
  <2>5. FetchedOnce'
    BY <1>9 DEF FetchedOnce, RunOnlyInFetch, Crash
  <2>6. FetchedIsWhole'
    BY <1>9 DEF FetchedIsWhole, RunOnlyInFetch, Crash
  <2>7. VerifiedIsRight'
    BY <1>9 DEF VerifiedIsRight, Accepted, Matches, Crash
  <2>8. DestIsRight'
    BY <1>9 DEF DestIsRight, Crash
  <2>9. RecordedIsWhole'
    BY <1>9 DEF RecordedIsWhole, Crash
  <2> QED BY <2>1, <2>2, <2>3, <2>4, <2>5, <2>6, <2>7, <2>8, <2>9
<1>10. ASSUME NEW g \in Goroutine, Take(g) PROVE DownloaderInv'
  <2>0. /\ call = "fetch" /\ routine[g].at = "take"
        /\ UNCHANGED << part, state, dest, call, errors, lock >>
    BY <1>10 DEF Take
  <2>1. ASSUME NEW c \in pending, pending' = pending \ {c}, NoFault,
                routine' = [routine EXCEPT ![g] = Routine("get", c)]
        PROVE  DownloaderInv'
    <3>1. TypeOK'
      BY <2>0, <2>1 DEF TypeOK, RoutineAt, Content, CallAt
    <3>2. RunOnlyInFetch'
      BY <2>0, <2>1 DEF RunOnlyInFetch, TypeOK
    <3>3. FilesAreThere'
      BY <2>0, <2>1 DEF FilesAreThere
    <3>4. LockProtectsState'
      BY <2>0, <2>1 DEF LockProtectsState, RunOnlyInFetch, TypeOK
    <3>5. FetchedOnce'
      BY <2>0, <2>1 DEF FetchedOnce, RunOnlyInFetch, TypeOK
    <3>6. FetchedIsWhole'
      BY <2>0, <2>1 DEF FetchedIsWhole, RunOnlyInFetch, TypeOK
    <3>7. VerifiedIsRight'
      BY <2>0, <2>1 DEF VerifiedIsRight, Accepted, Matches
    <3>8. DestIsRight'
      BY <2>0, <2>1 DEF DestIsRight
    <3>9. RecordedIsWhole'
      BY <2>0, <2>1 DEF RecordedIsWhole
    <3> QED BY <3>1, <3>2, <3>3, <3>4, <3>5, <3>6, <3>7, <3>8, <3>9
  <2>2. ASSUME NEW c \in pending, pending' = pending \ {c}, GiveUp(g)
        PROVE  DownloaderInv'
    <3>1. TypeOK'
      BY <2>0, <2>2 DEF TypeOK, Content, CallAt, RoutineAt
    <3>2. RunOnlyInFetch'
      BY <2>0, <2>2 DEF RunOnlyInFetch, TypeOK
    <3>3. FilesAreThere'
      BY <2>0, <2>2 DEF FilesAreThere
    <3>4. LockProtectsState'
      BY <2>0, <2>2 DEF LockProtectsState, RunOnlyInFetch, TypeOK
    <3>5. FetchedOnce'
      BY <2>0, <2>2 DEF FetchedOnce, RunOnlyInFetch, TypeOK
    <3>6. FetchedIsWhole'
      BY <2>0, <2>2 DEF FetchedIsWhole, RunOnlyInFetch, TypeOK
    <3>7. VerifiedIsRight'
      BY <2>0, <2>2 DEF VerifiedIsRight, Accepted, Matches
    <3>8. DestIsRight'
      BY <2>0, <2>2 DEF DestIsRight
    <3>9. RecordedIsWhole'
      BY <2>0, <2>2 DEF RecordedIsWhole
    <3> QED BY <3>1, <3>2, <3>3, <3>4, <3>5, <3>6, <3>7, <3>8, <3>9
  <2>3. ASSUME pending = {}, Goto(g, "done"), NoFault, UNCHANGED pending
        PROVE  DownloaderInv'
    <3>1. TypeOK'
      BY <2>0, <2>3 DEF TypeOK, Content, CallAt, RoutineAt
    <3>2. RunOnlyInFetch'
      BY <2>0, <2>3 DEF RunOnlyInFetch, TypeOK
    <3>3. FilesAreThere'
      BY <2>0, <2>3 DEF FilesAreThere
    <3>4. LockProtectsState'
      BY <2>0, <2>3 DEF LockProtectsState, RunOnlyInFetch, TypeOK
    <3>5. FetchedOnce'
      BY <2>0, <2>3 DEF FetchedOnce, RunOnlyInFetch, TypeOK
    <3>6. FetchedIsWhole'
      BY <2>0, <2>3 DEF FetchedIsWhole, RunOnlyInFetch, TypeOK
    <3>7. VerifiedIsRight'
      BY <2>0, <2>3 DEF VerifiedIsRight, Accepted, Matches
    <3>8. DestIsRight'
      BY <2>0, <2>3 DEF DestIsRight
    <3>9. RecordedIsWhole'
      BY <2>0, <2>3 DEF RecordedIsWhole
    <3> QED BY <3>1, <3>2, <3>3, <3>4, <3>5, <3>6, <3>7, <3>8, <3>9
  <2> QED BY <1>10, <2>1, <2>2, <2>3 DEF Take
<1>11. ASSUME NEW g \in Goroutine, Get(g) PROVE DownloaderInv'
  <2>1. TypeOK'
    BY <1>11 DEF TypeOK, Content, CallAt, RoutineAt, FetchedOnce, FilesAreThere, Get, Write
  <2>2. RunOnlyInFetch'
    BY <1>11 DEF RunOnlyInFetch, TypeOK, Get, Write
  <2>3. FilesAreThere'
    BY <1>11 DEF FilesAreThere, TypeOK, Content, Get, Write
  <2>4. LockProtectsState'
    BY <1>11 DEF LockProtectsState, RunOnlyInFetch, TypeOK, Get, Write
  <2>5. FetchedOnce'
    BY <1>11 DEF FetchedOnce, RunOnlyInFetch, TypeOK, Get, Write
  <2>6. FetchedIsWhole'
    BY <1>11 DEF FetchedIsWhole, RunOnlyInFetch, FetchedOnce, TypeOK, FilesAreThere, Get, Write
  <2>7. VerifiedIsRight'
    BY <1>11 DEF VerifiedIsRight, Accepted, Matches, Get, Write
  <2>8. DestIsRight'
    BY <1>11 DEF DestIsRight, Get, Write
  <2>9. RecordedIsWhole'
    <3>1. call = "fetch" /\ routine[g].chunk \notin state /\ part \in [Chunk -> Content]
      BY <1>11 DEF FetchedOnce, FilesAreThere, Get
    <3>2. state \in SUBSET Chunk /\ state' = state
      BY <1>11 DEF FilesAreThere, Get
    <3>3. \A c \in Chunk : c # routine[g].chunk => part'[c] = part[c]
      BY <1>11, <3>1 DEF Get, Write
    <3> QED BY <3>1, <3>2, <3>3 DEF RecordedIsWhole
  <2> QED BY <2>1, <2>2, <2>3, <2>4, <2>5, <2>6, <2>7, <2>8, <2>9
<1>12. ASSUME NEW g \in Goroutine, LockAndRead(g) PROVE DownloaderInv'
  <2>1. TypeOK'
    <3>1. state \in SUBSET Chunk
      BY <1>12 DEF FilesAreThere, LockAndRead
    <3>2. routine' \in [Goroutine -> [at : RoutineAt, chunk : Chunk \cup {NoChunk},
                                      attempt : 0 .. MaxRetries, seen : SUBSET Chunk]]
      <4>1. routine' = [routine EXCEPT ![g] = [@ EXCEPT !.at = "save", !.seen = state]]
        BY <1>12 DEF LockAndRead, TypeOK
      <4>2. /\ routine[g].chunk \in Chunk \cup {NoChunk}
            /\ routine[g].attempt \in 0 .. MaxRetries
        BY DEF TypeOK
      <4>3. [routine[g] EXCEPT !.at = "save", !.seen = state]
              \in [at : RoutineAt, chunk : Chunk \cup {NoChunk},
                   attempt : 0 .. MaxRetries, seen : SUBSET Chunk]
        BY <3>1, <4>2 DEF TypeOK, RoutineAt
      <4> QED
        BY <4>1, <4>3 DEF TypeOK
    <3> QED
      BY <1>12, <3>2 DEF TypeOK, LockAndRead
  <2>2. RunOnlyInFetch'
    BY <1>12 DEF RunOnlyInFetch, TypeOK, LockAndRead
  <2>3. FilesAreThere'
    BY <1>12 DEF FilesAreThere, LockAndRead
  <2>4. LockProtectsState'
    BY <1>12 DEF LockProtectsState, RunOnlyInFetch, TypeOK, LockAndRead
  <2>5. FetchedOnce'
    BY <1>12 DEF FetchedOnce, RunOnlyInFetch, TypeOK, LockAndRead
  <2>6. FetchedIsWhole'
    BY <1>12 DEF FetchedIsWhole, RunOnlyInFetch, TypeOK, LockAndRead
  <2>7. VerifiedIsRight'
    BY <1>12 DEF VerifiedIsRight, Accepted, Matches, LockAndRead
  <2>8. DestIsRight'
    BY <1>12 DEF DestIsRight, LockAndRead
  <2>9. RecordedIsWhole'
    BY <1>12 DEF RecordedIsWhole, LockAndRead
  <2> QED BY <2>1, <2>2, <2>3, <2>4, <2>5, <2>6, <2>7, <2>8, <2>9
<1>13. ASSUME NEW g \in Goroutine, Save(g) PROVE DownloaderInv'
  <2>1. TypeOK'
    BY <1>13 DEF TypeOK, Content, CallAt, RoutineAt, FetchedOnce, LockProtectsState,
             FilesAreThere, Save
  <2>2. RunOnlyInFetch'
    BY <1>13 DEF RunOnlyInFetch, TypeOK, Save
  <2>3. FilesAreThere'
    BY <1>13 DEF FilesAreThere, TypeOK, FetchedOnce, Save
  <2>4. LockProtectsState'
    BY <1>13 DEF LockProtectsState, RunOnlyInFetch, TypeOK, Save
  <2>5. FetchedOnce'
    BY <1>13 DEF FetchedOnce, RunOnlyInFetch, TypeOK, LockProtectsState, FilesAreThere, Save
  <2>6. FetchedIsWhole'
    BY <1>13 DEF FetchedIsWhole, RunOnlyInFetch, TypeOK, Save
  <2>7. VerifiedIsRight'
    BY <1>13 DEF VerifiedIsRight, Accepted, Matches, Save
  <2>8. DestIsRight'
    BY <1>13 DEF DestIsRight, Save
  <2>9. RecordedIsWhole'
    <3>1. part' = part /\ state' \in { state, state \cup {routine[g].chunk} }
      BY <1>13 DEF LockProtectsState, Save
    <3>2. part[routine[g].chunk] # "torn" /\ state \in SUBSET Chunk
      BY <1>13 DEF FetchedIsWhole, FilesAreThere, Save
    <3>3. part # NoFile => \A c \in state : part[c] # "torn"
      BY <3>2 DEF RecordedIsWhole
    <3> QED BY <3>1, <3>2, <3>3 DEF RecordedIsWhole
  <2> QED BY <2>1, <2>2, <2>3, <2>4, <2>5, <2>6, <2>7, <2>8, <2>9
<1>14. ASSUME NEW g \in Goroutine, Send(g) PROVE DownloaderInv'
  <2>1. TypeOK'
    BY <1>14 DEF TypeOK, Content, CallAt, RoutineAt, Send
  <2>2. RunOnlyInFetch'
    BY <1>14 DEF RunOnlyInFetch, TypeOK, Send
  <2>3. FilesAreThere'
    BY <1>14 DEF FilesAreThere, Send
  <2>4. LockProtectsState'
    BY <1>14 DEF LockProtectsState, RunOnlyInFetch, TypeOK, Send
  <2>5. FetchedOnce'
    BY <1>14 DEF FetchedOnce, RunOnlyInFetch, TypeOK, Send
  <2>6. FetchedIsWhole'
    BY <1>14 DEF FetchedIsWhole, RunOnlyInFetch, TypeOK, Send
  <2>7. VerifiedIsRight'
    BY <1>14 DEF VerifiedIsRight, Accepted, Matches, Send
  <2>8. DestIsRight'
    BY <1>14 DEF DestIsRight, Send
  <2>9. RecordedIsWhole'
    BY <1>14 DEF RecordedIsWhole, Send
  <2> QED BY <2>1, <2>2, <2>3, <2>4, <2>5, <2>6, <2>7, <2>8, <2>9
<1>15. CASE UNCHANGED vars
  BY <1>15 DEF vars, memory, TypeOK, RunOnlyInFetch, FilesAreThere, LockProtectsState,
           FetchedOnce, FetchedIsWhole, VerifiedIsRight, Accepted, Matches, DestIsRight, RecordedIsWhole
<1> QED BY <1>1, <1>2, <1>3, <1>4, <1>5, <1>6, <1>7, <1>8,
          <1>9, <1>10, <1>11, <1>12, <1>13, <1>14, <1>15 DEF Next, CallStep, RoutineStep

\* The inductive invariant holds of every reachable state.
LEMMA Invariance == Spec => []DownloaderInv
BY InvInit, InvStep, PTL DEF Spec

\* The part, state and destination files, the goroutines, chunkChan, errChan
\* and stateMu keep their types.
THEOREM DownloaderTypeCorrect == Spec => []TypeOK
<1>1. DownloaderInv => TypeOK
  BY DEF DownloaderInv
<1> QED BY <1>1, Invariance, PTL

\* verifyAndFinalize never renames anything but the described file into place,
\* however many calls, crashes and faults went before.
THEOREM DestinationIsRight == Spec => []DestIsRight
<1>1. DownloaderInv => DestIsRight
  BY DEF DownloaderInv
<1> QED BY <1>1, Invariance, PTL

\* A resumed download skips no chunk that is half-written.
THEOREM RecordedChunksAreWhole == Spec => []RecordedIsWhole
<1>1. DownloaderInv => RecordedIsWhole
  BY DEF DownloaderInv
<1> QED BY <1>1, Invariance, PTL

\* markChunkComplete, run by all goroutines on one file, loses no update, and
\* nothing else of a call drops a record but loadOrInitState, which drops them
\* all when it cannot use the file.
THEOREM RecordsSurvive == Spec => RecordsAreKept
<1> DEFINE Kept == state \subseteq state' \/ (call = "load" /\ state' = {})
<1>1. DownloaderInv /\ [Next]_vars => [state # NoFile /\ state' # NoFile => Kept]_vars
  <2> SUFFICES ASSUME DownloaderInv, Next, state # NoFile, state' # NoFile
               PROVE  Kept
    BY DEF vars
  <2>1. CASE Begin \/ Join \/ Crash \/ OpenPart \/ DiscardPart \/ Rename
    BY <2>1 DEF Begin, Join, Crash, OpenPart, DiscardPart, Rename, files
  <2>2. CASE LoadState
    BY <2>2 DEF LoadState, CallGoto
  <2>3. CASE Verify \/ ForgetState
    BY <2>3 DEF Verify, ForgetState
  <2>4. CASE \E g \in Goroutine : Take(g) \/ Get(g) \/ LockAndRead(g) \/ Send(g)
    BY <2>4 DEF Take, Get, LockAndRead, Send, files
  <2>5. CASE \E g \in Goroutine : Save(g)
    BY <2>5 DEF Save, At, DownloaderInv, LockProtectsState
  <2> QED BY <2>1, <2>2, <2>3, <2>4, <2>5 DEF Next, CallStep, RoutineStep
<1> QED BY <1>1, Invariance, PTL DEF Spec, RecordsAreKept

-----------------------------------------------------------------------------
(* Nobody waits for what does not come *)

\* stateMu is held by one that is about to release it.
HeldToSave == lock # NoOne => At(lock, "save")

\* While a goroutine has not returned, errChan has room for one more.
LEMMA RoomForOneMore ==
  ASSUME SentOnce, TypeOK, NEW g \in Goroutine, g \notin Returned
  PROVE  /\ errors + 1 <= Cardinality(Returned \cup {g})
         /\ errors < Capacity
<1>1. IsFiniteSet(Goroutine) /\ Returned \subseteq Goroutine
  BY DownloaderAssumption DEF Returned
<1>2. IsFiniteSet(Returned) /\ Cardinality(Returned) \in Nat /\ errors \in Nat
  BY <1>1, FS_Subset, FS_CardinalityType, FS_CardinalityType DEF TypeOK
<1>3. Cardinality(Returned \cup {g}) = Cardinality(Returned) + 1
  BY <1>2, FS_AddElement
<1>4. Cardinality(Returned \cup {g}) <= Capacity /\ Capacity \in Nat
  BY <1>1, FS_Subset, FS_CardinalityType DEF Capacity
<1> QED
  BY <1>2, <1>3, <1>4 DEF SentOnce

\* The more have returned, the more errors there may be.
LEMMA MoreReturned ==
  ASSUME SentOnce, TypeOK, Returned \subseteq Returned', errors' = errors
  PROVE  SentOnce'
<1>1. IsFiniteSet(Returned') /\ IsFiniteSet(Goroutine)
  BY DownloaderAssumption, FS_Subset DEF Returned
<1>2. /\ Cardinality(Returned) <= Cardinality(Returned')
      /\ Cardinality(Returned) \in Nat /\ Cardinality(Returned') \in Nat
  BY <1>1, FS_Subset, FS_CardinalityType
<1> QED
  BY <1>2 DEF SentOnce, TypeOK

\* Every step keeps a place in errChan for each goroutine that has not returned.
LEMMA SentOnceStep ==
  ASSUME SentOnce, TypeOK, RunOnlyInFetch, Next
  PROVE  SentOnce'
<1>a. ASSUME errors' = 0 PROVE SentOnce'
  <2>1. Cardinality(Returned') \in Nat
    BY DownloaderAssumption, FS_Subset, FS_CardinalityType DEF Returned
  <2> QED
    BY <1>a, <2>1 DEF SentOnce
<1>1. CASE Begin \/ LoadState \/ Verify \/ DiscardPart \/ ForgetState \/ Rename
  <2>1. UNCHANGED << routine, errors >>
    BY <1>1 DEF Begin, LoadState, Verify, DiscardPart, ForgetState, Rename
  <2> QED
    BY <2>1, MoreReturned DEF Returned
<1>2. CASE OpenPart
  <2>1. errors' = 0 \/ UNCHANGED << routine, errors >>
    BY <1>2 DEF OpenPart
  <2> QED
    BY <1>a, <2>1, MoreReturned DEF Returned
<1>3. CASE Join \/ Crash
  BY <1>a, <1>3 DEF Join, Crash
<1>4. ASSUME NEW g \in Goroutine, Take(g) \/ Get(g) \/ LockAndRead(g) \/ Save(g) PROVE SentOnce'
  <2>1. routine[g].at # "done" /\ errors' = errors
    BY <1>4 DEF Take, Get, LockAndRead, Save, At
  <2>2. \A h \in Goroutine \ {g} : routine'[h] = routine[h]
    BY <1>4 DEF TypeOK, Take, Get, LockAndRead, Save, GiveUp, Goto
  <2> QED
    BY <2>1, <2>2, MoreReturned DEF Returned
<1>5. ASSUME NEW g \in Goroutine, Send(g) PROVE SentOnce'
  <2>1. g \notin Returned /\ errors' = errors + 1
    BY <1>5 DEF Send, At, Returned
  <2>2. Returned' = Returned \cup {g}
    BY <1>5 DEF Send, Goto, TypeOK, Returned
  <2> QED
    BY <2>1, <2>2, RoomForOneMore DEF SentOnce
<1> QED
  BY <1>1, <1>2, <1>3, <1>4, <1>5 DEF Next, CallStep, RoutineStep

\* Only the goroutine that has read the state file holds stateMu, till it has
\* written it; Download does not return before.
LEMMA HeldToSaveStep ==
  ASSUME HeldToSave, TypeOK, Next
  PROVE  HeldToSave'
<1>1. CASE Begin \/ LoadState \/ OpenPart \/ Verify \/ DiscardPart \/ ForgetState \/ Rename
  <2>1. call # "fetch" /\ lock' = lock
    BY <1>1 DEF Begin, LoadState, OpenPart, Verify, DiscardPart, ForgetState, Rename, CallGoto
  <2> QED
    BY <2>1 DEF HeldToSave, At
<1>2. CASE Join
  <2>1. lock' = lock /\ \A g \in Goroutine : routine[g].at = "done"
    BY <1>2 DEF Join
  <2> QED
    BY <2>1 DEF HeldToSave, At, TypeOK
<1>3. CASE Crash
  BY <1>3 DEF Crash, HeldToSave
<1>4. ASSUME NEW g \in Goroutine, Take(g) \/ Get(g) \/ Send(g) PROVE HeldToSave'
  <2>1. routine[g].at # "save" /\ call' = call /\ lock' = lock
    BY <1>4 DEF Take, Get, Send, At
  <2>2. \A h \in Goroutine \ {g} : routine'[h] = routine[h]
    BY <1>4 DEF TypeOK, Take, Get, Send, GiveUp, Goto
  <2> QED
    BY <2>1, <2>2 DEF HeldToSave, At, TypeOK
<1>5. ASSUME NEW g \in Goroutine, LockAndRead(g) PROVE HeldToSave'
  BY <1>5 DEF LockAndRead, HeldToSave, At, TypeOK
<1>6. ASSUME NEW g \in Goroutine, Save(g) PROVE HeldToSave'
  BY <1>6 DEF Save, HeldToSave
<1> QED
  BY <1>1, <1>2, <1>3, <1>4, <1>5, <1>6 DEF Next, CallStep, RoutineStep

\* No goroutine is ever blocked on errChan, however many of them fail, and
\* whoever waits for stateMu waits for one that is about to release it.
THEOREM NobodyIsBlocked == Spec => []NobodyBlocks
<1>1. Init => SentOnce /\ HeldToSave
  <2>1. ASSUME Init PROVE SentOnce
    <3>1. Cardinality(Returned) \in Nat
      BY DownloaderAssumption, FS_Subset, FS_CardinalityType DEF Returned
    <3> QED
      BY <2>1, <3>1 DEF Init, SentOnce
  <2>2. Init => HeldToSave
    BY DEF Init, HeldToSave
  <2> QED
    BY <2>1, <2>2
<1>2. DownloaderInv /\ SentOnce /\ HeldToSave /\ [Next]_vars => (SentOnce /\ HeldToSave)'
  <2>1. ASSUME DownloaderInv, SentOnce, HeldToSave, Next PROVE (SentOnce /\ HeldToSave)'
    BY <2>1, SentOnceStep, HeldToSaveStep DEF DownloaderInv
  <2>2. SentOnce /\ HeldToSave /\ UNCHANGED vars => (SentOnce /\ HeldToSave)'
    BY DEF vars, memory, SentOnce, Returned, HeldToSave, At
  <2> QED
    BY <2>1, <2>2
<1>3. DownloaderInv /\ SentOnce /\ HeldToSave => NobodyBlocks
  <2> SUFFICES ASSUME DownloaderInv, SentOnce, HeldToSave, NEW g \in Goroutine, At(g, "send")
               PROVE  errors < Capacity
    BY DEF NobodyBlocks, HeldToSave
  <2> QED
    BY RoomForOneMore DEF DownloaderInv, At, Returned
<1> QED
  BY <1>1, <1>2, <1>3, Invariance, PTL DEF Spec
=============================================================================
