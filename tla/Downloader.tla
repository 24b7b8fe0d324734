------------------------------- MODULE Downloader -------------------------------
(***************************************************************************)
(* The resumable download of one file (internal/filetransfer): a part file *)
(* filled by concurrent goroutines, chunk by chunk, a state file that      *)
(* records the chunks that are complete, and the destination, which the    *)
(* part file becomes once its SHA-256 is right.  The three files survive   *)
(* the process; a later call of Download resumes from them.                *)
(*                                                                         *)
(* The content of a chunk is abstracted to what the properties tell apart. *)
(* Everything that goes wrong (a request, a write, the process) spends one *)
(* of MaxFaults.                                                           *)
(***************************************************************************)
EXTENDS Integers, FiniteSets

CONSTANTS
  Chunk,         \* the chunks of the file
  Goroutine,     \* the download goroutines of a call, d.Concurrency of them
  MaxRetries,    \* d.MaxRetries
  MaxFaults,     \* bound on the number of faults
  ExpectSHA256,  \* is expectedSHA256 given, or empty?
  NoFile,        \* a file that is not there
  NoChunk,       \* a goroutine has no chunk
  NoOne          \* no goroutine holds stateMu

\* "hole": never written; "torn": written in part; "wrong": other bytes than
\* the file described by expectedSHA256; "right": its bytes.
Content == { "hole", "torn", "wrong", "right" }

ASSUME DownloaderAssumption ==
  /\ IsFiniteSet(Goroutine)
  /\ MaxRetries \in Nat /\ MaxFaults \in Nat
  /\ ExpectSHA256 \in BOOLEAN
  /\ \A content \in [Chunk -> Content] : content # NoFile
  /\ \A chunks \in SUBSET Chunk : chunks # NoFile
  /\ NoChunk \notin Chunk /\ NoOne \notin Goroutine

VARIABLES
  part,          \* the content of each chunk of dest.part, or NoFile
  state,         \* the chunks dest.state.json records as completed, or NoFile
  dest,          \* the content of each chunk of the destination, or NoFile
  call,          \* the position of Download
  routine,       \* routine[g]: the position of a goroutine of the call
  pending,       \* the chunks left in chunkChan
  errors,        \* the number of errors in errChan
  lock,          \* the goroutine that holds stateMu, or NoOne
  faults         \* faults spent

files == << part, state, dest >>
memory == << call, routine, pending, errors, lock >>
vars == << files, memory, faults >>

CallAt == { "idle", "load", "open", "fetch", "verify", "discard", "forget", "rename" }
RoutineAt == { "off", "take", "get", "lock", "save", "send", "done" }
Routine(at, chunk) == [at |-> at, chunk |-> chunk, attempt |-> 0, seen |-> {}]
Off == Routine("off", NoChunk)
Capacity == Cardinality(Goroutine)

TypeOK ==
  /\ part \in [Chunk -> Content] \cup {NoFile}
  /\ state \in (SUBSET Chunk) \cup {NoFile}
  /\ dest \in [Chunk -> Content] \cup {NoFile}
  /\ call \in CallAt
  /\ routine \in [Goroutine -> [at : RoutineAt, chunk : Chunk \cup {NoChunk},
                                attempt : 0 .. MaxRetries, seen : SUBSET Chunk]]
  /\ pending \subseteq Chunk
  /\ errors \in 0 .. Capacity
  /\ lock \in Goroutine \cup {NoOne}
  /\ faults \in 0 .. MaxFaults

Init ==
  /\ part = NoFile /\ state = NoFile /\ dest = NoFile
  /\ call = "idle" /\ routine = [g \in Goroutine |-> Off]
  /\ pending = {} /\ errors = 0 /\ lock = NoOne
  /\ faults = 0

Fault == faults < MaxFaults /\ faults' = faults + 1
NoFault == UNCHANGED faults
CallGoto(from, to) == call = from /\ call' = to
At(g, at) == call = "fetch" /\ routine[g].at = at
Goto(g, at) == routine' = [routine EXCEPT ![g].at = at]

-----------------------------------------------------------------------------
(* Download, before the goroutines *)

\* Download is called, whether or not the destination is there.
Begin ==
  /\ CallGoto("idle", "load")
  /\ UNCHANGED << files, routine, pending, errors, lock, faults >>

\* loadOrInitState: resume from the state file, or start an empty one, which also
\* replaces a file that cannot be read or parsed or is of another size, without
\* an error.  The empty one may fail to be saved.
LoadState ==
  /\ \/ CallGoto("load", "open") /\ state # NoFile /\ NoFault /\ UNCHANGED state
     \/ /\ CallGoto("load", "open") /\ state' = {}
        /\ IF state = NoFile THEN NoFault ELSE Fault
     \/ CallGoto("load", "idle") /\ Fault /\ UNCHANGED state
  /\ UNCHANGED << part, dest, routine, pending, errors, lock >>

\* Open the part file and give it its size, fill chunkChan with the chunks that
\* are not recorded, start the goroutines.
MutantOpenPart ==
  /\ CallGoto("open", "fetch")
  /\ part' = IF part = NoFile THEN << >> ELSE part
  /\ pending' = Chunk \ state
  /\ routine' = [g \in Goroutine |-> Routine("take", NoChunk)]
  /\ errors' = 0
  /\ NoFault
  /\ UNCHANGED << state, dest, lock >>
OpenPart ==
  \/ /\ CallGoto("open", "fetch")
     /\ part' = IF part = NoFile THEN [c \in Chunk |-> "hole"] ELSE part
     /\ pending' = Chunk \ state
     /\ routine' = [g \in Goroutine |-> Routine("take", NoChunk)]
     /\ errors' = 0
     /\ NoFault
     /\ UNCHANGED << state, dest, lock >>
  \/ /\ CallGoto("open", "idle") /\ Fault
     /\ UNCHANGED << files, routine, pending, errors, lock >>

-----------------------------------------------------------------------------
(* A goroutine *)

\* An error ends the loop of the goroutine.
GiveUp(g) ==
  /\ Fault
  /\ routine' = [routine EXCEPT ![g] = Routine("send", NoChunk)]

\* Mutant: the error is sent and the loop goes on.
MutantSend(g) ==
  /\ At(g, "send") /\ errors < Capacity
  /\ errors' = errors + 1 /\ Goto(g, "take") /\ NoFault
  /\ UNCHANGED << files, call, pending, lock >>
\* errChan has room for Capacity errors; only then can the goroutine return.
Send(g) ==
  /\ At(g, "send") /\ errors < Capacity
  /\ errors' = errors + 1 /\ Goto(g, "done") /\ NoFault
  /\ UNCHANGED << files, call, pending, lock >>

\* The next chunk of chunkChan; none is left; or the context is done.
Take(g) ==
  /\ At(g, "take")
  /\ \/ \E c \in pending :
          /\ pending' = pending \ {c}
          /\ \/ /\ routine' = [routine EXCEPT ![g] = Routine("get", c)]
                /\ NoFault
             \/ GiveUp(g)
     \/ pending = {} /\ Goto(g, "done") /\ NoFault /\ UNCHANGED pending
  /\ UNCHANGED << files, call, errors, lock >>

Write(c, content) == part' = [part EXCEPT ![c] = content]

\* Mutant: a body that ends early is taken for the whole chunk.
MutantGet(g) ==
  /\ At(g, "get")
  /\ \E content \in { "right", "torn" } :
       /\ Write(routine[g].chunk, content)
       /\ IF content = "right" THEN NoFault ELSE Fault
  /\ Goto(g, "lock")
  /\ UNCHANGED << state, dest, call, pending, errors, lock >>

\* downloadChunkWithRetry: one attempt.  It ends well, with the right bytes or,
\* unnoticed, with others; or with an error, before or after the first write,
\* that is retried unless it is not retryable or the attempts are used up.
Get(g) ==
  /\ At(g, "get")
  /\ LET c == routine[g].chunk IN
       \/ /\ \/ Write(c, "right") /\ NoFault
             \/ Write(c, "wrong") /\ Fault
          /\ Goto(g, "lock")
       \/ /\ Write(c, "torn") \/ UNCHANGED part
          /\ \/ /\ routine[g].attempt < MaxRetries /\ Fault
                /\ routine' = [routine EXCEPT ![g].attempt = @ + 1]
             \/ GiveUp(g)
  /\ UNCHANGED << state, dest, call, pending, errors, lock >>

\* markChunkComplete: take stateMu and read the state file ...
MutantLockAndRead(g) ==
  /\ At(g, "lock")
  /\ routine' = [routine EXCEPT ![g].at = "save", ![g].seen = state]
  /\ NoFault
  /\ UNCHANGED << files, call, pending, errors, lock >>
LockAndRead(g) ==
  /\ At(g, "lock") /\ lock = NoOne
  /\ lock' = g
  /\ routine' = [routine EXCEPT ![g].at = "save", ![g].seen = state]
  /\ NoFault
  /\ UNCHANGED << files, call, pending, errors >>

\* ... write it anew with the chunk completed, by a rename, and release stateMu.
Save(g) ==
  /\ At(g, "save")
  /\ lock' = NoOne
  /\ \/ /\ state' = routine[g].seen \cup {routine[g].chunk}
        /\ routine' = [routine EXCEPT ![g] = Routine("take", NoChunk)]
        /\ NoFault
     \/ UNCHANGED state /\ GiveUp(g)
  /\ UNCHANGED << part, dest, call, pending, errors >>

-----------------------------------------------------------------------------
(* Download, after the goroutines *)

\* wg.Wait, and the first error of errChan if there is one.
Join ==
  /\ CallGoto("fetch", IF errors > 0 THEN "idle" ELSE "verify")
  /\ \A g \in Goroutine : routine[g].at = "done"
  /\ routine' = [g \in Goroutine |-> Off]
  /\ pending' = {} /\ errors' = 0
  /\ UNCHANGED << files, lock, faults >>

\* Mutant: the size of the part file is taken for its content.
MutantMatches == part # NoFile
\* The SHA-256 of the part file is the one expected.
Matches == \A c \in Chunk : part[c] = "right"
\* Nothing is compared when none is expected.
Accepted == ExpectSHA256 => Matches

\* Mutant: a mismatch is reported and the files are left as they are.
MutantVerify ==
  /\ CallGoto("verify", IF Accepted THEN "forget" ELSE "idle")
  /\ UNCHANGED << files, routine, pending, errors, lock, faults >>

\* verifyAndFinalize: compare the SHA-256 of the part file.  On a mismatch the
\* state file is removed, then the part file, errors of os.Remove being ignored.
\* The part file may also fail to be read.
Verify ==
  /\ \/ /\ CallGoto("verify", "forget") /\ Accepted
        /\ NoFault /\ UNCHANGED state
     \/ /\ CallGoto("verify", "discard") /\ ~Accepted
        /\ \/ state' = NoFile /\ NoFault
           \/ UNCHANGED state /\ Fault
     \/ CallGoto("verify", "idle") /\ Fault /\ UNCHANGED state
  /\ UNCHANGED << part, dest, routine, pending, errors, lock >>
DiscardPart ==
  /\ CallGoto("discard", "idle")
  /\ \/ part' = NoFile /\ NoFault
     \/ UNCHANGED part /\ Fault
  /\ UNCHANGED << state, dest, routine, pending, errors, lock >>

\* On a match the state file is removed, an error being only logged ...
ForgetState ==
  /\ CallGoto("forget", "rename")
  /\ \/ state' = NoFile /\ NoFault
     \/ UNCHANGED state /\ Fault
  /\ UNCHANGED << part, dest, routine, pending, errors, lock >>

\* ... and the part file becomes the destination.
Rename ==
  /\ CallGoto("rename", "idle")
  /\ \/ dest' = part /\ part' = NoFile /\ NoFault
     \/ UNCHANGED << part, dest >> /\ Fault
  /\ UNCHANGED << state, routine, pending, errors, lock >>

\* The process ends: nothing but the files is left.
Crash ==
  /\ call # "idle" /\ Fault
  /\ call' = "idle" /\ routine' = [g \in Goroutine |-> Off]
  /\ pending' = {} /\ errors' = 0 /\ lock' = NoOne
  /\ UNCHANGED files

-----------------------------------------------------------------------------
RoutineStep(g) == Take(g) \/ Get(g) \/ LockAndRead(g) \/ Save(g) \/ Send(g)
CallStep ==
  LoadState \/ OpenPart \/ Join \/ Verify \/ DiscardPart \/ ForgetState \/ Rename

Next ==
  \/ Begin \/ CallStep \/ Crash
  \/ \E g \in Goroutine : RoutineStep(g)

Spec == Init /\ [][Next]_vars

\* The caller tries again, and every statement of a call returns; requests and
\* the retries between them are bounded by timeouts.
Fairness ==
  /\ WF_vars(Begin) /\ WF_vars(CallStep)
  /\ \A g \in Goroutine : WF_vars(RoutineStep(g))

FairSpec == Spec /\ Fairness

-----------------------------------------------------------------------------
(* Properties *)

\* The destination only ever appears with the content that was described, if a
\* SHA-256 is expected, whatever was left behind by earlier calls.
DestIsRight == ExpectSHA256 /\ dest # NoFile => \A c \in Chunk : dest[c] = "right"

\* A chunk recorded as completed is not half-written: a resumed download, which
\* skips it, does not leave it so.
RecordedIsWhole ==
  part # NoFile /\ state # NoFile => \A c \in state : part[c] # "torn"

\* While the state file exists it loses no record, though every goroutine
\* rewrites the whole file; only a new call, before it has started any, may
\* replace a file it cannot use by an empty one.
RecordsAreKept ==
  [][state # NoFile /\ state' # NoFile =>
       state \subseteq state' \/ (call = "load" /\ state' = {})]_vars

\* Nobody waits for what does not come: errChan has room for whoever has an error
\* to send, though nothing is received before all have returned, and stateMu is
\* held only by one that is about to release it.
NobodyBlocks ==
  /\ \A g \in Goroutine : At(g, "send") => errors < Capacity
  /\ lock # NoOne => At(lock, "save")

\* No goroutine is blocked on errChan or stateMu for ever, so Download returns.
CallReturns == call = "fetch" ~> call # "fetch"

\* After finitely many faults of any kind, anywhere, repeated calls produce the
\* file: no combination of files left behind makes every later call fail.
EventuallyDownloaded == <>(dest # NoFile)

-----------------------------------------------------------------------------
(* Why the safety properties hold *)

\* Goroutines run during the fetch only.
RunOnlyInFetch == call # "fetch" => \A g \in Goroutine : routine[g].at = "off"

\* The files are there where Download uses them.
FilesAreThere ==
  /\ call \in { "open", "fetch" } => state \in SUBSET Chunk
  /\ call \in { "fetch", "verify", "forget", "rename" } => part \in [Chunk -> Content]

\* stateMu is held from the read of the state file to its replacement, so that
\* what was read is what the file still records.
LockProtectsState ==
  \A g \in Goroutine :
    routine[g].at = "save" => lock = g /\ routine[g].seen = state

Working(g) == routine[g].at \in { "get", "lock", "save" }

\* A chunk is fetched by one goroutine, and only while it is not recorded.
FetchedOnce ==
  call = "fetch" =>
    /\ pending \cap state = {}
    /\ \A g \in Goroutine : Working(g) =>
         /\ routine[g].chunk \in Chunk \ (pending \cup state)
         /\ \A h \in Goroutine \ {g} : Working(h) => routine[h].chunk # routine[g].chunk

\* A chunk that is about to be recorded is complete.
FetchedIsWhole ==
  \A g \in Goroutine :
    routine[g].at \in { "lock", "save" } => part[routine[g].chunk] # "torn"

\* Between the comparison of the SHA-256 and the rename nobody writes.
VerifiedIsRight == call \in { "forget", "rename" } => Accepted

\* A goroutine that has sent an error has returned: each sends one at most.
Returned == { g \in Goroutine : routine[g].at = "done" }
SentOnce == errors <= Cardinality(Returned)

DownloaderInv ==
  /\ TypeOK /\ RunOnlyInFetch /\ FilesAreThere /\ LockProtectsState
  /\ FetchedOnce /\ FetchedIsWhole /\ VerifiedIsRight
  /\ DestIsRight /\ RecordedIsWhole
=============================================================================
