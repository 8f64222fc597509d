------------------------------ MODULE FileStore ------------------------------
(***************************************************************************)
(* The file variants of the run store and the replay store of a build cell *)
(* (buildcontrol/store_file.go, buildcell/replay_file.go). An operation    *)
(* takes a file lock, reads the whole state, and writes all of it anew: to *)
(* a temporary file that is synced and renamed over the old one, before    *)
(* the directory is synced. RunStore and ReplayStore take an operation for *)
(* a transaction; this module shows what makes it one, with processes that *)
(* die and power that fails between any two of these steps.                *)
(*                                                                         *)
(* A state is the number of times each record was written. What decides    *)
(* whether an operation writes a record that is there is RunStore's and    *)
(* ReplayStore's matter.                                                   *)
(***************************************************************************)
EXTENDS Integers, FiniteSets

CONSTANTS
  Handles,         \* open stores on the same file, one per process
  FileRecords,     \* keys of records: builds
  MaxEntries,      \* records the store accepts
  MaxWrites,       \* bound: times a record is written
  MaxFileFaults    \* bound: errors, crashes and power failures

ASSUME FileStoreAssumption ==
  /\ "free" \notin Handles
  /\ MaxEntries \in Nat \ {0} /\ MaxWrites \in Nat /\ MaxFileFaults \in Nat

VARIABLES
  fpc,       \* step of each handle's operation
  fop,       \* the operation and its record
  fnext,     \* contents of its temporary file
  flock,     \* handle that holds the file lock, or "free"
  fvisible,  \* the file that has the name
  fdurable,  \* the one that has it after a power failure
  facked,    \* record -> writes that were answered with success
  ffaults

fileVars == <<fpc, fop, fnext, flock, fvisible, fdurable, facked, ffaults>>

\* A file: its state, and whether its contents are "synced" to the disk, only
\* "cached", or "lost" in a power failure.
Absent == [exists |-> FALSE, writes |-> [r \in FileRecords |-> 0], contents |-> "synced"]
Present(s) == {r \in FileRecords : s.writes[r] > 0}

\* validateRunState, validateReplayState: checked on what is read, and on
\* what is written.
validState(s) == s.exists /\ s.contents # "lost" /\ Cardinality(Present(s)) <= MaxEntries

FileInit ==
  /\ fpc = [h \in Handles |-> "closed"] /\ fop = [h \in Handles |-> <<"none", "none">>]
  /\ fnext = [h \in Handles |-> Absent]
  /\ flock = "free" /\ fvisible = Absent /\ fdurable = Absent
  /\ facked = [r \in FileRecords |-> 0] /\ ffaults = 0

FileFault == ffaults < MaxFileFaults /\ ffaults' = ffaults + 1
FileTo(h, step) == fpc' = [fpc EXCEPT ![h] = step]

-----------------------------------------------------------------------------
\* withLock: the mutex of the process and the lock of the file.
Acquire(h) == flock = "free" /\ flock' = h /\ FileTo(h, "read")

\* NewFileRunStore, NewFileReplayStore: an absent file is created.
OpenStore(h) ==
  /\ fpc[h] = "closed" /\ Acquire(h)
  /\ fop' = [fop EXCEPT ![h] = <<"open", "none">>]
  /\ UNCHANGED <<fnext, fvisible, fdurable, facked, ffaults>>

\* Claim and Reserve: a new record, unless the store is full or has it.
StartClaim(h, r) ==
  /\ fpc[h] = "idle" /\ Acquire(h)
  /\ fop' = [fop EXCEPT ![h] = <<"claim", r>>]
  /\ UNCHANGED <<fnext, fvisible, fdurable, facked, ffaults>>

\* Heartbeat, Finish, RequestCancel and a Claim that resumes: a record that
\* is there is written again.
StartUpdate(h, r) ==
  /\ fpc[h] = "idle" /\ Acquire(h)
  /\ fop' = [fop EXCEPT ![h] = <<"update", r>>]
  /\ UNCHANGED <<fnext, fvisible, fdurable, facked, ffaults>>

\* Lookup.
StartLookup(h) ==
  /\ fpc[h] = "idle" /\ Acquire(h)
  /\ fop' = [fop EXCEPT ![h] = <<"lookup", "none">>]
  /\ UNCHANGED <<fnext, fvisible, fdurable, facked, ffaults>>

\* The operation returns, with success or not, and unlocks.
EndOperation(h, step) ==
  /\ FileTo(h, step) /\ flock' = "free"
  /\ fop' = [fop EXCEPT ![h] = <<"none", "none">>] /\ fnext' = [fnext EXCEPT ![h] = Absent]

Opened(h) == IF fop[h][1] = "open" /\ ~ validState(fvisible) THEN "closed" ELSE "idle"

Rewritten(s, r) == [s EXCEPT !.exists = TRUE, !.contents = "cached", !.writes[r] = @ + 1]

\* What an operation makes of the state it reads; the same if it only reads.
Written(op, s) ==
  CASE op[1] = "open" -> IF s.exists THEN s ELSE [s EXCEPT !.exists = TRUE, !.contents = "cached"]
    [] op[1] = "lookup" -> s
    [] op[1] = "claim" -> IF op[2] \in Present(s) \/ Cardinality(Present(s)) >= MaxEntries
                          THEN s ELSE Rewritten(s, op[2])
    [] op[1] = "update" -> IF op[2] \in Present(s) /\ s.writes[op[2]] < MaxWrites THEN Rewritten(s, op[2]) ELSE s

\* readState and the decision. An operation that writes nothing returns.
ReadState(h) ==
  LET next == Written(fop[h], fvisible) IN
  /\ fpc[h] = "read"
  /\ IF next = fvisible \/ ~ validState(next)
     THEN EndOperation(h, Opened(h))
     ELSE FileTo(h, "sync") /\ fnext' = [fnext EXCEPT ![h] = next] /\ UNCHANGED <<fop, flock>>
  /\ UNCHANGED <<fvisible, fdurable, facked, ffaults>>

\* Mutant: the temporary file is closed without a sync.
SyncSkipped(h) ==
  /\ fpc[h] = "sync" /\ FileTo(h, "rename")
  /\ UNCHANGED <<fop, fnext, flock, fvisible, fdurable, facked, ffaults>>

\* writeState: the temporary file is written and synced,
SyncTemporary(h) ==
  /\ fpc[h] = "sync" /\ FileTo(h, "rename")
  /\ fnext' = [fnext EXCEPT ![h].contents = "synced"]
  /\ UNCHANGED <<fop, flock, fvisible, fdurable, facked, ffaults>>

\* renamed,
RenameTemporary(h) ==
  /\ fpc[h] = "rename" /\ FileTo(h, "directory")
  /\ fvisible' = fnext[h]
  /\ UNCHANGED <<fop, fnext, flock, fdurable, facked, ffaults>>

\* and the directory is synced; only now the operation has succeeded.
SyncDirectory(h) ==
  /\ fpc[h] = "directory" /\ EndOperation(h, "idle")
  /\ fdurable' = fvisible
  /\ facked' = IF fop[h][1] = "open" THEN facked ELSE [facked EXCEPT ![fop[h][2]] = @ + 1]
  /\ UNCHANGED <<fvisible, ffaults>>

\* A file operation fails; a failed sync of the directory leaves the new
\* file in its place.
WriteFails(h) ==
  /\ fpc[h] \in {"read", "sync", "rename", "directory"} /\ FileFault
  /\ EndOperation(h, IF fop[h][1] = "open" THEN "closed" ELSE "idle")
  /\ UNCHANGED <<fvisible, fdurable, facked>>

\* A process dies: the kernel drops its lock, a temporary file stays behind.
ProcessDies(h) ==
  /\ fpc[h] # "closed" /\ FileFault
  /\ IF flock = h THEN EndOperation(h, "closed") ELSE FileTo(h, "closed") /\ UNCHANGED <<fop, fnext, flock>>
  /\ UNCHANGED <<fvisible, fdurable, facked>>

\* Power fails: a rename that was not followed by a sync of the directory
\* may or may not last, contents that were not synced do not.
PowerFails ==
  /\ FileFault
  /\ fpc' = [h \in Handles |-> "closed"] /\ flock' = "free"
  /\ fop' = [h \in Handles |-> <<"none", "none">>] /\ fnext' = [h \in Handles |-> Absent]
  /\ \E f \in {fvisible, fdurable} :
       fvisible' = (IF f.contents = "cached" THEN [f EXCEPT !.contents = "lost"] ELSE f) /\ fdurable' = fvisible'
  /\ UNCHANGED facked

FileNext ==
  \/ \E h \in Handles :
       \/ OpenStore(h) \/ StartLookup(h) \/ ReadState(h) \/ SyncTemporary(h) \/ RenameTemporary(h) \/ SyncDirectory(h)
       \/ WriteFails(h) \/ ProcessDies(h)
       \/ \E r \in FileRecords : StartClaim(h, r) \/ StartUpdate(h, r)
  \/ PowerFails

FileSpec == FileInit /\ [][FileNext]_fileVars

-----------------------------------------------------------------------------
\* Every write a store has acknowledged is in the file a power failure would
\* leave, with all the others (none is overwritten from a stale read), and
\* that file and the one in place can be read again: withLock, writeState,
\* readState.
AcknowledgedIsDurable ==
  /\ \A r \in FileRecords : facked[r] <= fdurable.writes[r] /\ facked[r] <= fvisible.writes[r]
  /\ \A f \in {fvisible, fdurable} : f.exists => validState(f)
=============================================================================
