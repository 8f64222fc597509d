--------------------------- MODULE FileStoreProofs ---------------------------
(***************************************************************************)
(* An acknowledged write of a file store is durable, for any number of     *)
(* processes on the file, any records and any number of errors, deaths and *)
(* power failures.                                                         *)
(*                                                                         *)
(* The argument.  Whoever is between the read and the directory sync holds *)
(* the lock (Locked), so the file its new state was computed from is still *)
(* the visible one: the new state has every write of it and one more       *)
(* (Ahead).  A file is renamed into place only once it is synced, so both  *)
(* the visible file and the durable one are whole (WholeFile), and either  *)
(* has every acknowledged write: it does not matter which of the two a     *)
(* power failure leaves.                                                   *)
(***************************************************************************)
EXTENDS FileStore, TLAPS

Steps == {"closed", "idle", "read", "sync", "rename", "directory"}
Busy  == {"read", "sync", "rename", "directory"}
Files == [exists : BOOLEAN, writes : [FileRecords -> Nat], contents : {"synced", "cached", "lost"}]
Operations == {<<"none", "none">>, <<"open", "none">>, <<"lookup", "none">>}
              \cup ({"claim", "update"} \X FileRecords)

-----------------------------------------------------------------------------
(* The inductive invariant.                                                *)
FileTypeOK ==
  /\ fpc \in [Handles -> Steps] /\ fop \in [Handles -> Operations]
  /\ fnext \in [Handles -> Files]
  /\ flock \in Handles \cup {"free"}
  /\ fvisible \in Files /\ fdurable \in Files
  /\ facked \in [FileRecords -> Nat]

Locked == \A h \in Handles : fpc[h] \in Busy => flock = h

\* A file with a name is synced and within the limit of entries.
WholeFile(f) == f.contents = "synced" /\ (f.exists => Cardinality(Present(f)) <= MaxEntries)

\* The state a handle is writing, and the record it is written for.
Writes(h) == fop[h][1] \in {"claim", "update"}
Ahead(h) ==
  /\ fpc[h] \in {"sync", "rename"} =>
       /\ validState(fnext[h])
       /\ \A r \in FileRecords : fvisible.writes[r] <= fnext[h].writes[r]
       /\ Writes(h) => fvisible.writes[fop[h][2]] < fnext[h].writes[fop[h][2]]
  /\ fpc[h] = "rename" => fnext[h].contents = "synced"
  /\ fpc[h] = "directory" /\ Writes(h) => facked[fop[h][2]] < fvisible.writes[fop[h][2]]
  /\ fpc[h] \in {"sync", "rename", "directory"} => Writes(h) \/ fop[h][1] = "open"
  /\ fpc[h] \in Busy => fop[h][1] # "none"

FileInv ==
  /\ FileTypeOK /\ Locked
  /\ WholeFile(fvisible) /\ WholeFile(fdurable)
  /\ \A r \in FileRecords : facked[r] <= fdurable.writes[r] /\ facked[r] <= fvisible.writes[r]
  /\ \A h \in Handles : Ahead(h)

-----------------------------------------------------------------------------
LEMMA InitialFile == FileInit => FileInv
<1> SUFFICES ASSUME FileInit PROVE FileInv
  OBVIOUS
<1>1. Absent \in Files /\ Absent.contents = "synced" /\ Absent.exists = FALSE
  BY DEF Absent, Files
<1>2. FileTypeOK
  BY <1>1 DEF FileInit, FileTypeOK, Steps, Operations
<1> QED
  BY <1>1, <1>2 DEF FileInit, FileInv, Locked, Busy, WholeFile, Ahead, Absent

\* The operations that write are those on a record.
LEMMA WritesRecord ==
  ASSUME NEW op \in Operations, op[1] \in {"claim", "update"}
  PROVE  op[2] \in FileRecords
BY DEF Operations

\* Only the handle with the lock is busy, so a step of it leaves nobody else
\* ahead of anything.
LEMMA OthersIdle ==
  ASSUME FileInv, NEW h \in Handles, flock \in {h, "free"}, NEW s \in Steps, FileTo(h, s)
  PROVE  /\ fpc' \in [Handles -> Steps] /\ fpc'[h] = s
         /\ \A g \in Handles \ {h} : fpc'[g] \notin Busy /\ Ahead(g)'
<1>1. fpc \in [Handles -> Steps]
  BY DEF FileInv, FileTypeOK
<1>2. fpc' \in [Handles -> Steps] /\ fpc'[h] = s
  BY <1>1 DEF FileTo
<1>3. ASSUME NEW g \in Handles \ {h} PROVE fpc'[g] \notin Busy
  BY <1>1, FileStoreAssumption DEF FileTo, FileInv, Locked
<1>4. ASSUME NEW g \in Handles \ {h} PROVE Ahead(g)'
  BY <1>3 DEF Ahead, Busy
<1> QED
  BY <1>2, <1>3, <1>4

\* An operation that returns without a change to the files.
LEMMA EndKeeps ==
  ASSUME FileInv, NEW h \in Handles, flock = h, NEW s \in {"closed", "idle"}, EndOperation(h, s),
         UNCHANGED <<fvisible, fdurable, facked>>
  PROVE  FileInv'
<1>1. s \in Steps /\ s \notin Busy
  BY DEF Steps, Busy
<1>2. /\ fpc' \in [Handles -> Steps] /\ fpc'[h] = s
      /\ \A g \in Handles \ {h} : fpc'[g] \notin Busy /\ Ahead(g)'
  BY <1>1, OthersIdle DEF EndOperation
<1>3. Absent \in Files /\ <<"none", "none">> \in Operations
  BY DEF Absent, Files, Operations
<1>4. FileTypeOK'
  BY <1>2, <1>3 DEF FileInv, FileTypeOK, EndOperation
<1>5. Locked'
  BY <1>1, <1>2 DEF Locked
<1>6. Ahead(h)'
  BY <1>1, <1>2 DEF Ahead, Busy
<1>7. \A g \in Handles : Ahead(g)'
  BY <1>2, <1>6
<1>8. /\ WholeFile(fvisible)' /\ WholeFile(fdurable)'
      /\ (\A r \in FileRecords : facked[r] <= fdurable.writes[r] /\ facked[r] <= fvisible.writes[r])'
  BY DEF FileInv, WholeFile, Present
<1> QED
  BY <1>4, <1>5, <1>7, <1>8 DEF FileInv

\* An operation that takes the lock.
LEMMA StartKeeps ==
  ASSUME FileInv, NEW h \in Handles, Acquire(h), NEW op \in Operations, op[1] # "none",
         fop' = [fop EXCEPT ![h] = op], UNCHANGED <<fnext, fvisible, fdurable, facked>>
  PROVE  FileInv'
<1>1. "read" \in Steps
  BY DEF Steps
<1>2. /\ fpc' \in [Handles -> Steps] /\ fpc'[h] = "read"
      /\ \A g \in Handles \ {h} : fpc'[g] \notin Busy /\ Ahead(g)'
  BY <1>1, OthersIdle DEF Acquire
<1>3. FileTypeOK'
  BY <1>2 DEF FileInv, FileTypeOK, Acquire
<1>4. Locked'
  BY <1>2 DEF Locked, Acquire
<1>5. fop'[h][1] # "none"
  BY DEF FileInv, FileTypeOK
<1>6. Ahead(h)'
  BY <1>2, <1>5 DEF Ahead
<1>7. \A g \in Handles : Ahead(g)'
  BY <1>2, <1>6
<1>8. /\ WholeFile(fvisible)' /\ WholeFile(fdurable)'
      /\ (\A r \in FileRecords : facked[r] <= fdurable.writes[r] /\ facked[r] <= fvisible.writes[r])'
  BY DEF FileInv, WholeFile, Present
<1> QED
  BY <1>3, <1>4, <1>7, <1>8 DEF FileInv

\* What an operation makes of the visible file: all it had, and one write
\* more of its record if it writes one.
LEMMA WrittenGrows ==
  ASSUME NEW f \in Files, NEW op \in Operations, op[1] # "none", Written(op, f) # f
  PROVE  /\ Written(op, f) \in Files
         /\ \A r \in FileRecords : f.writes[r] <= Written(op, f).writes[r]
         /\ op[1] \in {"open", "claim", "update"}
         /\ op[1] \in {"claim", "update"} => f.writes[op[2]] < Written(op, f).writes[op[2]]
<1>1. CASE op[1] = "open"
  <2>1. Written(op, f) = [f EXCEPT !.exists = TRUE, !.contents = "cached"]
    BY <1>1 DEF Written
  <2>2. Written(op, f) \in Files /\ Written(op, f).writes = f.writes
    BY <2>1 DEF Files
  <2>3. f.writes \in [FileRecords -> Nat]
    BY DEF Files
  <2> QED
    BY <1>1, <2>2, <2>3
<1>2. CASE op[1] = "lookup"
  BY <1>2 DEF Written
<1>3. CASE op[1] \in {"claim", "update"}
  <2>1. op[2] \in FileRecords
    BY <1>3, WritesRecord
  <2>2. Written(op, f) = Rewritten(f, op[2])
    BY <1>3 DEF Written
  <2>3. f.writes \in [FileRecords -> Nat]
    BY DEF Files
  <2> DEFINE w == [f.writes EXCEPT ![op[2]] = @ + 1]
  <2>4. w \in [FileRecords -> Nat]
    BY <2>1, <2>3
  <2>5. Written(op, f) = [f EXCEPT !.exists = TRUE, !.contents = "cached", !.writes = w]
    BY <2>2 DEF Rewritten
  <2>6. Written(op, f) \in Files /\ Written(op, f).writes = w
    BY <2>4, <2>5 DEF Files
  <2> QED
    BY <1>3, <2>1, <2>3, <2>6
<1> QED
  BY <1>1, <1>2, <1>3 DEF Operations

\* Two files with the same writes have the same entries.
LEMMA SamePresent ==
  ASSUME NEW f, NEW g, f.writes = g.writes
  PROVE  Present(f) = Present(g)
BY DEF Present

LEMMA ReadKeeps ==
  ASSUME FileInv, NEW h \in Handles, ReadState(h)
  PROVE  FileInv'
<1> DEFINE next == Written(fop[h], fvisible)
<1>1. /\ flock = h /\ fop[h] \in Operations /\ fop[h][1] # "none" /\ fvisible \in Files
      /\ fpc[h] = "read"
  BY DEF FileInv, FileTypeOK, Locked, Ahead, Busy, ReadState
<1>2. CASE next = fvisible \/ ~ validState(next)
  <2>1. EndOperation(h, Opened(h)) /\ UNCHANGED <<fvisible, fdurable, facked>>
    BY <1>2 DEF ReadState
  <2>2. Opened(h) \in {"closed", "idle"}
    BY DEF Opened
  <2> QED
    BY <1>1, <2>1, <2>2, EndKeeps
<1>3. CASE next # fvisible /\ validState(next)
  <2>1. /\ FileTo(h, "sync") /\ fnext' = [fnext EXCEPT ![h] = next]
        /\ UNCHANGED <<fop, flock, fvisible, fdurable, facked>>
    BY <1>3 DEF ReadState
  <2>2. "sync" \in Steps
    BY DEF Steps
  <2>3. /\ fpc' \in [Handles -> Steps] /\ fpc'[h] = "sync"
        /\ \A g \in Handles \ {h} : fpc'[g] \notin Busy /\ Ahead(g)'
    BY <1>1, <2>1, <2>2, OthersIdle
  <2>4. /\ next \in Files
        /\ \A r \in FileRecords : fvisible.writes[r] <= next.writes[r]
        /\ fop[h][1] \in {"open", "claim", "update"}
        /\ fop[h][1] \in {"claim", "update"} => fvisible.writes[fop[h][2]] < next.writes[fop[h][2]]
    BY <1>1, <1>3, WrittenGrows
  <2>5. FileTypeOK'
    BY <2>1, <2>3, <2>4 DEF FileInv, FileTypeOK
  <2>6. Locked'
    BY <1>1, <2>1, <2>3 DEF Locked
  <2>7. fnext'[h] = next
    BY <2>1 DEF FileInv, FileTypeOK
  <2>8. validState(fnext[h])'
    BY <1>3, <2>7 DEF validState, Present
  <2>9. Ahead(h)'
    BY <1>1, <2>1, <2>3, <2>4, <2>7, <2>8 DEF Ahead, Writes
  <2>10. /\ WholeFile(fvisible)' /\ WholeFile(fdurable)'
         /\ (\A r \in FileRecords : facked[r] <= fdurable.writes[r] /\ facked[r] <= fvisible.writes[r])'
    BY <2>1 DEF FileInv, WholeFile, Present
  <2>11. \A g \in Handles : Ahead(g)'
    BY <2>3, <2>9
  <2> QED
    BY <2>5, <2>6, <2>10, <2>11 DEF FileInv
<1> QED
  BY <1>2, <1>3

LEMMA SyncKeeps ==
  ASSUME FileInv, NEW h \in Handles, SyncTemporary(h)
  PROVE  FileInv'
<1>1. /\ flock = h /\ fpc[h] = "sync" /\ FileTo(h, "rename")
      /\ fnext' = [fnext EXCEPT ![h].contents = "synced"]
      /\ UNCHANGED <<fop, flock, fvisible, fdurable, facked>>
  BY DEF FileInv, Locked, Busy, SyncTemporary
<1>2. "rename" \in Steps
  BY DEF Steps
<1>3. /\ fpc' \in [Handles -> Steps] /\ fpc'[h] = "rename"
      /\ \A g \in Handles \ {h} : fpc'[g] \notin Busy /\ Ahead(g)'
  BY <1>1, <1>2, OthersIdle
<1>4. fnext \in [Handles -> Files] /\ fnext[h] \in Files
  BY DEF FileInv, FileTypeOK
<1>5. /\ fnext'[h] = [fnext[h] EXCEPT !.contents = "synced"]
      /\ [fnext[h] EXCEPT !.contents = "synced"] \in Files
  BY <1>1, <1>4 DEF Files
<1>6. /\ fnext'[h].contents = "synced" /\ fnext'[h].writes = fnext[h].writes
      /\ fnext'[h].exists = fnext[h].exists
  BY <1>4, <1>5 DEF Files
<1>7. FileTypeOK'
  BY <1>1, <1>3, <1>4, <1>5 DEF FileInv, FileTypeOK
<1>8. Locked'
  BY <1>1, <1>3 DEF Locked
<1>9. Ahead(h)
  BY DEF FileInv
<1>10. validState(fnext[h])'
  <2>1. validState(fnext[h])
    BY <1>1, <1>9 DEF Ahead
  <2>2. Present(fnext'[h]) = Present(fnext[h])
    BY <1>6, SamePresent
  <2> QED
    BY <1>6, <2>1, <2>2 DEF validState, Present
<1>11. Ahead(h)'
  BY <1>1, <1>3, <1>6, <1>9, <1>10 DEF Ahead, Writes, Busy
<1>12. /\ WholeFile(fvisible)' /\ WholeFile(fdurable)'
       /\ (\A r \in FileRecords : facked[r] <= fdurable.writes[r] /\ facked[r] <= fvisible.writes[r])'
  BY <1>1 DEF FileInv, WholeFile, Present
<1>13. \A g \in Handles : Ahead(g)'
  BY <1>3, <1>11
<1> QED
  BY <1>7, <1>8, <1>12, <1>13 DEF FileInv

LEMMA RenameKeeps ==
  ASSUME FileInv, NEW h \in Handles, RenameTemporary(h)
  PROVE  FileInv'
<1>1. /\ flock = h /\ fpc[h] = "rename" /\ FileTo(h, "directory") /\ fvisible' = fnext[h]
      /\ UNCHANGED <<fop, fnext, flock, fdurable, facked>>
  BY DEF FileInv, Locked, Busy, RenameTemporary
<1>2. "directory" \in Steps
  BY DEF Steps
<1>3. /\ fpc' \in [Handles -> Steps] /\ fpc'[h] = "directory"
      /\ \A g \in Handles \ {h} : fpc'[g] \notin Busy /\ Ahead(g)'
  BY <1>1, <1>2, OthersIdle
<1>4. /\ fnext[h] \in Files /\ fvisible \in Files /\ fop[h] \in Operations
      /\ facked \in [FileRecords -> Nat]
  BY DEF FileInv, FileTypeOK
<1>5. Ahead(h)
  BY DEF FileInv
<1>6. FileTypeOK'
  BY <1>1, <1>3, <1>4 DEF FileInv, FileTypeOK
<1>7. Locked'
  BY <1>1, <1>3 DEF Locked
<1>8. WholeFile(fvisible)'
  BY <1>1, <1>5 DEF Ahead, WholeFile, validState, Present
<1>9. WholeFile(fdurable)'
  BY <1>1 DEF FileInv, WholeFile, Present
<1>10. ASSUME NEW r \in FileRecords
       PROVE  /\ facked[r] <= fvisible.writes[r] /\ fvisible.writes[r] <= fnext[h].writes[r]
              /\ facked[r] \in Nat /\ fvisible.writes[r] \in Nat /\ fnext[h].writes[r] \in Nat
  BY <1>1, <1>4, <1>5 DEF FileInv, Ahead, Files
<1>11. (\A r \in FileRecords : facked[r] <= fdurable.writes[r] /\ facked[r] <= fvisible.writes[r])'
  <2> SUFFICES ASSUME NEW r \in FileRecords
               PROVE  facked'[r] <= fdurable'.writes[r] /\ facked'[r] <= fvisible'.writes[r]
    OBVIOUS
  <2> QED
    BY <1>1, <1>10 DEF FileInv
<1>12. Writes(h) => facked[fop[h][2]] < fnext[h].writes[fop[h][2]]
  <2> SUFFICES ASSUME Writes(h) PROVE facked[fop[h][2]] < fnext[h].writes[fop[h][2]]
    OBVIOUS
  <2>1. fop[h][2] \in FileRecords
    BY <1>4, WritesRecord DEF Writes
  <2>2. fvisible.writes[fop[h][2]] < fnext[h].writes[fop[h][2]]
    BY <1>1, <1>5 DEF Ahead
  <2> QED
    BY <1>10, <2>1, <2>2
<1>13. Ahead(h)'
  BY <1>1, <1>3, <1>5, <1>12 DEF Ahead, Writes, Busy
<1>14. \A g \in Handles : Ahead(g)'
  BY <1>3, <1>13
<1> QED
  BY <1>6, <1>7, <1>8, <1>9, <1>11, <1>14 DEF FileInv

LEMMA DirectoryKeeps ==
  ASSUME FileInv, NEW h \in Handles, SyncDirectory(h)
  PROVE  FileInv'
<1>1. /\ flock = h /\ fpc[h] = "directory" /\ EndOperation(h, "idle")
      /\ fdurable' = fvisible /\ fvisible' = fvisible
      /\ facked' = IF fop[h][1] = "open" THEN facked ELSE [facked EXCEPT ![fop[h][2]] = @ + 1]
  BY DEF FileInv, Locked, Busy, SyncDirectory
<1>2. "idle" \in Steps /\ "idle" \notin Busy
  BY DEF Steps, Busy
<1>3. /\ fpc' \in [Handles -> Steps] /\ fpc'[h] = "idle"
      /\ \A g \in Handles \ {h} : fpc'[g] \notin Busy /\ Ahead(g)'
  BY <1>1, <1>2, OthersIdle DEF EndOperation
<1>4. /\ fvisible \in Files /\ fop[h] \in Operations /\ facked \in [FileRecords -> Nat]
      /\ Ahead(h)
  BY DEF FileInv, FileTypeOK
<1>5. fvisible.writes \in [FileRecords -> Nat]
  BY <1>4 DEF Files
<1>6. /\ facked' \in [FileRecords -> Nat]
      /\ \A r \in FileRecords : facked'[r] <= fvisible.writes[r]
  <2>1. CASE fop[h][1] = "open"
    BY <1>1, <1>4, <2>1 DEF FileInv
  <2>2. CASE fop[h][1] # "open"
    <3>1. Writes(h)
      BY <1>1, <1>4, <2>2 DEF Ahead
    <3>2. fop[h][2] \in FileRecords
      BY <1>4, <3>1, WritesRecord DEF Writes
    <3>3. facked[fop[h][2]] < fvisible.writes[fop[h][2]]
      BY <1>1, <1>4, <3>1 DEF Ahead
    <3>4. facked' = [facked EXCEPT ![fop[h][2]] = @ + 1]
      BY <1>1, <2>2
    <3>5. \A r \in FileRecords : facked[r] <= fvisible.writes[r]
      BY DEF FileInv
    <3> QED
      BY <1>4, <1>5, <3>2, <3>3, <3>4, <3>5
  <2> QED
    BY <2>1, <2>2
<1>7. Absent \in Files /\ <<"none", "none">> \in Operations
  BY DEF Absent, Files, Operations
<1>8. FileTypeOK'
  BY <1>1, <1>3, <1>4, <1>6, <1>7 DEF FileInv, FileTypeOK, EndOperation
<1>9. Locked'
  BY <1>2, <1>3 DEF Locked
<1>10. WholeFile(fvisible)' /\ WholeFile(fdurable)'
  BY <1>1 DEF FileInv, WholeFile, Present
<1>11. (\A r \in FileRecords : facked[r] <= fdurable.writes[r] /\ facked[r] <= fvisible.writes[r])'
  BY <1>1, <1>6
<1>12. \A g \in Handles : Ahead(g)'
  BY <1>2, <1>3 DEF Ahead, Busy
<1> QED
  BY <1>8, <1>9, <1>10, <1>11, <1>12 DEF FileInv

LEMMA FailureKeeps ==
  ASSUME FileInv, NEW h \in Handles, WriteFails(h)
  PROVE  FileInv'
<1>1. flock = h
  BY DEF FileInv, Locked, Busy, WriteFails
<1>2. (IF fop[h][1] = "open" THEN "closed" ELSE "idle") \in {"closed", "idle"}
  OBVIOUS
<1> QED
  BY <1>1, <1>2, EndKeeps DEF WriteFails

LEMMA DeathKeeps ==
  ASSUME FileInv, NEW h \in Handles, ProcessDies(h)
  PROVE  FileInv'
<1>1. CASE flock = h
  BY <1>1, EndKeeps DEF ProcessDies
<1>2. CASE flock # h
  <2>1. /\ fpc' = [fpc EXCEPT ![h] = "closed"]
        /\ UNCHANGED <<fop, fnext, flock, fvisible, fdurable, facked>>
    BY <1>2 DEF ProcessDies, FileTo
  <2>2. fpc \in [Handles -> Steps] /\ "closed" \in Steps /\ "closed" \notin Busy
    BY DEF FileInv, FileTypeOK, Steps, Busy
  <2>3. /\ fpc' \in [Handles -> Steps] /\ fpc'[h] = "closed"
        /\ \A g \in Handles \ {h} : fpc'[g] = fpc[g]
    BY <2>1, <2>2
  <2>4. FileTypeOK'
    BY <2>1, <2>3 DEF FileInv, FileTypeOK
  <2>5. Locked'
    BY <2>1, <2>2, <2>3 DEF FileInv, Locked
  <2>6. ASSUME NEW g \in Handles PROVE Ahead(g)'
    <3>1. CASE g = h
      BY <2>2, <2>3, <3>1 DEF Ahead, Busy
    <3>2. CASE g # h
      BY <2>1, <2>3, <3>2 DEF FileInv, Ahead, Writes, validState, Present
    <3> QED
      BY <3>1, <3>2
  <2>7. /\ WholeFile(fvisible)' /\ WholeFile(fdurable)'
        /\ (\A r \in FileRecords : facked[r] <= fdurable.writes[r] /\ facked[r] <= fvisible.writes[r])'
    BY <2>1 DEF FileInv, WholeFile, Present
  <2> QED
    BY <2>4, <2>5, <2>6, <2>7 DEF FileInv
<1> QED
  BY <1>1, <1>2

LEMMA PowerKeeps ==
  ASSUME FileInv, PowerFails
  PROVE  FileInv'
<1>1. PICK f \in {fvisible, fdurable} : fvisible' = f /\ fdurable' = f
  BY DEF PowerFails, FileInv, WholeFile
<1>2. Absent \in Files /\ <<"none", "none">> \in Operations /\ "closed" \in Steps \ Busy
  BY DEF Absent, Files, Operations, Steps, Busy
<1>3. FileTypeOK'
  BY <1>1, <1>2 DEF FileInv, FileTypeOK, PowerFails
<1>4. \A h \in Handles : fpc'[h] = "closed"
  BY DEF PowerFails
<1>5. Locked'
  BY <1>2, <1>4 DEF Locked
<1>6. \A h \in Handles : Ahead(h)'
  BY <1>2, <1>4 DEF Ahead, Busy
<1>7. /\ WholeFile(fvisible)' /\ WholeFile(fdurable)'
      /\ (\A r \in FileRecords : facked[r] <= fdurable.writes[r] /\ facked[r] <= fvisible.writes[r])'
  BY <1>1 DEF FileInv, WholeFile, Present, PowerFails
<1> QED
  BY <1>3, <1>5, <1>6, <1>7 DEF FileInv

LEMMA StutterKeeps ==
  ASSUME FileInv, UNCHANGED fileVars
  PROVE  FileInv'
BY DEF FileInv, fileVars, FileTypeOK, Locked, WholeFile, Ahead, Writes, validState, Present

-----------------------------------------------------------------------------
LEMMA FileStep == FileInv /\ [FileNext]_fileVars => FileInv'
<1> SUFFICES ASSUME FileInv, [FileNext]_fileVars PROVE FileInv'
  OBVIOUS
<1>1. ASSUME NEW h \in Handles, OpenStore(h) PROVE FileInv'
  <2>1. <<"open", "none">> \in Operations
    BY DEF Operations
  <2> QED
    BY <1>1, <2>1, StartKeeps DEF OpenStore
<1>2. ASSUME NEW h \in Handles, StartLookup(h) PROVE FileInv'
  <2>1. <<"lookup", "none">> \in Operations
    BY DEF Operations
  <2> QED
    BY <1>2, <2>1, StartKeeps DEF StartLookup
<1>3. ASSUME NEW h \in Handles, NEW r \in FileRecords, StartClaim(h, r) PROVE FileInv'
  <2>1. <<"claim", r>> \in Operations
    BY DEF Operations
  <2> QED
    BY <1>3, <2>1, StartKeeps DEF StartClaim
<1>4. ASSUME NEW h \in Handles, NEW r \in FileRecords, StartUpdate(h, r) PROVE FileInv'
  <2>1. <<"update", r>> \in Operations
    BY DEF Operations
  <2> QED
    BY <1>4, <2>1, StartKeeps DEF StartUpdate
<1> QED
  BY <1>1, <1>2, <1>3, <1>4, ReadKeeps, SyncKeeps, RenameKeeps, DirectoryKeeps,
     FailureKeeps, DeathKeeps, PowerKeeps, StutterKeeps DEF FileNext

\* A file store keeps every write it has acknowledged, in the file the
\* processes see and in the one a power failure would leave, and can read
\* both (buildcontrol/store_file.go, buildcell/replay_file.go): for any number
\* of processes on the file and whatever fails between two of their steps.
THEOREM AcknowledgedKept == FileSpec => []AcknowledgedIsDurable
<1>1. FileInv => AcknowledgedIsDurable
  BY DEF FileInv, AcknowledgedIsDurable, WholeFile, validState
<1> QED
  BY <1>1, InitialFile, FileStep, PTL DEF FileSpec
=============================================================================
