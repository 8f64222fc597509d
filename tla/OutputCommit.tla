---------------------------- MODULE OutputCommit -----------------------------
(***************************************************************************)
(* What becomes of a static output, a directory, once it is exported: the  *)
(* Publisher packs it into an OCI archive (buildregistry/static.go), and   *)
(* DirectoryArtifactCommitter copies it to a place named by its digest     *)
(* (buildworker/artifact.go). Both first compare the directory with the    *)
(* digest the executor computed, then read it file by file; nobody holds a *)
(* lock on it, and two commits of the same artifact may run side by side.  *)
(*                                                                         *)
(* A directory is a function from paths to what is there: "dir", "link",   *)
(* "special" or the contents of a file.                                    *)
(***************************************************************************)
EXTENDS OCILayout

CONSTANTS
  Commits,            \* calls of Commit for the exported directory
  Copying,            \* those of the DirectoryArtifactCommitter
  CommitsTogether,    \* bound: the calls of one behaviour
  Bundles,            \* versions of the directory
  StaticDigest,       \* digest of the manifest of its OCI archive
  MaxBundleFiles,     \* MaxCommittedArtifactFiles
  MaxBundleChanges,   \* bound: times the directory changes
  MaxCommitFaults     \* bound: errors, cancellations and crashes

ASSUME OutputCommitAssumption ==
  /\ Copying \subseteq Commits /\ CommitsTogether \subseteq SUBSET Commits
  /\ StaticDigest \in DOMAIN OCIManifest
  /\ MaxBundleFiles \in Nat /\ MaxBundleChanges \in Nat /\ MaxCommitFaults \in Nat

VARIABLES
  ktree,        \* the directory as it is now
  kexported,    \* the directory as the executor digested it
  kpc,          \* step of each Commit
  klist,        \* files it has yet to read
  kread,        \* what it has read: <<path, contents>>
  kdestination, \* files at the place of the digest, or {} when there is none
  kchanges, kfaults

commitVars == <<ktree, kexported, kpc, klist, kread, kdestination, kchanges, kfaults>>

NoFile == {"dir", "link", "special"}
FilesOf(b) == {p \in DOMAIN b : b[p] \notin NoFile}

\* directoryDigest: nothing but files and directories, and at least one file;
\* paths and contents of the files count, directories do not.
hashable(b) == FilesOf(b) # {} /\ \A p \in DOMAIN b : b[p] \notin {"link", "special"}
directoryDigest(b) == {<<p, b[p]>> : p \in FilesOf(b)}

\* inspectStaticSource, copyArtifactDirectory: not too many files either.
acceptable(b) == hashable(b) /\ Cardinality(FilesOf(b)) <= MaxBundleFiles

AsDeclared(b) == hashable(b) /\ directoryDigest(b) = directoryDigest(kexported)

CommitInit ==
  /\ kexported \in {b \in Bundles : hashable(b)} /\ ktree = kexported
  /\ \E together \in CommitsTogether :
       kpc = [c \in Commits |-> IF c \in together THEN "validate" ELSE "absent"]
  /\ klist = [c \in Commits |-> {}] /\ kread = [c \in Commits |-> {}]
  /\ kdestination = {} /\ kchanges = 0 /\ kfaults = 0

CommitTo(c, step) == kpc' = [kpc EXCEPT ![c] = step]
EndCommit(c, step) ==
  /\ CommitTo(c, step) /\ klist' = [klist EXCEPT ![c] = {}]
  /\ kread' = IF step = "refused" THEN [kread EXCEPT ![c] = {}] ELSE kread

\* inspectCommittedArtifact: what is at the destination has the digest.
Committed(c) == EndCommit(c, IF kdestination = directoryDigest(kexported) THEN "done" ELSE "refused")

\* validateExportedArtifact; a copy that is there already is taken for it.
ValidateExported(c) ==
  /\ kpc[c] = "validate"
  /\ IF ~ AsDeclared(ktree) THEN EndCommit(c, "refused")
     ELSE IF c \in Copying /\ kdestination # {} THEN Committed(c)
     ELSE CommitTo(c, "list") /\ UNCHANGED <<klist, kread>>
  /\ UNCHANGED <<ktree, kexported, kdestination, kchanges, kfaults>>

\* inspectStaticSource, and the walk of copyArtifactDirectory.
ListSource(c) ==
  /\ kpc[c] = "list"
  /\ IF acceptable(ktree)
     THEN CommitTo(c, "read") /\ klist' = [klist EXCEPT ![c] = FilesOf(ktree)] /\ UNCHANGED kread
     ELSE EndCommit(c, "refused")
  /\ UNCHANGED <<ktree, kexported, kdestination, kchanges, kfaults>>

\* The loop of prepareStaticOCI, and copyArtifactFile: a file that was listed
\* must still be a file, the same one, and of the size it had. One that was
\* rewritten in place with as many bytes is read as it is now.
ReadFile(c) ==
  /\ kpc[c] = "read"
  /\ \/ \E p \in klist[c] \cap FilesOf(ktree) :
          /\ kread' = [kread EXCEPT ![c] = @ \cup {<<p, ktree[p]>>}]
          /\ klist' = [klist EXCEPT ![c] = @ \ {p}] /\ UNCHANGED kpc
     \/ klist[c] # {} /\ kchanges > 0 /\ EndCommit(c, "refused")
     \/ /\ klist[c] = {} /\ CommitTo(c, IF c \in Copying THEN "rename" ELSE "package")
        /\ UNCHANGED <<klist, kread>>
  /\ UNCHANGED <<ktree, kexported, kdestination, kchanges, kfaults>>

\* The archive prepareStaticOCI writes: one manifest, its config, one layer.
StaticArchive ==
  LET file(p, ms) == [path |-> p, type |-> "file", contents |-> p, manifests |-> ms] IN
  <<file("oci-layout", <<>>), file("index.json", <<StaticDigest>>), file(StaticDigest, <<>>),
    file(OCIManifest[StaticDigest].config, <<>>), file(OCIManifest[StaticDigest].layers[1], <<>>)>>

\* InspectOCIArtifact of a file that nobody else has.
InspectArchive(f) ==
  LET scan == scanOCIArchive(f, Metadata) IN
  /\ ~ scan.refused /\ validIndex(f) /\ validManifest(manifestOf(f))
  /\ ~ scanOCIArchive(f, {manifestOf(f)} \cup OCIBlobs(manifestOf(f))).refused
  /\ scan.files = Metadata \cup {manifestOf(f)} \cup OCIBlobs(manifestOf(f))

\* Mutant: the directory is not looked at again after it was packed.
PackageUnchecked(c) ==
  /\ kpc[c] = "package"
  /\ EndCommit(c, IF InspectArchive(StaticArchive) THEN "done" ELSE "refused")
  /\ UNCHANGED <<ktree, kexported, kdestination, kchanges, kfaults>>

\* The rest of prepareStaticOCI: config, manifest, index and archive, which
\* is inspected; then Publisher.Commit validates the directory once more.
Package(c) ==
  /\ kpc[c] = "package"
  /\ EndCommit(c, IF InspectArchive(StaticArchive) /\ AsDeclared(ktree) THEN "done" ELSE "refused")
  /\ UNCHANGED <<ktree, kexported, kdestination, kchanges, kfaults>>

\* The staged copy has the digest and is renamed; if somebody else was
\* faster, the rename fails and what is there is inspected.
RenameStaged(c) ==
  /\ kpc[c] = "rename"
  /\ IF kread[c] # directoryDigest(kexported)
     THEN EndCommit(c, "refused") /\ UNCHANGED kdestination
     ELSE IF kdestination = {} THEN kdestination' = kread[c] /\ EndCommit(c, "done")
     ELSE Committed(c) /\ UNCHANGED kdestination
  /\ UNCHANGED <<ktree, kexported, kchanges, kfaults>>

CommitFault == kfaults < MaxCommitFaults /\ kfaults' = kfaults + 1

\* The copy is renamed, but its parent cannot be synced: the call fails and
\* the copy stays for the next one.
SyncParentFails(c) ==
  /\ kpc[c] = "rename" /\ CommitFault
  /\ kread[c] = directoryDigest(kexported) /\ kdestination = {}
  /\ kdestination' = kread[c] /\ EndCommit(c, "refused")
  /\ UNCHANGED <<ktree, kexported, kchanges>>

\* An error or a cancellation, which removes what was staged, or a crash,
\* which leaves it under a name nobody looks for.
CommitFails(c) ==
  /\ kpc[c] \in {"validate", "list", "read", "package", "rename"}
  /\ CommitFault /\ EndCommit(c, "refused")
  /\ UNCHANGED <<ktree, kexported, kdestination, kchanges>>

\* Somebody else writes the directory.
BundleChanges(b) ==
  /\ kchanges < MaxBundleChanges /\ b # ktree
  /\ ktree' = b /\ kchanges' = kchanges + 1
  /\ UNCHANGED <<kexported, kpc, klist, kread, kdestination, kfaults>>

CommitNext ==
  \/ \E c \in Commits :
       \/ ValidateExported(c) \/ ListSource(c) \/ ReadFile(c) \/ Package(c) \/ RenameStaged(c)
       \/ SyncParentFails(c) \/ CommitFails(c)
  \/ \E b \in Bundles : BundleChanges(b)

-----------------------------------------------------------------------------
\* A copy that succeeds has taken every file of the exported directory and
\* no other, although it read them one by one from a directory that changes,
\* and the place of a digest never holds anything else. The same holds of the
\* Publisher's archive unless the directory changed more than once: the
\* Publisher digests the directory before and after it packs, not the archive.
CommittedCopyIsExact ==
  /\ kdestination \in {{}, directoryDigest(kexported)}
  /\ \A c \in Commits : kpc[c] = "done" =>
       IF c \in Copying THEN kdestination = directoryDigest(kexported)
       ELSE kchanges < 2 => kread[c] = directoryDigest(kexported)
=============================================================================
