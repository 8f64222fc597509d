---------------------------- MODULE SourceArchive ----------------------------
(***************************************************************************)
(* What the source plane accepts as a source tree: the streaming check of  *)
(* an archive (sourcearchive), the tree a provider reports for a commit    *)
(* and the archive it serves for it (providerfetch).                       *)
(*                                                                         *)
(* An archive is its compressed size, the sizes of the parts it is sent in *)
(* and the sequence of its tar entries.                                    *)
(* Of an entry's bytes the model keeps their identity, blob, whether they  *)
(* look like a credential and whether they are a Git LFS pointer; of its   *)
(* name, the normalized path and the case-folded form that must be unique. *)
(* An archive a provider serves also has the commit of its global header   *)
(* and the number of its root directories.                                 *)
(***************************************************************************)
EXTENDS Integers, Sequences, SequencesExt, FiniteSetsExt

CONSTANTS
  Root,             \* normalized path of the archive's own directory
  UnsafePath,       \* a name NormalizePath refuses
  Policy            \* the sourcearchive.Policy of the gateway

\* A refused archive; "unsafe_source" or 422 to the caller.
Rejected == [rejected |-> TRUE]

\* Every limit is positive and at most the largest that is supported: 1 GiB,
\* 2 GiB and 128 MiB for the sizes. (TLC has no integer for 2 GiB itself.)
validatePolicy(p) ==
  /\ p.Version # ""
  /\ p.MaxArchiveBytes \in 1 .. 1073741824
  /\ p.MaxExpandedBytes > 0 /\ p.MaxExpandedBytes - 1 <= 2147483647
  /\ p.MaxFileBytes \in 1 .. 134217728 /\ p.MaxFileBytes <= p.MaxExpandedBytes
  /\ p.MaxEntries \in 1 .. 50000 /\ p.MaxPathBytes \in 1 .. 512
  /\ p.MaxCompressionRatio \in 1 .. 1000

\* The regular files among the entries of an archive, or of a tree.
Files(a) == {i \in 1 .. Len(a.entries) : a.entries[i].kind = "file"}

\* Bytes the regular files expand to.
Expanded(a) == MapThenSumSet(LAMBDA i : a.entries[i].size, Files(a))

\* secretPath and the streaming secretScanner.
SecretMaterial(e) == e.secret

\* The i-th header is refused. A directory is remembered for the collision
\* test as well, the archive's own root is not.
RefusedEntry(a, i) ==
  LET e == a.entries[i] IN
  \/ e.path = UnsafePath
  \/ e.path = Root /\ e.kind # "dir"
  \/ e.path # Root /\ \E j \in 1 .. i - 1 : a.entries[j].path # Root /\ a.entries[j].fold = e.fold
  \/ e.kind \notin {"dir", "file"}
  \/ e.kind = "file" /\ (e.privileged \/ e.size > Policy.MaxFileBytes \/ SecretMaterial(e))

\* The manifest: the files with their normalized modes, in no order but
\* that of their paths.
readTar(a) ==
  IF \/ Len(a.entries) > Policy.MaxEntries
     \/ \E i \in 1 .. Len(a.entries) : RefusedEntry(a, i)
     \/ Expanded(a) > Policy.MaxExpandedBytes
  THEN Rejected
  ELSE [files |-> {[path |-> a.entries[i].path, size |-> a.entries[i].size,
                    blob |-> a.entries[i].blob, exec |-> a.entries[i].exec] : i \in Files(a)},
        bytes |-> Expanded(a)]

\* Finalize: the manifest of the archive that was read, if it is the one
\* that was expected.
FinalizeArchive(a, expected) ==
  IF \/ ~ validatePolicy(Policy)
     \/ expected.bytes > Policy.MaxArchiveBytes
     \/ readTar(a) = Rejected
     \/ a # expected                      \* compressed size and digest
     \/ Expanded(a) > expected.bytes * Policy.MaxCompressionRatio
  THEN Rejected
  ELSE readTar(a)

\* Snapshot identity: the canonical manifest and metadata; not the archive.
SnapshotSHA256(manifestSHA256, metadata) == <<manifestSHA256, metadata>>

-----------------------------------------------------------------------------
\* resolveTree: the files of a commit, or a refusal. The provider answers
\* with the tree it was asked for (treeSHA, from the commit), or another one.
resolveTree(t) ==
  IF \/ t.truncated \/ t.sha # t.treeSHA \/ Len(t.entries) > 2 * Policy.MaxEntries
     \/ Files(t) = {} \/ Cardinality(Files(t)) > Policy.MaxEntries
     \/ \E i \in 1 .. Len(t.entries) :
          t.entries[i].path = UnsafePath \/ t.entries[i].kind \notin {"dir", "file"}
     \/ \E i \in Files(t) : t.entries[i].size > Policy.MaxFileBytes
     \/ \E i, j \in Files(t) : i # j /\ t.entries[i].path = t.entries[j].path
     \/ Expanded(t) > Policy.MaxExpandedBytes
  THEN Rejected
  ELSE [files |-> {t.entries[i] : i \in Files(t)}]

\* Every file served is a file of the tree, byte for byte, once; and every
\* file of the tree is served.
servesTree(a, tree) ==
  /\ \A i \in 1 .. Len(a.entries) :
       LET e == a.entries[i] IN
       /\ e.path # UnsafePath
       /\ e.kind \in {"dir", "file"}
       /\ e.kind = "file" =>
            /\ ~ e.privileged /\ ~ e.lfs /\ e.size <= Policy.MaxFileBytes
            /\ \E f \in tree.files : f.path = e.path /\ f.size = e.size /\ f.blob = e.blob
            /\ \A j \in 1 .. i - 1 : a.entries[j].kind = "file" => a.entries[j].path # e.path
  /\ \A f \in tree.files : \E i \in Files(a) : a.entries[i].path = f.path
  /\ Expanded(a) <= Policy.MaxExpandedBytes

\* The deterministic archive that replaces the provider's: the files of the
\* tree in path order, with the modes of the tree.
repacked(tree) ==
  [entries |-> SetToSeq(tree.files), bytes |-> Cardinality(tree.files),
   parts |-> <<>>, header |-> "none", roots |-> 0]

normalizeArchive(a, tree, commit) ==
  IF /\ a.header \in {"none", commit}
     /\ a.roots = 1
     /\ a.bytes <= Policy.MaxArchiveBytes
     /\ servesTree(a, tree)
  THEN repacked(tree)
  ELSE Rejected
=============================================================================
