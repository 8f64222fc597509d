------------------------------ MODULE OCILayout ------------------------------
(***************************************************************************)
(* The shape of an OCI archive (buildworker/oci.go) and of a BuildKit      *)
(* cache export (buildworker/cache_directory.go): a closed set of blobs.   *)
(*                                                                         *)
(* A blob is its digest: an entry is intact when its contents have the     *)
(* digest its path names. Contents of a manifest are its config and layers *)
(* (OCIManifest), those of index.json the manifests it lists.              *)
(***************************************************************************)
EXTENDS Integers, Sequences, SequencesExt, FiniteSetsExt

CONSTANTS
  OCIManifest,    \* manifest digest -> [config, layers, valid]
  MaxOCIEntries, MaxOCILayers

Refused == [files |-> {}, refused |-> TRUE]
Metadata == {"oci-layout", "index.json"}

\* A digest names a blob: neither of the two other files, nor "none".
ASSUME LayoutAssumption ==
  /\ MaxOCIEntries \in Nat /\ MaxOCILayers \in Nat
  /\ "none" \notin DOMAIN OCIManifest
  /\ \A m \in DOMAIN OCIManifest :
       /\ OCIManifest[m].valid \in BOOLEAN /\ OCIManifest[m].config \notin Metadata
       /\ Range(OCIManifest[m].layers) \cap Metadata = {}

Entry(f, name) == f[SelectInSeq(f, LAMBDA e : e.path = name)]
Intact(e) == e.path \notin Metadata => e.contents = e.path

\* scanOCIArchive: a path comes once, only directories and regular files are
\* allowed, and every captured entry is there with the right contents.
scanOCIArchive(f, captures) ==
  IF /\ Len(f) <= MaxOCIEntries
     /\ \A i \in 1 .. Len(f) : f[i].path # "unsafe" /\ f[i].type # "link"
     /\ \A i, j \in 1 .. Len(f) : i # j => f[i].path # f[j].path
     /\ \A name \in captures :
          \E i \in 1 .. Len(f) : f[i].path = name /\ f[i].type = "file" /\ Intact(f[i])
  THEN [files |-> {e.path : e \in {x \in Range(f) : x.type = "file"}}, refused |-> FALSE]
  ELSE Refused

\* The manifest descriptor of the index; exactly one.
validIndex(f) == Len(Entry(f, "index.json").manifests) = 1
manifestOf(f) == Entry(f, "index.json").manifests[1]

\* A manifest with a config and one to MaxOCILayers distinct layers.
validManifest(m) ==
  /\ m \in DOMAIN OCIManifest /\ OCIManifest[m].valid
  /\ Len(OCIManifest[m].layers) \in 1 .. MaxOCILayers
  /\ IsInjective(OCIManifest[m].layers)
  /\ OCIManifest[m].config \notin Range(OCIManifest[m].layers)

OCIBlobs(m) == {OCIManifest[m].config} \cup Range(OCIManifest[m].layers)

\* validateBuildKitCache: the same closure for a cache, whose index lists one
\* or more manifests; no descriptor twice, no file besides.
validateBuildKitCache(f) ==
  LET listed == Entry(f, "index.json").manifests
      scan == scanOCIArchive(f, Metadata)
  IN
  /\ ~ scan.refused /\ listed # <<>> /\ IsInjective(listed)
  /\ \A m \in Range(listed) : m \in DOMAIN OCIManifest /\ OCIManifest[m].valid /\ IsInjective(OCIManifest[m].layers)
  /\ \A m, n \in Range(listed) : m # n => OCIBlobs(m) \cap OCIBlobs(n) = {}
  /\ scan.files = Metadata \cup Range(listed) \cup UNION {OCIBlobs(m) : m \in Range(listed)}
  /\ ~ scanOCIArchive(f, scan.files).refused
=============================================================================
