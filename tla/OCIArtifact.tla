----------------------------- MODULE OCIArtifact -----------------------------
(***************************************************************************)
(* The OCI archive of an output (buildworker/oci.go) is read again and     *)
(* again: InspectOCIArtifact scans the file three times, and publication   *)
(* and extraction inspect it anew before they stream it. Nothing locks the *)
(* file, so it may change between two reads.                               *)
(***************************************************************************)
EXTENDS OCILayout

CONSTANTS
  OCIArchives,    \* versions of the file: sequences of tar entries
  MaxOCIChanges   \* bound: times the file changes

ASSUME OCIAssumption ==
  /\ \A f \in OCIArchives : f \in Seq([path : STRING, type : {"file", "dir", "link"}, contents : STRING, manifests : Seq(STRING)])
  /\ MaxOCIChanges \in Nat

VARIABLES
  ofile,     \* the archive as it is now
  ochanges,  \* times it has changed
  opc,       \* step of the reader
  ogoal,     \* what it reads for: "inspect", "publish", "extract"
  ofiles,    \* entries of the first scan
  omanifest, \* manifest of the second scan
  oident,    \* identity the first inspection returned, "none" before
  opos,      \* entries streamed
  ovisited,  \* blobs handed over and found exact
  otree,     \* entries extracted
  oexpected  \* the archive whose digest extraction expects

ociVars == <<ofile, ochanges, opc, ogoal, ofiles, omanifest, oident, opos, ovisited, otree, oexpected>>
readVars == <<ofile, ochanges, oexpected>>

\* The executor has digested the export before it inspects it.
OCIInit ==
  /\ ofile \in OCIArchives /\ oexpected = ofile /\ ochanges = 0
  /\ opc = "index" /\ ogoal = "inspect" /\ ofiles = {} /\ omanifest = "none" /\ oident = "none"
  /\ opos = 0 /\ ovisited = {} /\ otree = <<>>

Refuse ==
  /\ opc' = "refused"
  /\ UNCHANGED <<ogoal, ofiles, omanifest, oident, opos, ovisited, otree, readVars>>

\* First scan: layout and index, and the set of entries.
ReadIndexFile ==
  LET scan == scanOCIArchive(ofile, Metadata) IN
  /\ opc = "index"
  /\ IF scan.refused \/ ~ validIndex(ofile) THEN Refuse
     ELSE /\ opc' = "manifest" /\ ofiles' = scan.files /\ omanifest' = manifestOf(ofile)
          /\ UNCHANGED <<ogoal, oident, opos, ovisited, otree, readVars>>

\* Second scan: the manifest under its descriptor.
ReadManifest ==
  /\ opc = "manifest"
  /\ IF scanOCIArchive(ofile, {omanifest}).refused \/ ~ validManifest(omanifest) THEN Refuse
     ELSE /\ opc' = "blobs"
          /\ UNCHANGED <<ogoal, ofiles, omanifest, oident, opos, ovisited, otree, readVars>>

\* Third scan: config and layers; nothing else was in the first scan. The
\* first inspection returns the identity, later ones compare with it.
ReadBlobs ==
  /\ opc = "blobs"
  /\ IF \/ scanOCIArchive(ofile, OCIBlobs(omanifest)).refused
        \/ ofiles # Metadata \cup {omanifest} \cup OCIBlobs(omanifest)
        \/ oident \notin {"none", omanifest}
     THEN Refuse
     ELSE \/ /\ ogoal = "inspect" /\ ogoal' \in {"publish", "extract"}
             /\ oident' = omanifest /\ opc' = "index"
             /\ UNCHANGED <<ofiles, omanifest, opos, ovisited, otree, readVars>>
          \/ /\ ogoal # "inspect"
             /\ opc' = IF ogoal = "publish" THEN "visit" ELSE "open"
             /\ UNCHANGED <<ogoal, ofiles, omanifest, oident, opos, ovisited, otree, readVars>>

\* Mutant: what the visitor consumed is not compared with the descriptor.
VisitAnyBlob ==
  /\ opc = "visit"
  /\ IF opos < Len(ofile)
     THEN /\ opos' = opos + 1
          /\ ovisited' = IF ofile[opos + 1].path \in OCIBlobs(oident)
                         THEN ovisited \cup {ofile[opos + 1].contents} ELSE ovisited
          /\ UNCHANGED <<opc, ogoal, ofiles, omanifest, oident, otree, readVars>>
     ELSE /\ opc' = IF Cardinality(ovisited) = Cardinality(OCIBlobs(oident)) THEN "visited" ELSE "refused"
          /\ UNCHANGED <<ogoal, ofiles, omanifest, oident, opos, ovisited, otree, readVars>>

\* VisitOCIArtifactBlobs: entries in the order of the file; the ones that
\* belong to the identity are handed over and must be exact; all of them.
VisitBlob ==
  /\ opc = "visit"
  /\ IF opos < Len(ofile)
     THEN LET e == ofile[opos + 1] IN
          \/ /\ e.path \notin OCIBlobs(oident)
             /\ opos' = opos + 1
             /\ UNCHANGED <<opc, ogoal, ofiles, omanifest, oident, ovisited, otree, readVars>>
          \/ /\ e.path \in OCIBlobs(oident) /\ e.type = "file" /\ Intact(e)
             /\ opos' = opos + 1 /\ ovisited' = ovisited \cup {e.contents}
             /\ UNCHANGED <<opc, ogoal, ofiles, omanifest, oident, otree, readVars>>
          \/ /\ e.path \in OCIBlobs(oident) /\ ~ (e.type = "file" /\ Intact(e))
             /\ Refuse
     ELSE /\ opc' = IF ovisited = OCIBlobs(oident) THEN "visited" ELSE "refused"
          /\ UNCHANGED <<ogoal, ofiles, omanifest, oident, opos, ovisited, otree, readVars>>

\* ExtractOCIArtifact: the open file has the expected digest, is extracted,
\* and must have it again; otherwise the destination is removed.
OpenArchive ==
  /\ opc = "open"
  /\ IF ofile # oexpected THEN Refuse
     ELSE opc' = "extract" /\ UNCHANGED <<ogoal, ofiles, omanifest, oident, opos, ovisited, otree, readVars>>

\* An entry that cannot be written: only a directory may come again.
Unwritable(e) ==
  \/ e.path = "unsafe" \/ e.type = "link"
  \/ \E x \in Range(otree) : x.path = e.path /\ ~ (x.type = "dir" /\ e.type = "dir")

ExtractEntry ==
  /\ opc = "extract"
  /\ \/ /\ opos < Len(ofile)
        /\ IF opos > MaxOCIEntries \/ Unwritable(ofile[opos + 1])
           THEN opc' = "refused" /\ otree' = <<>> /\ UNCHANGED opos
           ELSE opos' = opos + 1 /\ otree' = Append(otree, ofile[opos + 1]) /\ UNCHANGED opc
     \/ /\ opos >= Len(ofile)
        /\ IF ofile = oexpected THEN opc' = "extracted" /\ UNCHANGED otree
           ELSE opc' = "refused" /\ otree' = <<>>
        /\ UNCHANGED opos
  /\ UNCHANGED <<ogoal, ofiles, omanifest, oident, ovisited, readVars>>

\* Somebody else writes the file.
FileChanges(f) ==
  /\ ochanges < MaxOCIChanges /\ f # ofile
  /\ ofile' = f /\ ochanges' = ochanges + 1
  /\ UNCHANGED <<opc, ogoal, ofiles, omanifest, oident, opos, ovisited, otree, oexpected>>

OCINext ==
  \/ ReadIndexFile \/ ReadManifest \/ ReadBlobs \/ VisitBlob \/ OpenArchive \/ ExtractEntry
  \/ \E f \in OCIArchives : FileChanges(f)

-----------------------------------------------------------------------------
\* Whatever becomes of the file between the reads, what was handed over for
\* publication is exactly the inspected config and layers, all of them and
\* nothing else. What was extracted is the archive whose digest was expected
\* and holds exactly the closure of the inspected manifest, unless the file
\* changed more than once: extraction compares the digest before and after
\* it reads, and does not notice a file that was changed and changed back.
ArtifactIsExact ==
  /\ ovisited \subseteq (IF oident = "none" THEN {} ELSE OCIBlobs(oident))
  /\ opc = "visited" => ovisited = OCIBlobs(oident)
  /\ opc = "extracted" /\ ochanges < 2 =>
       /\ otree = oexpected
       /\ {e.path : e \in {x \in Range(otree) : x.type = "file"}} = Metadata \cup {oident} \cup OCIBlobs(oident)
       /\ \A e \in Range(otree) : e.type = "file" => Intact(e)
=============================================================================
