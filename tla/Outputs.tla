------------------------------- MODULE Outputs -------------------------------
(***************************************************************************)
(* What becomes of a build's outputs: the archive of an image is inspected *)
(* and published or extracted, a directory is packed or copied. The two    *)
(* share nothing; files under the output root change while both are read.  *)
(***************************************************************************)
EXTENDS OCIArtifact, OutputCommit

OutputsInit == OCIInit /\ CommitInit

OutputsNext ==
  \/ OCINext /\ UNCHANGED commitVars
  \/ CommitNext /\ UNCHANGED ociVars

OutputsSpec == OutputsInit /\ [][OutputsNext]_<<ociVars, commitVars>>

-----------------------------------------------------------------------------
\* What is handed over of an output is the output that was inspected, be it an
\* OCI archive (buildworker/oci.go) or a directory (buildworker/artifact.go,
\* buildregistry/static.go), whoever changes it meanwhile, as far as the
\* digests taken before and after can tell.
OutputsAreExact == ArtifactIsExact /\ CommittedCopyIsExact
=============================================================================
