---------------------------- MODULE MCSourcePlane ----------------------------
(* A small instance of source ingestion.                                   *)
EXTENDS SourcePlane

CONSTANTS u1, f1, c1, c2, g1, g2, straight, reversed, partial, rebuilt

MCPolicy == [Version |-> "v1", MaxArchiveBytes |-> 4, MaxExpandedBytes |-> 4, MaxFileBytes |-> 2,
             MaxEntries |-> 3, MaxPathBytes |-> 8, MaxCompressionRatio |-> 2]

File(path, blob) == [path |-> path, fold |-> path, kind |-> "file", size |-> 1, blob |-> blob,
                     exec |-> FALSE, privileged |-> FALSE, secret |-> FALSE, lfs |-> FALSE]
Served(entries) == [entries |-> entries, bytes |-> 2, parts |-> <<1, 1>>,
                    header |-> "none", roots |-> 1]

MCTrees    == f1 :> [truncated |-> FALSE, sha |-> "t1", treeSHA |-> "t1", entries |-> <<File("b", 2), File("a", 1)>>]

\* Two orders of the same files, an archive that lacks one of them, and the
\* archive a fetch repacks.
MCContent  == (straight :> Served(<<File("a", 1), File("b", 2)>>))
           @@ (reversed :> Served(<<File("b", 2), File("a", 1)>>))
           @@ (partial  :> Served(<<File("a", 1)>>))
           @@ (rebuilt  :> repacked(resolveTree(MCTrees[f1])))
MCGranted  == u1 :> straight
MCMetadata == [r \in Requests |-> IF r \in Uploads THEN "local" ELSE "git"]

\* An upload and a fetch share no object and no slot: one kind at a time.
MCTogether == {Uploads, Fetches}
=============================================================================
