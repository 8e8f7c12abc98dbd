---------------------------- MODULE BlobProperties ----------------------------
(***************************************************************************)
(* What the blob store keeps and what the sweep removes.                   *)
(***************************************************************************)
EXTENDS BlobSweep

Ages == {"none", "fresh", "old", "deleted"}

\* Types; a transaction starts only when every file of the body is stored.
TypeOK ==
  /\ blob \in [Files -> Ages]
  /\ attached \in [Files -> Ages \cup {"no"}]
  /\ req \in [Procs -> [pc : {"idle", "upload", "tx"}, todo : SUBSET Files,
                        own : SUBSET Files, given : SUBSET Files]]
  /\ \A p \in Procs : req[p].pc = "tx" => req[p].todo = {}
  /\ sweep \in [Sweeps -> [pc : {"idle", "refs", "delete"}, todo : SUBSET Files]]

\* A file whose row committed within the grace time of its upload can always be
\* downloaded: no sweep deletes it, whichever of its statements the upload and
\* the commit fall between. This covers every file that goes through multer.
FreshFilesSurvive ==
  \A f \in Files : attached[f] = "fresh" => Downloadable(f)

\* While a request is between its upload and its commit, what it stored itself
\* is there: "a fresh unreferenced blob is likely mid-flight, not orphaned".
MidFlightIsSafe ==
  \A p \in Procs : \A f \in req[p].own : blob[f] = "fresh"

\* What no transaction refers to goes in the end, also when requests fail half
\* way and sweeps fail now and then. It needs a list() that returns all there is:
\* with a shorter page the run ShortPage refutes it.
OrphansGo ==
  \A f \in Files :
    Stored(f) /\ attached[f] = "no" ~> blob[f] = "deleted" \/ attached[f] # "no"

\* "keeps anything still referenced by an `Attachment` row" (jobs/blob-sweep.ts):
\* also what is attached between the sweep's query and its deletions.
ReferencedSurvive ==
  \A f \in Files : attached[f] # "no" => Downloadable(f)
=============================================================================
