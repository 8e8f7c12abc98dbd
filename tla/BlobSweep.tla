------------------------------ MODULE BlobSweep ------------------------------
(***************************************************************************)
(* Files between their upload and their deletion: the two ways a file gets *)
(* into the blob store, the transaction that refers to it, and the sweep   *)
(* (src/src/jobs/blob-sweep.ts, lib/storage/blob.ts, middleware/upload.ts, *)
(* lib/upload-validation.ts, routes/attachments-upload.ts,                 *)
(* services/AttachmentService.ts, and the create, requestClose and         *)
(* addComment of services/TicketService.ts).                               *)
(*                                                                         *)
(* A file is stored before the transaction that inserts its Attachment     *)
(* row, so for a while a file that is wanted looks like one that is not.   *)
(* The sweep tells them apart by age: ORPHAN_GRACE_MS, one hour.           *)
(*                                                                         *)
(* Files are numbers in the order in which the store lists them.           *)
(***************************************************************************)
EXTENDS Naturals, FiniteSets

CONSTANTS
  MaxFiles,   \* files that are ever uploaded (bound)
  Procs,      \* requests in flight: each process serves one at a time
  Sweeps,     \* POST /jobs/blob-sweep calls that may overlap
  ListLimit   \* how many blobs one call of list() returns, the first ones

ASSUME BlobAssumption == MaxFiles \in Nat /\ ListLimit \in Nat

Files == 1 .. MaxFiles

VARIABLES
  blob,       \* blob[f]: not there yet, younger than the grace time, older, deleted
  attached,   \* attached[f]: the state of blob f when its row committed, or "no"
  req,        \* req[p]: the request that process p serves
  sweep       \* sweep[s]: the sweep s

vars == <<blob, attached, req, sweep>>

\* todo: files of the body still to store; own: stored by this request;
\* given: uploaded by the browser before, named by URL in the body.
NoRequest == [pc |-> "idle", todo |-> {}, own |-> {}, given |-> {}]
NoSweep == [pc |-> "idle", todo |-> {}]

Init ==
  /\ blob = [f \in Files |-> "none"]
  /\ attached = [f \in Files |-> "no"]
  /\ req = [p \in Procs |-> NoRequest]
  /\ sweep = [s \in Sweeps |-> NoSweep]

Stored(f) == blob[f] \in {"fresh", "old"}
Claimed == UNION {req[p].todo : p \in Procs}

-----------------------------------------------------------------------------
(* Upload and attach.                                                      *)

\* upload() of the browser with a token of POST /attachments/upload-url. The
\* request that names the file may follow, late, more than once or never.
BrowserUpload(f) ==
  /\ blob[f] = "none" /\ f \notin Claimed
  /\ blob' = [blob EXCEPT ![f] = "fresh"]
  /\ UNCHANGED <<attached, req, sweep>>

\* POST /tickets, /comments or /request-close, past multer and its checks.
Begin(p, body, given) ==
  /\ req[p].pc = "idle" /\ body \cup given # {}
  /\ \A f \in body : blob[f] = "none" /\ f \notin Claimed
  /\ \A f \in given : Stored(f)
  /\ req' = [req EXCEPT ![p] = [pc |-> "upload", todo |-> body, own |-> {},
                                given |-> given]]
  /\ UNCHANGED <<blob, attached, sweep>>

\* getStorage().upload(f), one of Promise.all.
Store(p, f) ==
  /\ req[p].pc = "upload" /\ f \in req[p].todo
  /\ blob' = [blob EXCEPT ![f] = "fresh"]
  /\ req' = [req EXCEPT ![p] = [pc |-> "upload", todo |-> @.todo \ {f},
                                own |-> @.own \cup {f}, given |-> @.given]]
  /\ UNCHANGED <<attached, sweep>>

\* validateBlobAttachment fetches the head of each given file.
Validate(p) ==
  /\ req[p].pc = "upload" /\ req[p].todo = {}
  /\ \A f \in req[p].given : Stored(f)
  /\ req' = [req EXCEPT ![p].pc = "tx"]
  /\ UNCHANGED <<blob, attached, sweep>>

\* The transaction commits with one Attachment row per file.
Commit(p) ==
  /\ req[p].pc = "tx"
  /\ attached' = [f \in Files |->
       IF f \in req[p].own \cup req[p].given /\ attached[f] = "no"
       THEN blob[f] ELSE attached[f]]
  /\ req' = [req EXCEPT ![p] = NoRequest]
  /\ UNCHANGED <<blob, sweep>>

\* An upload, a check or the transaction fails, or the process stops: no row,
\* and what was stored stays.
Fail(p) ==
  /\ req[p].pc # "idle"
  /\ req' = [req EXCEPT ![p] = NoRequest]
  /\ UNCHANGED <<blob, attached, sweep>>

\* An hour passes for f. No request lasts that long: what it stored itself is
\* fresh to its end.
Ripen(f) ==
  /\ blob[f] = "fresh"
  /\ \A p \in Procs : f \notin req[p].own
  /\ blob' = [blob EXCEPT ![f] = "old"]
  /\ UNCHANGED <<attached, req, sweep>>

\* AttachmentService.download finds the row and fetches its file.
Downloadable(f) == attached[f] # "no" /\ Stored(f)

-----------------------------------------------------------------------------
(* The sweep.                                                              *)

FirstPage ==
  {f \in Files : Stored(f) /\ Cardinality({g \in 1 .. f : Stored(g)}) <= ListLimit}

\* Mutant of List: no grace time.
ListAll(s) ==
  /\ sweep[s].pc = "idle"
  /\ sweep' = [sweep EXCEPT ![s] = [pc |-> "refs", todo |-> FirstPage]]
  /\ UNCHANGED <<blob, attached, req>>

\* now is read and list({ prefix }) returns its first page; those younger than
\* ORPHAN_GRACE_MS at now are passed over. Every file here is under the prefix;
\* the deployments without a blob store, where the job returns first, are not
\* modelled.
List(s) ==
  /\ sweep[s].pc = "idle"
  /\ sweep' = [sweep EXCEPT ![s] =
       [pc |-> "refs", todo |-> {f \in FirstPage : blob[f] = "old"}]]
  /\ UNCHANGED <<blob, attached, req>>

\* Mutant of ReadReferences: their keys are compared with the wrong column.
ReadNoReferences(s) ==
  /\ sweep[s].pc = "refs"
  /\ sweep' = [sweep EXCEPT ![s].pc = "delete"]
  /\ UNCHANGED <<blob, attached, req>>

\* Mutant of ReadReferences: the loop ends at the first referenced blob.
ReadReferencesBreak(s) ==
  /\ sweep[s].pc = "refs"
  /\ sweep' = [sweep EXCEPT ![s] =
       [pc |-> "delete",
        todo |-> {f \in @.todo : \A g \in @.todo : g <= f => attached[g] = "no"}]]
  /\ UNCHANGED <<blob, attached, req>>

\* attachment.findMany: the referenced ones are passed over too.
ReadReferences(s) ==
  /\ sweep[s].pc = "refs"
  /\ sweep' = [sweep EXCEPT ![s] =
       [pc |-> "delete", todo |-> {f \in @.todo : attached[f] = "no"}]]
  /\ UNCHANGED <<blob, attached, req>>

\* await del(b.url), in the order of the list. Deleting twice is no error.
Delete(s, f) ==
  /\ sweep[s].pc = "delete"
  /\ f \in sweep[s].todo /\ \A g \in sweep[s].todo : f <= g
  /\ blob' = [blob EXCEPT ![f] = "deleted"]
  /\ sweep' = [sweep EXCEPT ![s].todo = @ \ {f}]
  /\ UNCHANGED <<attached, req>>

End(s) ==
  /\ sweep[s].pc = "delete" /\ sweep[s].todo = {}
  /\ sweep' = [sweep EXCEPT ![s] = NoSweep]
  /\ UNCHANGED <<blob, attached, req>>

\* A call of the store or the query throws: the rest of the list is left.
SweepFails(s) ==
  /\ sweep[s].pc # "idle"
  /\ sweep' = [sweep EXCEPT ![s] = NoSweep]
  /\ UNCHANGED <<blob, attached, req>>

Next ==
  \/ \E f \in Files : BrowserUpload(f) \/ Ripen(f)
  \/ \E p \in Procs :
       \/ \E body, given \in SUBSET Files : Begin(p, body, given)
       \/ \E f \in Files : Store(p, f)
       \/ Validate(p) \/ Commit(p) \/ Fail(p)
  \/ \E s \in Sweeps :
       \/ List(s) \/ ReadReferences(s) \/ End(s) \/ SweepFails(s)
       \/ \E f \in Files : Delete(s, f)

\* Requests end, time passes, and the cron starts one sweep after the other, of
\* which not every one fails at the same step.
Fairness ==
  /\ \A p \in Procs : WF_vars(Fail(p) \/ Commit(p))
  /\ \A f \in Files : WF_vars(Ripen(f))
  /\ \A s \in Sweeps :
       /\ WF_vars(List(s)) /\ WF_vars(End(s)) /\ SF_vars(ReadReferences(s))
       /\ \A f \in Files : SF_vars(Delete(s, f))

Spec == Init /\ [][Next]_vars /\ Fairness
=============================================================================
