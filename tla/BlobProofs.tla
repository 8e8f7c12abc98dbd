------------------------------ MODULE BlobProofs ------------------------------
(***************************************************************************)
(* Theorems about module BlobSweep, for any number of files, requests and  *)
(* overlapping sweeps and any limit of list().                             *)
(*                                                                         *)
(* The argument is the grace time: a sweep holds only files that were old  *)
(* when it listed them, and an old file never becomes fresh again. What a  *)
(* request stored itself stays fresh to the commit, so a row that commits  *)
(* with a fresh file commits with one that no sweep holds.                 *)
(***************************************************************************)
EXTENDS BlobProperties, TLAPS

\* A file that some request still has to store is not in the store, and is
\* claimed by that request alone.
ClaimsAreFree ==
  /\ \A p \in Procs : \A f \in req[p].todo : blob[f] = "none"
  /\ \A p, q \in Procs : p # q => req[p].todo \cap req[q].todo = {}

\* A sweep holds old files, and deletes none whose row committed with a fresh one.
SweepsHoldOldFiles ==
  \A s \in Sweeps : \A f \in sweep[s].todo :
    /\ blob[f] \in {"old", "deleted"}
    /\ sweep[s].pc = "delete" => attached[f] # "fresh"

FreshRowsHaveFiles == \A f \in Files : attached[f] = "fresh" => Stored(f)

IInv ==
  /\ TypeOK
  /\ ClaimsAreFree
  /\ MidFlightIsSafe
  /\ SweepsHoldOldFiles
  /\ FreshRowsHaveFiles

LEMMA InitIInv == Init => IInv
BY DEF Init, IInv, TypeOK, Ages, NoRequest, NoSweep, ClaimsAreFree,
       MidFlightIsSafe, SweepsHoldOldFiles, FreshRowsHaveFiles

-----------------------------------------------------------------------------
(* One lemma per variable a step may change.                               *)

\* A file enters the store, or grows old.
LEMMA StoreSteps ==
  ASSUME IInv, NEW f \in Files, BrowserUpload(f) \/ Ripen(f)
  PROVE  IInv'
<1> USE DEF IInv, TypeOK, Ages
<1>1. CASE BrowserUpload(f)
  <2> USE <1>1 DEF BrowserUpload
  <2>1. TypeOK'
    OBVIOUS
  <2>2. ClaimsAreFree'
    BY DEF ClaimsAreFree, Claimed
  <2>3. MidFlightIsSafe'
    BY DEF MidFlightIsSafe
  <2>4. SweepsHoldOldFiles' /\ FreshRowsHaveFiles'
    BY DEF SweepsHoldOldFiles, FreshRowsHaveFiles, Stored
  <2> QED
    BY <2>1, <2>2, <2>3, <2>4
<1>2. CASE Ripen(f)
  <2> USE <1>2 DEF Ripen
  <2>1. TypeOK'
    OBVIOUS
  <2>2. ClaimsAreFree' /\ MidFlightIsSafe'
    BY DEF ClaimsAreFree, MidFlightIsSafe
  <2>3. SweepsHoldOldFiles' /\ FreshRowsHaveFiles'
    BY DEF SweepsHoldOldFiles, FreshRowsHaveFiles, Stored
  <2> QED
    BY <2>1, <2>2, <2>3
<1> QED
  BY <1>1, <1>2

\* A request begins.
LEMMA BeginStep ==
  ASSUME IInv, NEW p \in Procs, NEW body \in SUBSET Files,
         NEW given \in SUBSET Files, Begin(p, body, given)
  PROVE  IInv'
<1> USE DEF IInv, TypeOK, Begin
<1>1. TypeOK'
  OBVIOUS
<1>2. ClaimsAreFree'
  BY DEF ClaimsAreFree, Claimed
<1>3. MidFlightIsSafe'
  BY DEF MidFlightIsSafe
<1>4. SweepsHoldOldFiles' /\ FreshRowsHaveFiles'
  BY DEF SweepsHoldOldFiles, FreshRowsHaveFiles, Stored
<1> QED
  BY <1>1, <1>2, <1>3, <1>4

\* A request stores one of its files.
LEMMA StoreStep ==
  ASSUME IInv, NEW p \in Procs, NEW f \in Files, Store(p, f)
  PROVE  IInv'
<1> USE DEF IInv, TypeOK, Ages, Store
<1>1. blob[f] = "none"
  BY DEF ClaimsAreFree
<1>2. TypeOK'
  OBVIOUS
<1>3. ClaimsAreFree'
  BY DEF ClaimsAreFree
<1>4. MidFlightIsSafe'
  BY <1>1 DEF MidFlightIsSafe
<1>5. SweepsHoldOldFiles' /\ FreshRowsHaveFiles'
  BY <1>1 DEF SweepsHoldOldFiles, FreshRowsHaveFiles, Stored
<1> QED
  BY <1>2, <1>3, <1>4, <1>5

\* A request goes on to its transaction, commits or fails.
LEMMA EndSteps ==
  ASSUME IInv, NEW p \in Procs, Validate(p) \/ Commit(p) \/ Fail(p)
  PROVE  IInv'
<1> USE DEF IInv, TypeOK, Ages
<1>1. CASE Validate(p)
  <2> USE <1>1 DEF Validate
  <2>1. TypeOK'
    OBVIOUS
  <2>2. ClaimsAreFree' /\ MidFlightIsSafe'
    BY DEF ClaimsAreFree, MidFlightIsSafe
  <2>3. SweepsHoldOldFiles' /\ FreshRowsHaveFiles'
    BY DEF SweepsHoldOldFiles, FreshRowsHaveFiles, Stored
  <2> QED
    BY <2>1, <2>2, <2>3
<1>2. CASE Commit(p)
  <2> USE <1>2 DEF Commit, NoRequest
  <2>1. TypeOK'
    OBVIOUS
  <2>2. ClaimsAreFree' /\ MidFlightIsSafe'
    BY DEF ClaimsAreFree, MidFlightIsSafe
  <2>3. SweepsHoldOldFiles'
    BY DEF SweepsHoldOldFiles
  <2>4. FreshRowsHaveFiles'
    BY DEF FreshRowsHaveFiles, Stored
  <2> QED
    BY <2>1, <2>2, <2>3, <2>4
<1>3. CASE Fail(p)
  <2> USE <1>3 DEF Fail, NoRequest
  <2>1. TypeOK'
    OBVIOUS
  <2>2. ClaimsAreFree' /\ MidFlightIsSafe'
    BY DEF ClaimsAreFree, MidFlightIsSafe
  <2>3. SweepsHoldOldFiles' /\ FreshRowsHaveFiles'
    BY DEF SweepsHoldOldFiles, FreshRowsHaveFiles, Stored
  <2> QED
    BY <2>1, <2>2, <2>3
<1> QED
  BY <1>1, <1>2, <1>3

\* A sweep lists, reads the references, deletes, ends or fails.
LEMMA SweepSteps ==
  ASSUME IInv, NEW s \in Sweeps,
         \/ List(s) \/ ReadReferences(s) \/ End(s) \/ SweepFails(s)
         \/ \E f \in Files : Delete(s, f)
  PROVE  IInv'
<1> USE DEF IInv, TypeOK, Ages
<1>1. CASE List(s)
  <2> USE <1>1 DEF List, FirstPage
  <2>1. TypeOK'
    OBVIOUS
  <2>2. SweepsHoldOldFiles'
    BY DEF SweepsHoldOldFiles
  <2>3. ClaimsAreFree' /\ MidFlightIsSafe' /\ FreshRowsHaveFiles'
    BY DEF ClaimsAreFree, MidFlightIsSafe, FreshRowsHaveFiles, Stored
  <2> QED
    BY <2>1, <2>2, <2>3
<1>2. CASE ReadReferences(s)
  <2> USE <1>2 DEF ReadReferences
  <2>1. TypeOK'
    OBVIOUS
  <2>2. SweepsHoldOldFiles'
    BY DEF SweepsHoldOldFiles
  <2>3. ClaimsAreFree' /\ MidFlightIsSafe' /\ FreshRowsHaveFiles'
    BY DEF ClaimsAreFree, MidFlightIsSafe, FreshRowsHaveFiles, Stored
  <2> QED
    BY <2>1, <2>2, <2>3
<1>3. CASE End(s) \/ SweepFails(s)
  <2> USE <1>3 DEF End, SweepFails, NoSweep
  <2>1. TypeOK' /\ SweepsHoldOldFiles'
    <3>1. /\ UNCHANGED <<blob, attached, req>>
          /\ sweep' = [sweep EXCEPT ![s] = [pc |-> "idle", todo |-> {}]]
      OBVIOUS
    <3>2. TypeOK'
      BY <3>1
    <3>3. \A z \in Sweeps : sweep'[z] = IF z = s THEN [pc |-> "idle", todo |-> {}]
                                               ELSE sweep[z]
      BY <3>1
    <3>4. SweepsHoldOldFiles'
      BY <3>1, <3>3 DEF SweepsHoldOldFiles
    <3> QED
      BY <3>2, <3>4
  <2>2. ClaimsAreFree' /\ MidFlightIsSafe' /\ FreshRowsHaveFiles'
    BY DEF ClaimsAreFree, MidFlightIsSafe, FreshRowsHaveFiles, Stored
  <2> QED
    BY <2>1, <2>2
<1>4. ASSUME NEW f \in Files, Delete(s, f) PROVE IInv'
  <2> USE <1>4 DEF Delete
  <2>1. blob[f] \in {"old", "deleted"} /\ attached[f] # "fresh"
    BY DEF SweepsHoldOldFiles
  <2>2. TypeOK'
    OBVIOUS
  <2>3. ClaimsAreFree' /\ MidFlightIsSafe'
    BY <2>1 DEF ClaimsAreFree, MidFlightIsSafe
  <2>4. SweepsHoldOldFiles' /\ FreshRowsHaveFiles'
    BY <2>1 DEF SweepsHoldOldFiles, FreshRowsHaveFiles, Stored
  <2> QED
    BY <2>2, <2>3, <2>4
<1> QED
  BY <1>1, <1>2, <1>3, <1>4

LEMMA Inductive == IInv /\ [Next]_vars => IInv'
<1> SUFFICES ASSUME IInv, [Next]_vars PROVE IInv'
  OBVIOUS
<1>1. CASE UNCHANGED vars
  BY <1>1 DEF vars, IInv, TypeOK, ClaimsAreFree, MidFlightIsSafe,
              SweepsHoldOldFiles, FreshRowsHaveFiles, Stored
<1>2. CASE Next
  BY <1>2, StoreSteps, BeginStep, StoreStep, EndSteps, SweepSteps DEF Next
<1> QED
  BY <1>1, <1>2

LEMMA Invariance == Spec => []IInv
BY InitIInv, Inductive, PTL DEF Spec

\* The rows, requests and sweeps always have their types, and a transaction
\* starts only when every file of the body is stored.
THEOREM TypeCorrect == Spec => []TypeOK
<1>1. IInv => TypeOK
  BY DEF IInv
<1> QED
  BY <1>1, Invariance, PTL

\* However sweeps, uploads and transactions overlap, a file whose row committed
\* within the grace time is never swept (runBlobSweep).
THEOREM FreshFilesAreKept == Spec => []FreshFilesSurvive
<1>1. IInv => FreshFilesSurvive
  BY DEF IInv, FreshRowsHaveFiles, FreshFilesSurvive, Downloadable
<1> QED
  BY <1>1, Invariance, PTL

\* What a request stored itself is in the store until the request ends.
THEOREM MidFlightIsKept == Spec => []MidFlightIsSafe
<1>1. IInv => MidFlightIsSafe
  BY DEF IInv
<1> QED
  BY <1>1, Invariance, PTL
=============================================================================
