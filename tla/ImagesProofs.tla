---------------------------- MODULE ImagesProofs -----------------------------
(***************************************************************************)
(* Proofs about Images. The inductive invariant ties the row of an image   *)
(* to its build fiber, to the requests in the adapter and to the directory *)
(* on disk, and counts the slots; the safety properties and the refinement *)
(* of ImageTable follow from it.                                           *)
(***************************************************************************)
EXTENDS Images, FiniteSetTheorems, TLAPS

\* What a fiber says about the row of its image.
JobInv ==
  \A i \in Images :
    /\ job[i] \in {"none", "prepare"} => row[i] = "none"
    /\ job[i] \in {"queued", "build", "import", "clean"} => row[i] = "BUILDING"
    /\ job[i] \in {"none", "prepare", "queued", "build"} =>
         i \notin stored /\ i \notin requested /\ importing # i
    /\ i \in dirs => row[i] \in {"none", "BUILDING"}

\* What a row says about containerd and the adapter.
RowInv ==
  \A i \in Images :
    /\ row[i] = "none" => i \notin stored /\ i \notin requested
    /\ row[i] = "READY" => i \in stored /\ i \notin requested
    /\ row[i] = "DELETED" => i \notin stored
    /\ importing = i => row[i] \in {"BUILDING", "ERROR", "DELETING"} /\ i \notin requested

UseInv ==
  /\ ~ up => uploads = 0
  /\ \A s \in Sandboxes : use[s] # None => row[use[s]] = "READY"
  /\ \A s \in container : use[s] # None
  /\ \A d \in Deleters : deleting[d] # None => row[deleting[d]] \in {"DELETING", "DELETED"}

\* Only a running process has fibers.
SlotInv == SlotsAreCounted /\ (~ up => InFlight = {})

IndInv == TypeOK /\ JobInv /\ RowInv /\ UseInv /\ SlotInv

-----------------------------------------------------------------------------
(* Slots.                                                                  *)

LEMMA InFlightIsFinite ==
  /\ IsFiniteSet(InFlight)
  /\ Cardinality(InFlight) \in Nat
BY ImagesAssumption, FS_Subset, FS_CardinalityType DEF InFlight

\* A step that changes no job and neither directories nor the counter.
LEMMA SlotsUntouched ==
  ASSUME SlotInv, UNCHANGED <<up, pending, job, dirs>>
  PROVE  SlotInv'
BY DEF SlotInv, SlotsAreCounted, InFlight

\* A job moves on and keeps its slot.
LEMMA SlotKept ==
  ASSUME TypeOK, SlotInv, NEW i \in InFlight, NEW to \in JobStates \ {"none", "done"},
         job' = [job EXCEPT ![i] = to], UNCHANGED <<up, pending, dirs>>
  PROVE  SlotInv'
<1>1. InFlight' = InFlight
  BY DEF InFlight, TypeOK
<1> QED
  BY <1>1 DEF SlotInv, SlotsAreCounted

LEMMA SlotTaken ==
  ASSUME IndInv, NEW i \in Images, Prepare(i)
  PROVE  SlotInv' /\ pending' \in Nat
<1> USE DEF IndInv
<1>1. i \notin InFlight /\ InFlight' = InFlight \cup {i}
  BY DEF InFlight, TypeOK, Prepare
<1>2. Cardinality(InFlight') = Cardinality(InFlight) + 1
  BY <1>1, InFlightIsFinite, FS_AddElement
<1>3. pending' = pending + 1 /\ pending < MaxPending /\ dirs' = dirs \cup {i} /\ up' = up /\ up
  BY DEF Prepare, SlotFree, UseInv, TypeOK
<1> QED
  BY <1>1, <1>2, <1>3, InFlightIsFinite, ImagesAssumption DEF SlotInv, SlotsAreCounted

\* A job ends and gives its slot back.
LEMMA SlotReturned ==
  ASSUME TypeOK, SlotInv, NEW i \in InFlight, EndJob(i), up' = up
  PROVE  SlotInv' /\ pending' \in Nat
<1>1. InFlight' = InFlight \ {i}
  BY DEF InFlight, TypeOK, EndJob
<1>2. Cardinality(InFlight') = Cardinality(InFlight) - 1 /\ Cardinality(InFlight') \in Nat
  BY <1>1, InFlightIsFinite, FS_RemoveElement, FS_CardinalityType
<1>3. pending' = pending - 1 /\ dirs' = dirs \ {i}
  BY DEF EndJob
<1> QED
  BY <1>1, <1>2, <1>3, InFlightIsFinite, ImagesAssumption DEF SlotInv, SlotsAreCounted

-----------------------------------------------------------------------------
(* The invariant is inductive.                                             *)

LEMMA InitInv == Init => IndInv
<1> SUFFICES ASSUME Init
             PROVE  IndInv
  OBVIOUS
<1>1. InFlight = {} /\ Cardinality(InFlight) = 0
  BY FS_EmptySet DEF Init, InFlight
<1>2. SlotInv
  BY <1>1, ImagesAssumption DEF Init, SlotInv, SlotsAreCounted
<1> QED
  <2>1. up \in BOOLEAN
    BY Zenon DEF Init
  <2>2. TypeOK
    BY <2>1, ImagesAssumption DEF Init, TypeOK, RowStates, JobStates
  <2>3. JobInv /\ RowInv /\ UseInv
    BY ImagesAssumption DEF Init, JobInv, RowInv, UseInv
  <2> QED
    BY <1>2, <2>2, <2>3 DEF IndInv

LEMMA SubmissionInv ==
  ASSUME IndInv,
         \/ Upload
         \/ UploadRejected
         \/ \E i \in Images : Prepare(i) \/ PrepareFails(i) \/ Submit(i)
  PROVE  IndInv'
<1> USE ImagesAssumption
<1> USE DEF IndInv, TypeOK, JobInv, RowInv, UseInv, RowStates, JobStates, table, api, adapter
<1>1. CASE Upload \/ UploadRejected
  BY <1>1, SlotsUntouched DEF Upload, UploadRejected
<1>2. ASSUME NEW i \in Images, Prepare(i)
      PROVE  IndInv'
  <2>1. SlotInv' /\ pending' \in Nat
    BY <1>2, SlotTaken
  <2>2. TypeOK'
    BY <1>2, <2>1 DEF Prepare
  <2>3. JobInv' /\ RowInv'
    BY <1>2 DEF Prepare
  <2>4. UseInv'
    BY <1>2 DEF Prepare
  <2> QED
    BY <2>1, <2>2, <2>3, <2>4
<1>3. ASSUME NEW i \in Images, PrepareFails(i)
      PROVE  IndInv'
  <2>1. i \in InFlight /\ EndJob(i) /\ up' = up
    BY <1>3 DEF PrepareFails, EndJob, InFlight
  <2>2. SlotInv' /\ pending' \in Nat
    BY <2>1, SlotReturned
  <2> QED
    BY <1>3, <2>2 DEF PrepareFails
<1>4. ASSUME NEW i \in Images, Submit(i)
      PROVE  IndInv'
  <2>1. SlotInv'
    BY <1>4, SlotKept DEF Submit, InFlight
  <2> QED
    BY <1>4, <2>1 DEF Submit
<1> QED
  BY <1>1, <1>2, <1>3, <1>4

LEMMA BuildInv ==
  ASSUME IndInv, NEW i \in Images,
         \/ LockBuild(i)
         \/ \E ok \in BOOLEAN : Built(i, ok)
         \/ Imported(i)
         \/ \E left \in SUBSET Images : ImportFails(i, left)
         \/ ImportLost(i)
         \/ \E gone \in BOOLEAN : Cleaned(i, gone)
  PROVE  IndInv'
<1> USE ImagesAssumption
<1> USE DEF IndInv, TypeOK, JobInv, RowInv, UseInv, RowStates, JobStates, table, api, adapter
<1>1. CASE LockBuild(i)
  <2>1. SlotInv'
    BY <1>1, SlotKept DEF LockBuild, InFlight
  <2> QED
    BY <1>1, <2>1 DEF LockBuild
<1>2. ASSUME NEW ok \in BOOLEAN, Built(i, ok)
      PROVE  IndInv'
  <2>1. SlotInv'
    BY <1>2, SlotKept DEF Built, InFlight
  <2> QED
    BY <1>2, <2>1 DEF Built
<1>3. CASE Imported(i)
  <2>1. i \in InFlight /\ EndJob(i) /\ up' = up
    BY <1>3 DEF Imported, InFlight
  <2>2. SlotInv' /\ pending' \in Nat
    BY <2>1, SlotReturned
  <2> QED
    BY <1>3, <2>2 DEF Imported, EndJob
<1>4. ASSUME NEW left \in SUBSET Images, ImportFails(i, left)
      PROVE  IndInv'
  <2>1. SlotInv'
    BY <1>4, SlotKept DEF ImportFails, InFlight
  <2> QED
    BY <1>4, <2>1 DEF ImportFails
<1>5. CASE ImportLost(i)
  <2>1. SlotInv'
    BY <1>5, SlotKept DEF ImportLost, InFlight
  <2> QED
    BY <1>5, <2>1 DEF ImportLost
<1>6. ASSUME NEW gone \in BOOLEAN, Cleaned(i, gone)
      PROVE  IndInv'
  <2>1. i \in InFlight /\ EndJob(i) /\ up' = up
    BY <1>6 DEF Cleaned, InFlight
  <2>2. SlotInv' /\ pending' \in Nat
    BY <2>1, SlotReturned
  <2> QED
    BY <1>6, <2>2 DEF Cleaned, EndJob, MuFree
<1> QED
  BY <1>1, <1>2, <1>3, <1>4, <1>5, <1>6

LEMMA AdapterInv ==
  ASSUME IndInv,
         \/ \E i \in Images : ImportBegins(i) \/ ImportRefused(i)
         \/ \E left \in SUBSET Images : LateImportEnds(left)
  PROVE  IndInv'
<1> USE ImagesAssumption
<1> USE DEF IndInv, TypeOK, JobInv, RowInv, UseInv, RowStates, JobStates, table, api, adapter
<1>1. ASSUME NEW i \in Images, ImportBegins(i)
      PROVE  IndInv'
  BY <1>1, SlotsUntouched DEF ImportBegins, MuFree
<1>2. ASSUME NEW i \in Images, ImportRefused(i)
      PROVE  IndInv'
  <2>1. CASE job[i] = "import"
    <3>1. SlotInv'
      BY <1>2, <2>1, SlotKept DEF ImportRefused, InFlight
    <3> QED
      BY <1>2, <2>1, <3>1 DEF ImportRefused
  <2>2. CASE job[i] # "import"
    <3>1. job' = job
      BY <1>2, <2>2 DEF ImportRefused
    <3> QED
      BY <1>2, <3>1, SlotsUntouched DEF ImportRefused
  <2> QED
    BY <2>1, <2>2
<1>3. ASSUME NEW left \in SUBSET Images, LateImportEnds(left)
      PROVE  IndInv'
  BY <1>3, SlotsUntouched DEF LateImportEnds
<1> QED
  BY <1>1, <1>2, <1>3

LEMMA DeletionInv ==
  ASSUME IndInv, Deletions
  PROVE  IndInv'
<1> USE ImagesAssumption
<1> USE DEF IndInv, TypeOK, JobInv, RowInv, UseInv, RowStates, JobStates, table, api, adapter
<1>1. ASSUME NEW d \in Deleters, NEW i \in Images, BeginDelete(d, i)
      PROVE  IndInv'
  BY <1>1, SlotsUntouched DEF BeginDelete, Unused
<1>2. ASSUME NEW d \in Deleters, Deleted(d)
      PROVE  IndInv'
  BY <1>2, SlotsUntouched DEF Deleted, MuFree
<1>3. ASSUME NEW d \in Deleters, NEW gone \in BOOLEAN, DeleteFails(d, gone)
      PROVE  IndInv'
  BY <1>3, SlotsUntouched DEF DeleteFails, MuFree
<1> QED
  BY <1>1, <1>2, <1>3 DEF Deletions

LEMMA UsesInv ==
  ASSUME IndInv, Uses
  PROVE  IndInv'
<1> USE ImagesAssumption
<1> USE DEF IndInv, TypeOK, JobInv, RowInv, UseInv, RowStates, JobStates, table, api, adapter
<1>1. PICK s \in Sandboxes : \/ \E i \in Images : Reserve(s, i)
                             \/ CreateContainer(s)
                             \/ DeleteContainer(s)
                             \/ Release(s)
  BY DEF Uses
<1>2. SlotInv'
  BY <1>1, SlotsUntouched DEF Reserve, CreateContainer, DeleteContainer, Release
<1> QED
  BY <1>1, <1>2 DEF Reserve, CreateContainer, DeleteContainer, Release

LEMMA ProcessInv ==
  ASSUME IndInv, Crash \/ Boot
  PROVE  IndInv'
<1> USE ImagesAssumption
<1> USE DEF IndInv, TypeOK, JobInv, RowInv, UseInv, RowStates, JobStates, table, api, adapter
<1>1. CASE Crash
  <2>1. InFlight' = {} /\ Cardinality(InFlight') = 0
    BY <1>1, FS_EmptySet DEF Crash, InFlight
  <2>2. SlotInv'
    BY <1>1, <2>1 DEF Crash, SlotInv, SlotsAreCounted
  <2> QED
    <3>0. up' \in BOOLEAN
      BY <1>1, Zenon DEF Crash
    <3>1. TypeOK'
      BY <1>1, <3>0 DEF Crash
    <3>2. JobInv'
      BY <1>1 DEF Crash
    <3>3. RowInv' /\ UseInv'
      BY <1>1 DEF Crash
    <3> QED
      BY <2>2, <3>1, <3>2, <3>3
<1>2. CASE Boot
  <2>1. InFlight = {} /\ InFlight' = {}
    BY <1>2 DEF Boot, InFlight, SlotInv
  <2>2. SlotInv'
    BY <1>2, <2>1 DEF Boot, SlotInv, SlotsAreCounted
  <2> QED
    BY <1>2, <2>1, <2>2 DEF Boot, Interrupted, InFlight
<1> QED
  BY <1>1, <1>2

LEMMA NextInv == IndInv /\ [Next]_vars => IndInv'
<1> SUFFICES ASSUME IndInv, [Next]_vars
             PROVE  IndInv'
  OBVIOUS
<1>1. CASE UNCHANGED vars
  <2>1. SlotInv'
    BY <1>1, SlotsUntouched DEF vars, api, IndInv
  <2> QED
    BY <1>1, <2>1
       DEF vars, table, api, adapter, IndInv, TypeOK, JobInv, RowInv, UseInv
<1>2. CASE Next
  BY <1>2, SubmissionInv, BuildInv, AdapterInv, DeletionInv, UsesInv, ProcessInv
     DEF Next, Builds
<1> QED
  BY <1>1, <1>2

-----------------------------------------------------------------------------
(* Theorems.                                                               *)

\* The invariant holds in every reachable state.
THEOREM Invariance == Spec => []IndInv
BY InitInv, NextInv, PTL DEF Spec

\* The variables of the image manager keep their types.
THEOREM TypeCorrect == Spec => []TypeOK
BY Invariance, PTL DEF IndInv

\* However many uploads are read at the same time, at most MaxPending builds
\* hold a slot, and every slot is accounted for.
THEOREM SlotsAreAlwaysCounted == Spec => []SlotsAreCounted
BY Invariance, PTL DEF IndInv, SlotInv

\* A READY image always has its reference in containerd.
THEOREM ReadyIsAlwaysStored == Spec => []ReadyIsStored
<1>1. IndInv => ReadyIsStored
  BY DEF IndInv, RowInv, ReadyIsStored
<1> QED
  BY <1>1, Invariance, PTL

\* A deleted image leaves nothing in containerd and no import under way.
THEOREM DeletedIsAlwaysRemoved == Spec => []DeletedIsRemoved
<1>1. IndInv => DeletedIsRemoved
  BY DEF IndInv, RowInv, DeletedIsRemoved
<1> QED
  BY <1>1, Invariance, PTL

\* A container never outlives its image.
THEOREM ContainersAlwaysKeepImage == Spec => []ContainersKeepImage
<1>1. IndInv => ContainersKeepImage
  BY ImagesAssumption DEF IndInv, TypeOK, RowInv, UseInv, ContainersKeepImage
<1> QED
  BY <1>1, Invariance, PTL

\* Every step of the image manager is a step of the abstract table, or none.
THEOREM Refinement == Spec => ImplementsTable
<1>1. Init => Table!Init
  BY DEF Init, Table!Init
<1>2. ASSUME IndInv, [Next]_vars
      PROVE  [Table!Next]_row
  <2> USE DEF Table!Next, Table!Move, Table!Edges
  <2>0. \A i \in Images : row \in [Images -> RowStates]
    BY <1>2 DEF IndInv, TypeOK
  <2>1. ASSUME NEW i \in Images, NEW a, NEW b, <<a, b>> \in Table!Edges,
               row[i] = a, row' = [row EXCEPT ![i] = b]
        PROVE  Table!Next
    BY <2>1
  <2>2. CASE row' = row
    BY <2>2
  <2>3. ASSUME NEW i \in Images, Submit(i)
        PROVE  [Table!Next]_row
    BY <1>2, <2>1, <2>3 DEF Submit, IndInv, JobInv
  <2>4. ASSUME NEW i \in Images, Imported(i)
        PROVE  [Table!Next]_row
    BY <1>2, <2>1, <2>4 DEF Imported, IndInv, JobInv
  <2>5. ASSUME NEW i \in Images, NEW gone \in BOOLEAN, Cleaned(i, gone)
        PROVE  [Table!Next]_row
    BY <1>2, <2>1, <2>5 DEF Cleaned, IndInv, JobInv
  <2>6. ASSUME NEW d \in Deleters, NEW i \in Images, BeginDelete(d, i)
        PROVE  [Table!Next]_row
    BY <1>2, <2>0, <2>1, <2>6 DEF BeginDelete
  <2>7. ASSUME NEW d \in Deleters, Deleted(d)
        PROVE  [Table!Next]_row
    <3>1. deleting[d] \in Images /\ row[deleting[d]] \in {"DELETING", "DELETED"}
      BY <1>2, <2>7 DEF Deleted, IndInv, TypeOK, UseInv
    <3> QED
      BY <2>0, <2>1, <2>7, <3>1 DEF Deleted
  <2>8. CASE Boot
    BY <2>8 DEF Boot, Interrupted, Table!Interrupt
  <2> QED
    BY <1>2, <2>2, <2>3, <2>4, <2>5, <2>6, <2>7, <2>8
       DEF Next, Upload, UploadRejected, Builds, Prepare, PrepareFails, LockBuild, Built,
           ImportFails, ImportLost, ImportBegins, ImportRefused, LateImportEnds,
           Deletions, DeleteFails, Uses, Reserve, CreateContainer, DeleteContainer, Release,
           Crash, vars, table
<1> QED
  BY <1>1, <1>2, Invariance, PTL DEF Spec, ImplementsTable, Table!Spec

\* READY and DELETED rows agree with containerd at every step of imports,
\* deletions and restarts.
THEOREM StoreAlwaysAgrees == Spec => []StoreAgrees
<1>1. ReadyIsStored /\ DeletedIsRemoved => StoreAgrees
  BY DEF StoreAgrees
<1> QED
  BY <1>1, ReadyIsAlwaysStored, DeletedIsAlwaysRemoved, PTL
=============================================================================
