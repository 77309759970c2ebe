------------------------- MODULE BackedEntry_proof -------------------------
(***************************************************************************)
(* The safety of a BackedEntry, and that it implements ValueStore, for any *)
(* number of threads, values and failures, and for every kind of cell.     *)
(*                                                                         *)
(* Two facts carry it.  While a load is under way the disk stands still    *)
(* and the cell is empty or holds what the disk does (Loading).  While the *)
(* disk is being written it reads as nothing, and what is encoded is what  *)
(* memory holds or will hold; an asynchronous handle never changes memory  *)
(* (Owning).                                                               *)
(***************************************************************************)
EXTENDS BackedEntry, TLAPS

Loading ==
  /\ \A t \in Threads :
       /\ at[t] # "idle" => owner = "idle"
       /\ at[t] \in {"reading", "storing"} => memory \in {NoValue, disk}
       /\ at[t] = "storing" => got[t] = disk /\ disk # NoValue
       /\ at[t] = "holding" => got[t] = memory /\ memory # NoValue /\ t \in current
  /\ setting # Nobody => memory = NoValue /\ cell = "tokio" /\ at[setting] = "storing"

Owning ==
  /\ owner \in Encodings => content \in Values /\ disk = NoValue
  /\ owner \in {"update", "flush", "drop", "a_update", "a_flush"} => memory = content
  /\ owner \in {"write_unload", "a_write_unload"} => memory = NoValue
  /\ owner \in InHandle => memory # NoValue
  /\ cell = "async" /\ owner \in {"idle", "handle"} => memory \in {NoValue, disk} \/ spoilt

IInv == TypeOK /\ Loading /\ Owning /\ MemoryIsSaved

LEMMA InvInit == Init => IInv
<1> SUFFICES ASSUME Init PROVE IInv
  OBVIOUS
<1> USE ConstantsAssumption
<1>1. TypeOK
  <2>1. 0 \in 0..MaxFailures
    OBVIOUS
  <2> QED
    BY <2>1, Zenon DEF Init, TypeOK
<1>2. Loading /\ Owning /\ MemoryIsSaved
  BY DEF Init, Loading, Owning, MemoryIsSaved, Cells, Cancellable, Encodings, InHandle
<1> QED
  BY <1>1, <1>2 DEF IInv

\* A load changes neither the disk nor the owner, and the cell only from empty
\* to what the disk holds.
LEMMA LoadStep ==
  ASSUME IInv, NEW t \in Threads, Load(t)
  PROVE  /\ IInv'
         /\ disk' = disk
         /\ memory' = memory \/ (memory = NoValue /\ memory' = disk)
<1> USE ConstantsAssumption
     DEF IInv, TypeOK, Loading, Owning, MemoryIsSaved, Cells, Cancellable, Encodings, InHandle,
         Shared, Fails, Hold
<1>1. CASE LoadFromMemory(t)
  BY <1>1 DEF LoadFromMemory
<1>2. CASE LoadMisses(t)
  BY <1>2 DEF LoadMisses
<1>3. CASE LoadDecodes(t)
  BY <1>3 DEF LoadDecodes
<1>4. CASE LoadFails(t)
  BY <1>4 DEF LoadFails
<1>5. CASE Store(t)
  BY <1>5 DEF Store
<1>6. CASE BeginSet(t)
  BY <1>6 DEF BeginSet
<1>7. CASE EndSet(t)
  BY <1>7 DEF EndSet
<1>8. CASE Fetch(t)
  BY <1>8 DEF Fetch
<1>9. CASE Return(t)
  BY <1>9 DEF Return
<1>10. CASE ALoadClaim(t)
  BY <1>10 DEF ALoadClaim
<1>11. CASE ALoadWaits(t)
  BY <1>11 DEF ALoadWaits
<1>12. CASE ALoadEnds(t)
  BY <1>12 DEF ALoadEnds
<1>13. CASE ALoadDropped(t)
  BY <1>13 DEF ALoadDropped
<1> QED
  BY <1>1, <1>2, <1>3, <1>4, <1>5, <1>6, <1>7, <1>8, <1>9, <1>10, <1>11, <1>12, <1>13
  DEF Load

LEMMA FailsCounts == TypeOK /\ Fails => failures' \in 0..MaxFailures
BY ConstantsAssumption DEF TypeOK, Fails

LEMMA OwnStep ==
  ASSUME IInv, Own
  PROVE  IInv'
<1> USE ConstantsAssumption
     DEF IInv, TypeOK, Loading, Owning, MemoryIsSaved, Cells, Cancellable, Encodings, InHandle,
         Exclusive, Fails, OpenFails, BeginEncoding, Loaded, loads
<1>1. ASSUME NEW v \in Values, Write(v) PROVE IInv'
  BY <1>1 DEF Write
<1>2. ASSUME NEW v \in Values, WriteUnload(v) PROVE IInv'
  <2>1. CASE BeginEncoding("write_unload", v)
    BY <1>2, <2>1 DEF WriteUnload
  <2>2. CASE OpenFails
    <3>1. TypeOK'
      BY <1>2, <2>2, FailsCounts DEF WriteUnload
    <3>2. Loading' /\ Owning' /\ MemoryIsSaved'
      BY <1>2, <2>2 DEF WriteUnload
    <3> QED
      BY <3>1, <3>2
  <2> QED
    BY <1>2, <2>1, <2>2 DEF WriteUnload
<1>3. ASSUME NEW v \in Values, DerefMut(v) PROVE IInv'
  BY <1>3 DEF DerefMut
<1>4. CASE Update
  BY <1>4 DEF Update
<1>5. CASE Unload
  BY <1>5 DEF Unload
<1>6. CASE ChangeBacking
  BY <1>6 DEF ChangeBacking
<1>7. CASE MutHandle
  BY <1>7 DEF MutHandle
<1>8. CASE Flush
  BY <1>8 DEF Flush
<1>9. CASE DropHandle
  <2>1. CASE modified /\ BeginEncoding("drop", memory)
    BY <1>9, <2>1 DEF DropHandle
  <2>2. CASE modified /\ owner' = "idle"
    <3>1. TypeOK'
      BY <1>9, <2>2, FailsCounts DEF DropHandle
    <3>2. Loading' /\ Owning' /\ MemoryIsSaved'
      BY <1>9, <2>2 DEF DropHandle
    <3> QED
      BY <3>1, <3>2
  <2>3. CASE ~modified
    BY <1>9, <2>3 DEF DropHandle
  <2> QED
    BY <1>9, <2>1, <2>2, <2>3 DEF DropHandle
<1>10. CASE Encoded
  BY <1>10 DEF Encoded, AfterEncoding
<1>11. CASE EncodingFails
  <2>1. TypeOK'
    BY <1>11, FailsCounts DEF EncodingFails, AfterEncoding
  <2>2. Loading' /\ Owning' /\ MemoryIsSaved'
    BY <1>11, <2>1 DEF EncodingFails, AfterEncoding
  <2> QED
    BY <2>1, <2>2
<1> QED
  BY <1>1, <1>2, <1>3, <1>4, <1>5, <1>6, <1>7, <1>8, <1>9, <1>10, <1>11 DEF Own

LEMMA AOwnStep ==
  ASSUME IInv, AOwn
  PROVE  IInv'
<1> USE ConstantsAssumption
     DEF IInv, TypeOK, Loading, Owning, MemoryIsSaved, Cells, Cancellable,
         Encodings, InHandle, Exclusive, Fails, OpenFails, BeginEncoding, Loaded, loads
<1>1. ASSUME NEW v \in Values, AWrite(v) PROVE IInv'
  BY <1>1 DEF AWrite
<1>2. ASSUME NEW v \in Values, AWriteUnload(v) PROVE IInv'
  <2>1. CASE BeginEncoding("a_write_unload", v)
    BY <1>2, <2>1 DEF AWriteUnload
  <2>2. CASE OpenFails
    <3>1. TypeOK'
      BY <1>2, <2>2, FailsCounts DEF AWriteUnload
    <3>2. Loading' /\ Owning' /\ MemoryIsSaved'
      BY <1>2, <2>2 DEF AWriteUnload
    <3> QED
      BY <3>1, <3>2
  <2> QED
    BY <1>2, <2>1, <2>2 DEF AWriteUnload
<1>3. CASE AUpdate
  BY <1>3 DEF AUpdate
<1>4. CASE ADerefMut
  BY <1>4 DEF ADerefMut
<1>5. CASE AFlush
  BY <1>5 DEF AFlush
<1>6. CASE ADropHandle
  BY <1>6 DEF ADropHandle
<1>7. CASE AMutHandle
  BY <1>7 DEF AMutHandle
<1>8. ASSUME NEW c \in Cells, NEW d \in Cells, Convert(c, d) PROVE IInv'
  BY <1>8 DEF Convert
<1> QED
  BY <1>1, <1>2, <1>3, <1>4, <1>5, <1>6, <1>7, <1>8 DEF AOwn, AChangeBacking, ToSync, FromSync

LEMMA RestartStep ==
  ASSUME IInv, Restart
  PROVE  IInv'
BY ConstantsAssumption
   DEF IInv, TypeOK, Loading, Owning, MemoryIsSaved, Cells, Cancellable, Encodings, InHandle,
       Restart

LEMMA InvNext == IInv /\ [Next]_vars => IInv'
<1> SUFFICES ASSUME IInv, [Next]_vars PROVE IInv'
  OBVIOUS
<1>1. CASE UNCHANGED vars
  BY <1>1 DEF vars, loads, IInv, TypeOK, Loading, Owning, MemoryIsSaved
<1> QED
  BY <1>1, LoadStep, OwnStep, AOwnStep, RestartStep DEF Next

LEMMA Invariant == Spec => []IInv
BY InvInit, InvNext, PTL DEF Spec

\* The cell, the disk, the threads and the handle keep their types, and the
\* mark of a handle is set only while there is one.
THEOREM TypeCorrect == Spec => []TypeOK
BY Invariant, PTL DEF IInv

\* Threads that race to load get the one value of the cell
\* (entry/sync_impl.rs:55-64).
THEOREM RacingLoadsAgree == Spec => []LoadsAgree
<1>1. IInv => LoadsAgree
  BY DEF IInv, TypeOK, Loading, LoadsAgree
<1> QED
  BY <1>1, Invariant, PTL

\* What is in memory is on disk, unless a handle is marked or a write has
\* failed (entry/sync_impl.rs:189-192).
THEOREM UnmarkedMemoryIsSaved == Spec => []MemoryIsSaved
BY Invariant, PTL DEF IInv

-----------------------------------------------------------------------------
(***************************************************************************)
(* Every step is one of the store's, or shows nothing.                     *)
(***************************************************************************)
Simulated == Abstract!Next \/ UNCHANGED Abstract!vars

\* Whether a value is being written follows from the operation.
LEMMA PhaseIs ==
  /\ owner = "idle" => Phase = "shared"
  /\ owner = "handle" => Phase = "handle"
  /\ owner \in {"flush", "a_flush"} => Phase = "flushing"
  /\ owner \in Encodings \ {"flush", "a_flush"} => Phase = "writing"
  /\ owner \in {"idle", "handle"} => Encoding = NoValue
  /\ owner \in Encodings => Encoding = content
  /\ Abstract!After = IF Phase = "flushing" THEN "handle" ELSE "shared"
BY DEF Phase, Encoding, Encodings, Cancellable, Abstract!After

LEMMA PhaseWillBe ==
  /\ owner' = "idle" => Phase' = "shared"
  /\ owner' = "handle" => Phase' = "handle"
  /\ owner' \in {"flush", "a_flush"} => Phase' = "flushing"
  /\ owner' \in Encodings \ {"flush", "a_flush"} => Phase' = "writing"
  /\ owner' \in {"idle", "handle"} => Encoding' = NoValue
  /\ owner' \in Encodings => Encoding' = content'
BY DEF Phase, Encoding, Encodings, Cancellable

\* A load gives its thread the current value, or leaves it with none.
LEMMA LoadGives ==
  ASSUME IInv, NEW t \in Threads, Load(t)
  PROVE  /\ owner = "idle" /\ owner' = "idle" /\ disk' = disk
         /\ \A u \in Threads \ {t} : at'[u] = at[u] /\ got'[u] = got[u]
         /\ at'[t] = "holding" =>
              at[t] # "holding" /\ memory' # NoValue /\ got'[t] = memory'
<1> USE ConstantsAssumption DEF IInv, TypeOK, Loading, Shared, Hold
<1>1. CASE LoadFromMemory(t)
  BY <1>1 DEF LoadFromMemory
<1>2. CASE LoadMisses(t) \/ LoadDecodes(t) \/ LoadFails(t)
  BY <1>2 DEF LoadMisses, LoadDecodes, LoadFails
<1>3. CASE Store(t)
  BY <1>3 DEF Store
<1>4. CASE BeginSet(t) \/ EndSet(t)
  BY <1>4 DEF BeginSet, EndSet
<1>5. CASE Fetch(t)
  BY <1>5 DEF Fetch
<1>6. CASE Return(t)
  BY <1>6 DEF Return
<1>7. CASE ALoadClaim(t) \/ ALoadWaits(t) \/ ALoadDropped(t)
  BY <1>7 DEF ALoadClaim, ALoadWaits, ALoadDropped
<1>8. CASE ALoadEnds(t)
  BY <1>8 DEF ALoadEnds
<1> QED
  BY <1>1, <1>2, <1>3, <1>4, <1>5, <1>6, <1>7, <1>8 DEF Load

LEMMA LoadSimulates ==
  ASSUME IInv, NEW t \in Threads, Load(t)
  PROVE  Simulated
<1> USE DEF TypeOK
<1>0. TypeOK /\ TypeOK'
  BY LoadStep DEF IInv
<1>1. Loaded' = Loaded /\ (memory' # NoValue => Loaded = memory')
  BY LoadStep DEF Loaded
<1>2. Phase = "shared" /\ Phase' = Phase /\ Encoding' = Encoding /\ disk' = disk
  BY LoadGives, PhaseIs, PhaseWillBe
<1>3. CASE at'[t] = "holding"
  <2>1. Given[t] = NoValue /\ Given' = [Given EXCEPT ![t] = Loaded] /\ Loaded # NoValue
    BY <1>0, <1>1, <1>3, LoadGives DEF Given
  <2>2. Abstract!Give(t)
    BY <1>1, <1>2, <2>1 DEF Abstract!Give
  <2> QED
    BY <2>2 DEF Simulated, Abstract!Next
<1>4. CASE at'[t] # "holding"
  <2>1. Given' = [Given EXCEPT ![t] = NoValue]
    BY <1>0, <1>4, LoadGives DEF Given
  <2>2. Abstract!GiveBack(t)
    BY <1>1, <1>2, <2>1 DEF Abstract!GiveBack
  <2> QED
    BY <2>2 DEF Simulated, Abstract!Next
<1> QED
  BY <1>3, <1>4

LEMMA ExclusiveIsAlone == Exclusive => Abstract!Alone
BY DEF Exclusive, loads, Abstract!Alone, Given

LEMMA ConvertIsAlone == ASSUME NEW c, NEW d, Convert(c, d) PROVE Abstract!Alone
BY DEF Convert, loads, Abstract!Alone, Given

LEMMA OwnSimulates ==
  ASSUME IInv, Own
  PROVE  Simulated
<1> USE ConstantsAssumption, PhaseIs, PhaseWillBe, ExclusiveIsAlone
     DEF IInv, TypeOK, Owning, Encodings, Cancellable, InHandle, OpenFails, BeginEncoding,
         Loaded, Simulated, Abstract!Next, Abstract!vars
<1>0. Exclusive => Given' = Given
  BY DEF Exclusive, loads, Given
<1>1. ASSUME NEW v \in Values, Write(v) PROVE Simulated
  BY <1>0, <1>1 DEF Write, Abstract!BeginWrite
<1>2. ASSUME NEW v \in Values, WriteUnload(v) PROVE Simulated
  BY <1>2 DEF WriteUnload, Abstract!BeginWrite, Abstract!Revert
<1>3. ASSUME NEW v \in Values, DerefMut(v) PROVE Simulated
  BY <1>3 DEF DerefMut, Abstract!Modify
<1>4. CASE Update
  BY <1>0, <1>4 DEF Update, Abstract!BeginSave
<1>5. CASE Unload
  BY <1>5 DEF Unload, Abstract!Revert
<1>6. CASE ChangeBacking
  BY <1>6 DEF ChangeBacking, Abstract!Move
<1>7. CASE MutHandle
  BY <1>7 DEF MutHandle, Abstract!OpenHandle
<1>8. CASE Flush
  BY <1>0, <1>8 DEF Flush, Abstract!BeginSave
<1>9. CASE DropHandle
  <2>1. CASE modified /\ BeginEncoding("drop", memory)
    BY <1>9, <2>1 DEF DropHandle, Abstract!BeginSave
  <2>2. CASE owner' = "idle"
    <3>1. Abstract!CloseHandle
      BY <1>9, <2>2 DEF DropHandle, Abstract!CloseHandle
    <3> QED
      BY <3>1
  <2> QED
    BY <1>9, <2>1, <2>2 DEF DropHandle
<1>10. CASE Encoded
  BY <1>10 DEF Encoded, AfterEncoding, Abstract!EndWrite
<1>11. CASE EncodingFails
  BY <1>11 DEF EncodingFails, AfterEncoding, Abstract!WriteFails
<1> QED
  BY <1>1, <1>2, <1>3, <1>4, <1>5, <1>6, <1>7, <1>8, <1>9, <1>10, <1>11, Zenon DEF Own

LEMMA AOwnSimulates ==
  ASSUME IInv, AOwn
  PROVE  Simulated
<1> USE ConstantsAssumption, PhaseIs, PhaseWillBe, ExclusiveIsAlone
     DEF IInv, TypeOK, Owning, Encodings, Cancellable, InHandle, OpenFails, BeginEncoding,
         Loaded, Simulated, Abstract!Next, Abstract!vars
<1>0. Exclusive => Given' = Given
  BY DEF Exclusive, loads, Given
<1>1. ASSUME NEW v \in Values, AWrite(v) PROVE Simulated
  BY <1>0, <1>1 DEF AWrite, Abstract!BeginWrite
<1>2. ASSUME NEW v \in Values, AWriteUnload(v) PROVE Simulated
  BY <1>2 DEF AWriteUnload, Abstract!BeginWrite, Abstract!Revert
<1>3. CASE AUpdate
  BY <1>0, <1>3 DEF AUpdate, Abstract!BeginSave
<1>4. CASE AMutHandle
  BY <1>4 DEF AMutHandle, Abstract!OpenHandle
<1>5. CASE ADerefMut
  BY <1>0, <1>5 DEF ADerefMut
<1>6. CASE AFlush
  BY <1>0, <1>6 DEF AFlush, Abstract!BeginSave
<1>7. CASE ADropHandle
  BY <1>7 DEF ADropHandle, Abstract!CloseHandle
<1>8. ASSUME NEW c \in Cells, NEW d \in Cells, Convert(c, d) PROVE Simulated
  <2>1. Abstract!Alone
    BY <1>8, ConvertIsAlone
  <2>2. Abstract!Move
    BY <1>8, <2>1 DEF Convert, Abstract!Move
  <2> QED
    BY <2>2
<1> QED
  BY <1>1, <1>2, <1>3, <1>4, <1>5, <1>6, <1>7, <1>8 DEF AOwn, AChangeBacking, ToSync, FromSync, Cells

LEMMA RestartSimulates == IInv /\ Restart => Abstract!Restart
BY PhaseWillBe DEF IInv, TypeOK, Restart, Loaded, Given, Abstract!Restart

\* A BackedEntry is a current value with a saved value behind it: each of the
\* threads that race to load is given the current value, loading changes
\* neither of the two, what a write has begun with is what it ends with, and the
\* value is changed by a handle, a write, or falling back on the disk alone
\* (entry/sync_impl.rs:33-105, 175-237).
THEOREM EntryImplementsStore == Spec => ImplementsValueStore
<1>1. Init => Abstract!Init
  BY PhaseIs DEF Init, Abstract!Init, Loaded, Given
<1>2. IInv /\ [Next]_vars => [Abstract!Next]_(Abstract!vars)
  <2> SUFFICES ASSUME IInv, [Next]_vars
               PROVE  Simulated
    BY DEF Simulated
  <2>1. CASE UNCHANGED vars
    BY <2>1 DEF vars, loads, Loaded, Given, Phase, Encoding, Simulated, Abstract!vars
  <2>2. CASE Restart
    BY <2>2, RestartSimulates DEF Simulated, Abstract!Next
  <2> QED
    BY <2>1, <2>2, LoadSimulates, OwnSimulates, AOwnSimulates DEF Next
<1> QED
  BY <1>1, <1>2, Invariant, PTL DEF Spec, ImplementsValueStore, Abstract!Spec
=============================================================================
