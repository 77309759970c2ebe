---------------------------- MODULE ArrayIterMut ----------------------------
(***************************************************************************)
(* `BackedArrayIterMut` (src/src/array/sync_impl/slice.rs) and its generic *)
(* twin (generic.rs) with the `CountedHandle`s they give out (mod.rs) and  *)
(* the `BackedEntryMut` these share (entry/sync_impl.rs): one walk over an *)
(* array, with item handles that threads write through, flush and drop in  *)
(* any order, before or after the iterator is dropped.  Or one walk of the *)
(* chunk iterators, which give out the chunks' own `BackedEntryMut`s.      *)
(*                                                                         *)
(* A chunk's content is the number of writes it has seen.  Chunks are      *)
(* counted from 1, positions from 0.  Whoever drops is named by what it    *)
(* drops: a handle by its place, or the iterator.                          *)
(***************************************************************************)
EXTENDS Naturals, FiniteSets, SequencesExt

CONSTANTS
  Torn,         (* a chunk on disk after a write that failed half way       *)
  Iterator,     (* the name of the iterator as a dropper                    *)
  MaxChunks,    (* bound: chunks of the array                               *)
  MaxLen,       (* bound: items in one chunk                                *)
  MaxItems,     (* bound: items in the array                                *)
  MaxSkip,      (* bound: the n of one `nth`                                *)
  MaxWrites,    (* bound: writes to one chunk                               *)
  MaxFailures   (* bound: failed flushes                                    *)

ASSUME BoundsAssumption ==
  /\ MaxChunks \in Nat /\ MaxLen \in Nat /\ MaxItems \in Nat
  /\ MaxSkip \in Nat /\ MaxWrites \in Nat /\ MaxFailures \in Nat

\* The iterator's name is not that of a place.
ASSUME IteratorAssumption == Iterator \notin Nat \X Nat

VARIABLES
  ends,         (* the chunks' key ranges: each starts where the one before *)
                (* it ends, and ends here                                   *)
  memory, disk, (* per chunk: its content                                   *)
  handle,       (* per chunk: its BackedEntryMut                            *)
  modified,     (* the chunks whose BackedEntryMut is marked                *)
  iter,         (* the iterator: live, flushing or releasing in its drop;   *)
                (* a chunk iterator: chunks                                 *)
  cursor,       (* where that drop is                                       *)
  pos, key,     (* the position asked next, the first range not passed      *)
  entry,        (* the last chunk taken from `entries`                      *)
  held,         (* the places whose CountedHandle is held                   *)
  checked,      (* those whose drop has looked whether it is the last       *)
  unwinding,    (* the droppers that have panicked                          *)
  aborted,
  late,         (* history: chunks written to while not marked              *)
  loud,         (* history: chunks whose BackedEntryMut panicked at its end *)
  failures      (* history                                                  *)

store == <<memory, disk, modified, late>>
walk == <<iter, cursor, pos, key, entry>>
vars == <<ends, store, handle, walk, held, checked, unwinding, aborted, loud, failures>>

Chunks == DOMAIN ends
EndOf(c) == ends[c]
StartOf(c) == IF c = 1 THEN 0 ELSE ends[c - 1]
Length == StartOf(Len(ends) + 1)
Places == {<<c, i>> : c \in 1..MaxChunks, i \in 0..(MaxLen - 1)}

TypeOK ==
  /\ ends \in Seq(0..MaxItems) /\ Len(ends) <= MaxChunks
  /\ memory \in [Chunks -> 0..MaxWrites]
  /\ disk \in [Chunks -> 0..MaxWrites \cup {Torn}]
  /\ handle \in [Chunks -> {"none", "open", "view", "error", "dropped"}]
  /\ modified \subseteq Chunks /\ late \subseteq Chunks /\ loud \subseteq Chunks
  /\ iter \in {"live", "chunks", "flushing", "releasing", "gone"}
  /\ cursor \in Chunks \cup {1}
  /\ pos \in Nat /\ key \in 1..(MaxChunks + 1) /\ entry \in 0..MaxChunks
  /\ held \subseteq Places /\ checked \subseteq Places
  /\ held \cap checked = {}
  /\ unwinding \subseteq Places \cup {Iterator}
  /\ aborted \in BOOLEAN
  /\ failures \in 0..MaxFailures

-----------------------------------------------------------------------------
\* The first chunk, if there is one, is opened; reading it may fail.
Opened ==
  /\ iter = "live" /\ entry = IF ends = <<>> THEN 0 ELSE 1
  /\ \E first \in {"open", "error"} :
       handle = [c \in Chunks |-> IF c = 1 THEN first ELSE "none"]

IterNew == Opened
GenericIterNew == Opened

ChunksNew == iter = "chunks" /\ entry = 0 /\ handle = [c \in Chunks |-> "none"]

Init ==
  /\ ends \in BoundedSeq(0..MaxItems, MaxChunks)
  /\ \A c \in Chunks : EndOf(c) \in StartOf(c)..(StartOf(c) + MaxLen)
  /\ memory = [c \in Chunks |-> 0] /\ disk = memory
  /\ IterNew \/ GenericIterNew \/ ChunksNew
  /\ modified = {} /\ late = {} /\ loud = {}
  /\ cursor = 1
  /\ pos = 0 /\ key = 1
  /\ held = {} /\ checked = {}
  /\ unwinding = {} /\ aborted = FALSE
  /\ failures = 0

(***************************************************************************)
(* BackedEntryMut::flush: a chunk that is not marked is left alone; one    *)
(* whose write fails stays marked, and its file is as it was or torn.      *)
(***************************************************************************)
Flush(C) ==
  /\ disk' = [c \in Chunks |-> IF c \in C \cap modified THEN memory[c] ELSE disk[c]]
  /\ modified' = modified \ C
  /\ late' = late \ (C \cap modified)
  /\ UNCHANGED <<memory, failures>>

\* With the mark taken away before the write.
FlushFailsUnmarked(C, bad) ==
  /\ bad \in modified /\ failures < MaxFailures
  /\ \E torn \in BOOLEAN :
       disk' = [c \in Chunks |->
                  IF c = bad THEN IF torn THEN Torn ELSE disk[c]
                  ELSE IF c \in C \cap modified THEN memory[c] ELSE disk[c]]
  /\ modified' = modified \ (C \cup {bad})
  /\ late' = late \ (C \cap modified)
  /\ failures' = failures + 1
  /\ UNCHANGED memory

\* The chunks of C are written before the one that fails.
FlushFails(C, bad) ==
  /\ bad \in modified /\ failures < MaxFailures
  /\ \E torn \in BOOLEAN :
       disk' = [c \in Chunks |->
                  IF c = bad THEN IF torn THEN Torn ELSE disk[c]
                  ELSE IF c \in C \cap modified THEN memory[c] ELSE disk[c]]
  /\ modified' = modified \ C
  /\ late' = late \ (C \cap modified)
  /\ failures' = failures + 1
  /\ UNCHANGED memory

-----------------------------------------------------------------------------
(***************************************************************************)
(* The walk.                                                               *)
(***************************************************************************)
\* With the first of the entries taken for the one to come.
EntryAfterShort(steps) == entry + 1

\* The chunk that comes after `steps` more entries.
EntryAfter(steps) == entry + steps

\* The first range that ends beyond a position, or the one after the last.
KeyFor(p) ==
  CHOOSE k \in key..(Len(ends) + 1) :
    /\ \A j \in key..(k - 1) : EndOf(j) <= p
    /\ k <= Len(ends) => EndOf(k) > p

\* Giving out an item takes the chunk's value mutably, which marks it.
Yield(c, inside) ==
  IF handle'[c] = "open"
    THEN modified' = modified \cup {c} /\ held' = held \cup {<<c, inside>>}
    ELSE UNCHANGED <<modified, held>>

\* nth(n); next is nth(0).  Ranges that end at or before the position are
\* passed, and with them their chunks, which are not read.
Nth(n) ==
  LET k == KeyFor(pos + n)
      steps == k - key
  IN
  /\ ~aborted /\ iter = "live"
  /\ pos + n <= Length + MaxSkip
  /\ key' = k
  /\ IF k > Len(ends)
       THEN /\ pos' = pos + n
            /\ UNCHANGED <<entry, handle, modified, held>>
       ELSE /\ pos' = pos + n + 1
            /\ entry' = IF steps > 0 THEN EntryAfter(steps) ELSE entry
            /\ IF steps > 0
                 THEN \E result \in {"open", "error"} :
                        handle' = [handle EXCEPT ![entry'] = result]
                 ELSE UNCHANGED handle
            /\ Yield(entry', pos + n - StartOf(k))
  /\ UNCHANGED <<ends, memory, disk, late, iter, cursor, checked, unwinding, aborted,
                 loud, failures>>

IterNth == \E n \in 0..MaxSkip : Nth(n)
GenericIterNth == \E n \in 0..MaxSkip : Nth(n)

FlushOpened ==
  /\ ~aborted /\ iter = "live"
  /\ LET opened == {c \in Chunks : handle[c] = "open"} IN
     \/ Flush(opened)
     \/ \E bad \in opened : FlushFails({c \in opened : c < bad}, bad)
  /\ UNCHANGED <<ends, handle, walk, held, checked, unwinding, aborted, loud>>

IterFlush == FlushOpened
GenericIterFlush == FlushOpened

-----------------------------------------------------------------------------
(***************************************************************************)
(* The handles' holders.                                                   *)
(***************************************************************************)
\* A write goes straight to the item: the mark is not set again.
Mutate(p) ==
  LET c == p[1] IN
  /\ ~aborted /\ p \in held
  /\ memory[c] < MaxWrites
  /\ memory' = [memory EXCEPT ![c] = @ + 1]
  /\ late' = IF c \in modified THEN late ELSE late \cup {c}
  /\ UNCHANGED <<ends, disk, modified, handle, walk, held, checked, unwinding, aborted,
                 loud, failures>>

HandleFlush(p) ==
  /\ ~aborted /\ p \in held
  /\ \/ Flush({p[1]})
     \/ FlushFails({}, p[1])
  /\ UNCHANGED <<ends, handle, walk, held, checked, unwinding, aborted, loud>>

\* Arc::get_mut: nobody else holds the chunk's handle.
Holders(c) ==
  {p \in held \cup checked : p[1] = c}
    \cup (IF iter \in {"live", "flushing"} \/ (iter = "releasing" /\ cursor <= c)
            THEN {Iterator} ELSE {})

\* With nobody looked for.
SoleAlways(c, dropper) == TRUE

Sole(c, dropper) == Holders(c) = {dropper}

\* The flush of a drop: a failed one panics, and what is left of the dropped
\* value is released while unwinding.
FlushOrPanic(c, dropper) ==
  \/ Flush({c}) /\ UNCHANGED unwinding
  \/ FlushFails({}, c) /\ unwinding' = unwinding \cup {dropper}

CheckHandle(p) ==
  /\ ~aborted /\ p \in held
  /\ held' = held \ {p} /\ checked' = checked \cup {p}
  /\ IF Sole(p[1], p)
       THEN FlushOrPanic(p[1], p)
       ELSE UNCHANGED <<store, failures, unwinding>>
  /\ UNCHANGED <<ends, handle, walk, aborted, loud>>

\* The last reference drops the BackedEntryMut, which flushes if it is marked.
\* Failing again while unwinding aborts.
Release(c, dropper) ==
  IF ~Sole(c, dropper)
    THEN UNCHANGED <<store, handle, failures, unwinding, loud, aborted>>
    ELSE
      /\ handle' = [handle EXCEPT ![c] = "dropped"]
      /\ \/ Flush({c}) /\ UNCHANGED <<unwinding, loud, aborted>>
         \/ /\ FlushFails({}, c)
            /\ unwinding' = unwinding \cup {dropper}
            /\ loud' = loud \cup {c}
            /\ aborted' = (dropper \in unwinding)

ReleaseHandle(p) ==
  /\ ~aborted /\ p \in checked
  /\ checked' = checked \ {p}
  /\ Release(p[1], p)
  /\ UNCHANGED <<ends, walk, held>>

-----------------------------------------------------------------------------
(***************************************************************************)
(* The drop of the iterator: it flushes the chunks nobody else holds, then *)
(* its vector of handles is released, in order.  A panic of the first part *)
(* skips to the second.                                                    *)
(***************************************************************************)
IterDrop ==
  /\ ~aborted /\ iter = "live"
  /\ iter' = "flushing" /\ cursor' = 1
  /\ UNCHANGED <<ends, store, handle, pos, key, entry, held, checked, unwinding,
                 aborted, loud, failures>>

Step(next) ==
  IF cursor < Len(ends) THEN cursor' = cursor + 1 /\ UNCHANGED iter
                        ELSE cursor' = 1 /\ iter' = next

DropFlushes ==
  /\ ~aborted /\ iter = "flushing"
  /\ IF cursor \in Chunks /\ handle[cursor] = "open" /\ Sole(cursor, Iterator)
       THEN /\ FlushOrPanic(cursor, Iterator)
            /\ IF Iterator \in unwinding'
                 THEN iter' = "releasing" /\ cursor' = 1
                 ELSE Step("releasing")
       ELSE Step("releasing") /\ UNCHANGED <<store, failures, unwinding>>
  /\ UNCHANGED <<ends, handle, pos, key, entry, held, checked, aborted, loud>>

IterDropFlush == DropFlushes
GenericIterDropFlush == DropFlushes

IterDropRelease ==
  /\ ~aborted /\ iter = "releasing"
  /\ IF cursor \in Chunks /\ handle[cursor] = "open"
       THEN Release(cursor, Iterator)
       ELSE UNCHANGED <<store, handle, failures, unwinding, loud, aborted>>
  /\ Step("gone")
  /\ UNCHANGED <<ends, pos, key, entry, held, checked>>

-----------------------------------------------------------------------------
(***************************************************************************)
(* The chunk iterators: every chunk is opened as it is asked for, and its  *)
(* handle is the caller's own.                                             *)
(***************************************************************************)
GiveChunk(opened) ==
  /\ iter = "chunks" /\ entry < Len(ends)
  /\ entry' = entry + 1
  /\ \E result \in {opened, "error"} : handle' = [handle EXCEPT ![entry'] = result]
  /\ UNCHANGED <<ends, store, iter, cursor, pos, key, held, checked, unwinding, aborted,
                 loud, failures>>

ChunkMutNext == GiveChunk("open")

\* The handle comes behind a `Deref` alone: it cannot be written through.
GenericChunkMutNext == GiveChunk("view")

Given(c) == c \in Chunks /\ iter = "chunks" /\ handle[c] = "open"

\* A write through the handle marks it.
ChunkMutate(c) ==
  /\ Given(c) /\ memory[c] < MaxWrites
  /\ memory' = [memory EXCEPT ![c] = @ + 1]
  /\ modified' = modified \cup {c}
  /\ UNCHANGED <<ends, disk, late, handle, walk, held, checked, unwinding, aborted,
                 loud, failures>>

ChunkFlush(c) ==
  /\ Given(c)
  /\ Flush({c}) \/ FlushFails({}, c)
  /\ UNCHANGED <<ends, handle, walk, held, checked, unwinding, aborted, loud>>

ChunkDrop(c) ==
  /\ iter = "chunks" /\ c \in Chunks /\ handle[c] \in {"open", "view"}
  /\ handle' = [handle EXCEPT ![c] = "dropped"]
  /\ \/ Flush({c}) /\ UNCHANGED loud
     \/ FlushFails({}, c) /\ loud' = loud \cup {c}
  /\ UNCHANGED <<ends, walk, held, checked, unwinding, aborted>>

Next ==
  \/ IterNth \/ GenericIterNth \/ IterFlush \/ GenericIterFlush
  \/ \E p \in Places : Mutate(p) \/ HandleFlush(p) \/ CheckHandle(p) \/ ReleaseHandle(p)
  \/ IterDrop \/ IterDropFlush \/ GenericIterDropFlush \/ IterDropRelease
  \/ ChunkMutNext \/ GenericChunkMutNext
  \/ \E c \in Chunks : ChunkMutate(c) \/ ChunkFlush(c) \/ ChunkDrop(c)

Spec == Init /\ [][Next]_vars

-----------------------------------------------------------------------------
(***************************************************************************)
(* Properties.                                                             *)
(***************************************************************************)
\* The ranges and the chunks are walked by two iterators, over empty chunks
\* and skips, and stay on the same chunk: a handle is given out for the item
\* at its position (slice.rs:259-304).
HandlesNameTheirItems ==
  /\ \A p \in held \cup checked :
       /\ p[1] \in Chunks /\ StartOf(p[1]) + p[2] < EndOf(p[1])
       /\ handle[p[1]] = "open"
       /\ StartOf(p[1]) + p[2] < pos
  /\ iter = "live" /\ pos > 0 /\ key \in Chunks =>
       /\ entry = key
       /\ StartOf(key) < pos /\ pos <= EndOf(key)

\* "automatically tracks and forces flushes when mutated values are dropped"
\* (slice.rs:354-356): whoever drops last and however the drops interleave, a
\* chunk whose handle is gone is on disk, or its own drop panicked, or it was
\* written to after a flush had taken its mark.
NoSilentLoss ==
  \A c \in Chunks :
    handle[c] = "dropped" => disk[c] = memory[c] \/ c \in late \cup loud

\* The handle whose drop takes the step.
Dropped == (held \ held') \cup (checked \ checked')

FlushesAlone ==
  \A c \in Chunks :
    disk'[c] # disk[c] /\ <<walk, held, checked>>' # <<walk, held, checked>> =>
      /\ iter' # "live"
      /\ {p \in held' \cup checked' : p[1] = c} \subseteq Dropped

\* A drop writes a chunk only when no other handle to it is left through which
\* another thread could be writing (sync_impl/mod.rs:378, slice.rs:229).
DropsFlushAlone == [][FlushesAlone]_vars
=============================================================================
