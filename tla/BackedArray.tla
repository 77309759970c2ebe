----------------------------- MODULE BackedArray -----------------------------
(***************************************************************************)
(* `BackedArray` (src/src/array/mod.rs, array/sync_impl and async_impl):   *)
(* an array kept as chunks on disk, found through two sorted sequences of  *)
(* range bounds.  Chunks are appended, merged and removed, loaded by reads *)
(* and unloaded by the caller.  The gets search the ranges, the iterators  *)
(* walk them, and the asynchronous ones give a future per item, which the  *)
(* caller awaits in any order.  Writing through a mutable iterator is      *)
(* ArrayIterMut.tla, building an array from containers BuildArray.tla.     *)
(*                                                                         *)
(* An item is a number that is used once, so an item tells its place.      *)
(* Chunks and positions inside them are counted from 1 and from 0.         *)
(***************************************************************************)
EXTENDS Naturals, FiniteSets, SequencesExt

CONSTANTS
  MaxChunks,    (* bound: chunks in the array                               *)
  MaxLen,       (* bound: items in one chunk                                *)
  MaxItems,     (* bound: items ever created                                *)
  MaxSkip,      (* bound: the n of one `nth`                                *)
  MaxFutures    (* bound: futures not awaited yet                           *)

ASSUME BoundsAssumption ==
  /\ MaxChunks \in Nat /\ MaxLen \in Nat /\ MaxItems \in Nat /\ MaxSkip \in Nat
  /\ MaxFutures \in Nat

VARIABLES
  key_starts, key_ends,
  entries,      (* per chunk: its items on disk, and whether it is loaded   *)
  iter,         (* the one iterator: its kind, loc and pos, or closed       *)
  futures,      (* positions, or chunks, that a stream gave futures for     *)
  answer,       (* history: the last read or query and what it gave         *)
  fresh         (* history: items created so far                            *)

keys == <<key_starts, key_ends>>
vars == <<keys, entries, iter, futures, answer, fresh>>

\* An iterator over slices and its generic twin, and a stream and its `send`
\* twin, keep the same state and are of one kind.
Kinds == {"closed", "walk", "stream", "chunks", "chunk_stream"}

Start(kind) == [kind |-> kind, entry |-> 1, inside |-> 0, pos |-> 0, ended |-> FALSE]
Closed == Start("closed")
NoAnswer == [kind |-> "none"]

Entry(its, loaded) == [items |-> its, loaded |-> loaded]
Flat == FlattenSeq([e \in DOMAIN entries |-> entries[e].items])

TypeOK ==
  /\ key_starts \in Seq(0..MaxItems) /\ key_ends \in Seq(0..MaxItems)
  /\ entries \in Seq([items : Seq(1..MaxItems), loaded : BOOLEAN])
  /\ iter \in [kind : Kinds, entry : Nat, inside : Nat, pos : Nat, ended : BOOLEAN]
  /\ futures \subseteq [of : {"item", "chunk"}, at : Nat] /\ IsFiniteSet(futures)
  /\ Cardinality(futures) <= MaxFutures
  /\ answer.kind \in {"none", "item", "outside", "gap", "error", "end", "shrunk", "chunk"}
  /\ fresh \in 0..MaxItems

-----------------------------------------------------------------------------
(***************************************************************************)
(* Building blocks.                                                        *)
(***************************************************************************)
Width(ends) == IF ends = <<>> THEN 0 ELSE Last(ends)
LastEnd == Width(key_ends)

\* The starts that go with the ends: a range starts where the last one ended.
StartsOf(ends) == [i \in DOMAIN ends |-> IF i = 1 THEN 0 ELSE ends[i - 1]]

\* Chunks of the given ranges, filled with items not used before.
NewEntries(ends, loaded) ==
  [i \in DOMAIN ends |->
     LET start == StartsOf(ends)[i]
     IN  Entry([k \in 1..(ends[i] - start) |-> fresh + start + k], loaded)]

\* The key ends of arrays there is room for.
Growths(n) ==
  {ends \in BoundedSeq(0..MaxItems, n) :
     /\ \A i \in DOMAIN ends : ends[i] \in StartsOf(ends)[i]..(StartsOf(ends)[i] + MaxLen)
     /\ Len(entries) + Len(ends) <= MaxChunks
     /\ fresh + Width(ends) <= MaxItems}

\* `default`.
Init ==
  /\ key_starts = <<>> /\ key_ends = <<>> /\ entries = <<>>
  /\ iter = Closed /\ futures = {}
  /\ answer = NoAnswer
  /\ fresh = 0

-----------------------------------------------------------------------------
(***************************************************************************)
(* Changes, through `&mut self`: no iterator is open and no future left.   *)
(***************************************************************************)
Unshared == iter = Closed /\ futures = {} /\ UNCHANGED <<iter, futures>>
Mutates == Unshared /\ answer' = NoAnswer

\* A write that fails, or is dropped, returns before anything is pushed: no step.
PushChunk(len, keep) ==
  /\ entries' = entries \o NewEntries(<<len>>, keep)
  /\ key_starts' = Append(key_starts, LastEnd)
  /\ key_ends' = Append(key_ends, LastEnd + len)
  /\ fresh' = fresh + len

AppendChunk(len) == Mutates /\ PushChunk(len, FALSE)
AppendMemory(len) == Mutates /\ PushChunk(len, TRUE)
AAppend(len) == Mutates /\ PushChunk(len, FALSE)
AAppendMemory(len) == Mutates /\ PushChunk(len, TRUE)

Appends ==
  \E len \in {l \in 0..MaxLen : <<l>> \in Growths(1)} :
    AppendChunk(len) \/ AppendMemory(len) \/ AAppend(len) \/ AAppendMemory(len)

\* With the later bounds left alone.
RemoveKeyOnly(ks, e, width) == RemoveAt(ks, e)

RemoveKey(ks, e, width) ==
  [i \in 1..(Len(ks) - 1) |->
     IF i < e THEN ks[i] ELSE RemoveAt(ks, e)[i] - width]

\* An index beyond the keys changes nothing.
RemoveChunk ==
  /\ Mutates
  /\ \E e \in DOMAIN key_starts :
       LET width == key_ends[e] - key_starts[e] IN
       /\ entries' = RemoveAt(entries, e)
       /\ key_starts' = RemoveKey(key_starts, e, width)
       /\ key_ends' = RemoveKey(key_ends, e, width)
  /\ UNCHANGED fresh

\* With the offset taken from the number of chunks.
MergeByCount(rhs_starts, rhs_ends, rhs_entries) ==
  LET shifted(ks) == [i \in DOMAIN ks |-> ks[i] + Len(key_ends)] IN
  /\ key_starts' = key_starts \o shifted(rhs_starts)
  /\ key_ends' = key_ends \o shifted(rhs_ends)
  /\ entries' = entries \o rhs_entries

MergeOf(rhs_starts, rhs_ends, rhs_entries) ==
  LET shifted(ks) == [i \in DOMAIN ks |-> ks[i] + LastEnd] IN
  /\ key_starts' = key_starts \o shifted(rhs_starts)
  /\ key_ends' = key_ends \o shifted(rhs_ends)
  /\ entries' = entries \o rhs_entries

Merge ==
  /\ Mutates
  /\ \E rhs_ends \in Growths(2), loaded \in BOOLEAN :
       /\ MergeOf(StartsOf(rhs_ends), rhs_ends, NewEntries(rhs_ends, loaded))
       /\ fresh' = fresh + Width(rhs_ends)

Unload(E) ==
  entries' = [e \in DOMAIN entries |->
    IF e \in E THEN Entry(entries[e].items, FALSE) ELSE entries[e]]

\* clear_memory, clear_chunk.
Clear ==
  /\ Mutates
  /\ \/ Unload(DOMAIN entries)
     \/ \E e \in DOMAIN entries : Unload({e})
  /\ UNCHANGED <<keys, fresh>>

LoadedChunks == {e \in DOMAIN entries : entries[e].loaded}

\* With the start of a range left out of it.
NeededAfterStart(idxs) ==
  {e \in DOMAIN key_starts :
     \E i \in idxs : key_starts[e] < i /\ i < key_ends[e]}

Needed(idxs) ==
  {e \in DOMAIN key_starts :
     \E i \in idxs : key_starts[e] <= i /\ i < key_ends[e]}

ShrinkToQuery ==
  /\ Unshared
  /\ \E idxs \in SUBSET (0..LastEnd) :
       /\ Unload(DOMAIN entries \ Needed(idxs))
       /\ answer' = [kind |-> "shrunk", idxs |-> idxs, was |-> LoadedChunks]
  /\ UNCHANGED <<keys, fresh>>

-----------------------------------------------------------------------------
(***************************************************************************)
(* Reads, through `&self`.  Loading a chunk may fail, and then leaves it   *)
(* unloaded.                                                               *)
(***************************************************************************)
Load(e) ==
  entries' = [entries EXCEPT ![e] = Entry(entries[e].items, TRUE)]

\* The entry of a location is loaded, then indexed.
ReadAt(e, inside, idx) ==
  \/ /\ Load(e)
     /\ answer' = IF inside < Len(entries[e].items)
                    THEN [kind |-> "item", at |-> idx,
                          item |-> entries[e].items[inside + 1]]
                    ELSE [kind |-> "gap", at |-> idx]
  \/ /\ ~entries[e].loaded
     /\ answer' = [kind |-> "error", at |-> idx]
     /\ UNCHANGED entries

\* With a matched end taken for the chunk of the index.
InternalIdxOnEnd(idx) ==
  LET n == Len(key_ends)
      hits == {x \in 1..n : key_ends[x] = idx}
      place == 1 + Cardinality({x \in 1..n : key_ends[x] < idx})
  IN IF hits # {} THEN hits \ {n} ELSE {place} \cap 1..n

\* The chunks internal_idx may name: its binary search over the ends may hit
\* any one of several equal ends.  Naming none is out of bounds; a hit on the
\* last end is.
InternalIdx(idx) ==
  LET n == Len(key_ends)
      hits == {x \in 1..n : key_ends[x] = idx}
      place == 1 + Cardinality({x \in 1..n : key_ends[x] < idx})
  IN IF hits # {} THEN {x + 1 : x \in hits} \cap 1..n ELSE {place} \cap 1..n

\* The last end may be hit when an earlier one is equal.
MayBeOutside(idx) ==
  LET n == Len(key_ends) IN
  InternalIdx(idx) = {} \/ (n > 0 /\ key_ends[n] = idx)

\* internal_idx, then the entry of the location.
Lookup(idx) ==
  \/ \E e \in InternalIdx(idx) : ReadAt(e, idx - key_starts[e], idx)
  \/ /\ MayBeOutside(idx)
     /\ answer' = [kind |-> "outside", at |-> idx]
     /\ UNCHANGED entries

Looks(idx) == Lookup(idx) /\ UNCHANGED <<keys, iter, futures, fresh>>

\* On a "gap" the gets of slices panic, the generic ones answer
\* OutsideEntryBounds.
Get(idx) == Looks(idx)
GenericGet(idx) == Looks(idx)
AGet(idx) == Looks(idx)
AGenericGet(idx) == Looks(idx)

Gets == \E idx \in 0..(LastEnd + 1) : Get(idx) \/ GenericGet(idx) \/ AGet(idx) \/ AGenericGet(idx)

-----------------------------------------------------------------------------
(***************************************************************************)
(* The iterators.                                                          *)
(***************************************************************************)
Opens(kind) ==
  /\ iter = Closed /\ futures = {}
  /\ iter' = Start(kind)
  /\ answer' = NoAnswer
  /\ UNCHANGED <<keys, entries, futures, fresh>>

OpenIter == Opens("walk")
OpenGenericIter == Opens("walk")
OpenStream == Opens("stream")
OpenStreamSend == Opens("stream")
OpenGenericStream == Opens("stream")
OpenGenericStreamSend == Opens("stream")
OpenChunkIter == Opens("chunks")
OpenGenericChunkIter == Opens("chunks")
OpenChunkStream == Opens("chunk_stream")
OpenGenericChunkStream == Opens("chunk_stream")

CloseIter ==
  /\ iter # Closed
  /\ iter' = Closed
  /\ answer' = NoAnswer
  /\ UNCHANGED <<keys, entries, futures, fresh>>

Locs == [entry : 1..(Len(key_ends) + 1), inside : Nat]

\* With empty chunks, and the end of each chunk, not walked over.
AdvanceShort(e, inside) ==
  LET range(loc) == key_ends[loc.entry] - key_starts[loc.entry]
      walk[loc \in Locs] ==
        IF loc.entry <= Len(key_ends) /\ loc.inside > range(loc)
          THEN walk[[entry |-> loc.entry + 1, inside |-> loc.inside - range(loc)]]
          ELSE loc
  IN walk[[entry |-> e, inside |-> inside]]

\* The loop of `advance`: whole chunks are walked over, empty ones too.
Advance(e, inside) ==
  LET range(loc) == key_ends[loc.entry] - key_starts[loc.entry]
      walk[loc \in Locs] ==
        IF loc.entry <= Len(key_ends) /\ loc.inside >= range(loc)
          THEN walk[[entry |-> loc.entry + 1, inside |-> loc.inside - range(loc)]]
          ELSE loc
  IN walk[[entry |-> e, inside |-> inside]]

At(loc, pos) ==
  [iter EXCEPT !.entry = loc.entry, !.inside = loc.inside, !.pos = pos,
               !.ended = @ \/ loc.entry > Len(key_ends)]

\* nth(n); next is nth(0).  Past the end the position still grows.
WalkNth(n) ==
  LET loc == Advance(iter.entry, iter.inside + n)
      pos == iter.pos + n
  IN
  /\ IF loc.entry > Len(key_ends)
       THEN /\ pos <= MaxItems + MaxSkip
            /\ iter' = At(loc, pos)
            /\ answer' = [kind |-> "end", at |-> pos]
            /\ UNCHANGED entries
       ELSE /\ ReadAt(loc.entry, loc.inside, pos)
            /\ iter' = [At(Advance(loc.entry, loc.inside + 1), pos + 1) EXCEPT !.ended = iter.ended]
  /\ UNCHANGED <<keys, futures, fresh>>

IterNth(n) == iter.kind = "walk" /\ WalkNth(n)
GenericIterNth(n) == iter.kind = "walk" /\ WalkNth(n)

\* With the end taken for an item.
FutNthPast(n) ==
  LET pos == iter.pos + n IN
  /\ pos <= MaxItems + MaxSkip /\ Cardinality(futures) < MaxFutures
  /\ iter' = [iter EXCEPT !.pos = pos + 1, !.ended = @ \/ pos > LastEnd]
  /\ IF pos <= LastEnd
       THEN futures' = futures \cup {[of |-> "item", at |-> pos]} /\ answer' = NoAnswer
       ELSE answer' = [kind |-> "end", at |-> pos] /\ UNCHANGED futures
  /\ UNCHANGED <<keys, entries, fresh>>

\* A future for the item, which does nothing until it is awaited.  Past the end
\* the position grows by one more than was asked.
FutNth(n) ==
  LET pos == iter.pos + n IN
  /\ pos <= MaxItems + MaxSkip /\ Cardinality(futures) < MaxFutures
  /\ iter' = [iter EXCEPT !.pos = pos + 1, !.ended = @ \/ pos >= LastEnd]
  /\ IF pos < LastEnd
       THEN futures' = futures \cup {[of |-> "item", at |-> pos]} /\ answer' = NoAnswer
       ELSE answer' = [kind |-> "end", at |-> pos] /\ UNCHANGED futures
  /\ UNCHANGED <<keys, entries, fresh>>

StreamNth(n) == iter.kind = "stream" /\ FutNth(n)
StreamSendNth(n) == iter.kind = "stream" /\ FutNth(n)
GenericStreamNth(n) == iter.kind = "stream" /\ FutNth(n)
GenericStreamSendNth(n) == iter.kind = "stream" /\ FutNth(n)

NextChunk == [iter EXCEPT !.entry = @ + 1]

\* The whole chunk, loaded.
ChunkAt(e) ==
  \/ Load(e) /\ answer' = [kind |-> "chunk", at |-> e]
  \/ ~entries[e].loaded /\ answer' = [kind |-> "error", at |-> e] /\ UNCHANGED entries

ChunkNext ==
  /\ iter.kind = "chunks" /\ iter.entry \in DOMAIN entries
  /\ ChunkAt(iter.entry)
  /\ iter' = NextChunk
  /\ UNCHANGED <<keys, futures, fresh>>

ChunkStreamNext ==
  /\ iter.kind = "chunk_stream" /\ iter.entry \in DOMAIN entries
  /\ Cardinality(futures) < MaxFutures
  /\ futures' = futures \cup {[of |-> "chunk", at |-> iter.entry]}
  /\ iter' = NextChunk /\ answer' = NoAnswer
  /\ UNCHANGED <<keys, entries, fresh>>

\* A future is awaited to its end: any of them, in any order.
Await(f) ==
  /\ f \in futures /\ futures' = futures \ {f}
  /\ IF f.of = "item" THEN Lookup(f.at) ELSE ChunkAt(f.at)
  /\ UNCHANGED <<keys, iter, fresh>>

DropFuture(f) ==
  /\ f \in futures /\ futures' = futures \ {f}
  /\ answer' = NoAnswer
  /\ UNCHANGED <<keys, entries, iter, fresh>>

Nth(n) ==
  \/ IterNth(n) \/ GenericIterNth(n)
  \/ StreamNth(n) \/ StreamSendNth(n) \/ GenericStreamNth(n) \/ GenericStreamSendNth(n)

Open ==
  \/ OpenIter \/ OpenGenericIter
  \/ OpenStream \/ OpenStreamSend \/ OpenGenericStream \/ OpenGenericStreamSend
  \/ OpenChunkIter \/ OpenGenericChunkIter \/ OpenChunkStream \/ OpenGenericChunkStream

Next ==
  \/ Appends \/ RemoveChunk \/ Merge
  \/ Clear \/ ShrinkToQuery
  \/ Gets
  \/ Open \/ CloseIter
  \/ \E n \in 0..MaxSkip : Nth(n)
  \/ ChunkNext \/ ChunkStreamNext
  \/ \E f \in futures : Await(f) \/ DropFuture(f)

Spec == Init /\ [][Next]_vars

-----------------------------------------------------------------------------
(***************************************************************************)
(* Properties.                                                             *)
(***************************************************************************)
\* "keys and entries must always have the same length, keys must always be
\* sorted min-max" (array/mod.rs:78-79), and the ranges are those of the
\* chunks' items, one after the other from 0.
KeysTileEntries ==
  /\ Len(key_starts) = Len(entries) /\ Len(key_ends) = Len(entries)
  /\ \A e \in DOMAIN entries :
       /\ key_starts[e] = IF e = 1 THEN 0 ELSE key_ends[e - 1]
       /\ key_ends[e] = key_starts[e] + Len(entries[e].items)

\* `get` refuses no index that has an item, unless an empty chunk lies right
\* before that item: then the search may name the empty chunk
\* (array/mod.rs:148-162).
RefusesOnlyOutside ==
  /\ answer.kind = "outside" => answer.at >= Len(Flat)
  /\ answer.kind = "gap" =>
       \E e \in DOMAIN entries :
         entries[e].items = <<>> /\ key_starts[e] = answer.at

\* The iterators end where the items do, however they skip and whatever chunks
\* are empty or failed to load; until then the location of a walk is its
\* position, and once it has moved it stands on an item (slice.rs:97-134).
IterEndsAtTheEnd ==
  /\ iter.kind = "walk" /\ iter.entry <= Len(key_ends) =>
       /\ key_starts[iter.entry] + iter.inside = iter.pos
       /\ iter.pos > 0 => iter.inside < Len(entries[iter.entry].items)
  /\ answer.kind = "end" => answer.at >= Len(Flat)

\* size_hint subtracts the position from the length: until an iterator has
\* answered None the difference is no less than nothing, and every future given
\* out is for an item that is there ("Not possible to be outside entry bounds",
\* async_impl/slice.rs:106-108).
PositionStaysInside ==
  /\ iter.kind \in {"walk", "stream"} /\ ~iter.ended => iter.pos <= Len(Flat)
  /\ \A f \in futures : f.of = "item" => f.at < Len(Flat)

\* shrink_to_query keeps, of the loaded chunks, exactly those that hold one of
\* the asked items (array/sync_impl/mod.rs:74-88).
ShrinkKeepsTheQuery ==
  answer.kind = "shrunk" =>
    LoadedChunks =
      {e \in answer.was :
         \E i \in answer.idxs :
           i < Len(Flat) /\ Contains(entries[e].items, Flat[i + 1])}

\* The array as its keys show it: what the chunks whose range reaches over a
\* position hold there.
ItemsAt(i) ==
  {entries[e].items[i - key_starts[e] + 1] :
     e \in {c \in DOMAIN entries :
              /\ key_starts[c] <= i /\ i < key_ends[c]
              /\ i < key_starts[c] + Len(entries[c].items)}}

AsRead ==
  IF answer.kind = "item" THEN [at |-> answer.at, item |-> {answer.item}]
                          ELSE NoAnswer

Abstract == INSTANCE FlatArray
              WITH Items <- {{x} : x \in 1..MaxItems}, MaxGrowth <- MaxItems,
                   NoRead <- NoAnswer,
                   items <- [i \in 1..LastEnd |-> ItemsAt(i - 1)],
                   read <- AsRead

\* Seen through its ranges, the array only grows at its end and loses whole
\* runs, and what is read at a position, by a get, an iterator or a future, is the
\* item there.
ImplementsFlatArray == Abstract!Spec
=============================================================================
