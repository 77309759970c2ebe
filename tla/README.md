# A TLA+ verification project for backed_data

`backed_data` keeps values and arrays of values on disk, loads them into memory
when they are used, and writes them back. This directory holds TLA+ modules of
its core, TLC configurations that check them on small instances, and TLAPS
proofs of their main properties for all values of the constants. Source paths
below are relative to `src/src/`.

* [Inventory](#inventory)
* [Modules and code](#modules-and-code)
* [Runs](#runs)
* [Fairness](#fairness)
* [Proofs](#proofs)
* [Disagreements found](#disagreements-found)
* [What is not modelled](#what-is-not-modelled)
* [Plan](#plan)

## Inventory

| component | source | state | operations | what is hard | what makes it correct |
|---|---|---|---|---|---|
| `AsyncOnceLock` | `utils/sync.rs` | the value; `init_queue`: a flag and the wakers of the waiting futures; each future's variant | `get_or_try_init` as a future (`create`, `poll`), its drop, `set`, `get` | futures of many tasks, dropped at any await, spurious polls, initialisers that fail | one initialiser at a time, one value for everyone, nobody left asleep |
| `SyncAsAsyncWrite` | `entry/adapters.rs` | buffer, pending count, retry toggle, waker; a command and a status channel to a thread | `poll_write`, `poll_flush`, `poll_close`, drop; the thread's loop | two threads, partial writes, errors and retries, lost wake-ups | bytes in order once each, the pending count never too low and exact until a flush fails, what was sent is written when a flush is answered, the thread ends |
| `SyncAsAsyncRead` | `entry/adapters.rs` | buffer, `pending`, result slot, waker, rendezvous channel | `poll_fill_buf`, `poll_read`, `consume`, drop; the thread's loop | two threads, a reader handed between tasks | bytes in order, `Ok(0)` only at the end (or into no buffer), no blocking send, parked polls woken |
| `BackedEntry`, `BackedEntryMut` | `entry/mod.rs`, `entry/sync_impl.rs`, `utils/once.rs` | the cell in memory, the disk, the handle's mark | `load`, `write`, `write_unload`, `update`, `unload`, `take`, `change_backing`, `mut_handle`, `deref_mut`, `flush`, drop | racing loads, writes that fail half way, restarts | all references are to what the cell holds, a load changes nothing, unmarked memory is saved |
| async entry | `entry/async_impl.rs` | the same, over `AsyncOnceLock` | `a_load`, `a_write`, `a_write_unload`, `a_update`, the mutable handle, conversions from and to the sync entry | futures dropped between the truncation and the end of an encoding | as the sync one |
| `BackedArray` | `array/mod.rs`, `array/sync_impl/` | range starts and ends, one entry per chunk | `append`, `append_memory`, `remove`, `merge`, `get`, `iter`, `chunk_iter`, `shrink_to_query`, `clear_memory`, `from_containers`, `from_backing` | empty chunks, shifted ranges, skips | the ranges tile the chunks; the array is one flat sequence |
| generic and async array | `array/sync_impl/generic.rs`, `array/async_impl/` | the same; the futures a stream gave out | `generic_get`, `a_get`, `a_append`, streams, `a_from_containers` | futures awaited in any order, concurrent writes | the same, in the order of the iterator |
| `BackedArrayIterMut`, `CountedHandle` | `array/sync_impl/` | position, two iterators, one shared mutable handle per chunk | `nth`, `flush`, drop; each handle's write, `flush`, drop; the chunk iterators | drops in any order on any thread, flushes that fail in a drop | handles name their items, the last drop saves, no drop writes under a live handle |
| `SecretBackedArray` | `array/container/encrypted.rs`, `entry/disks/encrypted.rs` | range starts and ends in vectors of secrets, which cannot grow | push, remove, extend, serialisation | every resize copies into a new vector of random bytes | the ranges tile the chunks |
| directory array | `directory/` | an array, a root path, the files below it, a metadata file | `new`, `append`, `remove`, `delete`, `append_dir`, `append_array`, `update_root`, `move_root`, `from_existing_array`, `save`, `load` | moves that fail half way, dropped futures whose file operation goes on, paths and files out of step, restarts | no chunk's file is lost, an array's files are in its root, none is left behind |
| mmap disk | `entry/disks/mmap.rs` | read map, write map or none, behind counted guards and a mutex; file length | `read_disk`, `write_disk`, guard drops, `reserve_for`, `truncate`, `flush` | guards excluding each other, system calls that fail in the middle, the file longer than its content | one writer or many readers, the file is what was written |
| file disks | `entry/disks/{plainfile,unbuffered,write_unbuffered,custom,async_file}.rs` | a path; the buffer of an open writer | open for reading, open for writing, conversions | errors late in a buffer | what is flushed is in the file |
| zstd and encrypted disks | `entry/disks/{zstd,encrypted}.rs` | a level, a key and a nonce; an unfinished frame, a plaintext | the same, over another disk | what flush, close and drop finish, one over the other | what was encoded is decoded, what was cut short is refused |
| network disk | `entry/disks/network.rs` | the request; the rest of a chunk, the future of the next | `async_read_disk`, `poll_read` | chunks larger and smaller than the buffers, empty ones, a broken connection | bytes in order; `Ok(0)` after all that has arrived, and at the end or for an empty chunk |
| formats | `entry/formats/`, the coders of `entry/adapters.rs` | options | `encode`, `decode`, conversions | errors, cancellation, more than one flush | as the zstd and encrypted disks |
| plain containers, utilities | `array/container/`, `utils/` | none shared | pass-through | - | - |

An entry calls its disk (`read_disk`, `write_disk`) and its coder, and keeps
the value in a `Once` cell. An array holds one entry per chunk and never looks
at a disk itself. A directory array holds an array and moves its files. The
async entry keeps its value in an `AsyncOnceLock` and may reach a blocking disk
through `SyncAsAsyncRead` and `SyncAsAsyncWrite`.

The full list of what is hard to test, at its line and with the properties that
watch it, is `hazards` in `PROJECT.json`.

## Modules and code

| module | models | shown to implement |
|---|---|---|
| `OnceCell` | what an async once-cell promises its calls | |
| `AsyncOnceLock` | `utils/sync.rs` | `OnceCell` (checked, proved) |
| `SyncAsAsyncWrite` | the write half of `entry/adapters.rs` | |
| `SyncAsAsyncRead` | the read half of `entry/adapters.rs` | |
| `ValueStore` | what an entry is to its users: a current and a saved value, readers and one owner | |
| `BackedEntry` | `entry/sync_impl.rs` and the cells of `utils/once.rs` | `ValueStore` (checked, proved) |
| `FlatArray` | what an array is to its users: one sequence | |
| `BackedArray` | `array/mod.rs`, `array/sync_impl/`, `array/async_impl/`, but for the mutable iterators | `FlatArray` (checked, proved) |
| `BuildArray` | `from_containers` and `a_from_containers` | |
| `SecretBackedArray` | `array/container/encrypted.rs` and the secret vectors of `entry/disks/encrypted.rs` | |
| `ArrayIterMut` | the mutable iterators, over slices, generic containers and chunks, and their handles | |
| `DirectoryBackedArray` | `directory/sync_impl.rs`, `directory/async_impl.rs` | |
| `Mmap` | `entry/disks/mmap.rs` | |
| `ReqwestRead` | `entry/disks/network.rs` | |
| `DiskStack` | the disks that hold files, and zstd and encryption over them | |
| `Coding` | `entry/formats/` and the `SyncCoder` ones of `entry/adapters.rs`, over `DiskStack` | |
| `*_proof` | theorems about the module they are named after; `MCArray_proof` and `MCDisks_proof` about the modules composed there | |
| `MCBackedEntry`, `MCDirectory` | symmetry sets for TLC | |
| `MCArray` | `BackedArray`, `BuildArray` or `SecretBackedArray`, chosen in the initial state | |
| `MCDisks` | `Mmap`, `ReqwestRead` or `Coding`, chosen in the initial state | |

`BackedEntry` uses its cell as `OnceCell` specifies it, and its disk as
something that is truncated and then filled; `AsyncOnceLock` and `Coding` are
what stands behind each. `MCArray` and `MCDisks` let modules that do not
interact share a run: `focus` names the one that moves, and the others rest in
their initial state.

**AsyncOnceLock.** `inner` is the cell, `initializing` and `wakers` are the two
fields of `InitializationQueue`, and `poisoned` is the state of its mutex after
a panic. `phase[f]` is the variant of the future `f` (`Creating` before its
first poll, `Claiming` between the unlocked `get` and the lock, `Waiting`,
`Initializing`) or how it ended. What a poll does with the lock held is one
action. A waker names the future it wakes; `scheduled` are the futures woken
and not yet polled. A poll of a future that was not woken is allowed (an
executor may do it) but not owed.

**SyncAsAsyncWrite.** A byte is its position in the stream, so a buffer is an
interval. `poll_flush` is cut into three actions (send, drain, park) because
the thread runs between them; the thread's loop is cut where it blocks or
shares. `answer` is what the last poll returned. `buffer_min_size` is chosen in
the initial state; with 0 every write is a command, also one of no bytes.
`PendingAccounted` claims the exact count only until a flush has failed (31), and
at all times that it is not too low.

**SyncAsAsyncRead.** The same view of bytes: `buffered` and the slot `read`
are intervals, `delivered` counts what the caller has. `buffer_size` is any the
caller may give, 0 included, with which `EofIsEof` says what happens (33).
`Rendezvous` is the moment the zero-capacity channel hands the command over. The reader may be
polled by several tasks in turn.

**BackedEntry.** `memory` is the cell, `disk` what a decoding would give. An
open for writing truncates (`entry/disks/plainfile.rs`), so an encoding is two
steps with `disk` undecodable in between, ending well (`Encoded`) or badly
(`EncodingFails`). Loads are cut at the disk read and at the store into the
cell; operations that need `&mut` require that no thread is in a load, which is
what the borrow checker enforces. `Restart` may come anywhere. `tokio` chooses
between the standard cells and tokio's, whose `set` is two steps. `current` are
the threads whose reference is to what the cell holds now: a second value stored
over a first one leaves the threads given the first outside of it.

`ValueStore` says what each of these may do to what users see. A load gives a
reader the current value and changes nothing; owners exclude readers; the value
changes in an open handle, by the end of a write, or by falling back on what is
saved; what is saved changes by a write, which loses it when it begins.

The asynchronous entry is the same module with `cell = "async"`. Its loads
claim the cell, wait for the one that has it, end, or are dropped
(`ALoadClaim` to `ALoadDropped`); its writes may be dropped half way, which
leaves the disk as a failure does and counts as none. A conversion between the
two kinds (`ToSync`, `FromSync`, `AChangeBacking`) loads, moves the value and
writes it.

**BackedArray.** Items are numbers never used twice, so what a read returns
tells where it came from. `InternalIdx` is the contract of
`slice::binary_search`: with equal starts (empty chunks) it may name any of
them, and the model lets it. Loading is part of each read and may fail. The
iterators over slices and over generic containers keep the same state, and so
do a stream and its `Send` twin; they have actions of their own, with one body
where the code has one. `futures` are the items, or chunks, a stream gave
futures for that are neither awaited nor dropped, and the array is borrowed
while there are any. The position of an iterator is one number with, for a
walk, the entry and the place inside it (`loc`); a range is its start and
its end, each range starting where the one before ends.

**BuildArray.** `buffered` is a queue of writes that end in any order and are
collected from its head; `hint` is the `size_hint` the window is taken from. The
keys of `a_from_containers` are a running sum over the lengths.

**SecretBackedArray.** Vectors are sequences of numbers, with a number for the
random bytes a new one is filled with. `CopyFromSlice` panics when lengths
differ, as the code's `copy_from_slice` does, and an array is not used after it.

**Mmap.** A byte is the number of the write that put it there, so `file` is a
sequence of such numbers with 0 for padding. A function of the writer is the
set of its outcomes, and `Then` is the `?` between two of them; each system
call may fail (`Try`). `want` is what the writer accepted since the file was
opened. A function that unwraps has the outcome that poisons the mutex.

**ReqwestRead.** Bytes are numbered as they arrive, in chunks of any length, 0
included. `zero` and `gap` are history: the last poll had a buffer with room and
answered `Ok(0)`; the last chunk was empty. `chunk` is the future kept
in the reader: running, ended and still in place, or polled after its end,
which panics.

**DiskStack and Coding.** The content of a file is a sequence of marks: rows,
the end of a value that tells its end, a header, the end of a frame, and a
ciphertext that holds the marks it encrypts and the secrets it was made with.
`stack` is the disk and what wraps it, `sink` the open writer with the bytes
that each layer keeps. A write that fails leaves a prefix. An encoder is opened
(`Open`), writes its marks one by one, flushes, closes if it is asynchronous,
and drops its writer; `coder drop` is the `csv` writer that flushes again when
it goes. Between encodings the disk and the coder are converted, given
secrets, or deserialised after a restart. `Decoded` is what the coder makes of
what the disk's reader gives.

**ArrayIterMut.** A chunk's content is the number of writes it has seen; `ends`
are the key ranges, each starting where the one before ends. The
two iterators of the code, over keys and over entries, are `key` and `entry`.
The drop of a handle is three steps (look whether it is the last; flush, or
panic; release), so that the drops of several threads interleave. A flush that
fails in a drop panics, the entry's own drop then flushes again while the
thread unwinds, and a second failure aborts the process. A walk of the chunk
iterators gives out the entries' own handles; a generic one gives views that
cannot be written through.

**DirectoryBackedArray.** `dirs`, `files` and `meta` are the file system: the
directories, each file `none`, `torn` or `whole`, and what the `META_FILE` of a
directory decodes to. `array` are the arrays alive, each a root and its chunks;
a chunk is a file name and the directory of its path. The operations that work
file by file (`delete`, `append_dir`, `append_array`, the fallback of
`move_root`) are a `Begin` action, one step per file and an end, with their
progress in `work`; a failure, a dropped future (`Cancel`) or the end of the
process (`Restart`) may come between any two steps. A future dropped while it
waits for a file operation leaves it to the runtime's blocking threads: it does
not happen, stops half way, or ends all the same (`ARemoveDropped`,
`DeleteDropped`, `CancelAppending`, `CancelMoving`, `ARenameDropped`), and not
later than the next step. An operation on another
array may run in between. A copy may fail before it wrote anything, half way,
or when it was complete and its source could not be removed. `sound`, `born`,
`removed`, `lost` and `cuts` are history: they say which exceptions a property
makes, and no guard of an operation reads them (a new name differs from those
drawn before, as UUIDs do, and the bound on `Spent` reads them). Two things are
asked of callers: an array is loaded only while no array alive has its chunks,
and `update_root` is called when the files are where it says.

Assumptions of the models, all named in the modules: a file that was not
written completely fails its decoding; the bodies of a critical section are
atomic; each item handle is owned by one thread; memory is sequentially
consistent at the granularity of the actions.

## Runs

| run | expects | bounds | distinct states | shows |
|---|---|---|---|---|
| `once` | pass | 3 futures, 2 calls each, 2 values, 1 failure | 191,285 | safety, liveness and refinement of the once-cell |
| `once_panic` | `NoPanic` violated | 3 futures, 1 call each, 1 failure | | a stale waker position |
| `write` | pass | 4 bytes, chunks up to 3, minimum sizes 0 and 2, 1 empty command, 2 flushes, 2 errors | 401,916 | order, accounting, retry handshake, end of the thread |
| `write_flush_bytes` | `FlushedBytesAreOnDisk` violated | 5 bytes, minimum size 2, 2 flushes, 2 errors | | a flush that leaves bytes in the buffer |
| `write_flush_answered` | `FlushAnswered` violated | the same | | a flush parked for ever |
| `read` | pass | 2 tasks, 4 bytes, buffers 0 to 2, 1 error | 921 | order, end of file, no blocking send, wake-ups |
| `entry` | pass | 4 threads, 3 values, 2 failures, 3 kinds of cell | 28,489 | agreement of loads, saved memory, refinement, for the sync and the async entry |
| `entry_tokio_cell` | `LoadsDoNotPanic` violated | 3 threads, 3 values | | the unwrap of an empty cell |
| `array` | pass | 3 chunks of up to 2 items, 3 items, skips up to 2, 2 futures; builds of 3 containers of up to 2; 5 secret chunks, capacity 2 | 155,283 | ranges, reads, iterators, futures, queries, refinement; builds end in order; secret ranges |
| `iter_mut` | pass | 3 chunks of up to 2 items, 2 items, 2 writes, 2 failures | 752,560 | handles, drops, flushes |
| `directory` | pass | 2 arrays, 2 directories, 2 names; chunks appended, metadata files and cuts at most 3 together, no new array after that | 1,156,429 | what fails or stops half way loses no file; roots and files agree; no chunk's file is left behind |
| `disks` | pass | a map of pieces of 2, 3 writes of up to 3 bytes, 2 readers, 2 failed system calls; 3 chunks of up to 3 bytes, empty ones too, into buffers of up to 2; values of up to 2 rows, 1 error | 257,363 | guards exclude each other, the file is what was written; the body in order; what was encoded is decoded, what was cut short refused |

Why the bounds are enough to be worth checking. Three futures are an
initialiser, a waiter and one that overtakes; two calls per slot let a slot
meet a queue it was in before. Four bytes in chunks of up to three over a
minimum of two give a command that is split by a partial write, one that is
queued behind it and a rest below the minimum; two errors let a retry fail
again; over a minimum of 0 a write of no bytes is a command as well. Four bytes
over a buffer of two give two full reads and the empty one, and a buffer of no
bytes gives none but empty ones.
Four threads give one that stores, one that lost the race, one that reads and
one that comes late. Three chunks give a middle one to remove, and lengths from
0 to 2 put empty chunks first, last, in the middle and next to each other. Two
failures let the second flush of an unwinding drop fail too. A capacity of 2
and five secret chunks make a deserialised vector grow twice. Two futures are
awaited in either order. A map of pieces of 2 is remapped by the second write;
of two failed system calls one can hit the retry of the other, or the drop
after it. Buffers of 0 to 2 bytes under chunks of 0 to 3 leave a rest that
takes two polls. In
`directory`, 3 together is two chunks and one cut between their files, two
chunks and saved metadata, or one chunk, saved metadata and a restart that
loads it; a cut is an operation cut short, a drop, a restart, or a root given
to an array whose files are elsewhere.

Deadlock is not checked: in each of these modules the bounds on calls, writes
and failures, and a process that aborted, a build that ended or a thread that
ended, leave states without a next step. What could be a real deadlock is covered by the liveness
properties (`EveryCallEnds`, `ThreadEnds`, `RetryIsTaken`, `PollAnswered`,
`BuildEnds`).

Every property of a passing run has a mutant: a definition that models code is
replaced by one with a plausible bug (`RemoveKeyOnly`, `DerefMutUnmarked`,
`ZstdFlushOnly`, ...), and TLC finds the property violated. These variants
stand next to the definition they alter, with a comment that says what is
wrong with them, and no specification uses them.

## Fairness

* `AsyncOnceLock`: a woken task is polled, and an initialiser that runs ends
  (it is one read and one decode). Nothing is assumed of calls, drops and
  spurious polls. `EveryCallEnds` is conditional on no initialiser having
  failed or been dropped: after a failure the code may panic (below), and a
  dropped initialiser leaves `initializing` set for ever.
* `SyncAsAsyncWrite`: the thread runs; a poll that began is finished; a task
  whose waker was used polls again; a drop that began ends. A client need never
  write, flush, retry or drop.
* `SyncAsAsyncRead`: the thread runs, a rendezvous both ends wait for happens,
  and the task whose waker was used polls again.
* `BuildArray`: the caller polls the build, and a write that was begun ends.
  Nobody need cancel. `BuildEnds` leaves out the iterator that says it is
  empty, whose build never ends (below).
* The other modules have no liveness property: the operations of `BackedEntry`,
  `BackedArray`, `ArrayIterMut`, `DirectoryBackedArray` and `Mmap` are calls
  that return, an encoding over an encrypted asynchronous disk is known not to
  (below), and a response may never arrive.

## Proofs

The proofs are checked by TLAPS with Z3, Zenon and LS4, from the named
`ASSUME`s of each module only.

**AsyncOnceLock_proof.** For any set of futures and any bounds: `TypeCorrect`,
`OneInitialiser`, `EveryoneGetsTheValue`, `NoWastedInitialiser`,
`WaitersAreQueued`, `NoPanicBeforeFailure`, and `QueueImplementsCell`. The
safety properties are not inductive alone: that a poll stays inside the queue
needs that, while no initialiser failed, the queue is only emptied when the
cell gets its value or nobody is left to look at it, and that a raised flag and
an initialising or dropped future go together. The strengthening joins these to
the type invariant; each action preserves each part in a step of its own.

**BackedEntry_proof.** For any threads, values and failures, and all three
kinds of cell, the asynchronous entry's included: `TypeCorrect`, `RacingLoadsAgree`, `UnmarkedMemoryIsSaved` and
`EntryImplementsStore`. The strengthening is `IInv`. `Loading`: while any load
is under way the disk stands still, a loading thread carries what the disk
holds, and the cell is empty or holds the same. `Owning`: while the disk is
being written it reads as nothing, and what is being encoded is what memory
holds or is about to. `LoadStep`, `OwnStep` and `RestartStep` show for each
group of actions that `IInv` is preserved and which step of `ValueStore` it is: a
load is a `Give` or a stutter, never a step that changes `value` or `saved`.

**SyncAsAsyncRead_proof.** For any length of source and buffer, a buffer of no
bytes included, and any number of errors: `TypeCorrect`, `BytesStayInOrder`, `EofOnlyAtEnd` and
`SendNeverBlocks`. The strengthening says when the slot may be full, which
command is in the channel, and that nothing is buffered while a read is
pending.

**SyncAsAsyncWrite_proof.** For any number of bytes, any minimum size and any
number of flushes and errors: `TypeCorrect`, `BytesStayInOrder`,
`PendingIsAccounted`, `OneRetryToken`, `ThreadLivesOn` and `FlushedIsWritten`.
The strengthening has three parts. The queued commands, what the thread has in
hand and what it put aside are a chain of intervals from the bytes written to
the bytes sent (`Chain`). `num_cmds_pending` is what is queued, in hand and
answered, and one more for every failed flush whose error was returned or waits
to be (`Counted`, the strengthening). So it is never too low, counting down never
passes zero, and it is exact until a flush fails: that is `PendingIsAccounted`.
That it stays too high after one is a disagreement (31). After a failed write there is one token, which goes from the status
channel to the controller's flag, to the toggle, and back to the thread
(`Handshake`).

**BackedArray, in MCArray_proof.** For any bounds, any ranges with empty chunks
anywhere, and any order of the futures: `TypeCorrect`, `KeysStayTiled`,
`RefusalsAreOutside`, `IteratorsEndAtTheEnd`, `PositionsStayInside`,
`ShrinkingKeepsTheQuery` and `ArrayImplementsFlat`. The invariant is `IInv ==
TypeOK /\ KeysTileEntries /\ ItemsInv /\ IterInv /\ FuturesInv /\ AnswerInv`:
no item is in two places, the location of a walk is its position, a future is
for something that is there, and an answer says what the ranges say. Its step
is one lemma per operation. The lemmas below it are about ranges that follow
each other: they are sorted (`RangesSorted`), they cover the positions
(`RangesCover`), and a binary search among equal starts ends at one of them.

For the refinement, `FlatIs` computes `Flat`, a fold, as the items at the
positions of the ranges, and `RowFacts` does so for the row of sets that
`FlatArray` sees. An append and a merge put a row behind it (`Grown`,
`GrowsOn`); a remove cuts out a whole run (`CutOut`, `CutsOut`); an answer of
either side is the same (`Tells`, `TellsTrue`). `StepShows` is the step
simulation: every step of `MCNext` is a step of `FlatArray` or a stutter.

**BuildArray, in MCArray_proof.** `BuildsStayInOrder`, for any iterator and any
window. The invariant `BuildInv`: what was collected is the front of the
iterator, and the writes in flight go on from there up to what was pulled, so
that only the head of `buffered` can be collected next; sequential keys follow
each other at every step, concurrent ones are a running sum taken at the end.

**SecretBackedArray, in MCArray_proof.** `SecretsStayTiled`, for any number of
chunks, any widths and any capacity above zero. `CopyOver` and `BothFit` say
when a `copy_from_slice` does not panic: a remove ends well for the last chunk
only, and a merge for nothing (25). `ReadsBack` says that a deserialised vector
is the one serialised, however often its capacity doubled.

**ArrayIterMut_proof.** For any chunks, empty ones included, any skips, writes
and failed flushes, and every interleaving of the drops: `TypeCorrect`,
`NothingIsLostInSilence`, `HandlesStayOnTheirItems` and `DropsStayAlone` (an
action property). `IInv` joins to the types: the ranges are in order
(`RangesInv`), both iterators are on one chunk and nothing behind it was
touched (`WalkInv`), a held place is in an open chunk among the positions
passed (`HeldInv`), the mark tells what is not on disk but for the writes of
(6) (`MarkInv`), and a marked chunk is let go only by a panic (`LetGoInv`).
`KeyForFinds` is the skip of `nth` over ranges that end too early.

**Mmap and ReqwestRead, in MCDisks_proof.** `ReqwestRead`, for any response and
buffers: `BodyStaysInOrder` and `EndIsToldAtTheEnd`; what was delivered and what
is left over are the bytes that arrived, and nothing is left over behind an
`Ok(0)`, which the end of the body or an empty chunk (36) has caused.
`Mmap`, for any sizes, writes, readers and failing system calls:
`WriterStaysAlone`, `WrittenStaysInTheFile` and `PaddingStaysCutOff`. Every
function of the writer, whatever its outcome, leaves a `Sound` machine (the
accepted bytes are at the start of the file and inside the reservation), and an
`Exact` one (map, reservation and file have one length) unless a system call
failed; `ThenOk` and `TryPost` carry this through the `?`s, and `SlotInv` says
who may hold the map. These hold for the initial states and steps of `Mmap`
itself (`Spec`), and those of the response within `MCSpec`.

**Coding over DiskStack, in MCDisks_proof.** For values of any number of rows,
any number of errors and restarts, every coder, every file and every way to
wrap it: `EncodedStaysDecodable` and `TornStaysRefused`, for the steps of
`Coding` (`Coders!Spec`). Neither property is inductive, as both speak of the
file alone, and the file is filled through up to three layers. What a writer
holds is, from the file up, the file, the `BufWriter`'s bytes and the frame of
zstd (`Held`). `CodingInv` joins three parts.
* `CodingTypes`: the types, a sink exactly while the disk is open, and its
  secrets those of the value.
* `ClearInv`, for a disk without `Encrypted`: while the coder writes, `Held`
  followed by what is left to write is the whole value; while it closes, `Held`
  is the value; after an answer Ok the layers are empty and the file is the
  value with, under zstd, the end of its frame; and but for csv, which writes its
  buffer again after an error, file and layers are at all times a part of that.
* `SealedInv`, for a disk with `Encrypted` and a coder that flushes once: while
  it writes nothing has gone down and the plaintext followed by the rest is the
  value; afterwards at most one ciphertext has, of the value, of nothing, or cut
  off; under zstd it never leaves the frame.

`Writes`, `Flushes`, `Seals`, `Closes` and `Drops` say what each call on a writer
does to `Held`, for every outcome it may have; they are put together, layer by
layer, from `FileTakes`, `FlushesBuffer`, `WritesBelow`, `LowersFrame`,
`FinishesFrame` and `WritesFrame`. The step of the invariant is one lemma per
action. `ClearRead` and `SealedRead` then say what a reader makes of such a file
(a part of the value, the value, or something unreadable, with the tag after a
decrypted plaintext), and `BincodeReads`, `SerdeJsonReads` and `CsvDecoded` what
a decoder makes of that: the first end, or the last mark, decides.

**DirectoryBackedArray_proof.** For any arrays, directories and file names, and
any number of failures, cancellations and restarts: `NoFileIsLost`,
`FilesStayHome` and `NothingIsLeftBehind`. The first is inductive once the types
are known (`Typed`, among them that work is under way only on an array that is
alive). `MoveKeeps` is the heart of it: the source of a move goes only when the
target is whole, or neither was, or the name is in `lost`, where a dropped
`a_remove` (34) also puts the one whose file goes; the third place a
file may be in is not touched. `RenameKeeps` needs that a directory is renamed
over one without files, `RemovalKeeps` that the entry goes into `removed` with
its file. For the second, `HomeInv` follows each file of an array, and of saved
metadata, through the work under way (`ArrayInv`, `MetaInv`), and says that two
arrays have no name in common (`Apart`). The third has `OrphanInv`: while
nothing was cut short, a chunk's file is named by an array or by the work on one,
and lies in one place.

The proofs rest on these assumptions about the constants, which TLC evaluates
on the runs: markers are not values (`NoValueAssumption`, `ConstantsAssumption`,
`TasksAssumption`, `IteratorAssumption`, `MarkerAssumption`), bounds are
naturals (`BoundsAssumption`, `SpentAssumption`, and the `SizesAssumption` of the
adapters, which allows sizes of 0), reservations and capacities are not zero
where the code has a constant above it (`MmapAssumption`, the `SizesAssumption`
of the secret arrays).

No induction theorem of the library can be used here, as each takes an operator.
Where a proof goes by induction over a length it uses `SetInduction` instead,
which speaks of a set of numbers and follows from the well-foundedness of `<`
(`NatLessThanWellFounded`). A recurrence is a function that exists
(`RecurrenceExists`) and keeps what its steps keep; a fold of the community
modules is unfolded to the function it chooses.

The type invariants are proved in each of these modules, but for `Mmap` and the
directory, where they are part of the strengthening; so are `NoLateClaim` and
`PanicNeedsFailure` of the once-cell and `ThreadOutlivesController` of the write
adapter. No run repeats them.

Every safety invariant and action property that a passing run checks is stated by
a theorem. Only model-checked: the liveness properties (`EveryCallEnds`,
`ThreadEnds`, `RetryIsTaken`, `PollAnswered`, `BuildEnds`), as liveness under
fairness and ENABLED are out of the prover's reach.

## Disagreements found

A violation run shows each of 1 to 4; TLC found 11 as a violation of a first
form of `HomeHoldsFiles`; the others were met while reading and modelling. A property that a disagreement breaks excepts it by name, so
that it still watches everything else.

1. `utils/sync.rs:186`: a waiter polled after a failed initialiser and before
   the next one ends indexes past the emptied queue and panics, poisoning it.
2. `entry/adapters.rs:488`: flush, close and drop do not send the bytes that
   wait in `write_buffer`.
3. `entry/adapters.rs:488-491` against `392-395`: the flush's wake-up can be
   lost.
4. `utils/once.rs:99-105`: racing loads over tokio's cell can unwrap an empty
   cell.
5. `array/sync_impl/mod.rs:322-328`: `from_backing` builds wrong ranges.
6. `array/sync_impl/mod.rs:371`: a write through a handle after a flush is not
   marked and is lost.
7. `entry/adapters.rs:204-206`: after a read error the next poll waits for ever.
8. `entry/sync_impl.rs:197-201`: `is_modified` is false on an entry whose write
   failed.
9. `entry/mod.rs:97-98` names tokio's cell; the code uses `AsyncOnceLock`.
10. `directory/sync_impl.rs:114-165`: the entries of an appended directory or
    array keep the paths their files were moved from.
11. `directory/sync_impl.rs:121`: merged again, into an array at that old path,
    such an entry's file is taken to be there already and left behind.
12. `directory/sync_impl.rs:241-242`: `move_root` copies a file that is already
    in the new root onto itself, which empties it, and removes it. A retry that
    meets a torn source also replaces the whole copy an earlier move left.
13. `directory/async_impl.rs:141`: `a_append_dir` does not remove the metadata
    file, so the directory of a saved `rhs` is never cleaned up.
14. `array/sync_impl/mod.rs:278`: `from_containers` writes every chunk to a
    clone of one disk, and so does `a_from_containers`. `BuildArray` models what
    is written in which order, and not what is read back.
15. `entry/disks/mmap.rs:273`: writing again while the map of the last writer is
    kept appends to what was written.
16. `entry/disks/mmap.rs:614`: a truncation that fails panics with the mutex
    held.
17. `entry/disks/mmap.rs:591`: a write tried again after a failed remap leaves
    the map and panics.
18. `entry/async_impl.rs:184-194`: the asynchronous mutable handle's `deref` and
    `deref_mut` are `todo!()`.
19. `entry/async_impl.rs:419` against `443`, `entry/adapters.rs:607` against
    `646`, `entry/disks/encrypted.rs:684`: what runs on a blocking thread does
    not answer what its caller asks for.
20. `entry/disks/encrypted.rs:406`: the tag stays after the decrypted plaintext.
21. `entry/disks/encrypted.rs:487`: a flush does not flush the disk below, and a
    second one encrypts everything again.
22. `entry/disks/encrypted.rs:762`: the asynchronous flush waits without a
    waker, and panics when polled again.
23. `entry/disks/zstd.rs:222` and `entry/adapters.rs:652`: a level out of bounds,
    and handles that are not set, are found out after the file was truncated.
24. `entry/formats/csv.rs:153`: rows without names lose the first one to the
    header, and a file cut between rows decodes to a shorter value.
25. `array/container/encrypted.rs:192-227`: three of the four resizes of a
    secret vector panic unless there is nothing to copy behind the first part.
26. `array/async_impl/mod.rs:189`: `a_from_containers` of an iterator known to
    be empty never ends.
27. `array/async_impl/slice.rs:107`: a stream's future panics for an index that
    is there, when an empty chunk comes before its chunk.
28. `array/sync_impl/slice.rs:307`: `size_hint` underflows after a skip past the
    end.
29. `array/sync_impl/generic.rs:438`: the generic mutable chunk iterator gives
    views that cannot be written through.
30. `entry/disks/network.rs:170`: a reader polled after its end polls a finished
    future.
31. `entry/adapters.rs:388`: the error of a flush is returned without counting
    its command off, and every later flush parks for ever.
32. `entry/adapters.rs:474`: nothing clears `flush_waker`, so that after one
    flush has parked later ones send no Flush: they answer without flushing the
    writer, or park with nobody to wake them.
33. `entry/adapters.rs:83`: a `read_buffer_size` of 0 is accepted, and every read
    answers `Ok(0)` at once.
34. `directory/async_impl.rs:58`: an `a_remove` dropped while the file goes keeps
    the entry, and neither it nor `a_delete` gets past that entry again.
35. `directory/async_impl.rs:175`: an `a_move_root` dropped while the directory
    is renamed keeps the old root and paths.
36. `entry/disks/network.rs:171`: an empty chunk of a body is answered `Ok(0)`,
    which a reader takes for the end.
37. `entry/formats/csv.rs:100`: `quoting` and `trim` are given to the reader and
    not to the writer, so with them some fields do not read back as written.

## What is not modelled

* `from_backing`: every array it returns has wrong ranges (5), so it is not an
  action of `BackedArray`.
* What a chunk built by `from_containers` reads back as (14): `BuildArray` stops
  at the ranges and the order.
* `SyncAsAsync` opens the disk and builds the two adapters, and delegates to
  them. Two encodings of one entry at once, after a `SyncCoderAsAsync` was
  cancelled (`CancelAsAsync` lets its thread end first).
* `DirectoryBackedArray::deconstruct`, which gives the array away, and an
  `update_root` whose disk refuses the new path.
* Characters: `quoting` and `trim` of the CSV coders (37), whose rows are marks
  in `Coding`.
* A file operation of tokio that goes on after its future was dropped, later
  than the next step: in `DirectoryBackedArray` it ends with the drop or not at
  all, and in `BackedEntry` and `Coding` a write that was under way does not land
  after the file is opened again.
* `META_FILE` and directories that stay behind: `NoOrphans` speaks of chunks'
  files. `delete` leaves both when the array was saved, and so does
  `a_append_dir` (13).
* Libraries: serde and the formats, zstd, AES-GCM, `secrets`, reqwest, memmap2,
  `futures`. They are modelled as far as the code depends on them, and marked
  external in the map.
* Lengths of 32 and 64 bits: `Mmap` takes them as naturals, and its conversion
  to `i64` as one of the ways a reservation fails.
* The plain containers, the borrow extenders, the blocking executors and the
  cursor have no state that callers share. Tests, examples, benches and
  `extra_docs` are callers and text.

`PROJECT.json` lists each component with the reason.

## Plan

Built, in this order: the once-cell and its abstract specification, the two
adapters, the entry over its store, the array over its flat sequence, the
mutable iterator, the directory; proofs of the cell, the read adapter and the
entry; then the asynchronous entry and array, the generic array, the building of
arrays, the secret arrays, the mmap disk, the network disk, the file disks with
what wraps them, and the formats; the proofs of the directory, the write
adapter, the mutable iterator, the mmap and the network disk, the arrays, and
the coders over the file disks.

Next, in this order: the composition of `SyncAsAsyncWrite` with `Coding`, in
place of the atomic buffer below an encoder; a second encoding while a cancelled
one runs; `from_containers` over disks that are shared by their chunks.

Theorems worth proving next: what a composed write adapter keeps of
`EncodedIsDecodable`, from `BytesStayInOrder` and `ClearInv`.
