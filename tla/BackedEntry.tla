----------------------------- MODULE BackedEntry -----------------------------
(***************************************************************************)
(* `BackedEntry` and its handles (src/src/entry/sync_impl.rs and           *)
(* async_impl.rs): a value on disk with a write-once cell (`Once`,         *)
(* utils/once.rs) as its copy in memory.  Threads or tasks that share the  *)
(* entry load it at once; whoever has it exclusively writes, unloads or    *)
(* opens a mutable handle.  Opening the disk truncates it, encoding fills  *)
(* it, either may fail, a future may be dropped at any await, and the      *)
(* process may end anywhere and start again over the same disk.            *)
(*                                                                         *)
(* A disk that was not written completely is taken to fail its decoding.   *)
(* The asynchronous entry's cell is used as OnceCell specifies it, which   *)
(* AsyncOnceLock implements.                                               *)
(***************************************************************************)
EXTENDS Naturals

CONSTANTS
  Threads,      (* who shares the entry                                     *)
  Values,
  NoValue,      (* an empty cell, or a disk with nothing to decode          *)
  Nobody,
  MaxFailures   (* bound: operations that fail                              *)

ASSUME ConstantsAssumption ==
  /\ NoValue \notin Values
  /\ Nobody \notin Threads
  /\ MaxFailures \in Nat

VARIABLES
  cell,         (* a std cell, tokio's OnceCell, or an AsyncOnceLock        *)
  memory,       (* the cell                                                 *)
  disk,
  at,           (* per thread: where its load is                            *)
  got,          (* per thread: what it decoded, then what it was given      *)
  setting,      (* the thread inside tokio's `set`                          *)
  current,      (* history: the threads whose reference is to what the cell *)
                (* holds now, and not to a value it replaced                *)
  owner,        (* idle, handle open, or the operation that is encoding     *)
  modified,     (* the handle's mark                                        *)
  content,      (* what is being encoded                                    *)
  spoilt,       (* history: a failed write left memory and disk apart       *)
  failures      (* history                                                  *)

loads == <<at, got, setting, current>>
vars == <<cell, memory, disk, loads, owner, modified, content, spoilt, failures>>

Cells == {"std", "tokio", "async"}
Cancellable == {"a_write", "a_write_unload", "a_update", "a_flush"}
Encodings == {"write", "write_unload", "update", "flush", "drop"} \cup Cancellable
InHandle == {"handle", "flush", "drop", "a_flush"}

TypeOK ==
  /\ cell \in Cells
  /\ memory \in Values \cup {NoValue}
  /\ disk \in Values \cup {NoValue}
  /\ at \in [Threads -> {"idle", "waiting", "reading", "storing", "fetching", "holding", "panicked"}]
  /\ got \in [Threads -> Values \cup {NoValue}]
  /\ setting \in Threads \cup {Nobody} /\ current \subseteq Threads
  /\ owner \in {"idle", "handle"} \cup Encodings
  /\ modified \in BOOLEAN /\ spoilt \in BOOLEAN
  /\ content \in Values \cup {NoValue}
  /\ modified => owner \in InHandle
  /\ failures \in 0..MaxFailures

\* `new`: over a disk that nothing was written to.
Init ==
  /\ cell \in Cells
  /\ memory = NoValue /\ disk = NoValue
  /\ at = [t \in Threads |-> "idle"]
  /\ got = [t \in Threads |-> NoValue]
  /\ setting = Nobody /\ current = {}
  /\ owner = "idle" /\ modified = FALSE /\ content = NoValue
  /\ spoilt = FALSE
  /\ failures = 0

Fails == failures < MaxFailures /\ failures' = failures + 1

-----------------------------------------------------------------------------
(***************************************************************************)
(* load, through `&self`, by several threads.                              *)
(***************************************************************************)
Shared == owner = "idle" /\ UNCHANGED <<cell, disk, owner, modified, content, spoilt>>

\* The thread is given a reference to what is in the cell, as those in `refs` were.
Hold(t, v, refs) ==
  /\ at' = [at EXCEPT ![t] = "holding"]
  /\ got' = [got EXCEPT ![t] = v]
  /\ current' = refs \cup {t}

LoadFromMemory(t) ==
  /\ Shared /\ at[t] = "idle" /\ memory # NoValue
  /\ UNCHANGED <<memory, setting, failures>>
  /\ Hold(t, memory, current)

LoadMisses(t) ==
  /\ cell # "async"
  /\ Shared /\ at[t] = "idle" /\ memory = NoValue
  /\ at' = [at EXCEPT ![t] = "reading"]
  /\ UNCHANGED <<memory, got, setting, current, failures>>

LoadDecodes(t) ==
  /\ cell # "async"
  /\ Shared /\ at[t] = "reading" /\ disk # NoValue
  /\ at' = [at EXCEPT ![t] = "storing"]
  /\ got' = [got EXCEPT ![t] = disk]
  /\ UNCHANGED <<memory, setting, current, failures>>

LoadFails(t) ==
  /\ Shared /\ at[t] = "reading"
  /\ (disk = NoValue /\ UNCHANGED failures) \/ Fails
  /\ at' = [at EXCEPT ![t] = "idle"]
  /\ UNCHANGED <<memory, got, setting, current>>

\* With the value of whoever comes last.
StoreOver(t) ==
  /\ cell = "std"
  /\ Shared /\ at[t] = "storing"
  /\ memory' = got[t]
  /\ Hold(t, got[t], {})
  /\ UNCHANGED <<setting, failures>>

\* get_or_init of the std cells: the first to come fills it.
Store(t) ==
  /\ cell = "std"
  /\ Shared /\ at[t] = "storing"
  /\ memory' = IF memory = NoValue THEN got[t] ELSE memory
  /\ Hold(t, memory', IF memory = NoValue THEN {} ELSE current)
  /\ UNCHANGED <<setting, failures>>

\* get_or_init over tokio's cell: `set` gives up when the cell is full or when
\* another thread is inside `set`; then the cell is unwrapped.
BeginSet(t) ==
  /\ cell = "tokio"
  /\ Shared /\ at[t] = "storing" /\ setting # t
  /\ IF memory = NoValue /\ setting = Nobody
       THEN setting' = t /\ UNCHANGED at
       ELSE at' = [at EXCEPT ![t] = "fetching"] /\ UNCHANGED setting
  /\ UNCHANGED <<memory, got, current, failures>>

EndSet(t) ==
  /\ Shared /\ setting = t
  /\ memory' = got[t] /\ current' = {}
  /\ setting' = Nobody
  /\ at' = [at EXCEPT ![t] = "fetching"]
  /\ UNCHANGED <<got, failures>>

Fetch(t) ==
  /\ Shared /\ at[t] = "fetching"
  /\ UNCHANGED <<memory, setting, failures>>
  /\ IF memory = NoValue
       THEN at' = [at EXCEPT ![t] = "panicked"] /\ UNCHANGED <<got, current>>
       ELSE Hold(t, memory, current)

\* a_load: the first to come decodes, others wait for it.
ALoadClaim(t) ==
  /\ cell = "async"
  /\ Shared /\ at[t] \in {"idle", "waiting"} /\ memory = NoValue
  /\ \A u \in Threads : at[u] # "reading"
  /\ at' = [at EXCEPT ![t] = "reading"]
  /\ UNCHANGED <<memory, got, setting, current, failures>>

ALoadWaits(t) ==
  /\ cell = "async"
  /\ Shared /\ at[t] = "idle" /\ memory = NoValue
  /\ \E u \in Threads : at[u] = "reading"
  /\ at' = [at EXCEPT ![t] = "waiting"]
  /\ UNCHANGED <<memory, got, setting, current, failures>>

ALoadEnds(t) ==
  /\ cell = "async"
  /\ Shared
  /\ \/ at[t] = "reading" /\ disk # NoValue /\ memory' = IF memory = NoValue THEN disk ELSE memory
     \/ at[t] = "waiting" /\ memory # NoValue /\ UNCHANGED memory
  /\ Hold(t, memory', IF memory = NoValue THEN {} ELSE current)
  /\ UNCHANGED <<setting, failures>>

ALoadDropped(t) ==
  /\ cell = "async"
  /\ Shared /\ at[t] \in {"waiting", "reading"}
  /\ at' = [at EXCEPT ![t] = "idle"]
  /\ UNCHANGED <<memory, got, setting, current, failures>>

\* The thread lets go of the reference.
Return(t) ==
  /\ Shared /\ at[t] \in {"holding", "panicked"}
  /\ at' = [at EXCEPT ![t] = "idle"]
  /\ current' = current \ {t}
  /\ UNCHANGED <<memory, got, setting, failures>>

-----------------------------------------------------------------------------
(***************************************************************************)
(* Operations through `&mut self`, which exclude every thread's load.      *)
(***************************************************************************)
Exclusive == (\A t \in Threads : at[t] = "idle") /\ UNCHANGED <<cell, loads>>

\* write_disk truncates the disk and encoding starts.
BeginEncoding(op, v) ==
  /\ disk' = NoValue
  /\ owner' = op /\ content' = v
  /\ UNCHANGED failures

\* write_disk fails and leaves the disk as it is.
OpenFails == Fails /\ UNCHANGED <<disk, owner, content>>

Write(v) ==
  /\ cell # "async"
  /\ Exclusive /\ owner = "idle"
  /\ BeginEncoding("write", v) \/ OpenFails
  /\ UNCHANGED <<memory, modified, spoilt>>

\* With the old value kept in memory.
WriteUnloadKeeps(v) ==
  /\ cell # "async"
  /\ Exclusive /\ owner = "idle"
  /\ BeginEncoding("write_unload", v) \/ OpenFails
  /\ UNCHANGED <<memory, modified, spoilt>>

WriteUnload(v) ==
  /\ cell # "async"
  /\ Exclusive /\ owner = "idle"
  /\ memory' = NoValue /\ spoilt' = FALSE
  /\ BeginEncoding("write_unload", v) \/ OpenFails
  /\ UNCHANGED modified

Update ==
  /\ cell # "async"
  /\ Exclusive /\ owner = "idle" /\ memory # NoValue
  /\ BeginEncoding("update", memory) \/ OpenFails
  /\ UNCHANGED <<memory, modified, spoilt>>

Unload ==
  /\ Exclusive /\ owner = "idle"
  /\ memory' = NoValue /\ spoilt' = FALSE
  /\ UNCHANGED <<disk, owner, modified, content, failures>>

Loaded == IF memory # NoValue THEN memory ELSE disk

\* change_backing: the disk is another one from now on.  When it fails the
\* entry is gone, and one opened over the old disk is as after a crash.
ChangeBacking ==
  /\ cell # "async"
  /\ Exclusive /\ owner = "idle" /\ Loaded # NoValue
  /\ memory' = Loaded /\ disk' = Loaded /\ spoilt' = FALSE
  /\ UNCHANGED <<owner, modified, content, failures>>

MutHandle ==
  /\ cell # "async"
  /\ Exclusive /\ owner = "idle" /\ Loaded # NoValue
  /\ memory' = Loaded
  /\ owner' = "handle"
  /\ UNCHANGED <<disk, modified, content, spoilt, failures>>

\* With the mark forgotten.
DerefMutUnmarked(v) ==
  /\ cell # "async"
  /\ Exclusive /\ owner = "handle"
  /\ memory' = v
  /\ UNCHANGED <<disk, owner, modified, content, spoilt, failures>>

DerefMut(v) ==
  /\ cell # "async"
  /\ Exclusive /\ owner = "handle"
  /\ memory' = v /\ modified' = TRUE
  /\ UNCHANGED <<disk, owner, content, spoilt, failures>>

Flush ==
  /\ cell # "async"
  /\ Exclusive /\ owner = "handle" /\ modified
  /\ BeginEncoding("flush", memory) \/ OpenFails
  /\ UNCHANGED <<memory, modified, spoilt>>

\* A marked handle flushes when it is dropped, and panics when that fails.
DropHandle ==
  /\ cell # "async"
  /\ Exclusive /\ owner = "handle"
  /\ IF modified
       THEN \/ /\ BeginEncoding("drop", memory)
               /\ UNCHANGED <<modified, spoilt>>
            \/ /\ Fails
               /\ owner' = "idle" /\ modified' = FALSE /\ spoilt' = TRUE
               /\ UNCHANGED <<disk, content>>
       ELSE owner' = "idle" /\ UNCHANGED <<disk, modified, content, spoilt, failures>>
  /\ UNCHANGED memory

-----------------------------------------------------------------------------
(***************************************************************************)
(* The same through an asynchronous entry.                                 *)
(***************************************************************************)
AWrite(v) ==
  /\ cell = "async"
  /\ Exclusive /\ owner = "idle"
  /\ BeginEncoding("a_write", v) \/ OpenFails
  /\ UNCHANGED <<memory, modified, spoilt>>

AWriteUnload(v) ==
  /\ cell = "async"
  /\ Exclusive /\ owner = "idle"
  /\ memory' = NoValue /\ spoilt' = FALSE
  /\ BeginEncoding("a_write_unload", v) \/ OpenFails
  /\ UNCHANGED modified

AUpdate ==
  /\ cell = "async"
  /\ Exclusive /\ owner = "idle" /\ memory # NoValue
  /\ BeginEncoding("a_update", memory) \/ OpenFails
  /\ UNCHANGED <<memory, modified, spoilt>>

AMutHandle ==
  /\ cell = "async"
  /\ Exclusive /\ owner = "idle" /\ Loaded # NoValue
  /\ memory' = Loaded
  /\ owner' = "handle"
  /\ UNCHANGED <<disk, modified, content, spoilt, failures>>

\* Marks the handle and panics before it gives the value out.
ADerefMut ==
  /\ cell = "async"
  /\ Exclusive /\ owner = "handle"
  /\ modified' = TRUE
  /\ UNCHANGED <<memory, disk, owner, content, spoilt, failures>>

\* Writes whether the handle is marked or not.
AFlush ==
  /\ cell = "async"
  /\ Exclusive /\ owner = "handle"
  /\ BeginEncoding("a_flush", memory) \/ OpenFails
  /\ UNCHANGED <<memory, modified, spoilt>>

\* A marked handle panics, and saves nothing.
ADropHandle ==
  /\ cell = "async"
  /\ Exclusive /\ owner = "handle"
  /\ owner' = "idle" /\ modified' = FALSE
  /\ UNCHANGED <<memory, disk, content, spoilt, failures>>

\* The value moves to a cell of the other kind and is written to the other disk,
\* on a blocking thread where that is synchronous; a failure is as one of
\* change_backing.
Convert(from, to) ==
  /\ cell = from /\ cell' = to
  /\ \A t \in Threads : at[t] = "idle"
  /\ owner = "idle" /\ Loaded # NoValue
  /\ memory' = Loaded /\ disk' = Loaded /\ spoilt' = FALSE
  /\ UNCHANGED <<loads, owner, modified, content, failures>>

AChangeBacking == Convert("async", "async")
ToSync == \E c \in Cells \ {"async"} : Convert("async", c)
FromSync == \E c \in Cells \ {"async"} : Convert(c, "async")

-----------------------------------------------------------------------------
AfterEncoding == IF owner \in {"flush", "a_flush"} THEN "handle" ELSE "idle"

\* Encoding ends; write then replaces what is in memory.
Encoded ==
  /\ Exclusive /\ owner \in Encodings
  /\ disk' = content
  /\ memory' = IF owner \in {"write", "a_write"} THEN content ELSE memory
  /\ owner' = AfterEncoding
  /\ modified' = FALSE /\ spoilt' = FALSE
  /\ UNCHANGED <<content, failures>>

\* Encoding fails, or its future is dropped; a handle that stays open keeps its
\* mark.
EncodingFails ==
  /\ Exclusive /\ owner \in Encodings
  /\ Fails \/ (owner \in Cancellable /\ UNCHANGED failures)
  /\ owner' = AfterEncoding
  /\ modified' = (modified /\ owner \in {"flush", "a_flush"})
  /\ spoilt' = (memory # NoValue)
  /\ UNCHANGED <<memory, disk, content>>

\* The process ends anywhere and a new one opens the entry over the same disk;
\* `take`, or dropping the entry, does the same to it.
Restart ==
  /\ memory' = NoValue
  /\ at' = [t \in Threads |-> "idle"] /\ setting' = Nobody /\ current' = {}
  /\ owner' = "idle" /\ modified' = FALSE /\ spoilt' = FALSE
  /\ UNCHANGED <<cell, disk, got, content, failures>>

Load(t) ==
  \/ LoadFromMemory(t) \/ LoadMisses(t) \/ LoadDecodes(t) \/ LoadFails(t)
  \/ Store(t) \/ BeginSet(t) \/ EndSet(t) \/ Fetch(t) \/ Return(t)
  \/ ALoadClaim(t) \/ ALoadWaits(t) \/ ALoadEnds(t) \/ ALoadDropped(t)

Own ==
  \/ \E v \in Values : Write(v) \/ WriteUnload(v) \/ DerefMut(v)
  \/ Update \/ Unload \/ ChangeBacking
  \/ MutHandle \/ Flush \/ DropHandle
  \/ Encoded \/ EncodingFails

AOwn ==
  \/ \E v \in Values : AWrite(v) \/ AWriteUnload(v)
  \/ AUpdate \/ AMutHandle \/ ADerefMut \/ AFlush \/ ADropHandle
  \/ AChangeBacking \/ ToSync \/ FromSync

Next == (\E t \in Threads : Load(t)) \/ Own \/ AOwn \/ Restart

Spec == Init /\ [][Next]_vars

-----------------------------------------------------------------------------
(***************************************************************************)
(* Properties.                                                             *)
(***************************************************************************)
\* Threads that raced to load hold references to the one value of the cell, and
\* one still on its way brings what the cell holds or will hold: no value is
\* stored over one that was handed out (sync_impl.rs:55-64,
\* utils/once.rs:65-70, 99-105).
LoadsAgree ==
  \A t \in Threads :
    /\ at[t] = "holding" =>
         memory # NoValue /\ got[t] = memory /\ t \in current
    /\ at[t] = "storing" => got[t] # NoValue /\ memory \in {NoValue, got[t]}

\* Memory agrees with the disk, so that unloading loses nothing, unless the
\* open handle is marked or a write has failed since they last agreed
\* (sync_impl.rs:189-211).
MemoryIsSaved ==
  memory # NoValue /\ owner \in {"idle", "handle"} =>
    disk = memory \/ modified \/ spoilt

\* The cell has a value when get_or_init unwraps it (utils/once.rs:99-105).
LoadsDoNotPanic == \A t \in Threads : at[t] # "panicked"

Given == [t \in Threads |-> IF at[t] = "holding" THEN got[t] ELSE NoValue]
Phase ==
  CASE owner = "idle" -> "shared"
    [] owner = "handle" -> "handle"
    [] owner \in {"flush", "a_flush"} -> "flushing"
    [] OTHER -> "writing"
Encoding == IF owner \in Encodings THEN content ELSE NoValue

Abstract == INSTANCE ValueStore
              WITH Readers <- Threads, Lost <- NoValue, value <- Loaded,
                   saved <- disk, given <- Given, phase <- Phase, content <- Encoding

\* Loading, by however many threads, never shows: each is given the current
\* value, and neither that nor what is saved changes meanwhile.  The value is
\* changed by a handle, by a write, which gives up what was saved when it begins
\* and is the value when it ends, or by falling back on the disk
\* (sync_impl.rs:33-105, 175-237).
ImplementsValueStore == Abstract!Spec
=============================================================================
