-------------------------------- MODULE Mmap --------------------------------
(***************************************************************************)
(* `Mmap` (src/src/entry/disks/mmap.rs): a file mapped into memory, read   *)
(* through any number of read guards or written through one write guard.   *)
(* A mutex holds the one map, `SwitchingMmap`, while a call changes it     *)
(* from one kind to the other; guards are dropped at any time, and may be  *)
(* dropped after the `Mmap` itself.  A writer reserves more of the file    *)
(* than it has written and cuts the rest off when it flushes or goes.      *)
(*                                                                         *)
(* The map is shared, so what is written to it is in the file at once.     *)
(* Every call of the operating system may fail, and the process may end    *)
(* anywhere.  A function of the code is the set of its outcomes.           *)
(***************************************************************************)
EXTENDS Integers, Sequences, SequencesExt

CONSTANTS
  MinReserve,   (* MIN_RESERVE_LEN                                          *)
  Hole,         (* EIGHT_GIB                                                *)
  Garbage,      (* bound: length of the file found at the start             *)
  MaxWrites,    (* bound: write calls                                       *)
  MaxReaders,   (* bound: read guards at once                               *)
  MaxFaults     (* bound: failing system calls                              *)

ASSUME MmapAssumption ==
  /\ {MinReserve, Hole, MaxReaders} \subseteq Nat \ {0}
  /\ {Garbage, MaxWrites, MaxFaults} \subseteq Nat

VARIABLES
  file,         (* the bytes of the file: 0, or the number of the write     *)
  open,         (* whether the Mmap exists                                  *)
  mmap,         (* its SwitchingMmap                                        *)
  poisoned,     (* its mutex: every later call panics                       *)
  rlen,         (* length of the ReadMmap, 0 for Empty                      *)
  readers,      (* ReadMmapGuards                                           *)
  guard,        (* whether there is a WriteMmapGuard                        *)
  writer,       (* the MmapWriter                                           *)
  want,         (* history: what the writer was given                       *)
  torn,         (* history: a failure since the writer was made             *)
  writes, faults   (* history: counts                                       *)

vars == <<file, open, mmap, poisoned, rlen, readers, guard, writer, want,
          torn, writes, faults>>

Slots == {"Invalid", "Read", "Write"}
NoWriter == [len |-> -1, written |-> 0, reserved |-> 0, sparse |-> FALSE]
HasWriter == writer # NoWriter

\* as_ref of the writer
Visible == SubSeq(file, 1, writer.written)

TypeOK ==
  /\ file \in Seq(0..MaxWrites) /\ want \in Seq(0..MaxWrites)
  /\ open \in BOOLEAN /\ guard \in BOOLEAN /\ poisoned \in BOOLEAN /\ torn \in BOOLEAN
  /\ mmap \in Slots
  /\ rlen \in Nat
  /\ readers \in 0..MaxReaders
  /\ writer \in [len : Nat, written : Nat, reserved : Nat, sparse : BOOLEAN] \cup {NoWriter}
  /\ HasWriter <=> (mmap = "Write" \/ guard)
  /\ writes \in 0..MaxWrites /\ faults \in 0..MaxFaults

Init ==
  /\ file \in {[i \in 1..n |-> 0] : n \in 0..Garbage}
  /\ open = FALSE /\ mmap = "Invalid" /\ poisoned = FALSE
  /\ rlen = 0 /\ readers = 0 /\ guard = FALSE
  /\ writer = NoWriter
  /\ want = file /\ torn = FALSE
  /\ writes = 0 /\ faults = 0

-----------------------------------------------------------------------------
(***************************************************************************)
(* MmapWriter.  `m` is the writer with its file; a function's outcome is   *)
(* what it leaves and whether it returned Ok or Err or panicked.           *)
(***************************************************************************)
Machine == [file |-> file, w |-> writer, want |-> want, faults |-> faults]
Ok(m) == [m |-> m, res |-> "ok"]
Outcome(m, res) == [m |-> [m EXCEPT !.faults = @ + 1], res |-> res]

\* A system call: it works and leaves `good`, or fails with `res`.
Try(m, good, res) == {Ok(good)} \cup {Outcome(m, res) : x \in 1..(MaxFaults - m.faults)}

Then(outcomes, F(_)) == UNION {IF o.res = "ok" THEN F(o.m) ELSE {o} : o \in outcomes}
OrElse(outcomes, F(_)) == UNION {IF o.res = "ok" THEN {o} ELSE F(o.m) : o \in outcomes}

Resize(s, n) == [i \in 1..n |-> IF i <= Len(s) THEN s[i] ELSE 0]
SetLen(m, n, res) == Try(m, [m EXCEPT !.file = Resize(@, n)], res)
SetReserved(m, n) == [m EXCEPT !.w.reserved = n]

\* open_mmap_file through `file`
OpenFile(m) == Try(m, m, "err")

Remap(m) == Try(m, [m EXCEPT !.w.len = m.w.reserved], "err")

ReserveFtruncate(m, n) == Then(SetLen(m, n, "err"), LAMBDA x : {Ok(SetReserved(x, n))})

\* Whether the file system leaves holes is not known, and the test may fail.
TestForHole == {"hole", "no hole", "error"}

ReserveSparse(m) ==
  LET larger == m.w.reserved + Hole
      after(test) ==
        CASE test = "hole" -> Then(SetLen(m, larger, "err"), LAMBDA x : {Ok(SetReserved(x, larger))})
          [] test = "no hole" -> {Ok([m EXCEPT !.w.sparse = FALSE])}
          [] test = "error" -> {Ok(m)}
  IN  UNION {after(test) : test \in TestForHole}

Grow(m, n) ==
  LET plain(x) == Then(SetLen(x, n, "err"), LAMBDA y : {Ok(SetReserved(y, n))})
  IN  IF m.w.sparse
        THEN OrElse(Then(ReserveFtruncate(m, n), ReserveSparse), plain)
        ELSE plain(m)

\* With the reservation one byte short.
ReserveForShort(m, len) ==
  LET remaining == m.w.reserved - m.w.written
      reservation == m.w.reserved + (IF len - remaining > MinReserve THEN len - remaining ELSE MinReserve)
  IN  IF len <= remaining + 1 THEN {Ok(m)}
      ELSE Then(Then(OpenFile(m), LAMBDA x : Grow(x, reservation)), Remap)

ReserveFor(m, len) ==
  LET remaining == m.w.reserved - m.w.written
      reservation == m.w.reserved + (IF len - remaining > MinReserve THEN len - remaining ELSE MinReserve)
  IN  IF len <= remaining THEN {Ok(m)}
      ELSE Then(Then(OpenFile(m), LAMBDA x : Grow(x, reservation)), Remap)

\* The slice is checked against the map; nothing checks it against the file.
WriteData(m, byte, len) ==
  LET end == m.w.written + len
      store(s) == [i \in DOMAIN s |-> IF i \in (m.w.written + 1)..end THEN byte ELSE s[i]]
  IN  IF end > m.w.len THEN {[m |-> m, res |-> "panic"]}
      ELSE IF end > Len(m.file) THEN {[m |-> m, res |-> "sigbus"]}
      ELSE {Ok([m EXCEPT !.file = store(@), !.w.written = end,
                         !.want = @ \o [i \in 1..len |-> byte]])}

\* With the length of the file left as it was reserved.
TruncateMapOnly(m) ==
  IF m.w.written >= m.w.reserved THEN {Ok(m)} ELSE Remap(SetReserved(m, m.w.written))

\* The length is set with an unwrap.
Truncate(m) ==
  IF m.w.written >= m.w.reserved THEN {Ok(m)}
  ELSE Then(Then(OpenFile(m), LAMBDA x : SetLen(x, m.w.written, "panic")),
            LAMBDA x : Remap(SetReserved(x, m.w.written)))

\* truncate, then msync
FlushMap(m) == Then(Truncate(m), LAMBDA x : Try(x, x, "err"))

\* A flush, and a second map of the file to leave behind.
GetMap(m) == Then(FlushMap(m), LAMBDA x : Then(OpenFile(x), LAMBDA y : Try(y, y, "err")))

\* Drop panics on any failure; the writer is gone all the same.
DropWriter(m) ==
  {[o EXCEPT !.res = IF @ = "ok" THEN "ok" ELSE "panic"] : o \in Truncate(m)}

NewWriter(m, len) == [m EXCEPT !.w = [len |-> len, written |-> 0, reserved |-> len, sparse |-> TRUE],
                               !.want = <<>>]

\* from_args, over the map that readers had.
FromArgs(m) == Try(m, NewWriter(m, rlen), "err")

\* no_advise: an empty file gets a byte, for mmap to succeed.
NoAdvise(m) ==
  Then(Then(OpenFile(m), LAMBDA x : IF x.file = <<>> THEN SetLen(x, 1, "err") ELSE {Ok(x)}),
       LAMBDA x : Try(x, NewWriter(x, Len(x.file)), "err"))

Gone(m) == [m EXCEPT !.w = NoWriter]

\* What an outcome leaves in the variables.
Keep(m) ==
  /\ file' = m.file /\ writer' = m.w /\ want' = m.want
  /\ faults' = m.faults
  /\ torn' = (torn \/ m.faults > faults)

-----------------------------------------------------------------------------
(***************************************************************************)
(* Mmap: `new`, `try_from` and `deserialize`; read_disk and write_disk     *)
(* with the mutex held from beginning to end.                              *)
(***************************************************************************)
\* new_arc: maps what the file holds now.
NewArc(m) == Then(OpenFile(m), LAMBDA x : Try(x, x, "err"))

\* Another Mmap over the file while guards of the first one live is left out.
Open ==
  /\ ~open /\ readers = 0 /\ ~guard
  /\ \E o \in NewArc(Machine) :
       /\ faults' = o.m.faults
       /\ IF o.res = "ok"
            THEN /\ open' = TRUE /\ mmap' = "Read" /\ rlen' = Len(file)
                 /\ want' = file /\ torn' = FALSE /\ poisoned' = FALSE
            ELSE UNCHANGED <<open, mmap, rlen, want, torn, poisoned>>
  /\ UNCHANGED <<file, readers, guard, writer, writes>>

Locks == open /\ ~poisoned /\ UNCHANGED <<open, writes>>

ReadShared ==
  /\ Locks /\ mmap = "Read" /\ readers < MaxReaders
  /\ readers' = readers + 1
  /\ UNCHANGED <<file, mmap, poisoned, rlen, guard, writer, want, torn, faults>>

\* Another panic while the first unwinds, in the writer's Drop, aborts.
ReadFromWriter ==
  /\ Locks /\ mmap = "Write" /\ ~guard
  /\ \E o \in IF writer.written > 0 THEN GetMap(Machine) ELSE DropWriter(Machine) :
       CASE o.res = "ok" ->
              \E p \in IF writer.written > 0 THEN Try(o.m, o.m, "err") ELSE {o} :
                /\ Keep(Gone(p.m))
                /\ mmap' = IF p.res = "ok" THEN "Read" ELSE "Invalid"
                /\ rlen' = IF p.res = "ok" /\ writer.written > 0 THEN o.m.w.len ELSE 0
                /\ readers' = IF p.res = "ok" THEN readers + 1 ELSE readers
                /\ UNCHANGED poisoned
         [] o.res = "err" ->
              Keep(o.m) /\ UNCHANGED <<mmap, rlen, readers, poisoned>>
         [] o.res = "panic" ->
              \E p \in IF writer.written > 0 THEN DropWriter(o.m) ELSE {Ok(o.m)} :
                /\ p.res = "ok"
                /\ Keep(Gone(p.m))
                /\ mmap' = "Invalid" /\ poisoned' = TRUE
                /\ UNCHANGED <<rlen, readers>>
  /\ UNCHANGED <<guard>>

ReadAnew ==
  /\ Locks /\ mmap = "Invalid"
  /\ \E o \in NewArc(Machine) :
       /\ Keep(o.m)
       /\ IF o.res = "ok"
            THEN mmap' = "Read" /\ rlen' = Len(file) /\ readers' = readers + 1
            ELSE UNCHANGED <<mmap, rlen, readers>>
  /\ UNCHANGED <<poisoned, guard>>

\* Arc::try_unwrap refuses while a guard of either kind is out.
ReadDisk == ReadShared \/ ReadFromWriter \/ ReadAnew

\* The writer that stayed in the slot is handed out again, as it is.
WriteAgain ==
  /\ Locks /\ mmap = "Write" /\ ~guard
  /\ guard' = TRUE
  /\ UNCHANGED <<file, mmap, poisoned, rlen, readers, writer, want, torn, faults>>

\* A map that a failed call left behind is taken over with the reader's map.
NewWriterFrom(outcomes) ==
  /\ \E o \in outcomes :
       /\ file' = o.m.file /\ writer' = o.m.w /\ want' = o.m.want /\ faults' = o.m.faults
       /\ torn' = (o.res # "ok" \/ (torn /\ rlen > 0))
       /\ mmap' = IF o.res = "ok" THEN "Write" ELSE "Invalid"
       /\ guard' = (o.res = "ok")
  /\ rlen' = 0
  /\ UNCHANGED <<poisoned, readers>>

\* With the read guards not counted.
WriteFromReaderShared ==
  /\ Locks /\ mmap = "Read"
  /\ NewWriterFrom(IF rlen > 0 THEN FromArgs(Machine) ELSE NoAdvise(Machine))

WriteFromReader ==
  /\ Locks /\ mmap = "Read" /\ readers = 0
  /\ NewWriterFrom(IF rlen > 0 THEN FromArgs(Machine) ELSE NoAdvise(Machine))

WriteAnew ==
  /\ Locks /\ mmap = "Invalid"
  /\ NewWriterFrom(NoAdvise(Machine))

WriteDisk == WriteAgain \/ WriteFromReader \/ WriteAnew

-----------------------------------------------------------------------------
(***************************************************************************)
(* The guards.                                                             *)
(***************************************************************************)
\* A bus error ends the process, as Crash does.
GuardUses(outcomes) ==
  /\ \E o \in outcomes : o.res # "sigbus" /\ Keep(o.m)
  /\ UNCHANGED <<open, mmap, poisoned, rlen, readers, guard>>

Write(len) ==
  /\ guard /\ writes < MaxWrites
  /\ writes' = writes + 1
  /\ GuardUses(Then(ReserveFor(Machine, len), LAMBDA m : WriteData(m, writes', len)))

\* One reservation for all the buffers.
WriteVectored(len1, len2) ==
  /\ guard /\ writes < MaxWrites
  /\ writes' = writes + 1
  /\ GuardUses(Then(Then(ReserveFor(Machine, len1 + len2), LAMBDA m : WriteData(m, writes', len1)),
                    LAMBDA m : WriteData(m, writes', len2)))

Flush ==
  /\ guard
  /\ GuardUses(FlushMap(Machine))
  /\ UNCHANGED writes

DropReadGuard ==
  /\ readers > 0
  /\ readers' = readers - 1
  /\ UNCHANGED <<file, open, mmap, poisoned, rlen, guard, writer, want, torn, writes, faults>>

\* The last Arc drops the writer.
DropWriteGuard ==
  /\ guard /\ guard' = FALSE
  /\ IF open
       THEN UNCHANGED <<file, writer, want, torn, faults>>
       ELSE \E o \in DropWriter(Machine) : Keep(Gone(o.m))
  /\ UNCHANGED <<open, mmap, poisoned, rlen, readers, writes>>

\* The Mmap goes, or becomes one of the other disks over its path.
DropMmap ==
  /\ open /\ open' = FALSE
  /\ mmap' = "Invalid"
  /\ IF HasWriter /\ ~guard
       THEN \E o \in DropWriter(Machine) : Keep(Gone(o.m))
       ELSE UNCHANGED <<file, writer, want, torn, faults>>
  /\ UNCHANGED <<poisoned, rlen, readers, guard, writes>>

\* The process ends: no Drop runs and the file stays as it is.
Crash ==
  /\ open' = FALSE /\ mmap' = "Invalid" /\ poisoned' = FALSE
  /\ readers' = 0 /\ guard' = FALSE /\ writer' = NoWriter
  /\ torn' = (torn \/ HasWriter)
  /\ UNCHANGED <<file, rlen, want, writes, faults>>

Next ==
  \/ Open \/ ReadDisk \/ WriteDisk
  \/ \E len \in 1..3 : Write(len)
  \/ \E len \in 1..2 : WriteVectored(len, 1)
  \/ Flush \/ DropReadGuard \/ DropWriteGuard \/ DropMmap \/ Crash

Spec == Init /\ [][Next]_vars

-----------------------------------------------------------------------------
(***************************************************************************)
(* Properties.                                                             *)
(***************************************************************************)
\* Readers share, a writer is alone: no reader's bytes change under it, though
\* only the Arcs' counts, read when a call begins, keep them apart.
WriterIsAlone == HasWriter => readers = 0

\* Every byte a writer accepted is in the file, where it was put, through every
\* reservation, failed system call, panic and crash; and until something failed
\* no write leaves its map or the file (what write_data asks of reserve_for,
\* mmap.rs:603-605).
WrittenIsInTheFile ==
  /\ IsPrefix(want, file)
  /\ HasWriter =>
       /\ Visible = want /\ writer.written <= writer.reserved
       /\ ~torn => \A len \in 1..3 :
            \A o \in Then(ReserveFor(Machine, len), LAMBDA m : WriteData(m, 1, len)) :
              o.res \in {"ok", "err"}

\* Without a writer the file holds what was written and nothing after it, and
\* a reader's map is the whole file, unless something failed meanwhile.
PaddingIsCutOff ==
  ~HasWriter /\ ~torn =>
    /\ file = want
    /\ readers > 0 => rlen = Len(file)
=============================================================================
