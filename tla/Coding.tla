------------------------------- MODULE Coding -------------------------------
(***************************************************************************)
(* The encoders and decoders (src/src/entry/formats, and the SyncCoder     *)
(* ones of adapters.rs) over the disks of DiskStack: what becomes of a     *)
(* value between an encoder and the file.  Encoders run to their end, stop *)
(* at an error of the file, are cancelled (the asynchronous ones), or are  *)
(* cut short by a restart; the writer is dropped after them.  Coders and   *)
(* disks are converted between an encoding and the next.                   *)
(*                                                                         *)
(* A value is its number of rows.                                          *)
(***************************************************************************)
EXTENDS DiskStack

CONSTANT MaxRows     (* bound: rows of a value *)

VARIABLES
  coder,        (* the encoder                                              *)
  handles,      (* whether a deserialised SyncCoderAsyncDisk has its handles *)
  phase, todo,  (* what the encoder does next, and the marks to write       *)
  value, result,(* history: the last value given to an encoder, its answer  *)
  sealed, lost  (* history: its secrets; the drop could not write its rest  *)

disk == <<stack, secrets, stored, sink, errors>>
run == <<phase, todo, value, result, sealed, lost>>
vars == <<coder, handles, disk, run>>

Rows(n) == [i \in 1..n |-> Row(i)]

\* The CSV coders with their has_headers, and whether rows are structs; the
\* other options are in both coders and change nothing here.
Csv(name, headers, structs) == [name |-> name, headers |-> headers, structs |-> structs]
Plain(name) == Csv(name, FALSE, FALSE)
Coders ==
  {Csv(name, h, s) : name \in {"csv", "async_csv"}, h \in BOOLEAN, s \in BOOLEAN}
    \cup {Plain(name) : name \in {"bincode", "async_bincode", "serde_json", "simd_json",
                                  "sync_coder_async_disk", "sync_coder_as_async"}}

\* Coders over the asynchronous half of a disk.
Async == coder.name \in {"async_bincode", "async_csv", "sync_coder_async_disk"}
IsCsv == coder.name \in {"csv", "async_csv"}

Init ==
  /\ DiskInit
  /\ coder \in Coders /\ handles = TRUE
  /\ IF Async THEN stack.file.async ELSE stack.file.sync
  /\ phase = "idle" /\ todo = <<>>
  /\ value = 0 /\ result = "none" /\ sealed = Own /\ lost = FALSE

-----------------------------------------------------------------------------
(***************************************************************************)
(* What the encoders write.                                                *)
(***************************************************************************)
SelfDelimiting(n) == Append(Rows(n), End)

BincodeMarks(n) == SelfDelimiting(n)
AsyncBincodeMarks(n) == SelfDelimiting(n)
SerdeJsonMarks(n) == SelfDelimiting(n)
SimdJsonMarks(n) == SelfDelimiting(n)

\* The writer's has_headers: a header comes before the first row, if the rows
\* have names for it.
CsvWriter(rows) ==
  IF coder.headers /\ coder.structs /\ rows # <<>> THEN <<Header>> \o rows ELSE rows
AsyncCsvWriter(rows) == CsvWriter(rows)

CsvMarks(n) == CsvWriter(Rows(n))
AsyncCsvMarks(n) == AsyncCsvWriter(Rows(n))

Marks(n) ==
  CASE coder.name = "csv" -> CsvMarks(n)
    [] coder.name = "async_csv" -> AsyncCsvMarks(n)
    [] coder.name \in {"serde_json", "sync_coder_async_disk"} -> SerdeJsonMarks(n)
    [] coder.name = "simd_json" -> SimdJsonMarks(n)
    [] coder.name = "async_bincode" -> AsyncBincodeMarks(n)
    [] OTHER -> BincodeMarks(n)

-----------------------------------------------------------------------------
(***************************************************************************)
(* Encoding.                                                               *)
(***************************************************************************)
Becomes(s) ==
  /\ sink' = s.sink /\ stored' = s.stored /\ errors' = s.errors
  /\ UNCHANGED <<stack, secrets>>

\* The disk is open for a value, or its level is refused.
Begins(n, file, levelOk) ==
  /\ phase = "idle"
  /\ value' = n /\ sealed' = secrets /\ lost' = FALSE /\ stored' = file
  /\ IF levelOk
       THEN /\ sink' = NewSink(Async)
            /\ todo' = Marks(n) /\ phase' = "writing" /\ result' = "none"
       ELSE result' = "error" /\ UNCHANGED <<sink, todo, phase>>
  /\ UNCHANGED <<coder, handles, stack, secrets, errors>>

ZstdOpens == Has("zstd") => ZstdLevelOk(stack.level)

\* With what the file holds left there.
OpenKeeps(n) == ~Async /\ Begins(n, stored, ZstdOpens)

\* write_disk: opening truncates the file; the level of zstd is looked at after
\* that.
Open(n) == ~Async /\ Begins(n, <<>>, ZstdOpens)

AsyncOpen(n) == Async /\ Begins(n, <<>>, ZstdOpens)

OpenFails ==
  /\ phase = "idle" /\ errors < MaxErrors
  /\ errors' = errors + 1
  /\ UNCHANGED <<coder, handles, stack, secrets, stored, sink, run>>

\* What an encoder does next: csv::Writer is dropped, whatever happened, an
\* asynchronous one closes the writer.
AfterFlush(failed) ==
  IF coder.name = "csv" THEN "coder drop" ELSE IF failed \/ ~Async THEN "dropping" ELSE "closing"

\* The thread of a SyncCoderAsAsync whose future was dropped answers nobody.
Answers(answer) == result' = IF result = "cancelled" THEN result ELSE answer

\* A SyncCoderAsyncDisk without handles fails with the disk already open.
NeedsHandles == coder.name = "sync_coder_async_disk" /\ ~handles

NoHandles ==
  /\ phase = "writing" /\ NeedsHandles
  /\ phase' = "dropping" /\ result' = "error" /\ todo' = <<>>
  /\ UNCHANGED <<coder, handles, disk, value, sealed, lost>>

WriteMark ==
  /\ phase = "writing" /\ todo # <<>> /\ ~NeedsHandles
  /\ \E s \in Write(Now, <<Head(todo)>>) :
       /\ Becomes(s)
       /\ IF s.ok THEN todo' = Tail(todo) /\ UNCHANGED <<phase, result>>
                  ELSE /\ todo' = <<Head(todo)>>
                       /\ phase' = AfterFlush(TRUE) /\ Answers("error")
  /\ UNCHANGED <<coder, handles, value, sealed, lost>>

Encoded == phase = "writing" /\ todo = <<>> /\ ~NeedsHandles

\* The encoder's own flush.
FlushSink ==
  /\ Encoded /\ ~(Async /\ Has("encrypted"))
  /\ \E s \in Flush(Now) :
       /\ Becomes(s)
       /\ phase' = AfterFlush(~s.ok)
       /\ Answers(IF ~s.ok THEN "error" ELSE IF Async THEN "none" ELSE "ok")
  /\ UNCHANGED <<coder, handles, todo, value, sealed, lost>>

\* AsyncEncryptedWriter::poll_flush answers Pending with nobody to wake it.
AsyncEncryptedFlushSink ==
  /\ Encoded /\ Async /\ Has("encrypted")
  /\ \E s \in Flush(Now) :
       /\ Becomes(s)
       /\ IF s.ok THEN phase' = "parked" /\ UNCHANGED result
                  ELSE phase' = "dropping" /\ result' = "error"
  /\ UNCHANGED <<coder, handles, todo, value, sealed, lost>>

\* Polled again all the same, it polls its finished future, which panics.
PollAgain ==
  /\ phase = "parked"
  /\ phase' = "dropping" /\ result' = "panic"
  /\ UNCHANGED <<coder, handles, disk, todo, value, sealed, lost>>

\* A csv::Writer flushes when it is dropped: once more, or again after an error,
\* with all that it still buffers.
DropCoder ==
  /\ phase = "coder drop"
  /\ \E s \in Then(Write(Now, todo), Flush) : Becomes(s)
  /\ phase' = "dropping" /\ todo' = <<>>
  /\ UNCHANGED <<coder, handles, value, result, sealed, lost>>

CloseSink ==
  /\ phase = "closing"
  /\ \E s \in Close(Now) :
       Becomes(s) /\ result' = IF s.ok THEN "ok" ELSE "error"
  /\ phase' = "dropping"
  /\ UNCHANGED <<coder, handles, todo, value, sealed, lost>>

DropWriter ==
  /\ phase = "dropping"
  /\ \E s \in DropSink(Now) :
       stored' = s.stored /\ errors' = s.errors /\ lost' = ~s.ok
  /\ sink' = NoSink /\ phase' = "idle" /\ todo' = <<>>
  /\ UNCHANGED <<coder, handles, stack, secrets, value, sealed, result>>

\* The future of an encoder over an asynchronous disk is dropped.
Cancel ==
  /\ Async /\ phase \in {"writing", "parked", "closing"}
  /\ phase' = "dropping" /\ result' = "cancelled" /\ todo' = <<>>
  /\ UNCHANGED <<coder, handles, disk, value, sealed, lost>>

\* The thread of a SyncCoderAsAsync goes on without it.  Bound: nothing else
\* is written before it ends.
CancelAsAsync ==
  /\ coder.name = "sync_coder_as_async" /\ phase = "writing"
  /\ result' = "cancelled"
  /\ UNCHANGED <<coder, handles, disk, phase, todo, value, sealed, lost>>

-----------------------------------------------------------------------------
(***************************************************************************)
(* Between encodings.                                                      *)
(***************************************************************************)
\* The disk and the coder are deserialised: secrets are random, handles unset.
Restart ==
  /\ RandomSecrets
  /\ handles' = (coder.name # "sync_coder_async_disk")
  /\ sink' = NoSink /\ phase' = "idle" /\ todo' = <<>>
  /\ result' = IF phase = "idle" THEN result ELSE "restart"
  /\ UNCHANGED <<coder, stack, stored, value, sealed, lost>>

SetHandles ==
  /\ phase = "idle" /\ handles' = TRUE
  /\ UNCHANGED <<coder, disk, run>>

OnDisk ==
  /\ phase = "idle"
  /\ \/ SetKey \/ SetNonce \/ FromPath
     \/ FromPlainfile \/ FromWriteUnbuffered \/ FromUnbuffered
  /\ UNCHANGED <<coder, handles, run>>

\* Every option of one coder is one of the other.
CoderFrom(name, to) ==
  /\ phase = "idle" /\ coder.name = name
  /\ coder' = [coder EXCEPT !.name = to]
  /\ UNCHANGED <<handles, disk, run>>

SimdJsonFromSerdeJson == CoderFrom("serde_json", "simd_json")
SerdeJsonFromSimdJson == CoderFrom("simd_json", "serde_json")
CsvFromAsyncCsv == stack.file.sync /\ CoderFrom("async_csv", "csv")
AsyncCsvFromCsv == stack.file.async /\ CoderFrom("csv", "async_csv")

Next ==
  \/ \E n \in 0..MaxRows : Open(n) \/ AsyncOpen(n)
  \/ OpenFails \/ NoHandles \/ WriteMark
  \/ FlushSink \/ AsyncEncryptedFlushSink \/ PollAgain
  \/ DropCoder \/ CloseSink \/ DropWriter
  \/ Cancel \/ CancelAsAsync \/ Restart \/ SetHandles \/ OnDisk
  \/ SimdJsonFromSerdeJson \/ SerdeJsonFromSimdJson \/ CsvFromAsyncCsv \/ AsyncCsvFromCsv

Spec == Init /\ [][Next]_vars

-----------------------------------------------------------------------------
(***************************************************************************)
(* Decoding.                                                               *)
(***************************************************************************)
NotAValue == MaxRows + 1
AreRows(marks) == \A i \in DOMAIN marks : marks[i].mark = "row"

\* Trailing bytes are allowed.
BincodeDecode(marks) ==
  IF Contains(marks, End) THEN SelectInSeq(marks, LAMBDA m : m = End) - 1 ELSE NotAValue

\* One value is taken from the stream.
AsyncBincodeDecode(marks) == BincodeDecode(marks)

SerdeJsonDecode(marks) ==
  IF marks # <<>> /\ Last(marks) = End /\ AreRows(Front(marks)) THEN Len(marks) - 1 ELSE NotAValue

SimdJsonDecode(marks) == SerdeJsonDecode(marks)

\* The reader's has_headers: the first record is not a row, whatever it is.
CsvReader(marks) == IF coder.headers /\ marks # <<>> THEN Tail(marks) ELSE marks
AsyncCsvReader(marks) == CsvReader(marks)

CsvDecode(marks) ==
  LET rows == CsvReader(marks)
  IN  IF AreRows(rows) /\ ~Contains(marks, Unreadable) THEN Len(rows) ELSE NotAValue

AsyncCsvDecode(marks) ==
  LET rows == AsyncCsvReader(marks)
  IN  IF AreRows(rows) /\ ~Contains(marks, Unreadable) THEN Len(rows) ELSE NotAValue

SyncCoderAsyncDiskDecode(marks) == IF handles THEN SerdeJsonDecode(marks) ELSE NotAValue
SyncCoderAsAsyncDecode(marks) == BincodeDecode(marks)

Decoded ==
  CASE coder.name = "csv" -> CsvDecode(Read)
    [] coder.name = "async_csv" -> AsyncCsvDecode(Read)
    [] coder.name = "serde_json" -> SerdeJsonDecode(Read)
    [] coder.name = "simd_json" -> SimdJsonDecode(Read)
    [] coder.name = "bincode" -> BincodeDecode(Read)
    [] coder.name = "async_bincode" -> AsyncBincodeDecode(Read)
    [] coder.name = "sync_coder_async_disk" -> SyncCoderAsyncDiskDecode(Read)
    [] OTHER -> SyncCoderAsAsyncDecode(Read)

-----------------------------------------------------------------------------
(***************************************************************************)
(* Properties.                                                             *)
(***************************************************************************)
\* The ways a value that was encoded is lost all the same: Encrypted leaves its
\* tag after the plaintext, encrypts anew at the second flush of csv, does not
\* flush the disk below, so that a frame is not finished and an error of the
\* buffer is seen by nobody; a CSV reader takes rows without names for a
\* header; and a SyncCoderAsyncDisk may have no handles.
Excepted ==
  \/ Has("encrypted") /\ (Has("zstd") \/ lost \/ ~(coder.name \in {"bincode", "sync_coder_as_async"}))
  \/ IsCsv /\ coder.headers /\ ~coder.structs
  \/ ~handles

\* "Fully write out formatted data to a target disk" (formats/mod.rs:33): what
\* an encoder has answered Ok for is what a decoder reads, over every disk and
\* after conversions of coder and disk and restarts, but for the exceptions
\* above.
EncodedIsDecodable ==
  phase = "idle" /\ result = "ok" /\ secrets = sealed /\ ~Excepted => Decoded = value

\* A value cut short by an error, a cancellation or a restart is refused and
\* never read as another one.  A CSV file does not tell its end, and is read as
\* far as it goes (formats/csv.rs:153-158).
TornIsRefused == IsCsv \/ Decoded \in {value, NotAValue}
=============================================================================
