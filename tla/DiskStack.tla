----------------------------- MODULE DiskStack -----------------------------
(***************************************************************************)
(* The disks that hold files (src/src/entry/disks): Plainfile,             *)
(* WriteUnbuffered, Unbuffered or a custom disk, alone or under ZstdDisk,  *)
(* Encrypted or Encrypted<ZstdDisk>.  What their writers do with what they *)
(* are given, and what their readers make of the file.                     *)
(*                                                                         *)
(* The content of a file is a sequence of marks: rows, the end of a        *)
(* self-delimiting value, a CSV header, the end of a zstd frame, and       *)
(* ciphertexts, which hold the marks they encrypt.                         *)
(***************************************************************************)
EXTENDS Naturals, SequencesExt

CONSTANT MaxErrors   (* bound: failed calls of the file, and restarts *)

VARIABLES
  stack,        (* the disk: its file, what wraps it, the level of zstd     *)
  secrets,      (* the key and the nonce of an Encrypted disk: 0 is its own *)
  stored,       (* the marks in the file                                    *)
  sink,         (* the open writer: the layers' buffers                     *)
  errors        (* history: failed calls and restarts                       *)

Row(n) == [mark |-> "row", n |-> n]
End == [mark |-> "end"]
Header == [mark |-> "header"]
FrameEnd == [mark |-> "frame end"]
Tag == [mark |-> "tag"]
Cipher(marks, with) == [mark |-> "cipher", marks |-> marks, with |-> with]
Unreadable == [mark |-> "unreadable"]

-----------------------------------------------------------------------------
(***************************************************************************)
(* The files.                                                              *)
(***************************************************************************)
\* Whether a write goes to a BufWriter, and which half of the traits it has.
File(name, buffered, sync, async) ==
  [name |-> name, buffered |-> buffered, sync |-> sync, async |-> async]

Plainfile == File("plainfile", TRUE, TRUE, TRUE)
WriteUnbuffered == File("write_unbuffered", FALSE, TRUE, TRUE)
Unbuffered == File("unbuffered", FALSE, TRUE, TRUE)
\* The writer of a custom disk is whatever its function returns: here a file.
CustomSync == File("custom", FALSE, TRUE, FALSE)
CustomAsync == File("custom", FALSE, FALSE, TRUE)
CustomFull == File("custom", FALSE, TRUE, TRUE)

Paths == {Plainfile, WriteUnbuffered, Unbuffered}
Files == Paths \cup {CustomSync, CustomAsync, CustomFull}

Wraps == {<<>>, <<"zstd">>, <<"encrypted">>, <<"encrypted", "zstd">>}
Has(layer) == Contains(stack.wraps, layer)

\* A const generic, looked at when a writer is opened.
ZstdLevelOk(level) == level < 23

Own == [key |-> 0, nonce |-> 0]
NoSink == [open |-> FALSE]

\* A writer: the plaintext of Encrypted and its secrets as they were, the frame
\* of zstd and whether it is finished, and the BufWriter's bytes.
NewSink(async) ==
  [open |-> TRUE, async |-> async, plain |-> <<>>, with |-> secrets,
   frame |-> <<>>, finished |-> FALSE, buffer |-> <<>>]

DiskInit ==
  /\ stack \in [file : Files, wraps : Wraps, level : 22..23]
  /\ stack.level = 23 => Has("zstd")
  /\ secrets = Own
  /\ stored = <<>> /\ sink = NoSink
  /\ errors = 0

-----------------------------------------------------------------------------
(***************************************************************************)
(* The writers.  What a call may leave is a set of records, with the       *)
(* answer in `ok` and in `left` the marks a failed call did not take.      *)
(***************************************************************************)
Now == [sink |-> sink, stored |-> stored, errors |-> errors, left |-> <<>>, ok |-> TRUE]
Good(s) == {[s EXCEPT !.ok = TRUE, !.left = <<>>]}
Then(outcomes, F(_)) == UNION {IF o.ok THEN F(o) ELSE {o} : o \in outcomes}

\* A failed write leaves some of the marks in the file, and others out.
FileWrite(s, marks) ==
  Good([s EXCEPT !.stored = @ \o marks])
    \cup {[s EXCEPT !.stored = @ \o SubSeq(marks, 1, n), !.errors = @ + 1, !.ok = FALSE,
                    !.left = SubSeq(marks, n + 1, Len(marks))] :
            n \in {k \in 0..(Len(marks) - 1) : s.errors < MaxErrors}}

\* What could not be written stays in the buffer.
DiskFlush(s) ==
  IF stack.file.buffered
    THEN {[o EXCEPT !.sink.buffer = o.left] : o \in FileWrite(s, s.sink.buffer)}
    ELSE Good(s)

\* A BufWriter keeps the bytes, or writes the ones it has first.
DiskWrite(s, marks) ==
  LET keep(x) == Good([x EXCEPT !.sink.buffer = @ \o marks]) IN
  IF stack.file.buffered
    THEN keep(s) \cup {[o EXCEPT !.left = IF o.ok THEN <<>> ELSE marks] :
                         o \in Then(DiskFlush(s), keep)}
    ELSE FileWrite(s, marks)

ZstdWrite(s, marks) ==
  IF Has("zstd") THEN Good([s EXCEPT !.sink.frame = @ \o marks]) ELSE DiskWrite(s, marks)

\* The frame goes down, and what could not be written stays.
ZstdDown(s) == {[o EXCEPT !.sink.frame = o.left] : o \in DiskWrite(s, s.sink.frame)}

ZstdFinish(s) ==
  ZstdDown(IF s.sink.finished THEN s
           ELSE [s EXCEPT !.sink.frame = Append(@, FrameEnd), !.sink.finished = TRUE])

\* With the frame flushed and not finished.
ZstdFlushOnly(s) == Then(ZstdDown(s), DiskFlush)

ZstdFlush(s) == Then(ZstdFinish(s), DiskFlush)

\* async_compression's encoder flushes a block, and finishes when it is closed.
AsyncZstdFlush(s) == Then(ZstdDown(s), DiskFlush)
AsyncZstdClose(s) == Then(ZstdFinish(s), DiskFlush)

EncryptedWrite(s, marks) == Good([s EXCEPT !.sink.plain = @ \o marks])
AsyncEncryptedWrite(s, marks) == EncryptedWrite(s, marks)

\* All that was written is encrypted again by every flush, and handed to the
\* disk below, which is not flushed.
EncryptedFlush(s) == ZstdWrite(s, <<Cipher(s.sink.plain, s.sink.with)>>)

\* What the future of the asynchronous writer encrypts: what was buffered when
\* it ran, which is before any write if that was when the writer was opened.
EncryptBlocking(s) == {Cipher(<<>>, s.sink.with), Cipher(s.sink.plain, s.sink.with)}

\* Its flush hands some of that down, in its first poll.
AsyncEncryptedFlush(s) ==
  UNION {ZstdWrite(s, <<mark>>) : mark \in EncryptBlocking(s) \cup {Unreadable}}

Write(s, marks) ==
  CASE ~Has("encrypted") -> ZstdWrite(s, marks)
    [] Has("encrypted") /\ s.sink.async -> AsyncEncryptedWrite(s, marks)
    [] OTHER -> EncryptedWrite(s, marks)

Flush(s) ==
  CASE Has("encrypted") -> IF s.sink.async THEN AsyncEncryptedFlush(s) ELSE EncryptedFlush(s)
    [] stack.wraps = <<"zstd">> -> IF s.sink.async THEN AsyncZstdFlush(s) ELSE ZstdFlush(s)
    [] OTHER -> DiskFlush(s)

Close(s) == IF Has("zstd") THEN AsyncZstdClose(s) ELSE DiskFlush(s)

\* A BufWriter of std writes its bytes when it is dropped and ignores an error,
\* one of futures does not; a zstd frame and a plaintext are forgotten.
DropSink(s) == IF s.sink.async THEN Good(s) ELSE DiskFlush(s)

-----------------------------------------------------------------------------
(***************************************************************************)
(* The readers.                                                            *)
(***************************************************************************)
\* Nothing is read from an empty file, and an unfinished frame is an error.
Unzstd(marks) ==
  IF marks = <<>> THEN <<>>
  ELSE IF Last(marks) = FrameEnd THEN Front(marks) ELSE <<Unreadable>>

\* `truncate` of the buffer that is decrypted does nothing: the tag stays after
\* the plaintext.
Truncate(plain) == Append(plain, Tag)

Decrypt(marks) ==
  IF Len(marks) = 1 /\ marks[1].mark = "cipher" /\ marks[1].with = secrets
    THEN Truncate(marks[1].marks) ELSE <<Unreadable>>

\* read_disk, from the file up.
Read ==
  LET frames == IF Has("zstd") THEN Unzstd(stored) ELSE stored
  IN  IF Has("encrypted") THEN Decrypt(frames) ELSE frames

-----------------------------------------------------------------------------
(***************************************************************************)
(* Operations on a disk that is not open.                                  *)
(***************************************************************************)
SetKey == secrets' = [secrets EXCEPT !.key = 0] /\ UNCHANGED <<stack, stored, sink, errors>>

SetNonce == secrets' = [secrets EXCEPT !.nonce = 0] /\ UNCHANGED <<stack, stored, sink, errors>>

\* A path goes from disk to disk, taken out of a ZstdDisk and put back.
ConvertTo(files, target) ==
  /\ stack.file \in files \ {target} /\ ~Has("encrypted")
  /\ stack' = [stack EXCEPT !.file = target]
  /\ UNCHANGED <<secrets, stored, sink, errors>>

FromPlainfile == \E target \in {WriteUnbuffered, Unbuffered} : ConvertTo({Plainfile}, target)
FromWriteUnbuffered == \E target \in {Plainfile, Unbuffered} : ConvertTo({WriteUnbuffered}, target)
FromUnbuffered == \E target \in {Plainfile, WriteUnbuffered} : ConvertTo({Unbuffered}, target)

RandomSecrets ==
  /\ errors < MaxErrors /\ errors' = errors + 1
  /\ secrets' = [key |-> errors', nonce |-> errors']

\* The path of an Encrypted disk makes one with secrets of its own.
FromPath ==
  /\ stack.wraps = <<"encrypted">> /\ stack.file \in Paths
  /\ stack' = [stack EXCEPT !.file = Plainfile]
  /\ RandomSecrets
  /\ UNCHANGED <<stored, sink>>
=============================================================================
