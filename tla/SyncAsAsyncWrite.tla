-------------------------- MODULE SyncAsAsyncWrite --------------------------
(***************************************************************************)
(* `SyncAsAsyncWrite`, the AsyncWrite that hands bytes to a blocking       *)
(* writer on a background thread, and `SyncAsAsyncWriteBg`, that thread    *)
(* (src/src/entry/adapters.rs).  The two share a command channel, a status *)
(* channel, the `retry_toggle` of a failed write and the `flush_waker`.    *)
(*                                                                         *)
(* Bytes are numbered in the order in which `poll_write` accepts them, so  *)
(* a buffer is an interval: a command <<lo, hi>> carries the bytes         *)
(* lo+1 .. hi.  A poll is cut where the thread could see the difference:   *)
(* between raising the retry toggle and draining the statuses, between     *)
(* sending a flush, draining, and leaving the waker.                       *)
(***************************************************************************)
EXTENDS Naturals, Sequences, FiniteSets

CONSTANTS
  BufferMinSizes, (* what a caller may give for write_buffer_min_size       *)
  MaxBytes,      (* bound: bytes the client offers                          *)
  MaxChunk,      (* bound: bytes offered by one poll_write                  *)
  MaxFlushes,    (* bound: polls of poll_flush that send a Flush            *)
  MaxErrors,     (* bound: errors the blocking writer returns               *)
  MaxEmpty       (* bound: commands queued when one of no bytes is sent     *)

ASSUME SizesAssumption ==
  /\ BufferMinSizes \subseteq Nat
  /\ MaxBytes \in Nat /\ MaxChunk \in Nat \ {0}
  /\ MaxFlushes \in Nat /\ MaxErrors \in Nat /\ MaxEmpty \in Nat

VARIABLES
  buffer_min_size,  (* SyncAsAsyncWrite::buffer_min_size                    *)
  client,           (* where the controlling task is                        *)
  answer,           (* history: what its last finished poll returned        *)
  accepted,         (* bytes poll_write answered Ok for                     *)
  sent,             (* of these, bytes put into commands; write_buffer      *)
                    (* holds the bytes sent+1 .. accepted                   *)
  num_cmds_pending,
  retry,            (* SyncAsAsyncWrite::retry is Some                      *)
  scheduled,        (* the task waiting in poll_flush has been woken        *)
  cmds,             (* the command channel                                  *)
  statuses,         (* the status channel                                   *)
  enabled, alive,   (* retry_toggle                                         *)
  flush_waker,      (* the shared flush_waker is Some                       *)
  bg,               (* where the background thread is                       *)
  job,              (* the interval still to write of the command in hand   *)
  written,          (* the bytes the blocking writer took, in order         *)
  flushed,          (* history: how many were there at its last good flush  *)
  flushes, errors, flush_errors  (* history: counters for the bounds        *)

shared == <<cmds, statuses, enabled, alive, flush_waker>>
clientVars == <<client, answer, accepted, sent, num_cmds_pending, retry>>
bgVars == <<bg, job, written, flushed>>
bounds == <<buffer_min_size, flushes, errors, flush_errors>>
vars == <<clientVars, scheduled, shared, bgVars, bounds>>

WriteCmd(lo, hi) == [op |-> "write", lo |-> lo, hi |-> hi]
FlushCmd == [op |-> "flush"]
Command == {FlushCmd} \cup [op : {"write"}, lo : Nat, hi : Nat]

TypeOK ==
  /\ buffer_min_size \in BufferMinSizes
  /\ client \in {"Ready", "Retried", "FlushSent", "FlushDrained", "Parked",
                 "Dropping", "Dropped"}
  /\ answer \in {"none", "wrote", "error", "pending", "flushed"}
  /\ accepted \in Nat /\ sent \in Nat /\ num_cmds_pending \in Nat
  /\ retry \in BOOLEAN /\ scheduled \in BOOLEAN
  /\ cmds \in Seq(Command)
  /\ statuses \in Seq({"ok", "write_error", "flush_error"})
  /\ enabled \in BOOLEAN /\ alive \in BOOLEAN /\ flush_waker \in BOOLEAN
  /\ bg \in {"recv", "write", "wait", "wake", "returned", "panicked"}
  /\ job \in Nat \X Nat
  /\ written \in Seq(Nat) /\ flushed \in Nat
  /\ flushes \in Nat /\ errors \in Nat /\ flush_errors \in Nat

\* SyncAsAsyncWrite::new: the thread is spawned with the writer.
Init ==
  /\ buffer_min_size \in BufferMinSizes
  /\ client = "Ready" /\ answer = "none"
  /\ accepted = 0 /\ sent = 0 /\ num_cmds_pending = 0
  /\ retry = FALSE /\ scheduled = FALSE
  /\ cmds = <<>> /\ statuses = <<>>
  /\ enabled = FALSE /\ alive = TRUE /\ flush_waker = FALSE
  /\ bg = "recv" /\ job = <<0, 0>> /\ written = <<>> /\ flushed = 0
  /\ flushes = 0 /\ errors = 0 /\ flush_errors = 0

(***************************************************************************)
(* Draining `status_rx`: every Ok counts one command off; the first error  *)
(* ends the poll with that error, and what is behind it stays queued.      *)
(***************************************************************************)
IsError(s) == s # "ok"
OksBeforeError ==
  CHOOSE n \in 0..Len(statuses) :
    /\ \A i \in 1..n : ~IsError(statuses[i])
    /\ n < Len(statuses) => IsError(statuses[n + 1])
DrainHitsError == OksBeforeError < Len(statuses)

\* With a failed command counted off as well.
DrainToErrorCounted ==
  LET n == OksBeforeError IN
  /\ DrainHitsError
  /\ statuses' = SubSeq(statuses, n + 2, Len(statuses))
  /\ num_cmds_pending' = num_cmds_pending - n - 1
  /\ retry' = (statuses[n + 1] = "write_error")
  /\ answer' = "error"

DrainToError ==
  LET n == OksBeforeError IN
  /\ DrainHitsError
  /\ statuses' = SubSeq(statuses, n + 2, Len(statuses))
  /\ num_cmds_pending' = num_cmds_pending - n
  /\ retry' = (statuses[n + 1] = "write_error")
  /\ answer' = "error"

DrainAll(sending) ==
  /\ ~DrainHitsError
  /\ statuses' = <<>>
  /\ num_cmds_pending' = num_cmds_pending - OksBeforeError + sending

(***************************************************************************)
(* poll_write.  It never waits; the first new write after an error asks    *)
(* the thread to try the failed one again.                                 *)
(***************************************************************************)
WriteRetry ==
  /\ client \in {"Ready", "Parked"} /\ retry
  /\ retry' = FALSE
  /\ enabled' = TRUE
  /\ client' = "Retried"
  /\ answer' = "none"
  /\ UNCHANGED <<accepted, sent, num_cmds_pending, scheduled, cmds, statuses,
                 alive, flush_waker, bgVars, bounds>>

\* With the bytes that filled the buffer sent but also left in it.
WriteAcceptKeep(n) ==
  LET ready == accepted + n - sent >= buffer_min_size IN
  /\ DrainAll(IF ready THEN 1 ELSE 0)
  /\ accepted' = accepted + n
  /\ cmds' = IF ready THEN Append(cmds, WriteCmd(sent, accepted')) ELSE cmds
  /\ sent' = IF ready THEN accepted ELSE sent
  /\ answer' = "wrote"
  /\ UNCHANGED retry

WriteAccept(n) ==
  LET ready == accepted + n - sent >= buffer_min_size IN
  /\ DrainAll(IF ready THEN 1 ELSE 0)
  /\ accepted' = accepted + n
  /\ cmds' = IF ready THEN Append(cmds, WriteCmd(sent, accepted')) ELSE cmds
  /\ sent' = IF ready THEN accepted' ELSE sent
  /\ answer' = "wrote"
  /\ UNCHANGED retry

\* On an error the buffer is not accepted and nothing is sent.
Write ==
  /\ client = "Retried" \/ (client \in {"Ready", "Parked"} /\ ~retry)
  /\ \E n \in 0..MaxChunk :
       /\ accepted + n <= MaxBytes
       /\ n = 0 /\ buffer_min_size = 0 => Len(cmds) < MaxEmpty
       /\ \/ WriteAccept(n)
          \/ DrainToError /\ UNCHANGED <<accepted, sent, cmds>>
  /\ client' = "Ready"
  /\ UNCHANGED <<scheduled, enabled, alive, flush_waker, bgVars, bounds>>

(***************************************************************************)
(* poll_flush, and poll_close, which is the same.  From "Parked" it is the *)
(* same flush polled again, woken or not.                                  *)
(***************************************************************************)
FlushBegin ==
  /\ client \in {"Ready", "Parked"}
  /\ IF flush_waker
       THEN UNCHANGED <<cmds, num_cmds_pending, flushes>>
       ELSE /\ flushes < MaxFlushes
            /\ cmds' = Append(cmds, FlushCmd)
            /\ num_cmds_pending' = num_cmds_pending + 1
            /\ flushes' = flushes + 1
  /\ client' = "FlushSent"
  /\ answer' = "none"
  /\ scheduled' = FALSE
  /\ UNCHANGED <<accepted, sent, retry, statuses, enabled, alive, flush_waker,
                 bgVars, buffer_min_size, errors, flush_errors>>

\* With the count of pending commands not looked at.
FlushDrainIgnoresPending ==
  /\ client = "FlushSent"
  /\ \/ /\ DrainToError
        /\ client' = "Ready"
     \/ /\ DrainAll(0)
        /\ client' = "Ready"
        /\ answer' = "flushed"
        /\ UNCHANGED retry
  /\ UNCHANGED <<accepted, sent, scheduled, cmds, enabled, alive, flush_waker,
                 bgVars, bounds>>

FlushDrain ==
  /\ client = "FlushSent"
  /\ \/ /\ DrainToError
        /\ client' = "Ready"
     \/ /\ DrainAll(0)
        /\ IF num_cmds_pending' > 0
             THEN client' = "FlushDrained" /\ answer' = answer
             ELSE client' = "Ready" /\ answer' = "flushed"
        /\ UNCHANGED retry
  /\ UNCHANGED <<accepted, sent, scheduled, cmds, enabled, alive, flush_waker,
                 bgVars, bounds>>

FlushPark ==
  /\ client = "FlushDrained"
  /\ flush_waker' = TRUE
  /\ client' = "Parked"
  /\ answer' = "pending"
  /\ UNCHANGED <<accepted, sent, num_cmds_pending, retry, scheduled, cmds,
                 statuses, enabled, alive, bgVars, bounds>>

(***************************************************************************)
(* Drop: first the toggle, then the fields, the ends of the two channels   *)
(* among them.                                                             *)
(***************************************************************************)
\* With the toggle left alone.
DropBeginQuiet ==
  /\ client \in {"Ready", "Parked"}
  /\ client' = "Dropping"
  /\ retry' = FALSE
  /\ UNCHANGED <<answer, accepted, sent, num_cmds_pending, scheduled, cmds,
                 statuses, enabled, alive, flush_waker, bgVars, bounds>>

DropBegin ==
  /\ client \in {"Ready", "Parked"}
  /\ client' = "Dropping"
  /\ alive' = FALSE
  /\ retry' = FALSE
  /\ UNCHANGED <<answer, accepted, sent, num_cmds_pending, scheduled, cmds,
                 statuses, enabled, flush_waker, bgVars, bounds>>

DropEnd ==
  /\ client = "Dropping"
  /\ client' = "Dropped"
  /\ UNCHANGED <<answer, accepted, sent, num_cmds_pending, retry, scheduled,
                 shared, bgVars, bounds>>

Client ==
  \/ WriteRetry \/ Write
  \/ FlushBegin \/ FlushDrain \/ FlushPark
  \/ DropBegin \/ DropEnd

(***************************************************************************)
(* The background thread.                                                  *)
(***************************************************************************)
Running == bg \notin {"returned", "panicked"}

BgTakeWrite ==
  /\ bg = "recv" /\ cmds # <<>> /\ Head(cmds).op = "write"
  /\ cmds' = Tail(cmds)
  /\ job' = <<Head(cmds).lo, Head(cmds).hi>>
  /\ bg' = "write"
  /\ UNCHANGED <<clientVars, scheduled, statuses, enabled, alive, flush_waker,
                 written, flushed, bounds>>

\* One call of the writer that takes k bytes, or none for a command of no bytes;
\* the last one of a command is followed by its status.  A writer that answers
\* WouldBlock, Interrupted or Ok(0) is called again: no step.
BgWrite ==
  /\ bg = "write"
  /\ \E k \in (IF job[1] = job[2] THEN {0} ELSE 1..(job[2] - job[1])) :
       /\ written' = written \o [i \in 1..k |-> job[1] + i]
       /\ job' = <<job[1] + k, job[2]>>
       /\ IF job[1] + k = job[2]
            THEN bg' = "recv" /\ statuses' = Append(statuses, "ok")
            ELSE UNCHANGED <<bg, statuses>>
  /\ UNCHANGED <<clientVars, scheduled, cmds, enabled, alive, flush_waker,
                 flushed, bounds>>

\* Sending the error to a dropped controller panics the thread.
BgWriteError ==
  /\ bg = "write" /\ job[1] # job[2]
  /\ errors < MaxErrors
  /\ errors' = errors + 1
  /\ IF client = "Dropped"
       THEN bg' = "panicked" /\ UNCHANGED statuses
       ELSE bg' = "wait" /\ statuses' = Append(statuses, "write_error")
  /\ UNCHANGED <<clientVars, scheduled, cmds, enabled, alive, flush_waker,
                 job, written, flushed, buffer_min_size, flushes, flush_errors>>

\* With the toggle left raised for the next error.
BgRetrySticky ==
  /\ bg = "wait"
  /\ IF ~alive
       THEN bg' = "returned"
       ELSE enabled /\ bg' = "write"
  /\ UNCHANGED <<clientVars, scheduled, shared, job, written, flushed, bounds>>

\* With only the controller's death looked for.
BgRetryDeaf ==
  /\ bg = "wait" /\ ~alive
  /\ bg' = "returned"
  /\ UNCHANGED <<clientVars, scheduled, shared, job, written, flushed, bounds>>

\* Woken, timed out or for no reason: the thread looks at the toggle.
BgRetry ==
  /\ bg = "wait"
  /\ IF ~alive
       THEN bg' = "returned" /\ UNCHANGED enabled
       ELSE enabled /\ enabled' = FALSE /\ bg' = "write"
  /\ UNCHANGED <<clientVars, scheduled, cmds, statuses, alive, flush_waker,
                 job, written, flushed, bounds>>

BgFlush ==
  /\ bg = "recv" /\ cmds # <<>> /\ Head(cmds).op = "flush"
  /\ cmds' = Tail(cmds)
  /\ \/ /\ statuses' = Append(statuses, "ok")
        /\ flushed' = Len(written)
        /\ UNCHANGED <<errors, flush_errors>>
     \/ /\ errors < MaxErrors
        /\ errors' = errors + 1 /\ flush_errors' = flush_errors + 1
        /\ statuses' = Append(statuses, "flush_error")
        /\ UNCHANGED flushed
  /\ bg' = "wake"
  /\ UNCHANGED <<clientVars, scheduled, enabled, alive, flush_waker, job,
                 written, buffer_min_size, flushes>>

\* The waker is left in place for the next flush.
BgWake ==
  /\ bg = "wake"
  /\ bg' = "recv"
  /\ scheduled' = (scheduled \/ flush_waker)
  /\ UNCHANGED <<clientVars, shared, job, written, flushed, bounds>>

\* The channel is closed and empty.
BgEnd ==
  /\ bg = "recv" /\ cmds = <<>> /\ client = "Dropped"
  /\ bg' = "returned"
  /\ UNCHANGED <<clientVars, scheduled, shared, job, written, flushed, bounds>>

Bg ==
  \/ BgTakeWrite \/ BgWrite \/ BgWriteError \/ BgRetry
  \/ BgFlush \/ BgWake \/ BgEnd

Next == Client \/ Bg

Spec == Init /\ [][Next]_vars

(***************************************************************************)
(* The thread keeps running, a poll that began is finished, a woken task   *)
(* polls its flush again, and a drop that began ends.                      *)
(***************************************************************************)
Fairness ==
  /\ WF_vars(Bg)
  /\ WF_vars(FlushDrain \/ FlushPark \/ DropEnd)
  /\ WF_vars(client = "Retried" /\ Write)
  /\ WF_vars(client = "Parked" /\ scheduled /\ FlushBegin)

FairSpec == Spec /\ Fairness

(***************************************************************************)
(* Properties.                                                             *)
(***************************************************************************)
Count(S, P(_)) == Cardinality({i \in DOMAIN S : P(S[i])})
InHand == IF bg \in {"write", "wait"} THEN 1 ELSE 0
Writes == {i \in DOMAIN cmds : cmds[i].op = "write"}

\* Whatever is retried or split, the writer takes the accepted bytes in order,
\* none twice and none skipped: what it took, the rest of the command in
\* hand, the queued commands and the buffer are consecutive
\* (adapters.rs:338-343, 458-467).
BytesInOrder ==
  /\ written = [i \in 1..Len(written) |-> i]
  /\ bg \in {"write", "wait"} => job[1] = Len(written)
  /\ Running =>
       LET Before(i) == {IF InHand = 1 THEN job[2] ELSE Len(written)}
                          \cup {cmds[j].hi : j \in {k \in Writes : k < i}}
           Follows(at, i) == at \in Before(i) /\ \A b \in Before(i) : b <= at
       IN /\ \A i \in Writes : Follows(cmds[i].lo, i) /\ cmds[i].lo <= cmds[i].hi
          /\ Follows(sent, Len(cmds) + 1)
          /\ sent <= accepted

\* num_cmds_pending never falls below the commands queued, in hand and answered
\* but not drained, so no flush is answered early; and until a flush has failed
\* it is exactly their number, whatever writes failed, so that a flush counts
\* down to 0 when the thread has answered (adapters.rs:449-456, 479-486).  A
\* failed write is answered a second time when it was tried again; a failed
\* flush is not, and the count of it stays for good.
PendingAccounted ==
  Running =>
    LET outstanding == Len(cmds) + InHand + Count(statuses, LAMBDA s : s = "ok")
    IN /\ num_cmds_pending >= outstanding
       /\ flush_errors = 0 => num_cmds_pending = outstanding

\* The thread waits for a retry exactly while one of these is on its way:
\* the error's status, the controller's condvar, the raised toggle.  So no
\* raised toggle is left over for a later error, and no second failed write
\* is queued behind the first ("two errors will not pipeline", 447-448).
RetryHandshake ==
  alive /\ Running =>
    LET tokens == Count(statuses, LAMBDA s : s = "write_error")
                    + (IF retry THEN 1 ELSE 0) + (IF enabled THEN 1 ELSE 0)
    IN tokens = (IF bg = "wait" THEN 1 ELSE 0)

\* The thread outlives its controller, so no send of the controller finds a
\* closed channel and panics (adapters.rs:464-466, 475).
ThreadOutlivesController == client # "Dropped" /\ alive => Running

\* When poll_flush answers Ok, no command is queued or in hand: the writer has
\* taken every byte that was ever sent to it (adapters.rs:488-493).
FlushedCommandsAreWritten ==
  answer = "flushed" => Len(written) = sent /\ cmds = <<>>

\* When poll_flush answers Ok, every accepted byte is in the writer, and the
\* writer was flushed after the last of them: what the encoders rely on to
\* "ensure encodings write out to disk" (formats/mod.rs:26).
FlushedBytesAreOnDisk ==
  answer = "flushed" => Len(written) = accepted /\ flushed = accepted

\* Once the controller is dropped the thread ends, whatever it was doing; a
\* thread waiting for a retry does not wait for ever (adapters.rs:358-372).
ThreadEnds == (client = "Dropping") ~> ~Running

\* A write that failed is tried again once the controller writes again, and
\* then succeeds or fails anew (adapters.rs:440-445, 374-377).
RetryIsTaken == (enabled /\ alive) ~> (~enabled \/ ~alive)

\* A pending flush is polled again when the thread has done what it waits
\* for: it does not "idle block indefinitely" when the handle does spawn onto
\* another thread (adapters.rs:63-64).
FlushAnswered ==
  [](errors = 0) => (client = "Parked" ~> client # "Parked")
=============================================================================
