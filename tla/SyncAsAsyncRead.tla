--------------------------- MODULE SyncAsAsyncRead ---------------------------
(***************************************************************************)
(* `SyncAsAsyncRead`, the AsyncBufRead that lets a background thread make  *)
(* the blocking reads, and `SyncAsAsyncReadBg`, that thread                *)
(* (src/src/entry/adapters.rs).  A command passes over a channel without   *)
(* buffer, the answer comes back in the slot `read`, and `waker` names the *)
(* task to wake.  The thread fills the slot and takes the waker while it   *)
(* holds the slot's lock, and a poll looks into the slot and leaves its    *)
(* waker under the same lock, so each of these is one step.                *)
(*                                                                         *)
(* The source holds the bytes 1 .. FileLen; a buffer is an interval        *)
(* <<lo, hi>> of them, the bytes lo+1 .. hi.                               *)
(***************************************************************************)
EXTENDS Naturals

CONSTANTS
  Tasks,        (* the tasks that may poll the reader, one after the other  *)
  NoTask,
  FileLen,      (* bytes in the blocking reader                             *)
  BufferSizes,  (* what a caller may give for read_buffer_size, 0 included  *)
  MaxErrors     (* bound: errors the blocking reader returns                *)

ASSUME TasksAssumption == NoTask \notin Tasks
ASSUME SizesAssumption ==
  FileLen \in Nat /\ BufferSizes \subseteq Nat /\ MaxErrors \in Nat

VARIABLES
  client,       (* "Ready" between answered polls, "Sending" the command,   *)
                (* "Parked" after a poll that was not ready, "Dropped"      *)
  poller,       (* the task of the last poll                                *)
  pending,      (* SyncAsAsyncRead::pending                                 *)
  buffered,     (* SyncAsAsyncRead::buffered                                *)
  read,         (* the slot: empty, an interval or an error                 *)
  waker,        (* the shared waker: the task it wakes, or NoTask           *)
  scheduled,    (* the tasks that have been woken                           *)
  bg,           (* the thread: "recv", "read", "ended"                      *)
  position,     (* the blocking reader's position                           *)
  buffer_size,  (* SyncAsAsyncReadBg::buffer_size                           *)
  delivered,    (* history: bytes handed to the caller, in order            *)
  answer,       (* history: what the last ready poll returned               *)
  errors        (* history: errors the reader returned                      *)

clientVars == <<client, poller, pending, buffered, delivered, answer>>
bgVars == <<bg, position, errors, buffer_size>>
vars == <<clientVars, read, waker, scheduled, bgVars>>

Empty == [kind |-> "empty"]
Failed == [kind |-> "error"]
Bytes(lo, hi) == [kind |-> "bytes", lo |-> lo, hi |-> hi]

TypeOK ==
  /\ client \in {"Ready", "Sending", "Parked", "Dropped"}
  /\ poller \in Tasks \cup {NoTask} /\ waker \in Tasks \cup {NoTask}
  /\ pending \in BOOLEAN
  /\ buffered \in (0..FileLen) \X (0..FileLen)
  /\ read \in {Empty, Failed} \cup [kind : {"bytes"}, lo : 0..FileLen, hi : 0..FileLen]
  /\ scheduled \subseteq Tasks
  /\ bg \in {"recv", "read", "ended"}
  /\ position \in 0..FileLen /\ buffer_size \in BufferSizes
  /\ delivered \in 0..FileLen
  /\ answer \in {"none", "bytes", "eof", "error"}
  /\ errors \in Nat

\* SyncAsAsyncRead::new: the thread is spawned with the opened reader.
Init ==
  /\ client = "Ready" /\ poller = NoTask
  /\ pending = FALSE /\ buffered = <<0, 0>>
  /\ read = Empty /\ waker = NoTask /\ scheduled = {}
  /\ bg = "recv" /\ position = 0 /\ buffer_size \in BufferSizes
  /\ delivered = 0 /\ answer = "none" /\ errors = 0

IsEmpty(b) == b[1] = b[2]

\* With the bytes beyond the caller's buffer thrown away.
DeliverDropRest(b) ==
  \E k \in (IF IsEmpty(b) THEN {0} ELSE 1..(b[2] - b[1])) :
    /\ buffered' = <<b[2], b[2]>>
    /\ delivered' = b[1] + k
    /\ answer' = IF IsEmpty(b) THEN "eof" ELSE "bytes"

\* A ready poll_fill_buf, and the `consume` of the k bytes that fit the
\* caller's buffer, as in poll_read.  An empty buffer reads as end of file.
Deliver(b) ==
  \E k \in (IF IsEmpty(b) THEN {0} ELSE 1..(b[2] - b[1])) :
    /\ buffered' = <<b[1] + k, b[2]>>
    /\ delivered' = b[1] + k
    /\ answer' = IF IsEmpty(b) THEN "eof" ELSE "bytes"

Polls(t) ==
  /\ client \in {"Ready", "Parked"}
  /\ poller' = t
  /\ scheduled' = scheduled \ {t}

PollTake(t) ==
  /\ Polls(t)
  /\ pending /\ read.kind = "bytes"
  /\ read' = Empty
  /\ pending' = FALSE
  /\ Deliver(<<read.lo, read.hi>>)
  /\ client' = "Ready"
  /\ UNCHANGED <<waker, bgVars>>

\* The slot is emptied, and `pending` stays set.
PollError(t) ==
  /\ Polls(t)
  /\ pending /\ read = Failed
  /\ read' = Empty
  /\ answer' = "error"
  /\ client' = "Ready"
  /\ UNCHANGED <<pending, buffered, delivered, waker, bgVars>>

\* With the first waker kept.
PollWaitOld(t) ==
  /\ Polls(t)
  /\ pending /\ read = Empty
  /\ client' = "Parked"
  /\ UNCHANGED <<pending, buffered, delivered, answer, read, waker, bgVars>>

\* With an empty slot taken for an empty read.
PollWaitEof(t) ==
  /\ Polls(t)
  /\ pending /\ read = Empty
  /\ waker' = t
  /\ client' = "Ready"
  /\ answer' = "eof"
  /\ UNCHANGED <<pending, buffered, delivered, read, bgVars>>

PollWait(t) ==
  /\ Polls(t)
  /\ pending /\ read = Empty
  /\ waker' = t
  /\ client' = "Parked"
  /\ UNCHANGED <<pending, buffered, delivered, answer, read, bgVars>>

PollBuffered(t) ==
  /\ Polls(t)
  /\ ~pending /\ ~IsEmpty(buffered)
  /\ Deliver(buffered)
  /\ client' = "Ready"
  /\ UNCHANGED <<pending, read, waker, bgVars>>

\* With the flag set only by whoever sees the answer.
PollSendUnmarked(t) ==
  /\ Polls(t)
  /\ ~pending /\ IsEmpty(buffered)
  /\ waker' = t
  /\ client' = "Sending"
  /\ UNCHANGED <<pending, buffered, delivered, answer, read, bgVars>>

PollSend(t) ==
  /\ Polls(t)
  /\ ~pending /\ IsEmpty(buffered)
  /\ pending' = TRUE
  /\ waker' = t
  /\ client' = "Sending"
  /\ UNCHANGED <<buffered, delivered, answer, read, bgVars>>

\* The rendezvous of `sync_channel(0)`: the poll returns Pending after it.
Rendezvous ==
  /\ client = "Sending" /\ bg = "recv"
  /\ client' = "Parked"
  /\ bg' = "read"
  /\ UNCHANGED <<poller, pending, buffered, delivered, answer, read, waker,
                 scheduled, position, errors, buffer_size>>

Drop ==
  /\ client \in {"Ready", "Parked"}
  /\ client' = "Dropped"
  /\ UNCHANGED <<poller, pending, buffered, delivered, answer, read, waker,
                 scheduled, bgVars>>

Wake ==
  /\ scheduled' = scheduled \cup ({waker} \ {NoTask})
  /\ waker' = NoTask

\* Up to buffer_size bytes; none at the end of the source, or into a buffer of
\* no bytes.
BgRead ==
  /\ bg = "read"
  /\ \/ \E n \in 0..buffer_size :
          /\ n = 0 <=> position = FileLen \/ buffer_size = 0
          /\ position + n <= FileLen
          /\ position' = position + n
          /\ read' = Bytes(position, position + n)
          /\ UNCHANGED errors
     \/ /\ errors < MaxErrors
        /\ errors' = errors + 1
        /\ read' = Failed
        /\ UNCHANGED position
  /\ Wake
  /\ bg' = "recv"
  /\ UNCHANGED <<clientVars, buffer_size>>

BgEnd ==
  /\ bg = "recv" /\ client = "Dropped"
  /\ bg' = "ended"
  /\ UNCHANGED <<clientVars, read, waker, scheduled, position, errors, buffer_size>>

Poll(t) ==
  PollTake(t) \/ PollError(t) \/ PollWait(t) \/ PollBuffered(t) \/ PollSend(t)

Next ==
  \/ \E t \in Tasks : Poll(t)
  \/ Rendezvous \/ Drop \/ BgRead \/ BgEnd

Spec == Init /\ [][Next]_vars

\* The thread runs, a rendezvous both ends wait for happens, and the executor
\* polls the task that waits when its waker was used.
Fairness ==
  /\ WF_vars(Rendezvous)
  /\ WF_vars(BgRead \/ BgEnd)
  /\ \A t \in Tasks :
       WF_vars(client = "Parked" /\ poller = t /\ t \in scheduled /\ Poll(t))

FairSpec == Spec /\ Fairness

(***************************************************************************)
(* Properties.                                                             *)
(***************************************************************************)
\* What the caller has, what is buffered and what is in the slot make up the
\* source without a gap up to the reader's position: no byte is delivered
\* twice, skipped, or overwritten in the buffer (adapters.rs:219, 249-252).
BytesInOrder ==
  /\ delivered = buffered[1]
  /\ IF read.kind = "bytes"
       THEN IsEmpty(buffered) /\ read.lo = buffered[2] /\ read.hi = position
       ELSE buffered[2] = position
  /\ pending => IsEmpty(buffered)

\* An Ok(0) is only answered at the end of the source, never for an answer
\* that has not come yet (adapters.rs:200-214, 241-254), but for a reader whose
\* read_buffer_size is 0: `new` accepts it (72-86), and then the source seems
\* to end where it begins.
EofIsEof ==
  answer = "eof" => delivered = IF buffer_size = 0 THEN 0 ELSE FileLen

\* The rendezvous does not block the polling task behind a blocking read:
\* the thread is back at its channel whenever a command is sent, which is
\* what makes this "nonblocking" (adapters.rs:98, 162, 225).
SendFindsThreadIdle == client = "Sending" => bg = "recv" /\ read = Empty

\* A poll that was not ready is followed by another, also when a second task
\* took over from the first: "the `wake()` call will not race"
\* (adapters.rs:208-212).
PollAnswered ==
  [](errors = 0) => (client = "Parked" ~> client # "Parked")
=============================================================================
