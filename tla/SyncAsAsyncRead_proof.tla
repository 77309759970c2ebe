------------------------ MODULE SyncAsAsyncRead_proof ------------------------
(***************************************************************************)
(* The safety of the read adapter, for every source, buffer size (0        *)
(* included), number of tasks and number of errors.                        *)
(*                                                                         *)
(* The argument is who may touch what: `pending` is set from the moment a  *)
(* command is sent until its bytes are taken (Ownership), so the slot and  *)
(* the buffer are never full at once, and the bytes move through reader,   *)
(* slot and buffer without a gap (Bookkeeping).                            *)
(***************************************************************************)
EXTENDS SyncAsAsyncRead, TLAPS

Ownership ==
  /\ ~pending => read = Empty /\ bg # "read" /\ client # "Sending"
  /\ bg = "read" => read = Empty /\ client # "Sending"
  /\ client = "Sending" => read = Empty
  /\ bg = "ended" => client = "Dropped"

\* Where an answer of no bytes comes.
End == IF buffer_size = 0 THEN 0 ELSE FileLen

Bookkeeping ==
  /\ buffered[1] <= buffered[2]
  /\ read.kind = "bytes" =>
       /\ read.lo <= read.hi
       /\ read.lo = read.hi => read.hi = End
  /\ buffer_size = 0 => position = 0

IInv == TypeOK /\ BytesInOrder /\ EofIsEof /\ Ownership /\ Bookkeeping

\* What a ready answer does to the buffer and to what was delivered.
LEMMA DeliverStep ==
  ASSUME NEW lo \in 0..FileLen, NEW hi \in 0..FileLen, lo <= hi,
         Deliver(<<lo, hi>>)
  PROVE  /\ buffered' \in (0..FileLen) \X (0..FileLen)
         /\ buffered'[1] <= buffered'[2] /\ buffered'[2] = hi
         /\ delivered' = buffered'[1]
         /\ answer' = IF lo = hi THEN "eof" ELSE "bytes"
         /\ lo = hi => delivered' = hi
<1> USE SizesAssumption
<1>1. PICK k \in (IF lo = hi THEN {0} ELSE 1..(hi - lo)) :
        /\ buffered' = <<lo + k, hi>>
        /\ delivered' = lo + k
        /\ answer' = IF lo = hi THEN "eof" ELSE "bytes"
  BY DEF Deliver, IsEmpty
<1>2. k \in 0..(hi - lo) /\ (lo = hi => k = 0)
  BY <1>1
<1>3. lo + k \in 0..FileLen /\ lo + k <= hi
  BY <1>2
<1> QED
  BY <1>1, <1>2, <1>3

LEMMA InvInit == Init => IInv
<1> SUFFICES ASSUME Init PROVE IInv
  OBVIOUS
<1>1. TypeOK
  <2>1. 0 \in 0..FileLen /\ 0 \in Nat
    BY SizesAssumption
  <2>2. buffered \in (0..FileLen) \X (0..FileLen)
    BY <2>1 DEF Init
  <2> QED
    BY <2>1, <2>2, Zenon DEF Init, TypeOK
<1>2. read.kind # "bytes"
  BY DEF Init, Empty
<1>3. BytesInOrder /\ Bookkeeping
  BY <1>2 DEF Init, BytesInOrder, Bookkeeping, IsEmpty
<1>4. EofIsEof /\ Ownership
  BY DEF Init, EofIsEof, Ownership
<1> QED
  BY <1>1, <1>3, <1>4 DEF IInv

LEMMA InvNext == IInv /\ [Next]_vars => IInv'
<1> SUFFICES ASSUME IInv, [Next]_vars PROVE IInv'
  OBVIOUS
<1> USE SizesAssumption
     DEF IInv, TypeOK, BytesInOrder, EofIsEof, Ownership, Bookkeeping, IsEmpty, End
<1>1. CASE UNCHANGED vars
  BY <1>1 DEF vars, clientVars, bgVars
<1>2. ASSUME NEW t \in Tasks, PollTake(t) PROVE IInv'
  <2>1. /\ read.lo \in 0..FileLen /\ read.hi \in 0..FileLen
        /\ read.lo <= read.hi /\ Deliver(<<read.lo, read.hi>>)
    BY <1>2 DEF PollTake, Empty, Failed
  <2>2. /\ buffered' \in (0..FileLen) \X (0..FileLen)
        /\ buffered'[1] <= buffered'[2] /\ buffered'[2] = read.hi
        /\ delivered' = buffered'[1]
        /\ answer' = IF read.lo = read.hi THEN "eof" ELSE "bytes"
        /\ read.lo = read.hi => delivered' = read.hi
    BY <2>1, DeliverStep
  <2>3. /\ read' = Empty /\ read'.kind # "bytes" /\ ~pending'
        /\ client' = "Ready" /\ bg' = bg /\ position' = position
        /\ bg # "read" /\ bg # "ended" /\ position = read.hi
        /\ buffer_size' = buffer_size
    BY <1>2 DEF PollTake, Polls, bgVars, Empty
  <2>4. TypeOK'
    BY <1>2, <2>2, <2>3 DEF PollTake, Polls, bgVars
  <2>5. BytesInOrder' /\ EofIsEof'
    <3>1. buffered'[2] = position' /\ position' \in 0..FileLen
      BY <1>2, <2>2, <2>3 DEF PollTake
    <3>2. answer' = "eof" => delivered' = End'
      BY <2>1, <2>2, <2>3, <1>2 DEF PollTake
    <3> QED
      BY <2>2, <2>3, <3>1, <3>2
  <2> QED
    BY <2>2, <2>3, <2>4, <2>5
<1>3. ASSUME NEW t \in Tasks, PollError(t) PROVE IInv'
  BY <1>3 DEF PollError, Polls, bgVars, Empty, Failed
<1>4. ASSUME NEW t \in Tasks, PollWait(t) PROVE IInv'
  BY <1>4 DEF PollWait, Polls, bgVars, Empty
<1>5. ASSUME NEW t \in Tasks, PollBuffered(t) PROVE IInv'
  <2>1. /\ buffered[1] \in 0..FileLen /\ buffered[2] \in 0..FileLen
        /\ buffered = <<buffered[1], buffered[2]>>
        /\ buffered[1] # buffered[2]
    BY <1>5 DEF PollBuffered
  <2>2. /\ buffered' \in (0..FileLen) \X (0..FileLen)
        /\ buffered'[1] <= buffered'[2] /\ buffered'[2] = buffered[2]
        /\ delivered' = buffered'[1]
        /\ answer' = "bytes"
    BY <1>5, <2>1, DeliverStep DEF PollBuffered
  <2> QED
    BY <1>5, <2>2 DEF PollBuffered, Polls, bgVars, Empty
<1>6. ASSUME NEW t \in Tasks, PollSend(t) PROVE IInv'
  BY <1>6 DEF PollSend, Polls, bgVars, Empty
<1>7. CASE Rendezvous
  BY <1>7 DEF Rendezvous, Empty
<1>8. CASE Drop
  BY <1>8 DEF Drop, bgVars, Empty
<1>9. CASE BgRead
  <2>1. waker' \in Tasks \cup {NoTask} /\ scheduled' \subseteq Tasks
    BY <1>9 DEF BgRead, Wake
  <2>2. ASSUME NEW n \in 0..buffer_size,
               n = 0 <=> position = FileLen \/ buffer_size = 0,
               buffer_size' = buffer_size,
               position + n <= FileLen,
               position' = position + n,
               read' = Bytes(position, position + n)
        PROVE  /\ position' \in 0..FileLen
               /\ read' \in [kind : {"bytes"}, lo : 0..FileLen, hi : 0..FileLen]
               /\ read'.kind = "bytes"
               /\ read'.lo = position /\ read'.hi = position'
               /\ read'.lo <= read'.hi
               /\ read'.lo = read'.hi => read'.hi = End'
               /\ buffer_size' = 0 => position' = 0
    BY <2>2 DEF Bytes
  <2>3. CASE read' = Failed /\ UNCHANGED position /\ errors' = errors + 1
    BY <1>9, <2>1, <2>3 DEF BgRead, clientVars, Empty, Failed
  <2> QED
    BY <1>9, <2>1, <2>2, <2>3 DEF BgRead, clientVars, Empty
<1>10. CASE BgEnd
  BY <1>10 DEF BgEnd, clientVars, Empty
<1> QED
  BY <1>1, <1>2, <1>3, <1>4, <1>5, <1>6, <1>7, <1>8, <1>9, <1>10
     DEF Next, Poll

LEMMA Invariant == Spec => []IInv
BY InvInit, InvNext, PTL DEF Spec

\* The fields of the adapter, its thread, the slot and the waker keep their
\* types; the reader is never driven past its end.
THEOREM TypeCorrect == Spec => []TypeOK
BY Invariant, PTL DEF IInv

\* No byte is delivered twice, skipped or overwritten in the buffer, whichever
\* task polls and however the source splits its reads or fails
\* (adapters.rs:219, 249-252).
THEOREM BytesStayInOrder == Spec => []BytesInOrder
BY Invariant, PTL DEF IInv

\* An Ok(0) means the end of the source, whatever the size of the buffer; with
\* one of no bytes it means that nothing was ever read
\* (adapters.rs:72-86, 200-214, 241-254).
THEOREM EofOnlyAtEnd == Spec => []EofIsEof
BY Invariant, PTL DEF IInv

\* A command is only sent to a thread that is at its channel, so no poll
\* blocks its task behind a read (adapters.rs:98, 162, 225).
THEOREM SendNeverBlocks == Spec => []SendFindsThreadIdle
<1>1. IInv => SendFindsThreadIdle
  BY DEF IInv, TypeOK, Ownership, SendFindsThreadIdle
<1> QED
  BY <1>1, Invariant, PTL
=============================================================================
