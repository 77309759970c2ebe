----------------------------- MODULE ReqwestRead -----------------------------
(***************************************************************************)
(* `Network` and the `ReqwestRead` it gives (src/src/entry/disks/          *)
(* network.rs): a response read chunk by chunk into whatever buffers the   *)
(* caller polls with.  What of a chunk does not fit is kept for the next   *)
(* polls; the future of the next chunk is in place while it is read.       *)
(*                                                                         *)
(* The response is external: chunks of the body arrive in order, any of    *)
(* them may be empty, and the connection may break before any of them.     *)
(***************************************************************************)
EXTENDS Naturals, Sequences, SequencesExt

CONSTANTS
  MaxChunks,    (* bound: chunks of a response                              *)
  MaxChunk      (* bound: bytes of a chunk                                  *)

VARIABLES
  client,       (* whether the Network has a client of its own              *)
  response,     (* lengths of the chunks that have not arrived              *)
  chunk,        (* the future: none, running, or ended with nothing to come *)
  leftover,     (* bytes kept, or None                                      *)
  arrived,      (* history: bytes that have arrived, numbered               *)
  delivered,    (* history: bytes the caller was given                      *)
  zero,         (* history: the last poll had a buffer and answered Ok(0)   *)
  gap           (* history: the last chunk to arrive was empty              *)

vars == <<client, response, chunk, leftover, arrived, delivered, zero, gap>>

None == <<>>

Bodies == UNION {[1..n -> 0..MaxChunk] : n \in 0..MaxChunks}

\* new, or deserialized, and then without a client.
Init ==
  /\ client \in BOOLEAN
  /\ response = <<>> /\ chunk = "none" /\ leftover = None
  /\ arrived = 0 /\ delivered = <<>> /\ zero = FALSE /\ gap = FALSE

\* async_read_disk: the default client is put in the Network if there is none;
\* the request is sent and the first chunk's future made.
AsyncReadDisk ==
  /\ chunk = "none"
  /\ client' = TRUE
  /\ \/ \E b \in Bodies : response' = b /\ chunk' = "running"
     \/ UNCHANGED <<response, chunk>>
  /\ UNCHANGED <<leftover, arrived, delivered, zero, gap>>

\* What fits of `bytes`.
Fits(bytes, buf) == IF Len(bytes) > buf THEN buf ELSE Len(bytes)

\* With what was kept taken from the end.
GiveLast(bytes, buf) ==
  LET kept == Len(bytes) - Fits(bytes, buf) IN
  /\ delivered' = delivered \o SubSeq(bytes, kept + 1, Len(bytes))
  /\ leftover' = SubSeq(bytes, 1, kept)
  /\ zero' = (buf > 0 /\ Fits(bytes, buf) = 0)

\* The caller gets as much as fits, and the rest is kept.
Give(bytes, buf) ==
  LET n == Fits(bytes, buf) IN
  /\ delivered' = delivered \o SubSeq(bytes, 1, n)
  /\ leftover' = SubSeq(bytes, n + 1, Len(bytes))
  /\ zero' = (buf > 0 /\ n = 0)

PollLeftover(buf) ==
  /\ chunk # "none" /\ leftover # None
  /\ Give(leftover, buf)
  /\ UNCHANGED <<client, response, chunk, arrived, gap>>

\* The next chunk, numbered on from what has arrived.
Arriving == [i \in 1..Head(response) |-> arrived + i]

\* Without a look at what was kept.
PollChunkFirst(buf) ==
  /\ chunk = "running" /\ response # <<>>
  /\ Give(Arriving, buf)
  /\ arrived' = arrived + Head(response) /\ gap' = (Head(response) = 0)
  /\ response' = Tail(response)
  /\ UNCHANGED <<client, chunk>>

\* The chunk is there; the future of the next one takes its place.  An empty
\* chunk is answered Ok(0).
PollChunk(buf) ==
  /\ chunk = "running" /\ leftover = None /\ response # <<>>
  /\ Give(Arriving, buf)
  /\ arrived' = arrived + Head(response) /\ gap' = (Head(response) = 0)
  /\ response' = Tail(response)
  /\ UNCHANGED <<client, chunk>>

\* No chunk is left: Ok(0), with the finished future left in place.
PollEnd ==
  /\ chunk = "running" /\ leftover = None /\ response = <<>>
  /\ chunk' = "ended" /\ zero' = TRUE
  /\ UNCHANGED <<client, response, leftover, arrived, delivered, gap>>

PollError ==
  /\ chunk = "running" /\ leftover = None
  /\ chunk' = "ended" /\ zero' = FALSE
  /\ UNCHANGED <<client, response, leftover, arrived, delivered, gap>>

\* A poll after the end or after an error polls a finished future.
PollFinished ==
  /\ chunk = "ended" /\ leftover = None
  /\ chunk' = "panicked" /\ zero' = FALSE
  /\ UNCHANGED <<client, response, leftover, arrived, delivered, gap>>

Next ==
  \/ AsyncReadDisk
  \/ \E buf \in 0..2 : PollLeftover(buf) \/ PollChunk(buf)
  \/ PollEnd \/ PollError \/ PollFinished

-----------------------------------------------------------------------------
\* The caller gets the bytes of the body in their order, none twice and none
\* dropped between a chunk, what was kept of it and the next (network.rs:140-197).
BodyInOrder == delivered \o leftover = [i \in 1..arrived |-> i]

\* Ok(0) for a buffer with room means that the caller has all that has arrived,
\* and that nothing is to come, unless the chunk it answers was empty: a caller
\* that takes Ok(0) for the end then stops early (network.rs:140-197).
ZeroIsTheEnd ==
  zero => /\ leftover = None /\ Len(delivered) = arrived
          /\ response = <<>> \/ gap
=============================================================================
