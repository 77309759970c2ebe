------------------------------ MODULE MCDisks ------------------------------
(***************************************************************************)
(* The Mmap disk, the Network disk, or the coders over the disks that hold *)
(* files, whichever `focus` names; the others rest.                        *)
(***************************************************************************)
EXTENDS Mmap

CONSTANTS MaxChunks, MaxChunk, MaxRows, MaxErrors

VARIABLES
  focus,
  client, response, chunk, leftover, arrived, delivered, zero, gap,
  stack, secrets, stored, sink, errors,
  coder, handles, phase, todo, value, result, sealed, lost

Network == INSTANCE ReqwestRead
Coders == INSTANCE Coding

network == <<client, response, chunk, leftover, arrived, delivered, zero, gap>>
coding == <<stack, secrets, stored, sink, errors,
            coder, handles, phase, todo, value, result, sealed, lost>>

\* What rests has one initial state.
MCInit ==
  /\ focus \in {"mmap", "network", "coding"}
  /\ Init /\ (focus # "mmap" => file = <<>>)
  /\ Network!Init
  /\ focus # "coding" =>
       /\ stack = [file |-> Coders!Plainfile, wraps |-> <<>>, level |-> 22]
       /\ coder = Coders!Plain("bincode")
  /\ Coders!Init

MCNext ==
  \/ focus = "mmap" /\ Next /\ UNCHANGED <<focus, network, coding>>
  \/ focus = "network" /\ Network!Next /\ UNCHANGED <<focus, vars, coding>>
  \/ focus = "coding" /\ Coders!Next /\ UNCHANGED <<focus, vars, network>>

MCSpec == MCInit /\ [][MCNext]_<<focus, vars, network, coding>>

\* The body of a response reaches the caller in order and whole.
BodyInOrder == Network!BodyInOrder
\* The caller is told of the end at the end, or at an empty chunk.
ZeroIsTheEnd == Network!ZeroIsTheEnd
\* What an encoder has answered Ok for is what a decoder reads.
EncodedIsDecodable == Coders!EncodedIsDecodable
\* A value cut short is refused and never read as another one.
TornIsRefused == Coders!TornIsRefused
=============================================================================
