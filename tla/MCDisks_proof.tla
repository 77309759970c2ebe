---------------------------- MODULE MCDisks_proof ----------------------------
(***************************************************************************)
(* The safety of the Mmap disk, the Network disk and the coders over the   *)
(* disks that hold files, for every length of a file, a reservation, a     *)
(* response and a value, and every number of writes, readers and faults.   *)
(*                                                                         *)
(* A response: what was delivered and what is kept are the bytes that have *)
(* arrived, and nothing is kept when a poll answers Ok(0).                 *)
(*                                                                         *)
(* A map: each function of the writer leaves a sound machine (Sound): the  *)
(* writer's bytes are at the start of the file and inside the reservation; *)
(* and if no system call failed, the map, the reservation and the file     *)
(* have one length (Exact).  The Arcs keep readers and writer apart        *)
(* (SlotInv).                                                              *)
(*                                                                         *)
(* An encoding: what the layers of a writer hold, from the file up, is     *)
(* followed by what is still to be written (ClearInv); under Encrypted     *)
(* only one ciphertext goes down, after all was written (SealedInv).       *)
(***************************************************************************)
EXTENDS MCDisks, TLAPS, SequenceTheorems

-----------------------------------------------------------------------------
(***************************************************************************)
(* Network.                                                                *)
(***************************************************************************)
NetworkInv ==
  /\ delivered \in Seq(Nat) /\ leftover \in Seq(Nat) /\ response \in Seq(Nat)
  /\ arrived \in Nat /\ zero \in BOOLEAN
  /\ delivered \o leftover = [i \in 1..arrived |-> i]
  /\ chunk = "none" => leftover = <<>> /\ ~zero
  /\ zero => leftover = <<>> /\ (response = <<>> \/ gap)

\* A sequence is given in two parts, the second one kept.
LEMMA GiveParts ==
  ASSUME NEW T, NEW d \in Seq(T), NEW s \in Seq(T), NEW n \in 0..Len(s)
  PROVE  /\ SubSeq(s, 1, n) \in Seq(T) /\ SubSeq(s, n + 1, Len(s)) \in Seq(T)
         /\ (d \o SubSeq(s, 1, n)) \o SubSeq(s, n + 1, Len(s)) = d \o s
         /\ n = Len(s) => SubSeq(s, n + 1, Len(s)) = <<>>
<1>1. Len(s) \in Nat /\ \A i \in 1..Len(s) : s[i] \in T
  BY LenProperties, ElementOfSeq
<1>2. SubSeq(s, 1, n) \in Seq(T) /\ SubSeq(s, n + 1, Len(s)) \in Seq(T)
  <2>1. /\ 1 \in Int /\ n \in Int /\ n + 1 \in Int /\ Len(s) \in Int
        /\ \A i \in 1..n : s[i] \in T
        /\ \A i \in (n + 1)..Len(s) : s[i] \in T
    BY <1>1
  <2> QED
    BY <2>1, SubSeqProperties, Zenon
<1>3. SubSeq(s, 1, n) \o SubSeq(s, n + 1, Len(s)) = s
  <2>1. /\ 1 \in 1..(Len(s) + 1) /\ n \in (1 - 1)..Len(s) /\ Len(s) \in n..Len(s)
    BY <1>1
  <2>2. SubSeq(s, 1, n) \o SubSeq(s, n + 1, Len(s)) = SubSeq(s, 1, Len(s))
    BY <2>1, ConcatAdjacentSubSeq, Zenon
  <2>3. SubSeq(s, 1, Len(s)) = s
    BY SubSeqFull
  <2> QED
    BY <2>2, <2>3
<1>4. (d \o SubSeq(s, 1, n)) \o SubSeq(s, n + 1, Len(s))
        = d \o (SubSeq(s, 1, n) \o SubSeq(s, n + 1, Len(s)))
  <2> DEFINE p == SubSeq(s, 1, n)
             q == SubSeq(s, n + 1, Len(s))
  <2>1. p \in Seq(T) /\ q \in Seq(T)
    BY <1>2
  <2> HIDE DEF p, q
  <2>2. (d \o p) \o q = d \o (p \o q)
    BY <2>1, ConcatAssociative
  <2> QED
    BY <2>2 DEF p, q
<1>5. ASSUME n = Len(s) PROVE SubSeq(s, n + 1, Len(s)) = <<>>
  <2>1. n + 1 \in Int /\ Len(s) \in Int /\ Len(s) < n + 1
    BY <1>1, <1>5
  <2> QED
    BY <2>1, SubSeqEmpty
<1> QED
  BY <1>2, <1>3, <1>4, <1>5, Zenon

LEMMA GiveBytes ==
  ASSUME NEW d \in Seq(Nat), NEW s \in Seq(Nat), NEW n \in 0..Len(s)
  PROVE  /\ SubSeq(s, 1, n) \in Seq(Nat) /\ SubSeq(s, n + 1, Len(s)) \in Seq(Nat)
         /\ (d \o SubSeq(s, 1, n)) \o SubSeq(s, n + 1, Len(s)) = d \o s
         /\ n = Len(s) => SubSeq(s, n + 1, Len(s)) = <<>>
BY GiveParts

\* The bytes of a chunk continue those that arrived before.
LEMMA Arrives ==
  ASSUME NEW a \in Nat, NEW len \in Nat
  PROVE  LET x == [i \in 1..len |-> a + i] IN
         /\ x \in Seq(Nat) /\ Len(x) = len
         /\ [i \in 1..a |-> i] \o x = [i \in 1..(a + len) |-> i]
<1> DEFINE x == [i \in 1..len |-> a + i]
           w == [i \in 1..a |-> i]
           v == w \o x
<1>1. x \in Seq(Nat) /\ Len(x) = len /\ \A i \in 1..len : x[i] = a + i
  OBVIOUS
<1>2. w \in Seq(Nat) /\ Len(w) = a /\ \A i \in 1..a : w[i] = i
  OBVIOUS
<1> HIDE DEF x, w
<1>3. /\ v \in Seq(Nat) /\ Len(v) = Len(w) + Len(x)
      /\ \A i \in 1..(Len(w) + Len(x)) :
           v[i] = IF i <= Len(w) THEN w[i] ELSE x[i - Len(w)]
  BY <1>1, <1>2, ConcatProperties, ZenonT(30)
<1> HIDE DEF v
<1>4. Len(v) = a + len /\ \A i \in 1..(a + len) : v[i] = i
  <2>1. Len(v) = a + len
    BY <1>1, <1>2, <1>3
  <2> SUFFICES ASSUME NEW i \in 1..(a + len) PROVE v[i] = i
    BY <2>1
  <2>2. CASE i <= a
    BY <1>1, <1>2, <1>3, <2>2
  <2>3. CASE i > a
    <3>1. i - a \in 1..len /\ a + (i - a) = i
      BY <2>3
    <3>2. v[i] = x[i - a]
      BY <1>1, <1>2, <1>3, <2>3
    <3> QED
      BY <1>1, <3>1, <3>2
  <2> QED
    BY <2>2, <2>3
<1>5. DOMAIN v = 1..Len(v) /\ v = [i \in DOMAIN v |-> v[i]]
  BY <1>3, LenProperties
<1>6. v = [i \in 1..(a + len) |-> i]
  BY <1>4, <1>5
<1> QED
  BY <1>1, <1>6 DEF v, w, x

LEMMA NetworkInit == MCInit => NetworkInv
<1> SUFFICES ASSUME Network!Init PROVE NetworkInv
  BY DEF MCInit
<1>1. /\ delivered = <<>> /\ leftover = <<>> /\ response = <<>>
      /\ arrived = 0 /\ zero = FALSE
  BY DEF Network!Init, Network!None
<1>2. <<>> \in Seq(Nat) /\ Len(<<>>) = 0
  OBVIOUS
<1>3. <<>> \o <<>> = [i \in 1..0 |-> i]
  <2>1. <<>> \o <<>> = <<>>
    BY <1>2, ConcatEmptySeq, Zenon
  <2>2. [i \in 1..0 |-> i] = <<>>
    OBVIOUS
  <2> QED
    BY <2>1, <2>2
<1>4. delivered \o leftover = [i \in 1..arrived |-> i]
  BY <1>1, <1>3
<1> QED
  BY <1>1, <1>2, <1>4 DEF NetworkInv

LEMMA NetworkNext == NetworkInv /\ Network!Next => NetworkInv'
<1> SUFFICES ASSUME NetworkInv, Network!Next PROVE NetworkInv'
  OBVIOUS
<1> USE DEF Network!None
<1>1. CASE Network!AsyncReadDisk
  <2>1. /\ chunk = "none" /\ leftover = <<>> /\ ~zero
        /\ UNCHANGED <<leftover, arrived, delivered, zero>>
    BY <1>1 DEF Network!AsyncReadDisk, NetworkInv
  <2>2. ASSUME NEW b \in Network!Bodies PROVE b \in Seq(Nat)
    <3>1. PICK n \in 0..MaxChunks : b \in [1..n -> 0..MaxChunk]
      BY <2>2 DEF Network!Bodies
    <3>2. n \in Nat /\ b \in [1..n -> Nat]
      BY <3>1
    <3> QED
      BY <3>2
  <2>3. response' \in Seq(Nat)
    BY <1>1, <2>2 DEF Network!AsyncReadDisk, NetworkInv
  <2> QED
    BY <2>1, <2>3 DEF NetworkInv
<1>2. ASSUME NEW buf \in 0..2, Network!PollLeftover(buf) PROVE NetworkInv'
  <2> DEFINE n == Network!Fits(leftover, buf)
  <2>1. /\ leftover # <<>> /\ chunk # "none"
        /\ UNCHANGED <<response, chunk, arrived>>
        /\ delivered' = delivered \o SubSeq(leftover, 1, n)
        /\ leftover' = SubSeq(leftover, n + 1, Len(leftover))
        /\ zero' = (buf > 0 /\ n = 0)
    BY <1>2 DEF Network!PollLeftover, Network!Give
  <2>2. /\ delivered \in Seq(Nat) /\ leftover \in Seq(Nat) /\ n \in 0..Len(leftover)
    BY LenProperties DEF NetworkInv, Network!Fits
  <2>3. delivered' \in Seq(Nat)
    BY <2>1, <2>2, GiveBytes, ConcatProperties, Zenon
  <2>4. leftover' \in Seq(Nat) /\ delivered' \o leftover' = delivered \o leftover
    BY <2>1, <2>2, GiveBytes, Zenon
  <2>5. zero' = FALSE
    <3>1. Len(leftover) \in Nat \ {0}
      BY <2>1, <2>2, EmptySeq, LenProperties
    <3>2. ~(buf > 0 /\ n = 0)
      BY <3>1 DEF Network!Fits
    <3> QED
      BY <2>1, <3>2, Zenon
  <2> QED
    BY <2>1, <2>3, <2>4, <2>5 DEF NetworkInv
\* Ok(0) for a chunk only when it is empty, and then nothing of it is kept.
<1>3. ASSUME NEW buf \in 0..2, Network!PollChunk(buf) PROVE NetworkInv'
  <2> DEFINE len == Head(response)
             bytes == [i \in 1..len |-> arrived + i]
             n == Network!Fits(bytes, buf)
  <2>1. /\ leftover = <<>> /\ chunk # "none" /\ chunk' = chunk /\ response # <<>>
        /\ delivered' = delivered \o SubSeq(bytes, 1, n)
        /\ leftover' = SubSeq(bytes, n + 1, Len(bytes))
        /\ arrived' = arrived + len /\ gap' = (len = 0) /\ response' = Tail(response)
        /\ zero' = (buf > 0 /\ n = 0)
    BY <1>3 DEF Network!PollChunk, Network!Give, Network!Arriving
  <2>2. len \in Nat /\ response' \in Seq(Nat)
    BY <2>1, HeadTailProperties, EmptySeq, LenProperties DEF NetworkInv
  <2>3. /\ bytes \in Seq(Nat) /\ Len(bytes) = len
        /\ [i \in 1..arrived |-> i] \o bytes = [i \in 1..(arrived + len) |-> i]
    BY <2>2, Arrives DEF NetworkInv
  <2>4. delivered = [i \in 1..arrived |-> i] /\ delivered \in Seq(Nat)
    <3>1. delivered \o <<>> = delivered
      BY ConcatEmptySeq DEF NetworkInv
    <3> QED
      BY <2>1, <3>1 DEF NetworkInv
  <2> HIDE DEF len, bytes
  <2>5. n \in 0..Len(bytes) /\ (buf > 0 /\ n = 0 => len = 0)
    BY <2>2, <2>3 DEF Network!Fits
  <2> HIDE DEF n
  <2>6. delivered' \in Seq(Nat)
    BY <2>1, <2>3, <2>4, <2>5, GiveBytes, ConcatProperties, Zenon
  <2>7. leftover' \in Seq(Nat) /\ delivered' \o leftover' = delivered \o bytes
    BY <2>1, <2>3, <2>4, <2>5, GiveBytes, Zenon
  <2>8. ASSUME zero' PROVE leftover' = <<>> /\ gap'
    <3>1. buf > 0 /\ n = 0
      BY <2>1, <2>8, Zenon
    <3>2. len = 0
      BY <2>5, <3>1, Zenon
    <3>3. n = Len(bytes)
      BY <2>3, <3>1, <3>2
    <3>4. leftover' = <<>>
      BY <2>1, <2>3, <2>4, <2>5, <3>3, GiveBytes, Zenon
    <3> QED
      BY <2>1, <3>2, <3>4
  <2>9. arrived' \in Nat
    BY <2>1, <2>2 DEF NetworkInv
  <2>10. zero' \in BOOLEAN
    BY <2>1, Zenon
  <2>11. delivered' \o leftover' = [i \in 1..arrived' |-> i]
    BY <2>1, <2>3, <2>4, <2>7
  <2> QED
    BY <2>1, <2>2, <2>6, <2>7, <2>8, <2>9, <2>10, <2>11 DEF NetworkInv
<1>4. CASE Network!PollEnd
  BY <1>4 DEF Network!PollEnd, NetworkInv
<1>5. CASE Network!PollError
  BY <1>5 DEF Network!PollError, NetworkInv
<1>6. CASE Network!PollFinished
  BY <1>6 DEF Network!PollFinished, NetworkInv
<1> QED
  BY <1>1, <1>2, <1>3, <1>4, <1>5, <1>6 DEF Network!Next

LEMMA NetworkImplies == NetworkInv => BodyInOrder /\ ZeroIsTheEnd
<1> SUFFICES ASSUME NetworkInv PROVE BodyInOrder /\ ZeroIsTheEnd
  OBVIOUS
<1>1. BodyInOrder
  BY DEF NetworkInv, BodyInOrder, Network!BodyInOrder
<1>2. ASSUME zero PROVE leftover = <<>> /\ Len(delivered) = arrived /\ (response = <<>> \/ gap)
  <2>1. leftover = <<>> /\ (response = <<>> \/ gap)
    BY <1>2 DEF NetworkInv
  <2>2. delivered = [i \in 1..arrived |-> i]
    <3>1. delivered \o <<>> = delivered
      BY ConcatEmptySeq DEF NetworkInv
    <3> QED
      BY <2>1, <3>1 DEF NetworkInv
  <2> QED
    BY <2>1, <2>2 DEF NetworkInv
<1> QED
  BY <1>1, <1>2 DEF ZeroIsTheEnd, Network!ZeroIsTheEnd, Network!None

LEMMA NetworkInvariance == MCSpec => []NetworkInv
<1>1. NetworkInv /\ [MCNext]_<<focus, vars, network, coding>> => NetworkInv'
  <2>1. NetworkInv /\ UNCHANGED network => NetworkInv'
    BY DEF network, NetworkInv
  <2> QED
    BY <2>1, NetworkNext DEF MCNext
<1> QED
  BY <1>1, NetworkInit, PTL DEF MCSpec

\* However a response is cut into chunks and buffers, and wherever it breaks
\* off, the caller gets its bytes in order (network.rs:140-197).
THEOREM BodyStaysInOrder == MCSpec => []BodyInOrder
<1> QED
  BY NetworkInvariance, NetworkImplies, PTL

\* A poll with a buffer answers that there is nothing only when the caller has
\* all that has arrived, and either the body is over or the chunk that has
\* arrived is empty (network.rs:140-197).
THEOREM EndIsToldAtTheEnd == MCSpec => []ZeroIsTheEnd
<1> QED
  BY NetworkInvariance, NetworkImplies, PTL

-----------------------------------------------------------------------------
(***************************************************************************)
(* Mmap: the machine that a call of the writer works on.                   *)
(***************************************************************************)
ByteSeqs == Seq(0..MaxWrites)
WriterType == [len : Nat, written : Nat, reserved : Nat, sparse : BOOLEAN]
Machines ==
  [file : ByteSeqs, w : WriterType \cup {NoWriter}, want : ByteSeqs, faults : 0..MaxFaults]

\* The file starts with what was given to the writer.
Starts(given, bytes) ==
  Len(given) <= Len(bytes) /\ \A i \in 1..Len(given) : bytes[i] = given[i]

Sound(m) ==
  /\ m \in Machines /\ m.w \in WriterType
  /\ m.w.written = Len(m.want) /\ m.w.written <= m.w.reserved
  /\ Starts(m.want, m.file)

Exact(m) == m.w.len = m.w.reserved /\ m.w.reserved = Len(m.file)

\* What every function leaves, whatever it answers.
Post(m, o) ==
  /\ Sound(o.m) /\ o.m.want = m.want /\ m.faults <= o.m.faults
  /\ o.res # "ok" => m.faults < o.m.faults

Bump(m) == [m EXCEPT !.faults = @ + 1]

LEMMA WriterIsNot == NoWriter \notin WriterType
<1>1. NoWriter.len = -1
  BY DEF NoWriter
<1> QED
  BY <1>1 DEF WriterType

LEMMA MachineFields ==
  ASSUME NEW m \in Machines
  PROVE  /\ m = [file |-> m.file, w |-> m.w, want |-> m.want, faults |-> m.faults]
         /\ m.file \in ByteSeqs /\ m.want \in ByteSeqs /\ m.faults \in 0..MaxFaults
         /\ m.faults \in Nat /\ MaxFaults \in Nat
         /\ Len(m.file) \in Nat /\ Len(m.want) \in Nat
         /\ m.w \in WriterType \cup {NoWriter}
<1>1. /\ m = [file |-> m.file, w |-> m.w, want |-> m.want, faults |-> m.faults]
      /\ m.file \in ByteSeqs /\ m.want \in ByteSeqs /\ m.faults \in 0..MaxFaults
      /\ m.w \in WriterType \cup {NoWriter}
  BY DEF Machines
<1>2. Len(m.file) \in Nat /\ Len(m.want) \in Nat
  BY <1>1, LenProperties DEF ByteSeqs
<1>3. MaxFaults \in Nat
  BY MmapAssumption
<1> QED
  BY <1>1, <1>2, <1>3

LEMMA WriterFields ==
  ASSUME NEW w \in WriterType
  PROVE  /\ w.len \in Nat /\ w.written \in Nat /\ w.reserved \in Nat
         /\ w.sparse \in BOOLEAN
BY DEF WriterType

LEMMA Bumped ==
  ASSUME NEW m \in Machines, m.faults < MaxFaults
  PROVE  /\ Bump(m) \in Machines
         /\ Bump(m).file = m.file /\ Bump(m).w = m.w /\ Bump(m).want = m.want
         /\ Bump(m).faults = m.faults + 1
         /\ Sound(m) => Sound(Bump(m))
<1> DEFINE x == Bump(m)
<1>1. m.faults + 1 \in 0..MaxFaults
  BY MachineFields
<1>2. /\ x \in Machines /\ x.file = m.file /\ x.w = m.w /\ x.want = m.want
      /\ x.faults = m.faults + 1
  BY <1>1 DEF Machines, Bump
<1> HIDE DEF x
<1>3. Sound(m) => Sound(x)
  BY <1>2 DEF Sound
<1> QED
  BY <1>2, <1>3 DEF x

LEMMA TryOutcomes ==
  ASSUME NEW m \in Machines, NEW good, NEW res
  PROVE  \A o \in Try(m, good, res) :
           \/ o = Ok(good)
           \/ o = [m |-> Bump(m), res |-> res] /\ m.faults < MaxFaults
<1> TAKE o \in Try(m, good, res)
<1>1. CASE o \in {Ok(good)}
  BY <1>1
<1>2. ASSUME NEW x \in 1..(MaxFaults - m.faults), o = Outcome(m, res)
      PROVE  o = [m |-> Bump(m), res |-> res] /\ m.faults < MaxFaults
  BY <1>2, MachineFields DEF Outcome, Bump
<1> QED
  BY <1>1, <1>2 DEF Try

\* A call that leaves the machine sound and takes nothing back.
LEMMA TryPost ==
  ASSUME NEW m, Sound(m), NEW good, Sound(good), good.want = m.want,
         good.faults = m.faults, NEW res \in {"err", "panic"}
  PROVE  \A o \in Try(m, good, res) :
           /\ Post(m, o) /\ o.res \in {"ok", res}
           /\ o.res = "ok" => o.m = good
           /\ o.res # "ok" => o.m.file = m.file /\ o.m.w = m.w
<1> TAKE o \in Try(m, good, res)
<1>1. m \in Machines /\ m.faults \in Nat
  BY MachineFields DEF Sound
<1>2. CASE o = Ok(good)
  <2>1. o.m = good /\ o.res = "ok"
    BY <1>2 DEF Ok
  <2> QED
    BY <1>1, <2>1 DEF Post
<1>3. CASE o = [m |-> Bump(m), res |-> res] /\ m.faults < MaxFaults
  <2>1. o.m = Bump(m) /\ o.res = res /\ o.res # "ok"
    BY <1>3
  <2> QED
    BY <1>1, <1>3, <2>1, Bumped DEF Post
<1> QED
  BY <1>1, <1>2, <1>3, TryOutcomes

LEMMA PostTrans ==
  ASSUME NEW m, Sound(m), NEW o, NEW p, Post(m, o), Post(o.m, p)
  PROVE  Post(m, p)
<1>1. m.faults \in Nat /\ o.m.faults \in Nat /\ p.m.faults \in Nat
  BY MachineFields DEF Post, Sound
<1> QED
  BY <1>1 DEF Post

\* One call after another: the outcome is the second's, or the first's failure.
LEMMA ThenOk ==
  ASSUME NEW m, Sound(m)
  PROVE  Post(m, Ok(m)) /\ Ok(m).res = "ok" /\ Ok(m).m = m
<1>1. Ok(m).res = "ok" /\ Ok(m).m = m /\ m.faults \in Nat
  BY MachineFields DEF Ok, Sound
<1> QED
  BY <1>1 DEF Post

LEMMA Resized ==
  ASSUME NEW m, Sound(m), NEW n \in Nat, m.w.written <= n
  PROVE  LET x == [m EXCEPT !.file = Resize(@, n)] IN
         /\ Sound(x) /\ x.want = m.want /\ x.faults = m.faults /\ x.w = m.w
         /\ Len(x.file) = n
<1> DEFINE x == [m EXCEPT !.file = Resize(@, n)]
           f == Resize(m.file, n)
<1>1. m \in Machines /\ m.file \in Seq(0..MaxWrites) /\ 0 \in 0..MaxWrites
  BY MachineFields, MmapAssumption DEF Sound, ByteSeqs
<1>2. f \in Seq(0..MaxWrites) /\ Len(f) = n
      /\ \A i \in 1..n : f[i] = IF i <= Len(m.file) THEN m.file[i] ELSE 0
  <2>1. \A i \in 1..n : (IF i <= Len(m.file) THEN m.file[i] ELSE 0) \in 0..MaxWrites
    <3>1. Len(m.file) \in Nat /\ \A i \in 1..Len(m.file) : m.file[i] \in 0..MaxWrites
      BY <1>1, LenProperties, ElementOfSeq
    <3> QED
      BY <1>1, <3>1
  <2> QED
    BY <2>1 DEF Resize
<1> HIDE DEF f
<1>3. /\ x \in Machines /\ x.file = f /\ x.w = m.w /\ x.want = m.want
      /\ x.faults = m.faults
  BY <1>1, <1>2 DEF Machines, f, ByteSeqs
<1> HIDE DEF x
<1>4. Len(m.want) \in Nat /\ Len(m.file) \in Nat /\ Len(m.want) <= n
      /\ Len(m.want) <= Len(m.file) /\ \A i \in 1..Len(m.want) : m.file[i] = m.want[i]
  BY <1>1, MachineFields DEF Sound, Starts
<1>5. Starts(m.want, f)
  BY <1>2, <1>4 DEF Starts
<1>6. Sound(x)
  BY <1>3, <1>5 DEF Sound
<1> QED
  BY <1>2, <1>3, <1>6 DEF x

LEMMA Reserved ==
  ASSUME NEW m, Sound(m), NEW n \in Nat, m.w.written <= n
  PROVE  LET x == SetReserved(m, n) IN
         /\ Sound(x) /\ x.want = m.want /\ x.faults = m.faults /\ x.file = m.file
         /\ x.w.reserved = n /\ x.w.len = m.w.len /\ x.w.written = m.w.written
<1> DEFINE x == SetReserved(m, n)
           v == [m.w EXCEPT !.reserved = n]
<1>1. m \in Machines /\ m.w \in WriterType
  BY DEF Sound
<1>2. /\ v \in WriterType /\ v.reserved = n /\ v.len = m.w.len
      /\ v.written = m.w.written
  BY <1>1 DEF WriterType
<1> HIDE DEF v
<1>3. x = [m EXCEPT !.w = v]
  BY <1>1, Zenon DEF SetReserved, v
<1>4. /\ x \in Machines /\ x.file = m.file /\ x.w = v /\ x.want = m.want
      /\ x.faults = m.faults
  BY <1>1, <1>2, <1>3 DEF Machines
<1> HIDE DEF x
<1>5. Sound(x)
  BY <1>2, <1>4 DEF Sound
<1> QED
  BY <1>2, <1>4, <1>5 DEF x

LEMMA Remapped ==
  ASSUME NEW m, Sound(m)
  PROVE  LET x == [m EXCEPT !.w.len = m.w.reserved] IN
         /\ Sound(x) /\ x.want = m.want /\ x.faults = m.faults /\ x.file = m.file
         /\ x.w.len = m.w.reserved /\ x.w.reserved = m.w.reserved
         /\ x.w.written = m.w.written
<1> DEFINE x == [m EXCEPT !.w.len = m.w.reserved]
           v == [m.w EXCEPT !.len = m.w.reserved]
<1>1. m \in Machines /\ m.w \in WriterType /\ m.w.reserved \in Nat
  BY WriterFields DEF Sound
<1>2. /\ v \in WriterType /\ v.len = m.w.reserved /\ v.reserved = m.w.reserved
      /\ v.written = m.w.written
  BY <1>1 DEF WriterType
<1> HIDE DEF v
<1>3. x = [m EXCEPT !.w = v]
  BY <1>1, Zenon DEF v
<1>4. /\ x \in Machines /\ x.file = m.file /\ x.w = v /\ x.want = m.want
      /\ x.faults = m.faults
  BY <1>1, <1>2, <1>3 DEF Machines
<1> HIDE DEF x
<1>5. Sound(x)
  BY <1>2, <1>4 DEF Sound
<1> QED
  BY <1>2, <1>4, <1>5 DEF x

LEMMA NotSparse ==
  ASSUME NEW m, Sound(m)
  PROVE  LET x == [m EXCEPT !.w.sparse = FALSE] IN
         /\ Sound(x) /\ x.want = m.want /\ x.faults = m.faults /\ x.file = m.file
         /\ x.w.reserved = m.w.reserved
<1> DEFINE x == [m EXCEPT !.w.sparse = FALSE]
           v == [m.w EXCEPT !.sparse = FALSE]
<1>1. m \in Machines /\ m.w \in WriterType
  BY DEF Sound
<1>2. v \in WriterType /\ v.reserved = m.w.reserved /\ v.written = m.w.written
  BY <1>1 DEF WriterType
<1> HIDE DEF v
<1>3. x = [m EXCEPT !.w = v]
  BY <1>1, Zenon DEF v
<1>4. /\ x \in Machines /\ x.file = m.file /\ x.w = v /\ x.want = m.want
      /\ x.faults = m.faults
  BY <1>1, <1>2, <1>3 DEF Machines
<1> HIDE DEF x
<1>5. Sound(x)
  BY <1>2, <1>4 DEF Sound
<1> QED
  BY <1>2, <1>4, <1>5 DEF x

-----------------------------------------------------------------------------
(***************************************************************************)
(* What each function of the writer leaves.                                *)
(***************************************************************************)
LEMMA OpenFilePost ==
  ASSUME NEW m, Sound(m)
  PROVE  \A o \in OpenFile(m) :
           Post(m, o) /\ o.res \in {"ok", "err"} /\ (o.res = "ok" => o.m = m)
BY TryPost DEF OpenFile

LEMMA SetLenPost ==
  ASSUME NEW m, Sound(m), NEW n \in Nat, m.w.written <= n, NEW res \in {"err", "panic"}
  PROVE  \A o \in SetLen(m, n, res) :
           /\ Post(m, o) /\ o.res \in {"ok", res}
           /\ o.res = "ok" =>
                Len(o.m.file) = n /\ o.m.w = m.w /\ o.m.faults = m.faults
<1> DEFINE x == [m EXCEPT !.file = Resize(@, n)]
<1>1. /\ Sound(x) /\ x.want = m.want /\ x.faults = m.faults /\ x.w = m.w
      /\ Len(x.file) = n
  BY Resized
<1> HIDE DEF x
<1>2. \A o \in Try(m, x, res) :
        Post(m, o) /\ o.res \in {"ok", res} /\ (o.res = "ok" => o.m = x)
  BY <1>1, TryPost
<1> QED
  BY <1>1, <1>2 DEF SetLen, x

LEMMA RemapPost ==
  ASSUME NEW m, Sound(m)
  PROVE  \A o \in Remap(m) :
           /\ Post(m, o) /\ o.res \in {"ok", "err"}
           /\ o.res = "ok" =>
                /\ o.m.w.len = m.w.reserved /\ o.m.w.reserved = m.w.reserved
                /\ o.m.file = m.file /\ o.m.faults = m.faults
<1> DEFINE x == [m EXCEPT !.w.len = m.w.reserved]
<1>1. /\ Sound(x) /\ x.want = m.want /\ x.faults = m.faults /\ x.file = m.file
      /\ x.w.len = m.w.reserved /\ x.w.reserved = m.w.reserved
  BY Remapped
<1> HIDE DEF x
<1>2. \A o \in Try(m, x, "err") :
        Post(m, o) /\ o.res \in {"ok", "err"} /\ (o.res = "ok" => o.m = x)
  BY <1>1, TryPost
<1> QED
  BY <1>1, <1>2 DEF Remap, x

\* The file gets a length and the reservation follows.
LEMMA ReserveFtruncatePost ==
  ASSUME NEW m, Sound(m), NEW n \in Nat, m.w.written <= n
  PROVE  \A o \in ReserveFtruncate(m, n) :
           /\ Post(m, o) /\ o.res \in {"ok", "err"}
           /\ o.res = "ok" => Len(o.m.file) = n /\ o.m.w.reserved = n
<1> TAKE o \in ReserveFtruncate(m, n)
<1>1. PICK a \in SetLen(m, n, "err") :
        o \in IF a.res = "ok" THEN {Ok(SetReserved(a.m, n))} ELSE {a}
  BY DEF ReserveFtruncate, Then
<1>2. /\ Post(m, a) /\ a.res \in {"ok", "err"}
      /\ a.res = "ok" => Len(a.m.file) = n /\ a.m.w = m.w
  BY SetLenPost
<1>3. CASE a.res # "ok"
  BY <1>1, <1>2, <1>3
<1>4. CASE a.res = "ok"
  <2> DEFINE x == SetReserved(a.m, n)
  <2>1. Sound(a.m) /\ a.m.w.written <= n
    BY <1>2, <1>4 DEF Post
  <2>2. /\ Sound(x) /\ x.want = a.m.want /\ x.faults = a.m.faults /\ x.file = a.m.file
        /\ x.w.reserved = n
    BY <2>1, Reserved
  <2> HIDE DEF x
  <2>3. o = Ok(x) /\ o.res = "ok" /\ o.m = x
    BY <1>1, <1>4 DEF Ok, x
  <2> QED
    BY <1>2, <1>4, <2>2, <2>3 DEF Post
<1> QED
  BY <1>3, <1>4

LEMMA ReserveSparsePost ==
  ASSUME NEW m, Sound(m), Len(m.file) = m.w.reserved
  PROVE  \A o \in ReserveSparse(m) :
           /\ Post(m, o) /\ o.res \in {"ok", "err"}
           /\ o.res = "ok" => Len(o.m.file) = o.m.w.reserved /\ m.w.reserved <= o.m.w.reserved
<1> TAKE o \in ReserveSparse(m)
<1> DEFINE larger == m.w.reserved + Hole
<1>1. /\ m.w.reserved \in Nat /\ m.w.written \in Nat /\ m.w.written <= m.w.reserved
      /\ larger \in Nat /\ m.w.reserved <= larger /\ m.w.written <= larger
  <2>1. m.w.reserved \in Nat /\ m.w.written \in Nat /\ m.w.written <= m.w.reserved
    BY WriterFields DEF Sound
  <2>2. Hole \in Nat
    BY MmapAssumption
  <2> QED
    BY <2>1, <2>2
<1>2. \/ o \in ReserveFtruncate(m, larger)
      \/ o = Ok([m EXCEPT !.w.sparse = FALSE])
      \/ o = Ok(m)
  BY DEF ReserveSparse, TestForHole, ReserveFtruncate
<1> HIDE DEF larger
<1>3. CASE o \in ReserveFtruncate(m, larger)
  BY <1>1, <1>3, ReserveFtruncatePost
<1>4. CASE o = Ok([m EXCEPT !.w.sparse = FALSE])
  <2> DEFINE x == [m EXCEPT !.w.sparse = FALSE]
  <2>1. /\ Sound(x) /\ x.want = m.want /\ x.faults = m.faults /\ x.file = m.file
        /\ x.w.reserved = m.w.reserved
    BY NotSparse
  <2> HIDE DEF x
  <2>2. o.res = "ok" /\ o.m = x
    BY <1>4 DEF Ok, x
  <2>3. m.faults \in Nat
    BY MachineFields DEF Sound
  <2> QED
    BY <1>1, <2>1, <2>2, <2>3 DEF Post
<1>5. CASE o = Ok(m)
  BY <1>1, <1>5, ThenOk
<1> QED
  BY <1>2, <1>3, <1>4, <1>5

\* The file is as long as the reservation, which is what was asked for or more.
LEMMA GrowPost ==
  ASSUME NEW m, Sound(m), NEW n \in Nat, m.w.written <= n
  PROVE  \A o \in Grow(m, n) :
           /\ Post(m, o) /\ o.res \in {"ok", "err"}
           /\ o.res = "ok" => Len(o.m.file) = o.m.w.reserved /\ n <= o.m.w.reserved
<1> TAKE o \in Grow(m, n)
<1>1. CASE o \in ReserveFtruncate(m, n)
  BY <1>1, ReserveFtruncatePost
<1>2. ASSUME NEW b \in Then(ReserveFtruncate(m, n), ReserveSparse)
      PROVE  /\ Post(m, b) /\ b.res \in {"ok", "err"}
             /\ b.res = "ok" => Len(b.m.file) = b.m.w.reserved /\ n <= b.m.w.reserved
  <2>1. PICK a \in ReserveFtruncate(m, n) :
          b \in IF a.res = "ok" THEN ReserveSparse(a.m) ELSE {a}
    BY <1>2 DEF Then
  <2>2. /\ Post(m, a) /\ a.res \in {"ok", "err"}
        /\ a.res = "ok" => Len(a.m.file) = n /\ a.m.w.reserved = n
    BY ReserveFtruncatePost
  <2>3. CASE a.res # "ok"
    BY <2>1, <2>2, <2>3
  <2>4. CASE a.res = "ok"
    <3>1. Sound(a.m) /\ Len(a.m.file) = a.m.w.reserved /\ b \in ReserveSparse(a.m)
      BY <2>1, <2>2, <2>4 DEF Post
    <3>2. /\ Post(a.m, b) /\ b.res \in {"ok", "err"}
          /\ b.res = "ok" => Len(b.m.file) = b.m.w.reserved /\ a.m.w.reserved <= b.m.w.reserved
      BY <3>1, ReserveSparsePost
    <3>3. Post(m, b)
      BY <2>2, <3>2, PostTrans
    <3> QED
      BY <2>2, <2>4, <3>2, <3>3
  <2> QED
    BY <2>3, <2>4
<1>3. CASE /\ m.w.sparse
           /\ \E b \in Then(ReserveFtruncate(m, n), ReserveSparse) :
                o \in IF b.res = "ok" THEN {b} ELSE ReserveFtruncate(b.m, n)
  <2>1. PICK b \in Then(ReserveFtruncate(m, n), ReserveSparse) :
          o \in IF b.res = "ok" THEN {b} ELSE ReserveFtruncate(b.m, n)
    BY <1>3
  <2>2. /\ Post(m, b) /\ b.res \in {"ok", "err"}
        /\ b.res = "ok" => Len(b.m.file) = b.m.w.reserved /\ n <= b.m.w.reserved
    BY <1>2
  <2>3. CASE b.res = "ok"
    BY <2>1, <2>2, <2>3
  <2>4. CASE b.res # "ok"
    <3>1. Sound(b.m) /\ b.m.w.written <= n /\ o \in ReserveFtruncate(b.m, n)
      BY <2>1, <2>2, <2>4 DEF Post, Sound
    <3>2. /\ Post(b.m, o) /\ o.res \in {"ok", "err"}
          /\ o.res = "ok" => Len(o.m.file) = n /\ o.m.w.reserved = n
      BY <3>1, ReserveFtruncatePost
    <3>3. Post(m, o)
      BY <2>2, <3>2, PostTrans
    <3> QED
      BY <3>2, <3>3
  <2> QED
    BY <2>3, <2>4
<1> QED
  BY <1>1, <1>3 DEF Grow, OrElse, ReserveFtruncate

LEMMA ReserveForPost ==
  ASSUME NEW m, Sound(m), NEW len \in Nat
  PROVE  \A o \in ReserveFor(m, len) :
           /\ Post(m, o) /\ o.res \in {"ok", "err"}
           /\ o.res = "ok" =>
                /\ o.m.w.written + len <= o.m.w.reserved
                /\ o.m = m \/ Exact(o.m)
<1> TAKE o \in ReserveFor(m, len)
<1> DEFINE remaining == m.w.reserved - m.w.written
           more == IF len - remaining > MinReserve THEN len - remaining ELSE MinReserve
           n == m.w.reserved + more
<1>1. /\ m.w.reserved \in Nat /\ m.w.written \in Nat /\ m.w.written <= m.w.reserved
      /\ MinReserve \in Nat
  BY WriterFields, MmapAssumption DEF Sound
<1>2. n \in Nat /\ m.w.written <= n /\ m.w.written + len <= n
  BY <1>1
<1>3. CASE len <= remaining /\ o = Ok(m)
  BY <1>1, <1>3, ThenOk
<1>4. CASE o \in Then(Then(OpenFile(m), LAMBDA x : Grow(x, n)), Remap)
  <2> HIDE DEF n
  <2>1. PICK g \in Then(OpenFile(m), LAMBDA x : Grow(x, n)) :
          o \in IF g.res = "ok" THEN Remap(g.m) ELSE {g}
    BY <1>4 DEF Then
  <2>2. PICK a \in OpenFile(m) : g \in IF a.res = "ok" THEN Grow(a.m, n) ELSE {a}
    BY DEF Then
  <2>3. Post(m, a) /\ a.res \in {"ok", "err"} /\ (a.res = "ok" => a.m = m)
    BY OpenFilePost
  <2>4. /\ Post(m, g) /\ g.res \in {"ok", "err"}
        /\ g.res = "ok" => Len(g.m.file) = g.m.w.reserved /\ n <= g.m.w.reserved
    <3>1. CASE a.res = "ok"
      BY <1>2, <2>2, <2>3, <3>1, GrowPost
    <3>2. CASE a.res # "ok"
      BY <2>2, <2>3, <3>2
    <3> QED
      BY <3>1, <3>2
  <2>5. CASE g.res # "ok"
    BY <2>1, <2>4, <2>5
  <2>6. CASE g.res = "ok"
    <3>1. Sound(g.m) /\ o \in Remap(g.m) /\ g.m.want = m.want
      BY <2>1, <2>4, <2>6 DEF Post
    <3>2. /\ Post(g.m, o) /\ o.res \in {"ok", "err"}
          /\ o.res = "ok" =>
               /\ o.m.w.len = g.m.w.reserved /\ o.m.w.reserved = g.m.w.reserved
               /\ o.m.file = g.m.file
      BY <3>1, RemapPost
    <3>3. Post(m, o)
      BY <2>4, <3>2, PostTrans
    <3>4. o.m.w.written = m.w.written
      BY <3>3 DEF Post, Sound
    <3>5. ASSUME o.res = "ok"
          PROVE  o.m.w.written + len <= o.m.w.reserved /\ Exact(o.m)
      <4>1. /\ n <= o.m.w.reserved /\ o.m.w.reserved \in Nat
            /\ o.m.w.len = o.m.w.reserved /\ o.m.w.reserved = Len(o.m.file)
        BY <2>4, <2>6, <3>2, <3>5, WriterFields DEF Post, Sound
      <4> QED
        BY <1>1, <1>2, <3>4, <4>1 DEF Exact
    <3> QED
      BY <3>2, <3>3, <3>5
  <2> QED
    BY <2>5, <2>6
<1> QED
  BY <1>3, <1>4 DEF ReserveFor

LEMMA Appended ==
  ASSUME NEW s \in ByteSeqs, NEW byte \in 0..MaxWrites, NEW len \in Nat
  PROVE  LET q == s \o [i \in 1..len |-> byte] IN
         /\ q \in ByteSeqs /\ Len(q) = Len(s) + len
         /\ \A i \in 1..Len(s) : q[i] = s[i]
         /\ \A i \in 1..len : q[Len(s) + i] = byte
<1> DEFINE S == 0..MaxWrites
           t == [i \in 1..len |-> byte]
           q == s \o t
<1>1. t \in Seq(S) /\ Len(t) = len /\ \A i \in 1..len : t[i] = byte
  OBVIOUS
<1>2. s \in Seq(S) /\ Len(s) \in Nat
  BY LenProperties DEF ByteSeqs
<1> HIDE DEF S, t
<1>3. /\ q \in Seq(S) /\ Len(q) = Len(s) + Len(t)
      /\ \A i \in 1..(Len(s) + Len(t)) :
           q[i] = IF i <= Len(s) THEN s[i] ELSE t[i - Len(s)]
  BY <1>1, <1>2, ConcatProperties, ZenonT(30)
<1> HIDE DEF q
<1>4. ASSUME NEW i \in 1..Len(s) PROVE q[i] = s[i]
  BY <1>1, <1>2, <1>3
<1>5. ASSUME NEW i \in 1..len PROVE q[Len(s) + i] = byte
  <2> DEFINE k == Len(s) + i
  <2>1. k \in 1..(Len(s) + len) /\ ~(k <= Len(s)) /\ k - Len(s) = i
    BY <1>2
  <2> HIDE DEF k
  <2>2. q[k] = t[i]
    BY <1>1, <1>3, <2>1
  <2> QED
    BY <1>1, <2>2 DEF k
<1>6. q \in ByteSeqs /\ Len(q) = Len(s) + len
  BY <1>1, <1>3 DEF S, ByteSeqs
<1> QED
  BY <1>4, <1>5, <1>6 DEF q, t

\* The bytes go after those that were written, inside the reservation.
LEMMA WriteDataPost ==
  ASSUME NEW m, Sound(m), NEW byte \in 0..MaxWrites, NEW len \in Nat,
         m.w.written + len <= m.w.reserved
  PROVE  \A o \in WriteData(m, byte, len) :
           /\ \/ o.m = m /\ o.res \in {"panic", "sigbus"} /\ ~Exact(m)
              \/ /\ Sound(o.m) /\ o.res = "ok" /\ o.m.faults = m.faults
                 /\ o.m.w.written = m.w.written + len
                 /\ o.m.w.reserved = m.w.reserved
                 /\ Exact(m) => Exact(o.m)
<1> TAKE o \in WriteData(m, byte, len)
<1> DEFINE end == m.w.written + len
           store(s) == [i \in DOMAIN s |-> IF i \in (m.w.written + 1)..end THEN byte ELSE s[i]]
           f == store(m.file)
           v == [m.w EXCEPT !.written = end]
           q == m.want \o [i \in 1..len |-> byte]
           x == [m EXCEPT !.file = store(@), !.w.written = end,
                          !.want = @ \o [i \in 1..len |-> byte]]
<1>1. /\ m \in Machines /\ m.w \in WriterType /\ m.w.written \in Nat
      /\ m.w.reserved \in Nat /\ m.w.len \in Nat /\ end \in Nat
      /\ m.w.written = Len(m.want) /\ end <= m.w.reserved
  <2>1. m.w.written \in Nat /\ m.w.reserved \in Nat /\ m.w.len \in Nat
    BY WriterFields DEF Sound
  <2> QED
    BY <2>1 DEF Sound
<1>2. /\ m.file \in Seq(0..MaxWrites) /\ m.want \in Seq(0..MaxWrites)
      /\ Len(m.file) \in Nat /\ Len(m.want) \in Nat
      /\ DOMAIN m.file = 1..Len(m.file)
      /\ \A i \in 1..Len(m.file) : m.file[i] \in 0..MaxWrites
      /\ Len(m.want) <= Len(m.file)
      /\ \A i \in 1..Len(m.want) : m.file[i] = m.want[i]
  <2>1. m.file \in Seq(0..MaxWrites) /\ m.want \in Seq(0..MaxWrites)
    BY <1>1, MachineFields DEF ByteSeqs
  <2> QED
    BY <2>1, LenProperties, ElementOfSeq DEF Sound, Starts
<1>3. CASE end > m.w.len /\ o = [m |-> m, res |-> "panic"]
  BY <1>1, <1>3 DEF Exact
<1>4. CASE end > Len(m.file) /\ o = [m |-> m, res |-> "sigbus"]
  BY <1>1, <1>2, <1>4 DEF Exact
<1>5. CASE end <= Len(m.file) /\ o = Ok(x)
  <2>1. /\ f \in Seq(0..MaxWrites) /\ Len(f) = Len(m.file)
        /\ \A i \in 1..Len(m.file) :
             f[i] = IF i \in (m.w.written + 1)..end THEN byte ELSE m.file[i]
    <3>1. f = [i \in 1..Len(m.file) |->
                 IF i \in (m.w.written + 1)..end THEN byte ELSE m.file[i]]
      BY <1>2
    <3>2. \A i \in 1..Len(m.file) :
            (IF i \in (m.w.written + 1)..end THEN byte ELSE m.file[i]) \in 0..MaxWrites
      BY <1>2
    <3> HIDE DEF f, end
    <3> QED
      BY <1>2, <3>1, <3>2
  <2>2. v \in WriterType /\ v.written = end /\ v.reserved = m.w.reserved /\ v.len = m.w.len
    BY <1>1 DEF WriterType
  <2>3. /\ q \in Seq(0..MaxWrites) /\ Len(q) = end
        /\ \A i \in 1..Len(m.want) : q[i] = m.want[i]
        /\ \A i \in 1..len : q[Len(m.want) + i] = byte
    <3>1. m.want \in ByteSeqs
      BY <1>2 DEF ByteSeqs
    <3>2. /\ q \in ByteSeqs /\ Len(q) = Len(m.want) + len
          /\ \A i \in 1..Len(m.want) : q[i] = m.want[i]
          /\ \A i \in 1..len : q[Len(m.want) + i] = byte
      BY <3>1, Appended
    <3> QED
      BY <1>1, <3>2 DEF ByteSeqs
  <2>4. x = [m EXCEPT !.file = f, !.w = v, !.want = q]
    BY <1>1, Zenon
  <2> HIDE DEF f, v, q, x, end
  <2>5. /\ x \in Machines /\ x.file = f /\ x.w = v /\ x.want = q /\ x.faults = m.faults
    BY <1>1, <2>1, <2>2, <2>3, <2>4 DEF Machines, ByteSeqs
  <2>6. Starts(q, f)
    <3>1. ASSUME NEW i \in 1..end PROVE f[i] = q[i]
      <4>1. CASE i <= Len(m.want)
        <5>1. i \in 1..Len(m.file) /\ ~(i \in (m.w.written + 1)..end)
          BY <1>1, <1>2, <1>5, <4>1
        <5> QED
          BY <1>2, <2>1, <2>3, <4>1, <5>1
      <4>2. CASE i > Len(m.want)
        <5> DEFINE k == i - Len(m.want)
        <5>1. /\ k \in 1..len /\ i = Len(m.want) + k
              /\ i \in 1..Len(m.file) /\ i \in (m.w.written + 1)..end
          BY <1>1, <1>2, <1>5, <4>2 DEF end
        <5> HIDE DEF k
        <5> QED
          BY <2>1, <2>3, <5>1
      <4> QED
        BY <1>1, <1>2, <4>1, <4>2
    <3> QED
      BY <1>5, <2>1, <2>3, <3>1 DEF Starts
  <2>7. Sound(x)
    BY <1>1, <2>2, <2>3, <2>5, <2>6 DEF Sound
  <2>8. o.m = x /\ o.res = "ok"
    BY <1>5 DEF Ok
  <2>9. Exact(m) => Exact(x)
    BY <2>1, <2>2, <2>5 DEF Exact
  <2> QED
    BY <2>2, <2>5, <2>7, <2>8, <2>9 DEF end
<1> QED
  BY <1>1, <1>2, <1>3, <1>4, <1>5 DEF WriteData

\* What is behind the bytes written is cut off.
LEMMA TruncatePost ==
  ASSUME NEW m, Sound(m)
  PROVE  \A o \in Truncate(m) :
           /\ Post(m, o) /\ o.res \in {"ok", "err", "panic"}
           /\ o.res = "ok" /\ Exact(m) =>
                Exact(o.m) /\ Len(o.m.file) = o.m.w.written
<1> TAKE o \in Truncate(m)
<1>1. /\ m.w.reserved \in Nat /\ m.w.written \in Nat /\ m.w.written <= m.w.reserved
  BY WriterFields DEF Sound
<1>2. CASE m.w.written >= m.w.reserved /\ o = Ok(m)
  <2>1. Exact(m) => Len(m.file) = m.w.written
    BY <1>1, <1>2 DEF Exact
  <2> QED
    BY <1>2, <2>1, ThenOk
<1>3. CASE o \in Then(Then(OpenFile(m), LAMBDA x : SetLen(x, m.w.written, "panic")),
                       LAMBDA x : Remap(SetReserved(x, m.w.written)))
  <2>1. PICK g \in Then(OpenFile(m), LAMBDA x : SetLen(x, m.w.written, "panic")) :
          o \in IF g.res = "ok" THEN Remap(SetReserved(g.m, m.w.written)) ELSE {g}
    BY <1>3 DEF Then
  <2>2. PICK a \in OpenFile(m) :
          g \in IF a.res = "ok" THEN SetLen(a.m, m.w.written, "panic") ELSE {a}
    BY DEF Then
  <2>3. Post(m, a) /\ a.res \in {"ok", "err"} /\ (a.res = "ok" => a.m = m)
    BY OpenFilePost
  <2>4. /\ Post(m, g) /\ g.res \in {"ok", "err", "panic"}
        /\ g.res = "ok" => Len(g.m.file) = m.w.written /\ g.m.w = m.w
    <3>1. CASE a.res = "ok"
      <4>1. g \in SetLen(m, m.w.written, "panic")
        BY <2>2, <2>3, <3>1
      <4> QED
        BY <1>1, <4>1, SetLenPost
    <3>2. CASE a.res # "ok"
      BY <2>2, <2>3, <3>2
    <3> QED
      BY <3>1, <3>2
  <2>5. CASE g.res # "ok"
    BY <2>1, <2>4, <2>5
  <2>6. CASE g.res = "ok"
    <3> DEFINE x == SetReserved(g.m, m.w.written)
    <3>1. Sound(g.m) /\ g.m.w.written <= m.w.written
      BY <1>1, <2>4, <2>6 DEF Post
    <3>2. /\ Sound(x) /\ x.want = g.m.want /\ x.faults = g.m.faults /\ x.file = g.m.file
          /\ x.w.reserved = m.w.written /\ x.w.written = g.m.w.written
      BY <1>1, <3>1, Reserved
    <3> HIDE DEF x
    <3>3. o \in Remap(x)
      BY <2>1, <2>6 DEF x
    <3>4. /\ Post(x, o) /\ o.res \in {"ok", "err"}
          /\ o.res = "ok" =>
               /\ o.m.w.len = x.w.reserved /\ o.m.w.reserved = x.w.reserved
               /\ o.m.file = x.file
      BY <3>2, <3>3, RemapPost
    <3>5. Post(m, o)
      BY <2>4, <3>2, <3>4, PostTrans DEF Post
    <3>6. o.m.w.written = m.w.written
      BY <3>5 DEF Post, Sound
    <3> QED
      BY <2>4, <2>6, <3>2, <3>4, <3>5, <3>6 DEF Exact
  <2> QED
    BY <2>5, <2>6
<1> QED
  BY <1>2, <1>3 DEF Truncate

\* A call that answers Ok with everything cut off.
Closed(m, o) ==
  /\ Post(m, o) /\ o.res \in {"ok", "err", "panic"}
  /\ o.res = "ok" /\ Exact(m) => Exact(o.m) /\ Len(o.m.file) = o.m.w.written

\* Two more calls that leave the machine as it is do not change that.
LEMMA ClosedThenTry ==
  ASSUME NEW m, Sound(m), NEW outcomes, \A a \in outcomes : Closed(m, a)
  PROVE  \A o \in Then(outcomes, LAMBDA x : Try(x, x, "err")) : Closed(m, o)
<1> TAKE o \in Then(outcomes, LAMBDA x : Try(x, x, "err"))
<1>1. PICK a \in outcomes : o \in IF a.res = "ok" THEN Try(a.m, a.m, "err") ELSE {a}
  BY DEF Then
<1>2. Closed(m, a)
  OBVIOUS
<1>3. CASE a.res # "ok"
  BY <1>1, <1>2, <1>3
<1>4. CASE a.res = "ok"
  <2>1. Sound(a.m) /\ o \in Try(a.m, a.m, "err")
    BY <1>1, <1>2, <1>4 DEF Closed, Post
  <2>2. Post(a.m, o) /\ o.res \in {"ok", "err"} /\ (o.res = "ok" => o.m = a.m)
    BY <2>1, TryPost
  <2>3. Post(m, o)
    BY <1>2, <2>2, PostTrans DEF Closed
  <2> QED
    BY <1>2, <1>4, <2>2, <2>3 DEF Closed
<1> QED
  BY <1>3, <1>4

LEMMA FlushMapPost ==
  ASSUME NEW m, Sound(m)
  PROVE  \A o \in FlushMap(m) : Closed(m, o)
<1>1. \A a \in Truncate(m) : Closed(m, a)
  BY TruncatePost DEF Closed
<1> QED
  BY <1>1, ClosedThenTry DEF FlushMap

LEMMA GetMapPost ==
  ASSUME NEW m, Sound(m)
  PROVE  \A o \in GetMap(m) : Closed(m, o)
<1> TAKE o \in GetMap(m)
<1>1. PICK a \in FlushMap(m) :
        o \in IF a.res = "ok"
                THEN Then(OpenFile(a.m), LAMBDA y : Try(y, y, "err")) ELSE {a}
  BY DEF GetMap, Then
<1>2. Closed(m, a)
  BY FlushMapPost
<1>3. CASE a.res # "ok"
  BY <1>1, <1>2, <1>3
<1>4. CASE a.res = "ok"
  <2>1. PICK b \in OpenFile(a.m) : o \in IF b.res = "ok" THEN Try(b.m, b.m, "err") ELSE {b}
    BY <1>1, <1>4 DEF Then
  <2>2. Post(a.m, b) /\ b.res \in {"ok", "err"} /\ (b.res = "ok" => b.m = a.m)
    BY <1>2, OpenFilePost DEF Closed, Post
  <2>3. Post(a.m, o) /\ o.res \in {"ok", "err"} /\ (o.res = "ok" => o.m = a.m)
    <3>1. CASE b.res # "ok"
      BY <2>1, <2>2, <3>1
    <3>2. CASE b.res = "ok"
      <4>1. Sound(a.m) /\ o \in Try(a.m, a.m, "err")
        BY <1>2, <2>1, <2>2, <3>2 DEF Closed, Post
      <4> QED
        BY <4>1, TryPost
    <3> QED
      BY <3>1, <3>2
  <2>4. Post(m, o)
    BY <1>2, <2>3, PostTrans DEF Closed
  <2> QED
    BY <1>2, <1>4, <2>3, <2>4 DEF Closed
<1> QED
  BY <1>3, <1>4

LEMMA TryRecords ==
  ASSUME NEW m, NEW good, NEW res
  PROVE  \A o \in Try(m, good, res) : o = [m |-> o.m, res |-> o.res]
<1> TAKE o \in Try(m, good, res)
<1>1. o = Ok(good) \/ o = Outcome(m, res)
  BY DEF Try
<1> QED
  BY <1>1 DEF Ok, Outcome

LEMMA TruncateRecords ==
  ASSUME NEW m
  PROVE  \A o \in Truncate(m) : o = [m |-> o.m, res |-> o.res]
<1> TAKE o \in Truncate(m)
<1>1. CASE o = Ok(m)
  BY <1>1 DEF Ok
<1>2. CASE o \in Then(Then(OpenFile(m), LAMBDA x : SetLen(x, m.w.written, "panic")),
                       LAMBDA x : Remap(SetReserved(x, m.w.written)))
  <2>1. PICK g \in Then(OpenFile(m), LAMBDA x : SetLen(x, m.w.written, "panic")) :
          o \in IF g.res = "ok" THEN Remap(SetReserved(g.m, m.w.written)) ELSE {g}
    BY <1>2 DEF Then
  <2>2. PICK a \in OpenFile(m) :
          g \in IF a.res = "ok" THEN SetLen(a.m, m.w.written, "panic") ELSE {a}
    BY DEF Then
  <2>3. a = [m |-> a.m, res |-> a.res]
    BY TryRecords DEF OpenFile
  <2>4. g = [m |-> g.m, res |-> g.res]
    BY <2>2, <2>3, TryRecords DEF SetLen
  <2> QED
    BY <2>1, <2>4, TryRecords DEF Remap
<1> QED
  BY <1>1, <1>2 DEF Truncate

LEMMA DropWriterPost ==
  ASSUME NEW m, Sound(m)
  PROVE  \A o \in DropWriter(m) : Closed(m, o) /\ o.res \in {"ok", "panic"}
<1> TAKE o \in DropWriter(m)
<1>1. PICK a \in Truncate(m) : o = [a EXCEPT !.res = IF @ = "ok" THEN "ok" ELSE "panic"]
  BY DEF DropWriter
<1>2. Closed(m, a)
  BY TruncatePost DEF Closed
<1>3. a = [m |-> a.m, res |-> a.res]
  BY TruncateRecords
<1>4. o.m = a.m /\ o.res = IF a.res = "ok" THEN "ok" ELSE "panic"
  BY <1>1, <1>3
<1> QED
  BY <1>2, <1>4 DEF Closed, Post

\* What a call on a writer that stays may leave.
Kept(m, x) ==
  /\ Sound(x) /\ m.faults <= x.faults
  /\ Exact(m) /\ x.faults = m.faults => Exact(x)

LEMMA ClosedIsKept ==
  ASSUME NEW m, Sound(m), NEW o, Closed(m, o)
  PROVE  Kept(m, o.m)
<1>1. m.faults \in Nat /\ o.m.faults \in Nat
  BY MachineFields DEF Closed, Post, Sound
<1> QED
  BY <1>1 DEF Closed, Post, Kept

\* A reservation that was answered: there is room, and the file has it.
LEMMA ReserveForKept ==
  ASSUME NEW m, Sound(m), NEW len \in Nat
  PROVE  \A o \in ReserveFor(m, len) :
           /\ Kept(m, o.m) /\ o.res \in {"ok", "err"}
           /\ o.res = "ok" =>
                /\ o.m.w.written + len <= o.m.w.reserved
                /\ Exact(m) => Exact(o.m)
<1> TAKE o \in ReserveFor(m, len)
<1>1. /\ Post(m, o) /\ o.res \in {"ok", "err"}
      /\ o.res = "ok" =>
           /\ o.m.w.written + len <= o.m.w.reserved
           /\ o.m = m \/ Exact(o.m)
  BY ReserveForPost
<1>2. m.faults \in Nat /\ o.m.faults \in Nat
  BY <1>1, MachineFields DEF Post, Sound
<1> QED
  BY <1>1, <1>2 DEF Post, Kept

\* The bytes of one buffer, in the room that is left for them.
LEMMA WriteDataKept ==
  ASSUME NEW m, NEW x, Kept(m, x), m.faults \in Nat,
         NEW byte \in 0..MaxWrites, NEW len \in Nat, x.w.written + len <= x.w.reserved
  PROVE  \A o \in WriteData(x, byte, len) :
           /\ Kept(m, o.m)
           /\ o.res = "ok" => /\ o.m.w.written = x.w.written + len
                              /\ o.m.w.reserved = x.w.reserved
<1> TAKE o \in WriteData(x, byte, len)
<1>1. Sound(x)
  BY DEF Kept
<1>2. \/ o.m = x /\ o.res \in {"panic", "sigbus"} /\ ~Exact(x)
      \/ /\ Sound(o.m) /\ o.res = "ok" /\ o.m.faults = x.faults
         /\ o.m.w.written = x.w.written + len
         /\ o.m.w.reserved = x.w.reserved
         /\ Exact(x) => Exact(o.m)
  BY <1>1, WriteDataPost
<1> QED
  BY <1>2 DEF Kept

LEMMA WriteKept ==
  ASSUME NEW m, Sound(m), NEW byte \in 0..MaxWrites, NEW len \in Nat
  PROVE  \A o \in Then(ReserveFor(m, len), LAMBDA x : WriteData(x, byte, len)) : Kept(m, o.m)
<1> TAKE o \in Then(ReserveFor(m, len), LAMBDA x : WriteData(x, byte, len))
<1>1. PICK a \in ReserveFor(m, len) :
        o \in IF a.res = "ok" THEN WriteData(a.m, byte, len) ELSE {a}
  BY DEF Then
<1>2. /\ Kept(m, a.m)
      /\ a.res = "ok" => a.m.w.written + len <= a.m.w.reserved
  BY ReserveForKept
<1>3. m.faults \in Nat
  BY MachineFields DEF Sound
<1>4. CASE a.res = "ok"
  BY <1>1, <1>2, <1>3, <1>4, WriteDataKept
<1>5. CASE a.res # "ok"
  BY <1>1, <1>2, <1>5
<1> QED
  BY <1>4, <1>5

LEMMA WriteVectoredKept ==
  ASSUME NEW m, Sound(m), NEW byte \in 0..MaxWrites, NEW len1 \in Nat, NEW len2 \in Nat
  PROVE  \A o \in Then(Then(ReserveFor(m, len1 + len2), LAMBDA x : WriteData(x, byte, len1)),
                       LAMBDA x : WriteData(x, byte, len2)) : Kept(m, o.m)
<1> TAKE o \in Then(Then(ReserveFor(m, len1 + len2), LAMBDA x : WriteData(x, byte, len1)),
                    LAMBDA x : WriteData(x, byte, len2))
<1>1. PICK b \in Then(ReserveFor(m, len1 + len2), LAMBDA x : WriteData(x, byte, len1)) :
        o \in IF b.res = "ok" THEN WriteData(b.m, byte, len2) ELSE {b}
  BY DEF Then
<1>2. PICK a \in ReserveFor(m, len1 + len2) :
        b \in IF a.res = "ok" THEN WriteData(a.m, byte, len1) ELSE {a}
  BY DEF Then
<1>3. /\ Kept(m, a.m)
      /\ a.res = "ok" => a.m.w.written + (len1 + len2) <= a.m.w.reserved
  BY ReserveForKept
<1>4. m.faults \in Nat
  BY MachineFields DEF Sound
<1>5. CASE a.res # "ok"
  BY <1>1, <1>2, <1>3, <1>5
<1>6. CASE a.res = "ok"
  <2>1. a.m.w.written \in Nat /\ a.m.w.reserved \in Nat
    BY <1>3, WriterFields DEF Kept, Sound
  <2>2. a.m.w.written + len1 <= a.m.w.reserved
    BY <1>3, <1>6, <2>1
  <2>3. /\ Kept(m, b.m)
        /\ b.res = "ok" => /\ b.m.w.written = a.m.w.written + len1
                           /\ b.m.w.reserved = a.m.w.reserved
    BY <1>2, <1>3, <1>4, <1>6, <2>2, WriteDataKept
  <2>4. CASE b.res # "ok"
    BY <1>1, <2>3, <2>4
  <2>5. CASE b.res = "ok"
    <3>1. b.m.w.written + len2 <= b.m.w.reserved
      BY <1>3, <1>6, <2>1, <2>3, <2>5
    <3> QED
      BY <1>1, <1>4, <2>3, <2>5, <3>1, WriteDataKept
  <2> QED
    BY <2>4, <2>5
<1> QED
  BY <1>5, <1>6

\* A machine that is as long as its file writes what it reserves.
LEMMA WriteAnswers ==
  ASSUME NEW x, Sound(x), Exact(x), NEW byte \in Nat, NEW len \in Nat
  PROVE  \A o \in Then(ReserveFor(x, len), LAMBDA m : WriteData(m, byte, len)) :
           o.res \in {"ok", "err"}
<1> TAKE o \in Then(ReserveFor(x, len), LAMBDA m : WriteData(m, byte, len))
<1>1. PICK a \in ReserveFor(x, len) :
        o \in IF a.res = "ok" THEN WriteData(a.m, byte, len) ELSE {a}
  BY DEF Then
<1>2. /\ a.res \in {"ok", "err"}
      /\ a.res = "ok" => a.m.w.written + len <= a.m.w.reserved /\ Exact(a.m) /\ Kept(x, a.m)
  BY ReserveForKept
<1>3. CASE a.res # "ok"
  BY <1>1, <1>2, <1>3
<1>4. CASE a.res = "ok"
  <2>1. a.m.w.written \in Nat /\ a.m.w.reserved \in Nat
    BY <1>2, <1>4, WriterFields DEF Kept, Sound
  <2>2. ~(a.m.w.written + len > a.m.w.len) /\ ~(a.m.w.written + len > Len(a.m.file))
    BY <1>2, <1>4, <2>1 DEF Exact
  <2> DEFINE end == a.m.w.written + len
             store(s) == [i \in DOMAIN s |-> IF i \in (a.m.w.written + 1)..end THEN byte ELSE s[i]]
             z == [a.m EXCEPT !.file = store(@), !.w.written = end,
                              !.want = @ \o [i \in 1..len |-> byte]]
  <2>3. o = Ok(z)
    BY <1>1, <1>4, <2>2, Zenon DEF WriteData
  <2> HIDE DEF z
  <2> QED
    BY <2>3 DEF Ok
<1> QED
  BY <1>3, <1>4

-----------------------------------------------------------------------------
(***************************************************************************)
(* A machine without a writer, and what makes one.                         *)
(***************************************************************************)
Bare(m) == m \in Machines /\ m.w = NoWriter /\ Starts(m.want, m.file)

LEMMA BareTry ==
  ASSUME NEW m, Bare(m), NEW good, NEW res
  PROVE  \A o \in Try(m, good, res) :
           \/ o.m = good /\ o.res = "ok"
           \/ o.m = Bump(m) /\ o.res = res /\ m.faults < MaxFaults /\ Bare(o.m)
<1> TAKE o \in Try(m, good, res)
<1>1. m \in Machines
  BY DEF Bare
<1>2. CASE o = Ok(good)
  BY <1>2 DEF Ok
<1>3. CASE o = [m |-> Bump(m), res |-> res] /\ m.faults < MaxFaults
  <2>1. o.m = Bump(m) /\ o.res = res
    BY <1>3
  <2>2. Bare(Bump(m))
    BY <1>1, <1>3, Bumped DEF Bare
  <2> QED
    BY <1>3, <2>1, <2>2
<1> QED
  BY <1>1, <1>2, <1>3, TryOutcomes

LEMMA NewArcPost ==
  ASSUME NEW m, Bare(m)
  PROVE  \A o \in NewArc(m) :
           \/ o.m = m /\ o.res = "ok"
           \/ o.m = Bump(m) /\ o.res = "err" /\ m.faults < MaxFaults
<1> TAKE o \in NewArc(m)
<1>1. PICK a \in OpenFile(m) : o \in IF a.res = "ok" THEN Try(a.m, a.m, "err") ELSE {a}
  BY DEF NewArc, Then
<1>2. \/ a.m = m /\ a.res = "ok"
      \/ a.m = Bump(m) /\ a.res = "err" /\ m.faults < MaxFaults
  BY BareTry DEF OpenFile
<1>3. CASE a.res = "ok"
  <2>1. o \in Try(m, m, "err")
    BY <1>1, <1>2, <1>3
  <2> QED
    BY <2>1, BareTry
<1>4. CASE a.res # "ok"
  BY <1>1, <1>2, <1>4
<1> QED
  BY <1>3, <1>4

LEMMA NewWriterIs ==
  ASSUME NEW m \in Machines, NEW n \in Nat
  PROVE  LET x == NewWriter(m, n) IN
         /\ Sound(x) /\ x.file = m.file /\ x.faults = m.faults
         /\ n = Len(m.file) => Exact(x)
<1> DEFINE v == [len |-> n, written |-> 0, reserved |-> n, sparse |-> TRUE]
           x == [m EXCEPT !.w = v, !.want = <<>>]
<1>1. v \in WriterType /\ v.len = n /\ v.written = 0 /\ v.reserved = n
  BY DEF WriterType
<1>2. <<>> \in ByteSeqs /\ Len(<<>>) = 0
  BY DEF ByteSeqs
<1> HIDE DEF v
<1>3. /\ x \in Machines /\ x.file = m.file /\ x.faults = m.faults
      /\ x.w = v /\ x.want = <<>>
  BY <1>1, <1>2 DEF Machines
<1> HIDE DEF x
<1>4. Starts(<<>>, m.file)
  BY <1>2, MachineFields DEF Starts
<1>5. Sound(x)
  BY <1>1, <1>2, <1>3, <1>4 DEF Sound
<1>6. n = Len(m.file) => Exact(x)
  BY <1>1, <1>3 DEF Exact
<1> QED
  BY <1>3, <1>5, <1>6 DEF NewWriter, v, x

\* A writer as the code makes it, exact when `exact`, or what was there before.
Made(o, exact) ==
  /\ o.res \in {"ok", "err"}
  /\ o.res = "ok" => Sound(o.m) /\ (exact => Exact(o.m))
  /\ o.res # "ok" => Bare(o.m)

LEMMA MadeOver ==
  ASSUME NEW m, Bare(m), NEW n \in Nat
  PROVE  \A o \in Try(m, NewWriter(m, n), "err") : Made(o, n = Len(m.file))
<1> TAKE o \in Try(m, NewWriter(m, n), "err")
<1> DEFINE x == NewWriter(m, n)
<1>1. Sound(x) /\ (n = Len(m.file) => Exact(x))
  BY NewWriterIs DEF Bare
<1> HIDE DEF x
<1>2. \/ o.m = x /\ o.res = "ok"
      \/ o.res = "err" /\ Bare(o.m)
  BY BareTry DEF x
<1> QED
  BY <1>1, <1>2 DEF Made

LEMMA BareResized ==
  ASSUME NEW m, Bare(m), m.file = <<>>
  PROVE  Bare([m EXCEPT !.file = Resize(@, 1)])
<1> DEFINE f == Resize(m.file, 1)
           x == [m EXCEPT !.file = f]
<1>1. m \in Machines /\ m.w = NoWriter /\ Starts(m.want, m.file)
  BY DEF Bare
<1>2. 0 \in 0..MaxWrites
  BY MmapAssumption
<1>3. f = [i \in 1..1 |-> 0]
  <2>1. Len(m.file) = 0
    OBVIOUS
  <2>2. \A i \in 1..1 : ~(i <= Len(m.file))
    BY <2>1
  <2> QED
    BY <2>2 DEF Resize
<1> HIDE DEF f
<1>4. f \in ByteSeqs /\ Len(f) = 1
  BY <1>2, <1>3 DEF ByteSeqs
<1>5. x \in Machines /\ x.w = NoWriter /\ x.want = m.want /\ x.file = f
  BY <1>1, <1>4 DEF Machines
<1> HIDE DEF x
<1>6. Starts(m.want, f)
  <2>1. Len(m.want) \in Nat /\ Len(m.want) <= 0
    BY <1>1, MachineFields DEF Starts
  <2> QED
    BY <1>4, <2>1 DEF Starts
<1>7. Bare(x)
  BY <1>1, <1>5, <1>6 DEF Bare
<1> QED
  BY <1>7 DEF x, f

LEMMA NoAdviseMakes ==
  ASSUME NEW m, Bare(m)
  PROVE  \A o \in NoAdvise(m) : Made(o, TRUE)
<1> TAKE o \in NoAdvise(m)
<1>1. PICK b \in Then(OpenFile(m), LAMBDA x : IF x.file = <<>> THEN SetLen(x, 1, "err") ELSE {Ok(x)}) :
        o \in IF b.res = "ok" THEN Try(b.m, NewWriter(b.m, Len(b.m.file)), "err") ELSE {b}
  BY DEF NoAdvise, Then
<1>2. PICK a \in OpenFile(m) :
        b \in IF a.res = "ok"
                THEN IF a.m.file = <<>> THEN SetLen(a.m, 1, "err") ELSE {Ok(a.m)}
                ELSE {a}
  BY DEF Then
<1>3. \/ a.m = m /\ a.res = "ok"
      \/ a.res = "err" /\ Bare(a.m)
  BY BareTry DEF OpenFile
<1>4. Bare(b.m) /\ b.res \in {"ok", "err"}
  <2>1. CASE a.res # "ok"
    BY <1>2, <1>3, <2>1
  <2>2. CASE a.res = "ok" /\ m.file # <<>>
    <3>1. b = Ok(m)
      BY <1>2, <1>3, <2>2
    <3>2. b.m = m /\ b.res = "ok"
      BY <3>1 DEF Ok
    <3> QED
      BY <3>2
  <2>3. CASE a.res = "ok" /\ m.file = <<>>
    <3> DEFINE x == [m EXCEPT !.file = Resize(@, 1)]
    <3>1. Bare(x)
      BY <2>3, BareResized
    <3>2. b \in Try(m, x, "err")
      BY <1>2, <1>3, <2>3 DEF SetLen
    <3> HIDE DEF x
    <3>3. \/ b.m = x /\ b.res = "ok"
          \/ b.res = "err" /\ Bare(b.m)
      BY <3>2, BareTry
    <3> QED
      BY <3>1, <3>3
  <2> QED
    BY <2>1, <2>2, <2>3
<1>5. CASE b.res # "ok"
  BY <1>1, <1>4, <1>5 DEF Made
<1>6. CASE b.res = "ok"
  <2>1. Len(b.m.file) \in Nat
    BY <1>4, MachineFields DEF Bare
  <2>2. Made(o, Len(b.m.file) = Len(b.m.file))
    BY <1>1, <1>4, <1>6, <2>1, MadeOver
  <2> QED
    BY <2>2 DEF Made
<1> QED
  BY <1>5, <1>6

-----------------------------------------------------------------------------
(***************************************************************************)
(* Mmap: the inductive invariant.                                          *)
(***************************************************************************)
\* The writer's machine is sound, and exact until something failed.
WriterInv == HasWriter => Sound(Machine) /\ (~torn => Exact(Machine))

\* The slot and the guards: whoever holds the map holds it alone.
SlotInv ==
  /\ HasWriter => readers = 0
  /\ open /\ mmap # "Read" => readers = 0
  /\ open /\ guard => mmap = "Write"
  /\ ~open => mmap = "Invalid"

\* The map in the slot is the whole file, as a reader's is.
PaddingInv ==
  ~HasWriter /\ ~torn =>
    file = want /\ (readers > 0 \/ mmap = "Read" => rlen = Len(file))

MmapInv == TypeOK /\ Starts(want, file) /\ WriterInv /\ SlotInv /\ PaddingInv

LEMMA MachineIs ==
  ASSUME TypeOK
  PROVE  /\ Machine \in Machines
         /\ Machine.file = file /\ Machine.w = writer /\ Machine.want = want
         /\ Machine.faults = faults /\ faults \in Nat
         /\ faults \in 0..MaxFaults /\ MaxFaults \in Nat
BY MmapAssumption DEF TypeOK, Machine, Machines, ByteSeqs, WriterType

LEMMA MachineNow ==
  ASSUME MmapInv
  PROVE  /\ HasWriter => Sound(Machine) /\ writer \in WriterType
         /\ ~HasWriter => Bare(Machine)
         /\ ~torn /\ HasWriter => Exact(Machine)
<1>1. Machine \in Machines /\ Machine.w = writer /\ Machine.want = want /\ Machine.file = file
  BY MachineIs DEF MmapInv
<1>2. HasWriter => Sound(Machine) /\ (~torn => Exact(Machine))
  BY DEF MmapInv, WriterInv
<1>3. HasWriter => writer \in WriterType
  BY <1>1, <1>2 DEF Sound
<1>4. ~HasWriter => Bare(Machine)
  BY <1>1 DEF MmapInv, Bare, HasWriter
<1> QED
  BY <1>2, <1>3, <1>4

LEMMA KeepIs ==
  ASSUME NEW x \in Machines, Keep(x)
  PROVE  /\ Machine' = x
         /\ file' = x.file /\ writer' = x.w /\ want' = x.want /\ faults' = x.faults
         /\ torn' = (torn \/ x.faults > faults)
BY MachineFields DEF Machine, Keep

LEMMA GoneIs ==
  ASSUME NEW x \in Machines
  PROVE  /\ Gone(x).file = x.file /\ Gone(x).w = NoWriter /\ Gone(x).want = x.want
         /\ Gone(x).faults = x.faults /\ Gone(x) \in Machines
BY DEF Machines, Gone

\* A guard's call.
LEMMA StaysWriter ==
  ASSUME MmapInv, HasWriter, NEW x, Kept(Machine, x), Keep(x),
         UNCHANGED <<open, mmap, poisoned, rlen, readers, guard>>, writes' \in 0..MaxWrites
  PROVE  MmapInv'
<1>1. Machine \in Machines /\ Machine.faults = faults /\ faults \in Nat /\ Sound(Machine)
  BY MachineIs, MachineNow DEF MmapInv
<1>2. Sound(x) /\ x \in Machines /\ x.w \in WriterType /\ Starts(x.want, x.file)
      /\ faults <= x.faults /\ x.faults \in 0..MaxFaults /\ x.faults \in Nat
      /\ x.file \in ByteSeqs /\ x.want \in ByteSeqs
  BY <1>1, MachineFields DEF Kept, Sound
<1>3. /\ Machine' = x
      /\ file' = x.file /\ writer' = x.w /\ want' = x.want /\ faults' = x.faults
      /\ torn' = (torn \/ x.faults > faults)
  BY <1>2, KeepIs
<1>4. HasWriter'
  BY <1>2, <1>3, WriterIsNot DEF HasWriter
<1>5. torn' \in BOOLEAN
  BY <1>3, Zenon
<1>6. TypeOK'
  BY <1>2, <1>3, <1>4, <1>5 DEF MmapInv, TypeOK, ByteSeqs, WriterType
<1>7. ASSUME ~torn' PROVE Exact(x)
  <2>1. ~torn /\ ~(x.faults > faults)
    BY <1>3, <1>7
  <2>2. x.faults = faults /\ Exact(Machine)
    BY <1>1, <1>2, <2>1 DEF MmapInv, WriterInv
  <2> QED
    BY <1>1, <2>2 DEF Kept
<1>8. WriterInv'
  BY <1>2, <1>3, <1>7 DEF WriterInv
<1>9. SlotInv'
  BY DEF MmapInv, SlotInv
<1> QED
  BY <1>2, <1>3, <1>4, <1>6, <1>8, <1>9 DEF MmapInv, PaddingInv

\* The writer goes, after calls that left `o`.
LEMMA WriterGoes ==
  ASSUME MmapInv, HasWriter, NEW o, Post(Machine, o), Keep(Gone(o.m))
  PROVE  /\ file' \in ByteSeqs /\ want' \in ByteSeqs /\ faults' \in 0..MaxFaults
         /\ torn' \in BOOLEAN /\ ~HasWriter' /\ writer' = NoWriter
         /\ Starts(want', file')
         /\ o.m.faults > faults => torn'
         /\ ~torn' /\ o.res = "ok" /\ Closed(Machine, o) =>
              file' = want' /\ Len(file') = writer.written /\ Len(file') = o.m.w.len
<1>1. /\ Machine \in Machines /\ Machine.faults = faults /\ faults \in Nat /\ Sound(Machine)
      /\ Machine.w = writer /\ Machine.want = want
      /\ writer.written = Len(want)
  BY MachineIs, MachineNow DEF MmapInv, Sound
<1>2. /\ Sound(o.m) /\ o.m \in Machines /\ Starts(o.m.want, o.m.file)
      /\ o.m.want = want /\ faults <= o.m.faults
      /\ o.m.faults \in 0..MaxFaults /\ o.m.faults \in Nat
      /\ o.m.file \in ByteSeqs /\ o.m.want \in ByteSeqs
      /\ o.m.w.written = Len(o.m.want)
  BY <1>1, MachineFields DEF Post, Sound
<1>3. /\ file' = o.m.file /\ writer' = NoWriter /\ want' = o.m.want /\ faults' = o.m.faults
      /\ torn' = (torn \/ o.m.faults > faults)
  BY <1>2, GoneIs, KeepIs
<1>4. torn' \in BOOLEAN /\ (o.m.faults > faults => torn')
  BY <1>3, Zenon
<1>5. ASSUME ~torn', o.res = "ok", Closed(Machine, o)
      PROVE  file' = want' /\ Len(file') = writer.written /\ Len(file') = o.m.w.len
  <2>1. ~torn
    BY <1>3, <1>5
  <2>2. Exact(o.m) /\ Len(o.m.file) = o.m.w.written
    BY <1>5, <2>1 DEF Closed, MmapInv, WriterInv
  <2>3. Len(o.m.file) = Len(o.m.want) /\ Len(o.m.file) = writer.written
    BY <1>1, <1>2, <2>2
  <2>4. o.m.file = o.m.want
    <3>1. \A i \in 1..Len(o.m.file) : o.m.file[i] = o.m.want[i]
      BY <1>2, <2>3 DEF Starts
    <3> QED
      BY <1>2, <2>3, <3>1, SeqEqual DEF ByteSeqs
  <2>5. Len(o.m.file) = o.m.w.len
    BY <2>2 DEF Exact
  <2> QED
    BY <1>3, <2>3, <2>4, <2>5
<1> QED
  BY <1>2, <1>3, <1>4, <1>5 DEF HasWriter

LEMMA MmapInit == Init => MmapInv
<1> SUFFICES ASSUME Init PROVE MmapInv
  OBVIOUS
<1>1. PICK n \in 0..Garbage : file = [i \in 1..n |-> 0]
  BY DEF Init
<1>2. n \in Nat /\ 0 \in 0..MaxWrites /\ 0 \in 0..MaxFaults /\ 0 \in 0..MaxReaders
  BY MmapAssumption
<1>3. file \in Seq(0..MaxWrites) /\ Len(file) \in Nat
  BY <1>1, <1>2
<1>4. ~HasWriter
  BY DEF Init, HasWriter
<1>5. TypeOK
  BY <1>2, <1>3, <1>4 DEF Init, TypeOK, Slots, HasWriter
<1>6. Starts(want, file)
  BY <1>3 DEF Init, Starts
<1> QED
  BY <1>4, <1>5, <1>6 DEF Init, MmapInv, WriterInv, SlotInv, PaddingInv

LEMMA MmapOpen == MmapInv /\ Open => MmapInv'
<1> SUFFICES ASSUME MmapInv, Open PROVE MmapInv'
  OBVIOUS
<1>1. /\ ~open /\ readers = 0 /\ ~guard
      /\ UNCHANGED <<file, readers, guard, writer, writes>>
  BY DEF Open
<1>2. PICK o \in NewArc(Machine) :
        /\ faults' = o.m.faults
        /\ IF o.res = "ok"
             THEN /\ open' = TRUE /\ mmap' = "Read" /\ rlen' = Len(file)
                  /\ want' = file /\ torn' = FALSE /\ poisoned' = FALSE
             ELSE UNCHANGED <<open, mmap, rlen, want, torn, poisoned>>
  BY DEF Open
<1>3. ~HasWriter /\ mmap = "Invalid" /\ TypeOK
  BY <1>1 DEF MmapInv, SlotInv, TypeOK
<1>4. ~HasWriter'
  BY <1>1, <1>3 DEF HasWriter
<1>5. faults' \in 0..MaxFaults
  <2>1. Machine \in Machines /\ Machine.faults = faults /\ Bare(Machine)
    BY <1>3, MachineIs, MachineNow
  <2>2. \/ o.m = Machine
        \/ o.m = Bump(Machine) /\ Machine.faults < MaxFaults
    BY <2>1, NewArcPost
  <2>3. o.m.faults = faults \/ (o.m.faults = faults + 1 /\ faults < MaxFaults)
    BY <2>1, <2>2, Bumped
  <2>4. faults' = o.m.faults /\ faults \in 0..MaxFaults /\ MaxFaults \in Nat
    BY <1>2, <1>3, MachineIs
  <2> QED
    BY <2>3, <2>4
<1>6. Len(file) \in Nat
  BY <1>3, LenProperties DEF TypeOK
<1>7. CASE o.res = "ok"
  <2>1. TypeOK'
    BY <1>1, <1>2, <1>3, <1>4, <1>5, <1>6, <1>7 DEF TypeOK, Slots
  <2>2. Starts(want', file')
    BY <1>1, <1>2, <1>6, <1>7 DEF Starts
  <2> QED
    BY <1>1, <1>2, <1>4, <1>7, <2>1, <2>2 DEF MmapInv, WriterInv, SlotInv, PaddingInv
<1>8. CASE o.res # "ok"
  <2>1. TypeOK'
    BY <1>1, <1>2, <1>3, <1>4, <1>5, <1>8 DEF TypeOK
  <2> QED
    BY <1>1, <1>2, <1>3, <1>4, <1>8, <2>1 DEF MmapInv, WriterInv, SlotInv, PaddingInv
<1> QED
  BY <1>7, <1>8

LEMMA MmapReadShared == MmapInv /\ ReadShared => MmapInv'
<1> SUFFICES ASSUME MmapInv, ReadShared PROVE MmapInv'
  OBVIOUS
<1>1. /\ open /\ mmap = "Read" /\ readers < MaxReaders /\ readers' = readers + 1
      /\ UNCHANGED <<file, open, mmap, poisoned, rlen, guard, writer, want, torn, writes, faults>>
  BY DEF ReadShared, Locks
<1>2. ~HasWriter /\ readers \in Nat
  BY <1>1, MmapAssumption DEF MmapInv, SlotInv, TypeOK
<1>3. ~HasWriter'
  BY <1>1, <1>2 DEF HasWriter
<1>4. TypeOK'
  BY <1>1, <1>2, <1>3, MmapAssumption DEF MmapInv, TypeOK
<1> QED
  BY <1>1, <1>2, <1>3, <1>4 DEF MmapInv, WriterInv, SlotInv, PaddingInv

LEMMA MmapReadAnew == MmapInv /\ ReadAnew => MmapInv'
<1> SUFFICES ASSUME MmapInv, ReadAnew PROVE MmapInv'
  OBVIOUS
<1>1. open /\ mmap = "Invalid" /\ UNCHANGED <<open, poisoned, guard, writes>>
  BY DEF ReadAnew, Locks
<1>2. PICK o \in NewArc(Machine) :
        /\ Keep(o.m)
        /\ IF o.res = "ok"
             THEN mmap' = "Read" /\ rlen' = Len(file) /\ readers' = readers + 1
             ELSE UNCHANGED <<mmap, rlen, readers>>
  BY DEF ReadAnew
<1>3. ~HasWriter /\ ~guard /\ readers = 0 /\ TypeOK
  BY <1>1 DEF MmapInv, SlotInv, TypeOK
<1>4. Machine \in Machines /\ Machine.faults = faults /\ faults \in Nat /\ Bare(Machine)
      /\ Machine.file = file /\ Machine.w = writer /\ Machine.want = want
  BY <1>3, MachineIs, MachineNow
<1>5. \/ o.m = Machine /\ o.res = "ok"
      \/ o.m = Bump(Machine) /\ o.res = "err" /\ Machine.faults < MaxFaults
  BY <1>4, NewArcPost
<1>6. /\ o.m \in Machines /\ o.m.file = file /\ o.m.w = writer /\ o.m.want = want
      /\ \/ o.m.faults = faults /\ o.res = "ok"
         \/ o.m.faults = faults + 1 /\ faults < MaxFaults /\ o.res = "err"
  BY <1>4, <1>5, Bumped
<1>7. /\ file' = file /\ writer' = writer /\ want' = want /\ faults' = o.m.faults
      /\ torn' = (torn \/ o.m.faults > faults)
  BY <1>2, <1>6, KeepIs
<1>8. torn' \in BOOLEAN /\ (~torn' => ~torn /\ o.res = "ok")
  <2>1. torn' \in BOOLEAN
    BY <1>7, Zenon
  <2>2. ASSUME ~torn' PROVE ~torn /\ o.res = "ok"
    <3>1. ~torn /\ ~(o.m.faults > faults)
      BY <1>7, <2>2, Zenon
    <3>2. \/ o.m.faults = faults /\ o.res = "ok"
          \/ o.m.faults = faults + 1
      BY <1>6
    <3>3. faults \in Nat
      BY <1>4
    <3> QED
      BY <3>1, <3>2, <3>3
  <2> QED
    BY <2>1, <2>2
<1>9. ~HasWriter'
  BY <1>3, <1>7 DEF HasWriter
<1>10. Len(file) \in Nat /\ 1 \in 0..MaxReaders
  BY <1>3, LenProperties, MmapAssumption DEF TypeOK
<1>11. faults' \in 0..MaxFaults
  <2>1. faults' = faults \/ (faults' = faults + 1 /\ faults < MaxFaults)
    BY <1>6, <1>7
  <2>2. faults \in 0..MaxFaults /\ MaxFaults \in Nat
    BY <1>3, MachineIs
  <2> QED
    BY <2>1, <2>2
<1>12. CASE o.res = "ok"
  <2>1. TypeOK'
    BY <1>1, <1>2, <1>3, <1>7, <1>8, <1>9, <1>10, <1>11, <1>12 DEF TypeOK, Slots
  <2> QED
    BY <1>1, <1>2, <1>3, <1>7, <1>8, <1>9, <1>12, <2>1
    DEF MmapInv, WriterInv, SlotInv, PaddingInv
<1>13. CASE o.res # "ok"
  <2>1. TypeOK'
    BY <1>1, <1>2, <1>3, <1>7, <1>8, <1>9, <1>11, <1>13 DEF TypeOK
  <2> QED
    BY <1>1, <1>2, <1>3, <1>7, <1>8, <1>9, <1>13, <2>1
    DEF MmapInv, WriterInv, SlotInv, PaddingInv
<1> QED
  BY <1>12, <1>13

LEMMA MmapWriteAgain == MmapInv /\ WriteAgain => MmapInv'
<1> SUFFICES ASSUME MmapInv, WriteAgain PROVE MmapInv'
  OBVIOUS
<1>1. /\ open /\ mmap = "Write" /\ guard' = TRUE
      /\ UNCHANGED <<file, open, mmap, poisoned, rlen, readers, writer, want, torn, writes, faults>>
  BY DEF WriteAgain, Locks
<1>2. HasWriter /\ HasWriter' /\ Machine' = Machine
  BY <1>1 DEF MmapInv, TypeOK, HasWriter, Machine
<1>3. TypeOK'
  BY <1>1, <1>2 DEF MmapInv, TypeOK
<1> QED
  BY <1>1, <1>2, <1>3 DEF MmapInv, WriterInv, SlotInv, PaddingInv

\* Whatever makes the writer, it has the map to itself.
LEMMA MmapNewWriter ==
  ASSUME MmapInv, open, ~guard, readers = 0, UNCHANGED <<open, writes>>, NEW outcomes,
         NewWriterFrom(outcomes),
         \A o \in outcomes : Made(o, ~torn \/ rlen = 0)
  PROVE  MmapInv'
<1>1. PICK o \in outcomes :
        /\ file' = o.m.file /\ writer' = o.m.w /\ want' = o.m.want /\ faults' = o.m.faults
        /\ torn' = (o.res # "ok" \/ (torn /\ rlen > 0))
        /\ mmap' = IF o.res = "ok" THEN "Write" ELSE "Invalid"
        /\ guard' = (o.res = "ok")
  BY DEF NewWriterFrom
<1>2. rlen' = 0 /\ poisoned' = poisoned /\ readers' = 0 /\ open' /\ writes' = writes
  BY DEF NewWriterFrom
<1>3. Made(o, ~torn \/ rlen = 0)
  OBVIOUS
<1>4. /\ torn' \in BOOLEAN /\ guard' \in BOOLEAN
      /\ o.res = "ok" => guard'
      /\ o.res # "ok" => ~guard' /\ torn'
      /\ ~torn' => ~torn \/ ~(rlen > 0)
  BY <1>1, Zenon
<1>5. rlen \in Nat /\ poisoned \in BOOLEAN /\ writes \in 0..MaxWrites /\ 0 \in 0..MaxReaders
  BY MmapAssumption DEF MmapInv, TypeOK
<1>6. CASE o.res = "ok"
  <2>1. Sound(o.m) /\ (~torn' => Exact(o.m))
    BY <1>3, <1>4, <1>5, <1>6 DEF Made
  <2>2. /\ o.m \in Machines /\ o.m.w \in WriterType /\ Starts(o.m.want, o.m.file)
        /\ o.m.file \in ByteSeqs /\ o.m.want \in ByteSeqs /\ o.m.faults \in 0..MaxFaults
    BY <2>1, MachineFields DEF Sound
  <2>3. HasWriter' /\ Machine' = o.m
    BY <1>1, <2>2, MachineFields, WriterIsNot DEF HasWriter, Machine
  <2>4. TypeOK'
    BY <1>1, <1>2, <1>4, <1>5, <1>6, <2>2, <2>3 DEF MmapInv, TypeOK, Slots, ByteSeqs, WriterType
  <2> QED
    BY <1>1, <1>2, <1>6, <2>1, <2>2, <2>3, <2>4 DEF MmapInv, WriterInv, SlotInv, PaddingInv
<1>7. CASE o.res # "ok"
  <2>1. /\ o.m \in Machines /\ o.m.w = NoWriter /\ Starts(o.m.want, o.m.file)
        /\ o.m.file \in ByteSeqs /\ o.m.want \in ByteSeqs /\ o.m.faults \in 0..MaxFaults
    BY <1>3, <1>7, MachineFields DEF Made, Bare
  <2>2. ~HasWriter'
    BY <1>1, <2>1 DEF HasWriter
  <2>3. TypeOK'
    BY <1>1, <1>2, <1>4, <1>5, <1>7, <2>1, <2>2 DEF MmapInv, TypeOK, Slots, ByteSeqs
  <2> QED
    BY <1>1, <1>2, <1>4, <1>7, <2>1, <2>2, <2>3 DEF MmapInv, WriterInv, SlotInv, PaddingInv
<1> QED
  BY <1>6, <1>7

\* The state once the writer is gone, for each way it may go.
LEMMA WriterGone ==
  ASSUME MmapInv, HasWriter, NEW o, Post(Machine, o), Keep(Gone(o.m)),
         (o.res = "ok" /\ Closed(Machine, o)) \/ o.m.faults > faults,
         open' \in BOOLEAN, poisoned' \in BOOLEAN, guard' = FALSE, writes' = writes,
         readers' \in 0..MaxReaders,
         \/ mmap' = "Invalid" /\ readers' = 0 /\ rlen' \in Nat
         \/ /\ o.res = "ok" /\ open' /\ mmap' = "Read"
            /\ rlen' = IF writer.written > 0 THEN o.m.w.len ELSE 0
  PROVE  MmapInv'
<1>1. /\ file' \in ByteSeqs /\ want' \in ByteSeqs /\ faults' \in 0..MaxFaults
      /\ torn' \in BOOLEAN /\ ~HasWriter' /\ writer' = NoWriter
      /\ Starts(want', file')
      /\ o.m.faults > faults => torn'
      /\ ~torn' /\ o.res = "ok" /\ Closed(Machine, o) =>
           file' = want' /\ Len(file') = writer.written /\ Len(file') = o.m.w.len
  BY WriterGoes
<1>2. o.m.w.len \in Nat /\ writer.written \in Nat
  BY MachineNow, WriterFields DEF Post, Sound
<1>3. rlen' \in Nat /\ mmap' \in {"Invalid", "Read"}
  BY <1>2
<1>4. writes' \in 0..MaxWrites
  BY DEF MmapInv, TypeOK
<1>5. TypeOK'
  BY <1>1, <1>3, <1>4 DEF TypeOK, Slots, ByteSeqs
<1>6. SlotInv'
  BY <1>1 DEF SlotInv
<1>7. ASSUME ~torn' PROVE file' = want' /\ (readers' > 0 \/ mmap' = "Read" => rlen' = Len(file'))
  <2>1. o.res = "ok" /\ Closed(Machine, o)
    BY <1>1, <1>7
  <2>2. file' = want' /\ Len(file') = writer.written /\ Len(file') = o.m.w.len
    BY <1>1, <1>7, <2>1
  <2>3. CASE mmap' = "Invalid" /\ readers' = 0
    BY <2>2, <2>3
  <2>4. CASE rlen' = IF writer.written > 0 THEN o.m.w.len ELSE 0
    BY <1>2, <2>2, <2>4
  <2> QED
    BY <2>3, <2>4
<1>8. PaddingInv'
  BY <1>7 DEF PaddingInv
<1> QED
  BY <1>1, <1>5, <1>6, <1>8 DEF MmapInv, WriterInv

LEMMA MmapReadFromWriter == MmapInv /\ ReadFromWriter => MmapInv'
<1> SUFFICES ASSUME MmapInv, ReadFromWriter PROVE MmapInv'
  OBVIOUS
<1> DEFINE used == writer.written > 0
<1>1. open /\ mmap = "Write" /\ ~guard /\ UNCHANGED <<open, writes, guard>>
  BY DEF ReadFromWriter, Locks
<1>2. PICK o \in IF used THEN GetMap(Machine) ELSE DropWriter(Machine) :
       CASE o.res = "ok" ->
              \E p \in IF used THEN Try(o.m, o.m, "err") ELSE {o} :
                /\ Keep(Gone(p.m))
                /\ mmap' = IF p.res = "ok" THEN "Read" ELSE "Invalid"
                /\ rlen' = IF p.res = "ok" /\ used THEN o.m.w.len ELSE 0
                /\ readers' = IF p.res = "ok" THEN readers + 1 ELSE readers
                /\ UNCHANGED poisoned
         [] o.res = "err" ->
              Keep(o.m) /\ UNCHANGED <<mmap, rlen, readers, poisoned>>
         [] o.res = "panic" ->
              \E p \in IF used THEN DropWriter(o.m) ELSE {Ok(o.m)} :
                /\ p.res = "ok"
                /\ Keep(Gone(p.m))
                /\ mmap' = "Invalid" /\ poisoned' = TRUE
                /\ UNCHANGED <<rlen, readers>>
  BY DEF ReadFromWriter
<1> HIDE DEF used
<1>3. /\ HasWriter /\ Sound(Machine) /\ Machine.faults = faults /\ faults \in Nat
      /\ readers = 0 /\ TypeOK /\ guard = FALSE
  BY <1>1, MachineNow, MachineIs DEF MmapInv, TypeOK, SlotInv
<1>4. Closed(Machine, o) /\ Post(Machine, o) /\ o.m.faults \in Nat
  <2>1. Closed(Machine, o)
    BY <1>2, <1>3, GetMapPost, DropWriterPost
  <2> QED
    BY <2>1, MachineFields DEF Closed, Post, Sound
<1>5. o.res \in {"ok", "err", "panic"}
  BY <1>4 DEF Closed
<1>6. CASE o.res = "ok"
  <2>1. PICK p \in IF used THEN Try(o.m, o.m, "err") ELSE {o} :
          /\ Keep(Gone(p.m))
          /\ mmap' = IF p.res = "ok" THEN "Read" ELSE "Invalid"
          /\ rlen' = IF p.res = "ok" /\ used THEN o.m.w.len ELSE 0
          /\ readers' = IF p.res = "ok" THEN readers + 1 ELSE readers
          /\ poisoned' = poisoned
    BY <1>2, <1>6
  <2>2. Post(o.m, p) /\ (p.res = "ok" => p.m = o.m)
    <3>1. CASE used
      <4>1. p \in Try(o.m, o.m, "err") /\ Sound(o.m)
        BY <1>4, <2>1, <3>1 DEF Post
      <4> QED
        BY <4>1, TryPost
    <3>2. CASE ~used
      BY <1>4, <1>6, <2>1, <3>2 DEF Post
    <3> QED
      BY <3>1, <3>2
  <2>3. Post(Machine, p)
    BY <1>3, <1>4, <2>2, PostTrans
  <2>4. p.res = "ok" => Closed(Machine, p)
    BY <1>4, <1>6, <2>2, <2>3 DEF Closed
  <2>5. p.res # "ok" => p.m.faults > faults
    BY <1>3, <1>4, <2>3, MachineFields DEF Post, Sound
  <2>6. readers' \in 0..MaxReaders /\ (p.res # "ok" => readers' = 0)
    <3>1. 1 \in 0..MaxReaders /\ 0 \in 0..MaxReaders
      BY MmapAssumption
    <3> QED
      BY <1>3, <2>1, <3>1
  <2>7. \/ mmap' = "Invalid" /\ readers' = 0 /\ rlen' \in Nat
        \/ /\ p.res = "ok" /\ open' /\ mmap' = "Read"
           /\ rlen' = IF writer.written > 0 THEN p.m.w.len ELSE 0
    BY <1>1, <2>1, <2>2, <2>6 DEF used
  <2>8. open' \in BOOLEAN /\ poisoned' \in BOOLEAN /\ guard' = FALSE /\ writes' = writes
    BY <1>1, <1>3, <2>1 DEF TypeOK
  <2>9. (p.res = "ok" /\ Closed(Machine, p)) \/ p.m.faults > faults
    BY <2>4, <2>5
  <2> QED
    BY <1>3, <2>1, <2>3, <2>6, <2>7, <2>8, <2>9, WriterGone
<1>7. CASE o.res = "err"
  <2>1. Keep(o.m) /\ UNCHANGED <<mmap, rlen, readers, poisoned>>
    BY <1>2, <1>7
  <2>2. writes' \in 0..MaxWrites
    BY <1>1, <1>3 DEF TypeOK
  <2>3. Kept(Machine, o.m)
    BY <1>3, <1>4, ClosedIsKept
  <2> QED
    BY <1>1, <1>3, <2>1, <2>2, <2>3, StaysWriter
<1>8. CASE o.res = "panic"
  <2>1. PICK p \in IF used THEN DropWriter(o.m) ELSE {Ok(o.m)} :
          /\ p.res = "ok"
          /\ Keep(Gone(p.m))
          /\ mmap' = "Invalid" /\ poisoned' = TRUE
          /\ UNCHANGED <<rlen, readers>>
    BY <1>2, <1>8
  <2>2. Post(o.m, p)
    <3>1. Sound(o.m)
      BY <1>4 DEF Post
    <3> QED
      BY <2>1, <3>1, DropWriterPost, ThenOk DEF Closed
  <2>3. Post(Machine, p)
    BY <1>3, <1>4, <2>2, PostTrans
  <2>4. p.m.faults > faults
    <3>1. faults < o.m.faults /\ o.m.faults <= p.m.faults
      BY <1>3, <1>4, <1>8, <2>2 DEF Post
    <3>2. p.m.faults \in Nat
      BY <2>3, MachineFields DEF Post, Sound
    <3> QED
      BY <1>3, <1>4, <3>1, <3>2
  <2>5. readers' = 0 /\ readers' \in 0..MaxReaders /\ rlen' \in Nat
    BY <1>3, <2>1 DEF TypeOK
  <2>6. open' \in BOOLEAN /\ poisoned' \in BOOLEAN /\ guard' = FALSE /\ writes' = writes
    BY <1>1, <1>3, <2>1 DEF TypeOK
  <2> QED
    BY <1>3, <2>1, <2>3, <2>4, <2>5, <2>6, WriterGone
<1> QED
  BY <1>5, <1>6, <1>7, <1>8

LEMMA MmapWriteFromReader == MmapInv /\ WriteFromReader => MmapInv'
<1> SUFFICES ASSUME MmapInv, WriteFromReader PROVE MmapInv'
  OBVIOUS
<1> DEFINE outcomes == IF rlen > 0 THEN FromArgs(Machine) ELSE NoAdvise(Machine)
<1>1. open /\ mmap = "Read" /\ readers = 0 /\ UNCHANGED <<open, writes>>
      /\ NewWriterFrom(outcomes)
  BY DEF WriteFromReader, Locks
<1>2. ~guard /\ ~HasWriter /\ Bare(Machine) /\ Machine.file = file /\ rlen \in Nat
  BY <1>1, MachineNow, MachineIs DEF MmapInv, SlotInv, TypeOK
<1>3. ASSUME NEW o \in outcomes PROVE Made(o, ~torn \/ rlen = 0)
  <2>1. CASE rlen > 0
    <3>1. Made(o, rlen = Len(file))
      BY <1>2, <1>3, <2>1, MadeOver DEF FromArgs
    <3>2. ~torn => rlen = Len(file)
      BY <1>1, <1>2 DEF MmapInv, PaddingInv
    <3> QED
      BY <1>2, <2>1, <3>1, <3>2 DEF Made
  <2>2. CASE ~(rlen > 0)
    <3>1. Made(o, TRUE)
      BY <1>2, <1>3, <2>2, NoAdviseMakes
    <3> QED
      BY <3>1 DEF Made
  <2> QED
    BY <2>1, <2>2
<1> HIDE DEF outcomes
<1> QED
  BY <1>1, <1>2, <1>3, MmapNewWriter

LEMMA MmapWriteAnew == MmapInv /\ WriteAnew => MmapInv'
<1> SUFFICES ASSUME MmapInv, WriteAnew PROVE MmapInv'
  OBVIOUS
<1> DEFINE outcomes == NoAdvise(Machine)
<1>1. open /\ mmap = "Invalid" /\ UNCHANGED <<open, writes>> /\ NewWriterFrom(outcomes)
  BY DEF WriteAnew, Locks
<1>2. ~guard /\ readers = 0 /\ ~HasWriter /\ Bare(Machine)
  BY <1>1, MachineNow DEF MmapInv, SlotInv, TypeOK
<1>3. ASSUME NEW o \in outcomes PROVE Made(o, ~torn \/ rlen = 0)
  <2>1. Made(o, TRUE)
    BY <1>2, <1>3, NoAdviseMakes
  <2> QED
    BY <2>1 DEF Made
<1> HIDE DEF outcomes
<1> QED
  BY <1>1, <1>2, <1>3, MmapNewWriter

\* A call of the guard, for a function whose outcomes all keep the machine.
LEMMA MmapGuardUses ==
  ASSUME MmapInv, guard, writes' \in 0..MaxWrites, NEW outcomes, GuardUses(outcomes),
         Sound(Machine) => \A o \in outcomes : Kept(Machine, o.m)
  PROVE  MmapInv'
<1>1. HasWriter /\ Sound(Machine)
  BY MachineNow DEF MmapInv, TypeOK
<1>2. PICK o \in outcomes : Keep(o.m)
  BY DEF GuardUses
<1>3. UNCHANGED <<open, mmap, poisoned, rlen, readers, guard>>
  BY DEF GuardUses
<1> QED
  BY <1>1, <1>2, <1>3, StaysWriter

LEMMA MmapWrite == ASSUME MmapInv, NEW len \in Nat, Write(len) PROVE MmapInv'
<1> DEFINE byte == writes'
           outcomes == Then(ReserveFor(Machine, len), LAMBDA x : WriteData(x, byte, len))
<1>1. guard /\ writes < MaxWrites /\ writes' = writes + 1 /\ GuardUses(outcomes)
  BY DEF Write
<1>2. byte \in 0..MaxWrites
  <2>1. writes \in 0..MaxWrites /\ MaxWrites \in Nat
    BY MmapAssumption DEF MmapInv, TypeOK
  <2> QED
    BY <1>1, <2>1
<1>3. Sound(Machine) => \A o \in outcomes : Kept(Machine, o.m)
  BY <1>2, WriteKept
<1> HIDE DEF outcomes
<1> QED
  BY <1>1, <1>2, <1>3, MmapGuardUses

LEMMA MmapWriteVectored ==
  ASSUME MmapInv, NEW len1 \in Nat, NEW len2 \in Nat, WriteVectored(len1, len2)
  PROVE  MmapInv'
<1> DEFINE byte == writes'
           outcomes == Then(Then(ReserveFor(Machine, len1 + len2),
                                 LAMBDA x : WriteData(x, byte, len1)),
                            LAMBDA x : WriteData(x, byte, len2))
<1>1. guard /\ writes < MaxWrites /\ writes' = writes + 1 /\ GuardUses(outcomes)
  BY DEF WriteVectored
<1>2. byte \in 0..MaxWrites
  <2>1. writes \in 0..MaxWrites /\ MaxWrites \in Nat
    BY MmapAssumption DEF MmapInv, TypeOK
  <2> QED
    BY <1>1, <2>1
<1>3. Sound(Machine) => \A o \in outcomes : Kept(Machine, o.m)
  BY <1>2, WriteVectoredKept
<1> HIDE DEF outcomes
<1> QED
  BY <1>1, <1>2, <1>3, MmapGuardUses

LEMMA MmapFlush == MmapInv /\ Flush => MmapInv'
<1> SUFFICES ASSUME MmapInv, Flush PROVE MmapInv'
  OBVIOUS
<1>1. guard /\ GuardUses(FlushMap(Machine)) /\ writes' = writes
  BY DEF Flush
<1>2. writes' \in 0..MaxWrites
  BY <1>1 DEF MmapInv, TypeOK
<1>3. Sound(Machine) => \A o \in FlushMap(Machine) : Kept(Machine, o.m)
  BY FlushMapPost, ClosedIsKept
<1> QED
  BY <1>1, <1>2, <1>3, MmapGuardUses

LEMMA MmapDropReadGuard == MmapInv /\ DropReadGuard => MmapInv'
<1> SUFFICES ASSUME MmapInv, DropReadGuard PROVE MmapInv'
  OBVIOUS
<1>1. /\ readers > 0 /\ readers' = readers - 1
      /\ UNCHANGED <<file, open, mmap, poisoned, rlen, guard, writer, want, torn, writes, faults>>
  BY DEF DropReadGuard
<1>2. readers \in 0..MaxReaders /\ MaxReaders \in Nat
  BY MmapAssumption DEF MmapInv, TypeOK
<1>3. readers' \in 0..MaxReaders /\ ~HasWriter /\ ~HasWriter'
  BY <1>1, <1>2 DEF MmapInv, SlotInv, HasWriter
<1>4. TypeOK'
  BY <1>1, <1>3 DEF MmapInv, TypeOK
<1> QED
  BY <1>1, <1>3, <1>4 DEF MmapInv, WriterInv, SlotInv, PaddingInv

\* Its Drop, whatever it runs into.
LEMMA MmapDropWriter ==
  ASSUME MmapInv, HasWriter, \E o \in DropWriter(Machine) : Keep(Gone(o.m)),
         open' \in BOOLEAN, guard' = FALSE, mmap' = "Invalid",
         UNCHANGED <<poisoned, rlen, readers, writes>>
  PROVE  MmapInv'
<1>1. PICK o \in DropWriter(Machine) : Keep(Gone(o.m))
  OBVIOUS
<1>2. /\ Sound(Machine) /\ Machine.faults = faults /\ faults \in Nat
      /\ readers = 0 /\ readers \in 0..MaxReaders
      /\ rlen \in Nat /\ poisoned \in BOOLEAN
  BY MachineNow, MachineIs DEF MmapInv, SlotInv, TypeOK
<1>3. Closed(Machine, o) /\ Post(Machine, o)
  BY <1>2, DropWriterPost DEF Closed
<1>4. (o.res = "ok" /\ Closed(Machine, o)) \/ o.m.faults > faults
  BY <1>2, <1>3, MachineFields DEF Post, Sound
<1> QED
  BY <1>1, <1>2, <1>3, <1>4, WriterGone

LEMMA MmapDropWriteGuard == MmapInv /\ DropWriteGuard => MmapInv'
<1> SUFFICES ASSUME MmapInv, DropWriteGuard PROVE MmapInv'
  OBVIOUS
<1>1. guard /\ guard' = FALSE /\ UNCHANGED <<open, mmap, poisoned, rlen, readers, writes>>
  BY DEF DropWriteGuard
<1>2. HasWriter /\ TypeOK
  BY <1>1 DEF MmapInv, TypeOK
<1>3. CASE open
  <2>1. UNCHANGED <<file, writer, want, torn, faults>> /\ mmap = "Write"
    BY <1>1, <1>3 DEF DropWriteGuard, MmapInv, SlotInv
  <2>2. HasWriter' /\ Machine' = Machine
    BY <1>2, <2>1 DEF HasWriter, Machine
  <2>3. TypeOK'
    BY <1>1, <1>2, <2>1, <2>2 DEF TypeOK
  <2> QED
    BY <1>1, <1>2, <1>3, <2>1, <2>2, <2>3 DEF MmapInv, WriterInv, SlotInv, PaddingInv
<1>4. CASE ~open
  <2>1. \E o \in DropWriter(Machine) : Keep(Gone(o.m))
    BY <1>4 DEF DropWriteGuard
  <2>2. mmap' = "Invalid" /\ open' \in BOOLEAN
    BY <1>1, <1>2, <1>4 DEF MmapInv, SlotInv, TypeOK
  <2> QED
    BY <1>1, <1>2, <2>1, <2>2, MmapDropWriter
<1> QED
  BY <1>3, <1>4

LEMMA MmapDropMmap == MmapInv /\ DropMmap => MmapInv'
<1> SUFFICES ASSUME MmapInv, DropMmap PROVE MmapInv'
  OBVIOUS
<1>1. open' = FALSE /\ mmap' = "Invalid" /\ UNCHANGED <<poisoned, rlen, readers, guard, writes>>
  BY DEF DropMmap
<1>2. CASE HasWriter /\ ~guard
  <2>1. \E o \in DropWriter(Machine) : Keep(Gone(o.m))
    BY <1>2 DEF DropMmap
  <2>2. guard' = FALSE
    BY <1>1, <1>2 DEF MmapInv, TypeOK
  <2> QED
    BY <1>1, <1>2, <2>1, <2>2, MmapDropWriter
<1>3. CASE ~(HasWriter /\ ~guard)
  <2>1. UNCHANGED <<file, writer, want, torn, faults>>
    BY <1>3 DEF DropMmap
  <2>2. (HasWriter' <=> HasWriter) /\ Machine' = Machine
    BY <2>1 DEF HasWriter, Machine
  <2>3. HasWriter <=> guard
    BY <1>3 DEF MmapInv, TypeOK
  <2>4. TypeOK'
    BY <1>1, <2>1, <2>2, <2>3 DEF MmapInv, TypeOK, Slots
  <2> QED
    BY <1>1, <2>1, <2>2, <2>4 DEF MmapInv, WriterInv, SlotInv, PaddingInv
<1> QED
  BY <1>2, <1>3

LEMMA MmapCrash == MmapInv /\ Crash => MmapInv'
<1> SUFFICES ASSUME MmapInv, Crash PROVE MmapInv'
  OBVIOUS
<1>1. /\ open' = FALSE /\ mmap' = "Invalid" /\ poisoned' = FALSE
      /\ readers' = 0 /\ guard' = FALSE /\ writer' = NoWriter
      /\ torn' = (torn \/ HasWriter)
      /\ UNCHANGED <<file, rlen, want, writes, faults>>
  BY DEF Crash
<1>2. torn' \in BOOLEAN /\ (~torn' => ~torn /\ ~HasWriter)
  BY <1>1, Zenon
<1>3. ~HasWriter' /\ 0 \in 0..MaxReaders
  BY <1>1, MmapAssumption DEF HasWriter
<1>4. TypeOK'
  BY <1>1, <1>2, <1>3 DEF MmapInv, TypeOK, Slots
<1> QED
  BY <1>1, <1>2, <1>3, <1>4 DEF MmapInv, WriterInv, SlotInv, PaddingInv

LEMMA MmapNext == MmapInv /\ Next => MmapInv'
<1> SUFFICES ASSUME MmapInv, Next PROVE MmapInv'
  OBVIOUS
<1>1. CASE ReadDisk
  BY <1>1, MmapReadShared, MmapReadFromWriter, MmapReadAnew DEF ReadDisk
<1>2. CASE WriteDisk
  BY <1>2, MmapWriteAgain, MmapWriteFromReader, MmapWriteAnew DEF WriteDisk
<1>3. ASSUME NEW len \in 1..3, Write(len) PROVE MmapInv'
  <2>1. len \in Nat
    OBVIOUS
  <2> QED
    BY <1>3, <2>1, MmapWrite
<1>4. ASSUME NEW len \in 1..2, WriteVectored(len, 1) PROVE MmapInv'
  <2>1. len \in Nat /\ 1 \in Nat
    OBVIOUS
  <2> QED
    BY <1>4, <2>1, MmapWriteVectored
<1> QED
  BY <1>1, <1>2, <1>3, <1>4, MmapOpen, MmapFlush, MmapDropReadGuard, MmapDropWriteGuard,
     MmapDropMmap, MmapCrash DEF Next

LEMMA MmapStutters == MmapInv /\ UNCHANGED vars => MmapInv'
<1> SUFFICES ASSUME MmapInv, UNCHANGED vars PROVE MmapInv'
  OBVIOUS
<1>1. UNCHANGED <<file, open, mmap, poisoned, rlen, readers, guard, writer, want,
                  torn, writes, faults>>
  BY DEF vars
<1>2. (HasWriter' <=> HasWriter) /\ Machine' = Machine
  BY <1>1 DEF HasWriter, Machine
<1> QED
  BY <1>1, <1>2 DEF MmapInv, TypeOK, WriterInv, SlotInv, PaddingInv

LEMMA MmapInvariance == Spec => []MmapInv
<1> QED
  BY MmapInit, MmapNext, MmapStutters, PTL DEF Spec

LEMMA MmapImplies == MmapInv => WriterIsAlone /\ WrittenIsInTheFile /\ PaddingIsCutOff
<1> SUFFICES ASSUME MmapInv PROVE WriterIsAlone /\ WrittenIsInTheFile /\ PaddingIsCutOff
  OBVIOUS
<1>1. WriterIsAlone
  BY DEF MmapInv, SlotInv, WriterIsAlone
<1>2. PaddingIsCutOff
  BY DEF MmapInv, PaddingInv, PaddingIsCutOff
<1>3. /\ file \in ByteSeqs /\ want \in ByteSeqs
      /\ Len(file) \in Nat /\ Len(want) \in Nat /\ Len(want) <= Len(file)
      /\ \A i \in 1..Len(want) : file[i] = want[i]
  BY MachineIs, MachineFields DEF MmapInv, Starts
<1>4. SubSeq(file, 1, Len(want)) = want
  <2> DEFINE f == SubSeq(file, 1, Len(want))
  <2>1. 1 \in Int /\ Len(want) \in Int /\ \A i \in 1..Len(want) : file[i] \in 0..MaxWrites
    <3>1. \A i \in 1..Len(file) : file[i] \in 0..MaxWrites
      BY <1>3, ElementOfSeq DEF ByteSeqs
    <3> QED
      BY <1>3, <3>1
  <2>2. /\ f \in Seq(0..MaxWrites) /\ Len(f) = Len(want)
        /\ \A i \in 1..Len(want) : f[i] = file[i]
    BY <1>3, <2>1, SubSeqProperties
  <2> HIDE DEF f
  <2>3. f = want
    BY <1>3, <2>2, SeqEqual DEF ByteSeqs
  <2> QED
    BY <2>3 DEF f
<1>5. IsPrefix(want, file)
  <2>1. SubSeq(want, 1, Len(want)) = want
    BY <1>3, SubSeqFull DEF ByteSeqs
  <2> QED
    BY <1>3, <1>4, <2>1 DEF IsPrefix
<1>6. ASSUME HasWriter
      PROVE  /\ Visible = want /\ writer.written <= writer.reserved
             /\ ~torn => \A len \in 1..3 :
                  \A o \in Then(ReserveFor(Machine, len), LAMBDA m : WriteData(m, 1, len)) :
                    o.res \in {"ok", "err"}
  <2>1. /\ Sound(Machine) /\ (~torn => Exact(Machine))
        /\ Machine.w = writer /\ Machine.want = want
    BY <1>6, MachineNow, MachineIs DEF MmapInv
  <2>2. writer.written = Len(want) /\ writer.written <= writer.reserved
    BY <2>1 DEF Sound
  <2>3. Visible = want
    BY <1>4, <2>2 DEF Visible
  <2>4. ASSUME ~torn, NEW len \in 1..3
        PROVE  \A o \in Then(ReserveFor(Machine, len), LAMBDA m : WriteData(m, 1, len)) :
                 o.res \in {"ok", "err"}
    <3>1. len \in Nat /\ 1 \in Nat
      OBVIOUS
    <3>2. Sound(Machine) /\ Exact(Machine)
      BY <2>1, <2>4
    <3> QED
      BY <3>1, <3>2, WriteAnswers, Zenon
  <2> QED
    BY <2>2, <2>3, <2>4
<1>7. WrittenIsInTheFile
  BY <1>5, <1>6 DEF WrittenIsInTheFile
<1> QED
  BY <1>1, <1>2, <1>7

\* A read guard and a writer never hold the map at the same time, whatever is
\* dropped, fails or panics between the calls (mmap.rs:215-319).
THEOREM WriterStaysAlone == Spec => []WriterIsAlone
<1> QED
  BY MmapInvariance, MmapImplies, PTL

\* Every byte a writer accepted is in the file where it was put, and until
\* something failed no write leaves its map or the file (mmap.rs:562-610).
THEOREM WrittenStaysInTheFile == Spec => []WrittenIsInTheFile
<1> QED
  BY MmapInvariance, MmapImplies, PTL

\* A file without a writer is what was written, to the byte, and the readers'
\* map is all of it, unless something failed (mmap.rs:612-656).
THEOREM PaddingStaysCutOff == Spec => []PaddingIsCutOff
<1> QED
  BY MmapInvariance, MmapImplies, PTL

-----------------------------------------------------------------------------
(***************************************************************************)
(* Coding: what a call on a writer leaves.                                 *)
(***************************************************************************)
ValueMarks == {Coders!Row(n) : n \in Nat} \cup {Coders!End, Coders!Header}
Secrets == [key : Nat, nonce : Nat]
Ciphers == {Coders!Cipher(p, w) : p \in Seq(ValueMarks), w \in Secrets}
FileMarks == ValueMarks \cup {Coders!FrameEnd, Coders!Unreadable} \cup Ciphers

Sinks ==
  [open : {TRUE}, async : BOOLEAN, plain : Seq(ValueMarks), with : Secrets,
   frame : Seq(FileMarks), finished : BOOLEAN, buffer : Seq(FileMarks)]

Outcomes ==
  [sink : Sinks, stored : Seq(FileMarks), errors : Nat, left : Seq(FileMarks), ok : BOOLEAN]

Zstd == stack.wraps \in {<<"zstd">>, <<"encrypted", "zstd">>}
Sealing == stack.wraps \in {<<"encrypted">>, <<"encrypted", "zstd">>}

\* A layer that is not in the stack holds nothing.
Fits(s) ==
  /\ ~stack.file.buffered => s.sink.buffer = <<>>
  /\ ~Zstd => s.sink.frame = <<>>

Emptied(s) == s.sink.buffer = <<>> /\ s.sink.frame = <<>>

\* What the file will hold when the writer has written its buffers.
InFile(s) == s.stored \o s.sink.buffer
HeldIn(s) == InFile(s) \o s.sink.frame

\* What no call below Encrypted changes.
SameWriter(s, o) ==
  /\ o \in Outcomes
  /\ o.sink.async = s.sink.async
  /\ o.sink.plain = s.sink.plain
  /\ o.sink.with = s.sink.with

LEMMA OutcomeFields ==
  ASSUME NEW s \in Outcomes
  PROVE  /\ s.sink \in Sinks /\ s.stored \in Seq(FileMarks) /\ s.errors \in Nat
         /\ s.left \in Seq(FileMarks) /\ s.ok \in BOOLEAN
         /\ s.sink.open = TRUE /\ s.sink.async \in BOOLEAN
         /\ s.sink.plain \in Seq(ValueMarks) /\ s.sink.with \in Secrets
         /\ s.sink.frame \in Seq(FileMarks) /\ s.sink.finished \in BOOLEAN
         /\ s.sink.buffer \in Seq(FileMarks)
BY DEF Outcomes, Sinks

LEMMA GiveMarks ==
  ASSUME NEW d \in Seq(FileMarks), NEW s \in Seq(FileMarks), NEW n \in 0..Len(s)
  PROVE  /\ SubSeq(s, 1, n) \in Seq(FileMarks) /\ SubSeq(s, n + 1, Len(s)) \in Seq(FileMarks)
         /\ (d \o SubSeq(s, 1, n)) \o SubSeq(s, n + 1, Len(s)) = d \o s
         /\ n = Len(s) => SubSeq(s, n + 1, Len(s)) = <<>>
BY GiveParts

LEMMA MarksAssoc ==
  ASSUME NEW a \in Seq(FileMarks), NEW b \in Seq(FileMarks), NEW c \in Seq(FileMarks)
  PROVE  (a \o b) \o c = a \o (b \o c) /\ a \o b \in Seq(FileMarks)
BY ConcatAssociative

LEMMA GoodIs ==
  ASSUME NEW s \in Outcomes, NEW o \in Coders!Good(s)
  PROVE  /\ o \in Outcomes /\ o.sink = s.sink /\ o.stored = s.stored
         /\ o.errors = s.errors /\ o.ok = TRUE /\ o.left = <<>>
<1>1. o = [s EXCEPT !.ok = TRUE, !.left = <<>>]
  BY DEF Coders!Good
<1>2. <<>> \in Seq(FileMarks)
  OBVIOUS
<1> QED
  BY <1>1, <1>2 DEF Outcomes

LEMMA BufferIs ==
  ASSUME NEW s \in Outcomes, NEW b \in Seq(FileMarks)
  PROVE  LET o == [s EXCEPT !.sink.buffer = b] IN
         /\ o \in Outcomes /\ o.stored = s.stored /\ o.errors = s.errors
         /\ o.ok = s.ok /\ o.left = s.left /\ o.sink.buffer = b
         /\ o.sink.frame = s.sink.frame /\ o.sink.finished = s.sink.finished
         /\ SameWriter(s, o)
<1> DEFINE k == [s.sink EXCEPT !.buffer = b]
           o == [s EXCEPT !.sink.buffer = b]
<1>1. /\ k \in Sinks /\ k.buffer = b /\ k.frame = s.sink.frame
      /\ k.finished = s.sink.finished /\ k.async = s.sink.async
      /\ k.plain = s.sink.plain /\ k.with = s.sink.with
  BY OutcomeFields DEF Sinks
<1>2. o = [s EXCEPT !.sink = k]
  BY DEF Outcomes
<1> HIDE DEF k
<1>3. /\ o \in Outcomes /\ o.sink = k /\ o.stored = s.stored /\ o.errors = s.errors
      /\ o.ok = s.ok /\ o.left = s.left
  BY <1>1, <1>2 DEF Outcomes
<1> QED
  BY <1>1, <1>3 DEF SameWriter

LEMMA FrameIs ==
  ASSUME NEW s \in Outcomes, NEW f \in Seq(FileMarks)
  PROVE  LET o == [s EXCEPT !.sink.frame = f] IN
         /\ o \in Outcomes /\ o.stored = s.stored /\ o.errors = s.errors
         /\ o.ok = s.ok /\ o.left = s.left /\ o.sink.buffer = s.sink.buffer
         /\ o.sink.frame = f /\ o.sink.finished = s.sink.finished
         /\ SameWriter(s, o)
<1> DEFINE k == [s.sink EXCEPT !.frame = f]
           o == [s EXCEPT !.sink.frame = f]
<1>1. /\ k \in Sinks /\ k.buffer = s.sink.buffer /\ k.frame = f
      /\ k.finished = s.sink.finished /\ k.async = s.sink.async
      /\ k.plain = s.sink.plain /\ k.with = s.sink.with
  BY OutcomeFields DEF Sinks
<1>2. o = [s EXCEPT !.sink = k]
  BY DEF Outcomes
<1> HIDE DEF k
<1>3. /\ o \in Outcomes /\ o.sink = k /\ o.stored = s.stored /\ o.errors = s.errors
      /\ o.ok = s.ok /\ o.left = s.left
  BY <1>1, <1>2 DEF Outcomes
<1> QED
  BY <1>1, <1>3 DEF SameWriter

LEMMA FinishedIs ==
  ASSUME NEW s \in Outcomes
  PROVE  LET o == [s EXCEPT !.sink.finished = TRUE] IN
         /\ o \in Outcomes /\ o.stored = s.stored /\ o.errors = s.errors
         /\ o.ok = s.ok /\ o.left = s.left /\ o.sink.buffer = s.sink.buffer
         /\ o.sink.frame = s.sink.frame /\ o.sink.finished = TRUE
         /\ SameWriter(s, o)
<1> DEFINE k == [s.sink EXCEPT !.finished = TRUE]
           o == [s EXCEPT !.sink.finished = TRUE]
<1>1. /\ k \in Sinks /\ k.buffer = s.sink.buffer /\ k.frame = s.sink.frame
      /\ k.finished = TRUE /\ k.async = s.sink.async
      /\ k.plain = s.sink.plain /\ k.with = s.sink.with
  BY OutcomeFields DEF Sinks
<1>2. o = [s EXCEPT !.sink = k]
  BY DEF Outcomes
<1> HIDE DEF k
<1>3. /\ o \in Outcomes /\ o.sink = k /\ o.stored = s.stored /\ o.errors = s.errors
      /\ o.ok = s.ok /\ o.left = s.left
  BY <1>1, <1>2 DEF Outcomes
<1> QED
  BY <1>1, <1>3 DEF SameWriter

\* Marks that go to the file are in it or left.
LEMMA FileTakes ==
  ASSUME NEW s \in Outcomes, NEW m \in Seq(FileMarks), NEW o \in Coders!FileWrite(s, m)
  PROVE  /\ o \in Outcomes /\ o.sink = s.sink
         /\ o.stored \o o.left = s.stored \o m
         /\ o.ok => o.left = <<>>
         /\ m = <<>> => o.ok
         /\ ~o.ok /\ Len(m) = 1 => o.left = m /\ o.stored = s.stored
<1>1. /\ s.stored \in Seq(FileMarks) /\ s.errors \in Nat /\ Len(m) \in Nat
      /\ s.stored \o m \in Seq(FileMarks) /\ <<>> \in Seq(FileMarks)
  <2>1. s.stored \in Seq(FileMarks) /\ s.errors \in Nat
    BY OutcomeFields
  <2> QED
    BY <2>1, LenProperties
<1>2. CASE o \in Coders!Good([s EXCEPT !.stored = s.stored \o m])
  <2> DEFINE x == [s EXCEPT !.stored = s.stored \o m]
  <2>1. x \in Outcomes /\ x.sink = s.sink /\ x.stored = s.stored \o m
    BY <1>1 DEF Outcomes
  <2> HIDE DEF x
  <2>2. o \in Coders!Good(x)
    BY <1>2 DEF x
  <2>3. o \in Outcomes /\ o.sink = s.sink /\ o.stored = s.stored \o m /\ o.ok = TRUE /\ o.left = <<>>
    BY <2>1, <2>2, GoodIs
  <2>4. (s.stored \o m) \o <<>> = s.stored \o m
    BY <1>1, ConcatEmptySeq
  <2> QED
    BY <2>3, <2>4
<1>3. ASSUME NEW n \in 0..(Len(m) - 1),
             o = [s EXCEPT !.stored = s.stored \o SubSeq(m, 1, n), !.errors = s.errors + 1,
                           !.ok = FALSE, !.left = SubSeq(m, n + 1, Len(m))]
      PROVE  /\ o \in Outcomes /\ o.sink = s.sink
             /\ o.stored \o o.left = s.stored \o m /\ o.ok = FALSE
             /\ m # <<>>
             /\ Len(m) = 1 => o.left = m /\ o.stored = s.stored
  <2> DEFINE p == SubSeq(m, 1, n)
             q == SubSeq(m, n + 1, Len(m))
             st == s.stored \o p
  <2>1. n \in 0..Len(m) /\ m # <<>>
    BY <1>1
  <2>2. p \in Seq(FileMarks) /\ q \in Seq(FileMarks) /\ (s.stored \o p) \o q = s.stored \o m
    BY <1>1, <2>1, GiveMarks
  <2>3. ASSUME Len(m) = 1 PROVE q = m /\ st = s.stored
    <3>1. n = 0
      BY <2>3
    <3>2. q = m
      <4>1. q = SubSeq(m, 1, Len(m))
        BY <3>1
      <4> QED
        BY <4>1, SubSeqFull
    <3>3. p = <<>>
      BY <3>1, SubSeqEmpty
    <3> QED
      BY <1>1, <3>2, <3>3, ConcatEmptySeq
  <2>4. st \in Seq(FileMarks) /\ s.errors + 1 \in Nat /\ FALSE \in BOOLEAN
    BY <1>1, <2>2
  <2>5. o = [s EXCEPT !.stored = st, !.errors = s.errors + 1, !.ok = FALSE, !.left = q]
    BY <1>3
  <2> HIDE DEF p, q, st
  <2>6. /\ o \in Outcomes /\ o.sink = s.sink /\ o.stored = st /\ o.ok = FALSE /\ o.left = q
    BY <2>2, <2>4, <2>5 DEF Outcomes
  <2>7. st \o q = s.stored \o m
    BY <2>2 DEF st
  <2> QED
    BY <2>1, <2>3, <2>6, <2>7
<1>4. ASSUME o \notin Coders!Good([s EXCEPT !.stored = s.stored \o m])
      PROVE  \E n \in 0..(Len(m) - 1) :
               o = [s EXCEPT !.stored = s.stored \o SubSeq(m, 1, n), !.errors = s.errors + 1,
                             !.ok = FALSE, !.left = SubSeq(m, n + 1, Len(m))]
  BY <1>4 DEF Coders!FileWrite
<1> QED
  BY <1>2, <1>3, <1>4

\* A flush of the file's writer moves the buffer to the file.
LEMMA FlushesBuffer ==
  ASSUME NEW s \in Outcomes, NEW o \in Coders!DiskFlush(s)
  PROVE  /\ SameWriter(s, o) /\ o.sink.frame = s.sink.frame /\ o.sink.finished = s.sink.finished
         /\ Fits(s) => /\ Fits(o) /\ InFile(o) = InFile(s)
                       /\ o.ok => o.sink.buffer = <<>>
                       /\ s.sink.buffer = <<>> => o.ok /\ o.stored = s.stored
<1>1. CASE stack.file.buffered
  <2>1. PICK f \in Coders!FileWrite(s, s.sink.buffer) : o = [f EXCEPT !.sink.buffer = f.left]
    BY <1>1 DEF Coders!DiskFlush
  <2>2. s.sink.buffer \in Seq(FileMarks) /\ s.stored \in Seq(FileMarks)
    BY OutcomeFields
  <2>3. /\ f \in Outcomes /\ f.sink = s.sink
        /\ f.stored \o f.left = s.stored \o s.sink.buffer
        /\ f.ok => f.left = <<>>
        /\ s.sink.buffer = <<>> => f.ok
    BY <2>2, FileTakes
  <2>4. f.left \in Seq(FileMarks) /\ f.stored \in Seq(FileMarks)
    BY <2>3, OutcomeFields
  <2>5. /\ o \in Outcomes /\ o.stored = f.stored /\ o.ok = f.ok /\ o.sink.buffer = f.left
        /\ o.sink.frame = f.sink.frame /\ o.sink.finished = f.sink.finished
        /\ SameWriter(f, o)
    BY <2>1, <2>3, <2>4, BufferIs
  <2>6. SameWriter(s, o)
    BY <2>3, <2>5 DEF SameWriter
  <2>7. ASSUME s.sink.buffer = <<>> PROVE o.ok /\ o.stored = s.stored
    <3>1. o.ok /\ f.left = <<>>
      BY <2>3, <2>5, <2>7
    <3>2. f.stored \o <<>> = f.stored /\ s.stored \o <<>> = s.stored
      BY <2>2, <2>4, ConcatEmptySeq
    <3> QED
      BY <2>3, <2>5, <2>7, <3>1, <3>2
  <2> QED
    BY <1>1, <2>3, <2>5, <2>6, <2>7 DEF Fits, InFile
<1>2. CASE ~stack.file.buffered
  <2>1. o \in Coders!Good(s)
    BY <1>2 DEF Coders!DiskFlush
  <2>2. o \in Outcomes /\ o.sink = s.sink /\ o.stored = s.stored /\ o.ok = TRUE
    BY <2>1, GoodIs
  <2> QED
    BY <1>2, <2>2 DEF Fits, InFile, SameWriter
<1> QED
  BY <1>1, <1>2

\* What a writer of the file is given is in the file, in its buffer or left.
LEMMA WritesBelow ==
  ASSUME NEW s \in Outcomes, NEW m \in Seq(FileMarks), NEW o \in Coders!DiskWrite(s, m)
  PROVE  /\ SameWriter(s, o) /\ o.sink.frame = s.sink.frame /\ o.sink.finished = s.sink.finished
         /\ Fits(s) => /\ Fits(o) /\ InFile(o) \o o.left = InFile(s) \o m
                       /\ o.ok => o.left = <<>>
                       /\ ~o.ok /\ Len(m) = 1 => o.left = m /\ InFile(o) = InFile(s)
                       /\ s.sink.buffer = <<>> /\ m = <<>> =>
                            o.ok /\ o.stored = s.stored /\ o.sink.buffer = <<>>
<1> DEFINE keep(x) == Coders!Good([x EXCEPT !.sink.buffer = x.sink.buffer \o m])
<1>0. /\ s.sink.buffer \in Seq(FileMarks) /\ s.stored \in Seq(FileMarks)
      /\ <<>> \in Seq(FileMarks) /\ m \o <<>> = m
      /\ \A a \in Seq(FileMarks) : a \o <<>> = a /\ a \o m \in Seq(FileMarks)
  <2>1. s.sink.buffer \in Seq(FileMarks) /\ s.stored \in Seq(FileMarks)
    BY OutcomeFields
  <2>2. \A a \in Seq(FileMarks) : a \o <<>> = a /\ a \o m \in Seq(FileMarks)
    BY ConcatEmptySeq
  <2> QED
    BY <2>1, <2>2
<1>1. ASSUME NEW x \in Outcomes, NEW y \in keep(x)
      PROVE  /\ SameWriter(x, y) /\ y.sink.frame = x.sink.frame /\ y.sink.finished = x.sink.finished
             /\ y.stored = x.stored /\ y.sink.buffer = x.sink.buffer \o m
             /\ y.ok = TRUE /\ y.left = <<>>
             /\ InFile(y) = InFile(x) \o m /\ InFile(y) \o y.left = InFile(x) \o m
  <2>1. x.sink.buffer \in Seq(FileMarks) /\ x.stored \in Seq(FileMarks)
    BY OutcomeFields
  <2> DEFINE b == x.sink.buffer \o m
             z == [x EXCEPT !.sink.buffer = b]
  <2>2. b \in Seq(FileMarks)
    BY <2>1
  <2>3. y \in Coders!Good(z)
    BY <1>1
  <2>4. x.stored \o b = (x.stored \o x.sink.buffer) \o m
    BY <2>1, MarksAssoc
  <2> HIDE DEF b
  <2>5. /\ z \in Outcomes /\ z.stored = x.stored /\ z.sink.buffer = b
        /\ z.sink.frame = x.sink.frame /\ z.sink.finished = x.sink.finished
        /\ SameWriter(x, z)
    BY <2>2, BufferIs
  <2> HIDE DEF z
  <2>6. y \in Outcomes /\ y.sink = z.sink /\ y.stored = z.stored /\ y.ok = TRUE /\ y.left = <<>>
    BY <2>3, <2>5, GoodIs
  <2>7. InFile(y) = InFile(x) \o m
    BY <2>4, <2>5, <2>6 DEF InFile
  <2>8. InFile(y) \in Seq(FileMarks)
    <3>1. y.stored \in Seq(FileMarks) /\ y.sink.buffer \in Seq(FileMarks)
      BY <2>6, OutcomeFields
    <3> QED
      BY <3>1 DEF InFile
  <2>9. InFile(y) \o y.left = InFile(x) \o m
    BY <1>0, <2>6, <2>7, <2>8
  <2>10. SameWriter(x, y)
    BY <2>5, <2>6 DEF SameWriter
  <2> QED
    BY <2>5, <2>6, <2>7, <2>9, <2>10 DEF b
<1>2. CASE stack.file.buffered /\ o \in keep(s)
  <2> HIDE DEF keep
  <2>1. /\ SameWriter(s, o) /\ o.sink.frame = s.sink.frame /\ o.sink.finished = s.sink.finished
        /\ o.stored = s.stored /\ o.sink.buffer = s.sink.buffer \o m
        /\ o.ok = TRUE /\ o.left = <<>> /\ InFile(o) \o o.left = InFile(s) \o m
    BY <1>1, <1>2
  <2>2. s.sink.buffer = <<>> /\ m = <<>> => o.sink.buffer = <<>>
    BY <1>0, <2>1
  <2> QED
    BY <1>2, <2>1, <2>2 DEF Fits
<1>3. CASE stack.file.buffered /\ o \notin keep(s)
  <2>1. PICK t \in Coders!Then(Coders!DiskFlush(s), keep) :
          o = [t EXCEPT !.left = IF t.ok THEN <<>> ELSE m]
    BY <1>3 DEF Coders!DiskWrite
  <2>2. PICK f \in Coders!DiskFlush(s) : t \in IF f.ok THEN keep(f) ELSE {f}
    BY <2>1 DEF Coders!Then
  <2> HIDE DEF keep
  <2>3. /\ SameWriter(s, f) /\ f.sink.frame = s.sink.frame /\ f.sink.finished = s.sink.finished
        /\ Fits(s) => /\ Fits(f) /\ InFile(f) = InFile(s)
                      /\ f.ok => f.sink.buffer = <<>>
                      /\ s.sink.buffer = <<>> => f.ok /\ f.stored = s.stored
    BY FlushesBuffer
  <2>4. f \in Outcomes
    BY <2>3 DEF SameWriter
  <2>5. ASSUME NEW l \in Seq(FileMarks), t \in Outcomes, o = [t EXCEPT !.left = l]
        PROVE  /\ o \in Outcomes /\ o.sink = t.sink /\ o.stored = t.stored
               /\ o.ok = t.ok /\ o.left = l
    BY <2>5 DEF Outcomes
  <2>6. CASE f.ok
    <3>1. /\ SameWriter(f, t) /\ t.sink.frame = f.sink.frame /\ t.sink.finished = f.sink.finished
          /\ t.stored = f.stored /\ t.sink.buffer = f.sink.buffer \o m
          /\ t.ok = TRUE /\ t.left = <<>> /\ InFile(t) \o t.left = InFile(f) \o m
      BY <1>1, <2>2, <2>4, <2>6
    <3>2. t \in Outcomes
      BY <3>1 DEF SameWriter
    <3>3. /\ o \in Outcomes /\ o.sink = t.sink /\ o.stored = t.stored
          /\ o.ok = TRUE /\ o.left = <<>>
      BY <1>0, <2>1, <2>5, <3>1, <3>2
    <3>4. SameWriter(s, o)
      BY <2>3, <3>1, <3>3 DEF SameWriter
    <3>5. InFile(o) \o o.left = InFile(f) \o m
      BY <3>1, <3>3 DEF InFile
    <3>6. s.sink.buffer = <<>> /\ m = <<>> /\ Fits(s) => o.stored = s.stored /\ o.sink.buffer = <<>>
      BY <1>0, <2>3, <2>6, <3>1, <3>3
    <3> QED
      BY <1>3, <2>3, <3>1, <3>3, <3>4, <3>5, <3>6 DEF Fits
  <2>7. CASE ~f.ok
    <3>1. t = f
      BY <2>2, <2>7
    <3>2. /\ o \in Outcomes /\ o.sink = f.sink /\ o.stored = f.stored
          /\ o.ok = f.ok /\ o.left = m
      BY <2>1, <2>4, <2>5, <2>7, <3>1
    <3>3. SameWriter(s, o)
      BY <2>3, <3>2 DEF SameWriter
    <3>4. InFile(o) = InFile(f)
      BY <3>2 DEF InFile
    <3> QED
      BY <1>3, <2>3, <2>7, <3>2, <3>3, <3>4 DEF Fits
  <2> QED
    BY <2>6, <2>7
<1>4. CASE ~stack.file.buffered
  <2>1. o \in Coders!FileWrite(s, m)
    BY <1>4 DEF Coders!DiskWrite
  <2>2. /\ o \in Outcomes /\ o.sink = s.sink
        /\ o.stored \o o.left = s.stored \o m
        /\ o.ok => o.left = <<>>
        /\ m = <<>> => o.ok
        /\ ~o.ok /\ Len(m) = 1 => o.left = m /\ o.stored = s.stored
    BY <2>1, FileTakes
  <2>3. o.stored \in Seq(FileMarks)
    BY <2>2, OutcomeFields
  <2>4. m = <<>> => o.stored = s.stored
    BY <1>0, <2>2, <2>3
  <2>5. s.sink.buffer = <<>> => InFile(o) = o.stored /\ InFile(s) = s.stored
    BY <1>0, <2>2, <2>3 DEF InFile
  <2> QED
    BY <1>4, <2>2, <2>4, <2>5 DEF Fits, SameWriter
<1> QED
  BY <1>2, <1>3, <1>4

LEMMA HasIs ==
  ASSUME stack.wraps \in Coders!Wraps
  PROVE  /\ Coders!Has("zstd") <=> Zstd
         /\ Coders!Has("encrypted") <=> Sealing
         /\ stack.wraps = <<"zstd">> <=> Zstd /\ ~Sealing
BY DEF Coders!Has, Coders!Contains, Coders!Wraps, Zstd, Sealing

\* The frame goes to the disk below, and what it does not take stays.
LEMMA LowersFrame ==
  ASSUME NEW s \in Outcomes, NEW o \in Coders!ZstdDown(s)
  PROVE  /\ SameWriter(s, o) /\ o.sink.finished = s.sink.finished
         /\ Fits(s) /\ Zstd => /\ Fits(o) /\ HeldIn(o) = HeldIn(s)
                               /\ o.ok => o.sink.frame = <<>>
                               /\ Emptied(s) => o.ok /\ o.stored = s.stored /\ Emptied(o)
<1>1. PICK w \in Coders!DiskWrite(s, s.sink.frame) : o = [w EXCEPT !.sink.frame = w.left]
  BY DEF Coders!ZstdDown
<1>2. s.sink.frame \in Seq(FileMarks)
  BY OutcomeFields
<1>3. /\ SameWriter(s, w) /\ w.sink.frame = s.sink.frame /\ w.sink.finished = s.sink.finished
      /\ Fits(s) => /\ Fits(w) /\ InFile(w) \o w.left = InFile(s) \o s.sink.frame
                    /\ w.ok => w.left = <<>>
                    /\ s.sink.buffer = <<>> /\ s.sink.frame = <<>> =>
                         w.ok /\ w.stored = s.stored /\ w.sink.buffer = <<>>
  <2> DEFINE m == s.sink.frame
  <2>1. m \in Seq(FileMarks) /\ w \in Coders!DiskWrite(s, m)
    BY <1>2
  <2> HIDE DEF m
  <2>2. /\ SameWriter(s, w) /\ w.sink.frame = s.sink.frame /\ w.sink.finished = s.sink.finished
        /\ Fits(s) => /\ Fits(w) /\ InFile(w) \o w.left = InFile(s) \o m
                      /\ w.ok => w.left = <<>>
                      /\ s.sink.buffer = <<>> /\ m = <<>> =>
                           w.ok /\ w.stored = s.stored /\ w.sink.buffer = <<>>
    BY <2>1, WritesBelow
  <2> QED
    BY <2>2 DEF m
<1>4. w \in Outcomes /\ w.left \in Seq(FileMarks)
  BY <1>3, OutcomeFields DEF SameWriter
<1>5. /\ o \in Outcomes /\ o.stored = w.stored /\ o.ok = w.ok /\ o.sink.buffer = w.sink.buffer
      /\ o.sink.frame = w.left /\ o.sink.finished = w.sink.finished /\ SameWriter(w, o)
  BY <1>1, <1>4, FrameIs
<1>6. SameWriter(s, o)
  BY <1>3, <1>5 DEF SameWriter
<1>7. HeldIn(o) = InFile(w) \o w.left
  BY <1>5 DEF HeldIn, InFile
<1> QED
  BY <1>3, <1>5, <1>6, <1>7 DEF Fits, Emptied, HeldIn

\* What the writer will have written once its frame is finished.
Finished(s) ==
  IF Zstd /\ ~s.sink.finished THEN HeldIn(s) \o <<Coders!FrameEnd>> ELSE HeldIn(s)

LEMMA HeldIsMarks ==
  ASSUME NEW s \in Outcomes
  PROVE  InFile(s) \in Seq(FileMarks) /\ HeldIn(s) \in Seq(FileMarks)
<1>1. /\ s.stored \in Seq(FileMarks) /\ s.sink.buffer \in Seq(FileMarks)
      /\ s.sink.frame \in Seq(FileMarks)
  BY OutcomeFields
<1> QED
  BY <1>1, MarksAssoc DEF InFile, HeldIn

LEMMA FinishesFrame ==
  ASSUME NEW s \in Outcomes, NEW o \in Coders!ZstdFinish(s)
  PROVE  /\ SameWriter(s, o) /\ o.sink.finished = TRUE
         /\ Fits(s) /\ Zstd => /\ Fits(o) /\ HeldIn(o) = Finished(s)
                               /\ o.ok => o.sink.frame = <<>>
                               /\ Emptied(s) /\ s.sink.finished =>
                                    o.ok /\ o.stored = s.stored /\ Emptied(o)
<1>1. CASE s.sink.finished
  <2>1. o \in Coders!ZstdDown(s) /\ s.sink.finished = TRUE
    BY <1>1, OutcomeFields DEF Coders!ZstdFinish
  <2> QED
    BY <1>1, <2>1, LowersFrame DEF Finished
<1>2. CASE ~s.sink.finished
  <2> DEFINE f == Append(s.sink.frame, Coders!FrameEnd)
             t == [s EXCEPT !.sink.frame = f, !.sink.finished = TRUE]
  <2>1. o \in Coders!ZstdDown(t)
    BY <1>2 DEF Coders!ZstdFinish
  <2>2. /\ s.sink.frame \in Seq(FileMarks) /\ Coders!FrameEnd \in FileMarks
        /\ InFile(s) \in Seq(FileMarks) /\ TRUE \in BOOLEAN
    BY OutcomeFields, HeldIsMarks DEF FileMarks
  <2>3. f \in Seq(FileMarks) /\ f = s.sink.frame \o <<Coders!FrameEnd>>
    BY <2>2, AppendIsConcat, AppendProperties
  <2>4. InFile(s) \o f = (InFile(s) \o s.sink.frame) \o <<Coders!FrameEnd>>
    <3>1. <<Coders!FrameEnd>> \in Seq(FileMarks)
      BY <2>2
    <3>2. InFile(s) \o (s.sink.frame \o <<Coders!FrameEnd>>)
            = (InFile(s) \o s.sink.frame) \o <<Coders!FrameEnd>>
      BY <2>2, <3>1, MarksAssoc, Zenon
    <3> QED
      BY <2>3, <3>2
  <2> HIDE DEF f
  <2> DEFINE u == [s EXCEPT !.sink.frame = f]
  <2>5. /\ t \in Outcomes /\ t.stored = s.stored /\ t.sink.buffer = s.sink.buffer
        /\ t.sink.frame = f /\ t.sink.finished = TRUE /\ SameWriter(s, t)
    <3>1. /\ u \in Outcomes /\ u.stored = s.stored /\ u.sink.buffer = s.sink.buffer
          /\ u.sink.frame = f /\ SameWriter(s, u)
      BY <2>2, <2>3, FrameIs
    <3>2. t = [u EXCEPT !.sink.finished = TRUE]
      OBVIOUS
    <3> HIDE DEF u, t
    <3>3. /\ t \in Outcomes /\ t.stored = u.stored /\ t.sink.buffer = u.sink.buffer
          /\ t.sink.frame = u.sink.frame /\ t.sink.finished = TRUE /\ SameWriter(u, t)
      BY <3>1, <3>2, FinishedIs
    <3> QED
      BY <3>1, <3>3 DEF SameWriter
  <2> HIDE DEF t
  <2>6. /\ SameWriter(t, o) /\ o.sink.finished = t.sink.finished
        /\ Fits(t) /\ Zstd => /\ Fits(o) /\ HeldIn(o) = HeldIn(t)
                              /\ o.ok => o.sink.frame = <<>>
    BY <2>1, <2>5, LowersFrame
  <2>7. SameWriter(s, o)
    BY <2>5, <2>6 DEF SameWriter
  <2>8. Zstd => HeldIn(t) = Finished(s)
    BY <1>2, <2>4, <2>5 DEF HeldIn, InFile, Finished
  <2>9. Fits(s) /\ Zstd => Fits(t)
    BY <2>5 DEF Fits
  <2> QED
    BY <1>2, <2>5, <2>6, <2>7, <2>8, <2>9
<1> QED
  BY <1>1, <1>2

\* The frame lowered, and the file flushed after it.
LEMMA FlushesFrame ==
  ASSUME NEW s \in Outcomes, NEW o \in Coders!Then(Coders!ZstdDown(s), Coders!DiskFlush)
  PROVE  /\ SameWriter(s, o) /\ o.sink.finished = s.sink.finished
         /\ Fits(s) /\ Zstd => /\ Fits(o) /\ HeldIn(o) = HeldIn(s)
                               /\ o.ok => Emptied(o)
                               /\ Emptied(s) => o.ok /\ o.stored = s.stored /\ Emptied(o)
<1>1. PICK d \in Coders!ZstdDown(s) : o \in IF d.ok THEN Coders!DiskFlush(d) ELSE {d}
  BY DEF Coders!Then
<1>2. /\ SameWriter(s, d) /\ d.sink.finished = s.sink.finished
      /\ Fits(s) /\ Zstd => /\ Fits(d) /\ HeldIn(d) = HeldIn(s)
                            /\ d.ok => d.sink.frame = <<>>
                            /\ Emptied(s) => d.ok /\ d.stored = s.stored /\ Emptied(d)
  BY LowersFrame
<1>3. CASE ~d.ok
  <2>1. o = d
    BY <1>1, <1>3
  <2> QED
    BY <1>2, <1>3, <2>1
<1>4. CASE d.ok
  <2>1. d \in Outcomes /\ o \in Coders!DiskFlush(d)
    BY <1>1, <1>2, <1>4 DEF SameWriter
  <2>2. /\ SameWriter(d, o) /\ o.sink.frame = d.sink.frame /\ o.sink.finished = d.sink.finished
        /\ Fits(d) => /\ Fits(o) /\ InFile(o) = InFile(d)
                      /\ o.ok => o.sink.buffer = <<>>
                      /\ d.sink.buffer = <<>> => o.ok /\ o.stored = d.stored
    BY <2>1, FlushesBuffer
  <2>3. SameWriter(s, o)
    BY <1>2, <2>2 DEF SameWriter
  <2>4. Fits(d) => HeldIn(o) = HeldIn(d)
    BY <2>2 DEF HeldIn
  <2> QED
    BY <1>2, <1>4, <2>2, <2>3, <2>4 DEF Emptied
<1> QED
  BY <1>3, <1>4

\* The frame finished and lowered, and the file flushed after it.
LEMMA ClosesFrame ==
  ASSUME NEW s \in Outcomes, NEW o \in Coders!Then(Coders!ZstdFinish(s), Coders!DiskFlush)
  PROVE  /\ SameWriter(s, o) /\ o.sink.finished = TRUE
         /\ Fits(s) /\ Zstd => /\ Fits(o) /\ HeldIn(o) = Finished(s)
                               /\ o.ok => Emptied(o)
                               /\ Emptied(s) /\ s.sink.finished =>
                                    o.ok /\ o.stored = s.stored /\ Emptied(o)
<1>1. PICK d \in Coders!ZstdFinish(s) : o \in IF d.ok THEN Coders!DiskFlush(d) ELSE {d}
  BY DEF Coders!Then
<1>2. /\ SameWriter(s, d) /\ d.sink.finished = TRUE
      /\ Fits(s) /\ Zstd => /\ Fits(d) /\ HeldIn(d) = Finished(s)
                            /\ d.ok => d.sink.frame = <<>>
                            /\ Emptied(s) /\ s.sink.finished =>
                                 d.ok /\ d.stored = s.stored /\ Emptied(d)
  BY FinishesFrame
<1>3. CASE ~d.ok
  <2>1. o = d
    BY <1>1, <1>3
  <2> QED
    BY <1>2, <1>3, <2>1
<1>4. CASE d.ok
  <2>1. d \in Outcomes /\ o \in Coders!DiskFlush(d)
    BY <1>1, <1>2, <1>4 DEF SameWriter
  <2>2. /\ SameWriter(d, o) /\ o.sink.frame = d.sink.frame /\ o.sink.finished = d.sink.finished
        /\ Fits(d) => /\ Fits(o) /\ InFile(o) = InFile(d)
                      /\ o.ok => o.sink.buffer = <<>>
                      /\ d.sink.buffer = <<>> => o.ok /\ o.stored = d.stored
    BY <2>1, FlushesBuffer
  <2>3. SameWriter(s, o)
    BY <1>2, <2>2 DEF SameWriter
  <2>4. Fits(d) => HeldIn(o) = HeldIn(d)
    BY <2>2 DEF HeldIn
  <2> QED
    BY <1>2, <1>4, <2>2, <2>3, <2>4 DEF Emptied
<1> QED
  BY <1>3, <1>4

\* What the writer above the file's is given, whole or by single marks.
LEMMA WritesFrame ==
  ASSUME stack.wraps \in Coders!Wraps, NEW s \in Outcomes, NEW m \in Seq(FileMarks),
         NEW o \in Coders!ZstdWrite(s, m)
  PROVE  /\ SameWriter(s, o) /\ o.sink.finished = s.sink.finished
         /\ Fits(s) => /\ Fits(o)
                       /\ o.ok => HeldIn(o) = HeldIn(s) \o m
                       /\ ~o.ok /\ Len(m) = 1 => HeldIn(o) = HeldIn(s)
                       /\ Emptied(s) /\ m = <<>> => o.ok /\ o.stored = s.stored /\ Emptied(o)
         /\ Zstd => o.ok /\ o.stored = s.stored /\ o.sink.buffer = s.sink.buffer
<1>1. CASE Zstd
  <2> DEFINE f == s.sink.frame \o m
             t == [s EXCEPT !.sink.frame = f]
  <2>1. o \in Coders!Good(t)
    BY <1>1, HasIs DEF Coders!ZstdWrite
  <2>2. s.sink.frame \in Seq(FileMarks) /\ InFile(s) \in Seq(FileMarks)
    BY OutcomeFields, HeldIsMarks
  <2>3. /\ f \in Seq(FileMarks) /\ InFile(s) \o f = (InFile(s) \o s.sink.frame) \o m
        /\ s.sink.frame = <<>> /\ m = <<>> => f = <<>>
    <3>1. /\ s.sink.frame \o m \in Seq(FileMarks)
          /\ InFile(s) \o (s.sink.frame \o m) = (InFile(s) \o s.sink.frame) \o m
      BY <2>2, MarksAssoc, Zenon
    <3>2. m = <<>> => s.sink.frame \o m = s.sink.frame
      BY <2>2, ConcatEmptySeq
    <3> QED
      BY <3>1, <3>2
  <2> HIDE DEF f
  <2>4. /\ t \in Outcomes /\ t.stored = s.stored /\ t.sink.buffer = s.sink.buffer
        /\ t.sink.frame = f /\ t.sink.finished = s.sink.finished /\ SameWriter(s, t)
    BY <2>3, FrameIs
  <2> HIDE DEF t
  <2>5. o \in Outcomes /\ o.sink = t.sink /\ o.stored = t.stored /\ o.ok = TRUE
    BY <2>1, <2>4, GoodIs
  <2>6. SameWriter(s, o)
    BY <2>4, <2>5 DEF SameWriter
  <2>7. HeldIn(o) = HeldIn(s) \o m
    BY <2>3, <2>4, <2>5 DEF HeldIn, InFile
  <2> QED
    BY <1>1, <2>3, <2>4, <2>5, <2>6, <2>7 DEF Fits, Emptied
<1>2. CASE ~Zstd
  <2>1. o \in Coders!DiskWrite(s, m)
    BY <1>2, HasIs DEF Coders!ZstdWrite
  <2>2. /\ SameWriter(s, o) /\ o.sink.frame = s.sink.frame /\ o.sink.finished = s.sink.finished
        /\ Fits(s) => /\ Fits(o) /\ InFile(o) \o o.left = InFile(s) \o m
                      /\ o.ok => o.left = <<>>
                      /\ ~o.ok /\ Len(m) = 1 => o.left = m /\ InFile(o) = InFile(s)
                      /\ s.sink.buffer = <<>> /\ m = <<>> =>
                           o.ok /\ o.stored = s.stored /\ o.sink.buffer = <<>>
    BY <2>1, WritesBelow
  <2>3. InFile(s) \in Seq(FileMarks) /\ InFile(o) \in Seq(FileMarks)
    BY <2>2, HeldIsMarks DEF SameWriter
  <2>4. Fits(s) => HeldIn(s) = InFile(s) /\ HeldIn(o) = InFile(o)
    <3>1. \A a \in Seq(FileMarks) : a \o <<>> = a
      BY ConcatEmptySeq
    <3> QED
      BY <1>2, <2>2, <2>3, <3>1 DEF Fits, HeldIn
  <2>5. InFile(o) \o <<>> = InFile(o)
    BY <2>3, ConcatEmptySeq
  <2> QED
    BY <1>2, <2>2, <2>4, <2>5 DEF Emptied
<1> QED
  BY <1>1, <1>2

LEMMA CipherIsMark ==
  ASSUME NEW p \in Seq(ValueMarks), NEW w \in Secrets
  PROVE  Coders!Cipher(p, w) \in FileMarks /\ <<Coders!Cipher(p, w)>> \in Seq(FileMarks)
<1>1. Coders!Cipher(p, w) \in FileMarks
  BY DEF FileMarks, Ciphers
<1> QED
  BY <1>1

LEMMA ValueIsFileMarks == \A m \in Seq(ValueMarks) : m \in Seq(FileMarks)
<1>1. ValueMarks \subseteq FileMarks
  BY DEF FileMarks
<1> QED
  BY <1>1, SeqMonotonic

\* What is written on an Encrypted disk is kept until a flush.
LEMMA KeepsPlain ==
  ASSUME NEW s \in Outcomes, NEW m \in Seq(ValueMarks), NEW o \in Coders!EncryptedWrite(s, m)
  PROVE  /\ o \in Outcomes /\ o.ok = TRUE /\ o.stored = s.stored
         /\ o.sink.plain = s.sink.plain \o m
         /\ o.sink.async = s.sink.async /\ o.sink.with = s.sink.with
         /\ o.sink.buffer = s.sink.buffer /\ o.sink.frame = s.sink.frame
         /\ o.sink.finished = s.sink.finished
<1> DEFINE p == s.sink.plain \o m
           k == [s.sink EXCEPT !.plain = p]
           t == [s EXCEPT !.sink.plain = p]
<1>1. s.sink \in Sinks /\ s.sink.plain \in Seq(ValueMarks)
  BY OutcomeFields
<1>2. p \in Seq(ValueMarks)
  BY <1>1
<1>3. o \in Coders!Good(t)
  BY DEF Coders!EncryptedWrite
<1> HIDE DEF p
<1>4. /\ k \in Sinks /\ k.plain = p /\ k.async = s.sink.async /\ k.with = s.sink.with
      /\ k.buffer = s.sink.buffer /\ k.frame = s.sink.frame /\ k.finished = s.sink.finished
  BY <1>1, <1>2 DEF Sinks
<1>5. t = [s EXCEPT !.sink = k]
  BY DEF Outcomes
<1> HIDE DEF k, t
<1>6. t \in Outcomes /\ t.sink = k /\ t.stored = s.stored
  BY <1>4, <1>5 DEF Outcomes
<1>7. o \in Outcomes /\ o.sink = t.sink /\ o.stored = t.stored /\ o.ok = TRUE
  BY <1>3, <1>6, GoodIs
<1> QED
  BY <1>4, <1>6, <1>7 DEF p

\* A write by the encoder.
LEMMA Writes ==
  ASSUME stack.wraps \in Coders!Wraps, NEW s \in Outcomes, NEW m \in Seq(ValueMarks),
         NEW o \in Coders!Write(s, m)
  PROVE  /\ o \in Outcomes
         /\ o.sink.async = s.sink.async /\ o.sink.with = s.sink.with
         /\ o.sink.finished = s.sink.finished
         /\ Fits(s) => Fits(o)
         /\ ~Sealing /\ Fits(s) =>
              /\ o.ok => HeldIn(o) = HeldIn(s) \o m
              /\ ~o.ok /\ Len(m) = 1 => HeldIn(o) = HeldIn(s)
              /\ Emptied(s) /\ m = <<>> => o.ok /\ o.stored = s.stored /\ Emptied(o)
         /\ Sealing => /\ o.ok /\ o.sink.plain = s.sink.plain \o m
                       /\ o.stored = s.stored
                       /\ o.sink.buffer = s.sink.buffer /\ o.sink.frame = s.sink.frame
<1>1. CASE ~Sealing
  <2>1. o \in Coders!ZstdWrite(s, m)
    BY <1>1, HasIs DEF Coders!Write
  <2>2. m \in Seq(FileMarks)
    BY ValueIsFileMarks
  <2>3. /\ SameWriter(s, o) /\ o.sink.finished = s.sink.finished
        /\ Fits(s) => /\ Fits(o)
                      /\ o.ok => HeldIn(o) = HeldIn(s) \o m
                      /\ ~o.ok /\ Len(m) = 1 => HeldIn(o) = HeldIn(s)
                      /\ Emptied(s) /\ m = <<>> => o.ok /\ o.stored = s.stored /\ Emptied(o)
    BY <2>1, <2>2, WritesFrame
  <2> QED
    BY <1>1, <2>3 DEF SameWriter
<1>2. CASE Sealing
  <2>1. o \in Coders!EncryptedWrite(s, m)
    BY <1>2, HasIs DEF Coders!Write, Coders!AsyncEncryptedWrite
  <2>2. /\ o \in Outcomes /\ o.ok = TRUE /\ o.stored = s.stored
        /\ o.sink.plain = s.sink.plain \o m
        /\ o.sink.async = s.sink.async /\ o.sink.with = s.sink.with
        /\ o.sink.buffer = s.sink.buffer /\ o.sink.frame = s.sink.frame
        /\ o.sink.finished = s.sink.finished
    BY <2>1, KeepsPlain
  <2> QED
    BY <1>2, <2>2 DEF Fits
<1> QED
  BY <1>1, <1>2

\* What a flush of an Encrypted disk hands down, and what becomes of it.
LEMMA Seals ==
  ASSUME stack.wraps \in Coders!Wraps, Sealing, NEW s \in Outcomes,
         NEW o \in Coders!Flush(s)
  PROVE  /\ SameWriter(s, o) /\ o.sink.finished = s.sink.finished
         /\ Fits(s) => Fits(o)
         /\ Zstd => o.ok /\ o.stored = s.stored /\ o.sink.buffer = s.sink.buffer
         /\ \E c \in {Coders!Cipher(<<>>, s.sink.with), Coders!Cipher(s.sink.plain, s.sink.with),
                      Coders!Unreadable} :
              /\ ~s.sink.async => c = Coders!Cipher(s.sink.plain, s.sink.with)
              /\ Fits(s) => /\ o.ok => HeldIn(o) = HeldIn(s) \o <<c>>
                            /\ ~o.ok => HeldIn(o) = HeldIn(s)
<1> DEFINE C == {Coders!Cipher(<<>>, s.sink.with), Coders!Cipher(s.sink.plain, s.sink.with),
                 Coders!Unreadable}
<1>1. /\ s.sink.plain \in Seq(ValueMarks) /\ s.sink.with \in Secrets
      /\ s.sink.async \in BOOLEAN
  BY OutcomeFields
<1>2. \A c \in C : <<c>> \in Seq(FileMarks) /\ Len(<<c>>) = 1
  <2>1. Coders!Unreadable \in FileMarks
    BY DEF FileMarks
  <2>2. <<Coders!Unreadable>> \in Seq(FileMarks)
    BY <2>1
  <2>3. \A c : Len(<<c>>) = 1
    OBVIOUS
  <2>4. QED
    <3>1. <<>> \in Seq(ValueMarks)
      OBVIOUS
    <3> QED
      BY <1>1, <2>2, <2>3, <3>1, CipherIsMark
<1>3. PICK c \in C : /\ ~s.sink.async => c = Coders!Cipher(s.sink.plain, s.sink.with)
                     /\ o \in Coders!ZstdWrite(s, <<c>>)
  <2>1. CASE s.sink.async
    <3>1. o \in Coders!AsyncEncryptedFlush(s)
      BY <2>1, HasIs DEF Coders!Flush
    <3> QED
      BY <2>1, <3>1 DEF Coders!AsyncEncryptedFlush, Coders!EncryptBlocking
  <2>2. CASE ~s.sink.async
    <3>1. o \in Coders!EncryptedFlush(s)
      BY <2>2, HasIs DEF Coders!Flush
    <3> QED
      BY <2>2, <3>1 DEF Coders!EncryptedFlush
  <2> QED
    BY <2>1, <2>2
<1>4. /\ SameWriter(s, o) /\ o.sink.finished = s.sink.finished
      /\ Fits(s) => /\ Fits(o)
                    /\ o.ok => HeldIn(o) = HeldIn(s) \o <<c>>
                    /\ ~o.ok /\ Len(<<c>>) = 1 => HeldIn(o) = HeldIn(s)
      /\ Zstd => o.ok /\ o.stored = s.stored /\ o.sink.buffer = s.sink.buffer
  <2> DEFINE m == <<c>>
  <2>1. m \in Seq(FileMarks) /\ o \in Coders!ZstdWrite(s, m)
    BY <1>2, <1>3
  <2> HIDE DEF m
  <2>2. /\ SameWriter(s, o) /\ o.sink.finished = s.sink.finished
        /\ Fits(s) => /\ Fits(o)
                      /\ o.ok => HeldIn(o) = HeldIn(s) \o m
                      /\ ~o.ok /\ Len(m) = 1 => HeldIn(o) = HeldIn(s)
        /\ Zstd => o.ok /\ o.stored = s.stored /\ o.sink.buffer = s.sink.buffer
    BY <2>1, WritesFrame
  <2> QED
    BY <2>2 DEF m
<1> QED
  BY <1>2, <1>3, <1>4

\* A flush without an Encrypted disk: the synchronous one of zstd finishes.
LEMMA Flushes ==
  ASSUME stack.wraps \in Coders!Wraps, ~Sealing, NEW s \in Outcomes,
         NEW o \in Coders!Flush(s)
  PROVE  /\ SameWriter(s, o)
         /\ o.sink.finished = (s.sink.finished \/ (Zstd /\ ~s.sink.async))
         /\ Fits(s) =>
              /\ Fits(o)
              /\ o.ok => Emptied(o)
              /\ HeldIn(o) = IF s.sink.async THEN HeldIn(s) ELSE Finished(s)
              /\ Emptied(s) /\ (s.sink.finished <=> Zstd) =>
                   o.ok /\ o.stored = s.stored /\ Emptied(o)
<1>0. s.sink.async \in BOOLEAN /\ s.sink.finished \in BOOLEAN
  BY OutcomeFields
<1>1. CASE Zstd /\ s.sink.async
  <2>1. o \in Coders!Then(Coders!ZstdDown(s), Coders!DiskFlush)
    BY <1>1, HasIs DEF Coders!Flush, Coders!AsyncZstdFlush
  <2> QED
    BY <1>0, <1>1, <2>1, FlushesFrame
<1>2. CASE Zstd /\ ~s.sink.async
  <2>1. o \in Coders!Then(Coders!ZstdFinish(s), Coders!DiskFlush)
    BY <1>2, HasIs DEF Coders!Flush, Coders!ZstdFlush
  <2> QED
    BY <1>0, <1>2, <2>1, ClosesFrame
<1>3. CASE ~Zstd
  <2>1. o \in Coders!DiskFlush(s)
    BY <1>3, HasIs DEF Coders!Flush
  <2>2. /\ SameWriter(s, o) /\ o.sink.frame = s.sink.frame /\ o.sink.finished = s.sink.finished
        /\ Fits(s) => /\ Fits(o) /\ InFile(o) = InFile(s)
                      /\ o.ok => o.sink.buffer = <<>>
                      /\ s.sink.buffer = <<>> => o.ok /\ o.stored = s.stored
    BY <2>1, FlushesBuffer
  <2>3. Fits(s) => HeldIn(o) = HeldIn(s) /\ o.sink.frame = <<>>
    BY <1>3, <2>2 DEF HeldIn, Fits
  <2> QED
    BY <1>0, <1>3, <2>2, <2>3 DEF Emptied, Finished
<1> QED
  BY <1>1, <1>2, <1>3

\* The close of an asynchronous writer that was flushed.
LEMMA Closes ==
  ASSUME stack.wraps \in Coders!Wraps, NEW s \in Outcomes, NEW o \in Coders!Close(s)
  PROVE  /\ SameWriter(s, o)
         /\ o.sink.finished = (s.sink.finished \/ Zstd)
         /\ Fits(s) => /\ Fits(o) /\ HeldIn(o) = Finished(s)
                       /\ o.ok => Emptied(o)
<1>0. s.sink.finished \in BOOLEAN
  BY OutcomeFields
<1>1. CASE Zstd
  <2>1. o \in Coders!Then(Coders!ZstdFinish(s), Coders!DiskFlush)
    BY <1>1, HasIs DEF Coders!Close, Coders!AsyncZstdClose
  <2> QED
    BY <1>1, <2>1, ClosesFrame
<1>2. CASE ~Zstd
  <2>1. o \in Coders!DiskFlush(s)
    BY <1>2, HasIs DEF Coders!Close
  <2>2. /\ SameWriter(s, o) /\ o.sink.frame = s.sink.frame /\ o.sink.finished = s.sink.finished
        /\ Fits(s) => /\ Fits(o) /\ InFile(o) = InFile(s)
                      /\ o.ok => o.sink.buffer = <<>>
    BY <2>1, FlushesBuffer
  <2>3. Fits(s) => HeldIn(o) = HeldIn(s) /\ o.sink.frame = <<>>
    BY <1>2, <2>2 DEF HeldIn, Fits
  <2> QED
    BY <1>0, <1>2, <2>2, <2>3 DEF Emptied, Finished
<1> QED
  BY <1>1, <1>2

\* The drop of a writer.
LEMMA Drops ==
  ASSUME NEW s \in Outcomes, NEW o \in Coders!DropSink(s)
  PROVE  /\ SameWriter(s, o)
         /\ Fits(s) => /\ \E b \in Seq(FileMarks) : o.stored \o b = InFile(s)
                       /\ ~s.sink.async /\ o.ok => o.stored = InFile(s)
                       /\ s.sink.buffer = <<>> => o.stored = s.stored
<1>0. s.stored \in Seq(FileMarks) /\ s.sink.buffer \in Seq(FileMarks)
  BY OutcomeFields
<1>1. CASE s.sink.async
  <2>1. o \in Coders!Good(s)
    BY <1>1 DEF Coders!DropSink
  <2>2. o \in Outcomes /\ o.sink = s.sink /\ o.stored = s.stored
    BY <2>1, GoodIs
  <2> QED
    BY <1>0, <1>1, <2>2 DEF SameWriter, InFile
<1>2. CASE ~s.sink.async
  <2>1. o \in Coders!DiskFlush(s)
    BY <1>2 DEF Coders!DropSink
  <2>2. /\ SameWriter(s, o)
        /\ Fits(s) => /\ InFile(o) = InFile(s)
                      /\ o.ok => o.sink.buffer = <<>>
                      /\ s.sink.buffer = <<>> => o.ok /\ o.stored = s.stored
    BY <2>1, FlushesBuffer
  <2>3. o.stored \in Seq(FileMarks) /\ o.sink.buffer \in Seq(FileMarks)
    BY <2>2, OutcomeFields DEF SameWriter
  <2>4. o.stored \o <<>> = o.stored
    BY <2>3, ConcatEmptySeq
  <2> QED
    BY <1>2, <2>2, <2>3, <2>4 DEF InFile
<1> QED
  BY <1>1, <1>2

-----------------------------------------------------------------------------
(***************************************************************************)
(* Coding: the encoder, its writer and the file.                           *)
(***************************************************************************)
CoderType ==
  [name : {"csv", "async_csv", "bincode", "async_bincode", "serde_json", "simd_json",
           "sync_coder_async_disk", "sync_coder_as_async"},
   headers : BOOLEAN, structs : BOOLEAN]

\* All that an encoder writes, and what the file holds after it.
Whole == Coders!Marks(value)
Full == IF Zstd THEN Whole \o <<Coders!FrameEnd>> ELSE Whole

Buffered == stored \o sink.buffer
Held == Buffered \o sink.frame
SinkFits ==
  /\ ~stack.file.buffered => sink.buffer = <<>>
  /\ ~Zstd => sink.frame = <<>>
SinkEmpty == sink.buffer = <<>> /\ sink.frame = <<>>

CodingTypes ==
  /\ stack \in [file : Coders!Files, wraps : Coders!Wraps, level : 22..23]
  /\ secrets \in Secrets /\ sealed \in Secrets
  /\ stored \in Seq(FileMarks) /\ errors \in Nat
  /\ coder \in CoderType /\ value \in Nat /\ todo \in Seq(ValueMarks)
  /\ phase = "idle" => sink = Coders!NoSink
  /\ phase # "idle" => /\ sink \in Sinks
                       /\ sink.async = Coders!Async /\ sink.with = sealed
  /\ phase = "coder drop" => coder.name = "csv"

\* Without Encrypted: what the writer holds goes on in what is to be written,
\* up to the end of the frame, and is in the file once it was answered Ok.
ClearInv ==
  /\ phase # "parked"
  /\ phase = "writing" =>
       SinkFits /\ sink.finished = FALSE /\ Held \o todo = Whole /\ result # "ok"
  /\ phase = "closing" =>
       SinkFits /\ sink.finished = FALSE /\ Held = Whole /\ todo = <<>> /\ result # "ok"
  /\ phase = "dropping" /\ ~Coders!IsCsv => SinkFits /\ Starts(Held, Full)
  /\ phase \in {"dropping", "coder drop"} /\ result = "ok" =>
       SinkFits /\ SinkEmpty /\ todo = <<>> /\ sink.finished = Zstd
  /\ result = "ok" => stored = Full
  /\ ~Coders!IsCsv => Starts(stored, Full)

Seal == Coders!Cipher(Whole, sealed)
OneSeal(marks) ==
  \/ marks = <<>>
  \/ \E c \in {Coders!Cipher(<<>>, sealed), Seal, Coders!Unreadable} : marks = <<c>>

\* Under Encrypted, for an encoder that flushes once: nothing goes down before
\* all is written, and then one ciphertext, which zstd never finishes.
SealedInv ==
  /\ phase \notin {"closing", "coder drop"}
  /\ phase # "idle" => SinkFits
  /\ phase = "writing" =>
       stored = <<>> /\ SinkEmpty /\ sink.plain \o todo = Whole /\ result # "ok"
  /\ phase = "parked" => result # "ok"
  /\ phase # "idle" => IF Zstd THEN Buffered = <<>> ELSE OneSeal(Buffered)
  /\ IF Zstd THEN stored = <<>> ELSE OneSeal(stored)
  /\ result = "ok" /\ ~Zstd =>
       /\ phase # "idle" => ~Coders!Async /\ Buffered = <<Seal>>
       /\ phase = "idle" /\ ~lost => stored = <<Seal>>

CodingInv ==
  /\ CodingTypes
  /\ ~Sealing => ClearInv
  /\ Sealing /\ ~Coders!IsCsv => SealedInv

LEMMA StartsOf ==
  ASSUME NEW a \in Seq(FileMarks), NEW b \in Seq(FileMarks), NEW w \in Seq(FileMarks)
  PROVE  /\ Starts(a, a \o b) /\ Starts(<<>>, w) /\ Starts(w, w)
         /\ Starts(a \o b, w) => Starts(a, w)
         /\ Starts(a, w) => Starts(a, w \o b)
<1>1. /\ Len(a) \in Nat /\ Len(b) \in Nat /\ Len(w) \in Nat /\ Len(<<>>) = 0
      /\ Len(a \o b) = Len(a) + Len(b) /\ Len(w \o b) = Len(w) + Len(b)
  BY LenProperties
<1>2. /\ \A i \in 1..Len(a) : (a \o b)[i] = a[i]
      /\ \A i \in 1..Len(w) : (w \o b)[i] = w[i]
  BY <1>1
<1> QED
  BY <1>1, <1>2 DEF Starts

LEMMA RowsAre ==
  ASSUME NEW n \in Nat
  PROVE  /\ Coders!Rows(n) \in Seq(ValueMarks) /\ Len(Coders!Rows(n)) = n
         /\ \A i \in 1..n : Coders!Rows(n)[i] = Coders!Row(i)
<1>1. \A i \in 1..n : Coders!Row(i) \in ValueMarks
  BY DEF ValueMarks
<1> QED
  BY <1>1 DEF Coders!Rows

LEMMA MarksAre ==
  ASSUME NEW n \in Nat
  PROVE  /\ Coders!Marks(n) \in Seq(ValueMarks)
         /\ ~Coders!IsCsv => Coders!Marks(n) = Append(Coders!Rows(n), Coders!End)
         /\ Coders!IsCsv => Coders!Marks(n) = Coders!CsvWriter(Coders!Rows(n))
<1>1. Coders!Rows(n) \in Seq(ValueMarks) /\ Coders!End \in ValueMarks
  BY RowsAre DEF ValueMarks
<1>2. Append(Coders!Rows(n), Coders!End) \in Seq(ValueMarks)
  BY <1>1, AppendProperties
<1>3. Coders!CsvWriter(Coders!Rows(n)) \in Seq(ValueMarks)
  <2>1. <<Coders!Header>> \in Seq(ValueMarks)
    <3>1. Coders!Header \in ValueMarks
      BY DEF ValueMarks
    <3> QED
      BY <3>1
  <2>2. <<Coders!Header>> \o Coders!Rows(n) \in Seq(ValueMarks)
    BY <1>1, <2>1, ConcatProperties
  <2> QED
    BY <1>1, <2>2 DEF Coders!CsvWriter
<1>4. ~Coders!IsCsv => Coders!Marks(n) = Append(Coders!Rows(n), Coders!End)
  BY DEF Coders!Marks, Coders!IsCsv, Coders!SerdeJsonMarks, Coders!SimdJsonMarks,
         Coders!BincodeMarks, Coders!AsyncBincodeMarks, Coders!SelfDelimiting
<1>5. Coders!IsCsv => Coders!Marks(n) = Coders!CsvWriter(Coders!Rows(n))
  BY DEF Coders!Marks, Coders!IsCsv, Coders!CsvMarks, Coders!AsyncCsvMarks,
         Coders!AsyncCsvWriter
<1> QED
  BY <1>2, <1>3, <1>4, <1>5

LEMMA WholeAndFull ==
  ASSUME CodingTypes
  PROVE  /\ Whole \in Seq(ValueMarks) /\ Whole \in Seq(FileMarks) /\ Full \in Seq(FileMarks)
         /\ Starts(Whole, Full)
         /\ Seal \in FileMarks
<1>1. Whole \in Seq(ValueMarks) /\ Whole \in Seq(FileMarks)
  BY MarksAre, ValueIsFileMarks DEF CodingTypes, Whole
<1>2. <<Coders!FrameEnd>> \in Seq(FileMarks)
  <2>1. Coders!FrameEnd \in FileMarks
    BY DEF FileMarks
  <2> QED
    BY <2>1
<1>3. Whole \o <<Coders!FrameEnd>> \in Seq(FileMarks)
  BY <1>1, <1>2, ConcatProperties
<1>4. Starts(Whole, Whole) /\ Starts(Whole, Whole \o <<Coders!FrameEnd>>)
  BY <1>1, <1>2, StartsOf
<1>5. Seal \in FileMarks
  BY <1>1, CipherIsMark DEF Seal, CodingTypes
<1> QED
  BY <1>1, <1>3, <1>4, <1>5 DEF Full

\* What neither depends on the writer nor on the file.
LEMMA Steady ==
  ASSUME coder' = coder, value' = value, stack'.wraps = stack.wraps, sealed' = sealed
  PROVE  /\ Whole' = Whole /\ Full' = Full /\ Seal' = Seal
         /\ Zstd' = Zstd /\ Sealing' = Sealing
         /\ Coders!Async' = Coders!Async /\ Coders!IsCsv' = Coders!IsCsv
<1>1. Whole' = Whole
  BY DEF Whole, Coders!Marks, Coders!SerdeJsonMarks, Coders!SimdJsonMarks,
         Coders!BincodeMarks, Coders!AsyncBincodeMarks, Coders!CsvMarks, Coders!AsyncCsvMarks,
         Coders!AsyncCsvWriter, Coders!CsvWriter
<1>2. Zstd' = Zstd /\ Sealing' = Sealing
  BY DEF Zstd, Sealing
<1>3. Coders!Async' = Coders!Async /\ Coders!IsCsv' = Coders!IsCsv
  BY DEF Coders!Async, Coders!IsCsv
<1> QED
  BY <1>1, <1>2, <1>3 DEF Full, Seal

LEMMA NowIs ==
  ASSUME CodingTypes, phase # "idle"
  PROVE  /\ Coders!Now \in Outcomes /\ Coders!Now.sink = sink /\ Coders!Now.stored = stored
         /\ Fits(Coders!Now) <=> SinkFits
         /\ Emptied(Coders!Now) <=> SinkEmpty
         /\ InFile(Coders!Now) = Buffered /\ HeldIn(Coders!Now) = Held
         /\ Buffered \in Seq(FileMarks) /\ Held \in Seq(FileMarks)
         /\ Coders!Async \in BOOLEAN
<1>1. <<>> \in Seq(FileMarks)
  OBVIOUS
<1>2. /\ Coders!Now \in Outcomes /\ Coders!Now.sink = sink /\ Coders!Now.stored = stored
  BY <1>1 DEF CodingTypes, Coders!Now, Outcomes
<1>3. InFile(Coders!Now) \in Seq(FileMarks) /\ HeldIn(Coders!Now) \in Seq(FileMarks)
  BY <1>2, HeldIsMarks
<1> QED
  BY <1>2, <1>3 DEF Fits, SinkFits, Emptied, SinkEmpty, InFile, HeldIn, Buffered, Held, Coders!Async

LEMMA BecomesIs ==
  ASSUME NEW s \in Outcomes, Coders!Becomes(s)
  PROVE  /\ sink' = s.sink /\ stored' = s.stored /\ sink' \in Sinks
         /\ stored' \in Seq(FileMarks) /\ errors' \in Nat
         /\ stack' = stack /\ secrets' = secrets
         /\ SinkFits' <=> Fits(s)
         /\ SinkEmpty' <=> Emptied(s)
         /\ Buffered' = InFile(s) /\ Held' = HeldIn(s)
         /\ Buffered' \in Seq(FileMarks) /\ Held' \in Seq(FileMarks)
<1>1. /\ sink' = s.sink /\ stored' = s.stored /\ errors' = s.errors
      /\ stack' = stack /\ secrets' = secrets
  BY DEF Coders!Becomes
<1>2. s.sink \in Sinks /\ s.stored \in Seq(FileMarks) /\ s.errors \in Nat
  BY OutcomeFields
<1>3. InFile(s) \in Seq(FileMarks) /\ HeldIn(s) \in Seq(FileMarks)
  BY HeldIsMarks
<1> QED
  BY <1>1, <1>2, <1>3 DEF Fits, SinkFits, Emptied, SinkEmpty, InFile, HeldIn, Buffered, Held, Zstd

\* What is in the file is a part of what the writer holds.
LEMMA PartsOf ==
  ASSUME NEW s \in Outcomes, NEW w \in Seq(FileMarks)
  PROVE  /\ Starts(HeldIn(s), w) => Starts(InFile(s), w) /\ Starts(s.stored, w)
         /\ Starts(InFile(s), w) => Starts(s.stored, w)
         /\ Emptied(s) => s.stored = HeldIn(s) /\ InFile(s) = HeldIn(s)
         /\ s.sink.frame = <<>> => InFile(s) = HeldIn(s)
<1>1. /\ s.stored \in Seq(FileMarks) /\ s.sink.buffer \in Seq(FileMarks)
      /\ s.sink.frame \in Seq(FileMarks)
  BY OutcomeFields
<1>2. InFile(s) \in Seq(FileMarks) /\ HeldIn(s) \in Seq(FileMarks)
  BY HeldIsMarks
<1>3. Starts(HeldIn(s), w) => Starts(InFile(s), w)
  BY <1>1, <1>2, StartsOf DEF HeldIn
<1>4. Starts(InFile(s), w) => Starts(s.stored, w)
  BY <1>1, StartsOf DEF InFile
<1>5. \A a \in Seq(FileMarks) : a \o <<>> = a
  BY ConcatEmptySeq
<1>6. s.sink.frame = <<>> => InFile(s) = HeldIn(s)
  BY <1>2, <1>5 DEF HeldIn
<1>7. s.sink.buffer = <<>> => s.stored = InFile(s)
  BY <1>1, <1>5 DEF InFile
<1> QED
  BY <1>3, <1>4, <1>6, <1>7 DEF Emptied

\* A writer that holds a part of a value holds a part of the file to be.
LEMMA HoldsPart ==
  ASSUME CodingTypes, NEW s \in Outcomes, NEW t \in Seq(ValueMarks), HeldIn(s) \o t = Whole
  PROVE  Starts(HeldIn(s), Full) /\ Starts(s.stored, Full)
<1>1. /\ HeldIn(s) \in Seq(FileMarks) /\ t \in Seq(FileMarks) /\ Full \in Seq(FileMarks)
      /\ Starts(HeldIn(s) \o t, Full)
  BY HeldIsMarks, ValueIsFileMarks, WholeAndFull
<1>2. Starts(HeldIn(s), Full)
  BY <1>1, StartsOf
<1> QED
  BY <1>1, <1>2, PartsOf

LEMMA SealParts ==
  ASSUME NEW a \in Seq(FileMarks), NEW b \in Seq(FileMarks), OneSeal(a \o b)
  PROVE  OneSeal(a) /\ (a \o b = <<>> => a = <<>>)
<1>1. /\ Len(a) \in Nat /\ Len(b) \in Nat /\ Len(a \o b) = Len(a) + Len(b)
      /\ \A i \in 1..Len(a) : (a \o b)[i] = a[i]
  BY LenProperties
<1>2. Len(a) = 0 => a = <<>>
  BY EmptySeq
<1>3. a \o b = <<>> => a = <<>>
  BY <1>1, <1>2
<1>4. ASSUME NEW c, a \o b = <<c>>, Len(a) # 0
      PROVE  a = <<c>>
  <2>1. Len(a) = 1 /\ a[1] = c
    BY <1>1, <1>4
  <2>2. a = [i \in 1..Len(a) |-> a[i]]
    BY LenProperties
  <2>3. a = <<a[1]>>
    BY <2>1, <2>2
  <2> QED
    BY <2>1, <2>3
<1> QED
  BY <1>2, <1>3, <1>4 DEF OneSeal

\* The disk rests, and so does all that is said of it.
LEMMA DiskRests ==
  ASSUME UNCHANGED <<coder, Coders!disk, value, sealed>>
  PROVE  /\ SinkFits' = SinkFits /\ SinkEmpty' = SinkEmpty
         /\ Buffered' = Buffered /\ Held' = Held
         /\ OneSeal(Buffered)' = OneSeal(Buffered) /\ OneSeal(stored)' = OneSeal(stored)
         /\ Whole' = Whole /\ Full' = Full /\ Seal' = Seal
         /\ Zstd' = Zstd /\ Sealing' = Sealing
         /\ Coders!Async' = Coders!Async /\ Coders!IsCsv' = Coders!IsCsv
<1>1. /\ Whole' = Whole /\ Full' = Full /\ Seal' = Seal
      /\ Zstd' = Zstd /\ Sealing' = Sealing
      /\ Coders!Async' = Coders!Async /\ Coders!IsCsv' = Coders!IsCsv
  BY Steady DEF Coders!disk
<1>2. UNCHANGED <<stack, sink, stored, sealed>>
  BY DEF Coders!disk
<1> QED
  BY <1>1, <1>2 DEF SinkFits, SinkEmpty, Buffered, Held, OneSeal

\* Nothing is encoded and the file is empty.
LEMMA CodingInit == Coders!Init => CodingInv
<1> SUFFICES ASSUME Coders!Init PROVE CodingInv
  OBVIOUS
<1>1. /\ phase = "idle" /\ todo = <<>> /\ stored = <<>> /\ sink = Coders!NoSink
      /\ value = 0 /\ result = "none" /\ sealed = Coders!Own /\ secrets = Coders!Own
      /\ errors = 0
      /\ stack \in [file : Coders!Files, wraps : Coders!Wraps, level : 22..23]
      /\ coder \in Coders!Coders
  BY DEF Coders!Init, Coders!DiskInit
<1>2. coder \in CoderType
  <2> DEFINE CsvCoders ==
        {Coders!Csv(name, h, s) : name \in {"csv", "async_csv"}, h \in BOOLEAN, s \in BOOLEAN}
             Others ==
        {Coders!Csv(name, FALSE, FALSE) :
           name \in {"bincode", "async_bincode", "serde_json", "simd_json",
                    "sync_coder_async_disk", "sync_coder_as_async"}}
  <2>1. Coders!Coders = CsvCoders \cup Others
    BY DEF Coders!Coders, Coders!Plain
  <2>2. ASSUME coder \in CsvCoders
        PROVE  \E name \in {"csv", "async_csv"}, h, s \in BOOLEAN : coder = Coders!Csv(name, h, s)
    BY <2>2
  <2>3. ASSUME coder \in Others
        PROVE  \E name \in {"bincode", "async_bincode", "serde_json", "simd_json",
                            "sync_coder_async_disk", "sync_coder_as_async"} :
                 coder = Coders!Csv(name, FALSE, FALSE)
    BY <2>3
  <2> HIDE DEF CsvCoders, Others
  <2>4. ASSUME coder \in CsvCoders PROVE coder \in CoderType
    BY <2>2, <2>4 DEF CoderType, Coders!Csv
  <2>5. ASSUME coder \in Others PROVE coder \in CoderType
    <3>1. PICK name \in {"bincode", "async_bincode", "serde_json", "simd_json",
                         "sync_coder_async_disk", "sync_coder_as_async"} :
            coder = Coders!Csv(name, FALSE, FALSE)
      BY <2>3, <2>5
    <3>2. name \in {"csv", "async_csv", "bincode", "async_bincode", "serde_json", "simd_json",
                   "sync_coder_async_disk", "sync_coder_as_async"}
      OBVIOUS
    <3>3. FALSE \in BOOLEAN
      OBVIOUS
    <3> QED
      BY <3>1, <3>2, <3>3 DEF CoderType, Coders!Csv
  <2> QED
    BY <1>1, <2>1, <2>4, <2>5
<1>3. Coders!Own \in Secrets
  BY DEF Coders!Own, Secrets
<1>4. <<>> \in Seq(FileMarks) /\ <<>> \in Seq(ValueMarks)
  OBVIOUS
<1>5. CodingTypes
  BY <1>1, <1>2, <1>3, <1>4 DEF CodingTypes
<1>6. Starts(stored, Full)
  BY <1>1, <1>4, <1>5, StartsOf, WholeAndFull
<1>7. OneSeal(stored)
  BY <1>1 DEF OneSeal
<1> QED
  BY <1>1, <1>5, <1>6, <1>7 DEF CodingInv, ClearInv, SealedInv

LEMMA Opened ==
  ASSUME CodingTypes
  PROVE  /\ Coders!NewSink(Coders!Async) \in Sinks
         /\ LET k == Coders!NewSink(Coders!Async) IN
            /\ k.async = Coders!Async /\ k.with = secrets /\ k.plain = <<>>
            /\ k.buffer = <<>> /\ k.frame = <<>> /\ k.finished = FALSE
<1>1. <<>> \in Seq(FileMarks) /\ <<>> \in Seq(ValueMarks)
  OBVIOUS
<1>2. Coders!Async \in BOOLEAN /\ secrets \in Secrets
  <2>1. Coders!Async \in BOOLEAN
    BY DEF Coders!Async
  <2> QED
    BY <2>1 DEF CodingTypes
<1> QED
  BY <1>1, <1>2 DEF Coders!NewSink, Sinks

\* Whatever is encoded, the file is emptied first.
LEMMA BeginStep ==
  ASSUME CodingInv, NEW n \in Nat, NEW levelOk, Coders!Begins(n, <<>>, levelOk)
  PROVE  CodingInv'
<1>1. /\ CodingTypes /\ phase = "idle" /\ value' = n /\ sealed' = secrets /\ stored' = <<>>
      /\ UNCHANGED <<coder, stack, secrets, errors>>
  BY DEF CodingInv, Coders!Begins
<1>2. /\ Whole' = Coders!Marks(n) /\ Zstd' = Zstd /\ Sealing' = Sealing
      /\ Coders!IsCsv' = Coders!IsCsv /\ Coders!Async' = Coders!Async
  <2>1. Whole' = Coders!Marks(n)
    BY <1>1 DEF Whole, Coders!Marks, Coders!SerdeJsonMarks, Coders!SimdJsonMarks,
         Coders!BincodeMarks, Coders!AsyncBincodeMarks, Coders!CsvMarks, Coders!AsyncCsvMarks,
         Coders!AsyncCsvWriter, Coders!CsvWriter
  <2> QED
    BY <1>1, <2>1 DEF Zstd, Sealing, Coders!IsCsv, Coders!Async
<1>3. Whole' \in Seq(ValueMarks) /\ Whole' \in Seq(FileMarks)
  BY <1>2, MarksAre, ValueIsFileMarks
<1>4. Full' \in Seq(FileMarks)
  <2>1. <<Coders!FrameEnd>> \in Seq(FileMarks)
    <3>1. Coders!FrameEnd \in FileMarks
      BY DEF FileMarks
    <3> QED
      BY <3>1
  <2>2. Whole' \o <<Coders!FrameEnd>> \in Seq(FileMarks)
    BY <1>3, <2>1, ConcatProperties
  <2> QED
    BY <1>3, <2>2 DEF Full
<1>5. /\ <<>> \in Seq(FileMarks) /\ <<>> \in Seq(ValueMarks)
      /\ <<>> \o <<>> = <<>> /\ <<>> \o Whole' = Whole'
  BY <1>3, ConcatEmptySeq
<1>6. Starts(stored, Full)'
  BY <1>1, <1>4, <1>5, StartsOf
<1>7. CASE levelOk
  <2>1. /\ sink' = Coders!NewSink(Coders!Async) /\ todo' = Coders!Marks(n)
        /\ phase' = "writing" /\ result' = "none"
    BY <1>7 DEF Coders!Begins
  <2>2. /\ sink' \in Sinks /\ sink'.async = Coders!Async /\ sink'.with = secrets
        /\ sink'.plain = <<>> /\ sink'.buffer = <<>> /\ sink'.frame = <<>>
        /\ sink'.finished = FALSE
    BY <1>1, <2>1, Opened
  <2>3. CodingTypes'
    BY <1>1, <1>2, <1>3, <1>5, <2>1, <2>2 DEF CodingTypes
  <2>4. SinkFits' /\ SinkEmpty' /\ Buffered' = <<>> /\ Held' = <<>>
    BY <1>1, <1>5, <2>2 DEF SinkFits, SinkEmpty, Buffered, Held
  <2>5. ClearInv'
    BY <1>2, <1>5, <1>6, <2>1, <2>2, <2>4 DEF ClearInv
  <2>6. SealedInv'
    BY <1>1, <1>2, <1>5, <2>1, <2>2, <2>4 DEF SealedInv, OneSeal
  <2> QED
    BY <2>3, <2>5, <2>6 DEF CodingInv
<1>8. CASE ~levelOk
  <2>1. result' = "error" /\ UNCHANGED <<sink, todo, phase>>
    BY <1>8 DEF Coders!Begins
  <2>2. CodingTypes'
    BY <1>1, <1>5, <2>1 DEF CodingTypes
  <2>3. ClearInv'
    BY <1>1, <1>6, <2>1 DEF ClearInv
  <2>4. SealedInv'
    BY <1>1, <2>1 DEF SealedInv, OneSeal
  <2> QED
    BY <2>2, <2>3, <2>4 DEF CodingInv
<1> QED
  BY <1>7, <1>8

\* A coder that stops short leaves the disk as it is.
LEMMA StopStep ==
  ASSUME CodingInv, UNCHANGED <<coder, Coders!disk, value, sealed, lost>>,
         phase \in {"writing", "parked", "closing"}, phase' = "dropping",
         result' # "ok", todo' \in Seq(ValueMarks)
  PROVE  CodingInv'
<1>1. CodingTypes
  BY DEF CodingInv
<1>2. /\ SinkFits' = SinkFits /\ SinkEmpty' = SinkEmpty
      /\ Buffered' = Buffered /\ Held' = Held
      /\ OneSeal(Buffered)' = OneSeal(Buffered) /\ OneSeal(stored)' = OneSeal(stored)
      /\ Full' = Full /\ Seal' = Seal
      /\ Zstd' = Zstd /\ Sealing' = Sealing
      /\ Coders!Async' = Coders!Async /\ Coders!IsCsv' = Coders!IsCsv
  BY DiskRests
<1>3. UNCHANGED <<stack, secrets, stored, sink, errors>>
  BY DEF Coders!disk
<1>4. CodingTypes'
  BY <1>1, <1>2, <1>3 DEF CodingTypes
<1>5. ASSUME ~Sealing PROVE ClearInv'
  <2>1. ClearInv /\ phase # "idle" /\ phase # "parked"
    BY <1>5 DEF CodingInv, ClearInv
  <2>2. /\ Coders!Now \in Outcomes /\ Coders!Now.stored = stored /\ HeldIn(Coders!Now) = Held
    BY <1>1, <2>1, NowIs
  <2>3. SinkFits /\ Starts(Held, Full) /\ Starts(stored, Full)
    <3>1. CASE phase = "writing"
      <4>1. SinkFits /\ Held \o todo = Whole /\ todo \in Seq(ValueMarks)
        BY <1>1, <2>1, <3>1 DEF ClearInv, CodingTypes
      <4> QED
        BY <1>1, <2>2, <4>1, HoldsPart
    <3>2. CASE phase = "closing"
      <4>1. SinkFits /\ Held = Whole
        BY <2>1, <3>2 DEF ClearInv
      <4>2. Starts(Whole, Full) /\ Full \in Seq(FileMarks)
        BY <1>1, WholeAndFull
      <4> QED
        BY <2>2, <4>1, <4>2, PartsOf
    <3> QED
      BY <2>1, <3>1, <3>2
  <2> QED
    BY <1>2, <1>3, <2>3 DEF ClearInv
<1>6. ASSUME Sealing, ~Coders!IsCsv PROVE SealedInv'
  <2>1. SealedInv
    BY <1>6 DEF CodingInv
  <2> QED
    BY <1>2, <1>3, <2>1 DEF SealedInv
<1> QED
  BY <1>2, <1>4, <1>5, <1>6 DEF CodingInv

LEMMA NoHandlesStep == CodingInv /\ Coders!NoHandles => CodingInv'
<1> SUFFICES ASSUME CodingInv, Coders!NoHandles PROVE CodingInv'
  OBVIOUS
<1>1. /\ UNCHANGED <<coder, Coders!disk, value, sealed, lost>>
      /\ phase = "writing" /\ phase' = "dropping" /\ result' = "error" /\ todo' = <<>>
  BY DEF Coders!NoHandles
<1>2. <<>> \in Seq(ValueMarks)
  OBVIOUS
<1> QED
  BY <1>1, <1>2, StopStep

LEMMA PollAgainStep == CodingInv /\ Coders!PollAgain => CodingInv'
<1> SUFFICES ASSUME CodingInv, Coders!PollAgain PROVE CodingInv'
  OBVIOUS
<1>1. /\ UNCHANGED <<coder, Coders!disk, value, sealed, lost, todo>>
      /\ phase = "parked" /\ phase' = "dropping" /\ result' = "panic"
  BY DEF Coders!PollAgain
<1>2. todo \in Seq(ValueMarks)
  BY DEF CodingInv, CodingTypes
<1> QED
  BY <1>1, <1>2, StopStep

LEMMA CancelStep == CodingInv /\ Coders!Cancel => CodingInv'
<1> SUFFICES ASSUME CodingInv, Coders!Cancel PROVE CodingInv'
  OBVIOUS
<1>1. /\ UNCHANGED <<coder, Coders!disk, value, sealed, lost>>
      /\ phase \in {"writing", "parked", "closing"} /\ phase' = "dropping"
      /\ result' = "cancelled" /\ todo' = <<>>
  BY DEF Coders!Cancel
<1>2. <<>> \in Seq(ValueMarks)
  OBVIOUS
<1> QED
  BY <1>1, <1>2, StopStep

LEMMA CancelAsAsyncStep == CodingInv /\ Coders!CancelAsAsync => CodingInv'
<1> SUFFICES ASSUME CodingInv, Coders!CancelAsAsync PROVE CodingInv'
  OBVIOUS
<1>1. /\ UNCHANGED <<coder, Coders!disk, value, sealed, lost, phase, todo>>
      /\ phase = "writing" /\ result' = "cancelled"
  BY DEF Coders!CancelAsAsync
<1>2. /\ SinkFits' = SinkFits /\ SinkEmpty' = SinkEmpty
      /\ Buffered' = Buffered /\ Held' = Held
      /\ OneSeal(Buffered)' = OneSeal(Buffered) /\ OneSeal(stored)' = OneSeal(stored)
      /\ Whole' = Whole /\ Full' = Full /\ Seal' = Seal
      /\ Zstd' = Zstd /\ Sealing' = Sealing
      /\ Coders!Async' = Coders!Async /\ Coders!IsCsv' = Coders!IsCsv
  BY <1>1, DiskRests
<1>3. UNCHANGED <<stack, secrets, stored, sink, errors>>
  BY <1>1 DEF Coders!disk
<1>4. CodingTypes'
  BY <1>1, <1>2, <1>3 DEF CodingInv, CodingTypes
<1>5. ~Sealing => ClearInv'
  BY <1>1, <1>2, <1>3 DEF CodingInv, ClearInv
<1>6. Sealing /\ ~Coders!IsCsv => SealedInv'
  BY <1>1, <1>2, <1>3 DEF CodingInv, SealedInv
<1> QED
  BY <1>2, <1>4, <1>5, <1>6 DEF CodingInv

\* Between encodings the file, the value and what is to be written stay.
LEMMA IdleStep ==
  ASSUME CodingInv, CodingTypes', phase = "idle", phase' = "idle",
         UNCHANGED <<stored, value, result, sealed, lost, todo>>,
         Whole' = Whole, stack'.wraps = stack.wraps, Coders!IsCsv' = Coders!IsCsv
  PROVE  CodingInv'
<1>1. Zstd' = Zstd /\ Sealing' = Sealing
  BY DEF Zstd, Sealing
<1>2. Full' = Full /\ Seal' = Seal
  BY <1>1 DEF Full, Seal
<1>3. ~Sealing => ClearInv'
  BY <1>1, <1>2 DEF CodingInv, ClearInv
<1>4. Sealing /\ ~Coders!IsCsv => SealedInv'
  BY <1>1, <1>2 DEF CodingInv, SealedInv, OneSeal
<1> QED
  BY <1>1, <1>3, <1>4 DEF CodingInv

LEMMA OpenFailsStep == CodingInv /\ Coders!OpenFails => CodingInv'
<1> SUFFICES ASSUME CodingInv, Coders!OpenFails PROVE CodingInv'
  OBVIOUS
<1>1. /\ UNCHANGED <<coder, stack, secrets, stored, sink, phase, todo, value, result, sealed, lost>>
      /\ phase = "idle" /\ errors' = errors + 1
  BY DEF Coders!OpenFails, Coders!run
<1>2. CodingTypes'
  BY <1>1 DEF CodingInv, CodingTypes
<1>3. Whole' = Whole /\ Coders!IsCsv' = Coders!IsCsv
  BY <1>1, Steady
<1> QED
  BY <1>1, <1>2, <1>3, IdleStep

LEMMA SetHandlesStep == CodingInv /\ Coders!SetHandles => CodingInv'
<1> SUFFICES ASSUME CodingInv, Coders!SetHandles PROVE CodingInv'
  OBVIOUS
<1>1. /\ UNCHANGED <<coder, stack, secrets, stored, sink, errors,
                     phase, todo, value, result, sealed, lost>>
      /\ phase = "idle"
  BY DEF Coders!SetHandles, Coders!run, Coders!disk
<1>2. CodingTypes'
  BY <1>1 DEF CodingInv, CodingTypes
<1>3. Whole' = Whole /\ Coders!IsCsv' = Coders!IsCsv
  BY <1>1, Steady
<1> QED
  BY <1>1, <1>2, <1>3, IdleStep

LEMMA OnDiskStep == CodingInv /\ Coders!OnDisk => CodingInv'
<1> SUFFICES ASSUME CodingInv, Coders!OnDisk PROVE CodingInv'
  OBVIOUS
<1>1. /\ UNCHANGED <<coder, phase, todo, value, result, sealed, lost>>
      /\ phase = "idle" /\ CodingTypes
  BY DEF Coders!OnDisk, Coders!run, CodingInv
<1>2. /\ UNCHANGED <<stored, sink>> /\ errors' \in Nat /\ secrets' \in Secrets
      /\ stack' \in [file : Coders!Files, wraps : Coders!Wraps, level : 22..23]
      /\ stack'.wraps = stack.wraps
  <2>0. /\ stack \in [file : Coders!Files, wraps : Coders!Wraps, level : 22..23]
        /\ secrets \in Secrets /\ errors \in Nat
    BY <1>1 DEF CodingTypes
  <2>1. CASE Coders!SetKey \/ Coders!SetNonce
    BY <2>0, <2>1 DEF Coders!SetKey, Coders!SetNonce, Secrets
  <2>2. CASE Coders!FromPath
    <3>1. Coders!Plainfile \in Coders!Files
      BY DEF Coders!Files, Coders!Paths
    <3> QED
      BY <2>0, <2>2, <3>1 DEF Coders!FromPath, Coders!RandomSecrets, Secrets
  <2>3. ASSUME NEW files, NEW target \in Coders!Paths, Coders!ConvertTo(files, target)
        PROVE  /\ UNCHANGED <<secrets, stored, sink, errors>>
               /\ stack' \in [file : Coders!Files, wraps : Coders!Wraps, level : 22..23]
               /\ stack'.wraps = stack.wraps
    <3>1. target \in Coders!Files
      BY DEF Coders!Files
    <3> QED
      BY <2>0, <2>3, <3>1 DEF Coders!ConvertTo
  <2>4. ASSUME Coders!FromPlainfile \/ Coders!FromWriteUnbuffered \/ Coders!FromUnbuffered
        PROVE  \E target \in Coders!Paths : \E files : Coders!ConvertTo(files, target)
    BY <2>4 DEF Coders!FromPlainfile, Coders!FromWriteUnbuffered, Coders!FromUnbuffered,
                Coders!Paths
  <2> QED
    BY <2>0, <2>1, <2>2, <2>3, <2>4 DEF Coders!OnDisk
<1>3. CodingTypes'
  BY <1>1, <1>2 DEF CodingTypes
<1>4. Whole' = Whole /\ Coders!IsCsv' = Coders!IsCsv
  BY <1>1, <1>2, Steady
<1> QED
  BY <1>1, <1>2, <1>3, <1>4, IdleStep

\* A coder that is converted writes what it wrote.
LEMMA CoderFromStep ==
  ASSUME CodingInv, NEW name, NEW to, Coders!CoderFrom(name, to),
         \/ {name, to} = {"serde_json", "simd_json"}
         \/ {name, to} = {"csv", "async_csv"}
  PROVE  CodingInv'
<1>1. /\ UNCHANGED <<stack, secrets, stored, sink, errors,
                     phase, todo, value, result, sealed, lost>>
      /\ phase = "idle" /\ coder.name = name /\ coder' = [coder EXCEPT !.name = to]
      /\ CodingTypes
  BY DEF Coders!CoderFrom, Coders!run, Coders!disk, CodingInv
<1>2. /\ coder' \in CoderType /\ coder'.name = to
      /\ coder'.headers = coder.headers /\ coder'.structs = coder.structs
  <2>1. coder \in CoderType /\ to \in {"serde_json", "simd_json", "csv", "async_csv"}
    BY <1>1 DEF CodingTypes
  <2> QED
    BY <1>1, <2>1 DEF CoderType
<1>3. CodingTypes'
  BY <1>1, <1>2 DEF CodingTypes
<1>4. Coders!IsCsv' = Coders!IsCsv
  BY <1>1, <1>2 DEF Coders!IsCsv
<1>5. Whole' = Whole
  BY <1>1, <1>2 DEF Whole, Coders!Marks, Coders!SerdeJsonMarks, Coders!SimdJsonMarks,
     Coders!CsvMarks, Coders!AsyncCsvMarks, Coders!AsyncCsvWriter, Coders!CsvWriter
<1> QED
  BY <1>1, <1>3, <1>4, <1>5, IdleStep

LEMMA RestartStep == CodingInv /\ Coders!Restart => CodingInv'
<1> SUFFICES ASSUME CodingInv, Coders!Restart PROVE CodingInv'
  OBVIOUS
<1>1. /\ UNCHANGED <<coder, stack, stored, value, sealed, lost>>
      /\ sink' = Coders!NoSink /\ phase' = "idle" /\ todo' = <<>>
      /\ result' = IF phase = "idle" THEN result ELSE "restart"
      /\ errors' = errors + 1 /\ secrets' = [key |-> errors', nonce |-> errors']
      /\ CodingTypes
  BY DEF Coders!Restart, Coders!RandomSecrets, CodingInv
<1>2. CodingTypes'
  <2>1. <<>> \in Seq(ValueMarks)
    OBVIOUS
  <2>2. errors \in Nat
    BY <1>1 DEF CodingTypes
  <2>3. errors' \in Nat
    BY <1>1, <2>2
  <2>4. secrets' \in Secrets
    BY <1>1, <2>3 DEF Secrets
  <2> QED
    BY <1>1, <2>1, <2>3, <2>4 DEF CodingTypes
<1>3. /\ Full' = Full /\ Seal' = Seal /\ Zstd' = Zstd /\ Sealing' = Sealing
      /\ Coders!IsCsv' = Coders!IsCsv
  BY <1>1, Steady
<1>4. ~Sealing => ClearInv'
  BY <1>1, <1>3 DEF CodingInv, ClearInv
<1>5. Sealing /\ ~Coders!IsCsv => SealedInv'
  BY <1>1, <1>3 DEF CodingInv, SealedInv, OneSeal
<1> QED
  BY <1>2, <1>3, <1>4, <1>5 DEF CodingInv

LEMMA ValueAssoc ==
  ASSUME NEW a \in Seq(ValueMarks), NEW b \in Seq(ValueMarks), NEW c \in Seq(ValueMarks)
  PROVE  (a \o b) \o c = a \o (b \o c)
BY ConcatAssociative

\* One mark is given to the writer, or none of it.
LEMMA WriteMarkStep == CodingInv /\ Coders!WriteMark => CodingInv'
<1> SUFFICES ASSUME CodingInv, Coders!WriteMark PROVE CodingInv'
  OBVIOUS
<1> DEFINE m == <<Head(todo)>>
<1>1. PICK s \in Coders!Write(Coders!Now, m) :
        /\ Coders!Becomes(s)
        /\ IF s.ok THEN todo' = Tail(todo) /\ UNCHANGED <<phase, result>>
                   ELSE /\ todo' = m
                        /\ phase' = Coders!AfterFlush(TRUE) /\ Coders!Answers("error")
  BY DEF Coders!WriteMark
<1>2. /\ phase = "writing" /\ todo # <<>>
      /\ UNCHANGED <<coder, value, sealed, lost>> /\ CodingTypes
  BY DEF Coders!WriteMark, CodingInv
<1>3. /\ m \in Seq(ValueMarks) /\ Tail(todo) \in Seq(ValueMarks) /\ m \o Tail(todo) = todo
      /\ Len(m) = 1
  <2>1. todo \in Seq(ValueMarks)
    BY <1>2 DEF CodingTypes
  <2>2. Head(todo) \in ValueMarks /\ Tail(todo) \in Seq(ValueMarks)
    BY <1>2, <2>1, HeadTailProperties
  <2> QED
    BY <1>2, <2>1, <2>2
<1> HIDE DEF m
<1>4. /\ Coders!Now \in Outcomes /\ Coders!Now.sink = sink /\ Coders!Now.stored = stored
      /\ Fits(Coders!Now) <=> SinkFits
      /\ Emptied(Coders!Now) <=> SinkEmpty
      /\ InFile(Coders!Now) = Buffered /\ HeldIn(Coders!Now) = Held
      /\ stack.wraps \in Coders!Wraps
  BY <1>2, NowIs DEF CodingTypes
<1>5. /\ s \in Outcomes
      /\ s.sink.async = sink.async /\ s.sink.with = sink.with
      /\ s.sink.finished = sink.finished
      /\ SinkFits => Fits(s)
      /\ ~Sealing /\ SinkFits =>
           /\ s.ok => HeldIn(s) = Held \o m
           /\ ~s.ok => HeldIn(s) = Held
      /\ Sealing => /\ s.ok /\ s.sink.plain = sink.plain \o m
                    /\ s.stored = stored
                    /\ s.sink.buffer = sink.buffer /\ s.sink.frame = sink.frame
  <2> DEFINE w == Coders!Now
  <2>1. s \in Coders!Write(w, m) /\ w \in Outcomes
    BY <1>1, <1>4
  <2> HIDE DEF w
  <2>2. /\ s \in Outcomes
        /\ s.sink.async = w.sink.async /\ s.sink.with = w.sink.with
        /\ s.sink.finished = w.sink.finished
        /\ Fits(w) => Fits(s)
        /\ ~Sealing /\ Fits(w) =>
             /\ s.ok => HeldIn(s) = HeldIn(w) \o m
             /\ ~s.ok /\ Len(m) = 1 => HeldIn(s) = HeldIn(w)
        /\ Sealing => /\ s.ok /\ s.sink.plain = w.sink.plain \o m
                      /\ s.stored = w.stored
                      /\ s.sink.buffer = w.sink.buffer /\ s.sink.frame = w.sink.frame
    BY <1>3, <1>4, <2>1, Writes
  <2> QED
    BY <1>3, <1>4, <2>2 DEF w
<1>6. /\ sink' = s.sink /\ stored' = s.stored /\ sink' \in Sinks
      /\ stored' \in Seq(FileMarks) /\ errors' \in Nat
      /\ stack' = stack /\ secrets' = secrets
      /\ SinkFits' <=> Fits(s)
      /\ SinkEmpty' <=> Emptied(s)
      /\ Buffered' = InFile(s) /\ Held' = HeldIn(s)
  BY <1>1, <1>5, BecomesIs
<1>7. /\ Whole' = Whole /\ Full' = Full /\ Seal' = Seal
      /\ Zstd' = Zstd /\ Sealing' = Sealing
      /\ Coders!Async' = Coders!Async /\ Coders!IsCsv' = Coders!IsCsv
  BY <1>2, <1>6, Steady
<1>8. /\ ~s.ok => /\ phase' = IF coder.name = "csv" THEN "coder drop" ELSE "dropping"
                  /\ result' # "ok" \/ result' = result
      /\ result # "ok" => result' # "ok"
  BY <1>1 DEF Coders!AfterFlush, Coders!Answers
<1>9. CodingTypes'
  <2>1. todo' \in Seq(ValueMarks)
    BY <1>1, <1>3
  <2>2. phase' \in {"writing", "coder drop", "dropping"}
        /\ (phase' = "coder drop" => coder.name = "csv")
    BY <1>1, <1>2, <1>8
  <2> QED
    BY <1>2, <1>5, <1>6, <1>7, <2>1, <2>2 DEF CodingTypes
<1>10. ASSUME ~Sealing PROVE ClearInv'
  <2>1. /\ ClearInv /\ SinkFits /\ sink.finished = FALSE /\ Held \o todo = Whole /\ result # "ok"
    BY <1>2, <1>10 DEF CodingInv, ClearInv
  <2>2. Held \in Seq(FileMarks) /\ m \in Seq(FileMarks) /\ Tail(todo) \in Seq(FileMarks)
    BY <1>2, <1>3, NowIs, ValueIsFileMarks
  <2>3. (Held \o m) \o Tail(todo) = Whole
    <3>1. (Held \o m) \o Tail(todo) = Held \o (m \o Tail(todo))
      BY <2>2, MarksAssoc, Zenon
    <3> QED
      BY <1>3, <2>1, <3>1
  <2>4. CASE s.ok
    <3>1. /\ phase' = "writing" /\ result' = result /\ todo' = Tail(todo)
      BY <1>1, <1>2, <2>4
    <3>2. HeldIn(s) \o Tail(todo) = Whole
      BY <1>5, <1>10, <2>1, <2>3, <2>4
    <3>3. Starts(s.stored, Full)
      BY <1>2, <1>3, <1>5, <3>2, HoldsPart
    <3> QED
      BY <1>5, <1>6, <1>7, <2>1, <3>1, <3>2, <3>3 DEF ClearInv
  <2>5. CASE ~s.ok
    <3>1. HeldIn(s) \o todo = Whole /\ todo \in Seq(ValueMarks)
      BY <1>2, <1>5, <1>10, <2>1, <2>5 DEF CodingTypes
    <3>2. Starts(HeldIn(s), Full) /\ Starts(s.stored, Full)
      BY <1>2, <1>5, <3>1, HoldsPart
    <3>3. phase' \in {"coder drop", "dropping"} /\ result' # "ok"
      BY <1>8, <2>1, <2>5
    <3> QED
      BY <1>5, <1>6, <1>7, <2>1, <3>2, <3>3 DEF ClearInv
  <2> QED
    BY <2>4, <2>5
<1>11. ASSUME Sealing, ~Coders!IsCsv PROVE SealedInv'
  <2>1. /\ SealedInv /\ SinkFits /\ stored = <<>> /\ SinkEmpty
        /\ sink.plain \o todo = Whole /\ result # "ok"
    BY <1>2, <1>11 DEF CodingInv, SealedInv
  <2>2. /\ phase' = "writing" /\ result' = result /\ todo' = Tail(todo)
    BY <1>1, <1>2, <1>5, <1>11
  <2>3. sink.plain \in Seq(ValueMarks) /\ m \in Seq(ValueMarks)
    BY <1>2, <1>3 DEF CodingTypes, Sinks
  <2>4. s.sink.plain \o Tail(todo) = Whole
    <3>1. (sink.plain \o m) \o Tail(todo) = sink.plain \o (m \o Tail(todo))
      BY <1>3, <2>3, ValueAssoc, Zenon
    <3> QED
      BY <1>3, <1>5, <1>11, <2>1, <3>1
  <2>5. SinkEmpty' /\ stored' = <<>> /\ SinkFits'
    BY <1>5, <1>6, <1>11, <2>1 DEF SinkEmpty, Emptied
  <2>6. Buffered' = <<>>
    BY <2>5 DEF Buffered, SinkEmpty
  <2> QED
    BY <1>6, <1>7, <2>1, <2>2, <2>4, <2>5, <2>6 DEF SealedInv, OneSeal
<1> QED
  BY <1>7, <1>9, <1>10, <1>11 DEF CodingInv

\* What a seal on an empty writer leaves.
LEMMA SealsOnce ==
  ASSUME CodingTypes, Sealing, phase # "idle", SinkFits, stored = <<>>, SinkEmpty,
         sink.plain = Whole,
         NEW s \in Coders!Flush(Coders!Now)
  PROVE  /\ s \in Outcomes /\ Fits(s)
         /\ IF Zstd THEN s.stored = <<>> /\ InFile(s) = <<>>
                    ELSE OneSeal(s.stored) /\ OneSeal(InFile(s))
         /\ ~Zstd /\ s.ok /\ ~sink.async => InFile(s) = <<Seal>>
<1>1. /\ Coders!Now \in Outcomes /\ Coders!Now.sink = sink /\ Coders!Now.stored = stored
      /\ Fits(Coders!Now) /\ HeldIn(Coders!Now) = Held
      /\ stack.wraps \in Coders!Wraps /\ sink.with = sealed
  BY NowIs DEF CodingTypes
<1>2. <<>> \o <<>> = <<>>
  OBVIOUS
<1>3. Held = <<>> /\ Buffered = <<>>
  BY <1>2 DEF Held, Buffered, SinkEmpty
<1>4. /\ SameWriter(Coders!Now, s) /\ s.sink.finished = Coders!Now.sink.finished
      /\ Fits(Coders!Now) => Fits(s)
      /\ Zstd => s.ok /\ s.stored = Coders!Now.stored
                 /\ s.sink.buffer = Coders!Now.sink.buffer
      /\ \E c \in {Coders!Cipher(<<>>, Coders!Now.sink.with),
                   Coders!Cipher(Coders!Now.sink.plain, Coders!Now.sink.with),
                   Coders!Unreadable} :
           /\ ~Coders!Now.sink.async =>
                c = Coders!Cipher(Coders!Now.sink.plain, Coders!Now.sink.with)
           /\ Fits(Coders!Now) =>
                /\ s.ok => HeldIn(s) = HeldIn(Coders!Now) \o <<c>>
                /\ ~s.ok => HeldIn(s) = HeldIn(Coders!Now)
  BY <1>1, Seals
<1>5. PICK c \in {Coders!Cipher(<<>>, sealed), Seal, Coders!Unreadable} :
        /\ ~sink.async => c = Seal
        /\ s.ok => HeldIn(s) = <<>> \o <<c>>
        /\ ~s.ok => HeldIn(s) = <<>>
  BY <1>1, <1>3, <1>4 DEF Seal
<1>6. s \in Outcomes /\ Fits(s)
  BY <1>1, <1>4 DEF SameWriter
<1>7. <<>> \o <<c>> = <<c>>
  OBVIOUS
<1>8. CASE Zstd
  <2>1. s.stored = <<>> /\ s.sink.buffer = <<>>
    BY <1>1, <1>4, <1>8 DEF SinkEmpty
  <2>2. InFile(s) = <<>>
    BY <1>2, <2>1 DEF InFile
  <2> QED
    BY <1>6, <1>8, <2>1, <2>2
<1>9. CASE ~Zstd
  <2>1. InFile(s) = HeldIn(s)
    BY <1>6, <1>9, PartsOf, WholeAndFull DEF Fits
  <2>2. s.ok => InFile(s) = <<c>>
    BY <1>5, <1>7, <2>1
  <2>3. ~s.ok => InFile(s) = <<>>
    BY <1>5, <2>1
  <2>4. OneSeal(InFile(s))
    BY <2>2, <2>3 DEF OneSeal
  <2>5. s.stored \in Seq(FileMarks) /\ s.sink.buffer \in Seq(FileMarks)
    BY <1>6, OutcomeFields
  <2>6. OneSeal(s.stored)
    BY <2>4, <2>5, SealParts DEF InFile
  <2> QED
    BY <1>5, <1>6, <1>9, <2>2, <2>4, <2>6
<1> QED
  BY <1>8, <1>9

\* The flush of the encoder: what it answers Ok for is in the file.
LEMMA FlushSinkStep == CodingInv /\ Coders!FlushSink => CodingInv'
<1> SUFFICES ASSUME CodingInv, Coders!FlushSink PROVE CodingInv'
  OBVIOUS
<1>1. PICK s \in Coders!Flush(Coders!Now) :
        /\ Coders!Becomes(s)
        /\ phase' = Coders!AfterFlush(~s.ok)
        /\ Coders!Answers(IF ~s.ok THEN "error" ELSE IF Coders!Async THEN "none" ELSE "ok")
  BY DEF Coders!FlushSink
<1>2. /\ phase = "writing" /\ todo = <<>>
      /\ UNCHANGED <<coder, value, sealed, lost, todo>> /\ CodingTypes
      /\ stack.wraps \in Coders!Wraps
  BY DEF Coders!FlushSink, Coders!Encoded, CodingInv, CodingTypes
<1>3. ~(Coders!Async /\ Sealing)
  BY <1>2, HasIs DEF Coders!FlushSink
<1>4. /\ Coders!Now \in Outcomes /\ Coders!Now.sink = sink /\ Coders!Now.stored = stored
      /\ Fits(Coders!Now) <=> SinkFits
      /\ Emptied(Coders!Now) <=> SinkEmpty
      /\ InFile(Coders!Now) = Buffered /\ HeldIn(Coders!Now) = Held
      /\ Held \in Seq(FileMarks) /\ Coders!Async \in BOOLEAN
  BY <1>2, NowIs
<1>5. SameWriter(Coders!Now, s)
  <2>1. CASE Sealing
    BY <1>2, <1>4, <2>1, Seals
  <2>2. CASE ~Sealing
    BY <1>2, <1>4, <2>2, Flushes
  <2> QED
    BY <2>1, <2>2
<1>6. /\ s \in Outcomes /\ s.sink.async = sink.async /\ s.sink.with = sink.with
      /\ sink.async = Coders!Async
  BY <1>2, <1>4, <1>5 DEF SameWriter, CodingTypes
<1>7. /\ sink' = s.sink /\ stored' = s.stored /\ sink' \in Sinks
      /\ stored' \in Seq(FileMarks) /\ errors' \in Nat
      /\ stack' = stack /\ secrets' = secrets
      /\ SinkFits' <=> Fits(s)
      /\ SinkEmpty' <=> Emptied(s)
      /\ Buffered' = InFile(s) /\ Held' = HeldIn(s)
  BY <1>1, <1>6, BecomesIs
<1>8. /\ Whole' = Whole /\ Full' = Full /\ Seal' = Seal
      /\ Zstd' = Zstd /\ Sealing' = Sealing
      /\ Coders!Async' = Coders!Async /\ Coders!IsCsv' = Coders!IsCsv
  BY <1>2, <1>7, Steady
<1>9. /\ phase' = IF coder.name = "csv" THEN "coder drop"
                  ELSE IF ~s.ok \/ ~Coders!Async THEN "dropping" ELSE "closing"
      /\ result # "ok" /\ (~s.ok \/ Coders!Async) => result' # "ok"
  BY <1>1 DEF Coders!AfterFlush, Coders!Answers
<1>10. coder.name = "csv" => Coders!IsCsv /\ ~Coders!Async
  BY DEF Coders!IsCsv, Coders!Async
<1>11. CodingTypes'
  BY <1>2, <1>6, <1>7, <1>8, <1>9 DEF CodingTypes
<1>12. ASSUME ~Sealing PROVE ClearInv'
  <2>1. /\ SinkFits /\ sink.finished = FALSE /\ Held \o todo = Whole /\ result # "ok"
    BY <1>2, <1>12 DEF CodingInv, ClearInv
  <2>2. Held = Whole
    <3>1. Held \o <<>> = Held
      BY <1>4, ConcatEmptySeq
    <3> QED
      BY <1>2, <2>1, <3>1
  <2>3. /\ s.sink.finished = (sink.finished \/ (Zstd /\ ~sink.async))
        /\ Fits(s) /\ (s.ok => Emptied(s))
        /\ HeldIn(s) = IF sink.async THEN Held ELSE Finished(Coders!Now)
    <3> DEFINE w == Coders!Now
    <3>1. s \in Coders!Flush(w) /\ w \in Outcomes
      BY <1>4
    <3> HIDE DEF w
    <3>2. /\ s.sink.finished = (w.sink.finished \/ (Zstd /\ ~w.sink.async))
          /\ Fits(w) =>
               /\ Fits(s)
               /\ s.ok => Emptied(s)
               /\ HeldIn(s) = IF w.sink.async THEN HeldIn(w) ELSE Finished(w)
      BY <1>2, <1>12, <3>1, Flushes
    <3> QED
      BY <1>4, <2>1, <3>2 DEF w
  <2>4. Finished(Coders!Now) = Full
    BY <1>4, <2>1, <2>2 DEF Finished, Full
  <2>5. Full \in Seq(FileMarks) /\ Starts(Whole, Full) /\ Starts(Full, Full)
    BY <1>2, WholeAndFull, StartsOf
  <2>6. HeldIn(s) = (IF Coders!Async THEN Whole ELSE Full) /\ Starts(HeldIn(s), Full)
    BY <1>6, <2>2, <2>3, <2>4, <2>5
  <2>7. Starts(s.stored, Full) /\ (Emptied(s) => s.stored = HeldIn(s))
    BY <1>6, <2>5, <2>6, PartsOf
  <2>8. CASE s.ok /\ ~Coders!Async
    <3>1. /\ phase' \in {"coder drop", "dropping"}
          /\ s.stored = Full /\ Emptied(s) /\ s.sink.finished = Zstd
      <4>1. ~sink.async
        BY <1>6, <2>8
      <4>2. s.sink.finished = Zstd
        <5>1. s.sink.finished = (FALSE \/ (Zstd /\ TRUE))
          BY <2>1, <2>3, <4>1
        <5> QED
          BY <5>1 DEF Zstd
      <4> QED
        BY <1>9, <2>3, <2>6, <2>7, <2>8, <4>2
    <3> QED
      BY <1>2, <1>7, <1>8, <2>3, <2>6, <2>7, <3>1 DEF ClearInv
  <2>9. CASE s.ok /\ Coders!Async
    <3>1. phase' = "closing" /\ result' # "ok" /\ s.sink.finished = FALSE
      BY <1>6, <1>9, <1>10, <2>1, <2>3, <2>9
    <3> QED
      BY <1>2, <1>7, <1>8, <2>3, <2>6, <2>7, <2>9, <3>1 DEF ClearInv
  <2>10. CASE ~s.ok
    <3>1. phase' \in {"coder drop", "dropping"} /\ result' # "ok"
      BY <1>9, <2>1, <2>10
    <3> QED
      BY <1>7, <1>8, <2>3, <2>6, <2>7, <3>1 DEF ClearInv
  <2> QED
    BY <2>8, <2>9, <2>10
<1>13. ASSUME Sealing, ~Coders!IsCsv PROVE SealedInv'
  <2>1. /\ SinkFits /\ stored = <<>> /\ SinkEmpty
        /\ sink.plain \o todo = Whole /\ result # "ok"
    BY <1>2, <1>13 DEF CodingInv, SealedInv
  <2>2. sink.plain = Whole
    <3>1. sink.plain \in Seq(ValueMarks)
      BY <1>2 DEF CodingTypes, Sinks
    <3> QED
      BY <1>2, <2>1, <3>1, ConcatEmptySeq
  <2>3. /\ Fits(s)
        /\ IF Zstd THEN s.stored = <<>> /\ InFile(s) = <<>>
                   ELSE OneSeal(s.stored) /\ OneSeal(InFile(s))
        /\ ~Zstd /\ s.ok /\ ~sink.async => InFile(s) = <<Seal>>
    BY <1>2, <1>13, <2>1, <2>2, SealsOnce
  <2>4. phase' = "dropping" /\ ~Coders!Async /\ (~s.ok => result' # "ok")
    BY <1>3, <1>9, <1>10, <1>13, <2>1
  <2>5. IF Zstd' THEN stored' = <<>> /\ Buffered' = <<>>
                 ELSE OneSeal(stored)' /\ OneSeal(Buffered)'
    BY <1>2, <1>7, <1>8, <2>3 DEF OneSeal
  <2> QED
    BY <1>6, <1>7, <1>8, <2>3, <2>4, <2>5 DEF SealedInv
<1> QED
  BY <1>8, <1>11, <1>12, <1>13 DEF CodingInv

\* The flush of an asynchronous Encrypted writer.
LEMMA AsyncEncryptedFlushSinkStep ==
  CodingInv /\ Coders!AsyncEncryptedFlushSink => CodingInv'
<1> SUFFICES ASSUME CodingInv, Coders!AsyncEncryptedFlushSink PROVE CodingInv'
  OBVIOUS
<1>1. PICK s \in Coders!Flush(Coders!Now) :
        /\ Coders!Becomes(s)
        /\ IF s.ok THEN phase' = "parked" /\ UNCHANGED result
                   ELSE phase' = "dropping" /\ result' = "error"
  BY DEF Coders!AsyncEncryptedFlushSink
<1>2. /\ phase = "writing" /\ todo = <<>> /\ Coders!Async
      /\ UNCHANGED <<coder, value, sealed, lost, todo>> /\ CodingTypes
      /\ stack.wraps \in Coders!Wraps
  BY DEF Coders!AsyncEncryptedFlushSink, Coders!Encoded, CodingInv, CodingTypes
<1>3. Sealing
  BY <1>2, HasIs DEF Coders!AsyncEncryptedFlushSink
<1>4. Coders!Now \in Outcomes /\ Coders!Now.sink = sink
  BY <1>2, NowIs
<1>5. /\ s \in Outcomes /\ s.sink.async = sink.async /\ s.sink.with = sink.with
  BY <1>2, <1>3, <1>4, Seals DEF SameWriter
<1>6. /\ sink' = s.sink /\ stored' = s.stored /\ sink' \in Sinks
      /\ stored' \in Seq(FileMarks) /\ errors' \in Nat
      /\ stack' = stack /\ secrets' = secrets
      /\ SinkFits' <=> Fits(s)
      /\ Buffered' = InFile(s)
  BY <1>1, <1>5, BecomesIs
<1>7. /\ Whole' = Whole /\ Full' = Full /\ Seal' = Seal
      /\ Zstd' = Zstd /\ Sealing' = Sealing
      /\ Coders!Async' = Coders!Async /\ Coders!IsCsv' = Coders!IsCsv
  BY <1>2, <1>6, Steady
<1>8. /\ phase' \in {"parked", "dropping"} /\ (result # "ok" => result' # "ok")
  BY <1>1
<1>9. CodingTypes'
  BY <1>2, <1>5, <1>6, <1>7, <1>8 DEF CodingTypes
<1>10. ASSUME ~Coders!IsCsv PROVE SealedInv'
  <2>1. /\ SinkFits /\ stored = <<>> /\ SinkEmpty
        /\ sink.plain \o todo = Whole /\ result # "ok"
    BY <1>2, <1>3, <1>10 DEF CodingInv, SealedInv
  <2>2. sink.plain = Whole
    <3>1. sink.plain \in Seq(ValueMarks)
      BY <1>2 DEF CodingTypes, Sinks
    <3>2. sink.plain \o <<>> = sink.plain
      BY <3>1, ConcatEmptySeq
    <3> QED
      BY <1>2, <2>1, <3>2
  <2>3. /\ Fits(s)
        /\ IF Zstd THEN s.stored = <<>> /\ InFile(s) = <<>>
                   ELSE OneSeal(s.stored) /\ OneSeal(InFile(s))
    BY <1>2, <1>3, <2>1, <2>2, SealsOnce
  <2>4. IF Zstd' THEN stored' = <<>> /\ Buffered' = <<>>
                 ELSE OneSeal(stored)' /\ OneSeal(Buffered)'
    BY <1>2, <1>6, <1>7, <2>3 DEF OneSeal
  <2> QED
    BY <1>6, <1>7, <1>8, <2>1, <2>3, <2>4 DEF SealedInv
<1> QED
  BY <1>3, <1>7, <1>9, <1>10 DEF CodingInv

\* A csv::Writer flushes when it is dropped: nothing is left to write, if it
\* was flushed.
LEMMA DropCoderStep == CodingInv /\ Coders!DropCoder => CodingInv'
<1> SUFFICES ASSUME CodingInv, Coders!DropCoder PROVE CodingInv'
  OBVIOUS
<1>1. PICK s \in Coders!Then(Coders!Write(Coders!Now, todo), Coders!Flush) : Coders!Becomes(s)
  BY DEF Coders!DropCoder
<1>2. PICK w \in Coders!Write(Coders!Now, todo) :
        s \in IF w.ok THEN Coders!Flush(w) ELSE {w}
  BY <1>1 DEF Coders!Then
<1>3. /\ phase = "coder drop" /\ phase' = "dropping" /\ todo' = <<>>
      /\ UNCHANGED <<coder, value, result, sealed, lost>> /\ CodingTypes
      /\ stack.wraps \in Coders!Wraps /\ todo \in Seq(ValueMarks) /\ Coders!IsCsv
  BY DEF Coders!DropCoder, CodingInv, CodingTypes, Coders!IsCsv
<1>4. /\ Coders!Now \in Outcomes /\ Coders!Now.sink = sink /\ Coders!Now.stored = stored
      /\ Fits(Coders!Now) <=> SinkFits
      /\ Emptied(Coders!Now) <=> SinkEmpty
  BY <1>3, NowIs
<1>5. /\ w \in Outcomes /\ w.sink.async = sink.async /\ w.sink.with = sink.with
      /\ w.sink.finished = sink.finished
      /\ SinkFits => Fits(w)
      /\ ~Sealing /\ SinkFits /\ SinkEmpty /\ todo = <<>> =>
           w.ok /\ w.stored = stored /\ Emptied(w)
  <2> DEFINE n == Coders!Now
  <2>1. w \in Coders!Write(n, todo) /\ n \in Outcomes
    BY <1>4
  <2> HIDE DEF n
  <2>2. /\ w \in Outcomes /\ w.sink.async = n.sink.async /\ w.sink.with = n.sink.with
        /\ w.sink.finished = n.sink.finished
        /\ Fits(n) => Fits(w)
        /\ ~Sealing /\ Fits(n) =>
             /\ Emptied(n) /\ todo = <<>> => w.ok /\ w.stored = n.stored /\ Emptied(w)
    BY <1>3, <2>1, Writes
  <2> QED
    BY <1>4, <2>2 DEF n
<1>8. /\ s \in Outcomes /\ s.sink.async = sink.async /\ s.sink.with = sink.with
      /\ ~Sealing /\ SinkFits /\ SinkEmpty /\ todo = <<>> /\ sink.finished = Zstd =>
           s.stored = stored /\ Emptied(s) /\ Fits(s) /\ s.sink.finished = Zstd
  <2>1. CASE w.ok
    <3>1. s \in Coders!Flush(w)
      BY <1>2, <2>1
    <3>2. SameWriter(w, s)
      <4>1. CASE Sealing
        BY <1>3, <1>5, <3>1, <4>1, Seals
      <4>2. CASE ~Sealing
        BY <1>3, <1>5, <3>1, <4>2, Flushes
      <4> QED
        BY <4>1, <4>2
    <3>3. s \in Outcomes /\ s.sink.async = sink.async /\ s.sink.with = sink.with
      BY <1>5, <3>2 DEF SameWriter
    <3>4. ASSUME ~Sealing, SinkFits, SinkEmpty, todo = <<>>, sink.finished = Zstd
          PROVE  /\ s.stored = stored /\ Emptied(s) /\ Fits(s)
                 /\ s.sink.finished = Zstd
      <4>1. /\ Fits(w) /\ Emptied(w) /\ w.stored = stored /\ w.sink.finished = Zstd
        BY <1>5, <3>4
      <4>2. /\ s.sink.finished = (w.sink.finished \/ (Zstd /\ ~w.sink.async))
            /\ Fits(s)
            /\ Emptied(w) /\ (w.sink.finished <=> Zstd) =>
                 s.ok /\ s.stored = w.stored /\ Emptied(s)
        BY <1>3, <1>5, <3>1, <3>4, <4>1, Flushes
      <4>3. s.stored = stored /\ Emptied(s)
        BY <4>1, <4>2
      <4>4. s.sink.finished = Zstd
        <5>1. CASE Zstd
          BY <4>1, <4>2, <5>1
        <5>2. CASE ~Zstd
          <6>1. s.sink.finished = (FALSE \/ (FALSE /\ ~w.sink.async))
            BY <4>1, <4>2, <5>2
          <6> QED
            BY <5>2, <6>1 DEF Zstd
        <5> QED
          BY <5>1, <5>2
      <4> QED
        BY <4>2, <4>3, <4>4
    <3> QED
      BY <3>3, <3>4
  <2>2. CASE ~w.ok
    <3>1. s = w
      BY <1>2, <2>2
    <3> QED
      BY <1>5, <2>2, <3>1
  <2> QED
    BY <2>1, <2>2
<1>9. /\ sink' = s.sink /\ stored' = s.stored /\ sink' \in Sinks
      /\ stored' \in Seq(FileMarks) /\ errors' \in Nat
      /\ stack' = stack /\ secrets' = secrets
      /\ SinkFits' <=> Fits(s)
      /\ SinkEmpty' <=> Emptied(s)
  BY <1>1, <1>8, BecomesIs
<1>10. /\ Full' = Full /\ Zstd' = Zstd /\ Sealing' = Sealing
       /\ Coders!Async' = Coders!Async /\ Coders!IsCsv' = Coders!IsCsv
  BY <1>3, <1>9, Steady
<1>11. CodingTypes'
  <2>1. <<>> \in Seq(ValueMarks)
    OBVIOUS
  <2> QED
    BY <1>3, <1>8, <1>9, <1>10, <2>1 DEF CodingTypes
<1>12. ASSUME ~Sealing PROVE ClearInv'
  <2>1. result = "ok" => /\ SinkFits /\ SinkEmpty /\ todo = <<>> /\ sink.finished = Zstd
                         /\ stored = Full
    BY <1>3, <1>12 DEF CodingInv, ClearInv
  <2>2. result' = "ok" => /\ SinkFits' /\ SinkEmpty' /\ sink'.finished = Zstd'
                          /\ stored' = Full'
    <3>1. CASE result = "ok"
      <4>1. s.stored = stored /\ Emptied(s) /\ Fits(s) /\ s.sink.finished = Zstd
        BY <1>8, <1>12, <2>1, <3>1
      <4> QED
        BY <1>9, <1>10, <2>1, <3>1, <4>1
    <3>2. CASE result # "ok"
      BY <1>3, <3>2
    <3> QED
      BY <3>1, <3>2
  <2> QED
    BY <1>3, <1>10, <2>2 DEF ClearInv
<1> QED
  BY <1>3, <1>10, <1>11, <1>12 DEF CodingInv

\* An asynchronous writer is closed.
LEMMA CloseSinkStep == CodingInv /\ Coders!CloseSink => CodingInv'
<1> SUFFICES ASSUME CodingInv, Coders!CloseSink PROVE CodingInv'
  OBVIOUS
<1>1. PICK s \in Coders!Close(Coders!Now) :
        Coders!Becomes(s) /\ result' = IF s.ok THEN "ok" ELSE "error"
  BY DEF Coders!CloseSink
<1>2. /\ phase = "closing" /\ phase' = "dropping"
      /\ UNCHANGED <<coder, value, sealed, lost, todo>> /\ CodingTypes
      /\ stack.wraps \in Coders!Wraps
  BY DEF Coders!CloseSink, CodingInv, CodingTypes
<1>3. /\ Coders!Now \in Outcomes /\ Coders!Now.sink = sink
      /\ Fits(Coders!Now) <=> SinkFits
      /\ HeldIn(Coders!Now) = Held
  BY <1>2, NowIs
<1>4. /\ s \in Outcomes /\ s.sink.async = sink.async /\ s.sink.with = sink.with
      /\ s.sink.finished = (sink.finished \/ Zstd)
      /\ SinkFits => /\ Fits(s) /\ HeldIn(s) = Finished(Coders!Now)
                     /\ s.ok => Emptied(s)
  <2> DEFINE n == Coders!Now
  <2>1. s \in Coders!Close(n) /\ n \in Outcomes
    BY <1>3
  <2> HIDE DEF n
  <2>2. /\ SameWriter(n, s) /\ s.sink.finished = (n.sink.finished \/ Zstd)
        /\ Fits(n) => /\ Fits(s) /\ HeldIn(s) = Finished(n)
                      /\ s.ok => Emptied(s)
    BY <1>2, <2>1, Closes
  <2> QED
    BY <1>3, <2>2 DEF n, SameWriter
<1>5. /\ sink' = s.sink /\ stored' = s.stored /\ sink' \in Sinks
      /\ stored' \in Seq(FileMarks) /\ errors' \in Nat
      /\ stack' = stack /\ secrets' = secrets
      /\ SinkFits' <=> Fits(s)
      /\ SinkEmpty' <=> Emptied(s)
      /\ Held' = HeldIn(s)
  BY <1>1, <1>4, BecomesIs
<1>6. /\ Full' = Full /\ Zstd' = Zstd /\ Sealing' = Sealing
      /\ Coders!Async' = Coders!Async /\ Coders!IsCsv' = Coders!IsCsv
  BY <1>2, <1>5, Steady
<1>7. CodingTypes'
  BY <1>2, <1>4, <1>5, <1>6 DEF CodingTypes
<1>8. ASSUME ~Sealing PROVE ClearInv'
  <2>1. SinkFits /\ sink.finished = FALSE /\ Held = Whole /\ todo = <<>>
    BY <1>2, <1>8 DEF CodingInv, ClearInv
  <2>2. Finished(Coders!Now) = Full
    BY <1>3, <2>1 DEF Finished, Full
  <2>3. /\ Fits(s) /\ HeldIn(s) = Full /\ (s.ok => Emptied(s))
    BY <1>4, <2>1, <2>2
  <2>4. s.sink.finished = Zstd
    <3>1. s.sink.finished = (FALSE \/ Zstd)
      BY <1>4, <2>1
    <3> QED
      BY <3>1 DEF Zstd
  <2>5. Full \in Seq(FileMarks) /\ Starts(Full, Full)
    BY <1>2, WholeAndFull, StartsOf
  <2>6. Starts(s.stored, Full) /\ (Emptied(s) => s.stored = Full)
    BY <1>4, <2>3, <2>5, PartsOf
  <2>7. result' = "ok" => s.ok
    BY <1>1
  <2> QED
    BY <1>2, <1>5, <1>6, <2>1, <2>3, <2>4, <2>5, <2>6, <2>7 DEF ClearInv
<1>9. ASSUME Sealing, ~Coders!IsCsv PROVE FALSE
  BY <1>2, <1>9 DEF CodingInv, SealedInv
<1> QED
  BY <1>6, <1>7, <1>8, <1>9 DEF CodingInv

\* The writer is dropped, and its BufWriter with it.
LEMMA DropWriterStep == CodingInv /\ Coders!DropWriter => CodingInv'
<1> SUFFICES ASSUME CodingInv, Coders!DropWriter PROVE CodingInv'
  OBVIOUS
<1>1. PICK s \in Coders!DropSink(Coders!Now) :
        stored' = s.stored /\ errors' = s.errors /\ lost' = ~s.ok
  BY DEF Coders!DropWriter
<1>2. /\ phase = "dropping" /\ phase' = "idle" /\ sink' = Coders!NoSink /\ todo' = <<>>
      /\ UNCHANGED <<coder, stack, secrets, value, sealed, result>> /\ CodingTypes
  BY DEF Coders!DropWriter, CodingInv
<1>3. /\ Coders!Now \in Outcomes /\ Coders!Now.sink = sink /\ Coders!Now.stored = stored
      /\ Fits(Coders!Now) <=> SinkFits
      /\ Emptied(Coders!Now) <=> SinkEmpty
      /\ InFile(Coders!Now) = Buffered /\ HeldIn(Coders!Now) = Held
      /\ sink.async = Coders!Async
  BY <1>2, NowIs DEF CodingTypes
<1>4. /\ s \in Outcomes
      /\ SinkFits => /\ \E b \in Seq(FileMarks) : s.stored \o b = Buffered
                     /\ ~Coders!Async /\ s.ok => s.stored = Buffered
                     /\ sink.buffer = <<>> => s.stored = stored
  <2> DEFINE n == Coders!Now
  <2>1. s \in Coders!DropSink(n) /\ n \in Outcomes
    BY <1>3
  <2> HIDE DEF n
  <2>2. /\ SameWriter(n, s)
        /\ Fits(n) => /\ \E b \in Seq(FileMarks) : s.stored \o b = InFile(n)
                      /\ ~n.sink.async /\ s.ok => s.stored = InFile(n)
                      /\ n.sink.buffer = <<>> => s.stored = n.stored
    BY <2>1, Drops
  <2> QED
    BY <1>3, <2>2 DEF n, SameWriter
<1>5. s.stored \in Seq(FileMarks) /\ s.errors \in Nat /\ s.ok \in BOOLEAN
  BY <1>4, OutcomeFields
<1>6. /\ Full' = Full /\ Seal' = Seal /\ Zstd' = Zstd /\ Sealing' = Sealing
      /\ Coders!IsCsv' = Coders!IsCsv
  BY <1>2, Steady
<1>7. CodingTypes'
  <2>1. <<>> \in Seq(ValueMarks)
    OBVIOUS
  <2> QED
    BY <1>1, <1>2, <1>5, <2>1 DEF CodingTypes
<1>8. ASSUME ~Sealing PROVE ClearInv'
  <2>1. /\ ~Coders!IsCsv => SinkFits /\ Starts(Held, Full)
        /\ result = "ok" => SinkFits /\ SinkEmpty /\ stored = Full
    BY <1>2, <1>8 DEF CodingInv, ClearInv
  <2>2. result = "ok" => s.stored = Full
    BY <1>4, <2>1 DEF SinkEmpty
  <2>3. ASSUME ~Coders!IsCsv PROVE Starts(s.stored, Full)
    <3>1. SinkFits /\ Starts(Held, Full) /\ Full \in Seq(FileMarks)
      BY <1>2, <2>1, <2>3, WholeAndFull
    <3>2. Starts(Buffered, Full)
      BY <1>3, <3>1, PartsOf
    <3>3. PICK b \in Seq(FileMarks) : s.stored \o b = Buffered
      BY <1>4, <3>1
    <3> QED
      BY <1>5, <3>1, <3>2, <3>3, StartsOf
  <2> QED
    BY <1>1, <1>2, <1>6, <2>2, <2>3 DEF ClearInv
<1>9. ASSUME Sealing, ~Coders!IsCsv PROVE SealedInv'
  <2>1. /\ SinkFits
        /\ IF Zstd THEN Buffered = <<>> ELSE OneSeal(Buffered)
        /\ result = "ok" /\ ~Zstd => ~Coders!Async /\ Buffered = <<Seal>>
    BY <1>2, <1>9 DEF CodingInv, SealedInv
  <2>2. PICK b \in Seq(FileMarks) : s.stored \o b = Buffered
    BY <1>4, <2>1
  <2>3. OneSeal(s.stored \o b)
    BY <2>1, <2>2 DEF OneSeal
  <2>4. OneSeal(s.stored) /\ (Buffered = <<>> => s.stored = <<>>)
    BY <1>5, <2>2, <2>3, SealParts
  <2>5. result = "ok" /\ ~Zstd /\ s.ok => s.stored = <<Seal>>
    BY <1>4, <2>1
  <2>6. IF Zstd' THEN stored' = <<>> ELSE OneSeal(stored)'
    BY <1>1, <1>2, <1>6, <2>1, <2>4 DEF OneSeal
  <2> QED
    BY <1>1, <1>2, <1>6, <2>5, <2>6 DEF SealedInv
<1> QED
  BY <1>6, <1>7, <1>8, <1>9 DEF CodingInv

\* Every step of the coders, and of the disk between two encodings.
LEMMA CodingNext == CodingInv /\ [Coders!Next]_(Coders!vars) => CodingInv'
<1> SUFFICES ASSUME CodingInv, [Coders!Next]_(Coders!vars) PROVE CodingInv'
  OBVIOUS
<1>1. ASSUME NEW n \in 0..MaxRows, Coders!Open(n) \/ Coders!AsyncOpen(n) PROVE CodingInv'
  <2>1. Coders!Begins(n, <<>>, Coders!ZstdOpens) /\ n \in Nat
    BY <1>1 DEF Coders!Open, Coders!AsyncOpen
  <2> QED
    BY <2>1, BeginStep
<1>2. ASSUME \/ Coders!SimdJsonFromSerdeJson \/ Coders!SerdeJsonFromSimdJson
             \/ Coders!CsvFromAsyncCsv \/ Coders!AsyncCsvFromCsv
      PROVE  CodingInv'
  <2>1. CASE Coders!SimdJsonFromSerdeJson
    BY <2>1, CoderFromStep DEF Coders!SimdJsonFromSerdeJson
  <2>2. CASE Coders!SerdeJsonFromSimdJson
    BY <2>2, CoderFromStep DEF Coders!SerdeJsonFromSimdJson
  <2>3. CASE Coders!CsvFromAsyncCsv
    BY <2>3, CoderFromStep DEF Coders!CsvFromAsyncCsv
  <2>4. CASE Coders!AsyncCsvFromCsv
    BY <2>4, CoderFromStep DEF Coders!AsyncCsvFromCsv
  <2> QED
    BY <1>2, <2>1, <2>2, <2>3, <2>4
<1>3. ASSUME UNCHANGED Coders!vars PROVE CodingInv'
  <2>1. /\ UNCHANGED <<coder, stack, secrets, stored, sink, errors,
                       phase, todo, value, result, sealed, lost>>
    BY <1>3 DEF Coders!vars, Coders!disk, Coders!run
  <2>2. UNCHANGED <<coder, Coders!disk, value, sealed>>
    BY <1>3 DEF Coders!vars, Coders!run
  <2>3. /\ SinkFits' = SinkFits /\ SinkEmpty' = SinkEmpty
        /\ Buffered' = Buffered /\ Held' = Held
        /\ OneSeal(Buffered)' = OneSeal(Buffered) /\ OneSeal(stored)' = OneSeal(stored)
        /\ Whole' = Whole /\ Full' = Full /\ Seal' = Seal
        /\ Zstd' = Zstd /\ Sealing' = Sealing
        /\ Coders!Async' = Coders!Async /\ Coders!IsCsv' = Coders!IsCsv
    BY <2>2, DiskRests
  <2>4. CodingTypes'
    BY <2>1, <2>3 DEF CodingInv, CodingTypes
  <2>5. ~Sealing => ClearInv'
    BY <2>1, <2>3 DEF CodingInv, ClearInv
  <2>6. Sealing /\ ~Coders!IsCsv => SealedInv'
    BY <2>1, <2>3 DEF CodingInv, SealedInv
  <2> QED
    BY <2>3, <2>4, <2>5, <2>6 DEF CodingInv
<1> QED
  BY <1>1, <1>2, <1>3, OpenFailsStep, NoHandlesStep, WriteMarkStep, FlushSinkStep,
     AsyncEncryptedFlushSinkStep, PollAgainStep, DropCoderStep, CloseSinkStep,
     DropWriterStep, CancelStep, CancelAsAsyncStep, RestartStep, SetHandlesStep,
     OnDiskStep DEF Coders!Next

LEMMA CodingInvariance == Coders!Spec => []CodingInv
BY CodingInit, CodingNext, PTL DEF Coders!Spec

-----------------------------------------------------------------------------
(***************************************************************************)
(* Coding: what a decoder makes of the file.                               *)
(***************************************************************************)
\* A self-delimiting value has one end, after its rows.
LEMMA WholeIs ==
  ASSUME CodingTypes, ~Coders!IsCsv
  PROVE  /\ value \in Nat /\ Len(Whole) = value + 1 /\ Whole[value + 1] = Coders!End
         /\ \A i \in 1..value : Whole[i].mark = "row"
<1>1. value \in Nat
  BY DEF CodingTypes
<1>2. /\ Whole = Append(Coders!Rows(value), Coders!End)
      /\ Coders!Rows(value) \in Seq(ValueMarks) /\ Len(Coders!Rows(value)) = value
      /\ \A i \in 1..value : Coders!Rows(value)[i] = Coders!Row(i)
  BY <1>1, MarksAre, RowsAre DEF Whole
<1>3. Coders!End \in ValueMarks
  BY DEF ValueMarks
<1>4. /\ Len(Whole) = value + 1 /\ Whole[value + 1] = Coders!End
      /\ \A i \in 1..value : Whole[i] = Coders!Row(i)
  BY <1>1, <1>2, <1>3, AppendProperties
<1>5. ASSUME NEW i \in 1..value PROVE Whole[i].mark = "row"
  <2>1. Whole[i] = Coders!Row(i)
    BY <1>4
  <2>2. Coders!Row(i).mark = "row"
    BY DEF Coders!Row
  <2> QED
    BY <2>1, <2>2
<1> QED
  BY <1>1, <1>4, <1>5

LEMMA MarksDiffer ==
  /\ \A m : m.mark = "row" => m # Coders!End /\ m # Coders!Unreadable
  /\ Coders!Tag # Coders!End /\ Coders!Unreadable # Coders!End
  /\ Coders!Header # Coders!Unreadable
  /\ Coders!FrameEnd # Coders!End /\ \A m : m.mark = "row" => m # Coders!FrameEnd
<1>1. /\ Coders!End.mark = "end" /\ Coders!Unreadable.mark = "unreadable"
      /\ Coders!Tag.mark = "tag" /\ Coders!Header.mark = "header"
      /\ Coders!FrameEnd.mark = "frame end"
  BY DEF Coders!End, Coders!Unreadable, Coders!Tag, Coders!Header, Coders!FrameEnd
<1> QED
  BY <1>1

\* The first end is the end.
LEMMA BincodeReads ==
  ASSUME NEW marks, Len(marks) \in Nat
  PROVE  /\ \A n \in Nat :
              /\ n < Len(marks) /\ marks[n + 1] = Coders!End
              /\ \A i \in 1..n : marks[i] # Coders!End
              => Coders!BincodeDecode(marks) = n
         /\ (\A i \in 1..Len(marks) : marks[i] # Coders!End) =>
              Coders!BincodeDecode(marks) = Coders!NotAValue
<1>1. ASSUME NEW n \in Nat, n < Len(marks), marks[n + 1] = Coders!End,
             \A i \in 1..n : marks[i] # Coders!End
      PROVE  Coders!BincodeDecode(marks) = n
  <2> DEFINE I == {i \in 1..Len(marks) : marks[i] = Coders!End}
  <2>1. n + 1 \in I /\ \A i \in I : i \in Nat /\ n + 1 <= i
    BY <1>1
  <2>2. Coders!Contains(marks, Coders!End)
    BY <1>1 DEF Coders!Contains
  <2>3. Coders!SelectInSeq(marks, LAMBDA m : m = Coders!End) = Coders!Min(I)
    BY <2>1 DEF Coders!SelectInSeq
  <2> HIDE DEF I
  <2>4. Coders!Min(I) = n + 1
    BY <2>1 DEF Coders!Min
  <2> QED
    BY <1>1, <2>2, <2>3, <2>4 DEF Coders!BincodeDecode
<1>2. ASSUME \A i \in 1..Len(marks) : marks[i] # Coders!End
      PROVE  Coders!BincodeDecode(marks) = Coders!NotAValue
  BY <1>2 DEF Coders!BincodeDecode, Coders!Contains
<1> QED
  BY <1>1, <1>2

\* The end is the last mark, and all before it are rows.
LEMMA SerdeJsonReads ==
  ASSUME NEW T, NEW marks \in Seq(T)
  PROVE  /\ \A n \in Nat :
              /\ Len(marks) = n + 1 /\ marks[n + 1] = Coders!End
              /\ \A i \in 1..n : marks[i].mark = "row"
              => Coders!SerdeJsonDecode(marks) = n
         /\ (marks # <<>> => marks[Len(marks)] # Coders!End) =>
              Coders!SerdeJsonDecode(marks) = Coders!NotAValue
<1>1. ASSUME NEW n \in Nat, Len(marks) = n + 1, marks[n + 1] = Coders!End,
             \A i \in 1..n : marks[i].mark = "row"
      PROVE  Coders!SerdeJsonDecode(marks) = n
  <2>1. marks # <<>> /\ Coders!Last(marks) = Coders!End
    BY <1>1 DEF Coders!Last
  <2>2. Coders!AreRows(Coders!Front(marks))
    <3>1. \A i \in 1..n : marks[i] \in T
      BY <1>1, ElementOfSeq
    <3>2. Coders!Front(marks) = SubSeq(marks, 1, n)
      BY <1>1 DEF Coders!Front
    <3>3. /\ SubSeq(marks, 1, n) \in Seq(T)
          /\ Len(SubSeq(marks, 1, n)) = IF 1 <= n THEN n - 1 + 1 ELSE 0
          /\ \A i \in 1..(n - 1 + 1) : SubSeq(marks, 1, n)[i] = marks[1 + i - 1]
      <4>1. 1 \in Int /\ n \in Int
        BY <1>1
      <4> QED
        BY <3>1, <4>1, SubSeqProperties
    <3>4. DOMAIN SubSeq(marks, 1, n) = 1..n
      BY <1>1, <3>3
    <3>5. \A i \in 1..n : SubSeq(marks, 1, n)[i] = marks[i]
      BY <1>1, <3>3
    <3> QED
      BY <1>1, <3>2, <3>4, <3>5 DEF Coders!AreRows
  <2> QED
    BY <1>1, <2>1, <2>2 DEF Coders!SerdeJsonDecode
<1>2. ASSUME marks # <<>> => marks[Len(marks)] # Coders!End
      PROVE  Coders!SerdeJsonDecode(marks) = Coders!NotAValue
  BY <1>2 DEF Coders!SerdeJsonDecode, Coders!Last
<1> QED
  BY <1>1, <1>2

\* Which decoder reads.
LEMMA DecodedBy ==
  ASSUME CodingTypes
  PROVE  /\ ~Coders!IsCsv => Coders!Decoded \in {Coders!BincodeDecode(Coders!Read),
                                                 Coders!SerdeJsonDecode(Coders!Read),
                                                 Coders!NotAValue}
         /\ ~Coders!IsCsv /\ handles =>
              Coders!Decoded \in {Coders!BincodeDecode(Coders!Read),
                                  Coders!SerdeJsonDecode(Coders!Read)}
         /\ coder.name \in {"bincode", "sync_coder_as_async"} =>
              Coders!Decoded = Coders!BincodeDecode(Coders!Read)
         /\ Coders!IsCsv => Coders!Decoded = Coders!CsvDecode(Coders!Read)
<1>1. coder.name \in {"csv", "async_csv", "bincode", "async_bincode", "serde_json", "simd_json",
                      "sync_coder_async_disk", "sync_coder_as_async"}
  BY DEF CodingTypes, CoderType
<1> DEFINE r == Coders!Read
<1> HIDE DEF r
<1>2. CASE coder.name = "csv"
  BY <1>2 DEF Coders!Decoded, Coders!IsCsv
<1>3. CASE coder.name = "async_csv"
  BY <1>3 DEF Coders!Decoded, Coders!IsCsv, Coders!AsyncCsvDecode, Coders!AsyncCsvReader,
              Coders!CsvDecode
<1>4. CASE coder.name \in {"bincode", "async_bincode", "sync_coder_as_async"}
  BY <1>4 DEF Coders!Decoded, Coders!IsCsv, Coders!AsyncBincodeDecode,
              Coders!SyncCoderAsAsyncDecode
<1>5. CASE coder.name \in {"serde_json", "simd_json", "sync_coder_async_disk"}
  BY <1>5 DEF Coders!Decoded, Coders!IsCsv, Coders!SimdJsonDecode,
              Coders!SyncCoderAsyncDiskDecode
<1> QED
  BY <1>1, <1>2, <1>3, <1>4, <1>5

\* Without Encrypted, what is read is a part of the value, and all of it if the
\* file is whole.
LEMMA ClearRead ==
  ASSUME CodingTypes, ~Sealing
  PROVE  /\ ~Coders!IsCsv /\ Starts(stored, Full) =>
              /\ Coders!Read \in Seq(FileMarks)
              /\ Starts(Coders!Read, Whole) \/ Coders!Read = <<Coders!Unreadable>>
         /\ stored = Full => Coders!Read = Whole
<1>1. /\ stack.wraps \in Coders!Wraps /\ stored \in Seq(FileMarks)
      /\ Whole \in Seq(FileMarks) /\ Full \in Seq(FileMarks)
  BY WholeAndFull DEF CodingTypes
<1>2. Coders!Read = IF Zstd THEN Coders!Unzstd(stored) ELSE stored
  BY <1>1, HasIs DEF Coders!Read
<1>3. CASE ~Zstd
  BY <1>1, <1>2, <1>3 DEF Full
<1>4. CASE Zstd
  <2>1. Full = Whole \o <<Coders!FrameEnd>>
    BY <1>4 DEF Full
  <2>2. /\ Len(Whole) \in Nat /\ Len(Full) = Len(Whole) + 1
        /\ Full[Len(Whole) + 1] = Coders!FrameEnd
        /\ \A i \in 1..Len(Whole) : Full[i] = Whole[i]
    BY <1>1, <2>1
  <2>3. Coders!Front(Full) = Whole
    <3>1. Coders!Front(Full) = SubSeq(Full, 1, Len(Whole))
      BY <2>2 DEF Coders!Front
    <3>2. /\ Len(SubSeq(Full, 1, Len(Whole))) = Len(Whole)
          /\ \A i \in 1..Len(Whole) : SubSeq(Full, 1, Len(Whole))[i] = Whole[i]
          /\ SubSeq(Full, 1, Len(Whole)) \in Seq(FileMarks)
      BY <1>1, <2>2
    <3> QED
      BY <1>1, <3>1, <3>2, SeqEqual
  <2>4. Full # <<>> /\ Coders!Last(Full) = Coders!FrameEnd
    BY <2>2 DEF Coders!Last
  <2>5. stored = Full => Coders!Read = Whole
    BY <1>2, <1>4, <2>3, <2>4 DEF Coders!Unzstd
  <2>6. ASSUME ~Coders!IsCsv, Starts(stored, Full)
        PROVE  /\ Coders!Read \in Seq(FileMarks)
               /\ Starts(Coders!Read, Whole) \/ Coders!Read = <<Coders!Unreadable>>
    <3>1. CASE stored = <<>>
      <4>1. Coders!Read = <<>> /\ <<>> \in Seq(FileMarks)
        BY <1>2, <1>4, <3>1 DEF Coders!Unzstd
      <4> QED
        BY <1>1, <4>1, StartsOf
    <3>2. CASE stored # <<>> /\ Coders!Last(stored) # Coders!FrameEnd
      <4>1. Coders!Read = <<Coders!Unreadable>>
        BY <1>2, <1>4, <3>2 DEF Coders!Unzstd
      <4>2. Coders!Unreadable \in FileMarks
        BY DEF FileMarks
      <4>3. <<Coders!Unreadable>> \in Seq(FileMarks)
        BY <4>2
      <4> QED
        BY <4>1, <4>3
    <3>3. CASE stored # <<>> /\ Coders!Last(stored) = Coders!FrameEnd
      <4>1. Len(stored) \in Nat \ {0} /\ stored[Len(stored)] = Coders!FrameEnd
        <5>1. Len(stored) \in Nat /\ Len(stored) # 0
          BY <1>1, <3>3, EmptySeq
        <5> QED
          BY <3>3, <5>1 DEF Coders!Last
      <4>2. /\ Len(stored) <= Len(Whole) + 1
            /\ \A i \in 1..Len(stored) : stored[i] = Full[i]
        BY <2>2, <2>6 DEF Starts
      <4>3. \A i \in 1..Len(Whole) : Whole[i] # Coders!FrameEnd
        BY <2>6, WholeIs, MarksDiffer
      <4>4. Len(stored) = Len(Whole) + 1
        <5> SUFFICES ASSUME Len(stored) # Len(Whole) + 1 PROVE FALSE
          OBVIOUS
        <5>1. Len(stored) \in 1..Len(Whole) /\ Len(stored) \in 1..Len(stored)
          BY <2>2, <4>1, <4>2
        <5>2. stored[Len(stored)] = Whole[Len(stored)]
          BY <2>2, <4>2, <5>1
        <5> QED
          BY <4>1, <4>3, <5>1, <5>2
      <4>5. stored = Full
        BY <1>1, <2>2, <4>2, <4>4, SeqEqual
      <4> QED
        BY <1>1, <2>5, <4>5, StartsOf
    <3> QED
      BY <3>1, <3>2, <3>3
  <2> QED
    BY <2>5, <2>6
<1> QED
  BY <1>3, <1>4

\* Under Encrypted, a plaintext comes with its tag after it.
LEMMA SealedRead ==
  ASSUME CodingTypes, Sealing, IF Zstd THEN stored = <<>> ELSE OneSeal(stored)
  PROVE  /\ Coders!Read \in {<<Coders!Unreadable>>, <<Coders!Tag>>, Append(Whole, Coders!Tag)}
         /\ ~Zstd /\ stored = <<Seal>> /\ secrets = sealed =>
              Coders!Read = Append(Whole, Coders!Tag)
<1>1. stack.wraps \in Coders!Wraps /\ Whole \in Seq(FileMarks)
  BY WholeAndFull DEF CodingTypes
<1>2. Coders!Read = Coders!Decrypt(IF Zstd THEN Coders!Unzstd(stored) ELSE stored)
  BY <1>1, HasIs DEF Coders!Read
<1>3. Len(<<>>) = 0 /\ \A c : Len(<<c>>) = 1 /\ <<c>>[1] = c
  OBVIOUS
<1>4. Coders!Decrypt(<<>>) = <<Coders!Unreadable>>
  BY <1>3 DEF Coders!Decrypt
<1>5. \A c : c.mark # "cipher" => Coders!Decrypt(<<c>>) = <<Coders!Unreadable>>
  BY <1>3 DEF Coders!Decrypt
<1>6. ASSUME NEW p, NEW w
      PROVE  Coders!Decrypt(<<Coders!Cipher(p, w)>>) =
               IF w = secrets THEN Append(p, Coders!Tag) ELSE <<Coders!Unreadable>>
  <2>1. /\ Coders!Cipher(p, w).mark = "cipher" /\ Coders!Cipher(p, w).with = w
        /\ Coders!Cipher(p, w).marks = p
    BY DEF Coders!Cipher
  <2> DEFINE c == Coders!Cipher(p, w)
  <2> HIDE DEF c
  <2>2. Coders!Decrypt(<<c>>) =
          IF c.mark = "cipher" /\ c.with = secrets THEN Append(c.marks, Coders!Tag)
          ELSE <<Coders!Unreadable>>
    BY <1>3 DEF Coders!Decrypt, Coders!Truncate
  <2> QED
    BY <2>1, <2>2 DEF c
<1>7. Append(<<>>, Coders!Tag) = <<Coders!Tag>>
  OBVIOUS
<1>8. Coders!Decrypt(<<Coders!Unreadable>>) = <<Coders!Unreadable>>
  <2>1. Coders!Unreadable.mark # "cipher"
    BY DEF Coders!Unreadable
  <2> QED
    BY <1>5, <2>1
<1>9. CASE Zstd
  <2>1. Coders!Unzstd(stored) = <<>>
    BY <1>9 DEF Coders!Unzstd
  <2> QED
    BY <1>2, <1>4, <1>9, <2>1
<1>10. CASE ~Zstd
  <2>1. CASE stored = <<>>
    BY <1>2, <1>4, <1>10, <2>1, <1>3
  <2>2. CASE stored = <<Coders!Cipher(<<>>, sealed)>>
    <3>1. Coders!Read \in {<<Coders!Tag>>, <<Coders!Unreadable>>}
      BY <1>2, <1>6, <1>7, <1>10, <2>2
    <3>2. stored = <<Seal>> => Whole = <<>>
      <4>1. ASSUME stored = <<Seal>> PROVE Coders!Cipher(<<>>, sealed).marks = Seal.marks
        <5>1. <<Seal>>[1] = <<Coders!Cipher(<<>>, sealed)>>[1]
          BY <2>2, <4>1
        <5> QED
          BY <1>3, <5>1
      <4> QED
        BY <4>1 DEF Seal, Coders!Cipher
    <3>3. stored = <<Seal>> /\ secrets = sealed => Coders!Read = Append(Whole, Coders!Tag)
      BY <1>2, <1>6, <1>10, <2>2, <3>2
    <3> QED
      BY <3>1, <3>3
  <2>3. CASE stored = <<Seal>>
    BY <1>2, <1>6, <1>10, <2>3 DEF Seal
  <2>4. CASE stored = <<Coders!Unreadable>>
    <3>1. stored # <<Seal>>
      <4>1. ASSUME stored = <<Seal>> PROVE FALSE
        <5>1. Coders!Unreadable = Seal
          <6>1. <<Seal>>[1] = <<Coders!Unreadable>>[1]
            BY <2>4, <4>1
          <6> QED
            BY <1>3, <6>1
        <5> QED
          BY <5>1 DEF Seal, Coders!Cipher, Coders!Unreadable
      <4> QED
        BY <4>1
    <3> QED
      BY <1>2, <1>8, <1>10, <2>4, <3>1
  <2> QED
    BY <1>10, <2>1, <2>2, <2>3, <2>4 DEF OneSeal
<1> QED
  BY <1>9, <1>10

\* A decoder of self-delimiting values refuses a part of one.
LEMMA PartDecoded ==
  ASSUME CodingTypes, ~Coders!IsCsv, NEW r \in Seq(FileMarks), Starts(r, Whole)
  PROVE  /\ Coders!BincodeDecode(r) \in {value, Coders!NotAValue}
         /\ Coders!SerdeJsonDecode(r) \in {value, Coders!NotAValue}
         /\ r = Whole => Coders!BincodeDecode(r) = value /\ Coders!SerdeJsonDecode(r) = value
<1>1. /\ value \in Nat /\ Len(Whole) = value + 1 /\ Whole[value + 1] = Coders!End
      /\ \A i \in 1..value : Whole[i].mark = "row"
  BY WholeIs
<1>2. Len(r) \in Nat /\ Len(r) <= value + 1 /\ \A i \in 1..Len(r) : r[i] = Whole[i]
  BY <1>1, LenProperties DEF Starts
<1>3. \A i \in 1..value : Whole[i] # Coders!End
  BY <1>1, MarksDiffer
<1>4. CASE Len(r) = value + 1
  <2>1. /\ value < Len(r) /\ r[value + 1] = Coders!End
        /\ \A i \in 1..value : r[i] # Coders!End /\ r[i].mark = "row"
    BY <1>1, <1>2, <1>3, <1>4
  <2>2. Coders!BincodeDecode(r) = value
    BY <1>1, <1>2, <2>1, BincodeReads
  <2>3. Coders!SerdeJsonDecode(r) = value
    BY <1>1, <1>4, <2>1, SerdeJsonReads
  <2> QED
    BY <2>2, <2>3
<1>5. CASE Len(r) # value + 1
  <2>1. \A i \in 1..Len(r) : r[i] # Coders!End
    BY <1>1, <1>2, <1>3, <1>5
  <2>2. r # <<>> => r[Len(r)] # Coders!End
    <3>1. r # <<>> => Len(r) # 0
      BY EmptySeq
    <3> QED
      BY <1>2, <2>1, <3>1
  <2>3. Coders!BincodeDecode(r) = Coders!NotAValue
    BY <1>2, <2>1, BincodeReads
  <2>4. Coders!SerdeJsonDecode(r) = Coders!NotAValue
    BY <2>2, SerdeJsonReads
  <2>5. r # Whole
    BY <1>1, <1>5
  <2> QED
    BY <2>3, <2>4, <2>5
<1> QED
  BY <1>4, <1>5

\* What is not a value is refused, and bincode takes no notice of a tag.
LEMMA TailDecoded ==
  ASSUME CodingTypes, ~Coders!IsCsv
  PROVE  /\ \A m \in {Coders!Unreadable, Coders!Tag} :
              /\ Coders!BincodeDecode(<<m>>) = Coders!NotAValue
              /\ Coders!SerdeJsonDecode(<<m>>) = Coders!NotAValue
         /\ Coders!BincodeDecode(Append(Whole, Coders!Tag)) = value
         /\ Coders!SerdeJsonDecode(Append(Whole, Coders!Tag)) = Coders!NotAValue
<1> DEFINE T == FileMarks \cup {Coders!Tag}
<1>1. /\ value \in Nat /\ Len(Whole) = value + 1 /\ Whole[value + 1] = Coders!End
      /\ \A i \in 1..value : Whole[i].mark = "row"
  BY WholeIs
<1>2. \A i \in 1..value : Whole[i] # Coders!End
  BY <1>1, MarksDiffer
<1>3. Whole \in Seq(T) /\ Coders!Tag \in T /\ Coders!Unreadable \in T
  <2>1. Whole \in Seq(FileMarks) /\ FileMarks \subseteq T
    BY WholeAndFull
  <2>2. Coders!Unreadable \in FileMarks
    BY DEF FileMarks
  <2> QED
    BY <2>1, <2>2
<1> HIDE DEF T
<1>4. ASSUME NEW m \in {Coders!Unreadable, Coders!Tag}
      PROVE  /\ Coders!BincodeDecode(<<m>>) = Coders!NotAValue
             /\ Coders!SerdeJsonDecode(<<m>>) = Coders!NotAValue
  <2>1. m \in T /\ m # Coders!End
    BY <1>3, MarksDiffer
  <2>2. <<m>> \in Seq(T) /\ Len(<<m>>) = 1 /\ <<m>>[1] = m
    BY <2>1
  <2>3. Coders!BincodeDecode(<<m>>) = Coders!NotAValue
    BY <2>1, <2>2, BincodeReads
  <2>4. Coders!SerdeJsonDecode(<<m>>) = Coders!NotAValue
    BY <2>1, <2>2, SerdeJsonReads
  <2> QED
    BY <2>3, <2>4
<1> DEFINE r == Append(Whole, Coders!Tag)
<1>5. /\ r \in Seq(T) /\ Len(r) = value + 2 /\ r[value + 2] = Coders!Tag
      /\ \A i \in 1..(value + 1) : r[i] = Whole[i]
  BY <1>1, <1>3, AppendProperties
<1> HIDE DEF r
<1>6. Coders!BincodeDecode(r) = value
  <2>1. /\ Len(r) \in Nat /\ value < Len(r) /\ r[value + 1] = Coders!End
        /\ \A i \in 1..value : r[i] # Coders!End
    BY <1>1, <1>2, <1>5
  <2> QED
    BY <1>1, <2>1, BincodeReads
<1>7. Coders!SerdeJsonDecode(r) = Coders!NotAValue
  <2>1. r[Len(r)] # Coders!End
    BY <1>5, MarksDiffer
  <2> QED
    BY <1>5, <2>1, SerdeJsonReads
<1> QED
  BY <1>4, <1>6, <1>7 DEF r

\* A CSV reader with the options of the writer takes the header it wrote.
LEMMA CsvDecoded ==
  ASSUME CodingTypes, Coders!IsCsv, ~(coder.headers /\ ~coder.structs)
  PROVE  Coders!CsvDecode(Whole) = value
<1>1. /\ value \in Nat /\ Whole = Coders!CsvWriter(Coders!Rows(value))
      /\ Coders!Rows(value) \in Seq(ValueMarks) /\ Len(Coders!Rows(value)) = value
      /\ \A i \in 1..value : Coders!Rows(value)[i] = Coders!Row(i)
      /\ coder.headers \in BOOLEAN /\ coder.structs \in BOOLEAN
  BY MarksAre, RowsAre DEF CodingTypes, CoderType, Whole
<1> DEFINE rows == Coders!Rows(value)
<1> HIDE DEF rows
<1>2. /\ Len(rows) = value /\ DOMAIN rows = 1..value
      /\ \A i \in 1..value : rows[i].mark = "row" /\ rows[i] # Coders!Unreadable
  <2>1. Len(rows) = value /\ DOMAIN rows = 1..value
    BY <1>1 DEF rows
  <2>2. ASSUME NEW i \in 1..value PROVE rows[i].mark = "row"
    <3>1. rows[i] = Coders!Row(i)
      BY <1>1 DEF rows
    <3>2. Coders!Row(i).mark = "row"
      BY DEF Coders!Row
    <3> QED
      BY <3>1, <3>2
  <2> QED
    BY <2>1, <2>2, MarksDiffer
<1>3. Coders!AreRows(rows)
  BY <1>2 DEF Coders!AreRows
<1>4. CASE coder.headers /\ rows # <<>>
  <2>1. Whole = <<Coders!Header>> \o rows
    BY <1>1, <1>4 DEF Coders!CsvWriter, rows
  <2>2. Coders!Header \in ValueMarks /\ rows \in Seq(ValueMarks)
    BY <1>1 DEF ValueMarks, rows
  <2>3. /\ <<Coders!Header>> \in Seq(ValueMarks)
        /\ Len(<<Coders!Header>>) = 1 /\ <<Coders!Header>>[1] = Coders!Header
    BY <2>2
  <2>4. /\ Whole \in Seq(ValueMarks) /\ Len(Whole) = value + 1 /\ Whole[1] = Coders!Header
        /\ \A i \in 2..(value + 1) : Whole[i] = rows[i - 1]
    BY <1>1, <1>2, <2>1, <2>2, <2>3, ConcatProperties
  <2>5. Tail(Whole) = rows
    <3>1. Whole # <<>>
      BY <1>1, <2>4
    <3>2. /\ Tail(Whole) \in Seq(ValueMarks) /\ Len(Tail(Whole)) = value
          /\ \A i \in 1..value : Tail(Whole)[i] = Whole[i + 1]
      BY <1>1, <2>4, <3>1, HeadTailProperties
    <3>3. \A i \in 1..value : Tail(Whole)[i] = rows[i]
      BY <1>1, <2>4, <3>2
    <3> QED
      BY <1>1, <1>2, <2>2, <3>2, <3>3, SeqEqual
  <2>6. Coders!CsvReader(Whole) = rows
    BY <1>1, <1>4, <2>4, <2>5 DEF Coders!CsvReader
  <2>7. ~Coders!Contains(Whole, Coders!Unreadable)
    <3>1. ASSUME NEW i \in 1..(value + 1) PROVE Whole[i] # Coders!Unreadable
      <4>1. CASE i = 1
        BY <2>4, <4>1, MarksDiffer
      <4>2. CASE i # 1
        BY <1>1, <1>2, <2>4, <4>2
      <4> QED
        BY <4>1, <4>2
    <3> QED
      BY <2>4, <3>1 DEF Coders!Contains
  <2> QED
    BY <1>2, <1>3, <2>6, <2>7 DEF Coders!CsvDecode
<1>5. CASE ~(coder.headers /\ rows # <<>>)
  <2>1. Whole = rows
    BY <1>1, <1>5 DEF Coders!CsvWriter, rows
  <2>2. Coders!CsvReader(Whole) = rows
    BY <1>5, <2>1 DEF Coders!CsvReader
  <2>3. ~Coders!Contains(Whole, Coders!Unreadable)
    BY <1>2, <2>1 DEF Coders!Contains
  <2> QED
    BY <1>2, <1>3, <2>2, <2>3 DEF Coders!CsvDecode
<1> QED
  BY <1>4, <1>5

\* An answer Ok says that the file is whole, or whole and sealed.
LEMMA CodingIsDecodable == CodingInv => EncodedIsDecodable
<1> SUFFICES ASSUME CodingInv, phase = "idle", result = "ok", secrets = sealed, ~Coders!Excepted
             PROVE  Coders!Decoded = value
  BY DEF EncodedIsDecodable, Coders!EncodedIsDecodable
<1>1. CodingTypes /\ stack.wraps \in Coders!Wraps
  BY DEF CodingInv, CodingTypes
<1>2. /\ Sealing => ~Zstd /\ ~lost /\ coder.name \in {"bincode", "sync_coder_as_async"}
      /\ ~(Coders!IsCsv /\ coder.headers /\ ~coder.structs) /\ handles
  BY <1>1, HasIs DEF Coders!Excepted
<1>3. CASE ~Sealing
  <2>1. stored = Full
    BY <1>3 DEF CodingInv, ClearInv
  <2>2. Coders!Read = Whole
    BY <1>1, <1>3, <2>1, ClearRead
  <2>3. CASE Coders!IsCsv
    BY <1>1, <1>2, <2>2, <2>3, DecodedBy, CsvDecoded
  <2>4. CASE ~Coders!IsCsv
    <3>1. Whole \in Seq(FileMarks) /\ Starts(Whole, Whole)
      BY <1>1, WholeAndFull, StartsOf
    <3>2. Coders!BincodeDecode(Whole) = value /\ Coders!SerdeJsonDecode(Whole) = value
      BY <1>1, <2>4, <3>1, PartDecoded
    <3> QED
      BY <1>1, <1>2, <2>2, <2>4, <3>2, DecodedBy
  <2> QED
    BY <2>3, <2>4
<1>4. CASE Sealing
  <2>1. ~Coders!IsCsv /\ ~Zstd /\ ~lost /\ coder.name \in {"bincode", "sync_coder_as_async"}
    BY <1>2, <1>4 DEF Coders!IsCsv
  <2>2. stored = <<Seal>> /\ OneSeal(stored)
    BY <1>4, <2>1 DEF CodingInv, SealedInv
  <2>3. Coders!Read = Append(Whole, Coders!Tag)
    BY <1>1, <1>4, <2>1, <2>2, SealedRead
  <2>4. Coders!Decoded = Coders!BincodeDecode(Append(Whole, Coders!Tag))
    BY <1>1, <2>1, <2>3, DecodedBy
  <2> QED
    BY <1>1, <2>1, <2>4, TailDecoded
<1> QED
  BY <1>3, <1>4

\* Whatever is in the file, it is a part of the value or one ciphertext.
LEMMA CodingIsRefused == CodingInv => TornIsRefused
<1> SUFFICES ASSUME CodingInv, ~Coders!IsCsv
             PROVE  Coders!Decoded \in {value, Coders!NotAValue}
  BY DEF TornIsRefused, Coders!TornIsRefused
<1>1. CodingTypes
  BY DEF CodingInv
<1>2. /\ Coders!BincodeDecode(Coders!Read) \in {value, Coders!NotAValue}
      /\ Coders!SerdeJsonDecode(Coders!Read) \in {value, Coders!NotAValue}
  <2>1. CASE ~Sealing
    <3>1. /\ Coders!Read \in Seq(FileMarks)
          /\ Starts(Coders!Read, Whole) \/ Coders!Read = <<Coders!Unreadable>>
      BY <1>1, <2>1, ClearRead DEF CodingInv, ClearInv
    <3> QED
      BY <1>1, <3>1, PartDecoded, TailDecoded
  <2>2. CASE Sealing
    <3>1. Coders!Read \in {<<Coders!Unreadable>>, <<Coders!Tag>>, Append(Whole, Coders!Tag)}
      BY <1>1, <2>2, SealedRead DEF CodingInv, SealedInv
    <3> QED
      BY <1>1, <3>1, TailDecoded
  <2> QED
    BY <2>1, <2>2
<1> QED
  BY <1>1, <1>2, DecodedBy

\* "Fully write out formatted data to a target disk" (formats/mod.rs:33): what
\* an encoder has answered Ok for is what its decoder reads, for every number of
\* rows and of errors, whatever was converted, deserialised or set in between.
THEOREM EncodedStaysDecodable == Coders!Spec => []EncodedIsDecodable
<1> QED
  BY CodingInvariance, CodingIsDecodable, PTL

\* What an error, a cancellation or a restart leaves of a value is refused by the
\* decoders that are told of its end, and never read as another value
\* (formats/bincode.rs, formats/serde_json.rs).
THEOREM TornStaysRefused == Coders!Spec => []TornIsRefused
<1> QED
  BY CodingInvariance, CodingIsRefused, PTL
=============================================================================
