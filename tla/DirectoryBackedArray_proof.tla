--------------------- MODULE DirectoryBackedArray_proof ---------------------
(***************************************************************************)
(* That no chunk's file is lost, that an array's files are in its root,    *)
(* and that no chunk's file is left behind, for any number of arrays,      *)
(* directories and names, and whatever fails, is cancelled or is cut by a  *)
(* restart.                                                                *)
(*                                                                         *)
(* A step either leaves every whole file where it is, or moves one, or     *)
(* removes one with its entry, or spoils one and says so.  What it moves   *)
(* and where to must be a chunk and a directory (Typed).  Where a sound    *)
(* array's files are needs more (HomeInv): that no two arrays name a file, *)
(* that an array names each once, how far a merge or a move has come, and  *)
(* the same of the metadata an array may be loaded from.                   *)
(***************************************************************************)
EXTENDS DirectoryBackedArray, TLAPS

Typed ==
  /\ files \in [Roots \X Names -> {"none", "torn", "whole"}]
  /\ meta \in [Roots -> Array \cup {None, Torn}]
  /\ array \in [Arrays -> Array \cup {None}]
  /\ work \in [Arrays -> Work]
  /\ \A a \in Arrays : work[a] = Idle \/ array[a] \in Array
  /\ born \subseteq Names

IInv == Typed /\ NothingIsLost

-----------------------------------------------------------------------------
(***************************************************************************)
(* What the helpers return.                                                *)
(***************************************************************************)
LEMMA WithoutType ==
  ASSUME NEW chunks \in Seq(Chunk), NEW i \in DOMAIN chunks
  PROVE  Without(chunks, i) \in Seq(Chunk)
<1>1. SubSeq(chunks, 1, i - 1) \in Seq(Chunk) /\ SubSeq(chunks, i + 1, Len(chunks)) \in Seq(Chunk)
  OBVIOUS
<1> QED
  BY <1>1 DEF Without

LEMMA UnsettledType ==
  ASSUME NEW record \in Array \cup {None, Torn}, NEW names
  PROVE  /\ Unsettled(record, names) \in Array \cup {None, Torn}
         /\ record \in Array \cup {None} => Unsettled(record, names) \in Array \cup {None}
         /\ record \in Array => Unsettled(record, names) \in Array
  BY DEF Unsettled, Array

LEMMA UnsettleMetaType ==
  ASSUME Typed, NEW name, UnsettleMeta(name)
  PROVE  meta' \in [Roots -> Array \cup {None, Torn}]
  BY UnsettledType DEF Typed, UnsettleMeta

LEMMA BelowType ==
  ASSUME NEW record \in Array, NEW r \in Roots
  PROVE  Below(record, r) \in Array
<1>1. record.chunks \in Seq(Chunk) /\ record.sound \in BOOLEAN
  BY DEF Array
<1> DEFINE Moved(i) == [record.chunks[i] EXCEPT !.dir = r]
<1>2. \A i \in 1..Len(record.chunks) : Moved(i) \in Chunk
  <2>1. \A c \in Chunk : [c EXCEPT !.dir = r] \in Chunk
    BY DEF Chunk
  <2>2. \A i \in 1..Len(record.chunks) : record.chunks[i] \in Chunk
    BY <1>1
  <2> QED
    BY <2>1, <2>2, Zenon
<1>3. DOMAIN record.chunks = 1..Len(record.chunks) /\ Len(record.chunks) \in Nat
  BY <1>1
<1> DEFINE chunks == [i \in DOMAIN record.chunks |-> Moved(i)]
<1> HIDE DEF Moved
<1>4. chunks \in Seq(Chunk)
  BY <1>2, <1>3
<1>5. [record EXCEPT !.root = r, !.chunks = chunks] \in Array
  <2> HIDE DEF chunks
  <2> QED
    BY <1>4 DEF Array
<1>6. Below(record, r) = [record EXCEPT !.root = r, !.chunks = chunks]
  BY Zenon DEF Below, Moved, Array
<1> QED
  BY <1>5, <1>6

\* The kinds of work are told apart by their names.
LEMMA WorkKinds ==
  ASSUME NEW w \in Work
  PROVE  /\ Appending(w) => w \in [op : {"append_dir", "append_array"}, left : Seq(Chunk), rhs : Array]
         /\ Moving(w) => w \in [op : {"move_root"}, left : Seq(Chunk), to : Roots]
  BY DEF Work, Appending, Moving, Idle

LEMMA WorkLeft ==
  ASSUME NEW w \in Work, Appending(w) \/ Moving(w), NEW left \in Seq(Chunk)
  PROVE  [w EXCEPT !.left = left] \in Work
<1> DEFINE S == Seq(Chunk)
<1> HIDE DEF S
<1>1. \A v \in [op : {"append_dir", "append_array"}, left : S, rhs : Array] :
        \A l \in S : [v EXCEPT !.left = l] \in [op : {"append_dir", "append_array"}, left : S, rhs : Array]
  OBVIOUS
<1>2. \A v \in [op : {"move_root"}, left : S, to : Roots] :
        \A l \in S : [v EXCEPT !.left = l] \in [op : {"move_root"}, left : S, to : Roots]
  OBVIOUS
<1> QED
  BY <1>1, <1>2, WorkKinds, Zenon DEF S, Work

\* An array with work under way is alive.
LEMMA BusyType ==
  ASSUME Typed, NEW a \in Arrays, Appending(work[a]) \/ Moving(work[a])
  PROVE  array[a] \in Array /\ array[a].root \in Roots
<1>1. work[a] # Idle
  BY DEF Appending, Moving, Idle
<1>2. array[a] \in Array
  BY <1>1, Zenon DEF Typed
<1> QED
  BY <1>2 DEF Array

\* The chunk whose file goes next is a chunk, and what is left is chunks.
LEMMA LeftType ==
  ASSUME Typed, NEW a \in Arrays, Appending(work[a]) \/ Moving(work[a]), work[a].left # <<>>
  PROVE  /\ Head(work[a].left) \in Chunk
         /\ [work EXCEPT ![a].left = Tail(@)] \in [Arrays -> Work]
<1>1. work[a].left \in Seq(Chunk)
  BY WorkKinds DEF Typed
<1>2. Head(work[a].left) \in Chunk /\ Tail(work[a].left) \in Seq(Chunk)
  BY <1>1
<1>3. [work[a] EXCEPT !.left = Tail(@)] \in Work
  BY <1>2, WorkLeft, Zenon DEF Typed
<1>4. [work EXCEPT ![a].left = Tail(@)] = [work EXCEPT ![a] = [work[a] EXCEPT !.left = Tail(@)]]
  BY Zenon DEF Typed
<1> QED
  BY <1>2, <1>3, <1>4 DEF Typed

LEMMA IdleType == Idle \in Work
  BY DEF Work

LEMMA GoneType ==
  ASSUME Typed, NEW a \in Arrays, Gone(a)
  PROVE  /\ array' \in [Arrays -> Array \cup {None}] /\ work' \in [Arrays -> Work]
         /\ \A b \in Arrays : work'[b] = Idle \/ array'[b] \in Array
  BY IdleType DEF Typed, Gone

\* A file is moved between directories, and nowhere else.
LEMMA MoveType ==
  ASSUME Typed, NEW c \in Chunk, NEW to \in Roots,
         Rename(c, to) \/ CopyAndRemove(c, to) \/ CopyStops(c, to)
  PROVE  files' \in [Roots \X Names -> {"none", "torn", "whole"}]
<1>1. <<c.dir, c.name>> \in Roots \X Names /\ <<to, c.name>> \in Roots \X Names
  BY DEF Chunk
<1>2. FileOf(c) \in {"none", "torn", "whole"}
  BY <1>1 DEF Typed, FileOf
<1>3. CopiedTo(c, to) \in [Roots \X Names -> {"none", "torn", "whole"}]
  BY <1>1, <1>2 DEF Typed, CopiedTo
<1>4. CASE Rename(c, to)
  BY <1>1, <1>2, <1>4 DEF Typed, Rename
<1>5. CASE CopyAndRemove(c, to)
  BY <1>1, <1>3, <1>5 DEF CopyAndRemove
<1>6. CASE CopyStops(c, to)
  BY <1>1, <1>3, <1>6 DEF Typed, CopyStops
<1> QED
  BY <1>4, <1>5, <1>6

-----------------------------------------------------------------------------
(***************************************************************************)
(* Types.                                                                  *)
(***************************************************************************)
LEMMA TypedInit == Init => Typed
  BY IdleType DEF Init, Typed

\* The operations that leave every file alone, or touch one of their own.
LEMMA TypedArrays ==
  ASSUME Typed, NEW a \in Arrays,
         \/ \E r \in Roots : \/ New(a, r) \/ FromExistingArray(a, r)
                             \/ Load(a, r) \/ UpdateRoot(a, r)
         \/ \E n \in Names : AppendChunk(a, n)
         \/ Save(a) \/ Drop(a)
  PROVE  Typed'
<1> USE DEF Typed, Live, Ready, disk, history
<1>1. ASSUME NEW r \in Roots, New(a, r) PROVE Typed'
  BY <1>1 DEF New, Array
<1>2. ASSUME NEW r \in Roots, FromExistingArray(a, r) PROVE Typed'
  <2>1. [array[a] EXCEPT !.root = r, !.sound = FALSE] \in Array
    BY <1>2 DEF FromExistingArray, Array
  <2>2. array' = [array EXCEPT ![a] = [array[a] EXCEPT !.root = r, !.sound = FALSE]]
    BY <1>2 DEF FromExistingArray
  <2> QED
    BY <1>2, <2>1, <2>2 DEF FromExistingArray
<1>3. ASSUME NEW r \in Roots, Load(a, r) PROVE Typed'
  BY <1>3 DEF Load
<1>4. ASSUME NEW r \in Roots, UpdateRoot(a, r) PROVE Typed'
  <2>1. Below(array[a], r) \in Array
    BY <1>4, BelowType DEF UpdateRoot
  <2>2. [Below(array[a], r) EXCEPT !.sound = TRUE] \in Array
    BY <2>1 DEF Array
  <2> QED
    BY <1>4, <2>2 DEF UpdateRoot
<1>5. ASSUME NEW n \in Names, AppendChunk(a, n) PROVE Typed'
  <2>1. array[a] \in Array /\ array[a].root \in Roots
    BY <1>5 DEF AppendChunk, Array
  <2> DEFINE c == [name |-> n, dir |-> array[a].root]
  <2>2. c \in Chunk
    BY <2>1 DEF Chunk
  <2>3. [array[a] EXCEPT !.chunks = Append(@, c)] \in Array
    <3> HIDE DEF c
    <3>1. array[a].chunks \in Seq(Chunk)
      BY <2>1 DEF Array
    <3>2. Append(array[a].chunks, c) \in Seq(Chunk)
      BY <2>2, <3>1
    <3> QED
      BY <2>1, <3>2 DEF Array
  <2>4. array' = [array EXCEPT ![a] = [array[a] EXCEPT !.chunks = Append(@, c)]] \/ array' = array
    BY <1>5 DEF AppendChunk
  <2>5. /\ array' \in [Arrays -> Array \cup {None}]
        /\ \A b \in Arrays : work[b] = Idle \/ array'[b] \in Array
    <3> HIDE DEF c
    <3> QED
      BY <2>3, <2>4
  <2>6. files' \in [Roots \X Names -> {"none", "torn", "whole"}]
    BY <1>5, <2>1 DEF AppendChunk
  <2> QED
    BY <1>5, <2>5, <2>6 DEF AppendChunk
<1>6. CASE Save(a)
  BY <1>6 DEF Save
<1>7. CASE Drop(a)
  BY <1>7, GoneType DEF Drop
<1> QED
  BY <1>1, <1>2, <1>3, <1>4, <1>5, <1>6, <1>7

LEMMA TypedRemoval ==
  ASSUME Typed, NEW a \in Arrays,
         \/ RemoveChunk(a) \/ ARemoveDropped(a)
         \/ Delete(a) \/ DeleteStops(a) \/ DeleteDropped(a) \/ DeleteEnds(a)
  PROVE  Typed'
<1> USE DEF Typed, Live, Ready, Deleting, disk, history
<1>1. ASSUME NEW i \in DOMAIN array[a].chunks, array[a] \in Array, RemoveAtIndex(a, i)
      PROVE  /\ array' \in [Arrays -> Array \cup {None}] /\ array'[a] \in Array
             /\ \A b \in Arrays : b = a \/ array'[b] = array[b]
             /\ files' \in [Roots \X Names -> {"none", "torn", "whole"}]
  <2>1. array[a].chunks \in Seq(Chunk)
    BY <1>1 DEF Array
  <2>2. Without(array[a].chunks, i) \in Seq(Chunk)
    BY <1>1, <2>1, WithoutType, Zenon
  <2>3. [array[a] EXCEPT !.chunks = Without(@, i)] \in Array
    BY <1>1, <2>2 DEF Array
  <2>4. array' = [array EXCEPT ![a] = [array[a] EXCEPT !.chunks = Without(@, i)]]
    BY <1>1 DEF RemoveAtIndex
  <2>5. files' \in [Roots \X Names -> {"none", "torn", "whole"}]
    BY <1>1, <2>1 DEF RemoveAtIndex, Chunk
  <2> QED
    BY <2>3, <2>4, <2>5
<1>2. CASE RemoveChunk(a)
  BY <1>1, <1>2 DEF RemoveChunk
<1>3. CASE Delete(a)
  <2>1. array[a] \in Array
    BY <1>3 DEF Delete
  <2>2. 1 \in DOMAIN array[a].chunks
    BY <1>3, <2>1 DEF Delete, Array
  <2>3. [op |-> "delete"] \in Work
    BY DEF Work
  <2> QED
    BY <1>1, <1>3, <2>1, <2>2, <2>3 DEF Delete
<1>4. CASE DeleteStops(a)
  BY <1>4, GoneType DEF DeleteStops
<1>5. CASE DeleteEnds(a)
  BY <1>5, GoneType DEF DeleteEnds
<1>6. ASSUME NEW c \in Chunk, files' = [files EXCEPT ![<<c.dir, c.name>>] = "none"]
      PROVE  files' \in [Roots \X Names -> {"none", "torn", "whole"}]
  BY <1>6 DEF Chunk
<1>7. CASE ARemoveDropped(a)
  <2>1. array[a] \in Array /\ array[a].chunks \in Seq(Chunk)
    BY <1>7 DEF ARemoveDropped, Array
  <2>2. PICK i \in DOMAIN array[a].chunks :
          /\ files' = [files EXCEPT ![<<array[a].chunks[i].dir, array[a].chunks[i].name>>] = "none"]
          /\ UnsettleMeta(array[a].chunks[i].name)
    BY <1>7, Zenon DEF ARemoveDropped
  <2>3. array[a].chunks[i] \in Chunk
    BY <2>1
  <2>4. files' \in [Roots \X Names -> {"none", "torn", "whole"}]
    BY <1>6, <2>2, <2>3, Zenon
  <2>5. meta' \in [Roots -> Array \cup {None, Torn}]
    BY <2>2, UnsettleMetaType, Zenon
  <2>6. [array[a] EXCEPT !.sound = FALSE] \in Array
    BY <2>1 DEF Array
  <2>7. array' = [array EXCEPT ![a] = [array[a] EXCEPT !.sound = FALSE]] /\ UNCHANGED <<work, born>>
    BY <1>7 DEF ARemoveDropped
  <2> QED
    BY <2>1, <2>4, <2>5, <2>6, <2>7
<1>8. CASE DeleteDropped(a)
  <2>1. array[a] \in Array /\ array[a].chunks \in Seq(Chunk) /\ array[a].chunks # <<>>
    BY <1>8 DEF DeleteDropped, Array
  <2>2. Head(array[a].chunks) \in Chunk
    BY <2>1
  <2>3. files' \in [Roots \X Names -> {"none", "torn", "whole"}]
    BY <1>6, <1>8, <2>2, Zenon DEF DeleteDropped
  <2> QED
    BY <1>8, <2>3, GoneType DEF DeleteDropped
<1> QED
  BY <1>2, <1>3, <1>4, <1>5, <1>7, <1>8

LEMMA TypedAppend ==
  ASSUME Typed, NEW a \in Arrays, NEW b \in Arrays,
         \/ AppendDir(a, b) \/ AppendArray(a, b)
         \/ AppendMoves(a) \/ AppendStops(a) \/ CancelAppending(a) \/ AppendEnds(a)
  PROVE  Typed'
<1> USE DEF Typed, Live, Ready, disk, history
<1>1. ASSUME NEW op \in {"append_dir", "append_array"}, NEW left,
             left = <<>> \/ left = array[b].chunks, BeginAppend(a, b, op, left)
      PROVE  Typed'
  <2>1. array[b] \in Array /\ array[b].chunks \in Seq(Chunk)
    BY <1>1 DEF BeginAppend, Array
  <2>2. [op |-> op, rhs |-> array[b], left |-> left] \in Work
    <3>1. <<>> \in Seq(Chunk)
      OBVIOUS
    <3>2. left \in Seq(Chunk)
      BY <1>1, <2>1, <3>1, Zenon
    <3> QED
      BY <2>1, <3>2, Zenon DEF Work
  <2> QED
    BY <1>1, <2>2 DEF BeginAppend
<1>2. CASE AppendDir(a, b)
  BY <1>1, <1>2 DEF AppendDir
<1>3. CASE AppendArray(a, b)
  BY <1>1, <1>3 DEF AppendArray
<1>4. CASE AppendMoves(a)
  <2> DEFINE c == Head(work[a].left)  to == array[a].root
  <2>1. /\ c \in Chunk /\ [work EXCEPT ![a].left = Tail(@)] \in [Arrays -> Work]
        /\ array[a] \in Array /\ to \in Roots
    BY <1>4, LeftType, BusyType DEF AppendMoves
  <2>2. work' \in [Arrays -> Work] /\ \A d \in Arrays : d = a \/ work'[d] = work[d]
    BY <1>4, <2>1 DEF AppendMoves
  <2>3. CASE c.dir = to
    <3> DEFINE sound == array[a].sound /\ FileOf(c) # "none"
    <3>1. array' = [array EXCEPT ![a] = [array[a] EXCEPT !.sound = sound]]
      BY <1>4, <2>3, Zenon DEF AppendMoves
    <3>2. sound \in BOOLEAN
      BY Zenon
    <3>3. [array[a] EXCEPT !.sound = sound] \in Array
      <4> HIDE DEF sound
      <4> QED
        BY <2>1, <3>2 DEF Array
    <3>4. array' \in [Arrays -> Array \cup {None}] /\ \A d \in Arrays : work'[d] = Idle \/ array'[d] \in Array
      BY <2>2, <3>1, <3>3
    <3> QED
      BY <1>4, <2>2, <2>3, <3>4 DEF AppendMoves
  <2>4. CASE c.dir # to
    <3>1. Rename(c, to) \/ CopyAndRemove(c, to)
      BY <1>4, <2>4 DEF AppendMoves
    <3>2. meta' \in [Roots -> Array \cup {None, Torn}]
      BY <1>4, <2>4, UnsettleMetaType DEF AppendMoves
    <3>3. files' \in [Roots \X Names -> {"none", "torn", "whole"}]
      BY <2>1, <3>1, MoveType
    <3> QED
      BY <1>4, <2>1, <2>2, <2>4, <3>2, <3>3 DEF AppendMoves
  <2> QED
    BY <2>3, <2>4
<1>5. CASE AppendStops(a) \/ CancelAppending(a)
  <2> DEFINE c == Head(work[a].left)  to == array[a].root
  <2>1. c \in Chunk /\ to \in Roots
    BY <1>5, LeftType, BusyType DEF AppendStops, CancelAppending, Appending
  <2>2. files' \in [Roots \X Names -> {"none", "torn", "whole"}]
    BY <1>5, <2>1, MoveType DEF AppendStops, CancelAppending
  <2>3. meta' \in [Roots -> Array \cup {None, Torn}]
    BY <1>5, UnsettleMetaType DEF AppendStops, CancelAppending
  <2> QED
    BY <1>5, <2>2, <2>3, IdleType DEF AppendStops, CancelAppending
<1>6. CASE AppendEnds(a)
  <2> DEFINE rhs == work[a].rhs
             sound == array[a].sound /\ rhs.sound
             chunks == array[a].chunks \o rhs.chunks
  <2>1. array[a] \in Array /\ rhs \in Array
    BY <1>6, WorkKinds, BusyType DEF AppendEnds
  <2>2. chunks \in Seq(Chunk)
    BY <2>1 DEF Array
  <2>3. sound \in BOOLEAN
    BY <2>1, Zenon DEF Array
  <2>4. [array[a] EXCEPT !.chunks = chunks, !.sound = sound] \in Array
    <3> HIDE DEF sound, chunks
    <3> QED
      BY <2>1, <2>2, <2>3 DEF Array
  <2>5. array' = [array EXCEPT ![a] = [array[a] EXCEPT !.chunks = chunks, !.sound = sound]]
    BY <1>6, <2>1, Zenon DEF AppendEnds
  <2>6. array' \in [Arrays -> Array \cup {None}] /\ \A d \in Arrays : d = a \/ array'[d] = array[d]
    <3> HIDE DEF sound, chunks
    <3> QED
      BY <2>4, <2>5
  <2>7. work' \in [Arrays -> Work] /\ work'[a] = Idle /\ \A d \in Arrays : d = a \/ work'[d] = work[d]
    BY <1>6, IdleType DEF AppendEnds
  <2>8. meta' \in [Roots -> Array \cup {None, Torn}]
    BY <1>6 DEF AppendEnds, CleanUp, ACleanUp
  <2> QED
    BY <1>6, <2>6, <2>7, <2>8 DEF AppendEnds
<1> QED
  BY <1>2, <1>3, <1>4, <1>5, <1>6

\* The renamed directory's array has its chunks there, and whatever else names
\* its files is unsettled.
LEMMA TypedRename ==
  ASSUME Typed, NEW a \in Arrays, NEW r \in Roots,
         NEW record \in Array, RenameDir(a, r, record), UNCHANGED born
  PROVE  Typed'
<1> DEFINE from == array[a].root
           taken == {n \in Names : files[<<from, n>>] # "none"}
<1>1. array[a] \in Array /\ from \in Roots
  BY DEF RenameDir, Ready, Live, Typed, Array
<1>2. files' \in [Roots \X Names -> {"none", "torn", "whole"}]
  BY <1>1 DEF RenameDir, Typed
<1>3. meta' \in [Roots -> Array \cup {None, Torn}]
  <2>1. \A d \in Roots : Unsettled(meta[d], taken) \in Array \cup {None, Torn}
    BY UnsettledType DEF Typed
  <2>2. \A d \in Roots : meta'[d] \in {None, Unsettled(meta[from], taken), Unsettled(meta[d], taken)}
    BY Zenon DEF RenameDir
  <2>3. meta' = [d \in Roots |-> meta'[d]]
    BY Zenon DEF RenameDir
  <2> QED
    BY <1>1, <2>1, <2>2, <2>3
<1>4. /\ array' \in [Arrays -> Array \cup {None}]
      /\ \A b \in Arrays : array[b] \in Array => array'[b] \in Array
  <2>2. \A b \in Arrays : /\ Unsettled(array[b], taken) \in Array \cup {None}
                          /\ array[b] \in Array => Unsettled(array[b], taken) \in Array
    BY UnsettledType DEF Typed
  <2>3. \A b \in Arrays : array'[b] = IF b = a THEN record ELSE Unsettled(array[b], taken)
    BY Zenon DEF RenameDir
  <2>4. array' = [b \in Arrays |-> array'[b]]
    BY Zenon DEF RenameDir
  <2> QED
    BY <2>2, <2>3, <2>4
<1>5. /\ work' \in [Arrays -> Work]
      /\ \A b \in Arrays : work[b] = Idle => work'[b] = Idle
  <2> DEFINE S == Seq(Chunk)
             Merged(w) == [w EXCEPT !.rhs = Unsettled(@, taken)]
             Merging(w) == IF Appending(w) THEN Merged(w) ELSE w
  <2>1. ASSUME NEW w \in Work, Appending(w) PROVE Merged(w) \in Work
    <3> HIDE DEF S
    <3>1. w \in [op : {"append_dir", "append_array"}, left : S, rhs : Array]
      BY <2>1, WorkKinds, Zenon DEF S
    <3>2. Unsettled(w.rhs, taken) \in Array
      BY <3>1, UnsettledType
    <3>3. Merged(w) \in [op : {"append_dir", "append_array"}, left : S, rhs : Array]
      BY <3>1, <3>2
    <3> QED
      BY <3>3, Zenon DEF Work, S
  <2>2. work' = [b \in Arrays |-> Merging(work[b])]
    BY Zenon DEF RenameDir
  <2>3. ~Appending(Idle)
    BY DEF Appending, Idle
  <2> HIDE DEF Merged
  <2> QED
    BY <2>1, <2>2, <2>3 DEF Typed
<1> QED
  BY <1>2, <1>3, <1>4, <1>5, Zenon DEF Typed

LEMMA TypedMove ==
  ASSUME Typed, NEW a \in Arrays,
         \/ \E r \in Roots : MoveRoot(a, r) \/ ARenameDropped(a, r)
         \/ MoveMoves(a) \/ MoveStops(a) \/ CancelMoving(a) \/ MoveEnds(a) \/ Cancel(a)
  PROVE  Typed'
<1> USE DEF Typed, Live, Ready, disk, history
<1>1. ASSUME NEW r \in Roots, RenameRoot(a, r) \/ ARenameDropped(a, r) PROVE Typed'
  <2>1. array[a] \in Array
    BY <1>1 DEF RenameRoot, ARenameDropped, RenameDir
  <2>2. Below(array[a], r) \in Array /\ [array[a] EXCEPT !.sound = FALSE] \in Array
    BY <2>1, BelowType DEF Array
  <2>3. PICK record \in Array : RenameDir(a, r, record)
    BY <1>1, <2>2, Zenon DEF RenameRoot, ARenameDropped
  <2>4. UNCHANGED born
    BY <1>1, Zenon DEF RenameRoot, ARenameDropped, history
  <2> QED
    BY <2>3, <2>4, TypedRename, Zenon
<1>2. ASSUME NEW r \in Roots, BeginMove(a, r) PROVE Typed'
  <2>1. array[a] \in Array /\ array[a].chunks \in Seq(Chunk)
    BY <1>2 DEF BeginMove, Array
  <2>2. [op |-> "move_root", left |-> array[a].chunks, to |-> r] \in Work
    BY <2>1, Zenon DEF Work
  <2> QED
    BY <1>2, <2>1, <2>2 DEF BeginMove
<1>3. ASSUME Moving(work[a])
      PROVE  array[a] \in Array /\ work[a].to \in Roots
  BY <1>3, BusyType, WorkKinds
<1>4. CASE MoveMoves(a)
  <2> DEFINE c == Head(work[a].left)
  <2>1. /\ c \in Chunk /\ [work EXCEPT ![a].left = Tail(@)] \in [Arrays -> Work]
        /\ array[a] \in Array /\ work[a].to \in Roots
    BY <1>3, <1>4, LeftType DEF MoveMoves
  <2>2. work' \in [Arrays -> Work] /\ \A b \in Arrays : b = a \/ work'[b] = work[b]
    BY <1>4, <2>1 DEF MoveMoves
  <2>3. files' \in [Roots \X Names -> {"none", "torn", "whole"}]
    BY <1>4, <2>1, MoveType DEF MoveMoves
  <2>4. meta' \in [Roots -> Array \cup {None, Torn}]
    BY <1>4, UnsettleMetaType DEF MoveMoves
  <2> QED
    BY <1>4, <2>1, <2>2, <2>3, <2>4 DEF MoveMoves
<1>5. CASE MoveStops(a) \/ CancelMoving(a)
  <2> DEFINE c == Head(work[a].left)
  <2>1. c \in Chunk /\ array[a] \in Array /\ work[a].to \in Roots
    BY <1>3, <1>5, LeftType DEF MoveStops, CancelMoving
  <2>2. files' \in [Roots \X Names -> {"none", "torn", "whole"}]
    BY <1>5, <2>1, MoveType DEF MoveStops, CancelMoving
  <2>3. meta' \in [Roots -> Array \cup {None, Torn}]
    BY <1>5, UnsettleMetaType DEF MoveStops, CancelMoving
  <2>4. [array[a] EXCEPT !.sound = FALSE] \in Array
    BY <2>1 DEF Array
  <2>5. /\ array' \in [Arrays -> Array \cup {None}]
        /\ \A b \in Arrays : array[b] \in Array => array'[b] \in Array
    BY <1>5, <2>4 DEF MoveStops, CancelMoving
  <2> QED
    BY <1>5, <2>2, <2>3, <2>5, IdleType DEF MoveStops, CancelMoving
<1>6. CASE MoveEnds(a)
  <2>1. Below(array[a], work[a].to) \in Array
    BY <1>3, <1>6, BelowType DEF MoveEnds
  <2> QED
    BY <1>6, <2>1, IdleType DEF MoveEnds
<1>7. CASE Cancel(a)
  <2> DEFINE sound == array[a].sound /\ Appending(work[a])
  <2>1. array[a] \in Array
    BY <1>7, BusyType DEF Cancel, Appending, Moving
  <2>2. sound \in BOOLEAN
    BY Zenon
  <2>3. array' = [array EXCEPT ![a] = [array[a] EXCEPT !.sound = sound]]
    BY <1>7, <2>1, Zenon DEF Cancel
  <2>4. /\ array' \in [Arrays -> Array \cup {None}]
        /\ \A b \in Arrays : array[b] \in Array => array'[b] \in Array
    <3> HIDE DEF sound
    <3>1. [array[a] EXCEPT !.sound = sound] \in Array
      BY <2>1, <2>2 DEF Array
    <3> QED
      BY <2>3, <3>1
  <2>5. UNCHANGED <<files, meta, born>>
    BY <1>7 DEF Cancel, ACleanUp
  <2> QED
    BY <1>7, <2>4, <2>5, IdleType DEF Cancel
<1> QED
  BY <1>1, <1>2, <1>4, <1>5, <1>6, <1>7 DEF MoveRoot

LEMMA TypedNext == Typed /\ [Next]_vars => Typed'
<1> SUFFICES ASSUME Typed, [Next]_vars PROVE Typed'
  OBVIOUS
<1>1. CASE UNCHANGED vars
  BY <1>1, Zenon DEF Typed, vars, disk, history
<1>2. CASE Restart
  BY <1>2, IdleType DEF Restart, Typed, disk
<1>3. ASSUME NEW a \in Arrays,
             \/ \E r \in Roots : \/ ANew(a, r) \/ FromExistingArray(a, r)
                                 \/ ALoad(a, r) \/ UpdateRoot(a, r)
             \/ \E n \in Names : AAppend(a, n) \/ AAppendMemory(a, n)
             \/ ASave(a) \/ Drop(a)
      PROVE  Typed'
  BY <1>3, TypedArrays, Zenon DEF ANew, ALoad, AAppend, AAppendMemory, AppendMemory, ASave
<1>4. ASSUME NEW a \in Arrays,
             \/ ARemove(a) \/ ARemoveDropped(a)
             \/ Delete(a) \/ DeleteStops(a) \/ DeleteDropped(a) \/ DeleteEnds(a)
      PROVE  Typed'
  BY <1>4, TypedRemoval, Zenon DEF ARemove
<1>5. ASSUME NEW a \in Arrays, NEW b \in Arrays,
             \/ AAppendDir(a, b) \/ AppendArray(a, b)
             \/ AppendMoves(a) \/ AppendStops(a) \/ CancelAppending(a) \/ AppendEnds(a)
      PROVE  Typed'
  BY <1>5, TypedAppend, Zenon DEF AAppendDir
<1>6. ASSUME NEW a \in Arrays,
             \/ \E r \in Roots : AMoveRoot(a, r) \/ ARenameDropped(a, r)
             \/ MoveMoves(a) \/ MoveStops(a) \/ CancelMoving(a) \/ MoveEnds(a) \/ Cancel(a)
      PROVE  Typed'
  BY <1>6, TypedMove, Zenon DEF AMoveRoot
<1> QED
  BY <1>1, <1>2, <1>3, <1>4, <1>5, <1>6, Zenon DEF Next

-----------------------------------------------------------------------------
(***************************************************************************)
(* Files.                                                                  *)
(***************************************************************************)
\* An operation that leaves the files and the three histories alone.
Untouched == UNCHANGED <<files, born, removed, lost>>

LEMMA UntouchedKeeps == NothingIsLost /\ Untouched => NothingIsLost'
  BY DEF NothingIsLost, Untouched

\* One file is moved, or stays where it is: the source goes only with a whole
\* file in the target, or with none of the two whole, or with the name in lost.
LEMMA MoveKeeps ==
  ASSUME Typed, NothingIsLost, UNCHANGED <<born, removed>>,
         NEW c \in Chunk, NEW to \in Roots,
         Rename(c, to) \/ CopyAndRemove(c, to) \/ CopyStops(c, to)
  PROVE  NothingIsLost'
<1>1. /\ c.dir \in Roots /\ c.name \in Names
      /\ files \in [Roots \X Names -> {"none", "torn", "whole"}]
  BY DEF Typed, Chunk
<1>2. lost \subseteq lost' /\ (files' = files \/ (Spoils(c, to) => c.name \in lost'))
  BY Zenon DEF Rename, CopyAndRemove, CopyStops, LostTo
<1>3. \A n \in Names, r \in Roots : n # c.name => files'[<<r, n>>] = files[<<r, n>>]
  BY <1>1 DEF Rename, CopyAndRemove, CopyStops, CopiedTo
<1>4. \A r \in Roots : r \notin {c.dir, to} => files'[<<r, c.name>>] = files[<<r, c.name>>]
  BY <1>1 DEF Rename, CopyAndRemove, CopyStops, CopiedTo
<1>5. ASSUME ~Spoils(c, to), NEW r \in Roots, files[<<r, c.name>>] = "whole"
      PROVE  \E d \in Roots : files'[<<d, c.name>>] = "whole"
  <2>1. c.dir # to
    BY <1>5 DEF Spoils
  <2>2. CASE FileOf(c) = "whole"
    BY <1>1, <2>1, <2>2 DEF Rename, CopyAndRemove, CopyStops, CopiedTo, FileOf
  <2>3. CASE FileOf(c) = "torn"
    BY <1>1, <1>4, <1>5, <2>3 DEF Spoils, FileOf
  <2>4. CASE FileOf(c) = "none"
    BY <1>1, <1>5, <2>4 DEF Rename, CopyAndRemove, CopyStops, FileOf
  <2> QED
    BY <1>1, <2>2, <2>3, <2>4 DEF FileOf
<1>6. ASSUME NEW n \in born \ (removed \cup lost'), NEW r \in Roots, files[<<r, n>>] = "whole"
      PROVE  \E d \in Roots : files'[<<d, n>>] = "whole"
  <2>1. n \in Names
    BY DEF Typed
  <2>2. CASE n # c.name
    BY <1>3, <1>6, <2>1, <2>2, Zenon
  <2>3. CASE n = c.name /\ ~Spoils(c, to)
    BY <1>5, <1>6, <2>3, Zenon
  <2>4. CASE n = c.name /\ Spoils(c, to)
    BY <1>2, <1>6, <2>4, Zenon
  <2> QED
    BY <2>2, <2>3, <2>4
<1> QED
  BY <1>2, <1>6 DEF NothingIsLost

\* The entry goes into removed with its file, and nothing else changes.
LEMMA RemovalKeeps ==
  ASSUME Typed, NothingIsLost, UNCHANGED <<born, lost>>, NEW a \in Arrays,
         NEW i, RemoveAtIndex(a, i)
  PROVE  NothingIsLost'
<1> DEFINE c == array[a].chunks[i]
<1>1. \A n \in Names, r \in Roots : n # c.name => files'[<<r, n>>] = files[<<r, n>>]
  BY DEF RemoveAtIndex, Typed
<1> QED
  BY <1>1, Zenon DEF RemoveAtIndex, NothingIsLost, Typed

\* A file goes whose name is in removed or in lost from then on.
LEMMA LosingKeeps ==
  ASSUME Typed, NothingIsLost, UNCHANGED born, NEW c \in Chunk,
         files' = [files EXCEPT ![<<c.dir, c.name>>] = "none"],
         removed \subseteq removed', lost \subseteq lost', c.name \in removed' \cup lost'
  PROVE  NothingIsLost'
<1>1. \A n \in Names, r \in Roots : n # c.name => files'[<<r, n>>] = files[<<r, n>>]
  BY DEF Typed
<1>2. \A n \in born : n \in Names
  BY DEF Typed
<1> QED
  BY <1>1, <1>2, Zenon DEF NothingIsLost

LEMMA DroppedKeeps ==
  ASSUME Typed, NothingIsLost, NEW a \in Arrays, ARemoveDropped(a) \/ DeleteDropped(a)
  PROVE  NothingIsLost'
<1>1. array[a] \in Array /\ array[a].chunks \in Seq(Chunk)
  BY DEF ARemoveDropped, DeleteDropped, Ready, Deleting, Live, Typed, Array
<1>2. CASE ARemoveDropped(a)
  <2>1. PICK i \in DOMAIN array[a].chunks :
          /\ files' = [files EXCEPT ![<<array[a].chunks[i].dir, array[a].chunks[i].name>>] = "none"]
          /\ lost' = lost \cup {array[a].chunks[i].name}
    BY <1>2, Zenon DEF ARemoveDropped
  <2>2. array[a].chunks[i] \in Chunk
    BY <1>1
  <2>3. UNCHANGED <<born, removed>>
    BY <1>2 DEF ARemoveDropped
  <2> QED
    BY <2>1, <2>2, <2>3, LosingKeeps, Zenon
<1>3. CASE DeleteDropped(a)
  <2>1. Head(array[a].chunks) \in Chunk
    BY <1>1, <1>3 DEF DeleteDropped
  <2> QED
    BY <1>3, <2>1, LosingKeeps, Zenon DEF DeleteDropped
<1> QED
  BY <1>2, <1>3

LEMMA AppendKeeps ==
  ASSUME Typed, NothingIsLost, NEW a \in Arrays, NEW n \in Names, AppendChunk(a, n)
  PROVE  NothingIsLost'
<1> DEFINE r == array[a].root
<1>1. r \in Roots
  BY DEF AppendChunk, Ready, Live, Typed, Array
<1>2. \A m \in Names, d \in Roots : m # n => files'[<<d, m>>] = files[<<d, m>>]
  BY <1>1 DEF AppendChunk, Typed
<1>3. n \in born' => files'[<<r, n>>] = "whole"
  BY <1>1 DEF AppendChunk, Typed
<1>4. UNCHANGED <<removed, lost>> /\ born' \subseteq born \cup {n}
  BY Zenon DEF AppendChunk
<1>5. \A m \in born \ (removed \cup lost) : m \in Names /\ \E d \in Roots : files[<<d, m>>] = "whole"
  BY Zenon DEF Typed, NothingIsLost
<1> QED
  BY <1>1, <1>2, <1>3, <1>4, <1>5, Zenon DEF NothingIsLost

\* Every file goes with the directory, which replaces one without files.
LEMMA RenameKeeps ==
  ASSUME Typed, NothingIsLost, UNCHANGED <<born, removed, lost>>,
         NEW a \in Arrays, NEW r \in Roots, NEW record, RenameDir(a, r, record)
  PROVE  NothingIsLost'
<1> DEFINE from == array[a].root
<1>1. from \in Roots /\ from # r
  BY DEF RenameDir, Ready, Live, Typed, Array
<1>2. ASSUME NEW n \in Names, NEW d \in Roots, files[<<d, n>>] = "whole"
      PROVE  \E e \in Roots : files'[<<e, n>>] = "whole"
  <2>1. CASE d = from
    <3>1. files'[<<r, n>>] = "whole"
      BY <1>1, <1>2, <2>1 DEF RenameDir, Typed
    <3> QED
      BY <3>1
  <2>2. CASE d # from
    <3>1. d # r
      BY <1>2 DEF RenameDir
    <3>2. files'[<<d, n>>] = "whole"
      BY <1>1, <1>2, <2>2, <3>1 DEF RenameDir, Typed
    <3> QED
      BY <3>2
  <2> QED
    BY <2>1, <2>2
<1> QED
  BY <1>2, Zenon DEF NothingIsLost, Typed

LEMMA KeptNext == IInv /\ [Next]_vars => NothingIsLost'
<1> SUFFICES ASSUME Typed, NothingIsLost, [Next]_vars PROVE NothingIsLost'
  BY DEF IInv
<1>1. CASE UNCHANGED vars \/ Restart
  BY <1>1, UntouchedKeeps, Zenon DEF Untouched, vars, disk, history, Restart
<1>2. ASSUME NEW a \in Arrays,
             \/ \E r \in Roots : \/ ANew(a, r) \/ FromExistingArray(a, r)
                                 \/ ALoad(a, r) \/ UpdateRoot(a, r)
             \/ ASave(a) \/ Drop(a)
      PROVE  NothingIsLost'
  <2>1. Untouched
    BY <1>2, Zenon DEF ANew, New, FromExistingArray, ALoad, Load, UpdateRoot,
                       ASave, Save, Drop, Untouched, disk, history
  <2> QED
    BY <2>1, UntouchedKeeps
<1>3. ASSUME NEW a \in Arrays, NEW n \in Names, AAppend(a, n) \/ AAppendMemory(a, n)
      PROVE  NothingIsLost'
  BY <1>3, AppendKeeps, Zenon DEF AAppend, AAppendMemory, AppendMemory
<1>4. ASSUME NEW a \in Arrays, ARemove(a) \/ Delete(a)
      PROVE  NothingIsLost'
  BY <1>4, RemovalKeeps, Zenon DEF ARemove, RemoveChunk, Delete
<1>5. ASSUME NEW a \in Arrays, DeleteStops(a) \/ DeleteEnds(a)
      PROVE  NothingIsLost'
  BY <1>5, UntouchedKeeps, Zenon DEF DeleteStops, DeleteEnds, Untouched, disk, history
<1>6. ASSUME NEW a \in Arrays, NEW b \in Arrays, AAppendDir(a, b) \/ AppendArray(a, b)
      PROVE  NothingIsLost'
  BY <1>6, UntouchedKeeps, Zenon DEF AAppendDir, AppendDir, AppendArray, BeginAppend,
                                     Untouched, disk, history
<1>7. ASSUME NEW a \in Arrays, AppendMoves(a) \/ AppendStops(a) \/ CancelAppending(a)
      PROVE  NothingIsLost'
  <2> DEFINE c == Head(work[a].left)  to == array[a].root
  <2>1. c \in Chunk /\ to \in Roots
    <3>1. Appending(work[a]) /\ work[a].left # <<>>
      BY <1>7 DEF AppendMoves, AppendStops, CancelAppending, Appending
    <3> QED
      BY <3>1, LeftType, BusyType, Zenon
  <2>2. \/ UNCHANGED files /\ UNCHANGED lost
        \/ Rename(c, to) \/ CopyAndRemove(c, to) \/ CopyStops(c, to)
    BY <1>7, Zenon DEF AppendMoves, AppendStops, CancelAppending
  <2>3. UNCHANGED <<born, removed>>
    BY <1>7, Zenon DEF AppendMoves, AppendStops, CancelAppending
  <2> QED
    BY <2>1, <2>2, <2>3, MoveKeeps, UntouchedKeeps, Zenon DEF Untouched
<1>8. ASSUME NEW a \in Arrays, MoveMoves(a) \/ MoveStops(a) \/ CancelMoving(a)
      PROVE  NothingIsLost'
  <2> DEFINE c == Head(work[a].left)  to == work[a].to
  <2>1. c \in Chunk /\ to \in Roots
    <3>1. Moving(work[a]) /\ work[a].left # <<>>
      BY <1>8, Zenon DEF MoveMoves, MoveStops, CancelMoving
    <3>2. work[a].to \in Roots
      BY <3>1, WorkKinds DEF Typed
    <3> QED
      BY <3>1, <3>2, LeftType, Zenon
  <2>2. /\ CopyAndRemove(c, to) \/ CopyStops(c, to)
        /\ UNCHANGED <<born, removed>>
    BY <1>8, Zenon DEF MoveMoves, MoveStops, CancelMoving
  <2> QED
    BY <2>1, <2>2, MoveKeeps, Zenon
<1>9. ASSUME NEW a \in Arrays, AppendEnds(a) \/ MoveEnds(a) \/ Cancel(a)
      PROVE  NothingIsLost'
  BY <1>9, UntouchedKeeps, Zenon DEF AppendEnds, MoveEnds, Cancel, Untouched, disk, history
<1>10. ASSUME NEW a \in Arrays, NEW r \in Roots, AMoveRoot(a, r) \/ ARenameDropped(a, r)
       PROVE  NothingIsLost'
  BY <1>10, RenameKeeps, UntouchedKeeps, Zenon
     DEF AMoveRoot, MoveRoot, RenameRoot, ARenameDropped, BeginMove, Untouched, history
<1>11. ASSUME NEW a \in Arrays, ARemoveDropped(a) \/ DeleteDropped(a)
       PROVE  NothingIsLost'
  BY <1>11, DroppedKeeps
<1> QED
  BY <1>1, <1>2, <1>3, <1>4, <1>5, <1>6, <1>7, <1>8, <1>9, <1>10, <1>11, Zenon DEF Next

-----------------------------------------------------------------------------
(***************************************************************************)
(* The theorem.                                                            *)
(***************************************************************************)
LEMMA KeptInit == Init => NothingIsLost
  BY DEF Init, NothingIsLost

\* Whatever fails, is cancelled or is cut by a restart, a chunk that was
\* appended and not removed has its whole file in some directory, unless it was
\* copied onto itself or under a torn one, or its a_remove was dropped half-way
\* (directory/sync_impl.rs:118-133, 229-245; async_impl.rs:56-62 and the same
\* steps as in sync_impl.rs).
THEOREM NoFileIsLost == Spec => []NothingIsLost
<1>1. Init => IInv
  BY TypedInit, KeptInit DEF IInv
<1>2. IInv /\ [Next]_vars => IInv'
  BY TypedNext, KeptNext DEF IInv
<1>3. IInv => NothingIsLost
  BY DEF IInv
<1> QED
  BY <1>1, <1>2, <1>3, PTL DEF Spec

-----------------------------------------------------------------------------
(***************************************************************************)
(* Where the files of a sound array are.  A chunk's file is whole in the   *)
(* root, and its path, if it says otherwise, has none.                     *)
(***************************************************************************)
At(f, rem, c, r) ==
  c.name \in rem \/ (f[<<r, c.name>>] = "whole" /\ (c.dir = r \/ f[<<c.dir, c.name>>] = "none"))

\* The first `done` chunks have been moved from one root to the other.
Along(f, rem, chunks, done, from, to) ==
  \A i \in 1..Len(chunks) : At(f, rem, chunks[i], IF i <= done THEN to ELSE from)

HomeOf(f, rem, record) ==
  record.sound => Along(f, rem, record.chunks, 0, record.root, record.root)

Distinct(chunks) ==
  \A i, j \in 1..Len(chunks) : chunks[i].name = chunks[j].name => i = j

Good(brn, record) == Distinct(record.chunks) /\ NamesOf(record.chunks) \subseteq brn

\* `left` is the end of the chunks; `Done` of them come before it.
Done(chunks, left) == Len(chunks) - Len(left)
Rest(chunks, left) ==
  /\ Len(left) <= Len(chunks)
  /\ \A i \in 1..Len(left) : left[i] = chunks[Done(chunks, left) + i]

AppendInv(rec, w, f, rem, brn) ==
  /\ Good(brn, w.rhs) /\ Rest(w.rhs.chunks, w.left)
  /\ NamesOf(rec.chunks) \cap NamesOf(w.rhs.chunks) = {}
  /\ rec.sound /\ w.rhs.sound =>
       Along(f, rem, w.rhs.chunks, Done(w.rhs.chunks, w.left), w.rhs.root, rec.root)

MoveInv(rec, w, f, rem) ==
  /\ Rest(rec.chunks, w.left)
  /\ rec.sound =>
       /\ Along(f, rem, rec.chunks, Done(rec.chunks, w.left), rec.root, w.to)
       /\ w.to = rec.root => NamesOf(rec.chunks) \subseteq rem

ArrayInv(rec, w, f, rem, brn) ==
  rec # None =>
    /\ Good(brn, rec)
    /\ ~Moving(w) => HomeOf(f, rem, rec)
    /\ Appending(w) => AppendInv(rec, w, f, rem, brn)
    /\ Moving(w) => MoveInv(rec, w, f, rem)

MetaInv(rec, f, rem, brn) ==
  rec \notin {None, Torn} => Good(brn, rec) /\ HomeOf(f, rem, rec)

NamedBy(rec, w) ==
  IF rec = None THEN {}
  ELSE NamesOf(rec.chunks) \cup (IF Appending(w) THEN NamesOf(w.rhs.chunks) ELSE {})

Apart(arr, wrk) ==
  \A a, b \in Arrays : a # b => NamedBy(arr[a], wrk[a]) \cap NamedBy(arr[b], wrk[b]) = {}

FilesInDirs == \A r \in Roots, n \in Names : files[<<r, n>>] # "none" => r \in dirs

HomeInv ==
  /\ \A a \in Arrays : ArrayInv(array[a], work[a], files, removed, born)
  /\ \A r \in Roots : MetaInv(meta[r], files, removed, born)
  /\ Apart(array, work) /\ FilesInDirs

\* Files of other names are nothing to it.
SameFiles(f, g, n) == \A d \in Roots : g[<<d, n>>] = f[<<d, n>>]

LEMMA ChunkAt ==
  ASSUME NEW chunks \in Seq(Chunk), NEW i \in 1..Len(chunks)
  PROVE  /\ chunks[i] \in Chunk /\ chunks[i].name \in NamesOf(chunks)
         /\ chunks[i].name \in Names /\ chunks[i].dir \in Roots
<1>1. chunks[i] \in Chunk /\ i \in DOMAIN chunks
  OBVIOUS
<1> QED
  BY <1>1 DEF Chunk, NamesOf

LEMMA NamesAre ==
  ASSUME NEW chunks \in Seq(Chunk)
  PROVE  /\ \A n \in NamesOf(chunks) : \E i \in 1..Len(chunks) : n = chunks[i].name
         /\ NamesOf(chunks) \subseteq Names
<1>1. DOMAIN chunks = 1..Len(chunks)
  OBVIOUS
<1>2. \A n \in NamesOf(chunks) : \E i \in 1..Len(chunks) : n = chunks[i].name
  BY <1>1 DEF NamesOf
<1> QED
  BY <1>2, ChunkAt

LEMMA AlongKeeps ==
  ASSUME NEW f, NEW g, NEW rem, NEW rem2, rem \subseteq rem2, NEW chunks \in Seq(Chunk),
         NEW done, NEW from \in Roots, NEW to \in Roots,
         \A n \in NamesOf(chunks) : n \in rem2 \/ SameFiles(f, g, n),
         Along(f, rem, chunks, done, from, to)
  PROVE  Along(g, rem2, chunks, done, from, to)
<1> SUFFICES ASSUME NEW i \in 1..Len(chunks)
             PROVE  At(g, rem2, chunks[i], IF i <= done THEN to ELSE from)
  BY DEF Along
<1> DEFINE r == IF i <= done THEN to ELSE from
           c == chunks[i]
<1>1. r \in Roots /\ c.dir \in Roots /\ c.name \in NamesOf(chunks)
  BY ChunkAt
<1>2. At(f, rem, c, r)
  BY DEF Along
<1> HIDE DEF r, c
<1>3. ASSUME c.name \notin rem2
      PROVE  g[<<r, c.name>>] = f[<<r, c.name>>] /\ g[<<c.dir, c.name>>] = f[<<c.dir, c.name>>]
  BY <1>1, <1>3 DEF SameFiles
<1>4. At(g, rem2, c, r)
  BY <1>2, <1>3 DEF At
<1> QED
  BY <1>4 DEF r, c

LEMMA ArrayFields ==
  ASSUME NEW rec \in Array
  PROVE  /\ rec.root \in Roots /\ rec.chunks \in Seq(Chunk) /\ rec.sound \in BOOLEAN
         /\ rec # None /\ rec # Torn
BY MarkerAssumption DEF Array

LEMMA HomeKeeps ==
  ASSUME NEW f, NEW g, NEW rem, NEW rem2, rem \subseteq rem2, NEW rec \in Array,
         \A n \in NamesOf(rec.chunks) : n \in rem2 \/ SameFiles(f, g, n),
         HomeOf(f, rem, rec)
  PROVE  HomeOf(g, rem2, rec)
BY AlongKeeps, ArrayFields DEF HomeOf

\* What an array holds, and is being given, while others work.
LEMMA ArrayKeeps ==
  ASSUME NEW rec \in Array \cup {None}, NEW w \in Work,
         NEW f, NEW g, NEW rem, NEW rem2, rem \subseteq rem2, NEW brn, NEW brn2, brn \subseteq brn2,
         \A n \in NamedBy(rec, w) : n \in rem2 \/ SameFiles(f, g, n),
         ArrayInv(rec, w, f, rem, brn)
  PROVE  ArrayInv(rec, w, g, rem2, brn2)
<1> SUFFICES ASSUME rec # None
             PROVE  /\ Good(brn2, rec)
                    /\ ~Moving(w) => HomeOf(g, rem2, rec)
                    /\ Appending(w) => AppendInv(rec, w, g, rem2, brn2)
                    /\ Moving(w) => MoveInv(rec, w, g, rem2)
  BY DEF ArrayInv
<1>1. rec \in Array /\ rec.root \in Roots /\ rec.chunks \in Seq(Chunk)
  BY ArrayFields
<1>2. \A n \in NamesOf(rec.chunks) : n \in rem2 \/ SameFiles(f, g, n)
  BY DEF NamedBy
<1>3. Good(brn2, rec)
  BY DEF ArrayInv, Good
<1>4. ~Moving(w) => HomeOf(g, rem2, rec)
  BY <1>1, <1>2, HomeKeeps DEF ArrayInv
<1>5. ASSUME Appending(w) PROVE AppendInv(rec, w, g, rem2, brn2)
  <2>1. w.rhs \in Array /\ w.left \in Seq(Chunk)
    BY <1>5, WorkKinds
  <2>2. w.rhs.root \in Roots /\ w.rhs.chunks \in Seq(Chunk)
    BY <2>1, ArrayFields
  <2>3. \A n \in NamesOf(w.rhs.chunks) : n \in rem2 \/ SameFiles(f, g, n)
    BY <1>5 DEF NamedBy
  <2>4. AppendInv(rec, w, f, rem, brn)
    BY <1>5 DEF ArrayInv
  <2> QED
    BY <1>1, <2>2, <2>3, <2>4, AlongKeeps DEF AppendInv, Good
<1>6. ASSUME Moving(w) PROVE MoveInv(rec, w, g, rem2)
  <2>1. w.to \in Roots
    BY <1>6, WorkKinds
  <2>2. MoveInv(rec, w, f, rem)
    BY <1>6 DEF ArrayInv
  <2> QED
    BY <1>1, <1>2, <2>1, <2>2, AlongKeeps DEF MoveInv
<1> QED
  BY <1>3, <1>4, <1>5, <1>6

\* A record unsettled for the files that were moved says no more of them.
LEMMA UnsettledIs ==
  ASSUME NEW rec \in Array, NEW names
  PROVE  /\ Unsettled(rec, names) \in Array
         /\ Unsettled(rec, names).root = rec.root
         /\ Unsettled(rec, names).chunks = rec.chunks
         /\ Unsettled(rec, names).sound => rec.sound /\ NamesOf(rec.chunks) \cap names = {}
<1>1. rec \notin {None, Torn}
  BY ArrayFields
<1>2. CASE NamesOf(rec.chunks) \cap names # {}
  <2>1. Unsettled(rec, names) = [rec EXCEPT !.sound = FALSE]
    BY <1>1, <1>2 DEF Unsettled
  <2> QED
    BY <2>1 DEF Array
<1>3. CASE NamesOf(rec.chunks) \cap names = {}
  BY <1>1, <1>3 DEF Unsettled
<1> QED
  BY <1>2, <1>3

LEMMA UnsettledKeeps ==
  ASSUME NEW rec \in Array, NEW names, NEW f, NEW g, NEW rem, NEW rem2, rem \subseteq rem2,
         \A n \in NamesOf(rec.chunks) : n \in names \/ n \in rem2 \/ SameFiles(f, g, n),
         HomeOf(f, rem, rec)
  PROVE  HomeOf(g, rem2, Unsettled(rec, names))
<1> DEFINE u == Unsettled(rec, names)
<1>1. /\ u \in Array /\ u.root = rec.root /\ u.chunks = rec.chunks
      /\ u.sound => rec.sound /\ NamesOf(rec.chunks) \cap names = {}
  BY UnsettledIs
<1> HIDE DEF u
<1>2. ASSUME u.sound PROVE Along(g, rem2, u.chunks, 0, u.root, u.root)
  <2>1. /\ \A n \in NamesOf(rec.chunks) : n \in rem2 \/ SameFiles(f, g, n)
        /\ Along(f, rem, rec.chunks, 0, rec.root, rec.root)
    BY <1>1, <1>2 DEF HomeOf
  <2>2. rec.root \in Roots /\ rec.chunks \in Seq(Chunk)
    BY ArrayFields
  <2>3. Along(g, rem2, rec.chunks, 0, rec.root, rec.root)
    BY <2>1, <2>2, AlongKeeps
  <2> QED
    BY <1>1, <2>3
<1>3. HomeOf(g, rem2, u)
  BY <1>2 DEF HomeOf
<1> QED
  BY <1>3 DEF u

LEMMA MetaKeeps ==
  ASSUME NEW rec \in Array \cup {None, Torn}, NEW names, NEW f, NEW g,
         NEW rem, NEW rem2, rem \subseteq rem2, NEW brn, NEW brn2, brn \subseteq brn2,
         \A n \in brn : n \in names \/ n \in rem2 \/ SameFiles(f, g, n),
         MetaInv(rec, f, rem, brn)
  PROVE  MetaInv(Unsettled(rec, names), g, rem2, brn2)
<1>1. CASE rec \in {None, Torn}
  BY <1>1 DEF Unsettled, MetaInv
<1>2. CASE rec \notin {None, Torn}
  <2>1. rec \in Array /\ Good(brn, rec) /\ HomeOf(f, rem, rec)
    BY <1>2 DEF MetaInv
  <2>2. HomeOf(g, rem2, Unsettled(rec, names))
    BY <2>1, UnsettledKeeps DEF Good
  <2>3. Good(brn2, Unsettled(rec, names))
    BY <2>1, UnsettledIs DEF Good
  <2> QED
    BY <2>2, <2>3 DEF MetaInv
<1> QED
  BY <1>1, <1>2

LEMMA NotUnsettled ==
  ASSUME NEW rec
  PROVE  Unsettled(rec, {}) = rec
BY DEF Unsettled

\* What is named is born.
LEMMA NamedAreBorn ==
  ASSUME Typed, HomeInv, NEW a \in Arrays
  PROVE  NamedBy(array[a], work[a]) \subseteq born
<1>1. ArrayInv(array[a], work[a], files, removed, born)
  BY DEF HomeInv
<1> QED
  BY <1>1 DEF NamedBy, ArrayInv, AppendInv, Good

\* A step of one array, which may take in another one: it disturbs no file but
\* those it names, and takes no name that another one has.
LEMMA StepKeeps ==
  ASSUME Typed, HomeInv, NEW a \in Arrays, removed \subseteq removed', born \subseteq born',
         \A b \in Arrays \ {a} :
           \/ array'[b] = array[b] /\ work'[b] = work[b]
           \/ array'[b] = None,
         \A n \in born : \/ n \in NamedBy(array[a], work[a]) \/ n \in removed'
                         \/ SameFiles(files, files', n),
         ArrayInv(array'[a], work'[a], files', removed', born'),
         \A b \in Arrays \ {a} : array'[b] # None =>
           NamedBy(array'[a], work'[a]) \cap NamedBy(array[b], work[b]) = {},
         \A r \in Roots : MetaInv(meta'[r], files', removed', born'),
         FilesInDirs'
  PROVE  HomeInv'
<1>1. ASSUME NEW b \in Arrays, b # a, array'[b] # None
      PROVE  /\ array'[b] = array[b] /\ work'[b] = work[b]
             /\ ArrayInv(array'[b], work'[b], files', removed', born')
  <2>1. array'[b] = array[b] /\ work'[b] = work[b]
    BY <1>1
  <2>2. array[b] \in Array \cup {None} /\ work[b] \in Work
    BY DEF Typed
  <2>3. \A n \in NamedBy(array[b], work[b]) : n \in removed' \/ SameFiles(files, files', n)
    <3>1. NamedBy(array[b], work[b]) \subseteq born
      BY NamedAreBorn
    <3>2. NamedBy(array[b], work[b]) \cap NamedBy(array[a], work[a]) = {}
      BY <1>1 DEF HomeInv, Apart
    <3> QED
      BY <3>1, <3>2
  <2>4. ArrayInv(array[b], work[b], files, removed, born)
    BY DEF HomeInv
  <2>5. ArrayInv(array[b], work[b], files', removed', born')
    BY <2>2, <2>3, <2>4, ArrayKeeps
  <2> QED
    BY <2>1, <2>5
<1>2. \A b \in Arrays : ArrayInv(array'[b], work'[b], files', removed', born')
  <2>1. \A b \in Arrays : array'[b] = None => ArrayInv(array'[b], work'[b], files', removed', born')
    BY DEF ArrayInv
  <2> QED
    BY <1>1, <2>1
<1>3. ASSUME NEW b \in Arrays, NEW d \in Arrays, b # d
      PROVE  NamedBy(array'[b], work'[b]) \cap NamedBy(array'[d], work'[d]) = {}
  <2>1. CASE array'[b] = None \/ array'[d] = None
    BY <2>1 DEF NamedBy
  <2>2. CASE array'[b] # None /\ array'[d] # None
    <3>1. CASE b # a /\ d # a
      BY <1>1, <1>3, <2>2, <3>1 DEF HomeInv, Apart
    <3>2. CASE b = a
      BY <1>1, <1>3, <2>2, <3>2
    <3>3. CASE d = a
      BY <1>1, <1>3, <2>2, <3>3
    <3> QED
      BY <3>1, <3>2, <3>3
  <2> QED
    BY <2>1, <2>2
<1>4. Apart(array', work')
  BY <1>3 DEF Apart
<1> QED
  BY <1>2, <1>4 DEF HomeInv

\* The names are those of before, and the files those of no name.
LEMMA QuietStepKeeps ==
  ASSUME Typed, HomeInv, NEW a \in Arrays, UNCHANGED <<files, removed, born>>,
         \A b \in Arrays \ {a} : array'[b] = array[b] /\ work'[b] = work[b],
         array'[a] # None => ArrayInv(array'[a], work'[a], files, removed, born),
         \/ NamedBy(array'[a], work'[a]) \subseteq NamedBy(array[a], work[a])
         \/ \A b \in Arrays \ {a} : NamedBy(array'[a], work'[a]) \cap NamedBy(array[b], work[b]) = {},
         \A r \in Roots : meta'[r] = meta[r] \/ MetaInv(meta'[r], files, removed, born),
         FilesInDirs'
  PROVE  HomeInv'
<1>1. files' = files /\ removed' = removed /\ born' = born
  OBVIOUS
<1>2. \A n \in born : SameFiles(files, files', n)
  BY <1>1 DEF SameFiles
<1>3. \A b \in Arrays \ {a} : NamedBy(array'[a], work'[a]) \cap NamedBy(array[b], work[b]) = {}
  BY DEF HomeInv, Apart
<1>4. ArrayInv(array'[a], work'[a], files', removed', born')
  BY <1>1 DEF ArrayInv
<1>5. \A r \in Roots : MetaInv(meta'[r], files', removed', born')
  BY <1>1 DEF HomeInv
<1> QED
  BY <1>1, <1>2, <1>3, <1>4, <1>5, StepKeeps

LEMMA AtRest ==
  ASSUME NEW rec, NEW w, ~Appending(w), ~Moving(w), NEW f, NEW rem, NEW brn
  PROVE  /\ Good(brn, rec) /\ HomeOf(f, rem, rec) => ArrayInv(rec, w, f, rem, brn)
         /\ ArrayInv(rec, w, f, rem, brn) /\ rec # None => Good(brn, rec) /\ HomeOf(f, rem, rec)
         /\ rec # None => NamedBy(rec, w) = NamesOf(rec.chunks)
         /\ rec = None => NamedBy(rec, w) = {}
BY DEF ArrayInv, NamedBy

LEMMA IdleRests ==
  /\ ~Appending(Idle) /\ ~Moving(Idle)
  /\ ~Appending([op |-> "delete"]) /\ ~Moving([op |-> "delete"])
BY DEF Appending, Moving, Idle

LEMMA NamedIs == ASSUME NEW a \in Arrays PROVE Named(a) = NamedBy(array[a], work[a])
BY DEF Named, NamedBy, Live

LEMMA ReadyIs ==
  ASSUME Typed, HomeInv, NEW a \in Arrays, Ready(a)
  PROVE  /\ array[a] \in Array /\ work[a] = Idle /\ array[a] # None
         /\ array[a].root \in Roots /\ array[a].chunks \in Seq(Chunk)
         /\ Good(born, array[a]) /\ HomeOf(files, removed, array[a])
         /\ NamedBy(array[a], work[a]) = NamesOf(array[a].chunks)
<1>1. array[a] \in Array /\ work[a] = Idle /\ array[a] # None
  BY DEF Ready, Live, Typed
<1>2. ArrayInv(array[a], work[a], files, removed, born)
  BY DEF HomeInv
<1> QED
  BY <1>1, <1>2, AtRest, IdleRests, ArrayFields

LEMMA NoneRests ==
  ASSUME Typed, NEW a \in Arrays, a \notin Live
  PROVE  array[a] = None /\ work[a] = Idle
BY MarkerAssumption DEF Live, Typed

LEMMA BelowIs ==
  ASSUME NEW rec \in Array, NEW r \in Roots
  PROVE  /\ Below(rec, r).root = r /\ Below(rec, r).sound = rec.sound
         /\ Below(rec, r).chunks \in Seq(Chunk)
         /\ Len(Below(rec, r).chunks) = Len(rec.chunks)
         /\ \A i \in 1..Len(rec.chunks) : /\ Below(rec, r).chunks[i].name = rec.chunks[i].name
                                          /\ Below(rec, r).chunks[i].dir = r
         /\ NamesOf(Below(rec, r).chunks) = NamesOf(rec.chunks)
         /\ Distinct(rec.chunks) => Distinct(Below(rec, r).chunks)
<1> DEFINE s == rec.chunks
           t == [i \in 1..Len(s) |-> [s[i] EXCEPT !.dir = r]]
           b == Below(rec, r)
<1>1. s \in Seq(Chunk) /\ DOMAIN s = 1..Len(s) /\ Len(s) \in Nat
  BY ArrayFields
<1>2. b = [rec EXCEPT !.root = r, !.chunks = t]
  BY <1>1, Zenon DEF Below, Array
<1>3. \A i \in 1..Len(s) : /\ [s[i] EXCEPT !.dir = r].name = s[i].name
                           /\ [s[i] EXCEPT !.dir = r].dir = r
  BY <1>1, ChunkAt DEF Chunk
<1>4. /\ b.root = r /\ b.sound = rec.sound /\ b.chunks = t /\ b \in Array
  <2>1. b \in Array
    BY BelowType
  <2> HIDE DEF t, b
  <2> QED
    BY <1>2, <2>1 DEF Array
<1>5. t \in Seq(Chunk)
  BY <1>4, ArrayFields
<1>6. Len(t) = Len(s) /\ DOMAIN t = 1..Len(s)
      /\ \A i \in 1..Len(s) : t[i].name = s[i].name /\ t[i].dir = r
  BY <1>1, <1>3
<1> HIDE DEF t, b
<1>7. NamesOf(t) = NamesOf(s)
  BY <1>1, <1>6 DEF NamesOf
<1>8. Distinct(s) => Distinct(t)
  BY <1>1, <1>6 DEF Distinct
<1> QED
  BY <1>4, <1>5, <1>6, <1>7, <1>8 DEF b

LEMMA BelowHome ==
  ASSUME NEW rec \in Array, NEW r \in Roots, NEW f, NEW rem,
         \A n \in NamesOf(rec.chunks) : n \in rem \/ f[<<r, n>>] = "whole"
  PROVE  Along(f, rem, Below(rec, r).chunks, 0, r, r)
<1> DEFINE t == Below(rec, r).chunks
<1>1. /\ t \in Seq(Chunk) /\ NamesOf(t) = NamesOf(rec.chunks)
      /\ \A i \in 1..Len(t) : t[i].dir = r
  BY BelowIs
<1> HIDE DEF t
<1>2. \A i \in 1..Len(t) : t[i].name \in NamesOf(rec.chunks)
  BY <1>1, ChunkAt
<1>3. Along(f, rem, t, 0, r, r)
  BY <1>1, <1>2 DEF Along, At
<1> QED
  BY <1>3 DEF t

LEMMA HomeInit == Init => HomeInv
BY DEF Init, HomeInv, ArrayInv, MetaInv, Apart, NamedBy, FilesInDirs

LEMMA HomeArrays ==
  ASSUME Typed, Typed', HomeInv, NEW a \in Arrays,
         \/ \E r \in Roots : \/ New(a, r) \/ FromExistingArray(a, r)
                             \/ Load(a, r) \/ UpdateRoot(a, r)
         \/ Save(a) \/ Drop(a)
  PROVE  HomeInv'
<1> USE DEF disk, history
<1>1. ASSUME NEW r \in Roots, New(a, r) PROVE HomeInv'
  <2> DEFINE rec == [root |-> r, chunks |-> <<>>, sound |-> TRUE]
  <2>1. array[a] = None /\ work[a] = Idle
    BY <1>1, NoneRests DEF New
  <2>2. /\ array' = [array EXCEPT ![a] = rec] /\ work' = work /\ meta' = meta
        /\ UNCHANGED <<files, removed, born>> /\ dirs' = dirs \cup {r}
    BY <1>1 DEF New
  <2>3. array'[a] = rec /\ work'[a] = Idle
        /\ \A b \in Arrays \ {a} : array'[b] = array[b] /\ work'[b] = work[b]
    BY <2>1, <2>2 DEF Typed
  <2>4. Good(born, rec) /\ HomeOf(files, removed, rec) /\ NamesOf(rec.chunks) = {}
    BY DEF Good, HomeOf, Along, Distinct, NamesOf
  <2> HIDE DEF rec
  <2>5. ArrayInv(array'[a], work'[a], files, removed, born)
    BY <2>3, <2>4, AtRest, IdleRests
  <2>6. NamedBy(array'[a], work'[a]) = {}
    BY <2>3, <2>4, AtRest, IdleRests
  <2>7. FilesInDirs'
    BY <2>2 DEF HomeInv, FilesInDirs
  <2> QED
    BY <2>2, <2>3, <2>5, <2>6, <2>7, QuietStepKeeps
<1>2. ASSUME NEW r \in Roots, FromExistingArray(a, r) PROVE HomeInv'
  <2> DEFINE rec == [array[a] EXCEPT !.root = r, !.sound = FALSE]
  <2>1. /\ array[a] \in Array /\ work[a] = Idle /\ Good(born, array[a])
        /\ NamedBy(array[a], work[a]) = NamesOf(array[a].chunks)
    BY <1>2, ReadyIs DEF FromExistingArray
  <2>2. /\ array' = [array EXCEPT ![a] = rec] /\ work' = work /\ meta' = meta
        /\ UNCHANGED <<files, removed, born, dirs>>
    BY <1>2 DEF FromExistingArray
  <2>3. rec.chunks = array[a].chunks /\ ~rec.sound
    BY <2>1 DEF Array
  <2>4. array'[a] = rec /\ work'[a] = Idle
        /\ \A b \in Arrays \ {a} : array'[b] = array[b] /\ work'[b] = work[b]
    BY <2>1, <2>2 DEF Typed
  <2> HIDE DEF rec
  <2>5. Good(born, rec) /\ HomeOf(files, removed, rec)
    BY <2>1, <2>3 DEF Good, HomeOf
  <2>6. ArrayInv(array'[a], work'[a], files, removed, born)
    BY <2>4, <2>5, AtRest, IdleRests
  <2>7. NamedBy(array'[a], work'[a]) \subseteq NamedBy(array[a], work[a])
    BY <2>1, <2>3, <2>4, AtRest, IdleRests
  <2>8. FilesInDirs'
    BY <2>2 DEF HomeInv, FilesInDirs
  <2> QED
    BY <2>2, <2>4, <2>6, <2>7, <2>8, QuietStepKeeps
<1>3. ASSUME NEW r \in Roots, Load(a, r) PROVE HomeInv'
  <2>1. array[a] = None /\ work[a] = Idle /\ meta[r] \in Array
    BY <1>3, NoneRests DEF Load, Typed
  <2>2. /\ array' = [array EXCEPT ![a] = meta[r]] /\ work' = work /\ meta' = meta
        /\ UNCHANGED <<files, removed, born, dirs>>
    BY <1>3 DEF Load
  <2>3. array'[a] = meta[r] /\ work'[a] = Idle
        /\ \A b \in Arrays \ {a} : array'[b] = array[b] /\ work'[b] = work[b]
    BY <2>1, <2>2 DEF Typed
  <2>4. Good(born, meta[r]) /\ HomeOf(files, removed, meta[r])
    BY <1>3 DEF Load, HomeInv, MetaInv
  <2>5. ArrayInv(array'[a], work'[a], files, removed, born)
    BY <2>3, <2>4, AtRest, IdleRests
  <2>6. NamedBy(array'[a], work'[a]) = NamesOf(meta[r].chunks)
    BY <2>1, <2>3, AtRest, IdleRests, ArrayFields
  <2>7. \A b \in Arrays : NamedBy(array[b], work[b]) \cap NamesOf(meta[r].chunks) = {}
    BY <1>3, NamedIs DEF Load
  <2>8. FilesInDirs'
    BY <2>2 DEF HomeInv, FilesInDirs
  <2> QED
    BY <2>2, <2>3, <2>5, <2>6, <2>7, <2>8, QuietStepKeeps
<1>4. ASSUME NEW r \in Roots, UpdateRoot(a, r) PROVE HomeInv'
  <2> DEFINE below == Below(array[a], r)
             rec == [below EXCEPT !.sound = TRUE]
  <2>1. /\ array[a] \in Array /\ work[a] = Idle /\ Good(born, array[a])
        /\ NamedBy(array[a], work[a]) = NamesOf(array[a].chunks)
    BY <1>4, ReadyIs DEF UpdateRoot
  <2>2. /\ array' = [array EXCEPT ![a] = rec] /\ work' = work /\ meta' = meta
        /\ UNCHANGED <<files, removed, born, dirs>>
    BY <1>4, Zenon DEF UpdateRoot, Typed
  <2>3. /\ below \in Array /\ below.root = r /\ NamesOf(below.chunks) = NamesOf(array[a].chunks)
        /\ Distinct(below.chunks)
    BY <2>1, BelowIs, BelowType DEF Good
  <2>4. Along(files, removed, below.chunks, 0, r, r)
    BY <1>4, <2>1, BelowHome DEF UpdateRoot
  <2> HIDE DEF below
  <2>5. rec.chunks = below.chunks /\ rec.root = r
    BY <2>3 DEF Array
  <2>6. array'[a] = rec /\ work'[a] = Idle
        /\ \A b \in Arrays \ {a} : array'[b] = array[b] /\ work'[b] = work[b]
    BY <2>1, <2>2 DEF Typed
  <2> HIDE DEF rec
  <2>7. Good(born, rec) /\ HomeOf(files, removed, rec)
    BY <2>1, <2>3, <2>4, <2>5 DEF Good, HomeOf
  <2>8. ArrayInv(array'[a], work'[a], files, removed, born)
    BY <2>6, <2>7, AtRest, IdleRests
  <2>9. NamedBy(array'[a], work'[a]) \subseteq NamedBy(array[a], work[a])
    BY <2>1, <2>3, <2>5, <2>6, AtRest, IdleRests
  <2>10. FilesInDirs'
    BY <2>2 DEF HomeInv, FilesInDirs
  <2> QED
    BY <2>2, <2>6, <2>8, <2>9, <2>10, QuietStepKeeps
<1>5. CASE Save(a)
  <2>1. Good(born, array[a]) /\ HomeOf(files, removed, array[a]) /\ array[a].root \in Roots
    BY <1>5, ReadyIs DEF Save
  <2>2. array' = array /\ work' = work /\ UNCHANGED <<files, removed, born, dirs>>
    BY <1>5 DEF Save
  <2>3. \A r \in Roots : meta'[r] = meta[r] \/ MetaInv(meta'[r], files, removed, born)
    <3>1. \A r \in Roots : meta'[r] \in {meta[r], array[a], Torn}
      BY <1>5 DEF Save, Typed
    <3> QED
      BY <2>1, <3>1 DEF MetaInv
  <2>4. ArrayInv(array'[a], work'[a], files, removed, born)
    BY <2>2 DEF HomeInv
  <2>5. FilesInDirs'
    BY <2>2 DEF HomeInv, FilesInDirs
  <2> QED
    BY <2>2, <2>3, <2>4, <2>5, QuietStepKeeps
<1>6. CASE Drop(a)
  <2>1. /\ array'[a] = None /\ \A b \in Arrays \ {a} : array'[b] = array[b] /\ work'[b] = work[b]
        /\ meta' = meta /\ UNCHANGED <<files, removed, born, dirs>>
    BY <1>6 DEF Drop, Gone, Typed
  <2>2. NamedBy(array'[a], work'[a]) = {}
    BY <2>1 DEF NamedBy
  <2>3. FilesInDirs'
    BY <2>1 DEF HomeInv, FilesInDirs
  <2> QED
    BY <2>1, <2>2, <2>3, QuietStepKeeps
<1> QED
  BY <1>1, <1>2, <1>3, <1>4, <1>5, <1>6

\* The new chunk's file is where the others are, and its name is nobody's.
LEMMA HomePush ==
  ASSUME NEW f, NEW g, NEW rem, NEW chunks \in Seq(Chunk), NEW c \in Chunk,
         Along(f, rem, chunks, 0, c.dir, c.dir), g[<<c.dir, c.name>>] = "whole",
         \A n \in NamesOf(chunks) : SameFiles(f, g, n)
  PROVE  Along(g, rem, Append(chunks, c), 0, c.dir, c.dir)
<1>1. c.dir \in Roots
  BY DEF Chunk
<1>2. Along(g, rem, chunks, 0, c.dir, c.dir)
  BY <1>1, AlongKeeps
<1>3. /\ Len(chunks) \in Nat /\ Len(Append(chunks, c)) = Len(chunks) + 1
      /\ \A i \in 1..Len(chunks) : Append(chunks, c)[i] = chunks[i]
      /\ Append(chunks, c)[Len(chunks) + 1] = c
  OBVIOUS
<1> SUFFICES ASSUME NEW i \in 1..Len(Append(chunks, c))
             PROVE  At(g, rem, Append(chunks, c)[i], c.dir)
  BY DEF Along
<1>4. CASE i \in 1..Len(chunks)
  <2>1. At(g, rem, chunks[i], c.dir)
    BY <1>2, <1>4 DEF Along
  <2> QED
    BY <1>3, <1>4, <2>1
<1>5. CASE i = Len(chunks) + 1
  BY <1>3, <1>5 DEF At
<1> QED
  BY <1>3, <1>4, <1>5

LEMMA GoodPush ==
  ASSUME NEW brn, NEW chunks \in Seq(Chunk), NEW c \in Chunk, c.name \notin brn,
         Distinct(chunks), NamesOf(chunks) \subseteq brn
  PROVE  /\ Distinct(Append(chunks, c))
         /\ NamesOf(Append(chunks, c)) = NamesOf(chunks) \cup {c.name}
<1>1. /\ Len(chunks) \in Nat /\ Len(Append(chunks, c)) = Len(chunks) + 1
      /\ \A i \in 1..Len(chunks) : Append(chunks, c)[i] = chunks[i]
      /\ Append(chunks, c)[Len(chunks) + 1] = c
      /\ DOMAIN chunks = 1..Len(chunks) /\ DOMAIN Append(chunks, c) = 1..Len(chunks) + 1
  OBVIOUS
<1>2. \A i \in 1..Len(chunks) : chunks[i].name \in brn
  BY ChunkAt
<1>3. Distinct(Append(chunks, c))
  BY <1>1, <1>2 DEF Distinct
<1>4. NamesOf(Append(chunks, c)) = NamesOf(chunks) \cup {c.name}
  <2>1. \A i \in 1..Len(chunks) : i \in 1..Len(chunks) + 1
    BY <1>1
  <2>2. \A i \in 1..Len(chunks) + 1 : i \in 1..Len(chunks) \/ i = Len(chunks) + 1
    BY <1>1
  <2>3. Len(chunks) + 1 \in 1..Len(chunks) + 1
    BY <1>1
  <2> QED
    BY <1>1, <2>1, <2>2, <2>3 DEF NamesOf
<1> QED
  BY <1>3, <1>4

LEMMA HomeAppend ==
  ASSUME Typed, Typed', HomeInv, NEW a \in Arrays, NEW n \in Names, AppendChunk(a, n)
  PROVE  HomeInv'
<1> DEFINE r == array[a].root
           c == [name |-> n, dir |-> r]
           rec == [array[a] EXCEPT !.chunks = Append(@, c)]
<1>1. /\ array[a] \in Array /\ work[a] = Idle /\ Good(born, array[a]) /\ r \in Roots
      /\ array[a].chunks \in Seq(Chunk) /\ HomeOf(files, removed, array[a])
      /\ NamedBy(array[a], work[a]) = NamesOf(array[a].chunks)
  BY ReadyIs DEF AppendChunk
<1>2. c \in Chunk /\ c.name = n /\ c.dir = r
  BY <1>1 DEF Chunk
<1>3. UNCHANGED <<meta, work, removed, dirs>> /\ n \notin born /\ r \in dirs /\ born \subseteq born'
  BY DEF AppendChunk
<1>4. \A m \in Names \ {n} : SameFiles(files, files', m)
  BY <1>1, Zenon DEF AppendChunk, Typed, SameFiles
<1>5. \A m \in born : SameFiles(files, files', m)
  BY <1>3, <1>4 DEF Typed
<1>6. \A d \in Roots : MetaInv(meta'[d], files', removed', born')
  <2>1. \A d \in Roots : /\ meta[d] \in Array \cup {None, Torn} /\ MetaInv(meta[d], files, removed, born)
                         /\ Unsettled(meta[d], {}) = meta[d]
    BY NotUnsettled DEF Typed, HomeInv
  <2>2. \A d \in Roots : MetaInv(Unsettled(meta[d], {}), files', removed', born')
    BY <1>3, <1>5, <2>1, MetaKeeps
  <2> QED
    BY <1>3, <2>1, <2>2
<1>7. FilesInDirs'
  <2>1. \A d \in Roots, m \in Names : d = r \/ files'[<<d, m>>] = files[<<d, m>>]
    BY <1>1 DEF AppendChunk, Typed
  <2> QED
    BY <1>3, <2>1 DEF FilesInDirs, HomeInv
<1>8. CASE array' = array
  <2>1. ArrayInv(array[a], work[a], files, removed, born) /\ array[a] \in Array \cup {None} /\ work[a] \in Work
        /\ NamedBy(array[a], work[a]) \subseteq born
    BY NamedAreBorn DEF HomeInv, Typed
  <2>2. ArrayInv(array'[a], work'[a], files', removed', born')
    BY <1>3, <1>5, <1>8, <2>1, ArrayKeeps
  <2>3. \A b \in Arrays \ {a} : NamedBy(array'[a], work'[a]) \cap NamedBy(array[b], work[b]) = {}
    BY <1>3, <1>8 DEF HomeInv, Apart
  <2> QED
    BY <1>3, <1>5, <1>6, <1>7, <1>8, <2>2, <2>3, StepKeeps
<1>9. CASE array' # array
  <2>1. /\ array' = [array EXCEPT ![a] = rec] /\ born' = born \cup {n}
        /\ files' = [files EXCEPT ![<<r, n>>] = "whole"]
    BY <1>9, Zenon DEF AppendChunk, Typed
  <2>2. /\ rec.chunks = Append(array[a].chunks, c) /\ rec.root = r /\ rec.sound = array[a].sound
        /\ rec \in Array
    <3>1. Append(array[a].chunks, c) \in Seq(Chunk)
      BY <1>1, <1>2
    <3> HIDE DEF c
    <3> QED
      BY <1>1, <3>1 DEF Array
  <2>3. array'[a] = rec /\ work'[a] = Idle
        /\ \A b \in Arrays \ {a} : array'[b] = array[b] /\ work'[b] = work[b]
    BY <1>1, <1>3, <2>1 DEF Typed
  <2>4. files'[<<r, n>>] = "whole"
    BY <1>1, <2>1 DEF Typed
  <2> HIDE DEF c, rec
  <2>5. /\ Distinct(rec.chunks) /\ NamesOf(rec.chunks) = NamesOf(array[a].chunks) \cup {n}
        /\ NamesOf(array[a].chunks) \subseteq born
    <3>1. /\ c.name \notin born /\ Distinct(array[a].chunks) /\ NamesOf(array[a].chunks) \subseteq born
          /\ array[a].chunks \in Seq(Chunk) /\ c \in Chunk
      BY <1>1, <1>2, <1>3 DEF Good
    <3>2. /\ Distinct(Append(array[a].chunks, c))
          /\ NamesOf(Append(array[a].chunks, c)) = NamesOf(array[a].chunks) \cup {c.name}
      BY <3>1, GoodPush
    <3> QED
      BY <1>2, <2>2, <3>1, <3>2, Zenon
  <2>6. HomeOf(files', removed', rec)
    <3>1. ASSUME rec.sound PROVE Along(files', removed, rec.chunks, 0, r, r)
      <4>1. Along(files, removed, array[a].chunks, 0, r, r)
        BY <1>1, <2>2, <3>1 DEF HomeOf
      <4>2. \A m \in NamesOf(array[a].chunks) : SameFiles(files, files', m)
        BY <1>5, <2>5
      <4> QED
        BY <1>1, <1>2, <2>2, <2>4, <4>1, <4>2, HomePush
    <3> QED
      BY <1>3, <2>2, <3>1 DEF HomeOf
  <2>7. ArrayInv(array'[a], work'[a], files', removed', born')
    <3>1. Good(born', rec)
      BY <2>1, <2>5 DEF Good
    <3> QED
      BY <2>3, <2>6, <3>1, AtRest, IdleRests
  <2>8. rec # None /\ NamedBy(array'[a], work'[a]) = NamesOf(array[a].chunks) \cup {n}
    BY <2>2, <2>3, <2>5, AtRest, IdleRests, ArrayFields
  <2>9. ASSUME NEW b \in Arrays \ {a}
        PROVE  NamedBy(array'[a], work'[a]) \cap NamedBy(array[b], work[b]) = {}
    <3>1. NamedBy(array[b], work[b]) \subseteq born
      BY NamedAreBorn
    <3>2. NamesOf(array[a].chunks) \cap NamedBy(array[b], work[b]) = {}
      BY <1>1 DEF HomeInv, Apart
    <3> QED
      BY <1>3, <2>8, <3>1, <3>2
  <2> QED
    BY <1>3, <1>5, <1>6, <1>7, <2>3, <2>7, <2>9, StepKeeps
<1> QED
  BY <1>8, <1>9

LEMMA ConcatIs ==
  ASSUME NEW s \in Seq(Chunk), NEW t \in Seq(Chunk)
  PROVE  /\ s \o t \in Seq(Chunk) /\ Len(s \o t) = Len(s) + Len(t)
         /\ \A i \in 1..Len(s) : (s \o t)[i] = s[i]
         /\ \A i \in 1..Len(s \o t) : i > Len(s) => (s \o t)[i] = t[i - Len(s)]
<1>1. s \o t \in Seq(Chunk)
  OBVIOUS
<1>2. Len(s \o t) = Len(s) + Len(t)
  OBVIOUS
<1>3. \A i \in 1..Len(s) : (s \o t)[i] = s[i]
  OBVIOUS
<1>4. \A i \in 1..(Len(s) + Len(t)) : i > Len(s) => (s \o t)[i] = t[i - Len(s)]
  OBVIOUS
<1> QED
  BY <1>1, <1>2, <1>3, <1>4

LEMMA WithoutIs ==
  ASSUME NEW chunks \in Seq(Chunk), NEW i \in DOMAIN chunks
  PROVE  /\ NamesOf(Without(chunks, i)) \subseteq NamesOf(chunks)
         /\ Distinct(chunks) => Distinct(Without(chunks, i))
         /\ \A f, rem, r : Along(f, rem, chunks, 0, r, r) => Along(f, rem, Without(chunks, i), 0, r, r)
<1> DEFINE t == Without(chunks, i)
           At_(k) == IF k < i THEN k ELSE k + 1
<1>1. t \in Seq(Chunk)
  BY WithoutType
<1>2. i \in 1..Len(chunks) /\ Len(chunks) \in Nat /\ DOMAIN chunks = 1..Len(chunks)
  OBVIOUS
<1>3. Len(t) = Len(chunks) - 1 /\ \A k \in 1..Len(t) : t[k] = chunks[At_(k)]
  <2> DEFINE u == SubSeq(chunks, 1, i - 1)  v == SubSeq(chunks, i + 1, Len(chunks))
  <2>1. /\ u \in Seq(Chunk) /\ Len(u) = i - 1 /\ \A k \in 1..(i - 1) : u[k] = chunks[k]
    BY <1>2
  <2>2. /\ v \in Seq(Chunk) /\ Len(v) = Len(chunks) - i
        /\ \A k \in 1..(Len(chunks) - i) : v[k] = chunks[i + k]
    BY <1>2
  <2> HIDE DEF u, v
  <2>3. /\ Len(u \o v) = Len(chunks) - 1
        /\ \A k \in 1..Len(u) : (u \o v)[k] = u[k]
        /\ \A k \in 1..Len(u \o v) : k > Len(u) => (u \o v)[k] = v[k - Len(u)]
    <3>1. Len(u \o v) = Len(u) + Len(v)
      BY <2>1, <2>2, ConcatIs
    <3>2. Len(u) + Len(v) = Len(chunks) - 1
      BY <1>2, <2>1, <2>2
    <3>3. /\ \A k \in 1..Len(u) : (u \o v)[k] = u[k]
          /\ \A k \in 1..Len(u \o v) : k > Len(u) => (u \o v)[k] = v[k - Len(u)]
      BY <2>1, <2>2, ConcatIs
    <3> QED
      BY <3>1, <3>2, <3>3
  <2>4. t = u \o v
    BY DEF Without, u, v
  <2> HIDE DEF t
  <2>5. ASSUME NEW k \in 1..(Len(chunks) - 1) PROVE (u \o v)[k] = chunks[At_(k)]
    <3>1. CASE k < i
      BY <1>2, <2>1, <2>3, <3>1
    <3>2. CASE ~(k < i)
      <4>1. k - (i - 1) \in 1..(Len(chunks) - i) /\ i + (k - (i - 1)) = k + 1
        BY <1>2, <3>2
      <4>2. (u \o v)[k] = v[k - (i - 1)]
        BY <1>2, <2>1, <2>3, <3>2
      <4> QED
        BY <2>2, <3>2, <4>1, <4>2
    <3> QED
      BY <3>1, <3>2
  <2> QED
    BY <2>3, <2>4, <2>5
<1> HIDE DEF t
<1>4. \A k \in 1..Len(t) : At_(k) \in 1..Len(chunks)
  BY <1>2, <1>3
<1>5. \A k, j \in 1..Len(t) : At_(k) = At_(j) => k = j
  BY <1>2, <1>3
<1> HIDE DEF At_
<1>6. NamesOf(t) \subseteq NamesOf(chunks)
  <2>1. DOMAIN t = 1..Len(t)
    BY <1>1
  <2> QED
    BY <1>2, <1>3, <1>4, <2>1 DEF NamesOf
<1>7. Distinct(chunks) => Distinct(t)
  BY <1>3, <1>4, <1>5 DEF Distinct
<1>8. ASSUME NEW f, NEW rem, NEW r, Along(f, rem, chunks, 0, r, r)
      PROVE  Along(f, rem, t, 0, r, r)
  <2>1. \A k \in 1..Len(chunks) : At(f, rem, chunks[k], r)
    BY <1>8 DEF Along
  <2>2. \A k \in 1..Len(t) : At(f, rem, t[k], r)
    BY <1>3, <1>4, <2>1
  <2> QED
    BY <2>2 DEF Along
<1> QED
  BY <1>6, <1>7, <1>8 DEF t

\* The metadata, when only files that names have which are gone are disturbed.
LEMMA MetasKeep ==
  ASSUME Typed, HomeInv, removed \subseteq removed', born \subseteq born', UNCHANGED meta,
         \A n \in born : n \in removed' \/ SameFiles(files, files', n)
  PROVE  \A d \in Roots : MetaInv(meta'[d], files', removed', born')
<1>1. \A d \in Roots : /\ meta[d] \in Array \cup {None, Torn} /\ MetaInv(meta[d], files, removed, born)
                       /\ Unsettled(meta[d], {}) = meta[d]
  BY NotUnsettled DEF Typed, HomeInv
<1>2. \A d \in Roots : MetaInv(Unsettled(meta[d], {}), files', removed', born')
  BY <1>1, MetaKeeps
<1> QED
  BY <1>1, <1>2

LEMMA HomeRemoved ==
  ASSUME Typed, Typed', HomeInv, NEW a \in Arrays, array[a] # None,
         ~Appending(work[a]), ~Moving(work[a]), ~Appending(work'[a]), ~Moving(work'[a]),
         \A b \in Arrays \ {a} : work'[b] = work[b],
         NEW i \in DOMAIN array[a].chunks, RemoveAtIndex(a, i), UNCHANGED <<dirs, meta, born>>
  PROVE  HomeInv'
<1> DEFINE chunks == array[a].chunks
           c == chunks[i]
           rec == [array[a] EXCEPT !.chunks = Without(@, i)]
<1>1. array[a] \in Array /\ chunks \in Seq(Chunk)
  BY ArrayFields DEF Typed
<1>2. /\ Good(born, array[a]) /\ HomeOf(files, removed, array[a])
      /\ NamedBy(array[a], work[a]) = NamesOf(chunks)
  BY AtRest DEF HomeInv
<1>3. c.name \in NamesOf(chunks) /\ c.name \in Names /\ c.dir \in Roots
  BY <1>1, ChunkAt
<1>4. /\ array' = [array EXCEPT ![a] = rec] /\ removed' = removed \cup {c.name}
      /\ files' = [files EXCEPT ![<<c.dir, c.name>>] = "none"]
  BY Zenon DEF RemoveAtIndex, Typed
<1>5. /\ NamesOf(Without(chunks, i)) \subseteq NamesOf(chunks)
      /\ Distinct(chunks) => Distinct(Without(chunks, i))
      /\ \A f, rem, r : Along(f, rem, chunks, 0, r, r) => Along(f, rem, Without(chunks, i), 0, r, r)
      /\ Without(chunks, i) \in Seq(Chunk)
  BY <1>1, WithoutIs, WithoutType
<1>6. /\ rec \in Array /\ rec.chunks = Without(chunks, i)
      /\ rec.root = array[a].root /\ rec.sound = array[a].sound
  BY <1>1, <1>5 DEF Array
<1> HIDE DEF rec
<1>7. array'[a] = rec /\ \A b \in Arrays \ {a} : array'[b] = array[b]
  BY <1>4 DEF Typed
<1> HIDE DEF c
<1>8. \A n \in Names : n \in removed' \/ SameFiles(files, files', n)
  BY <1>3, <1>4 DEF SameFiles, Typed
<1>9. \A n \in born : n \in removed' \/ SameFiles(files, files', n)
  BY <1>8 DEF Typed
<1>10. removed \subseteq removed' /\ NamesOf(chunks) \subseteq Names
  BY <1>1, <1>4, NamesAre
<1>11. HomeOf(files', removed', rec)
  <2>1. HomeOf(files', removed', array[a])
    BY <1>1, <1>2, <1>8, <1>10, HomeKeeps
  <2> QED
    BY <1>5, <1>6, <2>1 DEF HomeOf
<1>12. ArrayInv(array'[a], work'[a], files', removed', born')
  <2>1. Good(born', rec)
    BY <1>2, <1>5, <1>6 DEF Good
  <2> QED
    BY <1>7, <1>11, <2>1, AtRest
<1>13. ASSUME NEW b \in Arrays \ {a}
       PROVE  NamedBy(array'[a], work'[a]) \cap NamedBy(array[b], work[b]) = {}
  <2>1. NamedBy(array'[a], work'[a]) = NamesOf(rec.chunks)
    BY <1>6, <1>7, AtRest, ArrayFields
  <2>2. NamesOf(chunks) \cap NamedBy(array[b], work[b]) = {}
    BY <1>2 DEF HomeInv, Apart
  <2> QED
    BY <1>5, <1>6, <2>1, <2>2
<1>14. \A d \in Roots : MetaInv(meta'[d], files', removed', born')
  BY <1>9, <1>10, MetasKeep
<1>15. FilesInDirs'
  <2>1. \A d \in Roots, n \in Names : files'[<<d, n>>] = files[<<d, n>>] \/ files'[<<d, n>>] = "none"
    BY <1>4 DEF Typed
  <2> QED
    BY <2>1 DEF FilesInDirs, HomeInv
<1> QED
  BY <1>7, <1>9, <1>10, <1>12, <1>13, <1>14, <1>15, StepKeeps

LEMMA RemovalInDirs ==
  ASSUME FilesInDirs, NEW r \in Roots, UNCHANGED files,
         dirs' = dirs \/ dirs' = DirsAfterRemoval(r)
  PROVE  FilesInDirs'
<1>1. CASE dirs' = dirs
  BY <1>1 DEF FilesInDirs
<1>2. CASE dirs' = DirsAfterRemoval(r)
  BY <1>2 DEF FilesInDirs, DirsAfterRemoval
<1> QED
  BY <1>1, <1>2

LEMMA HomeRemoval ==
  ASSUME Typed, Typed', HomeInv, NEW a \in Arrays,
         RemoveChunk(a) \/ Delete(a) \/ DeleteStops(a) \/ DeleteEnds(a)
  PROVE  HomeInv'
<1>1. CASE RemoveChunk(a)
  <2>1. array[a] # None /\ work[a] = Idle
    BY <1>1, ReadyIs DEF RemoveChunk
  <2>2. PICK i \in DOMAIN array[a].chunks : RemoveAtIndex(a, i)
    BY <1>1 DEF RemoveChunk
  <2>3. work' = work /\ UNCHANGED <<dirs, meta, born>>
    BY <1>1 DEF RemoveChunk
  <2>4. work'[a] = Idle /\ \A b \in Arrays \ {a} : work'[b] = work[b]
    BY <2>1, <2>3
  <2> QED
    BY <2>1, <2>2, <2>3, <2>4, IdleRests, HomeRemoved
<1>2. CASE Delete(a)
  <2>1. /\ array[a] # None /\ ~Appending(work[a]) /\ ~Moving(work[a]) /\ array[a].chunks # <<>>
    BY <1>2 DEF Delete, Deleting, Live, Appending, Moving
  <2>2. 1 \in DOMAIN array[a].chunks
    <3>1. array[a].chunks \in Seq(Chunk)
      BY <2>1, ArrayFields DEF Typed
    <3> QED
      BY <2>1, <3>1
  <2>3. work'[a] = [op |-> "delete"] /\ \A b \in Arrays \ {a} : work'[b] = work[b]
    BY <1>2 DEF Delete, Typed
  <2>4. RemoveAtIndex(a, 1) /\ UNCHANGED <<dirs, meta, born>>
    BY <1>2 DEF Delete
  <2>5. ~Appending(work'[a]) /\ ~Moving(work'[a])
    BY <2>3, IdleRests
  <2> QED
    BY <2>1, <2>2, <2>3, <2>4, <2>5, HomeRemoved
<1>3. CASE DeleteStops(a) \/ DeleteEnds(a)
  <2>1. /\ array'[a] = None /\ UNCHANGED <<files, removed, born, meta>>
        /\ \A b \in Arrays \ {a} : array'[b] = array[b] /\ work'[b] = work[b]
    BY <1>3 DEF DeleteStops, DeleteEnds, Gone, Typed, disk, history
  <2>2. NamedBy(array'[a], work'[a]) = {}
    BY <2>1 DEF NamedBy
  <2>3. array[a].root \in Roots /\ FilesInDirs
    BY <1>3, ArrayFields DEF DeleteStops, DeleteEnds, Deleting, Live, Typed, HomeInv
  <2>4. dirs' = dirs \/ dirs' = DirsAfterRemoval(array[a].root)
    BY <1>3 DEF DeleteStops, DeleteEnds, disk
  <2>5. FilesInDirs'
    BY <2>1, <2>3, <2>4, RemovalInDirs
  <2> QED
    BY <2>1, <2>2, <2>5, QuietStepKeeps
<1> QED
  BY <1>1, <1>2, <1>3

LEMMA HomeRestart ==
  ASSUME Typed, HomeInv, Restart
  PROVE  HomeInv'
<1>1. UNCHANGED <<dirs, files, meta, born, removed>> /\ \A a \in Arrays : array'[a] = None
  BY DEF Restart, disk
<1>2. \A a \in Arrays : ArrayInv(array'[a], work'[a], files', removed', born')
  BY <1>1 DEF ArrayInv
<1>3. Apart(array', work')
  BY <1>1 DEF Apart, NamedBy
<1> QED
  BY <1>1, <1>2, <1>3 DEF HomeInv, FilesInDirs

\* The other array's chunks are what is given, and none or all of them have
\* their files in the target.
LEMMA HomeBegin ==
  ASSUME Typed, Typed', HomeInv, NEW a \in Arrays, NEW b \in Arrays,
         AppendDir(a, b) \/ AppendArray(a, b)
  PROVE  HomeInv'
<1> DEFINE chunks == array[b].chunks
<1>1. PICK op \in {"append_dir", "append_array"}, left \in {<<>>, chunks} :
        /\ BeginAppend(a, b, op, left)
        /\ left # chunks => SameRoot(a, b)
  BY DEF AppendDir, AppendArray
<1>2. /\ Ready(a) /\ Ready(b) /\ a # b /\ UNCHANGED <<dirs, files, meta, born, removed>>
      /\ array' = [array EXCEPT ![b] = None]
      /\ work' = [work EXCEPT ![a] = [op |-> op, rhs |-> array[b], left |-> left]]
  BY <1>1 DEF BeginAppend, disk, history
<1> DEFINE w == [op |-> op, rhs |-> array[b], left |-> left]
<1>3. /\ array'[a] = array[a] /\ array'[b] = None /\ work'[a] = w
      /\ \A d \in Arrays \ {a, b} : array'[d] = array[d] /\ work'[d] = work[d]
  BY <1>2 DEF Typed
<1>4. /\ array[a] # None /\ array[b] # None /\ Good(born, array[a]) /\ HomeOf(files, removed, array[a])
      /\ Good(born, array[b]) /\ HomeOf(files, removed, array[b])
      /\ chunks \in Seq(Chunk) /\ array[b].root \in Roots /\ array[a].root \in Roots
      /\ NamedBy(array[a], work[a]) = NamesOf(array[a].chunks)
      /\ NamedBy(array[b], work[b]) = NamesOf(chunks)
  BY <1>2, ReadyIs
<1>5. /\ Appending(w) /\ ~Moving(w) /\ w.rhs = array[b] /\ w.left = left
  BY DEF Appending, Moving
<1> HIDE DEF w
<1>6. NamesOf(array[a].chunks) \cap NamesOf(chunks) = {}
  BY <1>2, <1>4 DEF HomeInv, Apart
<1>7. Rest(chunks, left) /\ (left = chunks => Done(chunks, left) = 0)
      /\ (left = <<>> => Done(chunks, left) = Len(chunks))
  BY <1>4 DEF Rest, Done
<1>8. ASSUME array[a].sound, array[b].sound
      PROVE  Along(files, removed, chunks, Done(chunks, left), array[b].root, array[a].root)
  <2>1. Along(files, removed, chunks, 0, array[b].root, array[b].root)
    BY <1>4, <1>8 DEF HomeOf
  <2>2. CASE left = chunks
    BY <1>4, <1>7, <2>1, <2>2 DEF Along
  <2>3. CASE left # chunks
    <3>1. array[a].root = array[b].root
      BY <1>1, <2>3 DEF SameRoot
    <3> QED
      BY <2>1, <3>1 DEF Along
  <2> QED
    BY <2>2, <2>3
<1>9. AppendInv(array[a], w, files, removed, born)
  BY <1>4, <1>5, <1>6, <1>7, <1>8 DEF AppendInv
<1>10. ArrayInv(array'[a], work'[a], files', removed', born')
  BY <1>2, <1>3, <1>4, <1>5, <1>9 DEF ArrayInv
<1>11. ASSUME NEW d \in Arrays \ {a}, array'[d] # None
       PROVE  NamedBy(array'[a], work'[a]) \cap NamedBy(array[d], work[d]) = {}
  <2>1. NamedBy(array'[a], work'[a]) = NamesOf(array[a].chunks) \cup NamesOf(chunks)
    BY <1>3, <1>4, <1>5 DEF NamedBy
  <2>2. d # b
    BY <1>3, <1>11
  <2>3. /\ NamedBy(array[a], work[a]) \cap NamedBy(array[d], work[d]) = {}
        /\ NamedBy(array[b], work[b]) \cap NamedBy(array[d], work[d]) = {}
    BY <2>2 DEF HomeInv, Apart
  <2> QED
    BY <1>4, <2>1, <2>3
<1>12. \A n \in born : SameFiles(files, files', n)
  BY <1>2 DEF SameFiles
<1>13. \A d \in Roots : MetaInv(meta'[d], files', removed', born')
  BY <1>2 DEF HomeInv
<1>14. FilesInDirs'
  BY <1>2 DEF HomeInv, FilesInDirs
<1> QED
  BY <1>2, <1>3, <1>10, <1>11, <1>12, <1>13, <1>14, StepKeeps

-----------------------------------------------------------------------------
(***************************************************************************)
(* One file after the other.                                               *)
(***************************************************************************)
LEMMA RestNext ==
  ASSUME NEW chunks \in Seq(Chunk), NEW left \in Seq(Chunk), left # <<>>, Rest(chunks, left)
  PROVE  /\ Done(chunks, left) + 1 \in 1..Len(chunks)
         /\ Head(left) = chunks[Done(chunks, left) + 1]
         /\ Rest(chunks, Tail(left))
         /\ Done(chunks, Tail(left)) = Done(chunks, left) + 1
<1>1. /\ Len(chunks) \in Nat /\ Len(left) \in Nat /\ Len(left) >= 1
      /\ Len(Tail(left)) = Len(left) - 1 /\ Head(left) = left[1]
      /\ \A i \in 1..Len(Tail(left)) : Tail(left)[i] = left[i + 1]
  OBVIOUS
<1>2. Len(left) <= Len(chunks) /\ \A i \in 1..Len(left) : left[i] = chunks[Done(chunks, left) + i]
  BY DEF Rest
<1>3. Done(chunks, left) + 1 \in 1..Len(chunks) /\ Head(left) = chunks[Done(chunks, left) + 1]
  BY <1>1, <1>2 DEF Done
<1>4. Done(chunks, Tail(left)) = Done(chunks, left) + 1
  BY <1>1 DEF Done
<1>5. ASSUME NEW i \in 1..Len(Tail(left))
      PROVE  Tail(left)[i] = chunks[Done(chunks, Tail(left)) + i]
  <2>1. Tail(left)[i] = left[i + 1] /\ i + 1 \in 1..Len(left)
    BY <1>1
  <2>2. left[i + 1] = chunks[Done(chunks, left) + (i + 1)]
    BY <1>2, <2>1
  <2>3. Done(chunks, left) + (i + 1) = Done(chunks, Tail(left)) + i
    BY <1>1, <1>4 DEF Done
  <2> QED
    BY <2>1, <2>2, <2>3
<1> QED
  BY <1>1, <1>2, <1>3, <1>4, <1>5 DEF Rest

LEMMA AlongNext ==
  ASSUME NEW f, NEW g, NEW rem, NEW chunks \in Seq(Chunk), NEW left \in Seq(Chunk),
         left # <<>>, Rest(chunks, left), Distinct(chunks),
         NEW from \in Roots, NEW to \in Roots,
         Along(f, rem, chunks, Done(chunks, left), from, to),
         \A n \in Names \ {Head(left).name} : SameFiles(f, g, n),
         At(f, rem, Head(left), from) => At(g, rem, Head(left), to)
  PROVE  Along(g, rem, chunks, Done(chunks, Tail(left)), from, to)
<1> DEFINE done == Done(chunks, left)
<1>1. /\ done + 1 \in 1..Len(chunks) /\ Head(left) = chunks[done + 1]
      /\ Done(chunks, Tail(left)) = done + 1 /\ done \in Nat
  BY RestNext DEF Done, Rest
<1> HIDE DEF done
<1> SUFFICES ASSUME NEW i \in 1..Len(chunks)
             PROVE  At(g, rem, chunks[i], IF i <= done + 1 THEN to ELSE from)
  BY <1>1 DEF Along
<1>2. At(f, rem, chunks[i], IF i <= done THEN to ELSE from)
  BY DEF Along, done
<1>3. CASE i = done + 1
  <2>1. At(f, rem, chunks[i], from)
    BY <1>1, <1>2, <1>3
  <2> QED
    BY <1>1, <1>3, <2>1
<1>4. CASE i # done + 1
  <2> DEFINE c == chunks[i]  r == IF i <= done THEN to ELSE from
  <2>1. c.name # Head(left).name
    BY <1>1, <1>4 DEF Distinct
  <2>2. c.name \in Names /\ c.dir \in Roots /\ r \in Roots
    BY ChunkAt
  <2>3. r = IF i <= done + 1 THEN to ELSE from
    BY <1>1, <1>4
  <2>4. At(f, rem, c, r)
    BY <1>2
  <2> HIDE DEF c, r
  <2>5. g[<<r, c.name>>] = f[<<r, c.name>>] /\ g[<<c.dir, c.name>>] = f[<<c.dir, c.name>>]
    BY <2>1, <2>2 DEF SameFiles
  <2>6. At(g, rem, c, r)
    BY <2>4, <2>5 DEF At
  <2> QED
    BY <2>3, <2>6 DEF c
<1> QED
  BY <1>3, <1>4

\* What a move does to the files, and what it does not.
LEMMA MoveIs ==
  ASSUME Typed, NEW c \in Chunk, NEW to \in Roots,
         Rename(c, to) \/ CopyAndRemove(c, to) \/ CopyStops(c, to)
  PROVE  /\ \A n \in Names \ {c.name} : SameFiles(files, files', n)
         /\ FilesInDirs /\ dirs' = dirs => FilesInDirs'
<1>1. /\ c.dir \in Roots /\ c.name \in Names
      /\ files \in [Roots \X Names -> {"none", "torn", "whole"}]
  BY DEF Typed, Chunk
<1>2. \A n \in Names, d \in Roots : n # c.name => files'[<<d, n>>] = files[<<d, n>>]
  BY <1>1 DEF Rename, CopyAndRemove, CopyStops, CopiedTo
<1>3. \A n \in Names, d \in Roots :
        files'[<<d, n>>] # "none" => files[<<d, n>>] # "none" \/ (d = to /\ to \in dirs)
  BY <1>1 DEF Rename, CopyAndRemove, CopyStops, CopiedTo
<1> QED
  BY <1>2, <1>3 DEF SameFiles, FilesInDirs

LEMMA MoveArrives ==
  ASSUME Typed, NEW c \in Chunk, NEW to \in Roots, NEW from \in Roots,
         Rename(c, to) \/ CopyAndRemove(c, to), c.name \in removed \/ c.dir # to,
         At(files, removed, c, from)
  PROVE  At(files', removed, c, to)
<1>1. /\ c.dir \in Roots /\ c.name \in Names
      /\ files \in [Roots \X Names -> {"none", "torn", "whole"}]
  BY DEF Typed, Chunk
<1>2. CASE c.name \in removed
  BY <1>2 DEF At
<1>3. CASE c.name \notin removed
  <2>1. FileOf(c) # "none"
    BY DEF Rename, CopyAndRemove
  <2>2. c.dir = from /\ FileOf(c) = "whole" /\ c.dir # to
    BY <1>3, <2>1 DEF At, FileOf
  <2>3. files'[<<to, c.name>>] = FileOf(c) /\ files'[<<c.dir, c.name>>] = "none"
    BY <1>1, <2>2 DEF Rename, CopyAndRemove, CopiedTo
  <2> QED
    BY <2>2, <2>3 DEF At
<1> QED
  BY <1>2, <1>3

\* The metadata that names the file is no longer sound, the other is as before.
LEMMA UnsettledMetas ==
  ASSUME Typed, HomeInv, UNCHANGED <<removed, born>>, NEW name \in Names, UnsettleMeta(name),
         \A n \in Names \ {name} : SameFiles(files, files', n)
  PROVE  \A r \in Roots : MetaInv(meta'[r], files', removed', born')
<1>1. \A r \in Roots : /\ meta[r] \in Array \cup {None, Torn} /\ MetaInv(meta[r], files, removed, born)
                       /\ meta'[r] = Unsettled(meta[r], {name})
  BY DEF Typed, HomeInv, UnsettleMeta
<1>2. \A n \in born : n \in {name} \/ n \in removed' \/ SameFiles(files, files', n)
  BY DEF Typed
<1>3. removed \subseteq removed' /\ born \subseteq born'
  OBVIOUS
<1>4. \A r \in Roots : MetaInv(Unsettled(meta[r], {name}), files', removed', born')
  BY <1>1, <1>2, <1>3, MetaKeeps
<1> QED
  BY <1>1, <1>4

LEMMA AppendingIs ==
  ASSUME Typed, HomeInv, NEW a \in Arrays, Appending(work[a])
  PROVE  /\ array[a] \in Array /\ array[a] # None /\ array[a].root \in Roots
         /\ array[a].chunks \in Seq(Chunk) /\ array[a].sound \in BOOLEAN
         /\ work[a].rhs \in Array /\ work[a].rhs.chunks \in Seq(Chunk) /\ work[a].rhs.root \in Roots
         /\ work[a].left \in Seq(Chunk) /\ ~Moving(work[a])
         /\ Good(born, array[a]) /\ HomeOf(files, removed, array[a])
         /\ AppendInv(array[a], work[a], files, removed, born)
         /\ NamedBy(array[a], work[a]) = NamesOf(array[a].chunks) \cup NamesOf(work[a].rhs.chunks)
<1>1. array[a] \in Array
  BY BusyType
<1>2. work[a] \in [op : {"append_dir", "append_array"}, left : Seq(Chunk), rhs : Array]
  BY WorkKinds DEF Typed
<1>3. work[a].rhs \in Array /\ work[a].left \in Seq(Chunk) /\ ~Moving(work[a])
  BY <1>2 DEF Moving
<1>4. ArrayInv(array[a], work[a], files, removed, born)
  BY DEF HomeInv
<1>5. /\ array[a] # None /\ array[a].root \in Roots /\ array[a].chunks \in Seq(Chunk)
      /\ array[a].sound \in BOOLEAN
      /\ work[a].rhs.chunks \in Seq(Chunk) /\ work[a].rhs.root \in Roots
  BY <1>1, <1>3, ArrayFields
<1>6. /\ Good(born, array[a]) /\ HomeOf(files, removed, array[a])
      /\ AppendInv(array[a], work[a], files, removed, born)
  BY <1>3, <1>4, <1>5 DEF ArrayInv
<1>7. NamedBy(array[a], work[a]) = NamesOf(array[a].chunks) \cup NamesOf(work[a].rhs.chunks)
  BY <1>5 DEF NamedBy
<1> QED
  BY <1>1, <1>3, <1>5, <1>6, <1>7

\* One chunk more is where it belongs: the array's own files are not that one's.
LEMMA HomeAppendMoves ==
  ASSUME Typed, Typed', HomeInv, NEW a \in Arrays, AppendMoves(a)
  PROVE  HomeInv'
<1> DEFINE rec == array[a]  w == work[a]  rhs == w.rhs  left == w.left
           c == Head(left)  to == rec.root
           next == [w EXCEPT !.left = Tail(@)]
<1>1. Appending(w) /\ left # <<>> /\ UNCHANGED <<dirs, born, removed>>
  BY DEF AppendMoves
<1>2. /\ rec \in Array /\ rec # None /\ to \in Roots /\ rec.chunks \in Seq(Chunk)
      /\ rhs \in Array /\ rhs.chunks \in Seq(Chunk) /\ rhs.root \in Roots
      /\ left \in Seq(Chunk) /\ ~Moving(w) /\ rec.sound \in BOOLEAN
      /\ Good(born, rec) /\ HomeOf(files, removed, rec) /\ AppendInv(rec, w, files, removed, born)
      /\ NamedBy(rec, w) = NamesOf(rec.chunks) \cup NamesOf(rhs.chunks)
  BY <1>1, AppendingIs
<1>3. work' = [work EXCEPT ![a] = next]
  BY Zenon DEF AppendMoves, Typed
<1>4. work'[a] = next /\ \A b \in Arrays \ {a} : work'[b] = work[b]
  BY <1>3 DEF Typed
<1>5. next.rhs = rhs /\ next.left = Tail(left) /\ next.op = w.op
  <2>1. w \in [op : {"append_dir", "append_array"}, left : Seq(Chunk), rhs : Array]
    BY <1>1, WorkKinds DEF Typed
  <2> QED
    BY <2>1
<1>6. Appending(next) /\ ~Moving(next)
  BY <1>1, <1>2, <1>5 DEF Appending, Moving
<1>7. /\ Good(born, rhs) /\ Rest(rhs.chunks, left) /\ Distinct(rhs.chunks)
      /\ NamesOf(rec.chunks) \cap NamesOf(rhs.chunks) = {}
      /\ rec.sound /\ rhs.sound => Along(files, removed, rhs.chunks, Done(rhs.chunks, left), rhs.root, to)
  BY <1>2 DEF AppendInv, Good
<1>8. /\ c \in Chunk /\ c.name \in NamesOf(rhs.chunks) /\ c.name \in Names
      /\ Rest(rhs.chunks, Tail(left))
  BY <1>1, <1>2, <1>7, RestNext, ChunkAt
<1> DEFINE after == array'[a]
<1>9. /\ after \in Array /\ after.root = to /\ after.chunks = rec.chunks
      /\ after.sound => rec.sound /\ (c.dir = to => FileOf(c) # "none")
      /\ \A b \in Arrays \ {a} : array'[b] = array[b]
  <2>1. CASE c.dir = to
    <3> DEFINE sound == rec.sound /\ FileOf(c) # "none"
    <3>1. array' = [array EXCEPT ![a] = [rec EXCEPT !.sound = sound]]
      BY <2>1, Zenon DEF AppendMoves, Typed
    <3>2. sound \in BOOLEAN /\ (sound => rec.sound /\ FileOf(c) # "none")
      BY Zenon
    <3> HIDE DEF sound
    <3>3. after = [rec EXCEPT !.sound = sound] /\ \A b \in Arrays \ {a} : array'[b] = array[b]
      BY <3>1 DEF Typed
    <3>4. /\ after \in Array /\ after.root = to /\ after.chunks = rec.chunks
          /\ after.sound = sound
      BY <1>2, <3>2, <3>3 DEF Array
    <3> QED
      BY <3>2, <3>3, <3>4
  <2>2. CASE c.dir # to
    <3>1. array' = array
      BY <2>2 DEF AppendMoves
    <3> QED
      BY <1>2, <2>2, <3>1
  <2> QED
    BY <2>1, <2>2
<1>10. \/ c.dir = to /\ UNCHANGED <<files, meta>>
       \/ /\ c.dir # to /\ (Rename(c, to) \/ CopyAndRemove(c, to))
          /\ UnsettleMeta(c.name)
  BY DEF AppendMoves
<1> HIDE DEF next, after, c
<1>11. \A n \in Names \ {c.name} : SameFiles(files, files', n)
  <2>1. CASE c.dir = to
    BY <1>10, <2>1 DEF SameFiles
  <2>2. CASE c.dir # to
    BY <1>2, <1>8, <1>10, <2>2, MoveIs
  <2> QED
    BY <2>1, <2>2
<1>12. HomeOf(files', removed', after)
  <2>1. \A n \in NamesOf(rec.chunks) : n \in removed \/ SameFiles(files, files', n)
    <3>1. NamesOf(rec.chunks) \subseteq Names
      BY <1>2, NamesAre
    <3> QED
      BY <1>7, <1>8, <1>11, <3>1
  <2>2. HomeOf(files', removed, rec)
    BY <1>2, <2>1, HomeKeeps
  <2> QED
    BY <1>1, <1>9, <2>2 DEF HomeOf
<1>13. ASSUME after.sound, rhs.sound
       PROVE  Along(files', removed, rhs.chunks, Done(rhs.chunks, Tail(left)), rhs.root, to)
  <2>1. ASSUME At(files, removed, c, rhs.root) PROVE At(files', removed, c, to)
    <3>1. CASE c.dir = to
      <4>1. FileOf(c) # "none" /\ files' = files
        BY <1>9, <1>10, <1>13, <3>1
      <4> QED
        BY <2>1, <3>1, <4>1 DEF At, FileOf
    <3>2. CASE c.dir # to
      BY <1>2, <1>8, <1>10, <2>1, <3>2, MoveArrives
    <3> QED
      BY <3>1, <3>2
  <2>2. Along(files, removed, rhs.chunks, Done(rhs.chunks, left), rhs.root, to)
    BY <1>7, <1>9, <1>13
  <2> QED
    BY <1>1, <1>2, <1>7, <1>11, <2>1, <2>2, AlongNext DEF c
<1>14. AppendInv(after, next, files', removed', born')
  BY <1>1, <1>5, <1>7, <1>8, <1>9, <1>13 DEF AppendInv
<1>15. ArrayInv(array'[a], work'[a], files', removed', born')
  <2>1. Good(born', after)
    BY <1>1, <1>2, <1>9 DEF Good
  <2> QED
    BY <1>4, <1>6, <1>12, <1>14, <2>1 DEF ArrayInv, after
<1>16. ASSUME NEW b \in Arrays \ {a}
       PROVE  NamedBy(array'[a], work'[a]) \cap NamedBy(array[b], work[b]) = {}
  <2>1. NamedBy(after, next) \subseteq NamedBy(rec, w)
    BY <1>2, <1>5, <1>9 DEF NamedBy
  <2>2. NamedBy(rec, w) \cap NamedBy(array[b], work[b]) = {}
    BY DEF HomeInv, Apart
  <2> QED
    BY <1>4, <2>1, <2>2 DEF after
<1>17. \A r \in Roots : MetaInv(meta'[r], files', removed', born')
  <2>1. CASE c.dir = to
    BY <1>1, <1>10, <2>1 DEF HomeInv
  <2>2. CASE c.dir # to
    BY <1>1, <1>8, <1>10, <1>11, <2>2, UnsettledMetas
  <2> QED
    BY <2>1, <2>2
<1>18. FilesInDirs'
  <2>1. CASE c.dir = to
    BY <1>1, <1>10, <2>1 DEF HomeInv, FilesInDirs
  <2>2. CASE c.dir # to
    BY <1>1, <1>2, <1>8, <1>10, <2>2, MoveIs DEF HomeInv
  <2> QED
    BY <2>1, <2>2
<1>19. \A n \in born : \/ n \in NamedBy(array[a], work[a]) \/ n \in removed'
                       \/ SameFiles(files, files', n)
  BY <1>2, <1>8, <1>11 DEF Typed
<1> QED
  BY <1>1, <1>4, <1>9, <1>15, <1>16, <1>17, <1>18, <1>19, StepKeeps

LEMMA HomeAppendStops ==
  ASSUME Typed, Typed', HomeInv, NEW a \in Arrays, AppendStops(a) \/ CancelAppending(a)
  PROVE  HomeInv'
<1> DEFINE rec == array[a]  w == work[a]  c == Head(w.left)  to == rec.root
<1>1. /\ Appending(w) /\ w.left # <<>> /\ UNCHANGED <<dirs, array, born, removed>>
      /\ Rename(c, to) \/ CopyAndRemove(c, to) \/ CopyStops(c, to)
      /\ UnsettleMeta(c.name)
  BY DEF AppendStops, CancelAppending, Appending
<1>2. /\ rec # None /\ to \in Roots /\ rec.chunks \in Seq(Chunk) /\ rec \in Array
      /\ Good(born, rec) /\ HomeOf(files, removed, rec) /\ AppendInv(rec, w, files, removed, born)
      /\ w.rhs.chunks \in Seq(Chunk) /\ w.left \in Seq(Chunk)
      /\ NamedBy(rec, w) = NamesOf(rec.chunks) \cup NamesOf(w.rhs.chunks)
  BY <1>1, AppendingIs
<1>3. work'[a] = Idle /\ \A b \in Arrays \ {a} : work'[b] = work[b]
  BY DEF AppendStops, CancelAppending, Typed
<1>4. /\ c \in Chunk /\ c.name \in NamesOf(w.rhs.chunks) /\ c.name \in Names
      /\ NamesOf(rec.chunks) \cap NamesOf(w.rhs.chunks) = {}
  BY <1>1, <1>2, RestNext, ChunkAt DEF AppendInv
<1> HIDE DEF c
<1>5. (\A n \in Names \ {c.name} : SameFiles(files, files', n)) /\ FilesInDirs'
  BY <1>1, <1>2, <1>4, MoveIs DEF HomeInv
<1>6. ArrayInv(array'[a], work'[a], files', removed', born')
  <2>1. \A n \in NamesOf(rec.chunks) : n \in removed \/ SameFiles(files, files', n)
    <3>1. NamesOf(rec.chunks) \subseteq Names
      BY <1>2, NamesAre
    <3> QED
      BY <1>4, <1>5, <3>1
  <2>2. HomeOf(files', removed, rec)
    BY <1>2, <2>1, HomeKeeps
  <2> QED
    BY <1>1, <1>2, <1>3, <2>2, AtRest, IdleRests
<1>7. ASSUME NEW b \in Arrays \ {a}
      PROVE  NamedBy(array'[a], work'[a]) \cap NamedBy(array[b], work[b]) = {}
  <2>1. NamedBy(array'[a], work'[a]) = NamesOf(rec.chunks)
    BY <1>1, <1>2, <1>3, AtRest, IdleRests
  <2>2. NamedBy(rec, w) \cap NamedBy(array[b], work[b]) = {}
    BY DEF HomeInv, Apart
  <2> QED
    BY <1>2, <2>1, <2>2
<1>8. \A r \in Roots : MetaInv(meta'[r], files', removed', born')
  BY <1>1, <1>4, <1>5, UnsettledMetas
<1>9. \A n \in born : \/ n \in NamedBy(array[a], work[a]) \/ n \in removed'
                      \/ SameFiles(files, files', n)
  BY <1>2, <1>4, <1>5 DEF Typed
<1> QED
  BY <1>1, <1>3, <1>5, <1>6, <1>7, <1>8, <1>9, StepKeeps

LEMMA ConcatHome ==
  ASSUME NEW s \in Seq(Chunk), NEW t \in Seq(Chunk), NEW f, NEW rem, NEW brn
  PROVE  /\ NamesOf(s \o t) = NamesOf(s) \cup NamesOf(t)
         /\ Distinct(s) /\ Distinct(t) /\ NamesOf(s) \cap NamesOf(t) = {} => Distinct(s \o t)
         /\ \A r, from \in Roots :
              Along(f, rem, s, 0, r, r) /\ Along(f, rem, t, Len(t), from, r) => Along(f, rem, s \o t, 0, r, r)
<1> DEFINE v == s \o t
<1>1. /\ v \in Seq(Chunk) /\ Len(v) = Len(s) + Len(t)
      /\ \A i \in 1..Len(s) : v[i] = s[i]
      /\ \A i \in 1..Len(v) : i > Len(s) => v[i] = t[i - Len(s)]
  BY ConcatIs
<1>2. /\ Len(s) \in Nat /\ Len(t) \in Nat
      /\ DOMAIN s = 1..Len(s) /\ DOMAIN t = 1..Len(t) /\ DOMAIN v = 1..Len(v)
  BY <1>1
<1> HIDE DEF v
<1>3. ASSUME NEW i \in 1..Len(v)
      PROVE  \/ i \in 1..Len(s) /\ v[i] = s[i]
             \/ i > Len(s) /\ i - Len(s) \in 1..Len(t) /\ v[i] = t[i - Len(s)]
  BY <1>1, <1>2
<1>4. /\ \A i \in 1..Len(s) : i \in 1..Len(v) /\ v[i] = s[i]
      /\ \A i \in 1..Len(t) : i + Len(s) \in 1..Len(v) /\ v[i + Len(s)] = t[i]
  <2>1. \A i \in 1..Len(t) : i + Len(s) \in 1..Len(v) /\ i + Len(s) > Len(s) /\ (i + Len(s)) - Len(s) = i
    BY <1>1, <1>2
  <2>2. \A i \in 1..Len(s) : i \in 1..Len(v)
    BY <1>1, <1>2
  <2> QED
    BY <1>1, <2>1, <2>2
<1>5. NamesOf(v) = NamesOf(s) \cup NamesOf(t)
  <2>1. \A i \in 1..Len(v) : v[i].name \in NamesOf(s) \cup NamesOf(t)
    BY <1>2, <1>3 DEF NamesOf
  <2>2. \A i \in 1..Len(s) : s[i].name \in NamesOf(v)
    BY <1>2, <1>4 DEF NamesOf
  <2>3. \A i \in 1..Len(t) : t[i].name \in NamesOf(v)
    BY <1>2, <1>4 DEF NamesOf
  <2> QED
    BY <1>2, <2>1, <2>2, <2>3 DEF NamesOf
<1>6. ASSUME Distinct(s), Distinct(t), NamesOf(s) \cap NamesOf(t) = {}
      PROVE  Distinct(v)
  <2>1. \A i \in 1..Len(s), j \in 1..Len(t) : s[i].name # t[j].name
    BY <1>2, <1>6 DEF NamesOf
  <2> SUFFICES ASSUME NEW i \in 1..Len(v), NEW j \in 1..Len(v), v[i].name = v[j].name
               PROVE  i = j
    BY DEF Distinct
  <2>2. CASE i \in 1..Len(s) /\ v[i] = s[i] /\ j \in 1..Len(s) /\ v[j] = s[j]
    BY <1>6, <2>2 DEF Distinct
  <2>3. CASE /\ i - Len(s) \in 1..Len(t) /\ v[i] = t[i - Len(s)]
             /\ j - Len(s) \in 1..Len(t) /\ v[j] = t[j - Len(s)]
    <3>1. i - Len(s) = j - Len(s)
      BY <1>6, <2>3 DEF Distinct
    <3> QED
      BY <1>1, <1>2, <3>1
  <2> QED
    BY <1>3, <2>1, <2>2, <2>3
<1>7. ASSUME NEW r \in Roots, NEW from \in Roots, Along(f, rem, s, 0, r, r),
             Along(f, rem, t, Len(t), from, r)
      PROVE  Along(f, rem, v, 0, r, r)
  <2>1. \A i \in 1..Len(s) : At(f, rem, s[i], r)
    BY <1>7 DEF Along
  <2>2. \A i \in 1..Len(t) : At(f, rem, t[i], r)
    BY <1>2, <1>7 DEF Along
  <2>3. \A i \in 1..Len(v) : At(f, rem, v[i], r)
    BY <1>3, <2>1, <2>2
  <2> QED
    BY <2>3 DEF Along
<1> QED
  BY <1>5, <1>6, <1>7 DEF v

\* With nothing left, what was given is where the array's own chunks are.
LEMMA HomeAppendEnds ==
  ASSUME Typed, Typed', HomeInv, NEW a \in Arrays, AppendEnds(a)
  PROVE  HomeInv'
<1> DEFINE rec == array[a]  w == work[a]  rhs == w.rhs
           chunks == rec.chunks \o rhs.chunks
           sound == rec.sound /\ rhs.sound
           after == [rec EXCEPT !.chunks = chunks, !.sound = sound]
<1>1. Appending(w) /\ w.left = <<>> /\ UNCHANGED <<files, born, removed>>
  BY DEF AppendEnds, history
<1>2. /\ rec # None /\ rec.root \in Roots /\ rec.chunks \in Seq(Chunk) /\ rec \in Array
      /\ Good(born, rec) /\ HomeOf(files, removed, rec) /\ AppendInv(rec, w, files, removed, born)
      /\ rhs.chunks \in Seq(Chunk) /\ rhs.root \in Roots
      /\ NamedBy(rec, w) = NamesOf(rec.chunks) \cup NamesOf(rhs.chunks)
  BY <1>1, AppendingIs
<1>3. /\ Good(born, rhs) /\ NamesOf(rec.chunks) \cap NamesOf(rhs.chunks) = {}
      /\ rec.sound /\ rhs.sound => Along(files, removed, rhs.chunks, Len(rhs.chunks), rhs.root, rec.root)
  BY <1>1, <1>2 DEF AppendInv, Done
<1>4. array' = [array EXCEPT ![a] = after]
  BY Zenon DEF AppendEnds, Typed
<1>5. work'[a] = Idle /\ \A b \in Arrays \ {a} : work'[b] = work[b]
  BY DEF AppendEnds, Typed
<1>6. chunks \in Seq(Chunk)
  BY <1>2, ConcatIs
<1>7. sound \in BOOLEAN /\ (sound => rec.sound /\ rhs.sound)
  BY Zenon
<1>8. /\ NamesOf(chunks) = NamesOf(rec.chunks) \cup NamesOf(rhs.chunks)
      /\ Distinct(chunks)
  BY <1>2, <1>3, ConcatHome DEF Good
<1>9. ASSUME sound PROVE Along(files, removed, chunks, 0, rec.root, rec.root)
  <2>1. /\ Along(files, removed, rec.chunks, 0, rec.root, rec.root)
        /\ Along(files, removed, rhs.chunks, Len(rhs.chunks), rhs.root, rec.root)
    BY <1>2, <1>3, <1>7, <1>9 DEF HomeOf
  <2> QED
    BY <1>2, <2>1, ConcatHome
<1> HIDE DEF chunks, sound
<1>10. /\ after \in Array /\ after.chunks = chunks /\ after.root = rec.root /\ after.sound = sound
  BY <1>2, <1>6, <1>7 DEF Array
<1> HIDE DEF after
<1>11. array'[a] = after /\ \A b \in Arrays \ {a} : array'[b] = array[b]
  BY <1>4 DEF Typed
<1>12. Good(born, after) /\ HomeOf(files, removed, after)
  BY <1>2, <1>3, <1>8, <1>9, <1>10 DEF Good, HomeOf
<1>13. ArrayInv(array'[a], work'[a], files, removed, born)
  BY <1>5, <1>11, <1>12, AtRest, IdleRests
<1>14. NamedBy(array'[a], work'[a]) \subseteq NamedBy(array[a], work[a])
  BY <1>2, <1>5, <1>8, <1>10, <1>11, AtRest, IdleRests, ArrayFields
<1>15. \A r \in Roots : meta'[r] = meta[r] \/ MetaInv(meta'[r], files, removed, born)
  <2>1. \A r \in Roots : meta'[r] = meta[r] \/ meta'[r] = None
    BY DEF AppendEnds, CleanUp, ACleanUp, Typed
  <2> QED
    BY <2>1 DEF MetaInv
<1>16. FilesInDirs'
  <2>1. dirs' = dirs \/ dirs' = DirsAfterRemoval(rhs.root)
    BY DEF AppendEnds, CleanUp, ACleanUp
  <2> QED
    BY <1>1, <1>2, <2>1, RemovalInDirs DEF HomeInv
<1> QED
  BY <1>1, <1>5, <1>11, <1>13, <1>14, <1>15, <1>16, QuietStepKeeps

LEMMA MovingIs ==
  ASSUME Typed, HomeInv, NEW a \in Arrays, Moving(work[a])
  PROVE  /\ array[a] \in Array /\ array[a] # None /\ array[a].root \in Roots
         /\ array[a].chunks \in Seq(Chunk)
         /\ work[a].to \in Roots /\ work[a].left \in Seq(Chunk) /\ ~Appending(work[a])
         /\ Good(born, array[a]) /\ MoveInv(array[a], work[a], files, removed)
         /\ NamedBy(array[a], work[a]) = NamesOf(array[a].chunks)
<1>1. array[a] \in Array
  BY BusyType
<1>2. work[a].to \in Roots /\ work[a].left \in Seq(Chunk) /\ ~Appending(work[a])
  BY WorkKinds DEF Typed, Moving, Appending
<1>3. ArrayInv(array[a], work[a], files, removed, born)
  BY DEF HomeInv
<1>4. array[a] # None /\ array[a].root \in Roots /\ array[a].chunks \in Seq(Chunk)
  BY <1>1, ArrayFields
<1>5. Good(born, array[a]) /\ MoveInv(array[a], work[a], files, removed)
  BY <1>3, <1>4 DEF ArrayInv
<1>6. NamedBy(array[a], work[a]) = NamesOf(array[a].chunks)
  BY <1>2, <1>4 DEF NamedBy
<1> QED
  BY <1>1, <1>2, <1>4, <1>5, <1>6

\* Into the array's own root only when the directory was not there, and then
\* none of its files is.
LEMMA HomeBeginMove ==
  ASSUME Typed, Typed', HomeInv, NEW a \in Arrays, NEW r \in Roots, BeginMove(a, r)
  PROVE  HomeInv'
<1> DEFINE rec == array[a]
           w == [op |-> "move_root", left |-> rec.chunks, to |-> r]
<1>1. /\ rec # None /\ rec.root \in Roots /\ rec.chunks \in Seq(Chunk)
      /\ Good(born, rec) /\ HomeOf(files, removed, rec)
      /\ NamedBy(rec, work[a]) = NamesOf(rec.chunks)
  BY ReadyIs DEF BeginMove
<1>2. /\ UNCHANGED <<files, meta, array, removed, born>> /\ dirs' = dirs \cup {r}
      /\ work' = [work EXCEPT ![a] = w] /\ (rec.root # r \/ r \notin dirs)
  BY DEF BeginMove, history
<1>3. work'[a] = w /\ \A b \in Arrays \ {a} : work'[b] = work[b]
  BY <1>2 DEF Typed
<1>4. Moving(w) /\ ~Appending(w) /\ w.left = rec.chunks /\ w.to = r
  BY DEF Moving, Appending
<1> HIDE DEF w
<1>5. Rest(rec.chunks, rec.chunks) /\ Done(rec.chunks, rec.chunks) = 0
  BY <1>1 DEF Rest, Done
<1>6. ASSUME rec.sound
      PROVE  /\ Along(files, removed, rec.chunks, 0, rec.root, r)
             /\ r = rec.root => NamesOf(rec.chunks) \subseteq removed
  <2>1. Along(files, removed, rec.chunks, 0, rec.root, rec.root)
    BY <1>1, <1>6 DEF HomeOf
  <2>2. Along(files, removed, rec.chunks, 0, rec.root, r)
    BY <1>1, <2>1 DEF Along
  <2>3. ASSUME r = rec.root PROVE NamesOf(rec.chunks) \subseteq removed
    <3>1. \A n \in Names : files[<<r, n>>] = "none"
      BY <1>2, <2>3 DEF HomeInv, FilesInDirs
    <3>2. \A i \in 1..Len(rec.chunks) : rec.chunks[i].name \in Names /\ At(files, removed, rec.chunks[i], r)
      BY <1>1, <2>1, <2>3, ChunkAt DEF Along
    <3>3. \A i \in 1..Len(rec.chunks) : rec.chunks[i].name \in removed
      BY <3>1, <3>2 DEF At
    <3> QED
      BY <1>1, <3>3, NamesAre
  <2> QED
    BY <2>2, <2>3
<1>7. ArrayInv(array'[a], work'[a], files, removed, born)
  BY <1>1, <1>2, <1>3, <1>4, <1>5, <1>6 DEF ArrayInv, MoveInv
<1>8. NamedBy(array'[a], work'[a]) \subseteq NamedBy(array[a], work[a])
  BY <1>1, <1>2, <1>3, <1>4 DEF NamedBy
<1>9. FilesInDirs'
  BY <1>2 DEF HomeInv, FilesInDirs
<1> QED
  BY <1>2, <1>3, <1>7, <1>8, <1>9, QuietStepKeeps

LEMMA HomeMoveMoves ==
  ASSUME Typed, Typed', HomeInv, NEW a \in Arrays, MoveMoves(a)
  PROVE  HomeInv'
<1> DEFINE rec == array[a]  w == work[a]  left == w.left  to == w.to
           c == Head(left)
           next == [w EXCEPT !.left = Tail(@)]
<1>1. /\ Moving(w) /\ left # <<>> /\ UNCHANGED <<dirs, array, born, removed>>
      /\ CopyAndRemove(c, to) /\ UnsettleMeta(c.name)
  BY DEF MoveMoves
<1>2. /\ rec \in Array /\ rec # None /\ rec.root \in Roots /\ rec.chunks \in Seq(Chunk)
      /\ to \in Roots /\ left \in Seq(Chunk) /\ ~Appending(w)
      /\ Good(born, rec) /\ MoveInv(rec, w, files, removed)
      /\ NamedBy(rec, w) = NamesOf(rec.chunks)
  BY <1>1, MovingIs
<1>3. work' = [work EXCEPT ![a] = next]
  BY Zenon DEF MoveMoves, Typed
<1>4. work'[a] = next /\ \A b \in Arrays \ {a} : work'[b] = work[b]
  BY <1>3 DEF Typed
<1>5. next.to = to /\ next.left = Tail(left) /\ next.op = w.op
  <2>1. w \in [op : {"move_root"}, left : Seq(Chunk), to : Roots]
    BY <1>1, WorkKinds DEF Typed
  <2> QED
    BY <2>1
<1>6. Moving(next) /\ ~Appending(next)
  BY <1>1, <1>2, <1>5 DEF Appending, Moving
<1>7. /\ Rest(rec.chunks, left) /\ Distinct(rec.chunks)
      /\ rec.sound => /\ Along(files, removed, rec.chunks, Done(rec.chunks, left), rec.root, to)
                      /\ to = rec.root => NamesOf(rec.chunks) \subseteq removed
  BY <1>2 DEF MoveInv, Good
<1>8. /\ c \in Chunk /\ c.name \in NamesOf(rec.chunks) /\ c.name \in Names
      /\ Rest(rec.chunks, Tail(left))
  BY <1>1, <1>2, <1>7, RestNext, ChunkAt
<1> HIDE DEF next, c
<1>9. (\A n \in Names \ {c.name} : SameFiles(files, files', n)) /\ FilesInDirs'
  BY <1>1, <1>2, <1>8, MoveIs DEF HomeInv
<1>10. ASSUME rec.sound
       PROVE  Along(files', removed, rec.chunks, Done(rec.chunks, Tail(left)), rec.root, to)
  <2>1. ASSUME At(files, removed, c, rec.root) PROVE At(files', removed, c, to)
    <3>1. c.name \in removed \/ c.dir # to
      <4>1. FileOf(c) # "none"
        BY <1>1 DEF CopyAndRemove
      <4>2. c.dir = to /\ to # rec.root => c.name \in removed
        BY <2>1, <4>1 DEF At, FileOf
      <4>3. to = rec.root => c.name \in removed
        BY <1>7, <1>8, <1>10
      <4> QED
        BY <4>2, <4>3
    <3> QED
      BY <1>1, <1>2, <1>8, <2>1, <3>1, MoveArrives
  <2>2. Along(files, removed, rec.chunks, Done(rec.chunks, left), rec.root, to)
    BY <1>7, <1>10
  <2> QED
    BY <1>1, <1>2, <1>7, <1>9, <2>1, <2>2, AlongNext DEF c
<1>11. MoveInv(rec, next, files', removed')
  BY <1>1, <1>5, <1>7, <1>8, <1>10 DEF MoveInv
<1>12. ArrayInv(array'[a], work'[a], files', removed', born')
  BY <1>1, <1>2, <1>4, <1>6, <1>11 DEF ArrayInv
<1>13. ASSUME NEW b \in Arrays \ {a}
       PROVE  NamedBy(array'[a], work'[a]) \cap NamedBy(array[b], work[b]) = {}
  <2>1. NamedBy(array'[a], work'[a]) = NamedBy(rec, w)
    BY <1>1, <1>2, <1>4, <1>6 DEF NamedBy
  <2>2. NamedBy(rec, w) \cap NamedBy(array[b], work[b]) = {}
    BY DEF HomeInv, Apart
  <2> QED
    BY <2>1, <2>2
<1>14. \A r \in Roots : MetaInv(meta'[r], files', removed', born')
  BY <1>1, <1>8, <1>9, UnsettledMetas
<1>15. \A n \in born : \/ n \in NamedBy(array[a], work[a]) \/ n \in removed'
                       \/ SameFiles(files, files', n)
  BY <1>2, <1>8, <1>9 DEF Typed
<1> QED
  BY <1>1, <1>4, <1>9, <1>12, <1>13, <1>14, <1>15, StepKeeps

\* An array that is no longer sound promises nothing.
LEMMA Unsound ==
  ASSUME NEW rec \in Array, NEW brn, Good(brn, rec), NEW f, NEW rem
  PROVE  LET after == [rec EXCEPT !.sound = FALSE] IN
         /\ after \in Array /\ after.chunks = rec.chunks
         /\ ArrayInv(after, Idle, f, rem, brn)
         /\ NamedBy(after, Idle) = NamesOf(rec.chunks)
<1> DEFINE after == [rec EXCEPT !.sound = FALSE]
<1>1. after \in Array /\ after.chunks = rec.chunks /\ ~after.sound
  BY DEF Array
<1> HIDE DEF after
<1>2. Good(brn, after) /\ HomeOf(f, rem, after)
  BY <1>1 DEF Good, HomeOf
<1>3. ArrayInv(after, Idle, f, rem, brn) /\ NamedBy(after, Idle) = NamesOf(rec.chunks)
  BY <1>1, <1>2, AtRest, IdleRests, ArrayFields
<1> QED
  BY <1>1, <1>3 DEF after

LEMMA HomeMoveStops ==
  ASSUME Typed, Typed', HomeInv, NEW a \in Arrays, MoveStops(a) \/ CancelMoving(a)
  PROVE  HomeInv'
<1> DEFINE rec == array[a]  w == work[a]  c == Head(w.left)
           after == [rec EXCEPT !.sound = FALSE]
<1>1. /\ Moving(w) /\ w.left # <<>> /\ UNCHANGED <<dirs, born, removed>>
      /\ CopyAndRemove(c, w.to) \/ CopyStops(c, w.to)
      /\ UnsettleMeta(c.name)
      /\ array' = [array EXCEPT ![a] = after] /\ work' = [work EXCEPT ![a] = Idle]
  BY DEF MoveStops, CancelMoving
<1>2. /\ rec \in Array /\ rec.chunks \in Seq(Chunk) /\ w.to \in Roots /\ w.left \in Seq(Chunk)
      /\ Good(born, rec) /\ MoveInv(rec, w, files, removed) /\ NamedBy(rec, w) = NamesOf(rec.chunks)
  BY <1>1, MovingIs
<1>3. c \in Chunk /\ c.name \in NamesOf(rec.chunks) /\ c.name \in Names
  BY <1>1, <1>2, RestNext, ChunkAt DEF MoveInv
<1> HIDE DEF c
<1>4. (\A n \in Names \ {c.name} : SameFiles(files, files', n)) /\ FilesInDirs'
  BY <1>1, <1>2, <1>3, MoveIs DEF HomeInv
<1>5. /\ array'[a] = after /\ work'[a] = Idle
      /\ \A b \in Arrays \ {a} : array'[b] = array[b] /\ work'[b] = work[b]
  BY <1>1 DEF Typed
<1>6. /\ ArrayInv(after, Idle, files', removed', born') /\ NamedBy(after, Idle) = NamesOf(rec.chunks)
  <2>1. Good(born', rec)
    BY <1>1, <1>2
  <2> QED
    BY <1>2, <2>1, Unsound
<1> HIDE DEF after
<1>7. ArrayInv(array'[a], work'[a], files', removed', born')
  BY <1>5, <1>6
<1>8. ASSUME NEW b \in Arrays \ {a}
      PROVE  NamedBy(array'[a], work'[a]) \cap NamedBy(array[b], work[b]) = {}
  BY <1>2, <1>5, <1>6 DEF HomeInv, Apart
<1>9. \A r \in Roots : MetaInv(meta'[r], files', removed', born')
  BY <1>1, <1>3, <1>4, UnsettledMetas
<1>10. \A n \in born : \/ n \in NamedBy(array[a], work[a]) \/ n \in removed'
                       \/ SameFiles(files, files', n)
  BY <1>2, <1>3, <1>4 DEF Typed
<1> QED
  BY <1>1, <1>4, <1>5, <1>7, <1>8, <1>9, <1>10, StepKeeps

\* The file goes, and an array keeps its entry or is gone.
LEMMA HomeRemoveDropped ==
  ASSUME Typed, Typed', HomeInv, NEW a \in Arrays, ARemoveDropped(a)
  PROVE  HomeInv'
<1> DEFINE rec == array[a]  after == [rec EXCEPT !.sound = FALSE]
<1>1. PICK i \in DOMAIN rec.chunks :
        /\ files' = [files EXCEPT ![<<rec.chunks[i].dir, rec.chunks[i].name>>] = "none"]
        /\ UnsettleMeta(rec.chunks[i].name)
  BY Zenon DEF ARemoveDropped
<1> DEFINE c == rec.chunks[i]
<1>2. /\ rec \in Array /\ rec.chunks \in Seq(Chunk) /\ work[a] = Idle /\ Good(born, rec)
      /\ NamedBy(rec, work[a]) = NamesOf(rec.chunks)
  BY ReadyIs DEF ARemoveDropped
<1>3. c \in Chunk /\ c.name \in NamesOf(rec.chunks) /\ c.name \in Names /\ c.dir \in Roots
  BY <1>2, ChunkAt
<1>4. /\ files' = [files EXCEPT ![<<c.dir, c.name>>] = "none"] /\ UnsettleMeta(c.name)
      /\ array' = [array EXCEPT ![a] = after] /\ UNCHANGED <<dirs, work, born, removed>>
  BY <1>1 DEF ARemoveDropped
<1> HIDE DEF c
<1>5. /\ \A n \in Names \ {c.name} : SameFiles(files, files', n)
      /\ \A d \in Roots, n \in Names : files'[<<d, n>>] = files[<<d, n>>] \/ files'[<<d, n>>] = "none"
  BY <1>3, <1>4 DEF SameFiles, Typed
<1>6. /\ array'[a] = after /\ work'[a] = Idle
      /\ \A b \in Arrays \ {a} : array'[b] = array[b] /\ work'[b] = work[b]
  BY <1>2, <1>4 DEF Typed
<1>7. /\ ArrayInv(after, Idle, files', removed', born') /\ NamedBy(after, Idle) = NamesOf(rec.chunks)
  <2>1. Good(born', rec)
    BY <1>2, <1>4
  <2> QED
    BY <1>2, <2>1, Unsound
<1> HIDE DEF after
<1>8. ArrayInv(array'[a], work'[a], files', removed', born')
  BY <1>6, <1>7
<1>9. ASSUME NEW b \in Arrays \ {a}
      PROVE  NamedBy(array'[a], work'[a]) \cap NamedBy(array[b], work[b]) = {}
  BY <1>2, <1>6, <1>7 DEF HomeInv, Apart
<1>10. \A r \in Roots : MetaInv(meta'[r], files', removed', born')
  BY <1>3, <1>4, <1>5, UnsettledMetas
<1>11. \A n \in born : \/ n \in NamedBy(array[a], work[a]) \/ n \in removed'
                       \/ SameFiles(files, files', n)
  BY <1>2, <1>3, <1>5 DEF Typed
<1>12. FilesInDirs'
  BY <1>4, <1>5 DEF FilesInDirs, HomeInv
<1> QED
  BY <1>4, <1>6, <1>8, <1>9, <1>10, <1>11, <1>12, StepKeeps

LEMMA HomeDeleteDropped ==
  ASSUME Typed, Typed', HomeInv, NEW a \in Arrays, DeleteDropped(a)
  PROVE  HomeInv'
<1> DEFINE c == Head(array[a].chunks)
<1>1. array[a].chunks \in Seq(Chunk) /\ array[a].chunks # <<>>
  BY ArrayFields DEF DeleteDropped, Deleting, Live, Typed
<1>2. c \in Chunk /\ c.name \in Names /\ c.dir \in Roots
  <2>1. c \in Chunk
    BY <1>1
  <2> HIDE DEF c
  <2> QED
    BY <2>1 DEF Chunk
<1>3. /\ files' = [files EXCEPT ![<<c.dir, c.name>>] = "none"] /\ removed' = removed \cup {c.name}
      /\ Gone(a) /\ UNCHANGED <<dirs, meta, born>>
  BY DEF DeleteDropped
<1> HIDE DEF c
<1>4. /\ array'[a] = None
      /\ \A b \in Arrays \ {a} : array'[b] = array[b] /\ work'[b] = work[b]
  BY <1>3 DEF Gone, Typed
<1>5. /\ \A n \in Names : n \in removed' \/ SameFiles(files, files', n)
      /\ \A d \in Roots, n \in Names : files'[<<d, n>>] = files[<<d, n>>] \/ files'[<<d, n>>] = "none"
  BY <1>2, <1>3 DEF SameFiles, Typed
<1>6. \A n \in born : n \in removed' \/ SameFiles(files, files', n)
  BY <1>5 DEF Typed
<1>7. removed \subseteq removed' /\ born \subseteq born' /\ UNCHANGED meta
  BY <1>3
<1>8. \A r \in Roots : MetaInv(meta'[r], files', removed', born')
  BY <1>6, <1>7, MetasKeep
<1>9. ArrayInv(array'[a], work'[a], files', removed', born') /\ NamedBy(array'[a], work'[a]) = {}
  BY <1>4 DEF ArrayInv, NamedBy
<1>10. FilesInDirs'
  BY <1>3, <1>5 DEF FilesInDirs, HomeInv
<1> QED
  BY <1>4, <1>6, <1>7, <1>8, <1>9, <1>10, StepKeeps

LEMMA HomeMoveEnds ==
  ASSUME Typed, Typed', HomeInv, NEW a \in Arrays, MoveEnds(a) \/ Cancel(a)
  PROVE  HomeInv'
<1> DEFINE rec == array[a]  w == work[a]
<1>1. CASE MoveEnds(a)
  <2> DEFINE to == w.to  after == Below(rec, to)
  <2>1. /\ Moving(w) /\ w.left = <<>> /\ UNCHANGED <<dirs, files, meta, removed, born>>
        /\ array' = [array EXCEPT ![a] = after] /\ work' = [work EXCEPT ![a] = Idle]
    BY <1>1 DEF MoveEnds, disk, history
  <2>2. /\ rec \in Array /\ rec.chunks \in Seq(Chunk) /\ rec.root \in Roots /\ to \in Roots
        /\ Good(born, rec) /\ MoveInv(rec, w, files, removed) /\ NamedBy(rec, w) = NamesOf(rec.chunks)
    BY <2>1, MovingIs
  <2>3. /\ after \in Array /\ after.root = to /\ after.sound = rec.sound
        /\ NamesOf(after.chunks) = NamesOf(rec.chunks) /\ Distinct(after.chunks)
    BY <2>2, BelowIs, BelowType DEF Good
  <2>4. ASSUME rec.sound PROVE Along(files, removed, after.chunks, 0, to, to)
    <3>1. Along(files, removed, rec.chunks, Len(rec.chunks), rec.root, to)
      BY <2>1, <2>2, <2>4 DEF MoveInv, Done
    <3>2. \A i \in 1..Len(rec.chunks) : At(files, removed, rec.chunks[i], to)
      BY <2>2, <3>1 DEF Along
    <3>3. \A i \in 1..Len(rec.chunks) :
            rec.chunks[i].name \in removed \/ files[<<to, rec.chunks[i].name>>] = "whole"
      BY <3>2 DEF At
    <3>4. \A n \in NamesOf(rec.chunks) : n \in removed \/ files[<<to, n>>] = "whole"
      BY <2>2, <3>3, NamesAre
    <3> QED
      BY <2>2, <3>4, BelowHome
  <2> HIDE DEF after
  <2>5. /\ array'[a] = after /\ work'[a] = Idle
        /\ \A b \in Arrays \ {a} : array'[b] = array[b] /\ work'[b] = work[b]
    BY <2>1 DEF Typed
  <2>6. Good(born, after) /\ HomeOf(files, removed, after)
    BY <2>2, <2>3, <2>4 DEF Good, HomeOf
  <2>7. ArrayInv(array'[a], work'[a], files, removed, born)
    BY <2>5, <2>6, AtRest, IdleRests
  <2>8. NamedBy(array'[a], work'[a]) \subseteq NamedBy(array[a], work[a])
    BY <2>2, <2>3, <2>5, AtRest, IdleRests, ArrayFields
  <2>9. FilesInDirs'
    BY <2>1 DEF HomeInv, FilesInDirs
  <2> QED
    BY <2>1, <2>5, <2>7, <2>8, <2>9, QuietStepKeeps
<1>2. CASE Cancel(a)
  <2> DEFINE sound == rec.sound /\ Appending(w)
             after == [rec EXCEPT !.sound = sound]
  <2>1. /\ Appending(w) \/ Moving(w)
        /\ work' = [work EXCEPT ![a] = Idle]
    BY <1>2 DEF Cancel, disk, Appending, Moving
  <2>2. array' = [array EXCEPT ![a] = after]
    BY <1>2, Zenon DEF Cancel, Typed
  <2>3. /\ UNCHANGED <<files, meta, removed, born>>
        /\ dirs' = dirs \/ (dirs' = DirsAfterRemoval(w.rhs.root) /\ Appending(w))
    BY <1>2 DEF Cancel, ACleanUp, disk
  <2>4. /\ rec \in Array /\ Good(born, rec) /\ NamesOf(rec.chunks) \subseteq NamedBy(rec, w)
        /\ Appending(w) => HomeOf(files, removed, rec)
    BY <2>1, AppendingIs, MovingIs
  <2>5. sound \in BOOLEAN /\ (sound => rec.sound /\ Appending(w))
    BY Zenon
  <2> HIDE DEF sound
  <2>6. /\ after \in Array /\ after.chunks = rec.chunks /\ after.root = rec.root /\ after.sound = sound
    BY <2>4, <2>5 DEF Array
  <2> HIDE DEF after
  <2>7. /\ array'[a] = after /\ work'[a] = Idle
        /\ \A b \in Arrays \ {a} : array'[b] = array[b] /\ work'[b] = work[b]
    BY <2>1, <2>2 DEF Typed
  <2>8. Good(born, after) /\ HomeOf(files, removed, after)
    BY <2>4, <2>5, <2>6 DEF Good, HomeOf
  <2>9. ArrayInv(array'[a], work'[a], files, removed, born)
    BY <2>7, <2>8, AtRest, IdleRests
  <2>10. NamedBy(array'[a], work'[a]) \subseteq NamedBy(array[a], work[a])
    BY <2>4, <2>6, <2>7, AtRest, IdleRests, ArrayFields
  <2>11. FilesInDirs'
    <3>1. FilesInDirs
      BY DEF HomeInv
    <3>2. CASE dirs' = dirs
      BY <2>3, <3>1, <3>2 DEF FilesInDirs
    <3>3. CASE dirs' = DirsAfterRemoval(w.rhs.root) /\ Appending(w)
      <4>1. w.rhs.root \in Roots
        BY <3>3, AppendingIs
      <4> QED
        BY <2>3, <3>1, <3>3, <4>1, RemovalInDirs
    <3> QED
      BY <2>3, <3>2, <3>3
  <2> QED
    BY <2>3, <2>7, <2>9, <2>10, <2>11, QuietStepKeeps
<1> QED
  BY <1>1, <1>2

-----------------------------------------------------------------------------
(***************************************************************************)
(* A directory renamed under the others.                                   *)
(***************************************************************************)
LEMMA ArrayUnsettles ==
  ASSUME NEW rec \in Array \cup {None}, NEW w \in Work, NEW v \in Work, NEW names,
         ~Appending(w) => v = w,
         Appending(w) => /\ v.rhs = Unsettled(w.rhs, names) /\ v.left = w.left
                         /\ v.op = w.op,
         NEW f, NEW g, NEW rem, NEW brn,
         \A n \in Names : n \in names \/ SameFiles(f, g, n),
         ArrayInv(rec, w, f, rem, brn)
  PROVE  /\ ArrayInv(Unsettled(rec, names), v, g, rem, brn)
         /\ NamedBy(Unsettled(rec, names), v) = NamedBy(rec, w)
<1>1. CASE rec = None
  BY <1>1 DEF Unsettled, ArrayInv, NamedBy
<1>2. CASE rec # None
  <2> DEFINE u == Unsettled(rec, names)
  <2>1. /\ rec \in Array /\ rec.root \in Roots /\ rec.chunks \in Seq(Chunk)
        /\ NamesOf(rec.chunks) \subseteq Names
    BY <1>2, ArrayFields, NamesAre
  <2>2. /\ u \in Array /\ u.root = rec.root /\ u.chunks = rec.chunks /\ u # None
        /\ u.sound => rec.sound /\ NamesOf(rec.chunks) \cap names = {}
    BY <2>1, UnsettledIs, ArrayFields
  <2>3. Good(brn, u) /\ Good(brn, rec)
    BY <1>2, <2>2 DEF ArrayInv, Good
  <2>4. ASSUME ~Moving(w) PROVE HomeOf(g, rem, u)
    <3>1. HomeOf(f, rem, rec)
      BY <1>2, <2>4 DEF ArrayInv
    <3>2. \A n \in NamesOf(rec.chunks) : n \in names \/ n \in rem \/ SameFiles(f, g, n)
      BY <2>1
    <3> QED
      BY <2>1, <3>1, <3>2, UnsettledKeeps
  <2> HIDE DEF u
  <2>5. ASSUME u.sound PROVE \A n \in NamesOf(rec.chunks) : n \in rem \/ SameFiles(f, g, n)
    BY <2>1, <2>2, <2>5
  <2>6. CASE ~Appending(w)
    <3>1. v = w
      BY <2>6
    <3>2. ASSUME Moving(w) PROVE MoveInv(u, w, g, rem)
      <4>1. MoveInv(rec, w, f, rem) /\ w.to \in Roots
        BY <1>2, <3>2, WorkKinds DEF ArrayInv
      <4>2. ASSUME u.sound
            PROVE  Along(g, rem, rec.chunks, Done(rec.chunks, w.left), rec.root, w.to)
        <5>1. Along(f, rem, rec.chunks, Done(rec.chunks, w.left), rec.root, w.to)
          BY <2>2, <4>1, <4>2 DEF MoveInv
        <5> QED
          BY <2>1, <2>5, <4>1, <4>2, <5>1, AlongKeeps
      <4> QED
        BY <2>2, <4>1, <4>2 DEF MoveInv
    <3>3. ArrayInv(u, v, g, rem, brn)
      BY <2>3, <2>4, <2>6, <3>1, <3>2 DEF ArrayInv
    <3>4. NamedBy(u, v) = NamedBy(rec, w)
      BY <1>2, <2>2, <2>6, <3>1 DEF NamedBy
    <3> QED
      BY <3>3, <3>4 DEF u
  <2>7. CASE Appending(w)
    <3>1. w.rhs \in Array /\ w.rhs.chunks \in Seq(Chunk) /\ w.rhs.root \in Roots /\ ~Moving(w)
      BY <2>7, WorkKinds, ArrayFields DEF Appending, Moving
    <3>2. /\ v.rhs.chunks = w.rhs.chunks /\ v.rhs.root = w.rhs.root /\ v.left = w.left /\ v.op = w.op
          /\ v.rhs.sound => w.rhs.sound /\ NamesOf(w.rhs.chunks) \cap names = {}
      BY <2>7, <3>1, UnsettledIs
    <3>3. Appending(v) /\ ~Moving(v)
      BY <2>7, <3>1, <3>2 DEF Appending, Moving
    <3>4. AppendInv(rec, w, f, rem, brn)
      BY <1>2, <2>7 DEF ArrayInv
    <3>5. ASSUME u.sound, v.rhs.sound
          PROVE  Along(g, rem, w.rhs.chunks, Done(w.rhs.chunks, w.left), w.rhs.root, rec.root)
      <4>1. Along(f, rem, w.rhs.chunks, Done(w.rhs.chunks, w.left), w.rhs.root, rec.root)
        BY <2>2, <3>2, <3>4, <3>5 DEF AppendInv
      <4>2. \A n \in NamesOf(w.rhs.chunks) : n \in rem \/ SameFiles(f, g, n)
        BY <3>1, <3>2, <3>5, NamesAre
      <4> QED
        BY <2>1, <3>1, <4>1, <4>2, AlongKeeps
    <3>6. AppendInv(u, v, g, rem, brn)
      BY <2>2, <3>2, <3>4, <3>5 DEF AppendInv, Good
    <3>7. ArrayInv(u, v, g, rem, brn)
      BY <2>3, <2>4, <3>1, <3>3, <3>6 DEF ArrayInv
    <3>8. NamedBy(u, v) = NamedBy(rec, w)
      BY <1>2, <2>2, <2>7, <3>2, <3>3 DEF NamedBy
    <3> QED
      BY <3>7, <3>8 DEF u
  <2> QED
    BY <2>6, <2>7
<1> QED
  BY <1>1, <1>2

LEMMA HomeRename ==
  ASSUME Typed, Typed', HomeInv, NEW a \in Arrays, NEW r \in Roots,
         NEW after, RenameDir(a, r, after), UNCHANGED <<removed, born>>,
         after = Below(array[a], r) \/ after = [array[a] EXCEPT !.sound = FALSE]
  PROVE  HomeInv'
<1> DEFINE rec == array[a]  from == rec.root
           taken == {n \in Names : files[<<from, n>>] # "none"}
           Merging(w) == IF Appending(w) THEN [w EXCEPT !.rhs = Unsettled(@, taken)] ELSE w
<1>1. /\ rec \in Array /\ work[a] = Idle /\ from \in Roots /\ rec.chunks \in Seq(Chunk)
      /\ Good(born, rec) /\ HomeOf(files, removed, rec)
      /\ NamedBy(rec, work[a]) = NamesOf(rec.chunks)
  BY ReadyIs DEF RenameDir
<1>2. /\ from \in dirs /\ from # r /\ (\A n \in Names : files[<<r, n>>] = "none")
      /\ dirs' = (dirs \ {from}) \cup {r}
  BY DEF RenameDir
<1>3. \A d \in Roots, n \in Names :
        /\ d = r => files'[<<d, n>>] = files[<<from, n>>]
        /\ d = from => files'[<<d, n>>] = "none"
        /\ d \notin {r, from} => files'[<<d, n>>] = files[<<d, n>>]
  BY <1>2 DEF RenameDir, Typed
<1>4. \A n \in Names : n \in taken \/ SameFiles(files, files', n)
  <2> SUFFICES ASSUME NEW n \in Names, n \notin taken, NEW d \in Roots
               PROVE  files'[<<d, n>>] = files[<<d, n>>]
    BY DEF SameFiles
  <2>1. files[<<from, n>>] = "none" /\ files[<<r, n>>] = "none"
    BY <1>2
  <2> QED
    BY <1>3, <2>1
<1>5. \A b \in Arrays : array'[b] = IF b = a THEN after ELSE Unsettled(array[b], taken)
  BY Zenon DEF RenameDir
<1>6. \A b \in Arrays : work'[b] = Merging(work[b])
  BY Zenon DEF RenameDir
<1>7. \A d \in Roots : meta'[d] \in {None, Unsettled(meta[from], taken), Unsettled(meta[d], taken)}
  BY Zenon DEF RenameDir
<1> HIDE DEF taken
<1>8. ASSUME NEW b \in Arrays
      PROVE  /\ ~Appending(work[b]) => work'[b] = work[b]
             /\ Appending(work[b]) => /\ work'[b].rhs = Unsettled(work[b].rhs, taken)
                                      /\ work'[b].left = work[b].left
                                      /\ work'[b].op = work[b].op
  <2>1. CASE ~Appending(work[b])
    BY <1>6, <2>1
  <2>2. CASE Appending(work[b])
    <3>1. work[b] \in [op : {"append_dir", "append_array"}, left : Seq(Chunk), rhs : Array]
      BY <2>2, WorkKinds DEF Typed
    <3>2. work'[b] = [work[b] EXCEPT !.rhs = Unsettled(@, taken)]
      BY <1>6, <2>2
    <3> QED
      BY <2>2, <3>1, <3>2
  <2> QED
    BY <2>1, <2>2
<1>9. ASSUME NEW b \in Arrays \ {a}
      PROVE  /\ ArrayInv(array'[b], work'[b], files', removed', born')
             /\ NamedBy(array'[b], work'[b]) = NamedBy(array[b], work[b])
  <2>1. /\ array[b] \in Array \cup {None} /\ work[b] \in Work /\ work'[b] \in Work
        /\ ArrayInv(array[b], work[b], files, removed, born)
    BY DEF Typed, HomeInv
  <2>2. /\ ArrayInv(Unsettled(array[b], taken), work'[b], files', removed, born)
        /\ NamedBy(Unsettled(array[b], taken), work'[b]) = NamedBy(array[b], work[b])
    BY <1>4, <1>8, <2>1, ArrayUnsettles
  <2> QED
    BY <1>2, <1>5, <2>2
<1>10. /\ ArrayInv(array'[a], work'[a], files', removed', born')
       /\ NamedBy(array'[a], work'[a]) = NamedBy(array[a], work[a])
  <2>1. array'[a] = after /\ work'[a] = Idle
    BY <1>1, <1>5, <1>8, IdleRests
  <2>2. CASE after = Below(rec, r)
    <3>1. /\ after \in Array /\ after.root = r /\ after.sound = rec.sound
          /\ NamesOf(after.chunks) = NamesOf(rec.chunks) /\ Distinct(after.chunks)
      BY <1>1, <2>2, BelowIs, BelowType DEF Good
    <3>2. ASSUME rec.sound PROVE Along(files', removed, after.chunks, 0, r, r)
      <4>1. \A i \in 1..Len(rec.chunks) : At(files, removed, rec.chunks[i], from)
        BY <1>1, <3>2 DEF HomeOf, Along
      <4>2. \A i \in 1..Len(rec.chunks) :
              rec.chunks[i].name \in removed \/ files[<<from, rec.chunks[i].name>>] = "whole"
        BY <4>1 DEF At
      <4>3. \A n \in NamesOf(rec.chunks) : n \in Names /\ (n \in removed \/ files[<<from, n>>] = "whole")
        BY <1>1, <4>2, NamesAre
      <4>4. \A n \in NamesOf(rec.chunks) : n \in removed \/ files'[<<r, n>>] = "whole"
        BY <1>3, <4>3
      <4> QED
        BY <1>1, <2>2, <4>4, BelowHome
    <3>3. Good(born', after) /\ HomeOf(files', removed', after)
      BY <1>1, <3>1, <3>2 DEF Good, HomeOf
    <3> QED
      BY <1>1, <2>1, <3>1, <3>3, AtRest, IdleRests, ArrayFields
  <2>3. CASE after = [rec EXCEPT !.sound = FALSE]
    <3>1. Good(born', rec)
      BY <1>1
    <3>2. ArrayInv(after, Idle, files', removed', born') /\ NamedBy(after, Idle) = NamesOf(rec.chunks)
      BY <1>1, <2>3, <3>1, Unsound
    <3> QED
      BY <1>1, <2>1, <3>2
  <2> QED
    BY <2>2, <2>3
<1>11. \A b \in Arrays : /\ ArrayInv(array'[b], work'[b], files', removed', born')
                         /\ NamedBy(array'[b], work'[b]) = NamedBy(array[b], work[b])
  BY <1>9, <1>10
<1>12. Apart(array', work')
  BY <1>11 DEF HomeInv, Apart
<1>13. \A d \in Roots : MetaInv(meta'[d], files', removed', born')
  <2>1. \A d \in Roots : meta[d] \in Array \cup {None, Torn} /\ MetaInv(meta[d], files, removed, born)
    BY DEF Typed, HomeInv
  <2>2. (\A n \in born : n \in taken \/ n \in removed' \/ SameFiles(files, files', n))
        /\ removed \subseteq removed' /\ born \subseteq born'
    BY <1>2, <1>4 DEF Typed
  <2>3. \A d \in Roots : MetaInv(Unsettled(meta[d], taken), files', removed', born')
    BY <2>1, <2>2, MetaKeeps
  <2>4. MetaInv(None, files', removed', born')
    BY DEF MetaInv
  <2> QED
    BY <1>1, <1>7, <2>3, <2>4
<1>14. FilesInDirs'
  BY <1>1, <1>2, <1>3 DEF HomeInv, FilesInDirs
<1> QED
  BY <1>11, <1>12, <1>13, <1>14 DEF HomeInv

-----------------------------------------------------------------------------
LEMMA HomeNext == Typed /\ HomeInv /\ [Next]_vars => HomeInv'
<1> SUFFICES ASSUME Typed, Typed', HomeInv, [Next]_vars PROVE HomeInv'
  BY TypedNext
<1>1. CASE UNCHANGED vars
  <2>1. UNCHANGED <<dirs, files, meta, array, work, born, removed>>
    BY <1>1 DEF vars, disk, history
  <2> QED
    BY <2>1 DEF HomeInv, Apart, FilesInDirs
<1>2. CASE Restart
  BY <1>2, HomeRestart
<1>3. ASSUME NEW a \in Arrays,
             \/ \E r \in Roots : \/ ANew(a, r) \/ FromExistingArray(a, r)
                                 \/ ALoad(a, r) \/ UpdateRoot(a, r)
             \/ ASave(a) \/ Drop(a)
      PROVE  HomeInv'
  BY <1>3, HomeArrays, Zenon DEF ANew, ALoad, ASave
<1>4. ASSUME NEW a \in Arrays, NEW n \in Names, AAppend(a, n) \/ AAppendMemory(a, n)
      PROVE  HomeInv'
  BY <1>4, HomeAppend, Zenon DEF AAppend, AAppendMemory, AppendMemory
<1>5. ASSUME NEW a \in Arrays,
             \/ ARemove(a) \/ ARemoveDropped(a)
             \/ Delete(a) \/ DeleteStops(a) \/ DeleteDropped(a) \/ DeleteEnds(a)
      PROVE  HomeInv'
  BY <1>5, HomeRemoval, HomeRemoveDropped, HomeDeleteDropped, Zenon DEF ARemove
<1>6. ASSUME NEW a \in Arrays, NEW b \in Arrays, AAppendDir(a, b) \/ AppendArray(a, b)
      PROVE  HomeInv'
  BY <1>6, HomeBegin, Zenon DEF AAppendDir
<1>7. ASSUME NEW a \in Arrays,
             AppendMoves(a) \/ AppendStops(a) \/ CancelAppending(a) \/ AppendEnds(a)
      PROVE  HomeInv'
  BY <1>7, HomeAppendMoves, HomeAppendStops, HomeAppendEnds, Zenon
<1>8. ASSUME NEW a \in Arrays, NEW r \in Roots, AMoveRoot(a, r) \/ ARenameDropped(a, r)
      PROVE  HomeInv'
  <2>1. CASE BeginMove(a, r)
    BY <2>1, HomeBeginMove
  <2>2. CASE RenameRoot(a, r) \/ ARenameDropped(a, r)
    <3>1. UNCHANGED <<removed, born>>
      BY <2>2, Zenon DEF RenameRoot, ARenameDropped, history
    <3> QED
      BY <2>2, <3>1, HomeRename, Zenon DEF RenameRoot, ARenameDropped
  <2> QED
    BY <1>8, <2>1, <2>2, Zenon DEF AMoveRoot, MoveRoot
<1>9. ASSUME NEW a \in Arrays,
             MoveMoves(a) \/ MoveStops(a) \/ CancelMoving(a) \/ MoveEnds(a) \/ Cancel(a)
      PROVE  HomeInv'
  BY <1>9, HomeMoveMoves, HomeMoveStops, HomeMoveEnds, Zenon
<1> QED
  BY <1>1, <1>2, <1>3, <1>4, <1>5, <1>6, <1>7, <1>8, <1>9, Zenon DEF Next

LEMMA HomeImplies == Typed /\ HomeInv => HomeHoldsFiles
<1> SUFFICES ASSUME Typed, HomeInv, NEW a \in Live, array[a].sound, ~Moving(work[a]),
                    NEW n \in NamesOf(array[a].chunks) \ removed
             PROVE  files[<<array[a].root, n>>] = "whole"
  BY DEF HomeHoldsFiles
<1>1. a \in Arrays /\ array[a] # None /\ array[a] \in Array
  BY DEF Live, Typed
<1>2. array[a].chunks \in Seq(Chunk) /\ HomeOf(files, removed, array[a])
  BY <1>1, ArrayFields DEF HomeInv, ArrayInv
<1>3. PICK i \in 1..Len(array[a].chunks) : n = array[a].chunks[i].name
  BY <1>2, NamesAre
<1>4. At(files, removed, array[a].chunks[i], array[a].root)
  BY <1>2 DEF HomeOf, Along
<1> QED
  BY <1>3, <1>4 DEF At

\* An array whose own operations all succeeded has the file of every chunk in
\* its root, wherever its chunks' paths point and whatever its neighbours, a
\* restart or a loading did (directory/sync_impl.rs:114-165, 207-222;
\* async_impl.rs has the same steps).
THEOREM FilesStayHome == Spec => []HomeHoldsFiles
<1>1. Init => Typed /\ HomeInv
  BY TypedInit, HomeInit
<1>2. Typed /\ HomeInv /\ [Next]_vars => (Typed /\ HomeInv)'
  BY TypedNext, HomeNext
<1>3. Typed /\ HomeInv => HomeHoldsFiles
  BY HomeImplies
<1> QED
  BY <1>1, <1>2, <1>3, PTL DEF Spec

-----------------------------------------------------------------------------
(***************************************************************************)
(* What is left behind.                                                    *)
(***************************************************************************)
OrphanFree ==
  \A r \in Roots, n \in Names : files[<<r, n>>] # "none" =>
    /\ \E a \in Arrays : n \in NamedBy(array[a], work[a])
    /\ \A d \in Roots : files[<<d, n>>] # "none" => d = r

OrphanInv == cuts \in Nat /\ (cuts = 0 => OrphanFree)

\* The files are as before, and every name is somebody's that was.
LEMMA QuietOrphans ==
  ASSUME OrphanFree, UNCHANGED files,
         \A b \in Arrays : \A n \in NamedBy(array[b], work[b]) :
           \E d \in Arrays : n \in NamedBy(array'[d], work'[d])
  PROVE  OrphanFree'
<1>1. files' = files
  OBVIOUS
<1> QED
  BY <1>1 DEF OrphanFree

\* One array, which names no less than it did.
LEMMA SameOrphans ==
  ASSUME OrphanFree, UNCHANGED files, NEW a \in Arrays,
         \A b \in Arrays \ {a} : array'[b] = array[b] /\ work'[b] = work[b],
         NamedBy(array[a], work[a]) \subseteq NamedBy(array'[a], work'[a])
  PROVE  OrphanFree'
<1>1. \A b \in Arrays : NamedBy(array[b], work[b]) \subseteq NamedBy(array'[b], work'[b])
  OBVIOUS
<1> QED
  BY <1>1, QuietOrphans

LEMMA OrphanArrays ==
  ASSUME Typed, Typed', HomeInv, OrphanFree, UNCHANGED cuts, cuts \in Nat, NEW a \in Arrays,
         \/ \E r \in Roots : \/ New(a, r) \/ FromExistingArray(a, r)
                             \/ Load(a, r) \/ UpdateRoot(a, r)
         \/ Save(a) \/ Drop(a)
  PROVE  OrphanFree'
<1>1. ASSUME NEW r \in Roots, New(a, r) \/ Load(a, r) PROVE OrphanFree'
  <2>1. array[a] = None
    BY <1>1, NoneRests DEF New, Load
  <2>2. UNCHANGED <<files, work>> /\ \A b \in Arrays \ {a} : array'[b] = array[b]
    BY <1>1 DEF New, Load, Typed, disk
  <2>3. NamedBy(array[a], work[a]) = {}
    BY <2>1 DEF NamedBy
  <2> QED
    BY <2>2, <2>3, SameOrphans
<1>2. ASSUME NEW r \in Roots, UpdateRoot(a, r) PROVE OrphanFree'
  <2> DEFINE below == Below(array[a], r)
             rec == [below EXCEPT !.sound = TRUE]
  <2>1. /\ array[a] \in Array /\ work[a] = Idle
        /\ NamedBy(array[a], work[a]) = NamesOf(array[a].chunks)
    BY <1>2, ReadyIs DEF UpdateRoot
  <2>2. array' = [array EXCEPT ![a] = rec] /\ UNCHANGED <<files, work>>
    BY <1>2, Zenon DEF UpdateRoot, Typed, disk
  <2>3. below \in Array /\ NamesOf(below.chunks) = NamesOf(array[a].chunks)
    BY <2>1, BelowIs, BelowType
  <2> HIDE DEF below
  <2>4. rec \in Array /\ rec.chunks = below.chunks
    BY <2>3 DEF Array
  <2> HIDE DEF rec
  <2>5. array'[a] = rec /\ \A b \in Arrays \ {a} : array'[b] = array[b]
    BY <2>2 DEF Typed
  <2>6. NamedBy(array'[a], work'[a]) = NamedBy(array[a], work[a])
    BY <2>1, <2>2, <2>3, <2>4, <2>5, AtRest, IdleRests, ArrayFields
  <2> QED
    BY <2>2, <2>5, <2>6, SameOrphans
<1>3. ASSUME Cut PROVE FALSE
  BY <1>3 DEF Cut
<1>4. ASSUME NEW r \in Roots, FromExistingArray(a, r) PROVE OrphanFree'
  BY <1>3, <1>4 DEF FromExistingArray
<1>5. CASE Save(a)
  BY <1>5, SameOrphans DEF Save
<1>6. CASE Drop(a)
  BY <1>3, <1>6 DEF Drop
<1> QED
  BY <1>1, <1>2, <1>4, <1>5, <1>6

LEMMA OrphanAppend ==
  ASSUME Typed, Typed', HomeInv, OrphanFree, UNCHANGED cuts, cuts \in Nat, NEW a \in Arrays,
         NEW n \in Names, AppendChunk(a, n)
  PROVE  OrphanFree'
<1> DEFINE r == array[a].root
           c == [name |-> n, dir |-> r]
           rec == [array[a] EXCEPT !.chunks = Append(@, c)]
<1>1. /\ array[a] \in Array /\ work[a] = Idle /\ r \in Roots /\ array[a].chunks \in Seq(Chunk)
      /\ Good(born, array[a]) /\ NamedBy(array[a], work[a]) = NamesOf(array[a].chunks)
  BY ReadyIs DEF AppendChunk
<1>2. /\ array' = [array EXCEPT ![a] = rec] /\ files' = [files EXCEPT ![<<r, n>>] = "whole"]
      /\ work' = work /\ n \notin born /\ \A d \in Roots : files[<<d, n>>] = "none"
  <2>1. ~Cut
    BY DEF Cut
  <2> QED
    BY <2>1, Zenon DEF AppendChunk, Typed
<1>3. c \in Chunk /\ c.name = n
  BY <1>1 DEF Chunk
<1> HIDE DEF c
<1>4. rec \in Array /\ rec.chunks = Append(array[a].chunks, c)
  <2>1. Append(array[a].chunks, c) \in Seq(Chunk)
    BY <1>1, <1>3
  <2> QED
    BY <1>1, <2>1 DEF Array
<1>5. NamesOf(rec.chunks) = NamesOf(array[a].chunks) \cup {n}
  <2>1. /\ c.name \notin born /\ Distinct(array[a].chunks) /\ NamesOf(array[a].chunks) \subseteq born
        /\ array[a].chunks \in Seq(Chunk) /\ c \in Chunk
    BY <1>1, <1>2, <1>3 DEF Good
  <2>2. NamesOf(Append(array[a].chunks, c)) = NamesOf(array[a].chunks) \cup {c.name}
    BY <2>1, GoodPush
  <2> QED
    BY <1>3, <1>4, <2>2
<1> HIDE DEF rec
<1>6. array'[a] = rec /\ \A b \in Arrays \ {a} : array'[b] = array[b]
  BY <1>2 DEF Typed
<1>7. NamedBy(array'[a], work'[a]) = NamedBy(array[a], work[a]) \cup {n}
  BY <1>1, <1>2, <1>4, <1>5, <1>6, AtRest, IdleRests, ArrayFields
<1>8. \A b \in Arrays \ {a} : NamedBy(array'[b], work'[b]) = NamedBy(array[b], work[b])
  BY <1>2, <1>6
<1>9. ASSUME NEW d \in Roots, NEW m \in Names, files'[<<d, m>>] # "none"
      PROVE  /\ \E b \in Arrays : m \in NamedBy(array'[b], work'[b])
             /\ \A e \in Roots : files'[<<e, m>>] # "none" => e = d
  <2>1. CASE m = n
    BY <1>1, <1>2, <1>7, <1>9, <2>1 DEF Typed
  <2>2. CASE m # n
    <3>1. \A e \in Roots : files'[<<e, m>>] = files[<<e, m>>]
      BY <1>1, <1>2, <2>2 DEF Typed
    <3> QED
      BY <1>7, <1>8, <1>9, <3>1 DEF OrphanFree
  <2> QED
    BY <2>1, <2>2
<1> QED
  BY <1>9 DEF OrphanFree

LEMMA WithoutNames ==
  ASSUME NEW chunks \in Seq(Chunk), NEW i \in DOMAIN chunks
  PROVE  NamesOf(chunks) \subseteq NamesOf(Without(chunks, i)) \cup {chunks[i].name}
<1> DEFINE u == SubSeq(chunks, 1, i - 1)  v == SubSeq(chunks, i + 1, Len(chunks))
<1>1. i \in 1..Len(chunks) /\ Len(chunks) \in Nat /\ DOMAIN chunks = 1..Len(chunks)
  OBVIOUS
<1>2. /\ u \in Seq(Chunk) /\ Len(u) = i - 1 /\ \A k \in 1..(i - 1) : u[k] = chunks[k]
  BY <1>1
<1>3. /\ v \in Seq(Chunk) /\ Len(v) = Len(chunks) - i
      /\ \A k \in 1..(Len(chunks) - i) : v[k] = chunks[i + k]
  BY <1>1
<1> HIDE DEF u, v
<1>4. NamesOf(Without(chunks, i)) = NamesOf(u) \cup NamesOf(v)
  BY <1>2, <1>3, ConcatHome DEF Without, u, v
<1>5. ASSUME NEW k \in 1..Len(chunks), k # i
      PROVE  chunks[k].name \in NamesOf(u) \cup NamesOf(v)
  <2>1. CASE k < i
    <3>1. k \in 1..Len(u) /\ u[k] = chunks[k]
      BY <1>1, <1>2, <2>1
    <3> QED
      BY <1>2, <3>1, ChunkAt
  <2>2. CASE k > i
    <3>1. k - i \in 1..(Len(chunks) - i) /\ i + (k - i) = k
      BY <1>1, <2>2
    <3>2. k - i \in 1..Len(v) /\ v[k - i] = chunks[k]
      BY <1>3, <3>1
    <3> QED
      BY <1>3, <3>2, ChunkAt
  <2> QED
    BY <1>1, <1>5, <2>1, <2>2
<1> QED
  BY <1>4, <1>5, NamesAre

\* The file goes with the entry, and was the only one of its name.
LEMMA OrphanRemoved ==
  ASSUME Typed, Typed', HomeInv, OrphanFree, NEW a \in Arrays, array[a] # None,
         ~Appending(work[a]), ~Appending(work'[a]),
         \A b \in Arrays \ {a} : work'[b] = work[b],
         NEW i \in DOMAIN array[a].chunks, RemoveAtIndex(a, i)
  PROVE  OrphanFree'
<1> DEFINE chunks == array[a].chunks
           c == chunks[i]
           rec == [array[a] EXCEPT !.chunks = Without(@, i)]
<1>1. array[a] \in Array /\ chunks \in Seq(Chunk)
  BY ArrayFields DEF Typed
<1>2. c.name \in Names /\ c.dir \in Roots
  BY <1>1, ChunkAt
<1>3. /\ array' = [array EXCEPT ![a] = rec] /\ FileOf(c) # "none"
      /\ files' = [files EXCEPT ![<<c.dir, c.name>>] = "none"]
  BY Zenon DEF RemoveAtIndex, Typed
<1>4. rec \in Array /\ rec.chunks = Without(chunks, i)
  BY <1>1, WithoutType DEF Array
<1>5. NamesOf(chunks) \subseteq NamesOf(rec.chunks) \cup {c.name}
  BY <1>1, <1>4, WithoutNames
<1> HIDE DEF rec
<1>6. array'[a] = rec /\ \A b \in Arrays \ {a} : array'[b] = array[b]
  BY <1>3 DEF Typed
<1>7. NamedBy(array[a], work[a]) \subseteq NamedBy(array'[a], work'[a]) \cup {c.name}
  BY <1>4, <1>5, <1>6, ArrayFields DEF NamedBy
<1> HIDE DEF c
<1>8. \A d \in Roots : files'[<<d, c.name>>] = "none"
  BY <1>2, <1>3 DEF OrphanFree, Typed, FileOf
<1>9. \A d \in Roots, n \in Names : n # c.name => files'[<<d, n>>] = files[<<d, n>>]
  BY <1>2, <1>3 DEF Typed
<1>10. ASSUME NEW d \in Roots, NEW n \in Names, files'[<<d, n>>] # "none"
       PROVE  /\ \E b \in Arrays : n \in NamedBy(array'[b], work'[b])
              /\ \A e \in Roots : files'[<<e, n>>] # "none" => e = d
  <2>1. n # c.name
    BY <1>8, <1>10
  <2>2. PICK b \in Arrays : n \in NamedBy(array[b], work[b])
    BY <1>9, <1>10, <2>1 DEF OrphanFree
  <2>3. n \in NamedBy(array'[b], work'[b])
    BY <1>6, <1>7, <2>1, <2>2
  <2> QED
    BY <1>9, <1>10, <2>1, <2>3 DEF OrphanFree
<1> QED
  BY <1>10 DEF OrphanFree

LEMMA OrphanRemoval ==
  ASSUME Typed, Typed', HomeInv, OrphanFree, UNCHANGED cuts, cuts \in Nat, NEW a \in Arrays,
         RemoveChunk(a) \/ Delete(a) \/ DeleteStops(a) \/ DeleteEnds(a)
  PROVE  OrphanFree'
<1>1. CASE RemoveChunk(a)
  <2>1. array[a] # None /\ work[a] = Idle
    BY <1>1, ReadyIs DEF RemoveChunk
  <2>2. PICK i \in DOMAIN array[a].chunks : RemoveAtIndex(a, i)
    BY <1>1 DEF RemoveChunk
  <2>3. work' = work
    BY <1>1 DEF RemoveChunk
  <2>4. ~Appending(work[a]) /\ ~Appending(work'[a]) /\ \A b \in Arrays \ {a} : work'[b] = work[b]
    BY <2>1, <2>3, IdleRests
  <2> QED
    BY <2>1, <2>2, <2>4, OrphanRemoved
<1>2. CASE Delete(a)
  <2>1. /\ array[a] # None /\ ~Appending(work[a]) /\ array[a].chunks # <<>>
    BY <1>2 DEF Delete, Deleting, Live, Appending
  <2>2. 1 \in DOMAIN array[a].chunks
    <3>1. array[a].chunks \in Seq(Chunk)
      BY <2>1, ArrayFields DEF Typed
    <3> QED
      BY <2>1, <3>1
  <2>3. work'[a] = [op |-> "delete"] /\ \A b \in Arrays \ {a} : work'[b] = work[b]
    BY <1>2 DEF Delete, Typed
  <2>4. RemoveAtIndex(a, 1)
    BY <1>2 DEF Delete
  <2>5. ~Appending(work'[a])
    BY <2>3, IdleRests
  <2> QED
    BY <2>1, <2>2, <2>3, <2>4, <2>5, OrphanRemoved
<1>3. CASE DeleteStops(a)
  BY <1>3 DEF DeleteStops, Cut
<1>4. CASE DeleteEnds(a)
  <2>1. /\ UNCHANGED files /\ \A b \in Arrays \ {a} : array'[b] = array[b] /\ work'[b] = work[b]
    BY <1>4 DEF DeleteEnds, Gone, Typed
  <2>2. /\ array[a] # None /\ ~Appending(work[a]) /\ array[a].chunks = <<>>
    BY <1>4 DEF DeleteEnds, Deleting, Live, Appending
  <2>3. NamedBy(array[a], work[a]) = {}
    BY <2>2 DEF NamedBy, NamesOf
  <2> QED
    BY <2>1, <2>3, SameOrphans
<1> QED
  BY <1>1, <1>2, <1>3, <1>4

LEMMA OrphanBegin ==
  ASSUME Typed, Typed', HomeInv, OrphanFree, NEW a \in Arrays, NEW b \in Arrays,
         AppendDir(a, b) \/ AppendArray(a, b)
  PROVE  OrphanFree'
<1>1. PICK op \in {"append_dir", "append_array"}, left \in {<<>>, array[b].chunks} :
        BeginAppend(a, b, op, left)
  BY DEF AppendDir, AppendArray
<1> DEFINE w == [op |-> op, rhs |-> array[b], left |-> left]
<1>2. /\ Ready(a) /\ Ready(b) /\ a # b /\ UNCHANGED files
      /\ array' = [array EXCEPT ![b] = None] /\ work' = [work EXCEPT ![a] = w]
  BY <1>1 DEF BeginAppend, disk
<1>3. /\ array'[a] = array[a] /\ work'[a] = w
      /\ \A d \in Arrays \ {a, b} : array'[d] = array[d] /\ work'[d] = work[d]
  BY <1>2 DEF Typed
<1>4. /\ array[a] # None /\ array[b] # None
      /\ NamedBy(array[a], work[a]) = NamesOf(array[a].chunks)
      /\ NamedBy(array[b], work[b]) = NamesOf(array[b].chunks)
  BY <1>2, ReadyIs
<1>5. Appending(w) /\ w.rhs = array[b]
  BY DEF Appending
<1> HIDE DEF w
<1>6. NamedBy(array'[a], work'[a]) = NamedBy(array[a], work[a]) \cup NamedBy(array[b], work[b])
  BY <1>3, <1>4, <1>5 DEF NamedBy
<1>7. \A d \in Arrays : \A n \in NamedBy(array[d], work[d]) :
        \E e \in Arrays : n \in NamedBy(array'[e], work'[e])
  BY <1>3, <1>6
<1> QED
  BY <1>2, <1>7, QuietOrphans

\* A file that is moved was the only one of its name, and is again.
LEMMA OrphanMoves ==
  ASSUME Typed, OrphanFree, NEW c \in Chunk, NEW to \in Roots,
         Rename(c, to) \/ CopyAndRemove(c, to),
         \A b \in Arrays : NamedBy(array[b], work[b]) \subseteq NamedBy(array'[b], work'[b])
  PROVE  OrphanFree'
<1>1. /\ c.dir \in Roots /\ c.name \in Names
      /\ files \in [Roots \X Names -> {"none", "torn", "whole"}]
  BY DEF Typed, Chunk
<1>2. FileOf(c) # "none"
  BY DEF Rename, CopyAndRemove
<1>3. \A d \in Roots : files[<<d, c.name>>] # "none" => d = c.dir
  BY <1>1, <1>2 DEF OrphanFree, FileOf
<1>4. \A d \in Roots, n \in Names : n # c.name => files'[<<d, n>>] = files[<<d, n>>]
  BY <1>1 DEF Rename, CopyAndRemove, CopiedTo
<1>5. \A d \in Roots : files'[<<d, c.name>>] # "none" => d = to
  BY <1>1, <1>3 DEF Rename, CopyAndRemove, CopiedTo
<1>6. PICK b \in Arrays : c.name \in NamedBy(array[b], work[b])
  BY <1>1, <1>2 DEF OrphanFree, FileOf
<1>7. ASSUME NEW d \in Roots, NEW n \in Names, files'[<<d, n>>] # "none"
      PROVE  /\ \E e \in Arrays : n \in NamedBy(array'[e], work'[e])
             /\ \A e \in Roots : files'[<<e, n>>] # "none" => e = d
  <2>1. CASE n = c.name
    BY <1>5, <1>6, <1>7, <2>1
  <2>2. CASE n # c.name
    BY <1>4, <1>7, <2>2 DEF OrphanFree
  <2> QED
    BY <2>1, <2>2
<1> QED
  BY <1>7 DEF OrphanFree

LEMMA OrphanAppends ==
  ASSUME Typed, Typed', HomeInv, OrphanFree, UNCHANGED cuts, cuts \in Nat, NEW a \in Arrays,
         AppendMoves(a) \/ AppendStops(a) \/ AppendEnds(a)
  PROVE  OrphanFree'
<1> DEFINE rec == array[a]  w == work[a]
<1>1. CASE AppendMoves(a)
  <2> DEFINE c == Head(w.left)  to == rec.root  next == [w EXCEPT !.left = Tail(@)]
  <2>1. Appending(w) /\ w.left # <<>>
    BY <1>1 DEF AppendMoves
  <2>2. /\ rec \in Array /\ to \in Roots
        /\ NamedBy(rec, w) = NamesOf(rec.chunks) \cup NamesOf(w.rhs.chunks)
    BY <2>1, AppendingIs
  <2>3. c \in Chunk
    BY <2>1, LeftType
  <2>4. work' = [work EXCEPT ![a] = next]
    BY <1>1, Zenon DEF AppendMoves, Typed
  <2>5. next.rhs = w.rhs /\ Appending(next)
    <3>1. w \in [op : {"append_dir", "append_array"}, left : Seq(Chunk), rhs : Array]
      BY <2>1, WorkKinds DEF Typed
    <3> QED
      BY <3>1 DEF Appending
  <2> HIDE DEF next
  <2>6. work'[a] = next /\ \A b \in Arrays \ {a} : work'[b] = work[b]
    BY <2>4 DEF Typed
  <2>7. /\ array'[a] # None /\ array'[a].chunks = rec.chunks
        /\ \A b \in Arrays \ {a} : array'[b] = array[b]
    <3>1. CASE c.dir = to
      <4> DEFINE sound == rec.sound /\ FileOf(c) # "none"
      <4>1. array' = [array EXCEPT ![a] = [rec EXCEPT !.sound = sound]]
        BY <1>1, <3>1, Zenon DEF AppendMoves, Typed
      <4>2. sound \in BOOLEAN
        BY Zenon
      <4> HIDE DEF sound
      <4>3. [rec EXCEPT !.sound = sound] \in Array /\ [rec EXCEPT !.sound = sound].chunks = rec.chunks
        BY <2>2, <4>2 DEF Array
      <4>4. array'[a] = [rec EXCEPT !.sound = sound] /\ \A b \in Arrays \ {a} : array'[b] = array[b]
        BY <4>1 DEF Typed
      <4> QED
        BY <4>3, <4>4, ArrayFields
    <3>2. CASE c.dir # to
      BY <1>1, <2>2, <3>2, ArrayFields DEF AppendMoves
    <3> QED
      BY <3>1, <3>2
  <2>8. \A b \in Arrays : NamedBy(array[b], work[b]) \subseteq NamedBy(array'[b], work'[b])
    <3>1. NamedBy(array'[a], work'[a]) = NamedBy(rec, w)
      BY <2>2, <2>5, <2>6, <2>7 DEF NamedBy
    <3> QED
      BY <2>6, <2>7, <3>1
  <2>9. UNCHANGED files \/ Rename(c, to) \/ CopyAndRemove(c, to)
    BY <1>1 DEF AppendMoves
  <2> HIDE DEF c
  <2> QED
    BY <2>2, <2>3, <2>8, <2>9, OrphanMoves, QuietOrphans
<1>2. CASE AppendStops(a)
  BY <1>2 DEF AppendStops, Cut
<1>3. CASE AppendEnds(a)
  <2> DEFINE chunks == rec.chunks \o w.rhs.chunks
             sound == rec.sound /\ w.rhs.sound
             after == [rec EXCEPT !.chunks = chunks, !.sound = sound]
  <2>1. /\ rec \in Array /\ rec.chunks \in Seq(Chunk) /\ w.rhs.chunks \in Seq(Chunk)
        /\ NamedBy(rec, w) = NamesOf(rec.chunks) \cup NamesOf(w.rhs.chunks)
    BY <1>3, AppendingIs DEF AppendEnds
  <2>2. array' = [array EXCEPT ![a] = after]
    BY <1>3, Zenon DEF AppendEnds, Typed
  <2>3. chunks \in Seq(Chunk) /\ NamesOf(chunks) = NamesOf(rec.chunks) \cup NamesOf(w.rhs.chunks)
    BY <2>1, ConcatIs, ConcatHome
  <2>4. sound \in BOOLEAN
    <3>1. w.rhs.sound \in BOOLEAN /\ rec.sound \in BOOLEAN
      BY <1>3, AppendingIs, ArrayFields DEF AppendEnds
    <3> QED
      BY <3>1, Zenon
  <2> HIDE DEF chunks, sound
  <2>5. after \in Array /\ after.chunks = chunks
    BY <2>1, <2>3, <2>4 DEF Array
  <2> HIDE DEF after
  <2>6. array'[a] = after /\ \A b \in Arrays \ {a} : array'[b] = array[b]
    BY <2>2 DEF Typed
  <2>7. UNCHANGED files /\ \A b \in Arrays \ {a} : work'[b] = work[b]
    BY <1>3 DEF AppendEnds, Typed
  <2>8. NamedBy(rec, w) \subseteq NamedBy(array'[a], work'[a])
    BY <2>1, <2>3, <2>5, <2>6, ArrayFields DEF NamedBy
  <2> QED
    BY <2>6, <2>7, <2>8, SameOrphans
<1> QED
  BY <1>1, <1>2, <1>3

\* The directory that is renamed had each file's only place, or none of it.
LEMMA OrphanRename ==
  ASSUME Typed, Typed', HomeInv, OrphanFree, NEW a \in Arrays, NEW r \in Roots, RenameRoot(a, r)
  PROVE  OrphanFree'
<1> DEFINE rec == array[a]  from == rec.root
           taken == {n \in Names : files[<<from, n>>] # "none"}
           Merging(w) == IF Appending(w) THEN [w EXCEPT !.rhs = Unsettled(@, taken)] ELSE w
<1>1. /\ rec \in Array /\ work[a] = Idle /\ from \in Roots /\ rec # None
      /\ NamedBy(rec, work[a]) = NamesOf(rec.chunks)
  BY ReadyIs DEF RenameRoot, RenameDir
<1>2. from # r /\ \A n \in Names : files[<<r, n>>] = "none"
  BY DEF RenameRoot, RenameDir
<1>3. \A d \in Roots, n \in Names :
        /\ d = r => files'[<<d, n>>] = files[<<from, n>>]
        /\ d = from => files'[<<d, n>>] = "none"
        /\ d \notin {r, from} => files'[<<d, n>>] = files[<<d, n>>]
  BY <1>2 DEF RenameRoot, RenameDir, Typed
<1>4. \A b \in Arrays : array'[b] = IF b = a THEN Below(rec, r) ELSE Unsettled(array[b], taken)
  BY Zenon DEF RenameRoot, RenameDir
<1>5. \A b \in Arrays : work'[b] = Merging(work[b])
  BY Zenon DEF RenameRoot, RenameDir
<1> HIDE DEF taken
<1>6. ASSUME NEW b \in Arrays
      PROVE  NamedBy(array'[b], work'[b]) = NamedBy(array[b], work[b])
  <2>1. CASE b = a
    <3>1. /\ Below(rec, r) \in Array /\ NamesOf(Below(rec, r).chunks) = NamesOf(rec.chunks)
      BY <1>1, BelowIs, BelowType
    <3>2. work'[a] = Idle /\ array'[a] = Below(rec, r)
      BY <1>1, <1>4, <1>5, IdleRests
    <3> QED
      BY <1>1, <2>1, <3>1, <3>2, AtRest, IdleRests, ArrayFields
  <2>2. CASE b # a /\ array[b] = None
    <3>1. array'[b] = None
      BY <1>4, <2>2 DEF Unsettled
    <3> QED
      BY <2>2, <3>1 DEF NamedBy
  <2>3. CASE b # a /\ array[b] # None
    <3>1. array[b] \in Array /\ array'[b] = Unsettled(array[b], taken)
      BY <1>4, <2>3 DEF Typed
    <3>2. array'[b].chunks = array[b].chunks /\ array'[b] # None
      BY <3>1, UnsettledIs, ArrayFields
    <3>3. CASE ~Appending(work[b])
      BY <1>5, <2>3, <3>2, <3>3 DEF NamedBy
    <3>4. CASE Appending(work[b])
      <4>1. /\ work[b] \in [op : {"append_dir", "append_array"}, left : Seq(Chunk), rhs : Array]
            /\ work'[b] = [work[b] EXCEPT !.rhs = Unsettled(@, taken)]
        BY <1>5, <3>4, WorkKinds DEF Typed
      <4>2. work'[b].rhs = Unsettled(work[b].rhs, taken) /\ work'[b].op = work[b].op /\ work[b].rhs \in Array
        BY <4>1
      <4>3. work'[b].rhs.chunks = work[b].rhs.chunks /\ Appending(work'[b])
        BY <3>4, <4>2, UnsettledIs DEF Appending
      <4> QED
        BY <2>3, <3>2, <3>4, <4>3 DEF NamedBy
    <3> QED
      BY <3>3, <3>4
  <2> QED
    BY <2>1, <2>2, <2>3
<1>7. ASSUME NEW d \in Roots, NEW n \in Names, files'[<<d, n>>] # "none"
      PROVE  /\ \E b \in Arrays : n \in NamedBy(array'[b], work'[b])
             /\ \A e \in Roots : files'[<<e, n>>] # "none" => e = d
  <2> DEFINE Was(e) == IF e = r THEN from ELSE e
  <2>1. \A e \in Roots : files'[<<e, n>>] # "none" =>
          e # from /\ Was(e) \in Roots /\ Was(e) # r /\ files[<<Was(e), n>>] # "none"
    BY <1>1, <1>2, <1>3
  <2>2. files[<<Was(d), n>>] # "none" /\ Was(d) \in Roots
    BY <1>7, <2>1
  <2>3. /\ \E b \in Arrays : n \in NamedBy(array[b], work[b])
        /\ \A e \in Roots : files[<<e, n>>] # "none" => e = Was(d)
    BY <2>2 DEF OrphanFree
  <2>4. \A e \in Roots : files'[<<e, n>>] # "none" => e = d
    BY <1>7, <2>1, <2>3
  <2> QED
    BY <1>6, <2>3, <2>4
<1> QED
  BY <1>7 DEF OrphanFree

LEMMA OrphanMove ==
  ASSUME Typed, Typed', HomeInv, OrphanFree, UNCHANGED cuts, cuts \in Nat, NEW a \in Arrays,
         \/ \E r \in Roots : BeginMove(a, r)
         \/ MoveMoves(a) \/ MoveStops(a) \/ MoveEnds(a) \/ Cancel(a)
  PROVE  OrphanFree'
<1> DEFINE rec == array[a]  w == work[a]
<1>1. ASSUME NEW r \in Roots, BeginMove(a, r) PROVE OrphanFree'
  <2> DEFINE next == [op |-> "move_root", left |-> rec.chunks, to |-> r]
  <2>1. UNCHANGED <<files, array>> /\ work' = [work EXCEPT ![a] = next]
    BY <1>1 DEF BeginMove
  <2>2. rec # None /\ NamedBy(rec, w) = NamesOf(rec.chunks)
    BY <1>1, ReadyIs DEF BeginMove
  <2>3. work'[a] = next /\ \A b \in Arrays \ {a} : array'[b] = array[b] /\ work'[b] = work[b]
    BY <2>1 DEF Typed
  <2>4. NamedBy(array'[a], work'[a]) = NamedBy(rec, w)
    BY <2>1, <2>2, <2>3 DEF NamedBy, Appending
  <2> QED
    BY <2>1, <2>3, <2>4, SameOrphans
<1>2. CASE MoveMoves(a)
  <2> DEFINE c == Head(w.left)  to == w.to  next == [w EXCEPT !.left = Tail(@)]
  <2>1. Moving(w) /\ w.left # <<>> /\ CopyAndRemove(c, to) /\ array' = array
    BY <1>2 DEF MoveMoves
  <2>2. to \in Roots /\ c \in Chunk /\ rec # None /\ NamedBy(rec, w) = NamesOf(rec.chunks)
    BY <2>1, MovingIs, LeftType
  <2>3. work' = [work EXCEPT ![a] = next]
    BY <1>2, Zenon DEF MoveMoves, Typed
  <2>4. ~Appending(next)
    <3>1. w \in [op : {"move_root"}, left : Seq(Chunk), to : Roots]
      BY <2>1, WorkKinds DEF Typed
    <3> QED
      BY <3>1 DEF Appending
  <2> HIDE DEF next, c
  <2>5. work'[a] = next /\ \A b \in Arrays \ {a} : work'[b] = work[b]
    BY <2>3 DEF Typed
  <2>6. NamedBy(array'[a], work'[a]) = NamedBy(rec, w)
    BY <2>1, <2>2, <2>4, <2>5 DEF NamedBy
  <2>7. \A b \in Arrays : NamedBy(array[b], work[b]) \subseteq NamedBy(array'[b], work'[b])
    BY <2>1, <2>5, <2>6
  <2> QED
    BY <2>1, <2>2, <2>7, OrphanMoves
<1>3. CASE MoveStops(a) \/ Cancel(a)
  BY <1>3 DEF MoveStops, Cancel, Cut
<1>4. CASE MoveEnds(a)
  <2> DEFINE after == Below(rec, w.to)
  <2>1. Moving(w) /\ UNCHANGED files
        /\ array' = [array EXCEPT ![a] = after] /\ work' = [work EXCEPT ![a] = Idle]
    BY <1>4 DEF MoveEnds, disk
  <2>2. rec \in Array /\ w.to \in Roots /\ NamedBy(rec, w) = NamesOf(rec.chunks)
    BY <2>1, MovingIs
  <2>3. after \in Array /\ NamesOf(after.chunks) = NamesOf(rec.chunks)
    BY <2>2, BelowIs, BelowType
  <2> HIDE DEF after
  <2>4. /\ array'[a] = after /\ work'[a] = Idle
        /\ \A b \in Arrays \ {a} : array'[b] = array[b] /\ work'[b] = work[b]
    BY <2>1 DEF Typed
  <2>5. NamedBy(array'[a], work'[a]) = NamedBy(rec, w)
    BY <2>2, <2>3, <2>4, AtRest, IdleRests, ArrayFields
  <2> QED
    BY <2>1, <2>4, <2>5, SameOrphans
<1> QED
  BY <1>1, <1>2, <1>3, <1>4

-----------------------------------------------------------------------------
LEMMA CutsGrow ==
  ASSUME cuts \in Nat, [Next]_vars
  PROVE  cuts' = cuts \/ cuts' = cuts + 1
<1>1. CASE UNCHANGED vars
  BY <1>1 DEF vars, history
<1>2. CASE Restart
  BY <1>2 DEF Restart, Cut
<1>3. ASSUME NEW a \in Arrays,
             \/ \E r \in Roots :
                  \/ ANew(a, r) \/ FromExistingArray(a, r) \/ ALoad(a, r)
                  \/ UpdateRoot(a, r) \/ AMoveRoot(a, r) \/ ARenameDropped(a, r)
             \/ \E n \in Names : AAppend(a, n) \/ AAppendMemory(a, n)
             \/ \E b \in Arrays : AAppendDir(a, b) \/ AppendArray(a, b)
             \/ ASave(a) \/ Drop(a)
      PROVE  cuts' = cuts \/ cuts' = cuts + 1
  BY <1>3, Zenon DEF ANew, New, FromExistingArray, ALoad, Load, UpdateRoot, AMoveRoot, MoveRoot,
       RenameRoot, ARenameDropped, BeginMove, AAppend, AAppendMemory, AppendMemory, AppendChunk, AAppendDir,
       AppendDir, AppendArray, BeginAppend, ASave, Save, Drop, Cut, history
<1>4. ASSUME NEW a \in Arrays,
             \/ ARemove(a) \/ ARemoveDropped(a)
             \/ Delete(a) \/ DeleteStops(a) \/ DeleteDropped(a) \/ DeleteEnds(a)
             \/ AppendMoves(a) \/ AppendStops(a) \/ AppendEnds(a)
             \/ MoveMoves(a) \/ MoveStops(a) \/ MoveEnds(a)
             \/ Cancel(a) \/ CancelAppending(a) \/ CancelMoving(a)
      PROVE  cuts' = cuts \/ cuts' = cuts + 1
  BY <1>4, Zenon DEF ARemove, RemoveChunk, ARemoveDropped, Delete, DeleteStops, DeleteDropped,
       DeleteEnds, AppendMoves, AppendStops, AppendEnds, MoveMoves, MoveStops, MoveEnds,
       Cancel, CancelAppending, CancelMoving, Cut, history
<1> QED
  BY <1>1, <1>2, <1>3, <1>4, Zenon DEF Next

LEMMA OrphanNext ==
  ASSUME Typed, HomeInv, OrphanInv, [Next]_vars
  PROVE  OrphanInv'
<1>1. cuts \in Nat /\ cuts' \in Nat
  BY CutsGrow DEF OrphanInv
<1> SUFFICES ASSUME cuts' = 0 PROVE OrphanFree'
  BY <1>1 DEF OrphanInv
<1>2. cuts' = cuts /\ OrphanFree /\ Typed'
  BY <1>1, CutsGrow, TypedNext DEF OrphanInv
<1>3. CASE UNCHANGED vars
  <2>1. UNCHANGED <<files, array, work>>
    BY <1>3 DEF vars, disk
  <2> QED
    BY <1>2, <2>1, QuietOrphans
<1>4. CASE Restart
  BY <1>1, <1>2, <1>4 DEF Restart, Cut
<1>5. ASSUME NEW a \in Arrays,
             \/ \E r \in Roots : \/ ANew(a, r) \/ FromExistingArray(a, r)
                                 \/ ALoad(a, r) \/ UpdateRoot(a, r)
             \/ ASave(a) \/ Drop(a)
      PROVE  OrphanFree'
  BY <1>1, <1>2, <1>5, OrphanArrays, Zenon DEF ANew, ALoad, ASave
<1>6. ASSUME NEW a \in Arrays, NEW n \in Names, AAppend(a, n) \/ AAppendMemory(a, n)
      PROVE  OrphanFree'
  BY <1>1, <1>2, <1>6, OrphanAppend, Zenon DEF AAppend, AAppendMemory, AppendMemory
<1>7. ASSUME NEW a \in Arrays, ARemove(a) \/ Delete(a) \/ DeleteStops(a) \/ DeleteEnds(a)
      PROVE  OrphanFree'
  BY <1>1, <1>2, <1>7, OrphanRemoval, Zenon DEF ARemove
<1>8. ASSUME NEW a \in Arrays, NEW b \in Arrays, AAppendDir(a, b) \/ AppendArray(a, b)
      PROVE  OrphanFree'
  BY <1>2, <1>8, OrphanBegin, Zenon DEF AAppendDir
<1>9. ASSUME NEW a \in Arrays, AppendMoves(a) \/ AppendStops(a) \/ AppendEnds(a)
      PROVE  OrphanFree'
  BY <1>1, <1>2, <1>9, OrphanAppends, Zenon
<1>10. ASSUME NEW a \in Arrays, NEW r \in Roots, AMoveRoot(a, r)
       PROVE  OrphanFree'
  BY <1>1, <1>2, <1>10, OrphanRename, OrphanMove, Zenon DEF AMoveRoot, MoveRoot
<1>11. ASSUME NEW a \in Arrays, MoveMoves(a) \/ MoveStops(a) \/ MoveEnds(a) \/ Cancel(a)
       PROVE  OrphanFree'
  BY <1>1, <1>2, <1>11, OrphanMove, Zenon
\* What is dropped half-way is a cut.
<1>12. ASSUME NEW a \in Arrays,
              \/ \E r \in Roots : ARenameDropped(a, r)
              \/ ARemoveDropped(a) \/ DeleteDropped(a) \/ CancelAppending(a) \/ CancelMoving(a)
       PROVE  OrphanFree'
  <2>1. Cut
    BY <1>12, Zenon DEF ARenameDropped, ARemoveDropped, DeleteDropped, CancelAppending, CancelMoving
  <2> QED
    BY <1>1, <1>2, <2>1 DEF Cut
<1> QED
  BY <1>3, <1>4, <1>5, <1>6, <1>7, <1>8, <1>9, <1>10, <1>11, <1>12, Zenon DEF Next

LEMMA OrphanImplies == OrphanInv => NoOrphans
<1>1. \A a \in Arrays : Named(a) = NamedBy(array[a], work[a])
  BY NamedIs
<1> QED
  BY <1>1 DEF OrphanInv, OrphanFree, NoOrphans

\* As long as nothing was cut short, every file there is lies in one directory
\* and is a chunk's of an array, or of one being merged: append_dir, move_root
\* by renaming or by copying, remove and delete leave no chunk's file behind
\* (directory/sync_impl.rs:48-62, 123-128, 229-245).  META_FILE and directories
\* are not chunks' files, and may stay.
THEOREM NothingIsLeftBehind == Spec => []NoOrphans
<1>1. Init => Typed /\ HomeInv /\ OrphanInv
  BY TypedInit, HomeInit DEF Init, OrphanInv, OrphanFree
<1>2. Typed /\ HomeInv /\ OrphanInv /\ [Next]_vars => (Typed /\ HomeInv /\ OrphanInv)'
  BY TypedNext, HomeNext, OrphanNext
<1>3. OrphanInv => NoOrphans
  BY OrphanImplies
<1> QED
  BY <1>1, <1>2, <1>3, PTL DEF Spec
=============================================================================
