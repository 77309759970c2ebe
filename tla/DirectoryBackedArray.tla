------------------------ MODULE DirectoryBackedArray ------------------------
(***************************************************************************)
(* `DirectoryBackedArray` (src/src/directory): arrays whose chunks are     *)
(* files below a root, and the operations that create, remove and move     *)
(* those files.  Several arrays may be alive, on threads of their own.  A  *)
(* file operation may fail, an operation made of several is cut between    *)
(* any two of them, and at each cut the process may end: only files and    *)
(* saved metadata remain.  The future of an asynchronous form is dropped   *)
(* at any of its awaits, and the array lives on.  What the runtime's       *)
(* blocking threads were doing for it then is done all the same, in part,  *)
(* or not at all.  Bound: not later than the next step.                    *)
(*                                                                         *)
(* A file is known by its name, a new UUID, and its content never changes  *)
(* here.  A chunk is its file's name and the directory in its disk's path. *)
(* An operation that is refused and changes nothing is no step.  move_root *)
(* to the array's own directory is UpdateRoot.                             *)
(***************************************************************************)
EXTENDS Naturals, Sequences, FiniteSets

CONSTANTS
  Arrays,       (* the variables that hold an array                         *)
  Roots,        (* the directories                                          *)
  Names,        (* the names next_target may draw                           *)
  None,         (* no array, or no metadata                                 *)
  Torn,         (* metadata that was not written completely                 *)
  MaxSpent      (* bound: chunks appended, metadata files and cuts together *)

ASSUME SpentAssumption == MaxSpent \in Nat

VARIABLES
  dirs,         (* the directories that exist                               *)
  files,        (* the state of each file in each directory                 *)
  meta,         (* the content of each directory's META_FILE                *)
  array,        (* the arrays alive                                         *)
  work,         (* per array: the operation under way on it                 *)
  born,         (* history: the names of the chunks appended                *)
  removed,      (* history: of these, the ones removed                      *)
  lost,         (* history: those whose file was spoiled, see Spoils, or    *)
                (* went while its entry stayed, see ARemoveDropped          *)
  cuts          (* history: operations cut short, drops, restarts and roots *)
                (* given to arrays whose files are elsewhere                *)

disk == <<dirs, files, meta>>
history == <<born, removed, lost, cuts>>
vars == <<disk, array, work, history>>

Chunk == [name : Names, dir : Roots]
\* `sound` is history: whatever touched the array's files was an operation of
\* the array itself, and succeeded.
Array == [root : Roots, chunks : Seq(Chunk), sound : BOOLEAN]
ASSUME MarkerAssumption == None \notin Array /\ Torn \notin Array

Idle == [op |-> "idle"]
Work ==
  {Idle} \cup [op : {"delete"}]
    \cup [op : {"append_dir", "append_array"}, left : Seq(Chunk), rhs : Array]
    \cup [op : {"move_root"}, left : Seq(Chunk), to : Roots]

NamesOf(chunks) == {chunks[i].name : i \in DOMAIN chunks}
Live == {a \in Arrays : array[a] # None}
Ready(a) == a \in Live /\ work[a] = Idle

Appending(w) == w.op \in {"append_dir", "append_array"}
Moving(w) == w.op = "move_root"

\* The chunks an array has, or is being given.
Named(a) ==
  IF a \notin Live THEN {}
  ELSE NamesOf(array[a].chunks) \cup
       (IF Appending(work[a]) THEN NamesOf(work[a].rhs.chunks) ELSE {})

TypeOK ==
  /\ dirs \subseteq Roots
  /\ files \in [Roots \X Names -> {"none", "torn", "whole"}]
  /\ \A f \in DOMAIN files : files[f] # "none" => f[1] \in dirs
  /\ \A r \in Roots : meta[r] \in {None, Torn} \/ (meta[r] \in Array /\ r \in dirs)
  /\ \A a \in Arrays : array[a] = None \/ array[a] \in Array
  /\ \A a \in Arrays : work[a] \in Work /\ (a \notin Live => work[a] = Idle)
  /\ removed \subseteq born /\ lost \subseteq born /\ born \subseteq Names
  /\ cuts \in 0..MaxSpent

Init ==
  /\ dirs = {}
  /\ files = [f \in Roots \X Names |-> "none"]
  /\ meta = [r \in Roots |-> None]
  /\ array = [a \in Arrays |-> None]
  /\ work = [a \in Arrays |-> Idle]
  /\ born = {} /\ removed = {} /\ lost = {}
  /\ cuts = 0

Spent == Cardinality(born) + Cardinality({r \in Roots : meta[r] # None}) + cuts
Cut == Spent < MaxSpent /\ cuts' = cuts + 1

-----------------------------------------------------------------------------
(***************************************************************************)
(* Arrays come and go.                                                     *)
(***************************************************************************)
\* new: create_dir_all, then an empty array.  Bound: none is made any more when
\* all is spent.
New(a, r) ==
  /\ a \notin Live /\ Spent < MaxSpent
  /\ dirs' = dirs \cup {r}
  /\ array' = [array EXCEPT ![a] = [root |-> r, chunks |-> <<>>, sound |-> TRUE]]
  /\ UNCHANGED <<files, meta, work, history>>

\* The asynchronous forms of the operations are the same steps, each with the
\* points at which its future may be dropped.  Next takes an operation in its
\* asynchronous form; the synchronous one is the case that nobody drops.
ANew(a, r) == New(a, r)

\* The array part of one under another root; its files stay where they are.
FromExistingArray(a, r) ==
  /\ Ready(a) /\ array[a].root # r
  /\ array' = [array EXCEPT ![a].root = r, ![a].sound = FALSE]
  /\ Cut
  /\ UNCHANGED <<disk, work, born, removed, lost>>

\* Called for an array none of whose chunks another one alive has.
Load(a, r) ==
  /\ a \notin Live
  /\ meta[r] \notin {None, Torn}
  /\ \A b \in Arrays : Named(b) \cap NamesOf(meta[r].chunks) = {}
  /\ array' = [array EXCEPT ![a] = meta[r]]
  /\ UNCHANGED <<disk, work, history>>

ALoad(a, r) == Load(a, r)

\* Opening META_FILE truncates it, encoding fills it.
Save(a) ==
  /\ Ready(a) /\ array[a].root \in dirs
  /\ meta[array[a].root] # None \/ Spent < MaxSpent
  /\ \/ meta' = [meta EXCEPT ![array[a].root] = array[a]] /\ UNCHANGED cuts
     \/ meta' = [meta EXCEPT ![array[a].root] = Torn] /\ Cut
  /\ UNCHANGED <<dirs, files, array, work, born, removed, lost>>

ASave(a) == Save(a)

Gone(a) ==
  /\ array' = [array EXCEPT ![a] = None]
  /\ work' = [work EXCEPT ![a] = Idle]

\* The array goes out of scope.
Drop(a) ==
  /\ Ready(a) /\ Gone(a)
  /\ Cut
  /\ UNCHANGED <<disk, born, removed, lost>>

\* The process ends, wherever its operations are.
Restart ==
  /\ Live # {}
  /\ array' = [a \in Arrays |-> None]
  /\ work' = [a \in Arrays |-> Idle]
  /\ Cut
  /\ UNCHANGED <<disk, born, removed, lost>>

-----------------------------------------------------------------------------
(***************************************************************************)
(* append, remove and delete.                                              *)
(***************************************************************************)
\* The chunk is pushed once its file is written.
AppendChunk(a, n) ==
  LET r == array[a].root IN
  /\ Ready(a) /\ r \in dirs
  /\ Spent < MaxSpent /\ n \notin born /\ \A d \in Roots : files[<<d, n>>] = "none"
  /\ \/ /\ files' = [files EXCEPT ![<<r, n>>] = "whole"]
        /\ array' = [array EXCEPT ![a].chunks = Append(@, [name |-> n, dir |-> r])]
        /\ born' = born \cup {n}
        /\ UNCHANGED cuts
     \/ /\ files' = [files EXCEPT ![<<r, n>>] = "torn"]
        /\ Cut
        /\ UNCHANGED <<array, born>>
  /\ UNCHANGED <<dirs, meta, work, removed, lost>>

\* Whether the chunk stays in memory is nothing to its file.
AppendMemory(a, n) == AppendChunk(a, n)
AAppend(a, n) == AppendChunk(a, n)
AAppendMemory(a, n) == AppendMemory(a, n)

FileOf(c) == files[<<c.dir, c.name>>]
Without(chunks, i) == SubSeq(chunks, 1, i - 1) \o SubSeq(chunks, i + 1, Len(chunks))

\* With the entry dropped from the array and its file kept.
RemoveAtIndexKeep(a, i) ==
  LET c == array[a].chunks[i] IN
  /\ FileOf(c) # "none"
  /\ array' = [array EXCEPT ![a].chunks = Without(@, i)]
  /\ UNCHANGED <<files, removed>>

\* remove: the file goes, then the entry.  A path without a file refuses.
RemoveAtIndex(a, i) ==
  LET c == array[a].chunks[i] IN
  /\ FileOf(c) # "none"
  /\ files' = [files EXCEPT ![<<c.dir, c.name>>] = "none"]
  /\ array' = [array EXCEPT ![a].chunks = Without(@, i)]
  /\ removed' = removed \cup {c.name}

RemoveChunk(a) ==
  /\ Ready(a)
  /\ \E i \in DOMAIN array[a].chunks : RemoveAtIndex(a, i)
  /\ UNCHANGED <<dirs, meta, work, born, lost, cuts>>

ARemove(a) == RemoveChunk(a)

\* Files that an array takes elsewhere are no longer where metadata saved
\* before has them.
Unsettled(record, names) ==
  IF record \notin {None, Torn} /\ NamesOf(record.chunks) \cap names # {}
    THEN [record EXCEPT !.sound = FALSE] ELSE record

UnsettleMeta(name) == meta' = [r \in Roots |-> Unsettled(meta[r], {name})]

\* The future of a_remove is dropped while it waits for the file to go: it goes,
\* and the array keeps the entry.
ARemoveDropped(a) ==
  /\ Ready(a)
  /\ \E i \in DOMAIN array[a].chunks :
       LET c == array[a].chunks[i] IN
       /\ FileOf(c) # "none"
       /\ files' = [files EXCEPT ![<<c.dir, c.name>>] = "none"]
       /\ UnsettleMeta(c.name)
       /\ lost' = lost \cup {c.name}
  /\ array' = [array EXCEPT ![a].sound = FALSE]
  /\ Cut
  /\ UNCHANGED <<dirs, work, born, removed>>

\* remove_dir, whose refusal nobody looks at.
DirsAfterRemoval(r) ==
  IF \A n \in Names : files[<<r, n>>] = "none" THEN dirs \ {r} ELSE dirs

\* delete has consumed the array, or begins to.
Deleting(a) == a \in Live /\ work[a].op \in {"idle", "delete"}

Delete(a) ==
  /\ Deleting(a) /\ array[a].chunks # <<>>
  /\ RemoveAtIndex(a, 1)
  /\ work' = [work EXCEPT ![a] = [op |-> "delete"]]
  /\ UNCHANGED <<dirs, meta, born, lost, cuts>>

\* A removal is refused, or the future of a_delete dropped.
DeleteStops(a) ==
  /\ Deleting(a)
  /\ Gone(a) /\ Cut
  /\ UNCHANGED <<disk, removed, born, lost>>

\* The future is dropped, and the file it waited for goes all the same.
DeleteDropped(a) ==
  /\ Deleting(a) /\ array[a].chunks # <<>>
  /\ LET c == Head(array[a].chunks) IN
     /\ FileOf(c) # "none"
     /\ files' = [files EXCEPT ![<<c.dir, c.name>>] = "none"]
     /\ removed' = removed \cup {c.name}
  /\ Gone(a) /\ Cut
  /\ UNCHANGED <<dirs, meta, born, lost>>

DeleteEnds(a) ==
  /\ Deleting(a) /\ array[a].chunks = <<>>
  /\ dirs' = IF meta[array[a].root] = None THEN DirsAfterRemoval(array[a].root) ELSE dirs
  /\ Gone(a)
  /\ UNCHANGED <<files, meta, history>>

-----------------------------------------------------------------------------
(***************************************************************************)
(* append_dir, append_array and move_root move files one by one.           *)
(***************************************************************************)
\* A copy truncates its target when it opens it, its source included when the
\* two are one file.
CopiedTo(c, to) ==
  [files EXCEPT ![<<to, c.name>>] = IF c.dir = to THEN "torn" ELSE FileOf(c)]

\* The code looks at neither file: one copied onto itself is truncated, and a
\* torn one replaces the whole one a move that was cut short has left.
Spoils(c, to) == c.dir = to \/ (FileOf(c) = "torn" /\ files[<<to, c.name>>] = "whole")
LostTo(c, to) == lost' = IF Spoils(c, to) THEN lost \cup {c.name} ELSE lost

\* rename.
Rename(c, to) ==
  /\ FileOf(c) # "none" /\ to \in dirs
  /\ files' = [files EXCEPT ![<<to, c.name>>] = FileOf(c), ![<<c.dir, c.name>>] = "none"]
  /\ LostTo(c, to)

\* copy, then remove_file.
CopyAndRemove(c, to) ==
  /\ FileOf(c) # "none" /\ to \in dirs
  /\ files' = [CopiedTo(c, to) EXCEPT ![<<c.dir, c.name>>] = "none"]
  /\ LostTo(c, to)

\* With a copy that stopped overlooked and its source removed.
CopyStopsRemoving(c, to) ==
  /\ FileOf(c) # "none" /\ to \in dirs
  /\ files' = [files EXCEPT ![<<to, c.name>>] = "torn", ![<<c.dir, c.name>>] = "none"]
  /\ LostTo(c, to)

\* There is no source or no target directory, the copy stops, or the source
\* cannot be removed.
CopyStops(c, to) ==
  \/ UNCHANGED <<files, lost>>
  \/ /\ FileOf(c) # "none" /\ to \in dirs
     /\ files' \in {[files EXCEPT ![<<to, c.name>>] = "torn"], CopiedTo(c, to)}
     /\ LostTo(c, to)

\* `rhs` is consumed.
BeginAppend(a, b, op, left) ==
  /\ Ready(a) /\ Ready(b) /\ a # b
  /\ array' = [array EXCEPT ![b] = None]
  /\ work' = [work EXCEPT ![a] = [op |-> op, rhs |-> array[b], left |-> left]]
  /\ UNCHANGED <<disk, history>>

SameRoot(a, b) == array[a].root = array[b].root

\* With the test of the two roots the other way round.
AppendDirInPlace(a, b) ==
  BeginAppend(a, b, "append_dir", IF ~SameRoot(a, b) THEN <<>> ELSE array[b].chunks)

\* Nothing is moved when the roots are the same.
AppendDir(a, b) ==
  BeginAppend(a, b, "append_dir", IF SameRoot(a, b) THEN <<>> ELSE array[b].chunks)

AAppendDir(a, b) == AppendDir(a, b)

\* An array that a root was dropped from.
AppendArray(a, b) == BeginAppend(a, b, "append_array", array[b].chunks)

\* The next file, unless it is there already by its chunk's path: after an
\* earlier append_dir that path may be wrong, and the file is left behind.
AppendMoves(a) ==
  /\ Appending(work[a]) /\ work[a].left # <<>>
  /\ LET c == Head(work[a].left)  to == array[a].root IN
     IF c.dir = to
       THEN /\ array' = [array EXCEPT ![a].sound = @ /\ FileOf(c) # "none"]
            /\ UNCHANGED <<files, meta, lost>>
       ELSE /\ Rename(c, to) \/ CopyAndRemove(c, to)
            /\ UnsettleMeta(c.name)
            /\ UNCHANGED array
  /\ work' = [work EXCEPT ![a].left = Tail(@)]
  /\ UNCHANGED <<dirs, born, removed, cuts>>

\* The entries of `rhs` are gone, wherever their files are.
AppendStops(a) ==
  /\ Appending(work[a]) /\ work[a].left # <<>>
  /\ LET c == Head(work[a].left)  to == array[a].root
     IN c.dir # to /\ CopyStops(c, to) /\ UnsettleMeta(c.name)
  /\ work' = [work EXCEPT ![a] = Idle]
  /\ Cut
  /\ UNCHANGED <<dirs, array, born, removed>>

\* append_dir removes META_FILE and the directory, if it is empty then.
CleanUp(r) ==
  /\ meta' = [meta EXCEPT ![r] = None]
  /\ dirs' = DirsAfterRemoval(r)

\* a_append_dir keeps META_FILE, and with it the directory.
ACleanUp(r) ==
  /\ dirs' = IF meta[r] = None THEN DirsAfterRemoval(r) ELSE dirs
  /\ UNCHANGED meta

\* The merged entries keep their paths.
AppendEnds(a) ==
  /\ Appending(work[a]) /\ work[a].left = <<>>
  /\ LET rhs == work[a].rhs IN
     /\ IF work[a].op = "append_dir" /\ array[a].root # rhs.root
          THEN CleanUp(rhs.root) \/ ACleanUp(rhs.root) ELSE UNCHANGED <<dirs, meta>>
     /\ array' = [array EXCEPT ![a].chunks = @ \o rhs.chunks,
                               ![a].sound = @ /\ rhs.sound]
  /\ work' = [work EXCEPT ![a] = Idle]
  /\ UNCHANGED <<files, history>>

Below(record, r) ==
  [record EXCEPT !.root = r,
     !.chunks = [i \in DOMAIN @ |-> [@[i] EXCEPT !.dir = r]]]

\* update_root, called when the files are in `r`.
UpdateRoot(a, r) ==
  /\ Ready(a)
  /\ \A n \in NamesOf(array[a].chunks) : files[<<r, n>>] = "whole"
  /\ array' = [array EXCEPT ![a] = [Below(@, r) EXCEPT !.sound = TRUE]]
  /\ UNCHANGED <<disk, work, history>>

\* rename takes the directory, with whatever is in it, over nothing or over an
\* empty one; array `a` is `record` from then on.
RenameDir(a, r, record) ==
  LET from == array[a].root
      taken == {n \in Names : files[<<from, n>>] # "none"}
      Merging(w) == IF Appending(w)
                      THEN [w EXCEPT !.rhs = Unsettled(@, taken)] ELSE w
  IN /\ Ready(a) /\ from \in dirs /\ from # r
     /\ meta[r] = None /\ \A n \in Names : files[<<r, n>>] = "none"
     /\ dirs' = (dirs \ {from}) \cup {r}
     /\ files' = [f \in DOMAIN files |->
          CASE f[1] = r -> files[<<from, f[2]>>]
            [] f[1] = from -> "none"
            [] OTHER -> files[f]]
     /\ meta' = [d \in Roots |->
          CASE d = r -> Unsettled(meta[from], taken)
            [] d = from -> None
            [] OTHER -> Unsettled(meta[d], taken)]
     /\ array' = [b \in Arrays |-> IF b = a THEN record ELSE Unsettled(array[b], taken)]
     /\ work' = [b \in Arrays |-> Merging(work[b])]

\* move_root renames, and then updates its root.
RenameRoot(a, r) ==
  /\ RenameDir(a, r, Below(array[a], r))
  /\ UNCHANGED history

\* The future of a_move_root is dropped while it waits for the rename: the
\* files go, and the array keeps its root and its paths.
ARenameDropped(a, r) ==
  /\ RenameDir(a, r, [array[a] EXCEPT !.sound = FALSE])
  /\ Cut /\ UNCHANGED <<born, removed, lost>>

\* The renaming fails: a new directory, and file by file.
BeginMove(a, r) ==
  /\ Ready(a) /\ (array[a].root # r \/ r \notin dirs)
  /\ dirs' = dirs \cup {r}
  /\ work' = [work EXCEPT ![a] = [op |-> "move_root", left |-> array[a].chunks, to |-> r]]
  /\ UNCHANGED <<files, meta, array, history>>

MoveRoot(a, r) == RenameRoot(a, r) \/ BeginMove(a, r)
AMoveRoot(a, r) == MoveRoot(a, r)

MoveMoves(a) ==
  /\ Moving(work[a]) /\ work[a].left # <<>>
  /\ LET c == Head(work[a].left)
     IN CopyAndRemove(c, work[a].to) /\ UnsettleMeta(c.name)
  /\ work' = [work EXCEPT ![a].left = Tail(@)]
  /\ UNCHANGED <<dirs, array, born, removed, cuts>>

\* What was moved stays moved, and no path is updated.
MoveStops(a) ==
  /\ Moving(work[a]) /\ work[a].left # <<>>
  /\ LET c == Head(work[a].left)
     IN CopyStops(c, work[a].to) /\ UnsettleMeta(c.name)
  /\ work' = [work EXCEPT ![a] = Idle]
  /\ array' = [array EXCEPT ![a].sound = FALSE]
  /\ Cut
  /\ UNCHANGED <<dirs, born, removed>>

MoveEnds(a) ==
  /\ Moving(work[a]) /\ work[a].left = <<>>
  /\ array' = [array EXCEPT ![a] = Below(@, work[a].to)]
  /\ work' = [work EXCEPT ![a] = Idle]
  /\ UNCHANGED <<disk, history>>

\* The future of a_append_dir or a_move_root is dropped half-way: before the next
\* file, or while the directory that was left is removed.  In the middle of a
\* copy it is as one that stops.
Cancel(a) ==
  /\ work[a].op \in {"append_dir", "move_root"}
  /\ \/ UNCHANGED <<disk, lost>>
     \/ /\ Appending(work[a]) /\ work[a].left = <<>>
        /\ array[a].root # work[a].rhs.root /\ ACleanUp(work[a].rhs.root)
        /\ UNCHANGED <<files, lost>>
  /\ work' = [work EXCEPT ![a] = Idle]
  /\ array' = [array EXCEPT ![a].sound = @ /\ Appending(work[a])]
  /\ Cut
  /\ UNCHANGED <<born, removed>>

\* It is dropped while a file is under way, which arrives all the same.
CancelAppending(a) ==
  /\ work[a].op = "append_dir" /\ work[a].left # <<>>
  /\ LET c == Head(work[a].left)  to == array[a].root
     IN c.dir # to /\ (Rename(c, to) \/ CopyAndRemove(c, to)) /\ UnsettleMeta(c.name)
  /\ work' = [work EXCEPT ![a] = Idle]
  /\ Cut
  /\ UNCHANGED <<dirs, array, born, removed>>

CancelMoving(a) ==
  /\ Moving(work[a]) /\ work[a].left # <<>>
  /\ LET c == Head(work[a].left)
     IN CopyAndRemove(c, work[a].to) /\ UnsettleMeta(c.name)
  /\ work' = [work EXCEPT ![a] = Idle]
  /\ array' = [array EXCEPT ![a].sound = FALSE]
  /\ Cut
  /\ UNCHANGED <<dirs, born, removed>>

Next ==
  \/ \E a \in Arrays :
       \/ \E r \in Roots :
            \/ ANew(a, r) \/ FromExistingArray(a, r) \/ ALoad(a, r)
            \/ UpdateRoot(a, r) \/ AMoveRoot(a, r) \/ ARenameDropped(a, r)
       \/ \E n \in Names : AAppend(a, n) \/ AAppendMemory(a, n)
       \/ \E b \in Arrays : AAppendDir(a, b) \/ AppendArray(a, b)
       \/ ASave(a) \/ Drop(a) \/ ARemove(a) \/ ARemoveDropped(a)
       \/ Delete(a) \/ DeleteStops(a) \/ DeleteDropped(a) \/ DeleteEnds(a)
       \/ AppendMoves(a) \/ AppendStops(a) \/ AppendEnds(a)
       \/ MoveMoves(a) \/ MoveStops(a) \/ MoveEnds(a)
       \/ Cancel(a) \/ CancelAppending(a) \/ CancelMoving(a)
  \/ Restart

Spec == Init /\ [][Next]_vars

-----------------------------------------------------------------------------
(***************************************************************************)
(* Properties.                                                             *)
(***************************************************************************)
\* Whatever fails, is cancelled or is cut by the end of the process, a chunk
\* that was appended and not removed has its whole file in some directory: no
\* source is removed before its copy is complete.  The exceptions are `lost`:
\* a file copied onto itself, or under a torn one, or one whose a_remove was
\* dropped half-way (directory/sync_impl.rs:118-133, 229-245; async_impl.rs:56-62).
NothingIsLost ==
  \A n \in born \ (removed \cup lost) : \E r \in Roots : files[<<r, n>>] = "whole"

\* An array whose own operations succeeded, one loaded from its metadata after
\* a restart included, has its files in its root, also after append_dir, when
\* the paths of its chunks say otherwise: update_root to its own root then
\* makes it readable (directory/sync_impl.rs:114-165, 207-222).
HomeHoldsFiles ==
  \A a \in Live :
    array[a].sound /\ ~Moving(work[a]) =>
      \A n \in NamesOf(array[a].chunks) \ removed :
        files[<<array[a].root, n>>] = "whole"

\* While nothing was cut short, every chunk's file is in one place, and belongs
\* to an array or to one being merged: removing, moving and deleting leave none
\* behind (directory/sync_impl.rs:48-62, 123-128, 241-242).  Chunks' files only:
\* delete and a_append_dir may leave META_FILE, and a directory with it.
NoOrphans ==
  cuts = 0 => \A r \in Roots, n \in Names : files[<<r, n>>] # "none" =>
             /\ \E a \in Arrays : n \in Named(a)
             /\ \A d \in Roots : files[<<d, n>>] # "none" => d = r
=============================================================================
