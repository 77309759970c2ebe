----------------------------- MODULE BuildArray -----------------------------
(***************************************************************************)
(* Building an array from an iterator of containers: `from_containers`     *)
(* (src/src/array/sync_impl/mod.rs) writes one entry after the other,      *)
(* `a_from_containers` (async_impl/mod.rs) up to a window of them at once, *)
(* through the `buffered` and `try_collect` of the futures crate.  A write *)
(* may fail, and a_from_containers may be cancelled.                       *)
(***************************************************************************)
EXTENDS Naturals, SequencesExt

CONSTANTS
  MaxContainers, (* bound: containers                                       *)
  MaxItems       (* bound: items of a container                             *)

VARIABLES
  lens,          (* the containers of the iterator, as their lengths        *)
  concurrent,    (* a_from_containers                                       *)
  hint,          (* its size_hint: the lower bound, whether it has an upper one *)
  pulled,        (* how many were taken from it                             *)
  queue,         (* the writes of `buffered`, and what they answered        *)
  collected,     (* the entries written, by their container                 *)
  starts, ends,  (* the keys                                                *)
  outcome

vars == <<lens, concurrent, hint, pulled, queue, collected, starts, ends, outcome>>

\* The bounds of a size_hint are true, and not always exact.
Init ==
  /\ lens \in SeqOf(0..MaxItems, MaxContainers)
  /\ concurrent \in BOOLEAN
  /\ hint \in [lower : {0, Len(lens)}, upper : {Len(lens), Len(lens) + 1}, known : BOOLEAN]
  /\ pulled = 0 /\ queue = <<>> /\ collected = <<>>
  /\ starts = <<>> /\ ends = <<>>
  /\ outcome = "running"

Running == outcome = "running"
KeysEnd == IF ends = <<>> THEN 0 ELSE Last(ends)

-----------------------------------------------------------------------------
(***************************************************************************)
(* from_containers.                                                        *)
(***************************************************************************)
\* A write that fails ends it all; the range of the entry follows the last one.
WriteNext ==
  /\ Running /\ ~concurrent /\ pulled < Len(lens)
  /\ pulled' = pulled + 1
  /\ \/ /\ collected' = Append(collected, pulled')
        /\ starts' = Append(starts, KeysEnd)
        /\ ends' = Append(ends, KeysEnd + lens[pulled'])
        /\ UNCHANGED outcome
     \/ outcome' = "error" /\ UNCHANGED <<collected, starts, ends>>
  /\ UNCHANGED <<lens, concurrent, hint, queue>>

Built ==
  /\ Running /\ ~concurrent /\ pulled = Len(lens)
  /\ outcome' = "built"
  /\ UNCHANGED <<lens, concurrent, hint, pulled, queue, collected, starts, ends>>

-----------------------------------------------------------------------------
(***************************************************************************)
(* a_from_containers.                                                      *)
(***************************************************************************)
Largest(a, b) == IF a > b THEN a ELSE b

\* With the lower bound as it is.
WindowLower == IF hint.known THEN hint.upper ELSE hint.lower

Window == IF hint.known THEN hint.upper ELSE Largest(hint.lower, 1)

\* `buffered` takes futures while there is room.
Pull ==
  /\ Running /\ concurrent /\ pulled < Len(lens) /\ Len(queue) < Window
  /\ pulled' = pulled + 1
  /\ queue' = Append(queue, [of |-> pulled', answer |-> "none"])
  /\ UNCHANGED <<lens, concurrent, hint, collected, starts, ends, outcome>>

\* The write of any of them ends.
WriteEnds(k) ==
  /\ Running /\ k \in DOMAIN queue /\ queue[k].answer = "none"
  /\ \E answer \in {"ok", "error"} : queue' = [queue EXCEPT ![k].answer = answer]
  /\ UNCHANGED <<lens, concurrent, hint, pulled, collected, starts, ends, outcome>>

\* What is collected once `k` has ended: an error drops the other writes.
Collected(k) ==
  /\ Running /\ queue # <<>> /\ queue[k].answer # "none"
  /\ IF queue[k].answer = "ok"
       THEN /\ collected' = Append(collected, queue[k].of)
            /\ queue' = RemoveAt(queue, k)
            /\ UNCHANGED outcome
       ELSE outcome' = "error" /\ queue' = <<>> /\ UNCHANGED collected
  /\ UNCHANGED <<lens, concurrent, hint, pulled, starts, ends>>

\* In the order the writes end.
CollectUnordered == \E k \in DOMAIN queue : Collected(k)

\* In the order of the iterator.
Collect == Collected(1)

\* The keys, from the lengths; the stream of an iterator that may have more is
\* asked once more, which needs room.
ABuilt ==
  /\ Running /\ concurrent /\ pulled = Len(lens) /\ queue = <<>> /\ Window > 0
  /\ LET upTo[k \in 0..Len(collected)] ==
           IF k = 0 THEN 0 ELSE upTo[k - 1] + lens[collected[k]]
     IN  /\ starts' = [k \in DOMAIN collected |-> upTo[k - 1]]
         /\ ends' = [k \in DOMAIN collected |-> upTo[k]]
  /\ outcome' = "built"
  /\ UNCHANGED <<lens, concurrent, hint, pulled, queue, collected>>

Cancel ==
  /\ Running /\ concurrent
  /\ outcome' = "cancelled" /\ queue' = <<>>
  /\ UNCHANGED <<lens, concurrent, hint, pulled, collected, starts, ends>>

\* What the caller and the runtime go on with; they need not cancel.
Progress ==
  \/ WriteNext \/ Built \/ Pull \/ Collect \/ ABuilt
  \/ \E k \in 1..MaxContainers : WriteEnds(k)

\* An iterator that has ended says nothing.
Next == Progress \/ Cancel

Fairness == WF_vars(Progress)

Spec == Init /\ [][Next]_vars /\ Fairness

-----------------------------------------------------------------------------
\* An array that is built has every container in the order of the iterator,
\* whichever write ended first, and keys that give each the place of its items.
BuildsInOrder ==
  outcome = "built" =>
    /\ collected = [i \in DOMAIN lens |-> i]
    /\ Len(starts) = Len(lens) /\ Len(ends) = Len(lens)
    /\ \A i \in DOMAIN lens :
         starts[i] = (IF i = 1 THEN 0 ELSE ends[i - 1]) /\ ends[i] = starts[i] + lens[i]

\* A build ends, unless the iterator is known to be empty: `buffered(0)` polls
\* nothing and is never woken.
BuildEnds == (concurrent /\ hint.known => hint.upper > 0) => <>(outcome # "running")
=============================================================================
