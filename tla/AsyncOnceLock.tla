---------------------------- MODULE AsyncOnceLock ----------------------------
(***************************************************************************)
(* `AsyncOnceLock`, the cell in which an asynchronous entry keeps its      *)
(* value, and the futures of its `get_or_try_init` (src/src/utils/sync.rs),*)
(* as `BackedEntryAsync::a_load` drives them: a future is created, polled  *)
(* by its task when it is scheduled (or for no reason), runs the           *)
(* initialiser or queues a waker behind the one that does, and may be      *)
(* dropped at any point.  Everything a poll does while it holds            *)
(* `init_queue` is one step; the unguarded read that opens `create` is a   *)
(* step of its own.                                                        *)
(***************************************************************************)
EXTENDS Naturals, Sequences, FiniteSets

CONSTANTS
  Futures,      (* slots for the futures alive at once; a slot is reused    *)
  Values,       (* what a decode of the disk may produce                    *)
  NoValue,      (* an empty `inner`                                         *)
  MaxCalls,     (* bound: futures created in one slot                       *)
  MaxFailures   (* bound: initialisers that return Err                      *)

ASSUME NoValueAssumption == NoValue \notin Values
ASSUME BoundsAssumption == MaxCalls \in Nat /\ MaxFailures \in Nat

VARIABLES
  inner,        (* the value, NoValue until it is set                       *)
  initializing, (* InitializationQueue::initializing                        *)
  wakers,       (* InitializationQueue::wakers: whom each entry wakes       *)
  poisoned,     (* a panic happened while `init_queue` was held             *)
  phase,        (* the variant of each future, or how it ended              *)
  queue_pos,    (* WaitForInit::queue_pos, counted from 0                   *)
  result,       (* the value a finished future returned                     *)
  scheduled,    (* the future's task has been woken and not yet polled      *)
  calls,        (* history: futures created in each slot                    *)
  failures,     (* history: initialisers that returned Err                  *)
  abandoned     (* history: a future was dropped while it initialised       *)

cell == <<inner, initializing, wakers, poisoned>>
history == <<calls, failures, abandoned>>
vars == <<cell, phase, queue_pos, result, scheduled, history>>

Live == {"Creating", "Claiming", "Waiting", "Initializing"}
Ended == {"Idle", "Ok", "Err", "Dropped", "Panicked"}

TypeOK ==
  /\ inner \in Values \cup {NoValue}
  /\ initializing \in BOOLEAN
  /\ wakers \in Seq(Futures)
  /\ poisoned \in BOOLEAN
  /\ phase \in [Futures -> Live \cup Ended]
  /\ queue_pos \in [Futures -> Nat]
  /\ result \in [Futures -> Values \cup {NoValue}]
  /\ scheduled \in [Futures -> BOOLEAN]
  /\ calls \in [Futures -> Nat]
  /\ failures \in Nat
  /\ abandoned \in BOOLEAN

\* `new` and `new_with`: the queue is always empty at first.
Init ==
  /\ inner \in Values \cup {NoValue}
  /\ initializing = FALSE
  /\ wakers = <<>>
  /\ poisoned = FALSE
  /\ phase = [f \in Futures |-> "Idle"]
  /\ queue_pos = [f \in Futures |-> 0]
  /\ result = [f \in Futures |-> NoValue]
  /\ scheduled = [f \in Futures |-> FALSE]
  /\ calls = [f \in Futures |-> 0]
  /\ failures = 0
  /\ abandoned = FALSE

Queued == {wakers[i] : i \in DOMAIN wakers}

Become(f, p) == phase' = [phase EXCEPT ![f] = p]
Unschedule(f) == scheduled' = [scheduled EXCEPT ![f] = FALSE]

(***************************************************************************)
(* The ways a poll may end.                                                *)
(***************************************************************************)
ReturnValue(f) ==
  /\ Become(f, "Ok")
  /\ result' = [result EXCEPT ![f] = inner]
  /\ Unschedule(f)

\* The claim leaves the task scheduled: the same poll goes on into the
\* initialiser.
Claim(f) ==
  /\ initializing' = TRUE
  /\ Become(f, "Initializing")
  /\ scheduled' = [scheduled EXCEPT ![f] = TRUE]
  /\ UNCHANGED <<inner, wakers, poisoned, queue_pos, result>>

\* Taking `init_queue` when it is poisoned, or a poll that fails while it
\* holds it: either way the mutex is poisoned afterwards.
Panic(f) ==
  /\ poisoned' = TRUE
  /\ Become(f, "Panicked")
  /\ Unschedule(f)
  /\ UNCHANGED <<inner, initializing, wakers, queue_pos, result>>

\* With the length taken after the push.
EnqueueAfterPush(f) ==
  /\ wakers' = Append(wakers, f)
  /\ queue_pos' = [queue_pos EXCEPT ![f] = Len(wakers')]
  /\ Become(f, "Waiting")
  /\ Unschedule(f)
  /\ UNCHANGED <<inner, initializing, poisoned, result>>

Enqueue(f) ==
  /\ wakers' = Append(wakers, f)
  /\ queue_pos' = [queue_pos EXCEPT ![f] = Len(wakers)]
  /\ Become(f, "Waiting")
  /\ Unschedule(f)
  /\ UNCHANGED <<inner, initializing, poisoned, result>>

(***************************************************************************)
(* The caller: creates a future (and schedules its task), or drops it.     *)
(***************************************************************************)
Call(f) ==
  /\ phase[f] \in Ended
  /\ calls[f] < MaxCalls
  /\ calls' = [calls EXCEPT ![f] = @ + 1]
  /\ Become(f, "Creating")
  /\ result' = [result EXCEPT ![f] = NoValue]
  /\ scheduled' = [scheduled EXCEPT ![f] = TRUE]
  /\ UNCHANGED <<cell, queue_pos, failures, abandoned>>

\* No Drop implementation gives `initializing` or the waker back.
Drop(f) ==
  /\ phase[f] \in {"Creating", "Waiting", "Initializing"}
  /\ Become(f, "Dropped")
  /\ abandoned' = (abandoned \/ phase[f] = "Initializing")
  /\ Unschedule(f)
  /\ UNCHANGED <<cell, queue_pos, result, calls, failures>>

(***************************************************************************)
(* Polls.                                                                  *)
(***************************************************************************)
CreateGet(f) ==
  /\ phase[f] = "Creating"
  /\ IF inner # NoValue
       THEN ReturnValue(f) /\ UNCHANGED cell
       ELSE Become(f, "Claiming") /\ UNCHANGED <<cell, result, scheduled>>
  /\ UNCHANGED <<queue_pos, history>>

CreateLock(f) ==
  /\ phase[f] = "Claiming"
  /\ IF poisoned THEN Panic(f)
     ELSE IF initializing THEN Enqueue(f)
     ELSE IF inner # NoValue
       THEN ReturnValue(f) /\ UNCHANGED <<cell, queue_pos>>
     ELSE Claim(f)
  /\ UNCHANGED history

\* With only the head of the queue woken.
WakeHead(f) ==
  /\ wakers' = <<>>
  /\ scheduled' = [g \in Futures |->
       IF g = f THEN FALSE
       ELSE scheduled[g] \/ (wakers # <<>> /\ g = Head(wakers))]

\* Each queued waker is taken and pinged; the polled task itself is done.
WakeAll(f) ==
  /\ wakers' = <<>>
  /\ scheduled' = [g \in Futures |->
       IF g = f THEN FALSE ELSE scheduled[g] \/ g \in Queued]

\* With the initialiser's own value returned, whoever was first.
InitOkOwn(f, v) ==
  /\ phase[f] = "Initializing" /\ ~poisoned
  /\ initializing' = FALSE
  /\ WakeAll(f)
  /\ inner' = IF inner = NoValue THEN v ELSE inner
  /\ Become(f, "Ok")
  /\ result' = [result EXCEPT ![f] = v]
  /\ UNCHANGED <<poisoned, queue_pos, history>>

\* The value replaces what is there.
InitOkOverwrite(f, v) ==
  /\ phase[f] = "Initializing" /\ ~poisoned
  /\ initializing' = FALSE
  /\ WakeAll(f)
  /\ inner' = v
  /\ Become(f, "Ok")
  /\ result' = [result EXCEPT ![f] = v]
  /\ UNCHANGED <<poisoned, queue_pos, history>>

\* The initialiser is ready with a value: the first value set stays.
InitOk(f, v) ==
  /\ phase[f] = "Initializing" /\ ~poisoned
  /\ initializing' = FALSE
  /\ WakeAll(f)
  /\ inner' = IF inner = NoValue THEN v ELSE inner
  /\ Become(f, "Ok")
  /\ result' = [result EXCEPT ![f] = inner']
  /\ UNCHANGED <<poisoned, queue_pos, history>>

InitErr(f) ==
  /\ phase[f] = "Initializing" /\ ~poisoned
  /\ failures < MaxFailures
  /\ failures' = failures + 1
  /\ initializing' = FALSE
  /\ WakeAll(f)
  /\ Become(f, "Err")
  /\ UNCHANGED <<inner, poisoned, queue_pos, result, calls, abandoned>>

\* The initialiser is ready, and `init_queue` is poisoned.
InitPoisoned(f) ==
  /\ phase[f] = "Initializing" /\ poisoned
  /\ Panic(f)
  /\ UNCHANGED history

Complete(f) == (\E v \in Values : InitOk(f, v)) \/ InitErr(f) \/ InitPoisoned(f)

\* A queued position outlives the queue it was given for: the queue is
\* emptied by every initialiser that ends, and indexing past its end panics.
UpdateWaker(f) ==
  IF queue_pos[f] < Len(wakers)
    THEN /\ wakers' = [wakers EXCEPT ![queue_pos[f] + 1] = f]
         /\ Unschedule(f)
         /\ UNCHANGED <<inner, initializing, poisoned, phase, queue_pos, result>>
    ELSE Panic(f)

\* With a woken waiter claiming whether or not another already has.
PollWaitingClaims(f) ==
  /\ phase[f] = "Waiting"
  /\ IF poisoned THEN Panic(f)
     ELSE IF inner # NoValue
       THEN ReturnValue(f) /\ UNCHANGED <<cell, queue_pos>>
     ELSE Claim(f)
  /\ UNCHANGED history

PollWaiting(f) ==
  /\ phase[f] = "Waiting"
  /\ IF poisoned THEN Panic(f)
     ELSE IF initializing THEN UpdateWaker(f)
     ELSE IF inner # NoValue
       THEN ReturnValue(f) /\ UNCHANGED <<cell, queue_pos>>
     ELSE Claim(f)
  /\ UNCHANGED history

Poll(f) == CreateGet(f) \/ CreateLock(f) \/ PollWaiting(f) \/ Complete(f)

\* `set` and the trait's `get_or_init`, through a shared reference and
\* without `init_queue`: what a synchronous `load` of the entry does.
Set(v) ==
  /\ inner = NoValue
  /\ inner' = v
  /\ UNCHANGED <<initializing, wakers, poisoned, phase, queue_pos, result,
                 scheduled, history>>

Next ==
  \/ \E f \in Futures : Call(f) \/ Drop(f) \/ Poll(f)
  \/ \E v \in Values : Set(v)

Spec == Init /\ [][Next]_vars

(***************************************************************************)
(* The executor polls every task that is woken, and a poll that has begun  *)
(* goes on to its end; an initialiser eventually answers (it is one read   *)
(* and one decode).  Nothing else is owed: no call is made, no future      *)
(* dropped and no spurious poll happens because of fairness.               *)
(***************************************************************************)
Fairness ==
  \A f \in Futures :
    /\ WF_vars(scheduled[f] /\ Poll(f))
    /\ WF_vars(Complete(f))

FairSpec == Spec /\ Fairness

(***************************************************************************)
(* Properties.                                                             *)
(***************************************************************************)
Initialisers == {f \in Futures : phase[f] = "Initializing"}

\* At most one future runs its initialiser, and the flag is up while it
\* does ("Only one thread polls the initializing function", sync.rs:147).
SingleInitialiser ==
  \A f, g \in Initialisers : f = g /\ initializing

\* A future that ended well returned the value the cell still holds, also
\* when a synchronous `set` raced its own initialiser (sync.rs:165).
ReturnsTheValue ==
  \A f \in Futures : phase[f] = "Ok" => result[f] = inner /\ inner # NoValue

\* No future starts its initialiser once the cell holds a value, also when
\* the value came between its unguarded look and the lock (sync.rs:94-98).
\* A second decode of the disk would be wasted and its result thrown away.
NoLateClaim ==
  [][\A f \in Futures :
       phase[f] # "Initializing" /\ phase'[f] = "Initializing"
         => inner = NoValue]_vars

\* While no initialiser has failed, a waiter behind a running initialiser
\* has a waker of its own in the queue, at the position it remembers, so
\* the initialiser's end reaches it (sync.rs:84-92, 186).
WaiterIsQueued ==
  failures = 0 /\ initializing =>
    \A f \in Futures :
      phase[f] = "Waiting" =>
        /\ queue_pos[f] < Len(wakers)
        /\ wakers[queue_pos[f] + 1] = f

\* The one panic of a poll, which poisons `init_queue` for every later one,
\* needs an initialiser that failed: as long as none has, no position a waiter
\* holds points outside the queue, whoever is dropped or polled for no reason
\* (sync.rs:186).
PanicNeedsFailure ==
  failures = 0 => ~poisoned /\ \A f \in Futures : phase[f] # "Panicked"

\* While no initialiser fails and none is dropped half-way, every call ends,
\* however many waiters are dropped: wakers of dropped waiters and spurious
\* polls cost nobody else its wake-up (sync.rs:153-161).
EveryCallEnds ==
  [](failures = 0 /\ ~abandoned) =>
    \A f \in Futures : (phase[f] \in Live) ~> (phase[f] \in Ended)

\* No poll panics.  `PollWaiting` is written to run "again if initialization
\* failed" (sync.rs:189).
NoPanic == \A f \in Futures : phase[f] # "Panicked"

(***************************************************************************)
(* The abstract cell this one implements.                                  *)
(***************************************************************************)
Progress(p) ==
  CASE p = "Idle" -> "idle"
    [] p \in {"Creating", "Claiming", "Waiting"} -> "waiting"
    [] p = "Initializing" -> "running"
    [] p = "Ok" -> "ok"
    [] p = "Err" -> "err"
    [] p \in {"Dropped", "Panicked"} -> "gone"

AbstractCall == [f \in Futures |-> Progress(phase[f])]

Abstract == INSTANCE OnceCell
              WITH value <- inner, call <- AbstractCall, returned <- result

\* Every step of the queue is a step of the abstract cell, or none.
ImplementsOnceCell == Abstract!Spec
=============================================================================
