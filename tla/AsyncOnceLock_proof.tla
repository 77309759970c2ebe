------------------------- MODULE AsyncOnceLock_proof -------------------------
(***************************************************************************)
(* What AsyncOnceLock.tla claims of the cell and its futures, proved for   *)
(* every set of futures and values, every number of calls and failures.    *)
(*                                                                         *)
(* The argument: `initializing` is a lock that its one holder gives back   *)
(* (SingleInitialiser), the value is written once (ReturnsTheValue), and   *)
(* until an initialiser fails nobody waits for a queue that was emptied    *)
(* behind its back (QueueInv).  Each is inductive once the types are       *)
(* known; the refinement of OnceCell needs the first.                      *)
(***************************************************************************)
EXTENDS AsyncOnceLock, TLAPS

-----------------------------------------------------------------------------
(***************************************************************************)
(* Types.                                                                  *)
(***************************************************************************)
LEMMA TypeInit == Init => TypeOK
<1> SUFFICES ASSUME Init PROVE TypeOK
  OBVIOUS
<1>1. scheduled \in [Futures -> BOOLEAN]
  BY Zenon DEF Init
<1>2. wakers \in Seq(Futures)
  BY DEF Init
<1>3. 0 \in Nat
  OBVIOUS
<1> QED
  BY <1>1, <1>2, <1>3, Zenon DEF Init, TypeOK, Live, Ended

\* Waking the queue keeps the types of the two fields it touches.
LEMMA TypeWakeAll ==
  ASSUME NEW f \in Futures, WakeAll(f)
  PROVE  wakers' \in Seq(Futures) /\ scheduled' \in [Futures -> BOOLEAN]
<1>1. wakers' \in Seq(Futures)
  BY DEF WakeAll
<1>2. scheduled' \in [Futures -> BOOLEAN]
  <2> DEFINE S(g) == IF g = f THEN FALSE ELSE scheduled[g] \/ g \in Queued
  <2>1. scheduled' = [g \in Futures |-> S(g)]
    BY Zenon DEF WakeAll
  <2>2. \A g \in Futures : S(g) \in BOOLEAN
    BY Zenon
  <2> HIDE DEF S
  <2> QED
    BY <2>1, <2>2, Zenon
<1> QED
  BY <1>1, <1>2

LEMMA TypeNext == TypeOK /\ [Next]_vars => TypeOK'
<1> SUFFICES ASSUME TypeOK, [Next]_vars PROVE TypeOK'
  OBVIOUS
<1> USE DEF TypeOK, Live, Ended
<1>1. CASE UNCHANGED vars
  BY <1>1 DEF vars, cell, history
<1>2. ASSUME NEW f \in Futures, Call(f) PROVE TypeOK'
  BY <1>2 DEF Call, Become, cell
<1>3. ASSUME NEW f \in Futures, Drop(f) PROVE TypeOK'
  BY <1>3 DEF Drop, Become, Unschedule, cell
<1>4. ASSUME NEW f \in Futures, CreateGet(f) PROVE TypeOK'
  BY <1>4 DEF CreateGet, ReturnValue, Become, Unschedule, cell, history
<1>5. ASSUME NEW f \in Futures, CreateLock(f) PROVE TypeOK'
  <2>1. CASE Panic(f) /\ UNCHANGED history
    BY <2>1 DEF Panic, Become, Unschedule, history
  <2>2. CASE Enqueue(f) /\ UNCHANGED history
    BY <2>2 DEF Enqueue, Become, Unschedule, history
  <2>3. CASE ReturnValue(f) /\ UNCHANGED <<cell, queue_pos, history>>
    BY <2>3 DEF ReturnValue, Become, Unschedule, cell, history
  <2>4. CASE Claim(f) /\ UNCHANGED history
    BY <2>4 DEF Claim, Become, history
  <2> QED
    BY <1>5, <2>1, <2>2, <2>3, <2>4 DEF CreateLock
<1>6. ASSUME NEW f \in Futures, PollWaiting(f) PROVE TypeOK'
  <2>1. CASE Panic(f) /\ UNCHANGED history
    BY <2>1 DEF Panic, Become, Unschedule, history
  <2>2. CASE /\ queue_pos[f] < Len(wakers)
             /\ wakers' = [wakers EXCEPT ![queue_pos[f] + 1] = f]
             /\ Unschedule(f)
             /\ UNCHANGED <<inner, initializing, poisoned, phase, queue_pos,
                            result, history>>
    BY <2>2 DEF Unschedule, history
  <2>3. CASE ReturnValue(f) /\ UNCHANGED <<cell, queue_pos, history>>
    BY <2>3 DEF ReturnValue, Become, Unschedule, cell, history
  <2>4. CASE Claim(f) /\ UNCHANGED history
    BY <2>4 DEF Claim, Become, history
  <2> QED
    BY <1>6, <2>1, <2>2, <2>3, <2>4 DEF PollWaiting, UpdateWaker
<1>7. ASSUME NEW f \in Futures, NEW v \in Values, InitOk(f, v) PROVE TypeOK'
  BY <1>7, TypeWakeAll DEF InitOk, Become, history
<1>8. ASSUME NEW f \in Futures, InitErr(f) PROVE TypeOK'
  <2>1. wakers' \in Seq(Futures) /\ scheduled' \in [Futures -> BOOLEAN]
    BY <1>8, TypeWakeAll DEF InitErr
  <2>2. failures' \in Nat /\ phase' \in [Futures -> Live \cup Ended]
    BY <1>8 DEF InitErr, Become
  <2> QED
    BY <1>8, <2>1, <2>2 DEF InitErr
<1>9. ASSUME NEW f \in Futures, InitPoisoned(f) PROVE TypeOK'
  BY <1>9 DEF InitPoisoned, Panic, Become, Unschedule, history
<1>10. ASSUME NEW v \in Values, Set(v) PROVE TypeOK'
  BY <1>10 DEF Set, history
<1> QED
  BY <1>1, <1>2, <1>3, <1>4, <1>5, <1>6, <1>7, <1>8, <1>9, <1>10
     DEF Next, Poll, Complete

\* Every reachable state has its types: AsyncOnceLock's fields, the futures'
\* variants and what they remember.
THEOREM TypeCorrect == Spec => []TypeOK
BY TypeInit, TypeNext, PTL DEF Spec

-----------------------------------------------------------------------------
(***************************************************************************)
(* One initialiser at a time.                                              *)
(***************************************************************************)
LEMMA SingleInit == Init => SingleInitialiser
BY DEF Init, SingleInitialiser, Initialisers

\* `initializing` is only raised by a claim that found it down, and only
\* lowered by its holder, who stops being an initialiser in the same step.
LEMMA SingleNext ==
  TypeOK /\ SingleInitialiser /\ [Next]_vars => SingleInitialiser'
<1> SUFFICES ASSUME TypeOK, SingleInitialiser, [Next]_vars
             PROVE  SingleInitialiser'
  OBVIOUS
<1> USE DEF TypeOK, SingleInitialiser, Initialisers
<1>1. CASE UNCHANGED vars
  BY <1>1 DEF vars, cell
<1>2. ASSUME NEW f \in Futures, Call(f) PROVE SingleInitialiser'
  BY <1>2 DEF Call, Become, cell
<1>3. ASSUME NEW f \in Futures, Drop(f) PROVE SingleInitialiser'
  BY <1>3 DEF Drop, Become, cell
<1>4. ASSUME NEW f \in Futures, CreateGet(f) PROVE SingleInitialiser'
  BY <1>4 DEF CreateGet, ReturnValue, Become, cell
<1>5. ASSUME NEW f \in Futures, CreateLock(f) PROVE SingleInitialiser'
  <2>1. CASE Claim(f) /\ ~initializing
    BY <2>1 DEF Claim, Become
  <2>2. CASE Panic(f) \/ Enqueue(f) \/ (ReturnValue(f) /\ UNCHANGED cell)
    BY <2>2 DEF Panic, Enqueue, ReturnValue, Become, cell
  <2> QED
    BY <1>5, <2>1, <2>2 DEF CreateLock
<1>6. ASSUME NEW f \in Futures, PollWaiting(f) PROVE SingleInitialiser'
  <2>1. CASE Claim(f) /\ ~initializing
    BY <2>1 DEF Claim, Become
  <2>2. CASE Panic(f) \/ (ReturnValue(f) /\ UNCHANGED cell)
    BY <2>2 DEF Panic, ReturnValue, Become, cell
  <2>3. CASE UNCHANGED <<phase, initializing>>
    BY <2>3
  <2> QED
    BY <1>6, <2>1, <2>2, <2>3 DEF PollWaiting, UpdateWaker
<1>7. ASSUME NEW f \in Futures, NEW v \in Values, InitOk(f, v)
      PROVE  SingleInitialiser'
  BY <1>7 DEF InitOk, Become
<1>8. ASSUME NEW f \in Futures, InitErr(f) PROVE SingleInitialiser'
  BY <1>8 DEF InitErr, Become
<1>9. ASSUME NEW f \in Futures, InitPoisoned(f) PROVE SingleInitialiser'
  BY <1>9 DEF InitPoisoned, Panic, Become
<1>10. ASSUME NEW v \in Values, Set(v) PROVE SingleInitialiser'
  BY <1>10 DEF Set
<1> QED
  BY <1>1, <1>2, <1>3, <1>4, <1>5, <1>6, <1>7, <1>8, <1>9, <1>10
     DEF Next, Poll, Complete

\* At most one future runs its initialiser, whatever is dropped, polled for no
\* reason, failed or poisoned ("Only one thread polls the initializing
\* function", sync.rs:147).
THEOREM OneInitialiser == Spec => []SingleInitialiser
BY TypeCorrect, SingleInit, SingleNext, PTL DEF Spec

-----------------------------------------------------------------------------
(***************************************************************************)
(* The value.                                                              *)
(***************************************************************************)
LEMMA ReturnsInit == Init => ReturnsTheValue
BY DEF Init, ReturnsTheValue

\* A poll that returns a value read it from a cell that had one, and a cell
\* that has one keeps it.
LEMMA ReturnsNext == TypeOK /\ ReturnsTheValue /\ [Next]_vars => ReturnsTheValue'
<1> SUFFICES ASSUME TypeOK, ReturnsTheValue, [Next]_vars
             PROVE  ReturnsTheValue'
  OBVIOUS
<1> USE NoValueAssumption DEF TypeOK, ReturnsTheValue
<1>1. CASE UNCHANGED vars
  BY <1>1 DEF vars, cell
<1>2. ASSUME NEW f \in Futures, Call(f) PROVE ReturnsTheValue'
  BY <1>2 DEF Call, Become, cell
<1>3. ASSUME NEW f \in Futures, Drop(f) PROVE ReturnsTheValue'
  BY <1>3 DEF Drop, Become, cell
<1>4. ASSUME NEW f \in Futures, CreateGet(f) PROVE ReturnsTheValue'
  BY <1>4 DEF CreateGet, ReturnValue, Become, cell
<1>5. ASSUME NEW f \in Futures, CreateLock(f) PROVE ReturnsTheValue'
  <2>1. CASE ReturnValue(f) /\ inner # NoValue /\ UNCHANGED cell
    BY <2>1 DEF ReturnValue, Become, cell
  <2>2. CASE Panic(f) \/ Enqueue(f) \/ Claim(f)
    BY <2>2 DEF Panic, Enqueue, Claim, Become
  <2> QED
    BY <1>5, <2>1, <2>2 DEF CreateLock
<1>6. ASSUME NEW f \in Futures, PollWaiting(f) PROVE ReturnsTheValue'
  <2>1. CASE ReturnValue(f) /\ inner # NoValue /\ UNCHANGED cell
    BY <2>1 DEF ReturnValue, Become, cell
  <2>2. CASE Panic(f) \/ Claim(f)
    BY <2>2 DEF Panic, Claim, Become
  <2>3. CASE UNCHANGED <<inner, phase, result>>
    BY <2>3
  <2> QED
    BY <1>6, <2>1, <2>2, <2>3 DEF PollWaiting, UpdateWaker
<1>7. ASSUME NEW f \in Futures, NEW v \in Values, InitOk(f, v)
      PROVE  ReturnsTheValue'
  BY <1>7 DEF InitOk, Become
<1>8. ASSUME NEW f \in Futures, InitErr(f) PROVE ReturnsTheValue'
  BY <1>8 DEF InitErr, Become
<1>9. ASSUME NEW f \in Futures, InitPoisoned(f) PROVE ReturnsTheValue'
  BY <1>9 DEF InitPoisoned, Panic, Become
<1>10. ASSUME NEW v \in Values, Set(v) PROVE ReturnsTheValue'
  BY <1>10 DEF Set
<1> QED
  BY <1>1, <1>2, <1>3, <1>4, <1>5, <1>6, <1>7, <1>8, <1>9, <1>10
     DEF Next, Poll, Complete

\* Every call that succeeds returns the value the cell holds from then on,
\* also when `set` raced its own initialiser (sync.rs:165, 268-271).
THEOREM EveryoneGetsTheValue == Spec => []ReturnsTheValue
BY TypeCorrect, ReturnsInit, ReturnsNext, PTL DEF Spec

\* A step that starts an initialiser found the cell empty.
LEMMA ClaimStep ==
  ASSUME TypeOK, [Next]_vars,
         NEW g \in Futures,
         phase[g] # "Initializing", phase'[g] = "Initializing"
  PROVE  inner = NoValue
<1> USE DEF TypeOK
<1>1. CASE UNCHANGED vars
  BY <1>1 DEF vars
<1>2. ASSUME NEW f \in Futures, Call(f) \/ Drop(f) \/ CreateGet(f)
      PROVE  inner = NoValue
  BY <1>2 DEF Call, Drop, CreateGet, ReturnValue, Become
<1>3. ASSUME NEW f \in Futures, CreateLock(f) PROVE inner = NoValue
  BY <1>3 DEF CreateLock, Panic, Enqueue, ReturnValue, Claim, Become
<1>4. ASSUME NEW f \in Futures, PollWaiting(f) PROVE inner = NoValue
  BY <1>4 DEF PollWaiting, UpdateWaker, Panic, ReturnValue, Claim, Become
<1>5. ASSUME NEW f \in Futures, Complete(f) PROVE inner = NoValue
  BY <1>5 DEF Complete, InitOk, InitErr, InitPoisoned, Panic, Become
<1>6. ASSUME NEW v \in Values, Set(v) PROVE inner = NoValue
  BY <1>6 DEF Set
<1> QED
  BY <1>1, <1>2, <1>3, <1>4, <1>5, <1>6 DEF Next, Poll

\* No future starts its initialiser once the cell holds a value
\* (sync.rs:94-98, 189-191): the look made under the lock is enough.
THEOREM NoWastedInitialiser == Spec => NoLateClaim
<1>1. TypeOK /\ [Next]_vars
        => [\A f \in Futures :
              phase[f] # "Initializing" /\ phase'[f] = "Initializing"
                => inner = NoValue]_vars
  BY ClaimStep
<1> QED
  BY <1>1, TypeCorrect, PTL DEF Spec, NoLateClaim

-----------------------------------------------------------------------------
(***************************************************************************)
(* The queue, while no initialiser has failed.                             *)
(***************************************************************************)
Waiters == {f \in Futures : phase[f] = "Waiting"}

\* f's waker is in the queue, at the position f remembers.
HasItsPlace(f) ==
  queue_pos[f] < Len(wakers) /\ wakers[queue_pos[f] + 1] = f

\* An emptied queue strands nobody: once the flag is down again, either the
\* value is there for those who wait, or nobody waits.
QueueInv ==
  failures = 0 =>
    /\ ~poisoned
    /\ \A f \in Futures : phase[f] # "Panicked"
    /\ initializing => \A f \in Waiters : HasItsPlace(f)
    /\ ~initializing /\ inner = NoValue => Waiters = {}

LEMMA QueueInit == Init => QueueInv
BY DEF Init, QueueInv, Waiters

\* A place is kept while the queue only grows and nobody else starts to wait.
LEMMA PlaceKept ==
  ASSUME TypeOK, QueueInv, initializing' = initializing,
         UNCHANGED <<wakers, queue_pos, poisoned, failures>>,
         inner' = inner \/ inner' # NoValue,
         \A g \in Futures : phase'[g] # "Panicked" \/ phase[g] = "Panicked",
         \A g \in Futures : phase'[g] = "Waiting" => phase[g] = "Waiting"
  PROVE  QueueInv'
BY DEF QueueInv, Waiters, HasItsPlace

LEMMA QueueNext == TypeOK /\ QueueInv /\ [Next]_vars => QueueInv'
<1> SUFFICES ASSUME TypeOK, QueueInv, [Next]_vars PROVE QueueInv'
  OBVIOUS
<1> USE NoValueAssumption DEF TypeOK
<1>1. CASE UNCHANGED vars
  BY <1>1 DEF vars, cell, history, QueueInv, Waiters, HasItsPlace
<1>2. ASSUME NEW f \in Futures, Call(f) PROVE QueueInv'
  BY <1>2, PlaceKept DEF Call, Become, cell
<1>3. ASSUME NEW f \in Futures, Drop(f) PROVE QueueInv'
  BY <1>3, PlaceKept DEF Drop, Become, cell
<1>4. ASSUME NEW f \in Futures, CreateGet(f) PROVE QueueInv'
  BY <1>4, PlaceKept DEF CreateGet, ReturnValue, Become, cell, history
<1>5. ASSUME NEW f \in Futures, Enqueue(f), initializing, UNCHANGED history
      PROVE  QueueInv'
  <2>1. ASSUME failures = 0, NEW g \in Futures, phase'[g] = "Waiting"
        PROVE  HasItsPlace(g)'
    <3>1. wakers' = Append(wakers, f) /\ Len(wakers') = Len(wakers) + 1
      BY <1>5 DEF Enqueue
    <3>2. CASE g = f
      BY <1>5, <3>1, <3>2 DEF Enqueue, HasItsPlace
    <3>3. CASE g # f
      <4>1. HasItsPlace(g)
        BY <1>5, <2>1, <3>3 DEF Enqueue, Become, history, QueueInv, Waiters
      <4>2. queue_pos'[g] = queue_pos[g]
        BY <1>5, <3>3 DEF Enqueue
      <4> QED
        BY <3>1, <4>1, <4>2 DEF HasItsPlace
    <3> QED
      BY <3>2, <3>3
  <2> QED
    BY <1>5, <2>1 DEF Enqueue, Become, history, QueueInv, Waiters
<1>6. ASSUME NEW f \in Futures, Claim(f), ~initializing, inner = NoValue,
             UNCHANGED history
      PROVE  QueueInv'
  BY <1>6 DEF Claim, Become, history, QueueInv, Waiters, HasItsPlace
<1>7. ASSUME NEW f \in Futures, Panic(f), poisoned, UNCHANGED history
      PROVE  QueueInv'
  BY <1>7 DEF history, QueueInv
<1>8. ASSUME NEW f \in Futures, ReturnValue(f),
             UNCHANGED <<cell, queue_pos, history>>
      PROVE  QueueInv'
  BY <1>8, PlaceKept DEF ReturnValue, Become, cell, history
<1>9. ASSUME NEW f \in Futures, CreateLock(f) PROVE QueueInv'
  BY <1>5, <1>6, <1>7, <1>8, <1>9 DEF CreateLock
<1>10. ASSUME NEW f \in Futures, PollWaiting(f) PROVE QueueInv'
  <2>1. ASSUME UpdateWaker(f), initializing, phase[f] = "Waiting",
               UNCHANGED history
        PROVE  QueueInv'
    <3>1. CASE failures # 0
      BY <2>1, <3>1 DEF history, QueueInv
    <3>2. CASE failures = 0
      <4>1. HasItsPlace(f)
        BY <2>1, <3>2 DEF QueueInv, Waiters
      <4>2. wakers' = wakers
        BY <2>1, <4>1 DEF UpdateWaker, HasItsPlace
      <4> QED
        BY <2>1, <4>1, <4>2, PlaceKept DEF UpdateWaker, HasItsPlace, history
    <3> QED
      BY <3>1, <3>2
  <2> QED
    BY <1>6, <1>7, <1>8, <1>10, <2>1 DEF PollWaiting
<1>11. ASSUME NEW f \in Futures, NEW v \in Values, InitOk(f, v)
       PROVE  QueueInv'
  BY <1>11 DEF InitOk, Become, history, QueueInv, Waiters
<1>12. ASSUME NEW f \in Futures, InitErr(f) PROVE QueueInv'
  BY <1>12 DEF InitErr, QueueInv
<1>13. ASSUME NEW f \in Futures, InitPoisoned(f) PROVE QueueInv'
  BY <1>7, <1>13 DEF InitPoisoned
<1>14. ASSUME NEW v \in Values, Set(v) PROVE QueueInv'
  BY <1>14, PlaceKept DEF Set, history
<1> QED
  BY <1>1, <1>2, <1>3, <1>4, <1>9, <1>10, <1>11, <1>12, <1>13, <1>14
     DEF Next, Poll, Complete

LEMMA QueueInvariant == Spec => []QueueInv
BY TypeCorrect, QueueInit, QueueNext, PTL DEF Spec

\* Until an initialiser fails, every waiter has its own waker where it thinks
\* it is, so the end of the initialiser it waits for reaches it
\* (sync.rs:84-92, 186).
THEOREM WaitersAreQueued == Spec => []WaiterIsQueued
<1>1. QueueInv => WaiterIsQueued
  BY DEF QueueInv, WaiterIsQueued, Waiters, HasItsPlace
<1> QED
  BY <1>1, QueueInvariant, PTL

\* Until an initialiser fails, no poll panics and `init_queue` is not poisoned
\* (sync.rs:186).
THEOREM NoPanicBeforeFailure == Spec => []PanicNeedsFailure
<1>1. QueueInv => PanicNeedsFailure
  BY DEF QueueInv, PanicNeedsFailure
<1> QED
  BY <1>1, QueueInvariant, PTL

-----------------------------------------------------------------------------
(***************************************************************************)
(* The refinement of OnceCell.                                             *)
(***************************************************************************)
LEMMA ProgressOf ==
  /\ Progress("Idle") = "idle"
  /\ Progress("Creating") = "waiting"
  /\ Progress("Claiming") = "waiting"
  /\ Progress("Waiting") = "waiting"
  /\ Progress("Initializing") = "running"
  /\ Progress("Ok") = "ok"
  /\ Progress("Err") = "err"
  /\ Progress("Dropped") = "gone"
  /\ Progress("Panicked") = "gone"
BY DEF Progress

\* Only initialisers count as running.
LEMMA RunningIsInitializing ==
  ASSUME TypeOK, NEW g \in Futures, AbstractCall[g] = "running"
  PROVE  phase[g] = "Initializing"
BY ProgressOf DEF AbstractCall, TypeOK, Live, Ended

\* A change of one future's variant is a change of one call's progress.
LEMMA OneCall ==
  ASSUME TypeOK, NEW f \in Futures, NEW p, Become(f, p)
  PROVE  /\ AbstractCall' = [AbstractCall EXCEPT ![f] = Progress(p)]
         /\ AbstractCall[f] = Progress(phase[f])
<1>1. phase' = [g \in Futures |-> IF g = f THEN p ELSE phase[g]]
  BY DEF TypeOK, Become
<1>2. AbstractCall' = [g \in Futures |-> Progress(phase'[g])]
  BY DEF AbstractCall
<1>3. \A g \in Futures :
        Progress(phase'[g]) = IF g = f THEN Progress(p) ELSE AbstractCall[g]
  BY <1>1 DEF AbstractCall
<1> HIDE DEF Progress
<1> QED
  BY <1>2, <1>3 DEF AbstractCall

LEMMA RefinesInit == Init => Abstract!Init
BY ProgressOf DEF Init, Abstract!Init, AbstractCall

LEMMA RefinesNext ==
  TypeOK /\ SingleInitialiser /\ [Next]_vars
    => [Abstract!Next]_(Abstract!vars)
<1> SUFFICES ASSUME TypeOK, SingleInitialiser, [Next]_vars
             PROVE  [Abstract!Next]_(Abstract!vars)
  OBVIOUS
<1>0. ASSUME UNCHANGED <<inner, result, AbstractCall>>
      PROVE  UNCHANGED Abstract!vars
  BY <1>0 DEF Abstract!vars
<1>1. CASE UNCHANGED vars
  BY <1>0, <1>1 DEF vars, cell, AbstractCall
<1>2. ASSUME NEW f \in Futures, Call(f) PROVE Abstract!Begin(f)
  BY <1>2, OneCall, ProgressOf DEF Call, cell, Ended, Abstract!Begin
<1>3. ASSUME NEW f \in Futures, Drop(f) PROVE Abstract!GiveUp(f)
  BY <1>3, OneCall, ProgressOf DEF Drop, cell, Abstract!GiveUp
\* The ways a poll of a waiting call ends.
<1>4. ASSUME NEW f \in Futures, phase[f] \in {"Creating", "Claiming", "Waiting"},
             ReturnValue(f), inner # NoValue, UNCHANGED cell
      PROVE  Abstract!Hit(f)
  BY <1>4, OneCall, ProgressOf DEF ReturnValue, cell, Abstract!Hit
<1>5. ASSUME NEW f \in Futures,
             phase[f] \in {"Creating", "Claiming", "Waiting", "Initializing"},
             Panic(f)
      PROVE  Abstract!GiveUp(f)
  BY <1>5, OneCall, ProgressOf DEF Panic, Abstract!GiveUp
<1>6. ASSUME NEW f \in Futures, phase[f] \in {"Claiming", "Waiting"},
             Claim(f), ~initializing, inner = NoValue
      PROVE  Abstract!Run(f)
  <2>1. \A g \in Futures : AbstractCall[g] # "running"
    BY <1>6, RunningIsInitializing DEF SingleInitialiser, Initialisers
  <2> QED
    BY <1>6, <2>1, OneCall, ProgressOf DEF Claim, Abstract!Run
<1>7. ASSUME NEW f \in Futures, NEW p \in {"Claiming", "Waiting"},
             phase[f] \in {"Creating", "Claiming", "Waiting"},
             Become(f, p), UNCHANGED <<inner, result>>
      PROVE  UNCHANGED Abstract!vars
  <2>1. AbstractCall' = AbstractCall
    <3>1. AbstractCall' = [AbstractCall EXCEPT ![f] = AbstractCall[f]]
      BY <1>7, OneCall, ProgressOf
    <3> QED
      BY <3>1 DEF AbstractCall
  <2> QED
    BY <1>0, <1>7, <2>1
<1>8. ASSUME NEW f \in Futures, CreateGet(f)
      PROVE  Abstract!Hit(f) \/ UNCHANGED Abstract!vars
  BY <1>4, <1>7, <1>8 DEF CreateGet, cell
<1>9. ASSUME NEW f \in Futures, CreateLock(f)
      PROVE  \/ Abstract!Hit(f) \/ Abstract!GiveUp(f) \/ Abstract!Run(f)
             \/ UNCHANGED Abstract!vars
  BY <1>4, <1>5, <1>6, <1>7, <1>9 DEF CreateLock, Enqueue, cell
<1>10. ASSUME NEW f \in Futures, PollWaiting(f)
       PROVE  \/ Abstract!Hit(f) \/ Abstract!GiveUp(f) \/ Abstract!Run(f)
              \/ UNCHANGED Abstract!vars
  <2>1. CASE UNCHANGED <<inner, result, phase>>
    BY <1>0, <2>1 DEF AbstractCall
  <2> QED
    BY <1>4, <1>5, <1>6, <1>10, <2>1 DEF PollWaiting, UpdateWaker, cell
\* The ways an initialiser ends.
<1>11. ASSUME NEW f \in Futures, NEW v \in Values, InitOk(f, v)
       PROVE  Abstract!Succeed(f)
  BY <1>11, OneCall, ProgressOf DEF InitOk, Abstract!Succeed
<1>12. ASSUME NEW f \in Futures, InitErr(f) PROVE Abstract!Fail(f)
  BY <1>12, OneCall, ProgressOf DEF InitErr, Abstract!Fail
<1>13. ASSUME NEW f \in Futures, InitPoisoned(f) PROVE Abstract!GiveUp(f)
  BY <1>5, <1>13 DEF InitPoisoned
<1>14. ASSUME NEW v \in Values, Set(v) PROVE Abstract!Fill
  BY <1>14 DEF Set, AbstractCall, Abstract!Fill
<1> QED
  BY <1>1, <1>2, <1>3, <1>8, <1>9, <1>10, <1>11, <1>12, <1>13, <1>14
     DEF Next, Poll, Complete, Abstract!Next

\* The queue of wakers, the two looks at the value and the futures' variants
\* implement the cell that its callers are promised: every step is a step of
\* OnceCell or invisible to it.
THEOREM QueueImplementsCell == Spec => ImplementsOnceCell
BY TypeCorrect, OneInitialiser, RefinesInit, RefinesNext, PTL
   DEF Spec, ImplementsOnceCell, Abstract!Spec
=============================================================================
