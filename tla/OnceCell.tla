------------------------------ MODULE OnceCell ------------------------------
(***************************************************************************)
(* What the cell behind an asynchronous entry promises to the calls of     *)
(* `get_or_try_init`, whatever the queueing underneath: at most one call   *)
(* runs its initialiser at a time, none starts one once there is a value,  *)
(* the value never changes, and every call that succeeds returns it.       *)
(* AsyncOnceLock.tla is shown to implement this specification.             *)
(***************************************************************************)
CONSTANTS
  Futures,      (* the calls' identities                                    *)
  Values,       (* what an initialiser may produce                          *)
  NoValue       (* the empty cell, not one of Values                        *)

VARIABLES
  value,        (* the cell's content                                       *)
  call,         (* the progress of each call                                *)
  returned      (* the value each successful call returned                  *)

vars == <<value, call, returned>>

Init ==
  /\ value \in Values \cup {NoValue}
  /\ call = [f \in Futures |-> "idle"]
  /\ returned = [f \in Futures |-> NoValue]

Begin(f) ==
  /\ call[f] \in {"idle", "ok", "err", "gone"}
  /\ call' = [call EXCEPT ![f] = "waiting"]
  /\ returned' = [returned EXCEPT ![f] = NoValue]
  /\ UNCHANGED value

Run(f) ==
  /\ call[f] = "waiting"
  /\ value = NoValue
  /\ \A g \in Futures : call[g] # "running"
  /\ call' = [call EXCEPT ![f] = "running"]
  /\ UNCHANGED <<value, returned>>

\* The initialiser's value is dropped when another one came first.
Succeed(f) ==
  /\ call[f] = "running"
  /\ IF value = NoValue THEN value' \in Values ELSE UNCHANGED value
  /\ call' = [call EXCEPT ![f] = "ok"]
  /\ returned' = [returned EXCEPT ![f] = value']

Hit(f) ==
  /\ call[f] = "waiting"
  /\ value # NoValue
  /\ call' = [call EXCEPT ![f] = "ok"]
  /\ returned' = [returned EXCEPT ![f] = value]
  /\ UNCHANGED value

Fail(f) ==
  /\ call[f] = "running"
  /\ call' = [call EXCEPT ![f] = "err"]
  /\ UNCHANGED <<value, returned>>

GiveUp(f) ==
  /\ call[f] \in {"waiting", "running"}
  /\ call' = [call EXCEPT ![f] = "gone"]
  /\ UNCHANGED <<value, returned>>

Fill ==
  /\ value = NoValue
  /\ value' \in Values
  /\ UNCHANGED <<call, returned>>

Next ==
  \/ \E f \in Futures :
       Begin(f) \/ Run(f) \/ Succeed(f) \/ Hit(f) \/ Fail(f) \/ GiveUp(f)
  \/ Fill

Spec == Init /\ [][Next]_vars
=============================================================================
