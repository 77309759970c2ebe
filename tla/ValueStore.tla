----------------------------- MODULE ValueStore -----------------------------
(***************************************************************************)
(* What a BackedEntry is to its users: one current value and one saved     *)
(* value behind it, readers that are given the current value, and one      *)
(* owner at a time who changes it.  Whether the value is in memory, and    *)
(* who is loading it, does not show: a load gives out what is there and    *)
(* changes nothing, so every reader holds the same value.  What was saved  *)
(* is lost by nothing but a write that has begun.  BackedEntry.tla is      *)
(* shown to implement this specification.                                  *)
(***************************************************************************)
CONSTANTS
  Readers,
  Values,
  Lost          (* what cannot be read back                                 *)

VARIABLES
  value,        (* what a load would give                                   *)
  saved,        (* what the next load from disk would give                  *)
  given,        (* per reader: the value it holds a reference to, or Lost   *)
  phase,        (* "shared", "handle" or "writing"; "flushing" is a write   *)
                (* that goes back to the handle                             *)
  content       (* what is being written, or Lost                           *)

vars == <<value, saved, given, phase, content>>

Init ==
  /\ value = Lost /\ saved = Lost
  /\ given = [r \in Readers |-> Lost]
  /\ phase = "shared" /\ content = Lost

\* A reader is given the current value, and gives it back.
Give(r) ==
  /\ phase = "shared" /\ value # Lost
  /\ given[r] = Lost /\ given' = [given EXCEPT ![r] = value]
  /\ UNCHANGED <<value, saved, phase, content>>

GiveBack(r) ==
  /\ phase = "shared"
  /\ given' = [given EXCEPT ![r] = Lost]
  /\ UNCHANGED <<value, saved, phase, content>>

\* The owner of the entry is alone with it.
Alone == (\A r \in Readers : given[r] = Lost) /\ UNCHANGED given

\* Forgetting the copy in memory falls back on what is saved.
Revert ==
  /\ Alone /\ phase = "shared"
  /\ value' = saved
  /\ UNCHANGED <<saved, phase, content>>

\* The value moves to another disk as it is.
Move ==
  /\ Alone /\ phase = "shared" /\ value # Lost
  /\ saved' = value
  /\ UNCHANGED <<value, phase, content>>

OpenHandle ==
  /\ Alone /\ phase = "shared" /\ value # Lost
  /\ phase' = "handle"
  /\ UNCHANGED <<value, saved, content>>

CloseHandle ==
  /\ Alone /\ phase = "handle"
  /\ phase' = "shared"
  /\ UNCHANGED <<value, saved, content>>

\* Only through a handle is the value changed in memory alone.
Modify ==
  /\ Alone /\ phase = "handle"
  /\ value' \in Values
  /\ UNCHANGED <<saved, phase, content>>

\* A write that has begun has given up what was saved; without a copy in
\* memory the current value goes too.
BeginWrite ==
  /\ Alone /\ phase = "shared"
  /\ saved' = Lost /\ value' \in {value, Lost}
  /\ content' \in Values
  /\ phase' = "writing"

\* Saving what is in memory keeps it there.
BeginSave ==
  /\ Alone /\ value # Lost
  /\ \/ phase \in {"shared", "handle"} /\ phase' = "writing"
     \/ phase = "handle" /\ phase' = "flushing"
  /\ saved' = Lost /\ content' = value
  /\ UNCHANGED value

After == IF phase = "flushing" THEN "handle" ELSE "shared"

\* What was written is the current value and the saved one.
EndWrite ==
  /\ Alone /\ phase \in {"writing", "flushing"}
  /\ value' = content /\ saved' = content
  /\ phase' = After /\ content' = Lost

WriteFails ==
  /\ Alone /\ phase \in {"writing", "flushing"}
  /\ phase' = After /\ content' = Lost
  /\ UNCHANGED <<value, saved>>

\* A new process has what is saved, and nobody holds anything.
Restart ==
  /\ value' = saved
  /\ given' = [r \in Readers |-> Lost]
  /\ phase' = "shared" /\ content' = Lost
  /\ UNCHANGED saved

Next ==
  \/ \E r \in Readers : Give(r) \/ GiveBack(r)
  \/ Revert \/ Move
  \/ OpenHandle \/ CloseHandle \/ Modify
  \/ BeginWrite \/ BeginSave \/ EndWrite \/ WriteFails
  \/ Restart

Spec == Init /\ [][Next]_vars
=============================================================================
