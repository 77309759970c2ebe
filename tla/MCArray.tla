------------------------------ MODULE MCArray ------------------------------
(***************************************************************************)
(* A BackedArray, the building of one, or a SecretBackedArray, whichever   *)
(* `focus` names; the others rest.                                         *)
(***************************************************************************)
EXTENDS BackedArray

CONSTANTS SizeGuess, MaxSecrets, MaxWidth, MaxContainers

\* A capacity of nothing cannot be doubled; the code's is 16 (entry/disks/encrypted.rs:75).
ASSUME SizesAssumption ==
  /\ SizeGuess \in Nat \ {0} /\ MaxSecrets \in Nat /\ MaxWidth \in Nat
  /\ MaxContainers \in Nat

VARIABLES
  focus, widths, panicked, secret_starts, secret_ends,
  lens, concurrent, hint, pulled, queue, collected, starts, ends, outcome

Secret == INSTANCE SecretBackedArray
            WITH MaxEntries <- MaxSecrets, starts <- secret_starts, ends <- secret_ends
Build == INSTANCE BuildArray WITH MaxItems <- MaxWidth

secret == <<widths, panicked, secret_starts, secret_ends>>
build == <<lens, concurrent, hint, pulled, queue, collected, starts, ends, outcome>>

\* What rests has one initial state.
MCInit ==
  /\ focus \in {"array", "build", "secret"}
  /\ Init /\ Secret!Init
  /\ focus # "build" =>
       lens = <<>> /\ concurrent = FALSE /\ hint = [lower |-> 0, upper |-> 0, known |-> TRUE]
  /\ Build!Init

MCNext ==
  \/ focus = "array" /\ Next /\ UNCHANGED <<focus, build, secret>>
  \/ focus = "build" /\ Build!Next /\ UNCHANGED <<focus, vars, secret>>
  \/ focus = "secret" /\ Secret!Next /\ UNCHANGED <<focus, vars, build>>

MCVars == <<focus, vars, build, secret>>

\* The fairness of BuildArray, on the steps it has here.
MCSpec ==
  /\ MCInit /\ [][MCNext]_MCVars
  /\ WF_MCVars(focus = "build" /\ Build!Progress /\ UNCHANGED <<focus, vars, secret>>)

\* The keys of a SecretBackedArray tile its entries.
SecretKeysTile == Secret!KeysTile
\* An array that is built is in the order of the iterator.
BuildsInOrder == Build!BuildsInOrder
\* The building of an array ends.
BuildEnds == focus = "build" => Build!BuildEnds
=============================================================================
