------------------------- MODULE InstallTransaction -------------------------
(***************************************************************************)
(* What one run of the privileged service promises, whatever happens       *)
(* inside it: nothing is done before the request is accepted, the steps    *)
(* only go forward, resources are only given back once the run turned to   *)
(* releasing, and a run that ends completed or cancelled holds nothing.    *)
(***************************************************************************)
EXTENDS Integers

CONSTANTS
  Steps,      \* number of steps of the installation
  Resources   \* what the steps may hold: mounts

VARIABLES phase, progress, held, result

transactionVars == <<phase, progress, held, result>>

TransactionInit ==
  /\ phase = "preparing"
  /\ progress = 0
  /\ held = {}
  /\ result = "none"

Refuse ==
  /\ phase = "preparing"
  /\ phase' = "ended" /\ result' = "failed"
  /\ UNCHANGED <<progress, held>>

Accept ==
  /\ phase = "preparing"
  /\ phase' = "working"
  /\ UNCHANGED <<progress, held, result>>

Advance ==
  /\ phase = "working"
  /\ progress < Steps /\ progress' = progress + 1
  /\ \/ held' = held
     \/ \E r \in Resources : held' = held \cup {r}
  /\ UNCHANGED <<phase, result>>

(* The work ends, successfully or not; a failing step may leave behind the *)
(* resource it was holding.                                                *)
TurnBack ==
  /\ phase = "working"
  /\ phase' = "releasing"
  /\ \/ held' = held
     \/ progress < Steps /\ \E r \in Resources : held' = held \cup {r}
  /\ UNCHANGED <<progress, result>>

Release ==
  /\ phase = "releasing"
  /\ \E r \in held : held' = held \ {r}
  /\ UNCHANGED <<phase, progress, result>>

End ==
  /\ phase = "releasing"
  /\ phase' = "ended"
  /\ \/ result' = "completed" /\ progress = Steps /\ held = {}
     \/ result' = "cancelled" /\ progress < Steps /\ held = {}
     \/ result' = "failed"
  /\ UNCHANGED <<progress, held>>

(* The process may disappear at any moment; what it held stays.            *)
Crash ==
  /\ phase # "ended"
  /\ phase' = "ended" /\ result' = "crashed"
  /\ \/ held' = held
     \/ phase = "working" /\ \E r \in Resources : held' = held \cup {r}
  /\ UNCHANGED progress

TransactionNext ==
  Refuse \/ Accept \/ Advance \/ TurnBack \/ Release \/ End \/ Crash

TransactionSpec == TransactionInit /\ [][TransactionNext]_transactionVars
=============================================================================
