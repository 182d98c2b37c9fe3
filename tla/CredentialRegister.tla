------------------------- MODULE CredentialRegister -------------------------
(* What the credential files of a user promise: each is a register that a   *)
(* request sets or clears in one step, or not at all if it dies.            *)
(* CredentialStore implements it with files.                                *)
CONSTANTS
  Requests,     \* requests that change credentials
  Files,        \* the credentials
  Values,       \* what may be stored
  Refreshed,    \* the one the CLI rewrites, and what it leaves there
  Fresh,
  RemoveFails,  \* may a removal fail, unnoticed?
  None

VARIABLES
  reg,     \* the credentials
  value,   \* what a request stores: a value, or None to clear
  todo,    \* the credentials it has still to set
  status   \* idle, called, over

vars == <<reg, value, todo, status>>

Stored == Values \cup {None}

Init ==
  /\ reg \in [Files -> Stored \cup {Fresh}]
  /\ value = [r \in Requests |-> None]
  /\ todo = [r \in Requests |-> {}]
  /\ status = [r \in Requests |-> "idle"]

Call(r) ==
  /\ status[r] = "idle" /\ status' = [status EXCEPT ![r] = "called"]
  /\ \E v \in Stored : value' = [value EXCEPT ![r] = v]
  /\ \E fs \in SUBSET Files : todo' = [todo EXCEPT ![r] = fs]
  /\ UNCHANGED reg

(* The one step in which a request changes a credential.                    *)
Apply(r) ==
  /\ status[r] = "called"
  /\ \E f \in todo[r] :
       /\ todo' = [todo EXCEPT ![r] = @ \ {f}]
       /\ \/ reg' = [reg EXCEPT ![f] = value[r]]
          \/ RemoveFails /\ value[r] = None /\ UNCHANGED reg
  /\ UNCHANGED <<value, status>>

(* It returns when it is through; it may die or fail earlier.               *)
Return(r) ==
  /\ status[r] = "called" /\ todo[r] = {}
  /\ status' = [status EXCEPT ![r] = "over"] /\ UNCHANGED <<reg, value, todo>>

Die(r) ==
  /\ status[r] = "called" /\ status' = [status EXCEPT ![r] = "over"]
  /\ todo' = [todo EXCEPT ![r] = {}] /\ UNCHANGED <<reg, value>>

Refresh ==
  /\ reg' = [reg EXCEPT ![Refreshed] = Fresh] /\ UNCHANGED <<value, todo, status>>

Next == Refresh \/ \E r \in Requests : Call(r) \/ Apply(r) \/ Return(r) \/ Die(r)

Spec == Init /\ [][Next]_vars
=============================================================================
