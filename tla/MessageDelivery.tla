--------------------------- MODULE MessageDelivery ---------------------------
(***************************************************************************)
(* What the producers and operators of integration messages may rely on,   *)
(* whoever delivers them and however often a claim is lost or taken over:  *)
(* a message is tried until it is delivered or given up, only an operator  *)
(* brings back what was given up, and nothing brings back what was         *)
(* delivered.  Claims, leases and backoff do not show.                     *)
(***************************************************************************)
EXTENDS Naturals

CONSTANTS Messages, MaxTries

VARIABLES
  state,  \* of each message
  tries,  \* outcomes recorded
  asked   \* how often an operator asked for another try

deliveryVars == <<state, tries, asked>>

DeliveryInit ==
  /\ state = [m \in Messages |-> "absent"]
  /\ tries = [m \in Messages |-> 0]
  /\ asked = [m \in Messages |-> 0]

Produce(m) ==
  /\ state[m] = "absent"
  /\ state' = [state EXCEPT ![m] = "queued"]
  /\ UNCHANGED <<tries, asked>>

Tried(m, outcome) ==
  /\ state[m] = "queued"
  /\ state' = [state EXCEPT ![m] = outcome]
  /\ tries' = [tries EXCEPT ![m] = @ + 1]
  /\ UNCHANGED asked

Deliver(m) == Tried(m, "delivered")
GiveUp(m)  == Tried(m, "given_up")

\* A try that failed is repeated while the message has tries left.
Postpone(m) == tries[m] + 1 < MaxTries /\ Tried(m, "queued")

AskAgain(m) ==
  /\ state[m] \in {"queued", "given_up"}
  /\ state' = [state EXCEPT ![m] = "queued"]
  /\ asked' = [asked EXCEPT ![m] = @ + 1]
  /\ UNCHANGED tries

DeliveryNext ==
  \E m \in Messages : Produce(m) \/ Deliver(m) \/ GiveUp(m) \/ Postpone(m) \/ AskAgain(m)

DeliverySpec == DeliveryInit /\ [][DeliveryNext]_deliveryVars
=============================================================================
