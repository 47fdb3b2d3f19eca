-------------------------- MODULE DeliveryContract --------------------------
(***************************************************************************)
(* What durable delivery promises, whatever goes on underneath: the relay  *)
(* allocates ids in order, the fate of an id once settled stays settled,   *)
(* the recipient commits only a prefix of settled ids, and the relay may   *)
(* forget a prefix only when it is committed (relay-delivery-v1.md).       *)
(***************************************************************************)
EXTENDS Integers

VARIABLES
  allocated,  \* ids the relay has allocated
  settled,    \* ids whose fate is settled at the recipient
  committed,  \* the recipient's durable cursor
  forgotten   \* the prefix the relay takes as acknowledged

vars == <<allocated, settled, committed, forgotten>>

Init == allocated = 0 /\ settled = {} /\ committed = 0 /\ forgotten = 0

Allocate ==
  /\ allocated' = allocated + 1
  /\ UNCHANGED <<settled, committed, forgotten>>

Settle ==
  /\ settled \subseteq settled' /\ settled' \subseteq 1..allocated
  /\ UNCHANGED <<allocated, committed, forgotten>>

\* A reset may settle what it passes over in the step that commits it.
Commit ==
  /\ settled \subseteq settled' /\ settled' \subseteq 1..allocated
  /\ committed' \in committed..allocated /\ 1..committed' \subseteq settled'
  /\ UNCHANGED <<allocated, forgotten>>

Forget ==
  /\ forgotten' \in forgotten..committed
  /\ UNCHANGED <<allocated, settled, committed>>

Next == Allocate \/ Settle \/ Commit \/ Forget

Spec == Init /\ [][Next]_vars
=============================================================================
