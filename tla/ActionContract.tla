--------------------------- MODULE ActionContract ---------------------------
(***************************************************************************)
(* What an action invoked from Chrome goes through, whatever is lost or    *)
(* repeated underneath: it is registered before it can run, Chrome holds   *)
(* its result only after it ran, and Android forgets the result only after *)
(* Chrome holds it (encrypted-payload-v1.md, action_result_ack).           *)
(***************************************************************************)
CONSTANT Key

VARIABLES registered, executed, known, forgotten

vars == <<registered, executed, known, forgotten>>

Init == registered = {} /\ executed = {} /\ known = {} /\ forgotten = {}

Register(k) ==
  registered' = registered \cup {k} /\ UNCHANGED <<executed, known, forgotten>>

Execute(k) ==
  /\ k \in registered \ executed
  /\ executed' = executed \cup {k} /\ UNCHANGED <<registered, known, forgotten>>

Learn(k) ==
  /\ k \in executed \ known
  /\ known' = known \cup {k} /\ UNCHANGED <<registered, executed, forgotten>>

Forget(k) ==
  /\ k \in known \ forgotten
  /\ forgotten' = forgotten \cup {k} /\ UNCHANGED <<registered, executed, known>>

Next == \E k \in Key : Register(k) \/ Execute(k) \/ Learn(k) \/ Forget(k)

Spec == Init /\ [][Next]_vars
=============================================================================
