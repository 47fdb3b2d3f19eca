------------------------- MODULE MembershipContract -------------------------
(***************************************************************************)
(* What a device promises about the rosters it believes.  It takes one     *)
(* authority and one first roster on trust, and from then on only the next *)
(* link of that chain: no fork, no gap, no way back, whatever the relay    *)
(* answers, whoever asks it at the same time and whenever the worker ends. *)
(***************************************************************************)
EXTENDS WorkspaceRosters

VARIABLE floor \* floor[d]: what the device believes as member d

Init == floor = [d \in Devices |-> Absent]

(* The authority of a registration is taken on trust.                      *)
Trust(d) ==
  /\ ~floor[d].pinned
  /\ floor' = [floor EXCEPT ![d] = Pinned(floor'[d].key)]

(* A roster becomes the floor: the first that holds the device, then only  *)
(* the next, under the same authority or one that it handed over to, with  *)
(* no certificate of that authority replaced but by an exact transition.   *)
Believe(d) ==
  LET was == floor[d]
      now == floor'[d]
      old == was.roster
      new == now.roster
      kept(e) == old.certs[e] # NoCert /\ new.certs[e] # NoCert
  IN
  /\ was.pinned /\ now.pinned
  /\ floor' = [floor EXCEPT ![d] = now]
  /\ now.key = new.key /\ now.cert.key = now.key
  /\ now.active <=> new.certs[d] = now.cert
  /\ \/ old = NoRoster /\ now.active /\ now.key = was.key
     \/ /\ new.epoch = old.epoch + 1 /\ new.previous = old.id
        /\ now.key # was.key => new.replaces = was.key /\ now.active
        /\ now.key = was.key =>
             \A e \in Devices : kept(e) /\ old.certs[e] # new.certs[e]
                                 => e \in new.transitions

(* A reset forgets every workspace.                                        *)
Forget == floor' = [d \in Devices |-> Absent]

Next ==
  \/ \E d \in Devices : Trust(d) \/ Believe(d)
  \/ Forget

Spec == Init /\ [][Next]_floor
=============================================================================
