-------------------------- MODULE WorkspaceRosters --------------------------
(***************************************************************************)
(* The rosters of a workspace and the rules by which a device accepts one  *)
(* after another: the verification of IndexedDbWorkspaceMembershipStore    *)
(* without its transactions.                                               *)
(*                                                                         *)
(* A digest is the number of the roster it is taken of, a certificate ID   *)
(* the number of the roster that issued the certificate, and a signature   *)
(* the authority key that made it: a key is numbered by the roster that    *)
(* activated it, which also numbers the transition to it.                  *)
(***************************************************************************)
EXTENDS Naturals

CONSTANT MaxDevices \* bound on the devices that ever register

ASSUME DevicesAssumption == MaxDevices \in Nat

Devices == 1..MaxDevices

NoCert == [id |-> 0, key |-> 0]
Certs == [id : Nat, key : Nat]

(* transitionEpoch is the authority's; replaces is the key whose place the *)
(* roster's key takes with it, 0 if none; transitions are the devices      *)
(* whose certificate the roster replaces exactly.                          *)
Rosters == [id : Nat, epoch : Nat, previous : Nat, key : Nat,
            transitionEpoch : Nat, replaces : Nat,
            certs : [Devices -> Certs], transitions : SUBSET Devices]
NoRoster == [id |-> 0, epoch |-> 0, previous |-> 0, key |-> 0,
             transitionEpoch |-> 0, replaces |-> 0,
             certs |-> [d \in Devices |-> NoCert], transitions |-> {}]

(* What the membership store holds for one device; NoRoster is epoch '0'.  *)
Memberships == [pinned : BOOLEAN, key : Nat, transitionEpoch : Nat,
                roster : Rosters, cert : Certs, active : BOOLEAN]
Absent == [pinned |-> FALSE, key |-> 0, transitionEpoch |-> 0,
           roster |-> NoRoster, cert |-> NoCert, active |-> FALSE]
Pinned(key) == [Absent EXCEPT !.pinned = TRUE, !.key = key, !.transitionEpoch = 1]

(* The certificates a roster of one authority replaces are those it names  *)
(* an exact transition for.                                                *)
VerifyCertificateTransitions(previous, current) ==
  \A d \in Devices :
    LET kept == previous.certs[d] # NoCert /\ current.certs[d] # NoCert IN
    /\ kept /\ previous.certs[d] # current.certs[d] => d \in current.transitions
    /\ d \in current.transitions => kept /\ previous.certs[d] # current.certs[d]

(* The certificate proposed with roster r: its own for the device, else    *)
(* the one the device has, else the one of the answer.                     *)
Proposed(m, d, r, answered) ==
  IF r.certs[d] # NoCert THEN r.certs[d]
  ELSE IF m.cert # NoCert THEN m.cert ELSE answered

Bootstraps(m, d, r) == m.roster = NoRoster /\ r.certs[d] # NoCert
FollowsUnlinked(m, r) ==
  /\ m.roster # NoRoster
  /\ r.epoch = m.roster.epoch + 1
  /\ VerifyCertificateTransitions(m.roster, r)
Follows(m, r) ==
  /\ m.roster # NoRoster
  /\ r.epoch = m.roster.epoch + 1 /\ r.previous = m.roster.id
  /\ VerifyCertificateTransitions(m.roster, r)

(* reconcileApproved: roster r with certificate c is new to the device.    *)
Approves(m, d, c, r) ==
  /\ m.pinned /\ c.key = m.key /\ r.key = m.key
  /\ r.certs[d] \in {NoCert, c}
  /\ Bootstraps(m, d, r) \/ Follows(m, r)
AlreadyApplied(m, d, c, r) ==
  /\ m.pinned /\ c.key = m.key /\ r.key = m.key
  /\ r.certs[d] \in {NoCert, c}
  /\ r = m.roster
WithRosterActive(m, d, c, r) == [m EXCEPT !.roster = r, !.cert = c, !.active = TRUE]
WithRoster(m, d, c, r) ==
  [m EXCEPT !.roster = r, !.cert = c, !.active = r.certs[d] # NoCert]

(* The transition that came with roster r is the next one for the device.  *)
IsNextTransition(m, r) ==
  r.replaces # 0 /\ r.transitionEpoch = m.transitionEpoch + 1

(* reconcileAuthorityTransition.                                           *)
HandsOver(m, d, r) ==
  /\ m.roster # NoRoster
  /\ r.replaces = m.key /\ r.key # r.replaces
  /\ r.epoch = m.roster.epoch + 1 /\ r.previous = m.roster.id
  /\ r.certs[d] # NoCert
WithAuthority(m, d, r) ==
  [m EXCEPT !.key = r.key, !.transitionEpoch = r.transitionEpoch,
            !.roster = r, !.cert = r.certs[d], !.active = TRUE]

(* load: the certificate and the roster verify under the stored authority, *)
(* and the device is active exactly if the roster has that certificate.    *)
Verifies(m, d) ==
  m.roster # NoRoster =>
    /\ m.cert.key = m.key /\ m.roster.key = m.key
    /\ m.active <=> m.roster.certs[d] = m.cert
=============================================================================
