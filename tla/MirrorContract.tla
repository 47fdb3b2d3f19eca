--------------------------- MODULE MirrorContract ---------------------------
(***************************************************************************)
(* What the notification mirror of one Android source promises, whatever   *)
(* the order, repetition or loss of its messages: each notification of the *)
(* mirror is in a state the phone once had, and only moves to later ones.  *)
(***************************************************************************)
EXTENDS Naturals

CONSTANTS
  Note,     \* notifications of one source
  MaxRev    \* bound on the revisions the source allocates

VARIABLES
  phoneRev, \* greatest revision the source has allocated
  active,   \* active[r][n]: revision n is shown with at revision r, 0 if it is not
  rev,      \* rev[n]: revision the mirror holds for n, 0 if none
  phase     \* phase[n]: "unknown", "visible" or "removed"

contractVars == <<phoneRev, active, rev, phase>>

Init ==
  /\ phoneRev = 0
  /\ active = [r \in 0..MaxRev |-> [n \in Note |-> 0]]
  /\ rev = [n \in Note |-> 0]
  /\ phase = [n \in Note |-> "unknown"]

(* The source posts, updates or removes n: every event has a revision of   *)
(* its own.                                                                *)
PhoneEvent(n, shown) ==
  LET r == phoneRev + 1 IN
  /\ phoneRev < MaxRev
  /\ shown \/ active[phoneRev][n] # 0
  /\ phoneRev' = r
  /\ active' = [active EXCEPT ![r] =
                  [m \in Note |-> IF m # n THEN active[phoneRev][m]
                                  ELSE IF shown THEN r ELSE 0]]
  /\ UNCHANGED <<rev, phase>>

(* The mirror catches up with the source for the notifications in S.       *)
Advance(S) ==
  /\ S # {}
  /\ rev' \in [Note -> 0..phoneRev]
  /\ phase' \in [Note -> {"unknown", "visible", "removed"}]
  /\ \A n \in Note \ S : rev'[n] = rev[n] /\ phase'[n] = phase[n]
  /\ \A n \in S :
       /\ rev'[n] > rev[n]
       /\ \/ phase'[n] = "visible" /\ active[rev'[n]][n] = rev'[n]
          \/ phase'[n] = "removed" /\ active[rev'[n]][n] = 0
  /\ UNCHANGED <<phoneRev, active>>

Next ==
  \/ \E n \in Note, shown \in BOOLEAN : PhoneEvent(n, shown)
  \/ \E S \in SUBSET Note : Advance(S)

Spec == Init /\ [][Next]_contractVars
=============================================================================
