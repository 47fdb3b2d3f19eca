--------------------------- MODULE MCShortcutSync ---------------------------
(***************************************************************************)
(* Instances of ShortcutSync for TLC.  A behaviour stays within one of the *)
(* scenarios, which bound what grows together; one run explores the union. *)
(***************************************************************************)
EXTENDS ShortcutSync, FiniteSets

VARIABLE scenario

(* shared: both browsers have turned the synchronisation on already; else  *)
(*   they begin with Init                                                  *)
(* browsers: those that do anything                                        *)
(* overlaps: those of which more than one part works at a time             *)
(* whole: those whose job is done before another browser goes on           *)
(* edits, faults: bounds; wrong: the wrong passphrase may be typed         *)
(* late: explored further once a value was applied under a later write     *)
Scenarios ==
  { \* one browser whose parts overlap, without and with failures
    [shared |-> FALSE, browsers |-> {1}, overlaps |-> {1}, whole |-> {}, edits |-> 2,
     faults |-> 0, wrong |-> FALSE, late |-> TRUE],
    [shared |-> FALSE, browsers |-> {1}, overlaps |-> {1}, whole |-> {}, edits |-> 1,
     faults |-> 1, wrong |-> FALSE, late |-> TRUE],
    [shared |-> TRUE, browsers |-> {1}, overlaps |-> {}, whole |-> {}, edits |-> 1,
     faults |-> 2, wrong |-> FALSE, late |-> TRUE],
    \* and one beside it
    [shared |-> TRUE, browsers |-> {1, 2}, overlaps |-> {1}, whole |-> {2}, edits |-> 1,
     faults |-> 0, wrong |-> FALSE, late |-> FALSE],
    \* two browsers that turn it on, and two that have
    [shared |-> FALSE, browsers |-> {1, 2}, overlaps |-> {}, whole |-> {}, edits |-> 1,
     faults |-> 0, wrong |-> FALSE, late |-> FALSE],
    [shared |-> TRUE, browsers |-> {1, 2}, overlaps |-> {}, whole |-> {}, edits |-> 2,
     faults |-> 0, wrong |-> FALSE, late |-> FALSE],
    \* two browsers and a wrong passphrase, and two and a failure
    [shared |-> FALSE, browsers |-> {1, 2}, overlaps |-> {}, whole |-> {1, 2}, edits |-> 1,
     faults |-> 0, wrong |-> TRUE, late |-> FALSE],
    [shared |-> TRUE, browsers |-> {1, 2}, overlaps |-> {}, whole |-> {1, 2}, edits |-> 1,
     faults |-> 1, wrong |-> FALSE, late |-> FALSE] }

TypedWrong(b) == jobs[b]["sync"].key.pass = "wrong"
Working(b) == {p \in Parts : ~At(b, p, "idle")}
InScenario ==
  /\ Len(knows) <= scenario.edits /\ faults <= scenario.faults
  /\ late => scenario.late
  /\ \A b \in Browsers :
       /\ b \in scenario.overlaps \/ Cardinality(Working(b)) <= 1
       /\ TypedWrong(b) => scenario.wrong
       /\ b \in scenario.browsers \/ Idle(b)

Turns ==
  \A b \in scenario.whole : ~Idle(b) =>
    \A c \in Browsers \ {b} : <<jobs[c], page[c], rules[c]>>' = <<jobs[c], page[c], rules[c]>>

Shared ==
  LET key == DeriveKey("right", 1) IN
  /\ server = [w \in Workspaces |-> IF w = Home THEN Seal(key, 0, 1) ELSE NoValue]
  /\ salts = 1 /\ rules = [b \in Browsers |-> 0] /\ faults = 0 /\ knows = <<>>
  /\ member = [b \in Browsers |-> [workspace |-> Home, in |-> TRUE]]
  /\ sync = [b \in Browsers |-> Enabled(key, 1)]
  /\ alarm = [b \in Browsers |-> TRUE]
  /\ jobs = [b \in Browsers |-> [p \in Parts |-> IdleJob]]
  /\ page = [b \in Browsers |-> [shown |-> 0, offers |-> TRUE]]
  /\ unwatched = [b \in Browsers |-> FALSE] /\ late = FALSE /\ replaced = FALSE

MCInit == scenario \in Scenarios /\ IF scenario.shared THEN Shared ELSE Init
MCNext == Next /\ UNCHANGED scenario /\ InScenario' /\ Turns
MCSpec == MCInit /\ [][MCNext]_<<vars, scenario>>
MCFairSpec == MCSpec /\ Fairness
=============================================================================
