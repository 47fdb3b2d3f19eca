---------------------------- MODULE ShortcutSync ----------------------------
(***************************************************************************)
(* The shortcut rules of the browsers of a workspace and the sealed copy   *)
(* the server keeps for them: what the options page asks for, what the     *)
(* worker does about it, and the pull the alarm starts.  The parts of one  *)
(* worker that overlap are the page's synchronisation button, the page's   *)
(* form and the pull on the alarm.                                         *)
(*                                                                         *)
(* Chrome answers the calls to chrome.storage and chrome.alarms of one     *)
(* worker in their order, so two of them that follow each other with no    *)
(* other wait between are one step; only a request to the server, the      *)
(* derivation of a key and the rendering of notifications let others in.   *)
(***************************************************************************)
EXTENDS Naturals, Sequences

CONSTANTS
  Browsers,    \* the browsers of one user
  Workspaces,  \* the workspaces they may join; all begin in Home
  Home,
  Passphrases, \* what may be typed as the passphrase
  NoPass,      \* no passphrase
  MaxEdits,    \* bound on the rules ever saved
  MaxFaults    \* bound on failures, stops, restarts, and changes of workspace

ASSUME SyncAssumption == /\ Home \in Workspaces /\ NoPass \notin Passphrases
                         /\ MaxEdits \in Nat /\ MaxFaults \in Nat

Parts == {"sync", "save", "quiet"} \* of one worker: button, form and alarm

(* Rules are numbered in the order they are saved, those of a new browser  *)
(* are 0; a salt is numbered in the order they are drawn.                  *)
Keys == [pass : Passphrases \cup {NoPass}, salt : Nat]
NoKey == [pass |-> NoPass, salt |-> 0]
Values == [revision : Nat, rules : Nat, key : Keys]
NoValue == [revision |-> 0, rules |-> 0, key |-> NoKey]
States == [on : BOOLEAN, key : Keys, revision : Nat]
Off == [on |-> FALSE, key |-> NoKey, revision |-> 0]
Jobs == [at : {"idle", "resume", "read", "pull", "enable", "publish", "write",
               "settle", "arm"},
         key : Keys, revision : Nat, workspace : Workspaces, rules : Nat,
         remote : Values]
IdleJob == [at |-> "idle", key |-> NoKey, revision |-> 0, workspace |-> Home,
            rules |-> 0, remote |-> NoValue]

VARIABLES
  server,    \* server[w]: the value the server keeps for workspace w
  salts,     \* the last salt drawn
  member,    \* member[b]: its workspace, and whether it has the credential
  rules,     \* rules[b]: the stored rules
  sync,      \* sync[b]: the stored synchronisation state
  alarm,     \* alarm[b]: chrome.alarms has the alarm of the pull
  jobs,      \* jobs[b][p]: what part p of the worker is doing
  page,      \* page[b]: the rules the form shows, whether pull is offered
  faults,    \* the failures so far
  knows,     \* history: knows[n]: the rules that rules n were made from
  unwatched, \* history: unwatched[b]: b lost the alarm, or never got it
  late,      \* history: a value was applied under a later write or pull
  replaced   \* history: the server lost its value, or b went elsewhere

historyVars == <<knows, unwatched, late, replaced>>
vars == <<server, salts, member, rules, sync, alarm, jobs, page, faults,
          historyVars>>

Init ==
  /\ server = [w \in Workspaces |-> NoValue] /\ salts = 0
  /\ member = [b \in Browsers |-> [workspace |-> Home, in |-> TRUE]]
  /\ rules = [b \in Browsers |-> 0]
  /\ sync = [b \in Browsers |-> Off]
  /\ alarm = [b \in Browsers |-> FALSE]
  /\ jobs = [b \in Browsers |-> [p \in Parts |-> IdleJob]]
  /\ page = [b \in Browsers |-> [shown |-> 0, offers |-> FALSE]]
  /\ faults = 0
  /\ knows = <<>>
  /\ unwatched = [b \in Browsers |-> FALSE]
  /\ late = FALSE /\ replaced = FALSE

Known(n) == IF n = 0 THEN {0} ELSE knows[n]

-----------------------------------------------------------------------------
(* The sealed value                                                        *)

DeriveKey(pass, salt) == [pass |-> pass, salt |-> salt]
SaltOf(value) == value.key.salt
Seal(key, text, revision) == [revision |-> revision, rules |-> text, key |-> key]
Opens(key, value) == value.key = key

Enabled(key, revision) == [on |-> TRUE, key |-> key, revision |-> revision]

-----------------------------------------------------------------------------
(* The parts of a worker                                                   *)

At(b, p, step) == jobs[b][p].at = step
Goes(b, p, job) == jobs' = [jobs EXCEPT ![b][p] = job]
Ends(b, p) == Goes(b, p, IdleJob)
Idle(b) == \A p \in Parts : At(b, p, "idle")

(* The page gets the answer to its button and asks for the rules, if they  *)
(* changed, and for the status.                                            *)
Answers(b, p, changed) ==
  page' = IF p # "sync" THEN page
          ELSE [page EXCEPT ![b] = [shown |-> IF changed THEN rules'[b] ELSE @.shown,
                                    offers |-> sync'[b].on]]

(* The page is told of a failure and asks for the status.                  *)
Reports(b) == page' = [page EXCEPT ![b].offers = sync[b].on]

(* The state is stored, by a part that read it, or made it, earlier.       *)
Stores(b, state) ==
  /\ sync' = [sync EXCEPT ![b] = state]
  /\ unwatched' = [unwatched EXCEPT ![b] = @ \/ (~sync[b].on /\ ~alarm[b])]

(* A value is applied while a write started from it or a later one, or a   *)
(* pull from a later one, is under way.                                    *)
ComesLate(b, value) ==
  late' = (late \/ \E p \in Parts :
             \/ At(b, p, "write") /\ jobs[b][p].revision >= value.revision
             \/ /\ jobs[b][p].at \in {"read", "pull", "settle"}
                /\ jobs[b][p].revision > value.revision)

(* pull, up to its request.                                                *)
PullAsks(b, p, watched) ==
  IF ~sync[b].on \/ ~member[b].in
  THEN \* only the pull on the alarm gives the alarm up
    /\ Ends(b, p)
    /\ alarm' = [alarm EXCEPT ![b] = IF p = "quiet" THEN FALSE ELSE watched]
    /\ unwatched' = [unwatched EXCEPT ![b] = @ \/ p = "quiet"]
  ELSE
    /\ Goes(b, p, [IdleJob EXCEPT !.at = "read", !.key = sync[b].key,
                     !.revision = sync[b].revision, !.workspace = member[b].workspace])
    /\ alarm' = [alarm EXCEPT ![b] = watched]
    /\ UNCHANGED unwatched

(* The user asks for a pull.                                               *)
AskPull(b) ==
  /\ page[b].offers /\ At(b, "sync", "idle")
  /\ PullAsks(b, "sync", alarm[b])
  /\ IF sync[b].on /\ member[b].in THEN UNCHANGED page
     ELSE Reports(b)
  /\ UNCHANGED <<server, salts, member, rules, sync, faults, knows, late, replaced>>

(* The alarm.                                                              *)
Alarm(b) ==
  /\ alarm[b] /\ At(b, "quiet", "idle")
  /\ PullAsks(b, "quiet", TRUE)
  /\ UNCHANGED <<server, salts, member, rules, sync, page, faults, knows, late,
                 replaced>>

(* resumeShortcutSyncPull.                                                 *)
Resume(b) ==
  /\ At(b, "quiet", "resume")
  /\ IF sync[b].on THEN PullAsks(b, "quiet", TRUE)
     ELSE Ends(b, "quiet") /\ UNCHANGED <<alarm, unwatched>>
  /\ UNCHANGED <<server, salts, member, rules, sync, page, faults, knows, late,
                 replaced>>

(* The server answers the request for its value.                           *)
Read(b, p) ==
  LET job == jobs[b][p] IN
  /\ At(b, p, "read")
  /\ Goes(b, p, [job EXCEPT !.remote = server[job.workspace],
                   !.at = IF job.key.salt = 0 THEN "enable" ELSE "pull"])
  /\ UNCHANGED <<server, salts, member, rules, sync, alarm, page, faults, historyVars>>

(* pull, from the answer on.                                               *)
NearlyNewer(job) == job.remote.revision <= job.revision + 1
NothingNewer(job) == job.remote.revision <= job.revision

PullUnchanged(b, p) ==
  LET job == jobs[b][p] IN
  /\ At(b, p, "pull") /\ NothingNewer(job)
  /\ Stores(b, Enabled(job.key, job.revision))
  /\ Ends(b, p) /\ Answers(b, p, FALSE)
  /\ UNCHANGED <<server, salts, member, rules, alarm, faults, knows, late, replaced>>

PullCannotOpen(b, p) ==
  LET job == jobs[b][p] IN
  /\ At(b, p, "pull") /\ ~NothingNewer(job) /\ ~Opens(job.key, job.remote)
  /\ UNCHANGED sync
  /\ Ends(b, p) /\ Answers(b, p, FALSE)
  /\ UNCHANGED <<server, salts, member, rules, alarm, faults, historyVars>>

PullRemembers(b, p) ==
  LET job == jobs[b][p] IN
  /\ At(b, p, "pull") /\ ~NothingNewer(job) /\ Opens(job.key, job.remote)
  /\ Stores(b, Enabled(job.key, job.remote.revision))
  /\ Ends(b, p) /\ Answers(b, p, FALSE)
  /\ UNCHANGED <<server, salts, member, rules, alarm, faults, knows, late, replaced>>
PullApplies(b, p) ==
  LET job == jobs[b][p] IN
  /\ At(b, p, "pull") /\ ~NothingNewer(job) /\ Opens(job.key, job.remote)
  /\ rules' = [rules EXCEPT ![b] = job.remote.rules]
  /\ Stores(b, Enabled(job.key, job.remote.revision))
  /\ ComesLate(b, job.remote)
  /\ Ends(b, p) /\ Answers(b, p, TRUE)
  /\ UNCHANGED <<server, salts, member, alarm, faults, knows, replaced>>

-----------------------------------------------------------------------------
(* Saving rules, and turning the synchronisation on and off                *)

(* The form is saved: the rules it shows, edited.                          *)
Save(b) ==
  LET new == Len(knows) + 1
      shown == page[b].shown
  IN
  /\ At(b, "save", "idle") /\ new <= MaxEdits
  /\ rules' = [rules EXCEPT ![b] = new]
  /\ page' = [page EXCEPT ![b].shown = new]
  \* a form that shows other rules than the stored ones overrides what it may
  /\ knows' = Append(knows, IF shown = rules[b] THEN Known(shown) \cup {new} ELSE 0..new)
  /\ Goes(b, "save", [IdleJob EXCEPT !.at = "publish"])
  /\ UNCHANGED <<server, salts, member, sync, alarm, faults, unwatched, late, replaced>>

(* publishShortcutPreferences, up to its request.                          *)
Publish(b) ==
  /\ At(b, "save", "publish")
  /\ IF sync[b].on /\ member[b].in
     THEN Goes(b, "save", [IdleJob EXCEPT !.at = "write", !.key = sync[b].key,
                             !.revision = sync[b].revision, !.rules = rules[b],
                             !.workspace = member[b].workspace])
     ELSE Ends(b, "save")
  /\ IF sync[b].on /\ ~member[b].in THEN Reports(b) ELSE UNCHANGED page
  /\ UNCHANGED <<server, salts, member, rules, sync, alarm, faults, historyVars>>

(* The server takes a value that follows the revision it has.              *)
Takes(job) == server[job.workspace].revision = job.revision
Puts(job) ==
  server' = [server EXCEPT ![job.workspace] = Seal(job.key, job.rules, job.revision + 1)]

WritesAgain(b, p) ==
  LET job == jobs[b][p] IN
  /\ At(b, p, "write")
  /\ IF Takes(job)
     THEN Puts(job) /\ Goes(b, p, [job EXCEPT !.at = "settle", !.revision = @ + 1])
     ELSE UNCHANGED server /\ Goes(b, p, [job EXCEPT !.revision = server[job.workspace].revision])
  /\ UNCHANGED <<salts, member, rules, sync, alarm, page, faults, historyVars>>
Write(b, p) ==
  LET job == jobs[b][p] IN
  /\ At(b, p, "write")
  /\ IF Takes(job)
     THEN Puts(job) /\ Goes(b, p, [job EXCEPT !.at = "settle", !.revision = @ + 1])
     ELSE UNCHANGED server /\ Ends(b, p)
  /\ IF ~Takes(job) /\ p = "save" THEN Reports(b) ELSE UNCHANGED page
  /\ UNCHANGED <<salts, member, rules, sync, alarm, faults, historyVars>>

(* The state is stored with the revision the server answered.              *)
Settle(b, p) ==
  LET job == jobs[b][p] IN
  /\ At(b, p, "settle")
  /\ IF p = "sync"
     THEN /\ sync' = [sync EXCEPT ![b] = Enabled(job.key, job.revision)]
          /\ Goes(b, p, [job EXCEPT !.at = "arm"]) /\ UNCHANGED unwatched
     ELSE Stores(b, Enabled(job.key, job.revision)) /\ Ends(b, p)
  /\ UNCHANGED <<server, salts, member, rules, alarm, page, faults, knows, late,
                 replaced>>

(* The user turns the synchronisation on; the status may be an old one.    *)
AskEnable(b, pass) ==
  /\ ~page[b].offers /\ At(b, "sync", "idle") /\ member[b].in
  /\ Goes(b, "sync", [IdleJob EXCEPT !.at = "read", !.key = DeriveKey(pass, 0),
                        !.workspace = member[b].workspace])
  /\ UNCHANGED <<server, salts, member, rules, sync, alarm, page, faults, historyVars>>

(* The workspace has no rules yet: a new salt, and the rules stored here.  *)
EnableUnsalted(b) ==
  LET job == jobs[b]["sync"] IN
  /\ At(b, "sync", "enable") /\ job.remote.revision = 0
  /\ salts' = salts + 1
  /\ Goes(b, "sync", [job EXCEPT !.at = "write", !.rules = rules[b]])
  /\ UNCHANGED <<server, member, rules, sync, alarm, page, faults, historyVars>>
EnableFirst(b) ==
  LET job == jobs[b]["sync"] IN
  /\ At(b, "sync", "enable") /\ job.remote.revision = 0
  /\ salts' = salts + 1
  /\ Goes(b, "sync", [job EXCEPT !.at = "write", !.key = DeriveKey(job.key.pass, salts + 1),
                        !.rules = rules[b]])
  /\ UNCHANGED <<server, member, rules, sync, alarm, page, faults, historyVars>>

(* It has rules, which the passphrase opens with their salt, or does not.  *)
EnableAdopts(b) ==
  LET job == jobs[b]["sync"]
      key == DeriveKey(job.key.pass, SaltOf(job.remote))
  IN
  /\ At(b, "sync", "enable") /\ job.remote.revision # 0
  /\ IF Opens(key, job.remote)
     THEN /\ rules' = [rules EXCEPT ![b] = job.remote.rules]
          /\ sync' = [sync EXCEPT ![b] = Enabled(key, job.remote.revision)]
          /\ ComesLate(b, job.remote)
          /\ Goes(b, "sync", [job EXCEPT !.at = "arm", !.key = key])
     ELSE UNCHANGED <<rules, sync, late>> /\ Ends(b, "sync")
  /\ UNCHANGED <<server, salts, member, alarm, page, faults, knows, unwatched, replaced>>

(* enableShortcutSync creates the alarm and answers.                       *)
Arm(b) ==
  /\ At(b, "sync", "arm")
  /\ alarm' = [alarm EXCEPT ![b] = TRUE]
  /\ page' = [page EXCEPT ![b] =
       [shown |-> IF jobs[b]["sync"].remote.revision # 0 THEN rules[b] ELSE @.shown,
        offers |-> sync[b].on]]
  /\ Ends(b, "sync")
  /\ UNCHANGED <<server, salts, member, rules, sync, faults, historyVars>>

(* The user turns it off.                                                  *)
Disable(b) ==
  /\ page[b].offers /\ At(b, "sync", "idle")
  /\ sync' = [sync EXCEPT ![b] = Off]
  /\ alarm' = [alarm EXCEPT ![b] = FALSE]
  /\ page' = [page EXCEPT ![b].offers = FALSE]
  /\ unwatched' = [unwatched EXCEPT ![b] = FALSE]
  /\ UNCHANGED <<server, salts, member, rules, jobs, faults, knows, late, replaced>>

(* The options page is opened anew.                                        *)
Open(b) ==
  /\ At(b, "sync", "idle") /\ At(b, "save", "idle")
  /\ page' = [page EXCEPT ![b] = [shown |-> rules[b], offers |-> sync[b].on]]
  /\ UNCHANGED <<server, salts, member, rules, sync, alarm, jobs, faults, historyVars>>

-----------------------------------------------------------------------------
(* Failures                                                                *)

Fault == faults < MaxFaults /\ faults' = faults + 1

(* A request fails; a value may have been taken all the same.              *)
FailureDisarms(b, p) ==
  /\ jobs[b][p].at \in {"read", "write"} /\ Fault
  /\ Ends(b, p)
  /\ alarm' = [alarm EXCEPT ![b] = @ /\ p # "quiet"]
  /\ UNCHANGED <<server, salts, member, rules, sync, page, historyVars>>
RequestFails(b, p) ==
  LET job == jobs[b][p] IN
  /\ job.at \in {"read", "write"} /\ Fault
  /\ \/ UNCHANGED server
     \/ At(b, p, "write") /\ Takes(job) /\ Puts(job)
  /\ Ends(b, p)
  /\ IF p = "save" \/ (p = "sync" /\ At(b, p, "read") /\ job.key.salt # 0)
     THEN Reports(b) ELSE UNCHANGED page \* turning it on only says that it failed
  /\ UNCHANGED <<salts, member, rules, sync, alarm, historyVars>>

(* Chrome ends the worker.                                                 *)
Stops(b) ==
  /\ ~Idle(b) /\ Fault
  /\ jobs' = [jobs EXCEPT ![b] = [p \in Parts |-> IdleJob]]
  /\ unwatched' = [unwatched EXCEPT ![b] =
       @ \/ \E p \in Parts : jobs[b][p].at \in {"arm", "resume"}]
  /\ UNCHANGED <<server, salts, member, rules, sync, alarm, page, knows, late, replaced>>

(* The browser is started again; its alarms may be gone.                   *)
Restarts(b) ==
  /\ Fault
  /\ \E kept \in BOOLEAN : alarm' = [alarm EXCEPT ![b] = alarm[b] /\ kept]
  /\ jobs' = [jobs EXCEPT ![b] = [p \in Parts |->
       IF p = "quiet" THEN [IdleJob EXCEPT !.at = "resume"] ELSE IdleJob]]
  /\ page' = [page EXCEPT ![b] = [shown |-> rules[b], offers |-> sync[b].on]]
  /\ unwatched' = [unwatched EXCEPT ![b] = FALSE]
  /\ UNCHANGED <<server, salts, member, rules, sync, knows, late, replaced>>

(* The certified reset takes the credential and leaves rules and state.    *)
Leaves(b) ==
  /\ member[b].in /\ Fault
  /\ member' = [member EXCEPT ![b].in = FALSE]
  /\ UNCHANGED <<server, salts, rules, sync, alarm, jobs, page, historyVars>>

Joins(b, w) ==
  /\ ~member[b].in
  /\ member' = [member EXCEPT ![b] = [workspace |-> w, in |-> TRUE]]
  /\ replaced' = (replaced \/ w # member[b].workspace)
  /\ UNCHANGED <<server, salts, rules, sync, alarm, jobs, page, faults, knows,
                 unwatched, late>>

(* The server loses the value of a workspace.                              *)
Cleared(w) ==
  /\ server[w] # NoValue /\ Fault
  /\ server' = [server EXCEPT ![w] = NoValue]
  /\ replaced' = TRUE
  /\ UNCHANGED <<salts, member, rules, sync, alarm, jobs, page, knows, unwatched, late>>

-----------------------------------------------------------------------------
JobStep(b, p) ==
  \/ Read(b, p)
  \/ PullUnchanged(b, p) \/ PullCannotOpen(b, p) \/ PullApplies(b, p)
  \/ Write(b, p) \/ Settle(b, p)

Step(b) ==
  \/ Resume(b) \/ Publish(b) \/ EnableFirst(b) \/ EnableAdopts(b) \/ Arm(b)
  \/ \E p \in Parts : JobStep(b, p)

User(b) ==
  \/ Save(b) \/ Disable(b) \/ AskPull(b) \/ Open(b)
  \/ \E pass \in Passphrases : AskEnable(b, pass)

Failure(b) ==
  \/ \E p \in Parts : RequestFails(b, p)
  \/ Stops(b) \/ Restarts(b) \/ Leaves(b)

Next ==
  \/ \E b \in Browsers : \/ Step(b) \/ Alarm(b) \/ User(b) \/ Failure(b)
                         \/ \E w \in Workspaces : Joins(b, w)
  \/ \E w \in Workspaces : Cleared(w)

Spec == Init /\ [][Next]_vars

(* Requests are answered or fail, a running worker goes on, and the alarm  *)
(* fires again and again.                                                  *)
Fairness == \A b \in Browsers : WF_vars(Step(b)) /\ WF_vars(Alarm(b))
FairSpec == Spec /\ Fairness

-----------------------------------------------------------------------------
(* Properties                                                              *)

(* Every variable holds what its part of the code can hold.                *)
TypeOK ==
  /\ server \in [Workspaces -> Values] /\ salts \in Nat
  /\ member \in [Browsers -> [workspace : Workspaces, in : BOOLEAN]]
  /\ rules \in [Browsers -> 0..Len(knows)]
  /\ sync \in [Browsers -> States]
  /\ \A b \in Browsers : sync[b].on <=> sync[b].key.salt # 0
  /\ alarm \in [Browsers -> BOOLEAN]
  /\ jobs \in [Browsers -> [Parts -> Jobs]]
  /\ page \in [Browsers -> [shown : 0..Len(knows), offers : BOOLEAN]]
  /\ faults \in Nat
  /\ knows \in Seq(SUBSET Nat)
  /\ unwatched \in [Browsers -> BOOLEAN]
  /\ late \in BOOLEAN /\ replaced \in BOOLEAN

(* A browser whose state is at the server's revision has the rules of that *)
(* revision or its own edits of them, and the key that opens them: what it *)
(* takes for up to date is, whatever answers and writes overlapped.        *)
UpToDateFollows ==
  \A b \in Browsers :
    LET value == server[member[b].workspace] IN
    sync[b].on /\ value.revision = sync[b].revision /\ ~replaced /\ ~late =>
      Opens(sync[b].key, value) /\ value.rules \in Known(rules[b])

(* Rules another browser published are replaced only by rules made from    *)
(* them, sealed with the same key (push: never overwritten).               *)
NoLostUpdate ==
  [][\A w \in Workspaces :
       server[w].revision # 0 /\ server'[w] # server[w] /\ ~replaced' /\ ~late =>
         /\ server'[w].key = server[w].key
         /\ server[w].rules \in Known(server'[w].rules)]_vars

(* A browser that synchronises will look again: it has its alarm, or is    *)
(* about to, but for the few ways the code loses it.                       *)
PullsGoOn ==
  \A b \in Browsers :
    sync[b].on =>
      \/ alarm[b] \/ unwatched[b]
      \/ \E p \in Parts : jobs[b][p].at \in {"arm", "resume"}

(* What keeps a browser from the server's rules: it has no credential, no  *)
(* alarm, or a key that does not open them.                                *)
CannotFollow(b) ==
  \/ ~member[b].in \/ unwatched[b]
  \/ ~Opens(sync[b].key, server[member[b].workspace])
Behind(b) == sync[b].on /\ sync[b].revision < server[member[b].workspace].revision

(* Once the others no longer save, every browser that synchronises comes   *)
(* to their revision.                                                      *)
Converges == \A b \in Browsers : []<>(~Behind(b) \/ CannotFollow(b))
=============================================================================
