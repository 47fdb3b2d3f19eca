------------------------ MODULE WorkspaceMembership -------------------------
(***************************************************************************)
(* Membership of this device in a workspace: the page that registers it,   *)
(* the worker that proves, follows and promotes the registration and keeps *)
(* the rosters up to date, and the reset that forgets a workspace that has *)
(* removed it; with the relay and the authority behind it.                 *)
(*                                                                         *)
(* The registrations of the device are numbered, and so are its identity   *)
(* keys.  A job is one run of startConnection up to its socket, or of      *)
(* refreshMembershipWhileOnline; each await of theirs is a step.           *)
(***************************************************************************)
EXTENDS WorkspaceRosters, Sequences, FiniteSets

CONSTANTS
  MaxJobs,    \* bound on the jobs of the worker at once
  MaxRosters, \* bound on the rosters ever signed
  PageSize,   \* bound on the rosters of one answer
  MaxFaults   \* bound on failures, stops, restores and rotations

ASSUME BoundsAssumption == /\ MaxJobs \in Nat /\ MaxRosters \in Nat
                           /\ PageSize \in Nat \ {0} /\ MaxFaults \in Nat

Jobs == 1..MaxJobs
Runners == {"startup", "button"} \* who may run the reset at the same time

VARIABLES
  chain,       \* the rosters of the workspace the relay has
  signed,      \* the last roster signed by an authority
  enrolments,  \* enrolments[d]: the relay's state of registration d
  registered,  \* registered[d]: the identity key registration d was made with
  identity,    \* the stored identity key, 0 if none
  identities,  \* the last identity key made
  journal,     \* the stored registration that is not yet promoted
  credential,  \* the registration the stored credential is for, 0 if none
  memberships, \* memberships[d]: the record of d in the membership store
  intent,      \* the stored intent to reset
  alarms,      \* chrome.alarms: reconnection, and refresh of the membership
  linked,      \* the worker has an authenticated connection
  jobs,        \* jobs[j]: where job j is and what it has read
  resets,      \* resets[r]: where each run of the reset is
  page,        \* where the registration in the page is
  faults,      \* the failures and rotations so far
  halted,      \* history: a failure nothing retries, or a stop of the worker
  restored,    \* history: the relay went back to an earlier state
  raced        \* history: a registration, a promotion or a connection went
               \* on while a reset ran

relayVars == <<chain, signed, enrolments, registered>>
identityVars == <<identity, identities>>
historyVars == <<halted, restored, raced>>
connectionVars == <<alarms, linked>>
vars == <<relayVars, identityVars, journal, credential, memberships, intent,
          connectionVars, jobs, resets, page, faults, historyVars>>

Phases == {"none", "registered", "proof-attempted", "pending-approval"}
States == {"none", "pending_proof", "pending_approval", "approved"}
FaultKinds == {"network", "page", "stop", "restore", "rotation", "replacement"}
Stores == {"journal", "credential", "identity", "membership"}
Rank(state) == CASE state = "none" -> 0 [] state = "pending_proof" -> 1
                 [] state = "pending_approval" -> 2 [] OTHER -> 3

Entries == [dev : 0..MaxDevices, identity : Nat, authority : Nat,
            proof : BOOLEAN, phase : Phases]
NoEntry == [dev |-> 0, identity |-> 0, authority |-> 0, proof |-> FALSE,
            phase |-> "none"]
NoAnswer == [state |-> "none", active |-> FALSE, latest |-> 0, cert |-> NoCert,
             key |-> 0]
IdleJob == [at |-> "idle", live |-> FALSE, goal |-> "recover", dev |-> 0,
            pending |-> NoEntry, base |-> 0, answer |-> NoAnswer,
            rosters |-> <<>>, seen |-> Absent, proposed |-> Absent]
IdleReset == [at |-> "idle", left |-> {}]
IdlePage == [at |-> "idle", entry |-> NoEntry]

FirstRoster == [NoRoster EXCEPT !.id = 1, !.epoch = 1, !.key = 1,
                                !.transitionEpoch = 1]

Init ==
  /\ chain = <<FirstRoster>> /\ signed = 1
  /\ enrolments = [d \in Devices |-> "none"]
  /\ registered = [d \in Devices |-> 0]
  /\ identity = 0 /\ identities = 0
  /\ journal = NoEntry /\ credential = 0
  /\ memberships = [d \in Devices |-> Absent]
  /\ intent = FALSE
  /\ alarms = [reconnect |-> FALSE, refresh |-> FALSE]
  /\ linked = FALSE
  /\ jobs = [j \in Jobs |-> IdleJob]
  /\ resets = [r \in Runners |-> IdleReset]
  /\ page = IdlePage
  /\ faults = <<>>
  /\ halted = FALSE /\ restored = FALSE /\ raced = FALSE

Fault(kind) == Len(faults) < MaxFaults /\ faults' = Append(faults, kind)

-----------------------------------------------------------------------------
(* The relay and the authority                                             *)

Top == chain[Len(chain)]
Members == {d \in Devices : Top.certs[d] # NoCert}

(* The authority signs the roster after the relay's last one.              *)
Publish(roster) ==
  /\ signed < MaxRosters
  /\ signed' = signed + 1
  /\ chain' = Append(chain, [roster EXCEPT !.id = signed + 1, !.epoch = roster.epoch + 1,
                                           !.previous = roster.id])
NewCert == [id |-> signed + 1, key |-> Top.key]
Successor == [Top EXCEPT !.replaces = 0, !.transitions = {}]

Approve(d) ==
  /\ enrolments[d] = "pending_approval"
  /\ enrolments' = [enrolments EXCEPT ![d] = "approved"]
  /\ Publish([Successor EXCEPT !.certs = [Top.certs EXCEPT ![d] = NewCert]])

Remove(d) ==
  /\ d \in Members
  /\ Publish([Successor EXCEPT !.certs = [Top.certs EXCEPT ![d] = NoCert]])
  /\ UNCHANGED enrolments

(* Another certificate for d, with the transition to it or without.        *)
Replace(d, transitions) ==
  /\ d \in Members /\ transitions \in {{}, {d}} /\ Fault("replacement")
  /\ Publish([Successor EXCEPT !.certs = [Top.certs EXCEPT ![d] = NewCert],
                               !.transitions = transitions])
  /\ UNCHANGED enrolments

(* The authority hands over to a new key, which issues every certificate   *)
(* anew.                                                                   *)
RotateAuthority ==
  LET key == signed + 1 IN
  /\ Fault("rotation")
  /\ Publish([Successor EXCEPT
       !.key = key, !.transitionEpoch = Top.transitionEpoch + 1, !.replaces = Top.key,
       !.certs = [d \in Devices |-> IF d \in Members THEN [id |-> key, key |-> key]
                                    ELSE NoCert]])
  /\ UNCHANGED enrolments

Authority ==
  /\ \/ \E d \in Devices : Approve(d) /\ UNCHANGED faults
     \/ \E d \in Devices : Remove(d) /\ UNCHANGED faults
     \/ \E d \in Devices : \E transitions \in {{}, {d}} : Replace(d, transitions)
     \/ RotateAuthority
  /\ UNCHANGED <<registered, identityVars, journal, credential, memberships,
                 intent, connectionVars, jobs, resets, page, historyVars>>

(* The relay's database goes back to a backup.                             *)
Restore ==
  /\ Fault("restore")
  /\ \E n \in 1..Len(chain) : chain' = SubSeq(chain, 1, n)
  /\ enrolments' \in [Devices -> States]
  /\ \A d \in Devices :
       /\ Rank(enrolments'[d]) <= Rank(enrolments[d])
       /\ enrolments'[d] = "approved" =>
            \E i \in 1..Len(chain') : chain'[i].certs[d] # NoCert
       /\ (\E i \in 1..Len(chain') : chain'[i].certs[d] # NoCert) =>
            enrolments'[d] = enrolments[d]
  /\ <<chain', enrolments'>> # <<chain, enrolments>>
  /\ restored' = TRUE
  /\ UNCHANGED <<signed, registered, identityVars, journal, credential,
                 memberships, intent, connectionVars, jobs, resets, page,
                 halted, raced>>

(* The certificate the relay last had for d, if it had one.                *)
LastCerts(d) ==
  LET holding == {i \in 1..Len(chain) : chain[i].certs[d] # NoCert} IN
  {chain[i].certs[d] : i \in {i \in holding : \A k \in holding : k <= i}}

(* Where the rosters of an answer may begin: a device without one is given *)
(* any that holds it.                                                      *)
Starts(d, after) ==
  IF after = 0 THEN {i \in 1..Len(chain) : chain[i].certs[d] # NoCert}
  ELSE {after + 1}

-----------------------------------------------------------------------------
(* The journal and the other stores                                        *)

(* mutate: the entry must still be the one the caller has.                 *)
SameEntry(entry) ==
  /\ journal # NoEntry
  /\ journal.dev = entry.dev /\ journal.identity = entry.identity

BindProof(entry) == journal' = [journal EXCEPT !.proof = TRUE]
MarkUnguarded(entry) == journal' = [journal EXCEPT !.phase = "registered"]
MarkProofAttempted(entry) ==
  journal' = [journal EXCEPT !.phase = IF @ = "registered" THEN "proof-attempted" ELSE @]
MarkPendingApproval(entry) == journal' = [journal EXCEPT !.phase = "pending-approval"]

(* pinAuthority.                                                           *)
CanPin(d, key) == memberships[d].pinned => memberships[d].key = key
PinAuthority(d, key) ==
  memberships' = IF memberships[d].pinned THEN memberships
                 ELSE [memberships EXCEPT ![d] = Pinned(key)]

-----------------------------------------------------------------------------
(* The registration in the page                                            *)

PageAt(step) == page.at = step
PageGoes(step) == page' = [page EXCEPT !.at = step]

(* A reset was asked for and is not complete.                              *)
Resetting == intent \/ \E r \in Runners : resets[r].at # "idle"

(* submitRegistration up to the request.                                   *)
Submit ==
  /\ PageAt("idle")
  /\ credential = 0 /\ journal = NoEntry
  /\ \E d \in Devices : registered[d] = 0
  /\ IF identity = 0 THEN identity' = identities + 1 /\ identities' = identities + 1
     ELSE UNCHANGED identityVars
  /\ page' = [at |-> "register", entry |-> [NoEntry EXCEPT !.identity = identity']]
  /\ raced' = (raced \/ Resetting)
  /\ UNCHANGED <<relayVars, journal, credential, memberships, intent,
                 connectionVars, jobs, resets, faults, halted, restored>>

(* The relay registers the device; the answer may be lost.                 *)
Register(answered) ==
  /\ PageAt("register")
  /\ IF answered THEN UNCHANGED faults ELSE Fault("network")
  /\ \E d \in Devices :
       /\ registered[d] = 0 /\ \A e \in Devices : e < d => registered[e] # 0
       /\ enrolments' = [enrolments EXCEPT ![d] = "pending_proof"]
       /\ registered' = [registered EXCEPT ![d] = page.entry.identity]
       /\ page' = IF answered
                  THEN [at |-> "prepare",
                        entry |-> [page.entry EXCEPT !.dev = d, !.authority = Top.key,
                                                     !.phase = "registered"]]
                  ELSE IdlePage
  /\ UNCHANGED <<chain, signed, identityVars, journal, credential, memberships,
                 intent, connectionVars, jobs, resets, historyVars>>

PrepareAttempted ==
  /\ PageAt("prepare")
  /\ IF journal = NoEntry
     THEN journal' = [page.entry EXCEPT !.phase = "proof-attempted"] /\ PageGoes("pin")
     ELSE UNCHANGED journal /\ page' = IdlePage
  /\ UNCHANGED <<relayVars, identityVars, credential, memberships, intent,
                 connectionVars, jobs, resets, faults, historyVars>>
PrepareRegistration ==
  /\ PageAt("prepare")
  /\ IF journal = NoEntry
     THEN journal' = page.entry /\ PageGoes("pin")
     ELSE UNCHANGED journal /\ page' = IdlePage
  /\ UNCHANGED <<relayVars, identityVars, credential, memberships, intent,
                 connectionVars, jobs, resets, faults, historyVars>>

PagePins ==
  /\ PageAt("pin")
  /\ IF CanPin(page.entry.dev, page.entry.authority)
     THEN PinAuthority(page.entry.dev, page.entry.authority) /\ PageGoes("bind")
     ELSE UNCHANGED memberships /\ page' = IdlePage
  /\ UNCHANGED <<relayVars, identityVars, journal, credential, intent,
                 connectionVars, jobs, resets, faults, historyVars>>

(* The steps of the page that change the journal: the proof is stored, and *)
(* stored as attempted, before it is sent.                                 *)
PageWrites ==
  /\ page.at \in {"bind", "attempt", "mark"}
  /\ IF ~SameEntry(page.entry) \/ (page.at # "bind" /\ ~journal.proof)
     THEN UNCHANGED <<journal, alarms>> /\ page' = IdlePage
     ELSE CASE PageAt("bind") ->
                 BindProof(page.entry) /\ PageGoes("attempt") /\ UNCHANGED alarms
            [] PageAt("attempt") ->
                 MarkProofAttempted(page.entry) /\ PageGoes("submit")
                 /\ UNCHANGED alarms
            [] PageAt("mark") ->
                 \* then it asks the worker to connect
                 /\ MarkPendingApproval(page.entry) /\ page' = IdlePage
                 /\ alarms' = [alarms EXCEPT !.reconnect = TRUE]
  /\ UNCHANGED <<relayVars, identityVars, credential, memberships, intent, linked,
                 jobs, resets, faults, historyVars>>

(* The relay takes the proof of d, or the same proof again.                *)
TakesProof(d) == enrolments[d] \in {"pending_proof", "pending_approval"}
Proved(d) == enrolments' = [enrolments EXCEPT ![d] = "pending_approval"]

PageSubmits(answered) ==
  LET d == page.entry.dev IN
  /\ PageAt("submit")
  /\ IF answered THEN UNCHANGED faults ELSE Fault("network")
  /\ IF TakesProof(d) THEN Proved(d) ELSE UNCHANGED enrolments
  /\ IF TakesProof(d) /\ answered THEN PageGoes("mark") ELSE page' = IdlePage
  /\ UNCHANGED <<chain, signed, registered, identityVars, journal, credential,
                 memberships, intent, connectionVars, jobs, resets, historyVars>>

PageCloses ==
  /\ ~PageAt("idle") /\ Fault("page")
  /\ page' = IdlePage
  /\ halted' = TRUE
  /\ UNCHANGED <<relayVars, identityVars, journal, credential, memberships,
                 intent, connectionVars, jobs, resets, restored, raced>>

Page ==
  \/ Submit \/ PrepareRegistration \/ PagePins \/ PageWrites \/ PageCloses
  \/ \E answered \in BOOLEAN : Register(answered) \/ PageSubmits(answered)

-----------------------------------------------------------------------------
(* The jobs of the worker                                                  *)

At(j, step) == jobs[j].at = step
Free(j) == At(j, "idle") /\ \A k \in Jobs : k < j => ~At(k, "idle")
Recovering(j) == jobs[j].goal \in {"recover", "again"} /\ ~At(j, "idle")
MembershipOf(j) == memberships[jobs[j].dev]

JobGoes(j, step) == jobs' = [jobs EXCEPT ![j].at = step]
Ends(j) == jobs' = [jobs EXCEPT ![j] = IdleJob]

(* A new generation: no connecting job goes on to a socket.                *)
Superseded == [j \in Jobs |-> [jobs[j] EXCEPT !.live = FALSE]]

(* failClosed, by job j, which ends.                                       *)
FailClosed(j) ==
  /\ jobs' = [Superseded EXCEPT ![j] = IdleJob]
  /\ linked' = FALSE

(* An error ends the job: of a refresh while online it stops the runtime,  *)
(* of a connection it leaves no alarm, unless the network failed.          *)
Throws(j) ==
  IF jobs[j].goal = "online"
  THEN FailClosed(j) /\ alarms' = [alarms EXCEPT !.refresh = FALSE]
  ELSE Ends(j) /\ UNCHANGED connectionVars
NetworkFails(j) ==
  /\ Ends(j)
  /\ IF jobs[j].goal = "online" THEN UNCHANGED connectionVars
     ELSE alarms' = [alarms EXCEPT !.reconnect = TRUE] /\ UNCHANGED linked

(* startConnection, unless a recovery it would wait for is under way; it   *)
(* goes on to the first reads of recoverPendingMembership.                 *)
Connect(j) ==
  /\ Free(j)
  /\ \A k \in Jobs : Recovering(k) => ~jobs[k].live
  /\ jobs' = [Superseded EXCEPT ![j] = [IdleJob EXCEPT !.at = "load", !.live = TRUE]]
  /\ linked' = FALSE

Alarm(j) ==
  /\ alarms.reconnect /\ Connect(j)
  /\ alarms' = [alarms EXCEPT !.reconnect = FALSE]

(* The worker starts, or a page asks for a connection.                     *)
Asked(j) == Connect(j) /\ UNCHANGED alarms

Start(j) ==
  /\ Alarm(j) \/ Asked(j)
  /\ UNCHANGED <<relayVars, identityVars, journal, credential, memberships,
                 intent, resets, page, faults, historyVars>>

(* recoverPendingMembership and resumeChromeMembership read the journal.   *)
LoadPending(j) ==
  /\ At(j, "load")
  /\ IF journal = NoEntry THEN JobGoes(j, "connect") /\ UNCHANGED connectionVars
     ELSE IF identity = 0 THEN Throws(j)
     ELSE /\ jobs' = [jobs EXCEPT ![j].at = "pin", ![j].dev = journal.dev,
                                  ![j].pending = journal]
          /\ UNCHANGED connectionVars
  /\ UNCHANGED <<relayVars, identityVars, journal, credential, memberships,
                 intent, resets, page, faults, historyVars>>

JobPins(j) ==
  LET entry == jobs[j].pending IN
  /\ At(j, "pin")
  /\ IF CanPin(entry.dev, entry.authority)
     THEN /\ PinAuthority(entry.dev, entry.authority)
          /\ JobGoes(j, "bind") /\ UNCHANGED connectionVars
     ELSE Throws(j) /\ UNCHANGED memberships
  /\ UNCHANGED <<relayVars, identityVars, journal, credential, intent, resets,
                 page, faults, historyVars>>

(* The steps of the recovery that change the journal: recoverChromeProof,  *)
(* and the marks before and after the proof is sent.                       *)
JobWrites(j) ==
  LET entry == jobs[j].pending IN
  /\ jobs[j].at \in {"bind", "attempt", "mark", "settle"}
  /\ IF \/ ~SameEntry(entry)
        \/ ~At(j, "bind") /\ ~journal.proof
     THEN Throws(j) /\ UNCHANGED journal
     ELSE /\ CASE At(j, "bind") -> BindProof(entry) /\ JobGoes(j, "ask")
               [] At(j, "attempt") -> MarkProofAttempted(entry) /\ JobGoes(j, "submit")
               [] At(j, "mark") -> MarkPendingApproval(entry) /\ JobGoes(j, "result")
               [] At(j, "settle") ->
                    /\ MarkPendingApproval(entry)
                    /\ jobs' = [jobs EXCEPT ![j].at = "ask", ![j].goal = "again"]
          /\ UNCHANGED connectionVars
  /\ UNCHANGED <<relayVars, identityVars, credential, memberships, intent, resets,
                 page, faults, historyVars>>

JobSubmits(j) ==
  LET d == jobs[j].dev IN
  /\ At(j, "submit")
  /\ IF TakesProof(d)
     THEN /\ Proved(d) /\ JobGoes(j, "settle")
          /\ UNCHANGED <<connectionVars, halted>>
     ELSE Throws(j) /\ halted' = TRUE /\ UNCHANGED enrolments
  /\ UNCHANGED <<chain, signed, registered, identityVars, journal, credential,
                 memberships, intent, resets, page, faults, restored, raced>>

-----------------------------------------------------------------------------
(* refreshChromeMembership                                                 *)

(* The state of the registration was read, and whether it is active.       *)
Refreshed(j, state, active) ==
  LET goal == jobs[j].goal
      good == state = "approved" /\ active
      goes(step) ==
        /\ jobs' = [jobs EXCEPT ![j].at = step, ![j].base = 0, ![j].rosters = <<>>,
                     ![j].answer = [NoAnswer EXCEPT !.state = state, !.active = active]]
        /\ UNCHANGED connectionVars
  IN CASE goal = "recover" /\ state = "pending_proof" ->
            IF jobs[j].pending.phase = "pending-approval" THEN Throws(j)
            ELSE goes("attempt")
       [] goal = "recover" /\ state # "pending_proof" -> goes("mark")
       [] goal = "again" -> goes("result")
       [] goal \in {"active", "online"} /\ ~good -> Throws(j)
       [] goal = "active" /\ good -> goes("open")
       [] goal = "online" /\ good -> Ends(j) /\ UNCHANGED connectionVars

(* The relay answers with the rosters from first to last, and cert.        *)
Answer(j, first, last, cert) ==
  [jobs EXCEPT ![j].at = "roster", ![j].base = MembershipOf(j).roster.epoch,
               ![j].answer = [state |-> "approved", active |-> FALSE,
                              latest |-> Len(chain), cert |-> cert, key |-> Top.key],
               ![j].rosters = SubSeq(chain, first, last)]

(* One request for the state, from the store's roster epoch on.            *)
Ask(j) ==
  LET d == jobs[j].dev
      m == MembershipOf(j)
  IN
  /\ At(j, "ask")
  /\ IF ~m.pinned \/ enrolments[d] = "none" THEN Throws(j)
     ELSE IF enrolments[d] # "approved"
     THEN IF m.key # Top.key THEN Throws(j)
          ELSE Refreshed(j, enrolments[d], FALSE)
     ELSE IF Len(chain) < m.roster.epoch THEN Throws(j)
     ELSE /\ \E first \in Starts(d, m.roster.epoch), cert \in LastCerts(d) :
               \E last \in (first - 1)..Len(chain) :
                 /\ first <= Len(chain) => first <= last
                 /\ last < first + PageSize
                 /\ jobs' = Answer(j, first, last, cert)
          /\ UNCHANGED connectionVars
  /\ UNCHANGED <<relayVars, identityVars, journal, credential, memberships,
                 intent, resets, page, faults, historyVars>>

(* One of its requests fails: the network is away, or the relay answers    *)
(* with another status.                                                    *)
RequestFails(j) ==
  /\ jobs[j].at \in {"ask", "submit"} /\ Fault("network")
  /\ \/ NetworkFails(j) /\ UNCHANGED <<enrolments, halted>>
     \/ /\ At(j, "submit") /\ TakesProof(jobs[j].dev)
        /\ Proved(jobs[j].dev) /\ NetworkFails(j) /\ UNCHANGED halted
     \/ Throws(j) /\ halted' = TRUE /\ UNCHANGED enrolments
  /\ UNCHANGED <<chain, signed, registered, identityVars, journal, credential,
                 memberships, intent, resets, page, restored, raced>>

Dropped(j) == [jobs EXCEPT ![j].rosters = Tail(@)]

(* The next roster of the answer is verified against the store.            *)
Verify(j) ==
  LET m == MembershipOf(j)
      d == jobs[j].dev
      r == Head(jobs[j].rosters)
      cert == Proposed(m, d, r, jobs[j].answer.cert)
      propose(next) == jobs' = [jobs EXCEPT ![j].at = "write", ![j].seen = m,
                                            ![j].proposed = next]
  IN
  /\ At(j, "roster") /\ jobs[j].rosters # <<>>
  /\ IF ~m.pinned THEN Throws(j)
     ELSE IF IsNextTransition(m, r)
     THEN IF HandsOver(m, d, r) THEN propose(WithAuthority(m, d, r)) /\ UNCHANGED connectionVars
          ELSE Throws(j)
     ELSE IF AlreadyApplied(m, d, cert, r) THEN jobs' = Dropped(j) /\ UNCHANGED connectionVars
     ELSE IF Approves(m, d, cert, r)
     THEN propose(WithRoster(m, d, cert, r)) /\ UNCHANGED connectionVars
     ELSE Throws(j)
  /\ UNCHANGED <<relayVars, identityVars, journal, credential, memberships,
                 intent, resets, page, faults, historyVars>>

(* The transaction writes it, if the store still is as it was read.        *)
Write(j) ==
  /\ At(j, "write")
  /\ IF MembershipOf(j) = jobs[j].seen
     THEN /\ memberships' = [memberships EXCEPT ![jobs[j].dev] = jobs[j].proposed]
          /\ jobs' = [Dropped(j) EXCEPT ![j].at = "roster", ![j].seen = Absent,
                                      ![j].proposed = Absent]
          /\ UNCHANGED connectionVars
     ELSE Throws(j) /\ UNCHANGED memberships
  /\ UNCHANGED <<relayVars, identityVars, journal, credential, intent, resets,
                 page, faults, historyVars>>

(* The end of an answer: the latest roster, the next request, or neither.  *)
Accept(j) ==
  LET m == MembershipOf(j)
      answer == jobs[j].answer
  IN
  /\ At(j, "roster") /\ jobs[j].rosters = <<>>
  /\ IF ~m.pinned THEN Throws(j)
     ELSE IF m.roster.epoch = answer.latest
     THEN IF m.cert = answer.cert /\ m.key = answer.key
          THEN Refreshed(j, "approved", m.active) ELSE Throws(j)
     ELSE IF m.roster.epoch > jobs[j].base /\ m.roster.epoch < answer.latest
     THEN /\ jobs' = [jobs EXCEPT ![j].at = "ask", ![j].base = 0,
                                  ![j].answer = NoAnswer]
          /\ UNCHANGED connectionVars
     ELSE Throws(j)
  /\ UNCHANGED <<relayVars, identityVars, journal, credential, memberships,
                 intent, resets, page, faults, historyVars>>

-----------------------------------------------------------------------------
(* The end of recoverPendingMembership, the promotion, and what            *)
(* startConnection does after it                                           *)

ResultUnretried(j) ==
  /\ At(j, "result")
  /\ IF jobs[j].answer.state = "approved" /\ jobs[j].answer.active
     THEN JobGoes(j, "promote") /\ UNCHANGED connectionVars
     ELSE Throws(j)
  /\ UNCHANGED <<relayVars, identityVars, journal, credential, memberships,
                 intent, resets, page, faults, historyVars>>
Result(j) ==
  /\ At(j, "result")
  /\ IF jobs[j].answer.state # "approved" THEN NetworkFails(j)
     ELSE IF ~jobs[j].answer.active THEN Throws(j)
     ELSE JobGoes(j, "promote") /\ UNCHANGED connectionVars
  /\ UNCHANGED <<relayVars, identityVars, journal, credential, memberships,
                 intent, resets, page, faults, historyVars>>

(* promoteApprovedMembership: the stored registration is proved, and the   *)
(* stored membership is active under the authority it was made with.       *)
Promotable(entry, m) ==
  /\ entry.phase = "pending-approval"
  /\ m.pinned /\ m.key = entry.authority
  /\ m.active /\ m.roster # NoRoster
  /\ m.cert.key = entry.authority

CheckPromotion(j) ==
  /\ At(j, "promote")
  /\ IF journal # NoEntry /\ Promotable(journal, memberships[journal.dev])
     THEN /\ jobs' = [jobs EXCEPT ![j].at = "save", ![j].dev = journal.dev,
                                  ![j].pending = journal, ![j].answer = NoAnswer]
          /\ UNCHANGED connectionVars
     ELSE Throws(j)
  /\ UNCHANGED <<relayVars, identityVars, journal, credential, memberships,
                 intent, resets, page, faults, historyVars>>

SaveNew(j) ==
  /\ At(j, "save")
  /\ IF credential \in {0, jobs[j].dev}
     THEN /\ credential' = jobs[j].dev /\ raced' = (raced \/ Resetting)
          /\ JobGoes(j, "clear") /\ UNCHANGED connectionVars
     ELSE Throws(j) /\ UNCHANGED <<credential, raced>>
  /\ UNCHANGED <<relayVars, identityVars, journal, memberships, intent, resets,
                 page, faults, halted, restored>>

ClearPending(j) ==
  /\ At(j, "clear")
  /\ IF credential = jobs[j].dev
     THEN journal' = NoEntry /\ JobGoes(j, "connect") /\ UNCHANGED connectionVars
     ELSE Throws(j) /\ UNCHANGED journal
  /\ UNCHANGED <<relayVars, identityVars, credential, memberships, intent, resets,
                 page, faults, historyVars>>

(* A credential with no membership record is one of before there were any. *)
LoadCredential(j) ==
  /\ At(j, "connect")
  /\ IF ~jobs[j].live \/ credential = 0 THEN Ends(j)
     ELSE jobs' = [jobs EXCEPT ![j] =
            [IdleJob EXCEPT !.at = IF memberships[credential].pinned THEN "ask" ELSE "open",
                            !.live = TRUE, !.goal = "active", !.dev = credential]]
  /\ UNCHANGED <<relayVars, identityVars, journal, credential, memberships,
                 intent, connectionVars, resets, page, faults, historyVars>>

(* requireBoundIdentity, and the connection.                               *)
OpenUnwatched(j) ==
  /\ At(j, "open")
  /\ IF identity = 0 \/ identity # registered[jobs[j].dev]
     THEN Throws(j) /\ UNCHANGED raced
     ELSE /\ Ends(j)
          /\ IF jobs[j].live
             THEN /\ linked' = TRUE /\ raced' = (raced \/ Resetting)
                  /\ alarms' = [alarms EXCEPT !.reconnect = FALSE]
             ELSE UNCHANGED <<connectionVars, raced>>
  /\ UNCHANGED <<relayVars, identityVars, journal, credential, memberships,
                 intent, resets, page, faults, halted, restored>>
Open(j) ==
  /\ At(j, "open")
  /\ IF identity = 0 \/ identity # registered[jobs[j].dev]
     THEN Throws(j) /\ UNCHANGED raced
     ELSE /\ Ends(j)
          /\ IF jobs[j].live
             THEN /\ linked' = TRUE /\ raced' = (raced \/ Resetting)
                  /\ alarms' = [reconnect |-> FALSE, refresh |-> TRUE]
             ELSE UNCHANGED <<connectionVars, raced>>
  /\ UNCHANGED <<relayVars, identityVars, journal, credential, memberships,
                 intent, resets, page, faults, halted, restored>>

JobStep(j) ==
  \/ LoadPending(j) \/ JobPins(j) \/ JobWrites(j) \/ JobSubmits(j)
  \/ Ask(j) \/ Verify(j) \/ Write(j) \/ Accept(j)
  \/ Result(j) \/ CheckPromotion(j) \/ SaveNew(j) \/ ClearPending(j)
  \/ LoadCredential(j) \/ Open(j)

(* refreshMembershipWhileOnline begins, by its alarm.  It reads the stored *)
(* connection state, which may be that of an earlier worker.               *)
RefreshWhileOnline(j) ==
  /\ alarms.refresh /\ Free(j)
  /\ IF credential = 0
     THEN FailClosed(j) /\ alarms' = [alarms EXCEPT !.refresh = FALSE]
     ELSE /\ UNCHANGED linked
          /\ IF memberships[credential].pinned
             THEN /\ jobs' = [jobs EXCEPT ![j] =
                       [IdleJob EXCEPT !.at = "ask", !.goal = "online", !.dev = credential]]
                  /\ UNCHANGED alarms
             ELSE alarms' = [alarms EXCEPT !.refresh = FALSE] /\ UNCHANGED jobs
  /\ UNCHANGED <<relayVars, identityVars, journal, credential, memberships,
                 intent, resets, page, faults, historyVars>>

(* The connection is lost.                                                 *)
Drops ==
  /\ linked /\ Fault("network")
  /\ linked' = FALSE
  /\ alarms' = [alarms EXCEPT !.reconnect = TRUE]
  /\ UNCHANGED <<relayVars, identityVars, journal, credential, memberships,
                 intent, jobs, resets, page, historyVars>>

(* The worker stops, in whatever it is doing; its next start goes on with  *)
(* a reset that began.                                                     *)
Stops ==
  /\ Fault("stop")
  /\ linked \/ <<jobs, resets>> # <<[j \in Jobs |-> IdleJob], [r \in Runners |-> IdleReset]>>
  /\ jobs' = [j \in Jobs |-> IdleJob]
  /\ resets' = [r \in Runners |->
       IF r = "startup" /\ intent THEN [IdleReset EXCEPT !.at = "stop"] ELSE IdleReset]
  /\ linked' = FALSE
  /\ halted' = TRUE
  /\ UNCHANGED <<relayVars, identityVars, journal, credential, memberships,
                 intent, alarms, page, restored, raced>>

-----------------------------------------------------------------------------
(* The reset after a certified removal                                     *)

ResetAt(r, step) == resets[r].at = step
ResetGoes(r, step) == resets' = [resets EXCEPT ![r].at = step]

(* reEnrollAfterCertifiedRemoval, asked for by the user.                   *)
Begin ==
  LET r == "button" IN
  /\ ResetAt(r, "idle") /\ ~intent
  /\ credential # 0
  /\ memberships[credential].pinned /\ ~memberships[credential].active
  /\ ResetGoes(r, "begin")
  /\ UNCHANGED <<relayVars, identityVars, journal, credential, memberships,
                 intent, connectionVars, jobs, page, faults, historyVars>>

RecordIntent ==
  /\ ResetAt("button", "begin")
  /\ intent' = TRUE
  /\ ResetGoes("button", "stop")
  /\ UNCHANGED <<relayVars, identityVars, journal, credential, memberships,
                 connectionVars, jobs, page, faults, historyVars>>

(* The user asks again for a reset that began.                             *)
Resume ==
  /\ ResetAt("button", "idle") /\ intent
  /\ ResetGoes("button", "stop")
  /\ UNCHANGED <<relayVars, identityVars, journal, credential, memberships,
                 intent, connectionVars, jobs, page, faults, historyVars>>

(* stopTransport and clearSchedules; no later connection waits for the     *)
(* recovery of an earlier one.                                             *)
StopTransport(r) ==
  /\ ResetAt(r, "stop")
  /\ jobs' = Superseded
  /\ linked' = FALSE
  /\ alarms' = [reconnect |-> FALSE, refresh |-> FALSE]
  /\ resets' = [resets EXCEPT ![r] = [at |-> "clear", left |-> Stores]]
  /\ UNCHANGED <<relayVars, identityVars, journal, credential, memberships,
                 intent, page, faults, historyVars>>

(* clearWorkspaceState: the stores are cleared in any order.               *)
ClearStore(r, store) ==
  /\ ResetAt(r, "clear") /\ store \in resets[r].left
  /\ resets' = [resets EXCEPT ![r].left = @ \ {store}]
  /\ journal' = IF store = "journal" THEN NoEntry ELSE journal
  /\ credential' = IF store = "credential" THEN 0 ELSE credential
  /\ identity' = IF store = "identity" THEN 0 ELSE identity
  /\ memberships' = IF store = "membership" THEN [d \in Devices |-> Absent]
                    ELSE memberships
  /\ UNCHANGED <<relayVars, identities, intent, connectionVars, jobs, page,
                 faults, historyVars>>

FinishEarly(r) ==
  /\ ResetAt(r, "clear")
  /\ intent' = FALSE
  /\ resets' = [resets EXCEPT ![r] = IdleReset]
  /\ raced' = (raced \/ \E j \in Jobs : At(j, "save"))
  /\ UNCHANGED <<relayVars, identityVars, journal, credential, memberships,
                 connectionVars, jobs, page, faults, halted, restored>>
Finish(r) ==
  /\ ResetAt(r, "clear") /\ resets[r].left = {}
  /\ intent' = FALSE
  /\ resets' = [resets EXCEPT ![r] = IdleReset]
  /\ raced' = (raced \/ \E j \in Jobs : At(j, "save"))
  /\ UNCHANGED <<relayVars, identityVars, journal, credential, memberships,
                 connectionVars, jobs, page, faults, halted, restored>>

Reset ==
  \/ Begin \/ RecordIntent \/ Resume
  \/ \E r \in Runners : \/ StopTransport(r)
                        \/ \E store \in Stores : ClearStore(r, store)
                        \/ Finish(r)

-----------------------------------------------------------------------------
Next ==
  \/ Authority \/ Restore
  \/ Page
  \/ \E j \in Jobs : \/ Start(j) \/ JobStep(j) \/ RequestFails(j)
                     \/ RefreshWhileOnline(j)
  \/ Drops \/ Stops
  \/ Reset

Spec == Init /\ [][Next]_vars

-----------------------------------------------------------------------------
(* Properties                                                              *)

JobTypes ==
  [at : {"idle", "load", "pin", "bind", "attempt", "submit", "settle", "mark", "ask",
         "roster", "write", "result", "promote", "save", "clear", "connect", "open"},
   live : BOOLEAN, goal : {"recover", "again", "active", "online"},
   dev : 0..MaxDevices, pending : Entries, base : Nat,
   answer : [state : States, active : BOOLEAN, latest : Nat, cert : Certs, key : Nat],
   rosters : Seq(Rosters), seen : Memberships, proposed : Memberships]

(* Every variable holds what its part of the code can hold.                *)
TypeOK ==
  /\ chain \in Seq(Rosters) /\ chain # <<>> /\ signed \in Nat
  /\ enrolments \in [Devices -> States]
  /\ registered \in [Devices -> Nat]
  /\ identity \in Nat /\ identities \in Nat
  /\ journal \in Entries
  /\ journal # NoEntry =>
       /\ journal.dev # 0 /\ journal.phase # "none"
       /\ journal.phase # "registered" => journal.proof
  /\ credential \in 0..MaxDevices
  /\ memberships \in [Devices -> Memberships]
  /\ intent \in BOOLEAN /\ linked \in BOOLEAN
  /\ alarms \in [reconnect : BOOLEAN, refresh : BOOLEAN]
  /\ jobs \in [Jobs -> JobTypes]
  /\ resets \in [Runners -> [at : {"idle", "begin", "stop", "clear"},
                             left : SUBSET Stores]]
  /\ page \in [at : {"idle", "register", "prepare", "pin", "bind", "attempt",
                     "submit", "mark"},
               entry : Entries]
  /\ faults \in Seq(FaultKinds)
  /\ halted \in BOOLEAN /\ restored \in BOOLEAN /\ raced \in BOOLEAN

(* What a device believes verifies when it is read back (load): the store  *)
(* never holds a certificate or a roster of another authority, and says    *)
(* the device is active exactly while its roster has its certificate.      *)
NeverCorrupt == \A d \in Devices : Verifies(memberships[d], d)

(* A stored credential has its membership and its identity, unless a reset *)
(* is under way or something raced with one: never is a device left with   *)
(* half of a workspace, nor with a credential no roster is checked for.    *)
WholeOrResetting ==
  credential # 0 /\ ~intent /\ ~raced =>
    /\ memberships[credential].roster # NoRoster
    /\ identity # 0 /\ identity = registered[credential]

(* The journal is never behind what the relay was told nor ahead of it: a  *)
(* proof the relay has was stored first, and an approval is only awaited   *)
(* once the relay has the proof.                                           *)
JournalInStep ==
  LET state == enrolments[journal.dev] IN
  journal # NoEntry =>
    /\ Rank(state) >= 2 => journal.proof /\ journal.phase # "registered"
    /\ journal.phase = "pending-approval" => Rank(state) >= 2 \/ restored

(* A device that knows it was removed is not connected, but for a refresh  *)
(* that goes on to end the connection, or will be made again.              *)
RemovedIsLeaving ==
  linked /\ credential # 0 /\ ~intent /\ ~raced =>
    \/ memberships[credential].active
    \/ alarms.refresh

Contract == INSTANCE MembershipContract WITH floor <- memberships

(* The membership store implements the contract: the device follows one    *)
(* chain of rosters whatever the relay goes back to, whichever jobs write  *)
(* at the same time, and whenever the worker stops.                        *)
FollowsOneChain == Contract!Spec

(* What nothing in the code comes back from: the registration was removed  *)
(* or the authority replaced before the promotion, the relay was restored, *)
(* it refused a request, the worker or the page ended, or a reset forgets  *)
(* the registration or runs into it.                                       *)
Hopeless(d) ==
  \/ halted \/ restored \/ raced \/ intent
  \/ d \in {e \in Devices : enrolments[e] = "approved"} \ Members
  \/ \E i \in 1..Len(chain) : \/ chain[i].replaces # 0
                              \/ i > 1 /\ ~VerifyCertificateTransitions(chain[i - 1], chain[i])

(* A recovery that ends before the promotion leaves an alarm to try again, *)
(* unless nothing in the code would come back from what it met.            *)
NeverGivesUp ==
  [][\A j \in Jobs :
       Recovering(j) /\ jobs[j].live /\ ~At(j, "connect") /\ jobs'[j].at = "idle" =>
         \/ alarms'.reconnect
         \/ \E d \in 0..MaxDevices : jobs[j].dev = d /\ Hopeless(d)']_vars
=============================================================================
