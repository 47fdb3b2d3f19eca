-------------------- MODULE WorkspaceMembershipProofs ----------------------
(***************************************************************************)
(* For any number of registrations, jobs, rosters and faults: what the     *)
(* device believes verifies, it follows one chain of rosters, and its      *)
(* journal keeps in step with the relay.                                   *)
(***************************************************************************)
EXTENDS WorkspaceMembership, TLAPS, SequenceTheorems

USE DEF relayVars, identityVars, historyVars, connectionVars

\* The authority issues every certificate of a roster with the roster's key.
Genuine(r) == \A d \in Devices : r.certs[d] # NoCert => r.certs[d].key = r.key
AllGenuine(s) == \A i \in 1..Len(s) : Genuine(s[i])

\* What a device believes verifies, and it holds a certificate for it.
Sound(m, d) ==
  m.roster # NoRoster =>
    /\ m.pinned /\ m.cert # NoCert /\ m.cert.key = m.key /\ m.roster.key = m.key
    /\ m.active <=> m.roster.certs[d] = m.cert

\* The beliefs that may follow one another.
NextBelief(was, now, d) ==
  LET old == was.roster
      new == now.roster
  IN
  /\ was.pinned /\ now.pinned
  /\ now.cert # NoCert /\ now.cert.key = now.key /\ now.key = new.key
  /\ now.active <=> new.certs[d] = now.cert
  /\ \/ old = NoRoster /\ now.active /\ now.key = was.key
     \/ /\ new.epoch = old.epoch + 1 /\ new.previous = old.id
        /\ now.key # was.key => new.replaces = was.key /\ now.active
        /\ now.key = was.key =>
             \A e \in Devices :
               old.certs[e] # NoCert /\ new.certs[e] # NoCert /\ old.certs[e] # new.certs[e]
                 => e \in new.transitions

RelayOK ==
  /\ chain \in Seq(Rosters) /\ chain # <<>> /\ AllGenuine(chain) /\ signed \in Nat
  /\ enrolments \in [Devices -> States] /\ registered \in [Devices -> Nat]
JournalOK ==
  /\ journal \in Entries
  /\ journal # NoEntry => /\ journal.dev # 0 /\ journal.phase # "none"
                          /\ journal.phase # "registered" => journal.proof
ConnectionOK == linked \in BOOLEAN /\ alarms \in [reconnect : BOOLEAN, refresh : BOOLEAN]
StoresOK ==
  /\ identity \in Nat /\ identities \in Nat
  /\ credential \in 0..MaxDevices
  /\ intent \in BOOLEAN
  /\ resets \in [Runners -> [at : {"idle", "begin", "stop", "clear"}, left : SUBSET Stores]]
  /\ faults \in Seq(FaultKinds)
  /\ halted \in BOOLEAN /\ restored \in BOOLEAN /\ raced \in BOOLEAN
BeliefsOK ==
  memberships \in [Devices -> Memberships] /\ \A d \in Devices : Sound(memberships[d], d)
PageOK ==
  /\ page \in [at : {"idle", "register", "prepare", "pin", "bind", "attempt", "submit", "mark"},
               entry : Entries]
  /\ page.at \notin {"idle", "register"} => page.entry.dev # 0
  /\ page.at = "prepare" => page.entry.phase = "registered"
\* A job that reached the relay has its registration, and what it is about to
\* write follows what it read.
JobOK(r) ==
  /\ r \in JobTypes
  /\ r.at \notin {"idle", "load", "connect"} => r.dev # 0
  /\ AllGenuine(r.rosters)
  /\ r.at = "write" => r.rosters # <<>> /\ NextBelief(r.seen, r.proposed, r.dev)
JobsOK == jobs \in [Jobs -> JobTypes] /\ \A j \in Jobs : JobOK(jobs[j])

MembershipInv ==
  RelayOK /\ JournalOK /\ StoresOK /\ ConnectionOK /\ BeliefsOK /\ PageOK /\ JobsOK

-----------------------------------------------------------------------------
(* The values the records start from.                                      *)

LEMMA BlankValues ==
  ASSUME DevicesAssumption
  PROVE  /\ NoCert \in Certs /\ NoRoster \in Rosters /\ Absent \in Memberships
         /\ Absent.roster = NoRoster /\ NoEntry \in Entries
         /\ FirstRoster \in Rosters /\ Genuine(FirstRoster)
  <1>1. NoCert \in Certs  BY DEF NoCert, Certs
  <1>2. NoRoster \in Rosters  BY <1>1 DEF NoRoster, Rosters
  <1>3. Absent \in Memberships /\ Absent.roster = NoRoster
    BY <1>1, <1>2 DEF Absent, Memberships
  <1>4. NoEntry \in Entries  BY DEF NoEntry, Entries, Phases, DevicesAssumption
  <1>5. FirstRoster \in Rosters /\ FirstRoster.certs = [d \in Devices |-> NoCert]
    BY <1>1 DEF FirstRoster, NoRoster, Rosters
  <1>6. Genuine(FirstRoster)  BY <1>5 DEF Genuine
  <1> QED  BY <1>1, <1>2, <1>3, <1>4, <1>5, <1>6

LEMMA IdleJobOK ==
  ASSUME DevicesAssumption
  PROVE  JobOK(IdleJob) /\ IdleJob.at = "idle"
  <1>1. NoAnswer \in [state : States, active : BOOLEAN, latest : Nat, cert : Certs, key : Nat]
    BY BlankValues DEF NoAnswer, States
  <1>2. <<>> \in Seq(Rosters) /\ AllGenuine(<<>>)  BY DEF AllGenuine
  <1>3. NoEntry \in Entries /\ Absent \in Memberships  BY BlankValues
  <1>4. IdleJob \in JobTypes
    <2> HIDE DEF NoAnswer, NoEntry, Absent
    <2> QED  BY <1>1, <1>2, <1>3 DEF IdleJob, JobTypes, DevicesAssumption
  <1> QED  BY <1>2, <1>4 DEF IdleJob, JobOK

-----------------------------------------------------------------------------
(* What the steps do to the jobs.                                          *)

LEMMA SetJob ==
  ASSUME JobsOK, NEW j \in Jobs, NEW r, JobOK(r), jobs' = [jobs EXCEPT ![j] = r]
  PROVE  JobsOK'
  <1>1. r \in JobTypes  BY DEF JobOK
  <1>2. /\ jobs' \in [Jobs -> JobTypes] /\ jobs'[j] = r
        /\ \A k \in Jobs : k # j => jobs'[k] = jobs[k]
    BY <1>1 DEF JobsOK
  <1>3. \A k \in Jobs : JobOK(jobs'[k])  BY <1>2 DEF JobsOK
  <1> QED  BY <1>2, <1>3 DEF JobsOK, JobOK

LEMMA EndsOK ==
  ASSUME DevicesAssumption, JobsOK, NEW j \in Jobs, Ends(j)
  PROVE  JobsOK'
  BY IdleJobOK, SetJob DEF Ends

LEMMA SupersededOK ==
  ASSUME JobsOK, NEW j \in Jobs
  PROVE  Superseded[j] \in JobTypes /\ JobOK(Superseded[j])
  <1> DEFINE r == [jobs[j] EXCEPT !.live = FALSE]
  <1>1. jobs[j] \in JobTypes /\ JobOK(jobs[j])  BY DEF JobsOK
  <1>2. /\ r \in JobTypes /\ r.at = jobs[j].at /\ r.dev = jobs[j].dev
        /\ r.rosters = jobs[j].rosters /\ r.seen = jobs[j].seen
        /\ r.proposed = jobs[j].proposed
    BY <1>1 DEF JobTypes
  <1>3. Superseded[j] = r  BY DEF Superseded
  <1> HIDE DEF r
  <1> QED  BY <1>1, <1>2, <1>3 DEF JobOK

LEMMA AllSupersededOK ==
  ASSUME JobsOK, jobs' = Superseded
  PROVE  JobsOK'
  <1>1. \A j \in Jobs : Superseded[j] \in JobTypes /\ JobOK(Superseded[j])  BY SupersededOK
  <1>2. jobs' \in [Jobs -> JobTypes]  BY <1>1 DEF Superseded
  <1> QED  BY <1>1, <1>2 DEF JobsOK, JobOK

LEMMA SupersededSetOK ==
  ASSUME JobsOK, NEW j \in Jobs, NEW r, JobOK(r), jobs' = [Superseded EXCEPT ![j] = r]
  PROVE  JobsOK'
  <1>1. \A k \in Jobs : Superseded[k] \in JobTypes /\ JobOK(Superseded[k])  BY SupersededOK
  <1>2. DOMAIN Superseded = Jobs  BY DEF Superseded
  <1>3. jobs' = [k \in Jobs |-> IF k = j THEN r ELSE Superseded[k]]  BY <1>2
  <1>4. r \in JobTypes  BY DEF JobOK
  <1>5. jobs' \in [Jobs -> JobTypes]  BY <1>1, <1>3, <1>4
  <1>6. \A k \in Jobs : JobOK(jobs'[k])  BY <1>1, <1>3
  <1> QED  BY <1>5, <1>6 DEF JobsOK, JobOK

LEMMA FailClosedOK ==
  ASSUME DevicesAssumption, JobsOK, NEW j \in Jobs, FailClosed(j)
  PROVE  JobsOK' /\ linked' \in BOOLEAN
  <1>1. JobsOK'  BY IdleJobOK, SupersededSetOK DEF FailClosed
  <1> QED  BY <1>1 DEF FailClosed

LEMMA ThrowsOK ==
  ASSUME DevicesAssumption, JobsOK, ConnectionOK, NEW j \in Jobs, Throws(j)
  PROVE  JobsOK' /\ ConnectionOK'
  <1>1. CASE jobs[j].goal = "online"
    <2>1. JobsOK' /\ linked' \in BOOLEAN  BY <1>1, FailClosedOK DEF Throws
    <2> QED  BY <1>1, <2>1 DEF Throws, ConnectionOK
  <1>2. CASE jobs[j].goal # "online"
    BY <1>2, EndsOK DEF Throws, ConnectionOK
  <1> QED  BY <1>1, <1>2

LEMMA NetworkFailsOK ==
  ASSUME DevicesAssumption, JobsOK, ConnectionOK, NEW j \in Jobs, NetworkFails(j)
  PROVE  JobsOK' /\ ConnectionOK'
  <1>1. JobsOK'  BY EndsOK DEF NetworkFails
  <1> QED  BY <1>1 DEF NetworkFails, ConnectionOK

\* A job that knows its registration goes on to any step but the write.
Steps == {"idle", "load", "pin", "bind", "attempt", "submit", "settle", "mark", "ask",
          "roster", "write", "result", "promote", "save", "clear", "connect", "open"}
LEMMA JobGoesOK ==
  ASSUME JobsOK, NEW j \in Jobs, NEW step, step \in Steps \ {"write"},
         JobGoes(j, step), jobs[j].dev # 0 \/ step = "connect"
  PROVE  JobsOK'
  <1> DEFINE r == [jobs[j] EXCEPT !.at = step]
  <1>1. jobs[j] \in JobTypes /\ JobOK(jobs[j])  BY DEF JobsOK
  <1>2. /\ r \in JobTypes /\ r.at = step /\ r.dev = jobs[j].dev
        /\ r.rosters = jobs[j].rosters
    BY <1>1 DEF JobTypes, Steps
  <1>3. jobs' = [jobs EXCEPT ![j] = r]  BY DEF JobGoes
  <1> HIDE DEF r
  <1>4. JobOK(r)  BY <1>1, <1>2 DEF JobOK
  <1> QED  BY <1>3, <1>4, SetJob
-----------------------------------------------------------------------------
(* The relay and the authority.                                            *)

LEMMA TopOK ==
  ASSUME RelayOK
  PROVE  /\ Top \in Rosters /\ Genuine(Top)
         /\ Successor \in Rosters /\ Successor.certs = Top.certs /\ Successor.key = Top.key
  <1>1. Len(chain) \in 1..Len(chain)  BY DEF RelayOK
  <1>2. Top \in Rosters /\ Genuine(Top)  BY <1>1 DEF RelayOK, AllGenuine, Top
  <1> HIDE DEF Top
  <1> QED  BY <1>2 DEF Successor, Rosters

LEMMA PublishOK ==
  ASSUME RelayOK, NEW roster \in Rosters, Genuine(roster), Publish(roster)
  PROVE  /\ chain' \in Seq(Rosters) /\ chain' # <<>> /\ AllGenuine(chain')
         /\ signed' \in Nat
  <1> DEFINE i == signed + 1
             e == roster.epoch + 1
             p == roster.id
             r == [roster EXCEPT !.id = i, !.epoch = e, !.previous = p]
  <1>1. signed \in Nat /\ chain \in Seq(Rosters)  BY DEF RelayOK
  <1>2. r \in Rosters /\ r.certs = roster.certs /\ r.key = roster.key
    <2>1. i \in Nat /\ e \in Nat /\ p \in Nat  BY <1>1 DEF Rosters
    <2> HIDE DEF i, e, p
    <2> QED  BY <2>1 DEF Rosters
  <1>3. chain' = Append(chain, r) /\ signed' = signed + 1  BY DEF Publish
  <1> HIDE DEF r
  <1>4. Genuine(r)  BY <1>2 DEF Genuine
  <1>5. chain' \in Seq(Rosters) /\ chain' # <<>>  BY <1>1, <1>2, <1>3
  <1>6. AllGenuine(chain')
    <2>1. \A n \in 1..Len(chain') : chain'[n] = IF n = Len(chain) + 1 THEN r ELSE chain[n]
      BY <1>1, <1>3
    <2>2. \A n \in 1..Len(chain') : n = Len(chain) + 1 \/ n \in 1..Len(chain)
      BY <1>1, <1>3
    <2> QED  BY <1>4, <2>1, <2>2 DEF AllGenuine, RelayOK
  <1> QED  BY <1>1, <1>3, <1>5, <1>6

\* A roster after the last one in which only the certificate of d differs.
LEMMA ReissueOK ==
  ASSUME RelayOK, NEW d \in Devices, NEW cert \in Certs, NEW ts \in SUBSET Devices,
         cert # NoCert => cert.key = Top.key,
         Publish([Successor EXCEPT !.certs = [Top.certs EXCEPT ![d] = cert],
                                   !.transitions = ts])
  PROVE  /\ chain' \in Seq(Rosters) /\ chain' # <<>> /\ AllGenuine(chain')
         /\ signed' \in Nat
  <1> DEFINE r == [Successor EXCEPT !.certs = [Top.certs EXCEPT ![d] = cert], !.transitions = ts]
  <1>1. /\ Top \in Rosters /\ Genuine(Top) /\ Successor \in Rosters
        /\ Successor.key = Top.key
    BY TopOK
  <1>2. Top.certs \in [Devices -> Certs]
    <2> HIDE DEF Top
    <2> QED  BY <1>1 DEF Rosters
  <1>3. r \in Rosters /\ r.certs = [Top.certs EXCEPT ![d] = cert] /\ r.key = Top.key
    <2> HIDE DEF Top, Successor
    <2> QED  BY <1>1, <1>2 DEF Rosters
  <1> HIDE DEF r, Top, Successor
  <1>4. Genuine(r)  BY <1>1, <1>2, <1>3 DEF Genuine
  <1>5. Publish(r)  BY DEF r
  <1> QED  BY <1>3, <1>4, <1>5, PublishOK

LEMMA NewCertOK ==
  ASSUME RelayOK, DevicesAssumption
  PROVE  NewCert \in Certs /\ NewCert.key = Top.key /\ NoCert \in Certs
  <1>1. Top \in Rosters  BY TopOK
  <1>2. Top.key \in Nat
    <2> HIDE DEF Top
    <2> QED  BY <1>1 DEF Rosters
  <1> HIDE DEF Top
  <1> QED  BY <1>2, BlankValues DEF NewCert, Certs, RelayOK

LEMMA AuthorityKeeps ==
  ASSUME DevicesAssumption, MembershipInv, Authority
  PROVE  MembershipInv'
  <1> USE DEF MembershipInv
  <1>1. RelayOK' /\ faults' \in Seq(FaultKinds)
    <2>1. /\ NewCert \in Certs /\ NewCert.key = Top.key /\ NoCert \in Certs
      BY NewCertOK
    <2>2. /\ Top \in Rosters /\ Genuine(Top) /\ Successor \in Rosters
          /\ Successor.certs = Top.certs /\ Successor.key = Top.key
      BY TopOK
    <2> HIDE DEF Top, Successor, NewCert, NoCert
    <2>3. Successor.transitions \in SUBSET Devices
          /\ Successor = [Successor EXCEPT !.transitions = Successor.transitions]
      BY <2>2 DEF Rosters
    <2>4. ASSUME NEW d \in Devices, NEW cert \in {NewCert, NoCert},
                 Publish([Successor EXCEPT !.certs = [Top.certs EXCEPT ![d] = cert]])
          PROVE  /\ chain' \in Seq(Rosters) /\ chain' # <<>> /\ AllGenuine(chain')
                 /\ signed' \in Nat
      <3> DEFINE ts == Successor.transitions
      <3>1. [Successor EXCEPT !.certs = [Top.certs EXCEPT ![d] = cert]]
              = [Successor EXCEPT !.certs = [Top.certs EXCEPT ![d] = cert], !.transitions = ts]
        BY <2>2 DEF Rosters
      <3>2. cert \in Certs /\ (cert # NoCert => cert.key = Top.key)  BY <2>1
      <3> QED  BY <2>3, <2>4, <3>1, <3>2, ReissueOK
    <2>5. ASSUME NEW d \in Devices, Approve(d), UNCHANGED <<registered, faults>>
          PROVE  RelayOK' /\ faults' \in Seq(FaultKinds)
      <3>1. /\ chain' \in Seq(Rosters) /\ chain' # <<>> /\ AllGenuine(chain')
            /\ signed' \in Nat
        BY <2>4, <2>5 DEF Approve
      <3> QED  BY <2>5, <3>1 DEF Approve, RelayOK, StoresOK, States
    <2>6. ASSUME NEW d \in Devices, Remove(d), UNCHANGED <<registered, faults>>
          PROVE  RelayOK' /\ faults' \in Seq(FaultKinds)
      <3>1. /\ chain' \in Seq(Rosters) /\ chain' # <<>> /\ AllGenuine(chain')
            /\ signed' \in Nat
        BY <2>4, <2>6 DEF Remove
      <3> QED  BY <2>6, <3>1 DEF Remove, RelayOK, StoresOK, States
    <2>7. ASSUME NEW d \in Devices, NEW ts \in {{}, {d}}, Replace(d, ts),
                 UNCHANGED registered
          PROVE  RelayOK' /\ faults' \in Seq(FaultKinds)
      <3>1. /\ chain' \in Seq(Rosters) /\ chain' # <<>> /\ AllGenuine(chain')
            /\ signed' \in Nat
        BY <2>1, <2>7, ReissueOK DEF Replace
      <3> QED  BY <2>7, <3>1 DEF Replace, RelayOK, StoresOK, Fault, FaultKinds
    <2>8. ASSUME RotateAuthority, UNCHANGED registered
          PROVE  RelayOK' /\ faults' \in Seq(FaultKinds)
      <3> DEFINE key == signed + 1
                 certs == [d \in Devices |-> IF d \in Members THEN [id |-> key, key |-> key]
                                             ELSE NoCert]
                 r == [Successor EXCEPT !.key = key, !.transitionEpoch = Top.transitionEpoch + 1,
                                        !.replaces = Top.key, !.certs = certs]
      <3>1. key \in Nat /\ Top.key \in Nat  BY <2>2 DEF RelayOK, Rosters
      <3>2. /\ certs \in [Devices -> Certs]
            /\ \A d \in Devices : certs[d] # NoCert => certs[d].key = key
        <4> HIDE DEF key
        <4> QED  BY <2>1, <3>1 DEF Certs
      <3>3. Publish(r) /\ Fault("rotation") /\ UNCHANGED enrolments
        BY <2>8 DEF RotateAuthority
      <3> HIDE DEF key, certs
      <3>4. r \in Rosters /\ r.certs = certs /\ r.key = key
        <4> DEFINE t == Top.transitionEpoch + 1
                   k == Top.key
        <4>1. t \in Nat /\ k \in Nat  BY <2>2 DEF Rosters
        <4> HIDE DEF t, k
        <4>2. r = [Successor EXCEPT !.key = key, !.transitionEpoch = t, !.replaces = k,
                                    !.certs = certs]
          BY DEF t, k
        <4> HIDE DEF r
        <4> QED  BY <2>2, <3>1, <3>2, <4>1, <4>2 DEF Rosters
      <3> HIDE DEF r
      <3>5. Genuine(r)  BY <3>2, <3>4 DEF Genuine
      <3>6. /\ chain' \in Seq(Rosters) /\ chain' # <<>> /\ AllGenuine(chain')
            /\ signed' \in Nat
        BY <3>3, <3>4, <3>5, PublishOK
      <3> QED  BY <2>8, <3>3, <3>6 DEF RelayOK, StoresOK, Fault, FaultKinds
    <2> QED  BY <2>5, <2>6, <2>7, <2>8 DEF Authority
  <1>2. /\ JournalOK' /\ ConnectionOK' /\ BeliefsOK' /\ PageOK' /\ JobsOK'
    BY DEF Authority, JournalOK, ConnectionOK, BeliefsOK, PageOK, JobsOK, Sound, JobOK
  <1>3. StoresOK'  BY <1>1 DEF Authority, StoresOK
  <1> QED  BY <1>1, <1>2, <1>3
LEMMA RestoreKeeps ==
  ASSUME MembershipInv, Restore
  PROVE  MembershipInv'
  <1> USE DEF MembershipInv
  <1>1. PICK n \in 1..Len(chain) : chain' = SubSeq(chain, 1, n)  BY DEF Restore
  <1>2. chain \in Seq(Rosters)  BY DEF RelayOK
  <1>3. chain' \in Seq(Rosters) /\ Len(chain') = n
    BY <1>1, <1>2, SubSeqProperties
  <1>4. \A i \in 1..n : chain'[i] = chain[i]  BY <1>1, <1>2
  <1>5. AllGenuine(chain')  BY <1>3, <1>4 DEF AllGenuine, RelayOK
  <1>6. RelayOK'
    <2>1. chain' # <<>>  BY <1>3
    <2>2. enrolments' \in [Devices -> States] /\ UNCHANGED <<signed, registered>>
      BY DEF Restore
    <2> QED  BY <1>3, <1>5, <2>1, <2>2 DEF RelayOK
  <1>7. faults' \in Seq(FaultKinds)  BY DEF Restore, Fault, FaultKinds, StoresOK
  <1>8. StoresOK'  BY <1>7 DEF Restore, StoresOK
  <1>9. JournalOK' /\ ConnectionOK' /\ BeliefsOK' /\ PageOK' /\ JobsOK'
    BY DEF Restore, JournalOK, ConnectionOK, BeliefsOK, PageOK, JobsOK, Sound, JobOK
  <1> QED  BY <1>6, <1>8, <1>9

-----------------------------------------------------------------------------
(* The page.                                                               *)

LEMMA EntryOK ==
  ASSUME DevicesAssumption, NEW id \in Nat
  PROVE  [NoEntry EXCEPT !.identity = id] \in Entries
  <1>1. NoEntry \in Entries  BY BlankValues
  <1> HIDE DEF NoEntry
  <1> QED  BY <1>1 DEF Entries

LEMMA IdlePageOK ==
  ASSUME DevicesAssumption, page' = IdlePage
  PROVE  PageOK'
  <1>1. NoEntry \in Entries  BY BlankValues
  <1> HIDE DEF NoEntry
  <1> QED  BY <1>1 DEF IdlePage, PageOK

LEMMA PageGoesOK ==
  ASSUME PageOK, page.at \notin {"idle", "register"},
         NEW step, step \in {"pin", "bind", "attempt", "submit", "mark"}, PageGoes(step)
  PROVE  PageOK'
  BY DEF PageOK, PageGoes

\* A belief that takes an authority on trust says nothing of rosters.
LEMMA PinKeepsBeliefs ==
  ASSUME DevicesAssumption, BeliefsOK, NEW d \in Devices, NEW key \in Nat,
         PinAuthority(d, key)
  PROVE  BeliefsOK'
  <1>1. Pinned(key) \in Memberships /\ Pinned(key).roster = NoRoster
    <2>1. Absent \in Memberships /\ Absent.roster = NoRoster  BY BlankValues
    <2> HIDE DEF Absent, NoRoster
    <2> QED  BY <2>1 DEF Pinned, Memberships
  <1>2. Sound(Pinned(key), d)  BY <1>1 DEF Sound
  <1> HIDE DEF Pinned
  <1>3. \A e \in Devices : /\ memberships'[e] \in Memberships
                           /\ Sound(memberships'[e], e)
    BY <1>1, <1>2 DEF BeliefsOK, PinAuthority
  <1> QED  BY <1>3 DEF BeliefsOK, PinAuthority, Sound

LEMMA JournalMarks ==
  ASSUME JournalOK, journal # NoEntry, NEW entry,
         \/ BindProof(entry)
         \/ (MarkProofAttempted(entry) \/ MarkPendingApproval(entry)) /\ journal.proof
  PROVE  JournalOK'
  <1>1. journal \in Entries /\ journal.dev # 0 /\ journal.phase # "none"
        /\ (journal.phase # "registered" => journal.proof)
    BY DEF JournalOK
  <1>2. journal' \in Entries /\ journal'.dev # 0 /\ journal'.phase # "none"
        /\ (journal'.phase # "registered" => journal'.proof)
    <2>1. CASE BindProof(entry)
      BY <1>1, <2>1 DEF BindProof, Entries, Phases
    <2>2. CASE MarkPendingApproval(entry) /\ journal.proof
      BY <1>1, <2>2 DEF MarkPendingApproval, Entries, Phases
    <2>3. CASE MarkProofAttempted(entry) /\ journal.proof
      <3> DEFINE p == IF journal.phase = "registered" THEN "proof-attempted"
                      ELSE journal.phase
      <3>1. p \in Phases /\ p # "none"  BY <1>1 DEF Entries, Phases
      <3>2. journal' = [journal EXCEPT !.phase = p]  BY <2>3 DEF MarkProofAttempted
      <3> HIDE DEF p
      <3> QED  BY <1>1, <2>3, <3>1, <3>2 DEF Entries
    <2> QED  BY <2>1, <2>2, <2>3
  <1> QED  BY <1>2 DEF JournalOK

LEMMA PageKeeps ==
  ASSUME DevicesAssumption, MembershipInv, Page
  PROVE  MembershipInv'
  <1> USE DEF MembershipInv
  <1>1. ASSUME Submit  PROVE  MembershipInv'
    <2>1. identity' \in Nat /\ identities' \in Nat  BY <1>1 DEF Submit, StoresOK
    <2>2. [NoEntry EXCEPT !.identity = identity'] \in Entries  BY <2>1, EntryOK
    <2> DEFINE entry == [NoEntry EXCEPT !.identity = identity']
    <2>3. page' = [at |-> "register", entry |-> entry]  BY <1>1 DEF Submit
    <2> HIDE DEF entry
    <2>4. PageOK'  BY <2>2, <2>3 DEF PageOK, entry
    <2>5. StoresOK'
      <3>1. raced' \in BOOLEAN  BY <1>1 DEF Submit
      <3> QED  BY <1>1, <2>1, <3>1 DEF Submit, StoresOK
    <2> QED
      BY <1>1, <2>4, <2>5 DEF Submit, RelayOK, JournalOK, ConnectionOK, BeliefsOK, JobsOK,
                              Sound, JobOK, AllGenuine, Genuine
  <1>2. ASSUME NEW answered \in BOOLEAN, Register(answered)  PROVE  MembershipInv'
    <2>1. PICK d \in Devices :
            /\ enrolments' = [enrolments EXCEPT ![d] = "pending_proof"]
            /\ registered' = [registered EXCEPT ![d] = page.entry.identity]
            /\ page' = IF answered
                  THEN [at |-> "prepare",
                        entry |-> [page.entry EXCEPT !.dev = d, !.authority = Top.key,
                                                     !.phase = "registered"]]
                  ELSE IdlePage
      BY <1>2 DEF Register
    <2>2. page.entry \in Entries  BY DEF PageOK
    <2>3. RelayOK'
      <3>1. page.entry.identity \in Nat  BY <2>2 DEF Entries
      <3> QED  BY <1>2, <2>1, <3>1 DEF Register, RelayOK, States, AllGenuine, Genuine
    <2>4. PageOK'
      <3>1. CASE answered
        <4> DEFINE k == Top.key
                   entry == [page.entry EXCEPT !.dev = d, !.authority = k, !.phase = "registered"]
        <4>1. k \in Nat
          <5>1. Top \in Rosters  BY TopOK
          <5> HIDE DEF Top
          <5> QED  BY <5>1 DEF Rosters
        <4>2. d \in 0..MaxDevices /\ d # 0  BY DEF Devices, DevicesAssumption
        <4> HIDE DEF k
        <4>3. entry \in Entries /\ entry.dev # 0 /\ entry.phase = "registered"
          BY <2>2, <4>1, <4>2 DEF Entries, Phases
        <4>4. page' = [at |-> "prepare", entry |-> entry]  BY <2>1, <3>1 DEF k
        <4> HIDE DEF entry
        <4> QED  BY <4>3, <4>4 DEF PageOK
      <3>2. CASE ~answered  BY <2>1, <3>2, IdlePageOK
      <3> QED  BY <3>1, <3>2
    <2>5. faults' \in Seq(FaultKinds)  BY <1>2 DEF Register, Fault, FaultKinds, StoresOK
    <2>6. StoresOK'  BY <1>2, <2>5 DEF Register, StoresOK
    <2> QED
      BY <1>2, <2>3, <2>4, <2>6 DEF Register, JournalOK, ConnectionOK, BeliefsOK, JobsOK,
                                    Sound, JobOK
  <1>3. ASSUME PrepareRegistration  PROVE  MembershipInv'
    <2>1. JournalOK'
      BY <1>3 DEF PrepareRegistration, PageAt, JournalOK, PageOK
    <2>2. PageOK'
      BY <1>3, IdlePageOK, PageGoesOK DEF PrepareRegistration, PageAt
    <2> QED
      BY <1>3, <2>1, <2>2 DEF PrepareRegistration, RelayOK, StoresOK, ConnectionOK, BeliefsOK,
                              JobsOK, Sound, JobOK, AllGenuine, Genuine
  <1>4. ASSUME PagePins  PROVE  MembershipInv'
    <2>1. page.entry.dev \in Devices /\ page.entry.authority \in Nat
      BY <1>4 DEF PagePins, PageAt, PageOK, Entries, Devices, DevicesAssumption
    <2>2. BeliefsOK'
      <3>1. CASE PinAuthority(page.entry.dev, page.entry.authority)
        BY <2>1, <3>1, PinKeepsBeliefs
      <3>2. CASE UNCHANGED memberships
        BY <3>2 DEF BeliefsOK, Sound
      <3> QED  BY <1>4, <3>1, <3>2 DEF PagePins
    <2>3. PageOK'  BY <1>4, IdlePageOK, PageGoesOK DEF PagePins, PageAt
    <2> QED
      BY <1>4, <2>2, <2>3 DEF PagePins, RelayOK, StoresOK, ConnectionOK, JournalOK,
                              JobsOK, JobOK, AllGenuine, Genuine
  <1>5. ASSUME PageWrites  PROVE  MembershipInv'
    <2>1. CASE UNCHANGED <<journal, alarms>> /\ page' = IdlePage
      BY <1>5, <2>1, IdlePageOK
      DEF PageWrites, RelayOK, StoresOK, ConnectionOK, JournalOK, BeliefsOK, Sound,
          JobsOK, JobOK, AllGenuine, Genuine
    <2>2. CASE /\ SameEntry(page.entry) /\ (page.at # "bind" => journal.proof)
               /\ \/ PageAt("bind") /\ BindProof(page.entry) /\ PageGoes("attempt")
                     /\ UNCHANGED alarms
                  \/ PageAt("attempt") /\ MarkProofAttempted(page.entry)
                     /\ PageGoes("submit") /\ UNCHANGED alarms
                  \/ PageAt("mark") /\ MarkPendingApproval(page.entry) /\ page' = IdlePage
                     /\ alarms' = [alarms EXCEPT !.reconnect = TRUE]
      <3>1. JournalOK'  BY <2>2, JournalMarks DEF SameEntry, PageAt
      <3>2. PageOK'  BY <2>2, IdlePageOK, PageGoesOK DEF PageAt
      <3>3. ConnectionOK'  BY <1>5, <2>2 DEF PageWrites, ConnectionOK
      <3> QED
        BY <1>5, <3>1, <3>2, <3>3
        DEF PageWrites, RelayOK, StoresOK, BeliefsOK, Sound, JobsOK, JobOK, AllGenuine, Genuine
    <2> QED  BY <1>5, <2>1, <2>2 DEF PageWrites, PageAt
  <1>6. ASSUME NEW answered \in BOOLEAN, PageSubmits(answered)  PROVE  MembershipInv'
    <2>1. PageOK'  BY <1>6, IdlePageOK, PageGoesOK DEF PageSubmits, PageAt
    <2>2. faults' \in Seq(FaultKinds)  BY <1>6 DEF PageSubmits, Fault, FaultKinds, StoresOK
    <2>3. RelayOK'
      BY <1>6 DEF PageSubmits, Proved, RelayOK, States, AllGenuine, Genuine
    <2> QED
      BY <1>6, <2>1, <2>2, <2>3 DEF PageSubmits, StoresOK, ConnectionOK, JournalOK, BeliefsOK,
                                    Sound, JobsOK, JobOK
  <1>7. ASSUME PageCloses  PROVE  MembershipInv'
    <2>1. faults' \in Seq(FaultKinds)  BY <1>7 DEF PageCloses, Fault, FaultKinds, StoresOK
    <2> QED
      BY <1>7, <2>1, IdlePageOK
      DEF PageCloses, RelayOK, StoresOK, ConnectionOK, JournalOK, BeliefsOK, Sound,
          JobsOK, JobOK, AllGenuine, Genuine
  <1> QED  BY <1>1, <1>2, <1>3, <1>4, <1>5, <1>6, <1>7 DEF Page
-----------------------------------------------------------------------------
(* The jobs.                                                               *)

LEMMA OnlyJobs ==
  ASSUME MembershipInv, JobsOK', ConnectionOK',
         UNCHANGED <<relayVars, identityVars, journal, credential, memberships, intent,
                     resets, page, faults, historyVars>>
  PROVE  MembershipInv'
  BY DEF MembershipInv, RelayOK, StoresOK, JournalOK, BeliefsOK, Sound, PageOK,
         AllGenuine, Genuine

LEMMA StartKeeps ==
  ASSUME DevicesAssumption, MembershipInv, NEW j \in Jobs, Start(j)
  PROVE  MembershipInv'
  <1> DEFINE r == [IdleJob EXCEPT !.at = "load", !.live = TRUE]
  <1>1. JobOK(r)
    <2>1. JobOK(IdleJob)  BY IdleJobOK
    <2> HIDE DEF IdleJob
    <2>2. IdleJob \in JobTypes /\ AllGenuine(IdleJob.rosters)  BY <2>1 DEF JobOK
    <2>3. r \in JobTypes /\ r.at = "load" /\ r.rosters = IdleJob.rosters
      BY <2>2 DEF JobTypes
    <2> HIDE DEF r
    <2> QED  BY <2>2, <2>3 DEF JobOK
  <1>2. jobs' = [Superseded EXCEPT ![j] = r] /\ linked' = FALSE
    BY DEF Start, Alarm, Asked, Connect
  <1> HIDE DEF r
  <1>3. JobsOK'  BY <1>1, <1>2, SupersededSetOK DEF MembershipInv
  <1>4. ConnectionOK'  BY <1>2 DEF Start, Alarm, Asked, ConnectionOK, MembershipInv
  <1> QED  BY <1>3, <1>4, OnlyJobs DEF Start

LEMMA LoadPendingKeeps ==
  ASSUME DevicesAssumption, MembershipInv, NEW j \in Jobs, LoadPending(j)
  PROVE  MembershipInv'
  <1>1. JobsOK /\ ConnectionOK /\ JournalOK  BY DEF MembershipInv
  <1>2. CASE JobGoes(j, "connect") /\ UNCHANGED connectionVars
    <2>1. JobsOK'  BY <1>1, <1>2, JobGoesOK DEF Steps
    <2> QED  BY <1>1, <1>2, <2>1, OnlyJobs DEF LoadPending, ConnectionOK
  <1>3. CASE Throws(j)
    BY <1>1, <1>3, ThrowsOK, OnlyJobs DEF LoadPending
  <1>4. CASE /\ journal # NoEntry
             /\ jobs' = [jobs EXCEPT ![j].at = "pin", ![j].dev = journal.dev,
                                     ![j].pending = journal]
             /\ UNCHANGED connectionVars
    <2> DEFINE r == [jobs[j] EXCEPT !.at = "pin", !.dev = journal.dev, !.pending = journal]
    <2>1. jobs[j] \in JobTypes /\ AllGenuine(jobs[j].rosters)  BY <1>1 DEF JobsOK, JobOK
    <2>2. journal \in Entries /\ journal.dev \in 0..MaxDevices /\ journal.dev # 0
      BY <1>1, <1>4 DEF JournalOK, Entries
    <2>3. r \in JobTypes /\ r.at = "pin" /\ r.dev = journal.dev /\ r.rosters = jobs[j].rosters
      <3> HIDE DEF NoEntry
      <3> QED  BY <2>1, <2>2 DEF JobTypes
    <2>4. jobs' = [jobs EXCEPT ![j] = r]  BY <1>4
    <2> HIDE DEF r
    <2>5. JobOK(r)  BY <2>1, <2>2, <2>3 DEF JobOK
    <2>6. JobsOK'  BY <1>1, <2>4, <2>5, SetJob
    <2> QED  BY <1>1, <1>4, <2>6, OnlyJobs DEF LoadPending, ConnectionOK
  <1> QED  BY <1>2, <1>3, <1>4 DEF LoadPending

LEMMA JobPinsKeeps ==
  ASSUME DevicesAssumption, MembershipInv, NEW j \in Jobs, JobPins(j)
  PROVE  MembershipInv'
  <1>1. JobsOK /\ ConnectionOK /\ BeliefsOK  BY DEF MembershipInv
  <1>2. jobs[j].dev # 0 /\ jobs[j].pending \in Entries
    BY <1>1 DEF JobPins, At, JobsOK, JobOK, JobTypes
  <1>3. JobsOK' /\ ConnectionOK'
    <2>1. CASE JobGoes(j, "bind") /\ UNCHANGED connectionVars
      BY <1>1, <1>2, <2>1, JobGoesOK DEF Steps, ConnectionOK
    <2>2. CASE Throws(j)  BY <1>1, <2>2, ThrowsOK
    <2> QED  BY <2>1, <2>2 DEF JobPins
  <1>4. BeliefsOK'
    <2> DEFINE entry == jobs[j].pending
    <2>1. CASE UNCHANGED memberships  BY <1>1, <2>1 DEF BeliefsOK, Sound
    <2>2. CASE PinAuthority(entry.dev, entry.authority) /\ entry.dev \in Devices
      <3>1. entry.authority \in Nat  BY <1>2 DEF Entries
      <3> QED  BY <1>1, <2>2, <3>1, PinKeepsBeliefs
    <2>3. CASE PinAuthority(entry.dev, entry.authority) /\ entry.dev \notin Devices
      <3>1. memberships' = memberships
        BY <1>1, <2>3 DEF PinAuthority, BeliefsOK
      <3> QED  BY <2>1, <3>1
    <2> QED  BY <2>1, <2>2, <2>3 DEF JobPins
  <1> QED
    BY <1>3, <1>4 DEF JobPins, MembershipInv, RelayOK, StoresOK, JournalOK, PageOK,
                      AllGenuine, Genuine

LEMMA JobWritesKeeps ==
  ASSUME DevicesAssumption, MembershipInv, NEW j \in Jobs, JobWrites(j)
  PROVE  MembershipInv'
  <1>1. JobsOK /\ ConnectionOK /\ JournalOK  BY DEF MembershipInv
  <1>2. jobs[j].dev # 0  BY <1>1 DEF JobWrites, JobsOK, JobOK
  <1>3. JournalOK' /\ JobsOK' /\ ConnectionOK'
    <2>1. CASE Throws(j) /\ UNCHANGED journal
      BY <1>1, <2>1, ThrowsOK DEF JournalOK
    <2>2. CASE /\ SameEntry(jobs[j].pending) /\ (At(j, "bind") \/ journal.proof)
               /\ UNCHANGED connectionVars
               /\ \/ BindProof(jobs[j].pending) /\ At(j, "bind") /\ JobGoes(j, "ask")
                  \/ MarkProofAttempted(jobs[j].pending) /\ ~At(j, "bind")
                     /\ JobGoes(j, "submit")
                  \/ MarkPendingApproval(jobs[j].pending) /\ ~At(j, "bind")
                     /\ JobGoes(j, "result")
      <3>1. JournalOK'  BY <1>1, <2>2, JournalMarks DEF SameEntry
      <3>2. JobsOK'  BY <1>1, <1>2, <2>2, JobGoesOK DEF Steps
      <3> QED  BY <1>1, <2>2, <3>1, <3>2 DEF ConnectionOK
    <2>3. CASE /\ SameEntry(jobs[j].pending) /\ journal.proof
               /\ UNCHANGED connectionVars
               /\ MarkPendingApproval(jobs[j].pending)
               /\ jobs' = [jobs EXCEPT ![j].at = "ask", ![j].goal = "again"]
      <3>1. JournalOK'  BY <1>1, <2>3, JournalMarks DEF SameEntry
      <3> DEFINE r == [jobs[j] EXCEPT !.at = "ask", !.goal = "again"]
      <3>2. jobs[j] \in JobTypes /\ JobOK(jobs[j])  BY <1>1 DEF JobsOK
      <3>3. r \in JobTypes /\ r.at = "ask" /\ r.dev = jobs[j].dev
            /\ r.rosters = jobs[j].rosters
        BY <3>2 DEF JobTypes
      <3>4. jobs' = [jobs EXCEPT ![j] = r]  BY <2>3
      <3> HIDE DEF r
      <3>5. JobOK(r)  BY <1>2, <3>2, <3>3 DEF JobOK
      <3> QED  BY <1>1, <2>3, <3>1, <3>4, <3>5, SetJob DEF ConnectionOK
    <2> QED  BY <2>1, <2>2, <2>3 DEF JobWrites, At
  <1> QED
    BY <1>3 DEF JobWrites, MembershipInv, RelayOK, StoresOK, BeliefsOK, Sound, PageOK,
                AllGenuine, Genuine

LEMMA JobSubmitsKeeps ==
  ASSUME DevicesAssumption, MembershipInv, NEW j \in Jobs, JobSubmits(j)
  PROVE  MembershipInv'
  <1>1. JobsOK /\ ConnectionOK /\ RelayOK  BY DEF MembershipInv
  <1>2. jobs[j].dev # 0  BY <1>1 DEF JobSubmits, At, JobsOK, JobOK
  <1>3. JobsOK' /\ ConnectionOK'
    <2>1. CASE JobGoes(j, "settle") /\ UNCHANGED connectionVars
      BY <1>1, <1>2, <2>1, JobGoesOK DEF Steps, ConnectionOK
    <2>2. CASE Throws(j)  BY <1>1, <2>2, ThrowsOK
    <2> QED  BY <2>1, <2>2 DEF JobSubmits
  <1>4. RelayOK' /\ StoresOK'
    BY <1>1 DEF JobSubmits, Proved, RelayOK, States, AllGenuine, Genuine, StoresOK,
                MembershipInv
  <1> QED
    BY <1>3, <1>4 DEF JobSubmits, MembershipInv, JournalOK, BeliefsOK, Sound, PageOK
LEMMA RefreshedOK ==
  ASSUME DevicesAssumption, JobsOK, ConnectionOK, NEW j \in Jobs, jobs[j].dev # 0,
         NEW state, state \in States, NEW active \in BOOLEAN, Refreshed(j, state, active)
  PROVE  JobsOK' /\ ConnectionOK'
  <1>1. jobs[j] \in JobTypes /\ jobs[j].goal \in {"recover", "again", "active", "online"}
    BY DEF JobsOK, JobTypes
  <1> DEFINE answer == [NoAnswer EXCEPT !.state = state, !.active = active]
             goes(step) ==
               /\ jobs' = [jobs EXCEPT ![j].at = step, ![j].base = 0, ![j].rosters = <<>>,
                                       ![j].answer = answer]
               /\ UNCHANGED connectionVars
  <1>2. answer \in [state : States, active : BOOLEAN, latest : Nat, cert : Certs, key : Nat]
    <2>1. NoCert \in Certs  BY BlankValues
    <2> HIDE DEF NoCert
    <2> QED  BY <2>1 DEF NoAnswer
  <1>3. ASSUME NEW step, step \in {"attempt", "mark", "result", "open"}, goes(step)
        PROVE  JobsOK' /\ ConnectionOK'
    <2>1. jobs' = [jobs EXCEPT ![j].at = step, ![j].base = 0, ![j].rosters = <<>>,
                               ![j].answer = answer]
          /\ UNCHANGED connectionVars
      BY <1>3
    <2> HIDE DEF answer
    <2> DEFINE r == [jobs[j] EXCEPT !.at = step, !.base = 0, !.rosters = <<>>,
                                    !.answer = answer]
    <2>2. <<>> \in Seq(Rosters) /\ AllGenuine(<<>>)  BY DEF AllGenuine
    <2>3. r \in JobTypes /\ r.at = step /\ r.dev = jobs[j].dev /\ r.rosters = <<>>
      BY <1>1, <1>2, <1>3, <2>2 DEF JobTypes
    <2>4. jobs' = [jobs EXCEPT ![j] = r]  BY <2>1
    <2> HIDE DEF r
    <2>5. JobOK(r)  BY <1>3, <2>2, <2>3 DEF JobOK
    <2> QED  BY <2>1, <2>4, <2>5, SetJob DEF ConnectionOK
  <1>4. CASE Throws(j)  BY <1>4, ThrowsOK
  <1>5. CASE Ends(j) /\ UNCHANGED connectionVars  BY <1>5, EndsOK DEF ConnectionOK
  <1>6. \/ Throws(j) \/ (Ends(j) /\ UNCHANGED connectionVars)
        \/ \E step \in {"attempt", "mark", "result", "open"} : goes(step)
    <2> DEFINE good == state = "approved" /\ active
    <2>1. CASE jobs[j].goal = "recover" /\ state = "pending_proof"
      BY <2>1 DEF Refreshed
    <2>2. CASE jobs[j].goal = "recover" /\ state # "pending_proof"
      BY <2>2 DEF Refreshed
    <2>3. CASE jobs[j].goal = "again"  BY <2>3 DEF Refreshed
    <2>4. CASE jobs[j].goal \in {"active", "online"} /\ ~good  BY <2>4 DEF Refreshed
    <2>5. CASE jobs[j].goal = "active" /\ good  BY <2>5 DEF Refreshed
    <2>6. CASE jobs[j].goal = "online" /\ good  BY <2>6 DEF Refreshed
    <2> QED  BY <1>1, <2>1, <2>2, <2>3, <2>4, <2>5, <2>6
  <1> QED  BY <1>3, <1>4, <1>5, <1>6

\* A job that asks has its record in the membership store.
LEMMA HasBelief ==
  ASSUME DevicesAssumption, JobsOK, BeliefsOK, NEW j \in Jobs,
         jobs[j].at \notin {"idle", "load", "connect"}
  PROVE  /\ jobs[j].dev \in Devices /\ jobs[j].dev # 0
         /\ MembershipOf(j) \in Memberships /\ Sound(MembershipOf(j), jobs[j].dev)
  <1>1. jobs[j].dev \in 0..MaxDevices /\ jobs[j].dev # 0
    BY DEF JobsOK, JobOK, JobTypes
  <1>2. jobs[j].dev \in Devices  BY <1>1 DEF Devices, DevicesAssumption
  <1> QED  BY <1>1, <1>2 DEF BeliefsOK, MembershipOf

LEMMA AskKeeps ==
  ASSUME DevicesAssumption, MembershipInv, NEW j \in Jobs, Ask(j)
  PROVE  MembershipInv'
  <1>1. JobsOK /\ ConnectionOK /\ BeliefsOK /\ RelayOK  BY DEF MembershipInv
  <1> DEFINE d == jobs[j].dev
             m == MembershipOf(j)
  <1>2. d \in Devices /\ d # 0 /\ m \in Memberships  BY <1>1, HasBelief DEF Ask, At
  <1>3. enrolments[d] \in States  BY <1>1, <1>2 DEF RelayOK
  <1>4. CASE Throws(j)  BY <1>1, <1>4, ThrowsOK, OnlyJobs DEF Ask
  <1>5. CASE Refreshed(j, enrolments[d], FALSE)
    <2>1. JobsOK' /\ ConnectionOK'  BY <1>1, <1>2, <1>3, <1>5, RefreshedOK
    <2> QED  BY <2>1, OnlyJobs DEF Ask
  <1>6. ASSUME NEW first \in Starts(d, m.roster.epoch), NEW cert \in LastCerts(d),
               NEW last \in (first - 1)..Len(chain),
               jobs' = Answer(j, first, last, cert), UNCHANGED connectionVars
        PROVE  MembershipInv'
    <2> DEFINE base == m.roster.epoch
               rosters == SubSeq(chain, first, last)
               latest == Len(chain)
               key == Top.key
               answer == [state |-> "approved", active |-> FALSE, latest |-> latest,
                          cert |-> cert, key |-> key]
               r == [jobs[j] EXCEPT !.at = "roster", !.base = base, !.answer = answer,
                                    !.rosters = rosters]
    <2>1. base \in Nat
      <3> HIDE DEF m
      <3> QED  BY <1>2 DEF Memberships, Rosters
    <2>2. latest \in Nat /\ chain \in Seq(Rosters)  BY <1>1 DEF RelayOK
    <2>3. first \in Nat /\ first >= 1  BY <2>1, <2>2 DEF Starts
    <2>4. /\ rosters \in Seq(Rosters) /\ AllGenuine(rosters)
      <3>1. \A i \in first..last : chain[i] \in Rosters /\ Genuine(chain[i])
        BY <1>1, <2>2, <2>3 DEF RelayOK, AllGenuine
      <3>2. last \in Int /\ first \in Int  BY <2>3
      <3>3. /\ rosters \in Seq(Rosters)
            /\ Len(rosters) = IF first <= last THEN last - first + 1 ELSE 0
            /\ \A i \in 1..last - first + 1 : rosters[i] = chain[first + i - 1]
        BY <3>1, <3>2, SubSeqProperties
      <3> HIDE DEF rosters
      <3>4. ASSUME NEW i \in 1..Len(rosters)  PROVE  Genuine(rosters[i])
        <4>1. i \in 1..last - first + 1 /\ first + i - 1 \in first..last
          BY <2>3, <3>2, <3>3
        <4> QED  BY <3>1, <3>3, <4>1
      <3> QED  BY <3>3, <3>4 DEF AllGenuine
    <2>5. answer \in [state : States, active : BOOLEAN, latest : Nat, cert : Certs, key : Nat]
      <3>1. key \in Nat
        <4>1. Top \in Rosters  BY <1>1, TopOK
        <4> HIDE DEF Top
        <4> QED  BY <4>1 DEF Rosters
      <3>2. cert \in Certs
        <4>1. PICK i \in 1..Len(chain) : cert = chain[i].certs[d]  BY DEF LastCerts
        <4>2. chain[i] \in Rosters  BY <2>2, <4>1
        <4> QED  BY <1>2, <4>1, <4>2 DEF Rosters
      <3> HIDE DEF key, latest
      <3> QED  BY <2>2, <3>1, <3>2 DEF States
    <2>6. jobs' = [jobs EXCEPT ![j] = r]  BY <1>6 DEF Answer
    <2>7. jobs[j] \in JobTypes  BY <1>1 DEF JobsOK
    <2> HIDE DEF base, rosters, answer
    <2>8. r \in JobTypes /\ r.at = "roster" /\ r.dev = d /\ r.rosters = rosters
      BY <2>1, <2>4, <2>5, <2>7 DEF JobTypes
    <2> HIDE DEF r
    <2>9. JobOK(r)  BY <1>2, <2>4, <2>8 DEF JobOK
    <2>10. JobsOK'  BY <1>1, <2>6, <2>9, SetJob
    <2> QED  BY <1>1, <1>6, <2>10, OnlyJobs DEF Ask, ConnectionOK
  <1> QED  BY <1>4, <1>5, <1>6 DEF Ask

LEMMA RequestFailsKeeps ==
  ASSUME DevicesAssumption, MembershipInv, NEW j \in Jobs, RequestFails(j)
  PROVE  MembershipInv'
  <1>1. JobsOK /\ ConnectionOK /\ RelayOK  BY DEF MembershipInv
  <1>2. JobsOK' /\ ConnectionOK'
    BY <1>1, NetworkFailsOK, ThrowsOK DEF RequestFails
  <1>3. RelayOK'
    <2>1. enrolments' \in [Devices -> States]
      BY <1>1 DEF RequestFails, Proved, RelayOK, States
    <2> QED  BY <1>1, <2>1 DEF RequestFails, RelayOK, AllGenuine, Genuine
  <1>4. faults' \in Seq(FaultKinds)
    <2>1. faults \in Seq(FaultKinds)  BY DEF StoresOK, MembershipInv
    <2>2. faults' = Append(faults, "network")  BY DEF RequestFails, Fault
    <2> QED  BY <2>1, <2>2 DEF FaultKinds
  <1>5. halted' \in BOOLEAN
    <2>1. halted \in BOOLEAN  BY DEF StoresOK, MembershipInv
    <2>2. halted' = halted \/ halted' = TRUE  BY DEF RequestFails
    <2> QED  BY <2>1, <2>2
  <1>6. StoresOK'
    BY <1>4, <1>5 DEF RequestFails, StoresOK, MembershipInv
  <1> QED
    BY <1>2, <1>3, <1>6 DEF RequestFails, MembershipInv, JournalOK, BeliefsOK, Sound, PageOK

-----------------------------------------------------------------------------
(* A roster that is written is the next one.                               *)

LEMMA CertOfRoster ==
  ASSUME NEW r \in Rosters, NEW d \in Devices
  PROVE  r.certs[d] \in Certs
  BY DEF Rosters

LEMMA HandsOverFollows ==
  ASSUME NEW m \in Memberships, NEW d \in Devices, NEW r \in Rosters,
         Sound(m, d), Genuine(r), HandsOver(m, d, r)
  PROVE  /\ WithAuthority(m, d, r) \in Memberships
         /\ NextBelief(m, WithAuthority(m, d, r), d)
  <1> DEFINE key == r.key
             te == r.transitionEpoch
             cert == r.certs[d]
             now == [m EXCEPT !.key = key, !.transitionEpoch = te, !.roster = r,
                              !.cert = cert, !.active = TRUE]
  <1>1. key \in Nat /\ te \in Nat /\ cert \in Certs  BY CertOfRoster DEF Rosters
  <1>2. now = WithAuthority(m, d, r)  BY DEF WithAuthority
  <1>3. m.pinned /\ cert # NoCert /\ cert.key = key
    BY DEF Sound, HandsOver, Genuine
  <1>4. r.replaces = m.key /\ key # m.key
        /\ r.epoch = m.roster.epoch + 1 /\ r.previous = m.roster.id
    BY DEF HandsOver
  <1> HIDE DEF key, te, cert
  <1>5. /\ now \in Memberships /\ now.key = key /\ now.roster = r /\ now.cert = cert
        /\ now.active = TRUE /\ now.pinned = m.pinned
    BY <1>1 DEF Memberships
  <1> HIDE DEF now
  <1>6. NextBelief(m, now, d)
    BY <1>3, <1>4, <1>5 DEF NextBelief, key, cert
  <1> QED  BY <1>2, <1>5, <1>6

LEMMA ApprovesFollows ==
  ASSUME NEW m \in Memberships, NEW d \in Devices, NEW r \in Rosters, NEW answered \in Certs,
         Sound(m, d), Approves(m, d, Proposed(m, d, r, answered), r)
  PROVE  /\ WithRoster(m, d, Proposed(m, d, r, answered), r) \in Memberships
         /\ NextBelief(m, WithRoster(m, d, Proposed(m, d, r, answered), r), d)
  <1> DEFINE cert == Proposed(m, d, r, answered)
             active == r.certs[d] # NoCert
             now == [m EXCEPT !.roster = r, !.cert = cert, !.active = active]
  <1>1. cert \in Certs /\ active \in BOOLEAN
    <2>1. r.certs[d] \in Certs  BY CertOfRoster
    <2>2. m.cert \in Certs  BY DEF Memberships
    <2>3. cert \in {r.certs[d], m.cert, answered}  BY DEF Proposed
    <2>4. active \in BOOLEAN  OBVIOUS
    <2> HIDE DEF cert, active
    <2> QED  BY <2>1, <2>2, <2>3, <2>4
  <1>2. now = WithRoster(m, d, cert, r)  BY DEF WithRoster
  <1>3. /\ m.pinned /\ cert.key = m.key /\ r.key = m.key
        /\ r.certs[d] \in {NoCert, cert}
        /\ Bootstraps(m, d, r) \/ Follows(m, r)
    BY DEF Approves
  <1>4. cert # NoCert
    <2>1. CASE Bootstraps(m, d, r)  BY <2>1 DEF Bootstraps, Proposed
    <2>2. CASE Follows(m, r)
      <3>1. m.cert # NoCert  BY <2>2 DEF Follows, Sound
      <3> QED  BY <3>1 DEF Proposed
    <2> QED  BY <1>3, <2>1, <2>2
  <1>5. active <=> r.certs[d] = cert  BY <1>3, <1>4
  <1> HIDE DEF cert, active
  <1>6. /\ now \in Memberships /\ now.key = m.key /\ now.roster = r /\ now.cert = cert
        /\ now.active = active /\ now.pinned = m.pinned
    BY <1>1 DEF Memberships
  <1> HIDE DEF now
  <1>7. NextBelief(m, now, d)
    <2>1. CASE Bootstraps(m, d, r)
      BY <1>3, <1>4, <1>5, <1>6, <2>1 DEF NextBelief, Bootstraps, active
    <2>2. CASE Follows(m, r)
      BY <1>3, <1>4, <1>5, <1>6, <2>2 DEF NextBelief, Follows, VerifyCertificateTransitions
    <2> QED  BY <1>3, <2>1, <2>2
  <1> QED  BY <1>2, <1>6, <1>7 DEF cert

LEMMA DroppedOK ==
  ASSUME JobsOK, NEW j \in Jobs, jobs[j].rosters # <<>>
  PROVE  Tail(jobs[j].rosters) \in Seq(Rosters) /\ AllGenuine(Tail(jobs[j].rosters))
  <1> DEFINE s == jobs[j].rosters
  <1>1. s \in Seq(Rosters) /\ AllGenuine(s)  BY DEF JobsOK, JobOK, JobTypes
  <1>2. s # <<>>  OBVIOUS
  <1> HIDE DEF s
  <1>3. /\ Tail(s) \in Seq(Rosters) /\ Len(Tail(s)) = Len(s) - 1
        /\ \A i \in 1..Len(Tail(s)) : Tail(s)[i] = s[i + 1]
    BY <1>1, <1>2, HeadTailProperties
  <1>4. \A i \in 1..Len(Tail(s)) : i + 1 \in 1..Len(s)  BY <1>1, <1>3
  <1>5. AllGenuine(Tail(s))  BY <1>1, <1>3, <1>4 DEF AllGenuine
  <1> QED  BY <1>3, <1>5 DEF s

LEMMA VerifyKeeps ==
  ASSUME DevicesAssumption, MembershipInv, NEW j \in Jobs, Verify(j)
  PROVE  MembershipInv'
  <1>1. JobsOK /\ ConnectionOK /\ BeliefsOK  BY DEF MembershipInv
  <1> DEFINE m == MembershipOf(j)
             d == jobs[j].dev
             s == jobs[j].rosters
             r == Head(s)
             answered == jobs[j].answer.cert
             cert == Proposed(m, d, r, answered)
  <1>2. d \in Devices /\ d # 0 /\ m \in Memberships /\ Sound(m, d)
    BY <1>1, HasBelief DEF Verify, At
  <1>3. jobs[j] \in JobTypes /\ JobOK(jobs[j])  BY <1>1 DEF JobsOK
  <1>4. s \in Seq(Rosters) /\ s # <<>> /\ AllGenuine(s)
    BY <1>3 DEF Verify, JobTypes, JobOK
  <1>5. r \in Rosters /\ Genuine(r) /\ answered \in Certs
    <2>1. answered \in Certs  BY <1>3 DEF JobTypes
    <2> HIDE DEF s, answered
    <2>2. Head(s) = s[1] /\ 1 \in 1..Len(s)  BY <1>4
    <2> QED  BY <1>4, <2>1, <2>2 DEF AllGenuine
  <1>6. CASE Throws(j)  BY <1>1, <1>6, ThrowsOK, OnlyJobs DEF Verify
  <1>7. CASE jobs' = Dropped(j) /\ UNCHANGED connectionVars
    <2> DEFINE t == Tail(s)
               q == [jobs[j] EXCEPT !.rosters = t]
    <2>1. t \in Seq(Rosters) /\ AllGenuine(t)  BY <1>1, <1>4, DroppedOK
    <2>2. jobs' = [jobs EXCEPT ![j] = q]  BY <1>7 DEF Dropped
    <2> HIDE DEF t
    <2>3. q \in JobTypes /\ q.at = jobs[j].at /\ q.dev = d /\ q.rosters = t
      BY <1>3, <2>1 DEF JobTypes
    <2>4. jobs[j].at = "roster"  BY DEF Verify, At
    <2> HIDE DEF q
    <2>5. JobOK(q)  BY <1>2, <2>1, <2>3, <2>4 DEF JobOK
    <2>6. JobsOK'  BY <1>1, <2>2, <2>5, SetJob
    <2> QED  BY <1>1, <1>7, <2>6, OnlyJobs DEF Verify, ConnectionOK
  <1>8. ASSUME NEW next \in Memberships, NextBelief(m, next, d),
               jobs' = [jobs EXCEPT ![j].at = "write", ![j].seen = m, ![j].proposed = next],
               UNCHANGED connectionVars
        PROVE  MembershipInv'
    <2> DEFINE q == [jobs[j] EXCEPT !.at = "write", !.seen = m, !.proposed = next]
    <2>1. jobs' = [jobs EXCEPT ![j] = q]  BY <1>8
    <2> HIDE DEF m, r, s
    <2>2. /\ q \in JobTypes /\ q.at = "write" /\ q.dev = d
          /\ q.rosters = jobs[j].rosters /\ q.seen = m /\ q.proposed = next
      BY <1>2, <1>3, <1>8 DEF JobTypes
    <2> HIDE DEF q
    <2>3. JobOK(q)  BY <1>2, <1>3, <1>4, <1>8, <2>2 DEF JobOK, s
    <2>4. JobsOK'  BY <1>1, <2>1, <2>3, SetJob
    <2> QED  BY <1>1, <1>8, <2>4, OnlyJobs DEF Verify, ConnectionOK
  <1>9. \/ Throws(j)
        \/ jobs' = Dropped(j) /\ UNCHANGED connectionVars
        \/ /\ HandsOver(m, d, r) /\ UNCHANGED connectionVars
           /\ jobs' = [jobs EXCEPT ![j].at = "write", ![j].seen = m,
                                   ![j].proposed = WithAuthority(m, d, r)]
        \/ /\ Approves(m, d, cert, r) /\ UNCHANGED connectionVars
           /\ jobs' = [jobs EXCEPT ![j].at = "write", ![j].seen = m,
                                   ![j].proposed = WithRoster(m, d, cert, r)]
    BY DEF Verify
  <1> HIDE DEF m, d, r, s, answered
  <1>10. CASE /\ HandsOver(m, d, r) /\ UNCHANGED connectionVars
              /\ jobs' = [jobs EXCEPT ![j].at = "write", ![j].seen = m,
                                      ![j].proposed = WithAuthority(m, d, r)]
    <2>1. WithAuthority(m, d, r) \in Memberships /\ NextBelief(m, WithAuthority(m, d, r), d)
      BY <1>2, <1>5, <1>10, HandsOverFollows
    <2> QED  BY <1>8, <1>10, <2>1
  <1>11. CASE /\ Approves(m, d, cert, r) /\ UNCHANGED connectionVars
              /\ jobs' = [jobs EXCEPT ![j].at = "write", ![j].seen = m,
                                      ![j].proposed = WithRoster(m, d, cert, r)]
    <2>1. /\ WithRoster(m, d, cert, r) \in Memberships
          /\ NextBelief(m, WithRoster(m, d, cert, r), d)
      BY <1>2, <1>5, <1>11, ApprovesFollows
    <2> QED  BY <1>8, <1>11, <2>1
  <1> QED  BY <1>6, <1>7, <1>9, <1>10, <1>11

\* What a belief becomes verifies.
LEMMA NextIsSound ==
  ASSUME NEW was, NEW now, NEW d \in Devices, NextBelief(was, now, d)
  PROVE  Sound(now, d)
  BY DEF NextBelief, Sound

LEMMA WriteKeeps ==
  ASSUME DevicesAssumption, MembershipInv, NEW j \in Jobs, Write(j)
  PROVE  MembershipInv'
  <1>1. JobsOK /\ ConnectionOK /\ BeliefsOK  BY DEF MembershipInv
  <1>2. jobs[j].dev \in Devices /\ jobs[j].dev # 0  BY <1>1, HasBelief DEF Write, At
  <1>3. /\ jobs[j] \in JobTypes /\ jobs[j].rosters # <<>>
        /\ NextBelief(jobs[j].seen, jobs[j].proposed, jobs[j].dev)
    BY <1>1 DEF Write, At, JobsOK, JobOK
  <1>4. CASE Throws(j) /\ UNCHANGED memberships
    BY <1>1, <1>4, ThrowsOK, OnlyJobs DEF Write
  <1>5. CASE /\ memberships' = [memberships EXCEPT ![jobs[j].dev] = jobs[j].proposed]
             /\ jobs' = [Dropped(j) EXCEPT ![j].at = "roster", ![j].seen = Absent,
                                           ![j].proposed = Absent]
             /\ UNCHANGED connectionVars
    <2> DEFINE t == Tail(jobs[j].rosters)
               q == [jobs[j] EXCEPT !.rosters = t, !.at = "roster", !.seen = Absent,
                                    !.proposed = Absent]
    <2>1. t \in Seq(Rosters) /\ AllGenuine(t)  BY <1>1, <1>3, DroppedOK
    <2>2. Absent \in Memberships  BY BlankValues
    <2> HIDE DEF Absent
    <2>3. jobs' = [jobs EXCEPT ![j] = q]  BY <1>1, <1>5 DEF Dropped, JobsOK
    <2> HIDE DEF t
    <2>4. q \in JobTypes /\ q.at = "roster" /\ q.dev = jobs[j].dev /\ q.rosters = t
      BY <1>3, <2>1, <2>2 DEF JobTypes
    <2> HIDE DEF q
    <2>5. JobOK(q)  BY <1>2, <2>1, <2>4 DEF JobOK
    <2>6. JobsOK'  BY <1>1, <2>3, <2>5, SetJob
    <2>7. BeliefsOK'
      <3>1. jobs[j].proposed \in Memberships  BY <1>3 DEF JobTypes
      <3>2. Sound(jobs[j].proposed, jobs[j].dev)  BY <1>2, <1>3, NextIsSound
      <3>3. \A e \in Devices : memberships'[e] = IF e = jobs[j].dev THEN jobs[j].proposed
                                                 ELSE memberships[e]
        BY <1>1, <1>5 DEF BeliefsOK
      <3>4. memberships' \in [Devices -> Memberships]
        BY <1>1, <1>5, <3>1 DEF BeliefsOK
      <3>5. \A e \in Devices : Sound(memberships'[e], e)
        BY <1>1, <3>2, <3>3 DEF BeliefsOK
      <3> QED  BY <3>4, <3>5 DEF BeliefsOK, Sound
    <2>8. ConnectionOK'  BY <1>1, <1>5 DEF ConnectionOK
    <2> QED
      BY <2>6, <2>7, <2>8 DEF Write, MembershipInv, RelayOK, StoresOK, JournalOK, PageOK,
                              AllGenuine, Genuine
  <1> QED  BY <1>4, <1>5 DEF Write

LEMMA AcceptKeeps ==
  ASSUME DevicesAssumption, MembershipInv, NEW j \in Jobs, Accept(j)
  PROVE  MembershipInv'
  <1>1. JobsOK /\ ConnectionOK /\ BeliefsOK  BY DEF MembershipInv
  <1>2. /\ jobs[j].dev # 0 /\ MembershipOf(j) \in Memberships
        /\ jobs[j] \in JobTypes /\ JobOK(jobs[j])
    BY <1>1, HasBelief DEF Accept, At, JobsOK
  <1>3. CASE Throws(j)  BY <1>1, <1>3, ThrowsOK, OnlyJobs DEF Accept
  <1>4. CASE Refreshed(j, "approved", MembershipOf(j).active)
    <2>1. MembershipOf(j).active \in BOOLEAN /\ "approved" \in States
      BY <1>2 DEF Memberships, States
    <2>2. JobsOK' /\ ConnectionOK'  BY <1>1, <1>2, <1>4, <2>1, RefreshedOK
    <2> QED  BY <2>2, OnlyJobs DEF Accept
  <1>5. CASE /\ jobs' = [jobs EXCEPT ![j].at = "ask", ![j].base = 0, ![j].answer = NoAnswer]
             /\ UNCHANGED connectionVars
    <2> DEFINE r == [jobs[j] EXCEPT !.at = "ask", !.base = 0, !.answer = NoAnswer]
    <2>1. jobs' = [jobs EXCEPT ![j] = r]  BY <1>5
    <2>2. NoAnswer \in [state : States, active : BOOLEAN, latest : Nat, cert : Certs, key : Nat]
      BY BlankValues DEF NoAnswer, States
    <2> HIDE DEF NoAnswer
    <2>3. r \in JobTypes /\ r.at = "ask" /\ r.dev = jobs[j].dev /\ r.rosters = jobs[j].rosters
      BY <1>2, <2>2 DEF JobTypes
    <2> HIDE DEF r
    <2>4. JobOK(r)  BY <1>2, <2>3 DEF JobOK
    <2>5. JobsOK'  BY <1>1, <2>1, <2>4, SetJob
    <2> QED  BY <1>1, <1>5, <2>5, OnlyJobs DEF Accept, ConnectionOK
  <1> QED  BY <1>3, <1>4, <1>5 DEF Accept

-----------------------------------------------------------------------------
(* The promotion, the connection and the reset.                            *)

LEMMA ResultKeeps ==
  ASSUME DevicesAssumption, MembershipInv, NEW j \in Jobs, Result(j)
  PROVE  MembershipInv'
  <1>1. JobsOK /\ ConnectionOK  BY DEF MembershipInv
  <1>2. jobs[j].dev # 0  BY <1>1 DEF Result, At, JobsOK, JobOK
  <1>3. JobsOK' /\ ConnectionOK'
    <2>1. CASE JobGoes(j, "promote") /\ UNCHANGED connectionVars
      BY <1>1, <1>2, <2>1, JobGoesOK DEF Steps, ConnectionOK
    <2>2. CASE NetworkFails(j) \/ Throws(j)
      BY <1>1, <2>2, NetworkFailsOK, ThrowsOK
    <2> QED  BY <2>1, <2>2 DEF Result
  <1> QED  BY <1>3, OnlyJobs DEF Result

LEMMA CheckPromotionKeeps ==
  ASSUME DevicesAssumption, MembershipInv, NEW j \in Jobs, CheckPromotion(j)
  PROVE  MembershipInv'
  <1>1. JobsOK /\ ConnectionOK /\ JournalOK  BY DEF MembershipInv
  <1>2. jobs[j] \in JobTypes /\ AllGenuine(jobs[j].rosters)  BY <1>1 DEF JobsOK, JobOK
  <1>3. CASE Throws(j)  BY <1>1, <1>3, ThrowsOK, OnlyJobs DEF CheckPromotion
  <1>4. CASE /\ journal # NoEntry
             /\ jobs' = [jobs EXCEPT ![j].at = "save", ![j].dev = journal.dev,
                                     ![j].pending = journal, ![j].answer = NoAnswer]
             /\ UNCHANGED connectionVars
    <2> DEFINE r == [jobs[j] EXCEPT !.at = "save", !.dev = journal.dev, !.pending = journal,
                                    !.answer = NoAnswer]
    <2>1. jobs' = [jobs EXCEPT ![j] = r]  BY <1>4
    <2>2. NoAnswer \in [state : States, active : BOOLEAN, latest : Nat, cert : Certs, key : Nat]
      BY BlankValues DEF NoAnswer, States
    <2>3. journal \in Entries /\ journal.dev \in 0..MaxDevices /\ journal.dev # 0
      BY <1>1, <1>4 DEF JournalOK, Entries
    <2> HIDE DEF NoAnswer
    <2>4. r \in JobTypes /\ r.at = "save" /\ r.dev = journal.dev
          /\ r.rosters = jobs[j].rosters
      BY <1>2, <2>2, <2>3 DEF JobTypes
    <2> HIDE DEF r
    <2>5. JobOK(r)  BY <1>2, <2>3, <2>4 DEF JobOK
    <2>6. JobsOK'  BY <1>1, <2>1, <2>5, SetJob
    <2> QED  BY <1>1, <1>4, <2>6, OnlyJobs DEF CheckPromotion, ConnectionOK
  <1> QED  BY <1>3, <1>4 DEF CheckPromotion

LEMMA SaveNewKeeps ==
  ASSUME DevicesAssumption, MembershipInv, NEW j \in Jobs, SaveNew(j)
  PROVE  MembershipInv'
  <1>1. JobsOK /\ ConnectionOK /\ StoresOK  BY DEF MembershipInv
  <1>2. jobs[j].dev # 0 /\ jobs[j].dev \in 0..MaxDevices
    BY <1>1 DEF SaveNew, At, JobsOK, JobOK, JobTypes
  <1>3. JobsOK' /\ ConnectionOK'
    <2>1. CASE JobGoes(j, "clear") /\ UNCHANGED connectionVars
      BY <1>1, <1>2, <2>1, JobGoesOK DEF Steps, ConnectionOK
    <2>2. CASE Throws(j)  BY <1>1, <2>2, ThrowsOK
    <2> QED  BY <2>1, <2>2 DEF SaveNew
  <1>4. credential' \in 0..MaxDevices
    BY <1>1, <1>2 DEF SaveNew, StoresOK
  <1>5. StoresOK'  BY <1>1, <1>4 DEF SaveNew, StoresOK
  <1> QED
    BY <1>3, <1>5 DEF SaveNew, MembershipInv, RelayOK, JournalOK, BeliefsOK, Sound, PageOK,
                      AllGenuine, Genuine

LEMMA ClearPendingKeeps ==
  ASSUME DevicesAssumption, MembershipInv, NEW j \in Jobs, ClearPending(j)
  PROVE  MembershipInv'
  <1>1. JobsOK /\ ConnectionOK /\ JournalOK  BY DEF MembershipInv
  <1>2. JobsOK' /\ ConnectionOK'
    <2>1. CASE JobGoes(j, "connect") /\ UNCHANGED connectionVars
      BY <1>1, <2>1, JobGoesOK DEF Steps, ConnectionOK
    <2>2. CASE Throws(j)  BY <1>1, <2>2, ThrowsOK
    <2> QED  BY <2>1, <2>2 DEF ClearPending
  <1>3. JournalOK'
    <2>1. NoEntry \in Entries  BY BlankValues
    <2> HIDE DEF NoEntry
    <2> QED  BY <1>1, <2>1 DEF ClearPending, JournalOK
  <1> QED
    BY <1>2, <1>3 DEF ClearPending, MembershipInv, RelayOK, StoresOK, BeliefsOK, Sound, PageOK,
                      AllGenuine, Genuine

\* A refresh of the stored credential begins before a connection.
LEMMA BeginRefreshOK ==
  ASSUME DevicesAssumption, JobsOK, StoresOK, NEW j \in Jobs, credential # 0,
         NEW step, step \in {"ask", "open"},
         jobs' = [jobs EXCEPT ![j] = [IdleJob EXCEPT !.at = step, !.live = TRUE,
                                                     !.goal = "active", !.dev = credential]]
  PROVE  JobsOK'
  <1> DEFINE r == [IdleJob EXCEPT !.at = step, !.live = TRUE, !.goal = "active",
                                  !.dev = credential]
  <1>1. JobOK(IdleJob)  BY IdleJobOK
  <1>2. credential \in 0..MaxDevices  BY DEF StoresOK
  <1> HIDE DEF IdleJob
  <1>3. /\ r \in JobTypes /\ r.at = step /\ r.dev = credential
        /\ r.rosters = IdleJob.rosters
    BY <1>1, <1>2 DEF JobOK, JobTypes
  <1>4. jobs' = [jobs EXCEPT ![j] = r]  OBVIOUS
  <1> HIDE DEF r
  <1>5. JobOK(r)  BY <1>1, <1>3 DEF JobOK
  <1> QED  BY <1>4, <1>5, SetJob

LEMMA LoadCredentialKeeps ==
  ASSUME DevicesAssumption, MembershipInv, NEW j \in Jobs, LoadCredential(j)
  PROVE  MembershipInv'
  <1>1. JobsOK /\ ConnectionOK /\ StoresOK  BY DEF MembershipInv
  <1>2. JobsOK'
    <2>1. CASE Ends(j)  BY <1>1, <2>1, EndsOK
    <2>2. CASE credential # 0 /\ ~Ends(j)
      <3> DEFINE step == IF memberships[credential].pinned THEN "ask" ELSE "open"
      <3>1. jobs' = [jobs EXCEPT ![j] = [IdleJob EXCEPT !.at = step, !.live = TRUE,
                                                  !.goal = "active", !.dev = credential]]
        BY <2>2 DEF LoadCredential
      <3>2. step \in {"ask", "open"}  OBVIOUS
      <3> HIDE DEF step, IdleJob
      <3> QED  BY <1>1, <2>2, <3>1, <3>2, BeginRefreshOK
    <2> QED  BY <2>1, <2>2 DEF LoadCredential
  <1>3. ConnectionOK'  BY <1>1 DEF LoadCredential, ConnectionOK
  <1> QED  BY <1>2, <1>3, OnlyJobs DEF LoadCredential

LEMMA OpenKeeps ==
  ASSUME DevicesAssumption, MembershipInv, NEW j \in Jobs, Open(j)
  PROVE  MembershipInv'
  <1>1. JobsOK /\ ConnectionOK  BY DEF MembershipInv
  <1>2. JobsOK' /\ ConnectionOK'
    <2>1. CASE Throws(j)  BY <1>1, <2>1, ThrowsOK
    <2>2. CASE Ends(j) /\ ~Throws(j)
      <3>1. JobsOK'  BY <1>1, <2>2, EndsOK
      <3>2. ConnectionOK'
        <4>1. CASE UNCHANGED connectionVars  BY <1>1, <4>1 DEF ConnectionOK
        <4>2. CASE linked' = TRUE /\ alarms' = [reconnect |-> FALSE, refresh |-> TRUE]
          BY <4>2 DEF ConnectionOK
        <4> QED  BY <2>2, <4>1, <4>2 DEF Open
      <3> QED  BY <3>1, <3>2
    <2> QED  BY <2>1, <2>2 DEF Open
  <1>3. StoresOK'  BY DEF Open, MembershipInv, StoresOK
  <1> QED
    BY <1>2, <1>3 DEF Open, MembershipInv, RelayOK, JournalOK, BeliefsOK, Sound, PageOK,
                      AllGenuine, Genuine

LEMMA RefreshWhileOnlineKeeps ==
  ASSUME DevicesAssumption, MembershipInv, NEW j \in Jobs, RefreshWhileOnline(j)
  PROVE  MembershipInv'
  <1>1. JobsOK /\ ConnectionOK /\ StoresOK  BY DEF MembershipInv
  <1>2. JobsOK' /\ ConnectionOK'
    <2>1. CASE credential = 0
      BY <1>1, <2>1, FailClosedOK DEF RefreshWhileOnline, ConnectionOK
    <2>2. CASE credential # 0 /\ memberships[credential].pinned
      <3> DEFINE r == [IdleJob EXCEPT !.at = "ask", !.goal = "online", !.dev = credential]
      <3>1. jobs' = [jobs EXCEPT ![j] = r]  BY <2>2 DEF RefreshWhileOnline
      <3>2. JobOK(IdleJob) /\ credential \in 0..MaxDevices  BY <1>1, IdleJobOK DEF StoresOK
      <3> HIDE DEF IdleJob
      <3>3. /\ r \in JobTypes /\ r.at = "ask" /\ r.dev = credential
            /\ r.rosters = IdleJob.rosters
        BY <3>2 DEF JobOK, JobTypes
      <3> HIDE DEF r
      <3>4. JobOK(r)  BY <2>2, <3>2, <3>3 DEF JobOK
      <3>5. JobsOK'  BY <1>1, <3>1, <3>4, SetJob
      <3> QED  BY <1>1, <2>2, <3>5 DEF RefreshWhileOnline, ConnectionOK
    <2>3. CASE credential # 0 /\ ~memberships[credential].pinned
      <3>1. UNCHANGED <<jobs, linked>> /\ alarms' = [alarms EXCEPT !.refresh = FALSE]
        BY <2>3 DEF RefreshWhileOnline
      <3> QED  BY <1>1, <3>1 DEF ConnectionOK, JobsOK, JobOK
    <2> QED  BY <2>1, <2>2, <2>3
  <1> QED  BY <1>2, OnlyJobs DEF RefreshWhileOnline

LEMMA LostKeeps ==
  ASSUME DevicesAssumption, MembershipInv, Drops \/ Stops
  PROVE  MembershipInv'
  <1>1. JobsOK /\ ConnectionOK /\ StoresOK  BY DEF MembershipInv
  <1>2. faults' \in Seq(FaultKinds)
    <2>1. PICK kind \in FaultKinds : faults' = Append(faults, kind)
      BY DEF Drops, Stops, Fault, FaultKinds
    <2>2. faults \in Seq(FaultKinds)  BY <1>1 DEF StoresOK
    <2> QED  BY <2>1, <2>2
  <1>3. CASE Drops
    <2>1. ConnectionOK'  BY <1>1, <1>3 DEF Drops, ConnectionOK
    <2>2. StoresOK'  BY <1>1, <1>2, <1>3 DEF Drops, StoresOK
    <2> QED
      BY <1>3, <2>1, <2>2 DEF Drops, MembershipInv, RelayOK, JournalOK, BeliefsOK, Sound,
                              PageOK, JobsOK, JobOK, AllGenuine, Genuine
  <1>4. CASE Stops
    <2>1. JobsOK'
      <3>1. JobOK(IdleJob)  BY IdleJobOK
      <3>2. jobs' = [j \in Jobs |-> IdleJob]  BY <1>4 DEF Stops
      <3> HIDE DEF IdleJob
      <3> QED  BY <3>1, <3>2 DEF JobsOK, JobOK
    <2>2. StoresOK'
      <3>1. resets' \in [Runners -> [at : {"idle", "begin", "stop", "clear"},
                                     left : SUBSET Stores]]
        BY <1>4 DEF Stops, IdleReset
      <3> QED  BY <1>1, <1>2, <1>4, <3>1 DEF Stops, StoresOK
    <2>3. ConnectionOK'  BY <1>1, <1>4 DEF Stops, ConnectionOK
    <2> QED
      BY <1>4, <2>1, <2>2, <2>3 DEF Stops, MembershipInv, RelayOK, JournalOK, BeliefsOK, Sound,
                                    PageOK, AllGenuine, Genuine
  <1> QED  BY <1>3, <1>4

LEMMA ResetGoesOK ==
  ASSUME StoresOK, NEW r \in Runners, NEW step, step \in {"begin", "stop"}, ResetGoes(r, step)
  PROVE  resets' \in [Runners -> [at : {"idle", "begin", "stop", "clear"},
                                  left : SUBSET Stores]]
  BY DEF StoresOK, ResetGoes

LEMMA ResetKeeps ==
  ASSUME DevicesAssumption, MembershipInv, Reset
  PROVE  MembershipInv'
  <1>1. JobsOK /\ ConnectionOK /\ StoresOK /\ JournalOK /\ BeliefsOK  BY DEF MembershipInv
  <1> DEFINE ResetsOK == resets \in [Runners -> [at : {"idle", "begin", "stop", "clear"},
                                                 left : SUBSET Stores]]
  <1>2. CASE Begin \/ RecordIntent \/ Resume
    <2>1. "button" \in Runners  BY DEF Runners
    <2>2. ResetsOK'  BY <1>1, <1>2, <2>1, ResetGoesOK DEF Begin, RecordIntent, Resume
    <2>3. StoresOK'  BY <1>1, <1>2, <2>2 DEF Begin, RecordIntent, Resume, StoresOK
    <2> QED
      BY <1>2, <2>3 DEF Begin, RecordIntent, Resume, MembershipInv, RelayOK, ConnectionOK,
                        JournalOK, BeliefsOK, Sound, PageOK, JobsOK, JobOK, AllGenuine, Genuine
  <1>3. ASSUME NEW r \in Runners, StopTransport(r)  PROVE  MembershipInv'
    <2>1. JobsOK'  BY <1>1, <1>3, AllSupersededOK DEF StopTransport
    <2>2. ConnectionOK'  BY <1>3 DEF StopTransport, ConnectionOK
    <2>3. ResetsOK'
      <3> DEFINE q == [at |-> "clear", left |-> Stores]
      <3>1. q \in [at : {"idle", "begin", "stop", "clear"}, left : SUBSET Stores]
        OBVIOUS
      <3>2. resets' = [resets EXCEPT ![r] = q]  BY <1>3 DEF StopTransport
      <3> HIDE DEF q
      <3> QED  BY <1>1, <3>1, <3>2 DEF StoresOK
    <2>4. StoresOK'  BY <1>1, <1>3, <2>3 DEF StopTransport, StoresOK
    <2> QED
      BY <1>3, <2>1, <2>2, <2>4 DEF StopTransport, MembershipInv, RelayOK, JournalOK,
                                    BeliefsOK, Sound, PageOK, AllGenuine, Genuine
  <1>4. ASSUME NEW r \in Runners, NEW store \in Stores, ClearStore(r, store)
        PROVE  MembershipInv'
    <2>1. ResetsOK'
      <3>1. resets[r].left \ {store} \in SUBSET Stores  BY <1>1 DEF StoresOK
      <3>2. resets' = [resets EXCEPT ![r] = [resets[r] EXCEPT !.left = resets[r].left \ {store}]]
        BY <1>4 DEF ClearStore
      <3> QED  BY <1>1, <3>1, <3>2 DEF StoresOK
    <2>2. credential' \in 0..MaxDevices /\ identity' \in Nat
      BY <1>1, <1>4 DEF ClearStore, StoresOK, DevicesAssumption
    <2>3. StoresOK'  BY <1>1, <1>4, <2>1, <2>2 DEF ClearStore, StoresOK
    <2>4. NoEntry \in Entries /\ Absent \in Memberships /\ Absent.roster = NoRoster
      BY BlankValues
    <2> HIDE DEF NoEntry, Absent
    <2>5. JournalOK'
      <3>1. journal' \in {NoEntry, journal}  BY <1>4 DEF ClearStore
      <3> QED  BY <1>1, <2>4, <3>1 DEF JournalOK
    <2>6. BeliefsOK'
      <3>1. CASE memberships' = memberships  BY <1>1, <3>1 DEF BeliefsOK, Sound
      <3>2. CASE memberships' = [d \in Devices |-> Absent]
        BY <2>4, <3>2 DEF BeliefsOK, Sound
      <3> QED  BY <1>4, <3>1, <3>2 DEF ClearStore
    <2> QED
      BY <1>4, <2>3, <2>5, <2>6 DEF ClearStore, MembershipInv, RelayOK, ConnectionOK, PageOK,
                                    JobsOK, JobOK, AllGenuine, Genuine
  <1>5. ASSUME NEW r \in Runners, Finish(r)  PROVE  MembershipInv'
    <2>1. ResetsOK'  BY <1>1, <1>5 DEF Finish, StoresOK, IdleReset
    <2>2. StoresOK'  BY <1>1, <1>5, <2>1 DEF Finish, StoresOK
    <2> QED
      BY <1>5, <2>2 DEF Finish, MembershipInv, RelayOK, ConnectionOK, JournalOK, BeliefsOK,
                        Sound, PageOK, JobsOK, JobOK, AllGenuine, Genuine
  <1> QED  BY <1>2, <1>3, <1>4, <1>5 DEF Reset

-----------------------------------------------------------------------------
(* The invariant, and what it shows.                                       *)

LEMMA InitInv ==
  ASSUME DevicesAssumption, Init
  PROVE  MembershipInv
  <1>1. /\ NoEntry \in Entries /\ Absent \in Memberships /\ Absent.roster = NoRoster
        /\ FirstRoster \in Rosters /\ Genuine(FirstRoster) /\ JobOK(IdleJob)
    BY BlankValues, IdleJobOK
  <1>2. StoresOK /\ ConnectionOK
    <2>1. <<>> \in Seq(FaultKinds)  OBVIOUS
    <2>2. 0 \in 0..MaxDevices  BY DEF DevicesAssumption
    <2>3. resets \in [Runners -> [at : {"idle", "begin", "stop", "clear"},
                                  left : SUBSET Stores]]
      BY DEF Init, IdleReset
    <2> QED  BY <2>1, <2>2, <2>3 DEF Init, StoresOK, ConnectionOK
  <1> HIDE DEF NoEntry, Absent, FirstRoster, IdleJob
  <1>3. RelayOK
    BY <1>1 DEF Init, RelayOK, AllGenuine, States
  <1>4. JournalOK /\ BeliefsOK  BY <1>1 DEF Init, JournalOK, BeliefsOK, Sound
  <1>5. PageOK  BY <1>1 DEF Init, PageOK, IdlePage
  <1>6. JobsOK  BY <1>1 DEF Init, JobsOK, JobOK
  <1> QED  BY <1>2, <1>3, <1>4, <1>5, <1>6 DEF MembershipInv

LEMMA NextInv ==
  ASSUME DevicesAssumption, MembershipInv, [Next]_vars
  PROVE  MembershipInv'
  <1>1. CASE UNCHANGED vars
    BY <1>1 DEF vars, MembershipInv, RelayOK, StoresOK, ConnectionOK, JournalOK, BeliefsOK,
                Sound, PageOK, JobsOK, JobOK, AllGenuine, Genuine
  <1>2. ASSUME NEW j \in Jobs, JobStep(j)  PROVE  MembershipInv'
    BY <1>2, LoadPendingKeeps, JobPinsKeeps, JobWritesKeeps, JobSubmitsKeeps, AskKeeps,
       VerifyKeeps, WriteKeeps, AcceptKeeps, ResultKeeps, CheckPromotionKeeps, SaveNewKeeps,
       ClearPendingKeeps, LoadCredentialKeeps, OpenKeeps
    DEF JobStep
  <1>3. CASE Next
    BY <1>2, <1>3, AuthorityKeeps, RestoreKeeps, PageKeeps, StartKeeps, RequestFailsKeeps,
       RefreshWhileOnlineKeeps, LostKeeps, ResetKeeps
    DEF Next
  <1> QED  BY <1>1, <1>3

LEMMA InvImpliesTypes ==
  ASSUME MembershipInv
  PROVE  TypeOK
  BY DEF MembershipInv, RelayOK, StoresOK, ConnectionOK, JournalOK, BeliefsOK, PageOK, JobsOK,
         TypeOK

LEMMA InvImpliesNeverCorrupt ==
  ASSUME MembershipInv
  PROVE  NeverCorrupt
  BY DEF MembershipInv, BeliefsOK, NeverCorrupt, Sound, Verifies

LEMMA Invariance == Spec => []MembershipInv
  <1>1. Init => MembershipInv  BY InitInv, DevicesAssumption
  <1>2. MembershipInv /\ [Next]_vars => MembershipInv'  BY NextInv, DevicesAssumption
  <1> QED  BY <1>1, <1>2, PTL DEF Spec

(* Every variable of the membership holds what its part of the code can    *)
(* hold: the page, the jobs and the resets read no half of a record.       *)
THEOREM MembershipTypes == Spec => []TypeOK
  <1>1. MembershipInv => TypeOK  BY InvImpliesTypes
  <1> QED  BY <1>1, Invariance, PTL

(* What the membership store holds verifies when it is read back, however  *)
(* many jobs write it at once and whatever the relay goes back to.         *)
THEOREM BeliefsVerify == Spec => []NeverCorrupt
  <1>1. MembershipInv => NeverCorrupt  BY InvImpliesNeverCorrupt
  <1> QED  BY <1>1, Invariance, PTL

-----------------------------------------------------------------------------
(* The refinement.                                                         *)

\* The contract speaks of the same rosters.
LEMMA SameRosters ==
  /\ Contract!Devices = Devices /\ Contract!NoCert = NoCert /\ Contract!NoRoster = NoRoster
  /\ Contract!Absent = Absent /\ \A key : Contract!Pinned(key) = Pinned(key)
  <1>1. Contract!Devices = Devices /\ Contract!NoCert = NoCert
    BY DEF Contract!Devices, Devices, Contract!NoCert, NoCert
  <1>2. Contract!NoRoster = NoRoster  BY <1>1 DEF Contract!NoRoster, NoRoster
  <1>3. Contract!Absent = Absent  BY <1>1, <1>2 DEF Contract!Absent, Absent
  <1>4. \A key : Contract!Pinned(key) = Pinned(key)
    BY <1>3 DEF Contract!Pinned, Pinned
  <1> QED  BY <1>1, <1>2, <1>3, <1>4

LEMMA PinMapped ==
  ASSUME BeliefsOK, NEW d, NEW key, PinAuthority(d, key)
  PROVE  [Contract!Next]_memberships
  <1>1. CASE d \notin Devices \/ memberships[d].pinned
    BY <1>1 DEF PinAuthority, BeliefsOK
  <1>2. CASE d \in Devices /\ ~memberships[d].pinned
    <2>1. memberships' = [memberships EXCEPT ![d] = Pinned(key)]  BY <1>2 DEF PinAuthority
    <2>2. memberships'[d] = Pinned(key)  BY <1>2, <2>1 DEF BeliefsOK
    <2>3. Pinned(key).key = key  BY DEF Pinned, Absent
    <2> HIDE DEF Pinned
    <2>4. Contract!Trust(d)  BY <1>2, <2>1, <2>2, <2>3, SameRosters DEF Contract!Trust
    <2> QED  BY <1>2, <2>4, SameRosters DEF Contract!Next
  <1> QED  BY <1>1, <1>2

LEMMA WriteMapped ==
  ASSUME DevicesAssumption, JobsOK, BeliefsOK, NEW j \in Jobs, Write(j)
  PROVE  [Contract!Next]_memberships
  <1>1. CASE UNCHANGED memberships  BY <1>1
  <1>2. CASE memberships' # memberships
    <2> DEFINE d == jobs[j].dev
               now == jobs[j].proposed
    <2>1. d \in Devices  BY HasBelief DEF Write, At
    <2>2. memberships[d] = jobs[j].seen /\ memberships' = [memberships EXCEPT ![d] = now]
      BY <1>2 DEF Write, MembershipOf
    <2>3. NextBelief(memberships[d], now, d)  BY <2>2 DEF Write, At, JobsOK, JobOK
    <2>4. memberships'[d] = now  BY <2>1, <2>2 DEF BeliefsOK
    <2> HIDE DEF d, now
    <2>5. Contract!Believe(d)
      BY <2>2, <2>3, <2>4, SameRosters DEF NextBelief, Contract!Believe
    <2> QED  BY <2>1, <2>5, SameRosters DEF Contract!Next
  <1> QED  BY <1>1, <1>2

LEMMA NextMapped ==
  ASSUME DevicesAssumption, MembershipInv, [Next]_vars
  PROVE  [Contract!Next]_memberships
  <1>1. JobsOK /\ BeliefsOK  BY DEF MembershipInv
  <1>2. CASE UNCHANGED memberships  BY <1>2
  <1>3. ASSUME NEW j \in Jobs, JobStep(j)  PROVE  [Contract!Next]_memberships
    <2>1. CASE JobPins(j)  BY <1>1, <1>2, <2>1, PinMapped DEF JobPins
    <2>2. CASE Write(j)  BY <1>1, <2>2, WriteMapped
    <2>3. CASE ~JobPins(j) /\ ~Write(j)
      BY <1>2, <1>3, <2>3 DEF JobStep, LoadPending, JobWrites, JobSubmits, Ask, Verify, Accept,
         Result, CheckPromotion, SaveNew, ClearPending, LoadCredential, Open
    <2> QED  BY <2>1, <2>2, <2>3
  <1>4. CASE Page
    <2>1. CASE PagePins  BY <1>1, <1>2, <2>1, PinMapped DEF PagePins
    <2>2. CASE ~PagePins
      BY <1>2, <1>4, <2>2 DEF Page, Submit, Register, PrepareRegistration, PageWrites,
                              PageSubmits, PageCloses
    <2> QED  BY <2>1, <2>2
  <1>5. CASE Reset
    <2>1. ASSUME NEW r \in Runners, NEW store \in Stores, ClearStore(r, store)
          PROVE  [Contract!Next]_memberships
      BY <1>2, <2>1, SameRosters DEF ClearStore, Contract!Next, Contract!Forget
    <2>2. CASE Begin \/ RecordIntent \/ Resume
               \/ \E r \in Runners : StopTransport(r) \/ Finish(r)
      BY <1>2, <2>2 DEF Begin, RecordIntent, Resume, StopTransport, Finish
    <2> QED  BY <1>5, <2>1, <2>2 DEF Reset
  <1>6. CASE UNCHANGED vars  BY <1>2, <1>6 DEF vars
  <1>7. CASE Authority \/ Restore \/ Drops \/ Stops
    BY <1>2, <1>7 DEF Authority, Restore, Drops, Stops
  <1>8. ASSUME NEW j \in Jobs, Start(j) \/ RequestFails(j) \/ RefreshWhileOnline(j)
        PROVE  [Contract!Next]_memberships
    BY <1>2, <1>8 DEF Start, RequestFails, RefreshWhileOnline
  <1> QED  BY <1>3, <1>4, <1>5, <1>6, <1>7, <1>8 DEF Next

(* The device follows one chain: the first roster on trust, then each the  *)
(* next link of the last, with no fork, no gap and no way back, whatever   *)
(* the relay goes back to, whichever jobs write, wherever the worker ends. *)
THEOREM MembershipImplementsContract == Spec => FollowsOneChain
  <1>1. Init => Contract!Init  BY SameRosters DEF Init, Contract!Init
  <1>2. MembershipInv /\ [Next]_vars => [Contract!Next]_memberships
    BY NextMapped, DevicesAssumption
  <1> QED  BY <1>1, <1>2, Invariance, PTL DEF Spec, FollowsOneChain, Contract!Spec

-----------------------------------------------------------------------------
(* The journal and the relay keep in step.  Each registration has one      *)
(* proof: who sends it has it stored, who waits for an approval has seen   *)
(* the relay take it, and nobody but the page has a registration that is   *)
(* not stored yet.                                                         *)

Proven(d) == d \in Devices /\ enrolments[d] \in {"pending_approval", "approved"}
Known(d) ==
  d # 0 => /\ d \in Devices /\ registered[d] # 0
           /\ page.at = "prepare" => page.entry.dev # d
Told(d) == d # 0 => Proven(d) \/ restored
Ready(d) ==
  journal # NoEntry /\ journal.dev = d => journal.proof /\ journal.phase # "registered"
Awaiting == {"settle", "mark", "roster", "write"}

JournalFits ==
  /\ Known(journal.dev) /\ Known(credential)
  /\ journal # NoEntry =>
       /\ Proven(journal.dev) => journal.proof /\ journal.phase # "registered"
       /\ journal.phase = "pending-approval" => Told(journal.dev)
PageFits ==
  /\ page.at = "register" => page.entry.identity # 0
  /\ page.at \notin {"idle", "register"} => registered[page.entry.dev] # 0
  /\ page.at = "prepare" => ~Proven(page.entry.dev)
  /\ page.at = "submit" => Ready(page.entry.dev)
  /\ page.at = "mark" => Told(page.entry.dev)
JobFits(r) ==
  /\ Known(r.dev) /\ r.pending.dev \in {0, r.dev}
  /\ r.at = "submit" => Ready(r.dev)
  /\ r.at \in Awaiting => Told(r.dev)
StepInv == JournalFits /\ PageFits /\ \A j \in Jobs : JobFits(jobs[j])

LEMMA InStep ==
  ASSUME MembershipInv, StepInv
  PROVE  JournalInStep
  <1> SUFFICES ASSUME journal # NoEntry
               PROVE  LET state == enrolments[journal.dev] IN
                      /\ Rank(state) >= 2 => journal.proof /\ journal.phase # "registered"
                      /\ journal.phase = "pending-approval" => Rank(state) >= 2 \/ restored
    BY DEF JournalInStep
  <1> DEFINE state == enrolments[journal.dev]
  <1>1. journal.dev \in Devices /\ journal.dev # 0
    BY DEF MembershipInv, JournalOK, Entries, Devices, DevicesAssumption
  <1>2. state \in States  BY <1>1 DEF MembershipInv, RelayOK
  <1>3. Rank(state) >= 2 <=> state \in {"pending_approval", "approved"}
    <2> HIDE DEF state
    <2> QED  BY <1>2 DEF Rank, States
  <1> QED  BY <1>1, <1>3 DEF StepInv, JournalFits, Proven, Told

\* What a step does to a job unless it is about to send its proof.
Heard(d) == d \in Devices /\ enrolments'[d] = "pending_approval"
Calm(q, r) ==
  \/ r.at = q.at /\ r.dev = q.dev /\ r.pending = q.pending
  \/ /\ Known(r.dev) /\ r.pending.dev \in {0, r.dev}
     /\ r.at # "submit" /\ (r.at \in Awaiting => Told(r.dev) \/ Heard(r.dev))
Calmly == \A k \in Jobs : Calm(jobs[k], jobs'[k])

\* The journal is forgotten, or is further than it was.
Forward ==
  \/ journal' = NoEntry
  \/ /\ journal # NoEntry /\ journal'.dev = journal.dev
     /\ journal.proof => journal'.proof
     /\ journal.phase # "registered" => journal'.phase # "registered"
     /\ journal'.phase = "pending-approval" =>
          journal.phase = "pending-approval" \/ Told(journal.dev)

LEMMA SetCalm ==
  ASSUME JobsOK, NEW j \in Jobs, NEW r, Calm(jobs[j], r), jobs' = [jobs EXCEPT ![j] = r]
  PROVE  Calmly
  <1> SUFFICES ASSUME NEW k \in Jobs PROVE Calm(jobs[k], jobs'[k])  BY DEF Calmly
  <1>1. CASE k = j  BY <1>1 DEF JobsOK
  <1>2. CASE k # j
    <2>1. jobs'[k] = jobs[k]  BY <1>2 DEF JobsOK
    <2> QED  BY <2>1 DEF Calm
  <1> QED  BY <1>1, <1>2

LEMMA SupersededSetCalm ==
  ASSUME JobsOK, NEW j \in Jobs, NEW r, Calm(jobs[j], r), jobs' = [Superseded EXCEPT ![j] = r]
  PROVE  Calmly
  <1> SUFFICES ASSUME NEW k \in Jobs PROVE Calm(jobs[k], jobs'[k])  BY DEF Calmly
  <1>1. jobs' = [i \in Jobs |-> IF i = j THEN r ELSE Superseded[i]]  BY DEF Superseded
  <1>2. CASE k = j  BY <1>1, <1>2
  <1>3. CASE k # j
    <2>1. jobs'[k] = [jobs[k] EXCEPT !.live = FALSE]  BY <1>1, <1>3 DEF Superseded
    <2>2. jobs[k] \in JobTypes  BY DEF JobsOK
    <2>3. /\ jobs'[k].at = jobs[k].at /\ jobs'[k].dev = jobs[k].dev
          /\ jobs'[k].pending = jobs[k].pending
      BY <2>1, <2>2 DEF JobTypes
    <2> QED  BY <2>3 DEF Calm
  <1> QED  BY <1>2, <1>3

LEMMA AllSupersededCalm ==
  ASSUME JobsOK, jobs' = Superseded
  PROVE  Calmly
  <1> SUFFICES ASSUME NEW k \in Jobs PROVE Calm(jobs[k], jobs'[k])  BY DEF Calmly
  <1>1. jobs'[k] = [jobs[k] EXCEPT !.live = FALSE]  BY DEF Superseded
  <1>2. jobs[k] \in JobTypes  BY DEF JobsOK
  <1>3. /\ jobs'[k].at = jobs[k].at /\ jobs'[k].dev = jobs[k].dev
        /\ jobs'[k].pending = jobs[k].pending
    BY <1>1, <1>2 DEF JobTypes
  <1> QED  BY <1>3 DEF Calm

LEMMA IdleJobCalm ==
  ASSUME NEW q
  PROVE  Calm(q, IdleJob)
  BY DEF Calm, IdleJob, NoEntry, Known, Awaiting

LEMMA ThrowsCalm ==
  ASSUME JobsOK, NEW j \in Jobs, Ends(j) \/ FailClosed(j) \/ Throws(j) \/ NetworkFails(j)
  PROVE  Calmly
  <1>1. CASE jobs' = [jobs EXCEPT ![j] = IdleJob]  BY <1>1, IdleJobCalm, SetCalm
  <1>2. CASE jobs' = [Superseded EXCEPT ![j] = IdleJob]
    BY <1>2, IdleJobCalm, SupersededSetCalm
  <1> QED  BY <1>1, <1>2 DEF Ends, FailClosed, Throws, NetworkFails

LEMMA GoesCalm ==
  ASSUME JobsOK, NEW j \in Jobs, JobFits(jobs[j]), NEW r,
         r.dev = jobs[j].dev, r.pending = jobs[j].pending,
         r.at # "submit", r.at \in Awaiting => Told(jobs[j].dev),
         jobs' = [jobs EXCEPT ![j] = r]
  PROVE  Calmly
  <1>1. Calm(jobs[j], r)  BY DEF Calm, JobFits
  <1> QED  BY <1>1, SetCalm

LEMMA JobGoesCalm ==
  ASSUME JobsOK, NEW j \in Jobs, JobFits(jobs[j]), NEW step,
         step # "submit", step \in Awaiting => Told(jobs[j].dev), JobGoes(j, step)
  PROVE  Calmly
  <1> DEFINE r == [jobs[j] EXCEPT !.at = step]
  <1>1. jobs[j] \in JobTypes  BY DEF JobsOK
  <1>2. r.at = step /\ r.dev = jobs[j].dev /\ r.pending = jobs[j].pending
    BY <1>1 DEF JobTypes
  <1>3. jobs' = [jobs EXCEPT ![j] = r]  BY DEF JobGoes
  <1> HIDE DEF r
  <1> QED  BY <1>2, <1>3, GoesCalm

\* What keeps the journal in step, whoever does it.
LEMMA CalmKeeps ==
  ASSUME StepInv, Forward, Known(credential)', PageFits', Calmly,
         \A d : Known(d) => Known(d)',
         \A d : Known(d) /\ Told(d) => Told(d)',
         \A d : Proven(d)' => Proven(d) \/ Ready(d)
  PROVE  StepInv'
  <1>1. \A d : Ready(d) => Ready(d)'  BY DEF Ready, Forward
  <1>2. JournalFits'
    <2>1. Known(journal.dev)'
      <3>1. CASE journal' = NoEntry  BY <3>1 DEF Known, NoEntry
      <3>2. CASE journal'.dev = journal.dev
        BY <3>2 DEF StepInv, JournalFits, Known
      <3> QED  BY <3>1, <3>2 DEF Forward
    <2> SUFFICES ASSUME journal' # NoEntry
                 PROVE  /\ Proven(journal.dev)' =>
                             journal'.proof /\ journal'.phase # "registered"
                        /\ journal'.phase = "pending-approval" => Told(journal.dev)'
      BY <2>1 DEF JournalFits
    <2>2. PICK d : d = journal.dev /\ d = journal'.dev  BY DEF Forward
    <2>3. Proven(d)' => journal.proof /\ journal.phase # "registered"
      BY <2>2 DEF StepInv, JournalFits, Forward, Ready
    <2>4. Known(d) /\ (journal'.phase = "pending-approval" => Told(d))
      BY <2>2 DEF StepInv, JournalFits, Forward
    <2>5. journal'.phase = "pending-approval" => Told(d)'  BY <2>4
    <2>6. Proven(journal.dev)' => Proven(d)'  BY <2>2 DEF Proven
    <2>7. Told(d)' => Told(journal.dev)'  BY <2>2 DEF Told, Proven
    <2> QED  BY <2>3, <2>5, <2>6, <2>7 DEF Forward
  <1>3. ASSUME NEW j \in Jobs PROVE JobFits(jobs[j])'
    <2>1. PICK r : r = jobs'[j]  OBVIOUS
    <2>2. JobFits(jobs[j])  BY DEF StepInv
    <2>3. Calm(jobs[j], r)  BY <2>1 DEF Calmly
    <2>4. /\ Known(r.dev) /\ r.pending.dev \in {0, r.dev}
          /\ r.at = "submit" => Ready(r.dev)
          /\ r.at \in Awaiting => Told(r.dev) \/ Heard(r.dev)
      BY <2>2, <2>3 DEF Calm, JobFits
    <2>5. PICK d : d = r.dev  OBVIOUS
    <2>6. Heard(d) => Told(d)'  BY DEF Heard, Told, Proven
    <2>7. Known(d)' /\ (r.at = "submit" => Ready(d)') /\ (r.at \in Awaiting => Told(d)')
      BY <1>1, <2>4, <2>5, <2>6
    <2>8. Known(jobs[j].dev)'  BY <2>1, <2>5, <2>7 DEF Known
    <2>9. r.at = "submit" => Ready(jobs[j].dev)'  BY <2>1, <2>5, <2>7 DEF Ready
    <2>10. r.at \in Awaiting => Told(jobs[j].dev)'  BY <2>1, <2>5, <2>7 DEF Told, Proven
    <2> QED  BY <2>1, <2>4, <2>8, <2>9, <2>10 DEF JobFits
  <1> QED  BY <1>2, <1>3 DEF StepInv

\* Steps in which only the worker's own state changes.
LEMMA QuietKeeps ==
  ASSUME StepInv, Calmly,
         UNCHANGED <<enrolments, registered, page, restored, journal, credential>>
  PROVE  StepInv'
  <1>1. \A d : (Known(d)' <=> Known(d)) /\ (Told(d)' <=> Told(d)) /\ (Proven(d)' <=> Proven(d))
    BY DEF Known, Told, Proven
  <1>2. Forward  BY DEF Forward, StepInv, JournalFits
  <1>3. PageFits'
    BY DEF StepInv, PageFits, Ready, Told, Proven
  <1>4. Known(credential)'  BY DEF StepInv, JournalFits, Known
  <1> QED  BY <1>1, <1>2, <1>3, <1>4, CalmKeeps

-----------------------------------------------------------------------------
(* The steps of the worker and of the reset.                               *)

LEMMA BlankFields ==
  /\ IdleJob.dev = 0 /\ IdleJob.pending = NoEntry /\ IdleJob.at = "idle"
  /\ NoEntry.dev = 0
  BY DEF IdleJob, NoEntry

LEMMA StartStays ==
  ASSUME DevicesAssumption, MembershipInv, StepInv, NEW j \in Jobs,
         Start(j) \/ RefreshWhileOnline(j) \/ LoadCredential(j)
  PROVE  StepInv'
  <1>1. JobsOK  BY DEF MembershipInv
  <1>2. Known(credential) /\ Known(0)  BY DEF StepInv, JournalFits, Known
  <1>3. ASSUME NEW r, r.at \in {"load", "ask", "open"}, r.dev \in {0, credential},
               r.pending = NoEntry
        PROVE  Calm(jobs[j], r)
    BY <1>2, <1>3, BlankFields DEF Calm, Awaiting
  <1>4. Calmly
    <2>1. CASE Start(j)
      <3> DEFINE r == [IdleJob EXCEPT !.at = "load", !.live = TRUE]
      <3>1. jobs' = [Superseded EXCEPT ![j] = r]
        BY <2>1 DEF Start, Alarm, Asked, Connect
      <3>2. r.at = "load" /\ r.dev = 0 /\ r.pending = NoEntry
        BY DEF IdleJob
      <3> HIDE DEF r
      <3>3. Calm(jobs[j], r)  BY <1>3, <3>2
      <3> QED  BY <1>1, <3>1, <3>3, SupersededSetCalm
    <2>2. CASE RefreshWhileOnline(j)
      <3> DEFINE r == [IdleJob EXCEPT !.at = "ask", !.goal = "online", !.dev = credential]
      <3>1. CASE FailClosed(j)  BY <1>1, <3>1, ThrowsCalm
      <3>2. CASE jobs' = [jobs EXCEPT ![j] = r]
        <4>1. r.at = "ask" /\ r.dev = credential /\ r.pending = NoEntry
          BY DEF IdleJob
        <4> HIDE DEF r
        <4>2. Calm(jobs[j], r)  BY <1>3, <4>1
        <4> QED  BY <1>1, <3>2, <4>2, SetCalm
      <3>3. CASE UNCHANGED jobs  BY <3>3 DEF Calmly, Calm
      <3> QED  BY <2>2, <3>1, <3>2, <3>3 DEF RefreshWhileOnline
    <2>3. CASE LoadCredential(j)
      <3> DEFINE step == IF memberships[credential].pinned THEN "ask" ELSE "open"
                 r == [IdleJob EXCEPT !.at = step, !.live = TRUE, !.goal = "active",
                                      !.dev = credential]
      <3>1. CASE Ends(j)  BY <1>1, <3>1, ThrowsCalm
      <3>2. CASE jobs' = [jobs EXCEPT ![j] = r]
        <4>1. step \in {"ask", "open"}  OBVIOUS
        <4> HIDE DEF step
        <4>2. r.at = step /\ r.dev = credential /\ r.pending = NoEntry
          BY DEF IdleJob
        <4> HIDE DEF r
        <4>3. Calm(jobs[j], r)  BY <1>3, <4>1, <4>2
        <4> QED  BY <1>1, <3>2, <4>3, SetCalm
      <3> QED  BY <2>3, <3>1, <3>2 DEF LoadCredential
    <2> QED  BY <2>1, <2>2, <2>3
  <1> QED  BY <1>4, QuietKeeps DEF Start, RefreshWhileOnline, LoadCredential

\* The job takes over what the journal has.
LEMMA LoadStays ==
  ASSUME DevicesAssumption, MembershipInv, StepInv, NEW j \in Jobs,
         LoadPending(j) \/ CheckPromotion(j)
  PROVE  StepInv'
  <1>1. JobsOK /\ jobs[j] \in JobTypes /\ JobFits(jobs[j])
    BY DEF MembershipInv, JobsOK, StepInv
  <1>2. Known(journal.dev)  BY DEF StepInv, JournalFits
  <1>3. CASE Throws(j)  BY <1>1, <1>3, ThrowsCalm, QuietKeeps DEF LoadPending, CheckPromotion
  <1>4. CASE JobGoes(j, "connect")
    <2>1. Calmly  BY <1>1, <1>4, JobGoesCalm DEF Awaiting
    <2> QED  BY <2>1, QuietKeeps DEF LoadPending, CheckPromotion
  <1>5. CASE \/ jobs' = [jobs EXCEPT ![j].at = "pin", ![j].dev = journal.dev,
                                     ![j].pending = journal]
             \/ jobs' = [jobs EXCEPT ![j].at = "save", ![j].dev = journal.dev,
                                     ![j].pending = journal, ![j].answer = NoAnswer]
    <2> HIDE DEF NoAnswer
    <2> DEFINE p == [jobs[j] EXCEPT !.at = "pin", !.dev = journal.dev, !.pending = journal]
               s == [jobs[j] EXCEPT !.at = "save", !.dev = journal.dev, !.pending = journal,
                                    !.answer = NoAnswer]
    <2>1. /\ p.at = "pin" /\ p.dev = journal.dev /\ p.pending = journal
          /\ s.at = "save" /\ s.dev = journal.dev /\ s.pending = journal
      BY <1>1 DEF JobTypes
    <2>2. jobs' = [jobs EXCEPT ![j] = p] \/ jobs' = [jobs EXCEPT ![j] = s]  BY <1>5
    <2> HIDE DEF p, s
    <2>3. Calm(jobs[j], p) /\ Calm(jobs[j], s)  BY <1>2, <2>1 DEF Calm, Awaiting
    <2>4. Calmly  BY <1>1, <2>2, <2>3, SetCalm
    <2> QED  BY <2>4, QuietKeeps DEF LoadPending, CheckPromotion
  <1> QED  BY <1>3, <1>4, <1>5 DEF LoadPending, CheckPromotion

LEMMA SimpleStays ==
  ASSUME DevicesAssumption, MembershipInv, StepInv, NEW j \in Jobs,
         JobPins(j) \/ Result(j) \/ Open(j)
  PROVE  StepInv'
  <1>1. JobsOK /\ JobFits(jobs[j])  BY DEF MembershipInv, StepInv
  <1>2. CASE Throws(j) \/ NetworkFails(j) \/ Ends(j)
    BY <1>1, <1>2, ThrowsCalm, QuietKeeps DEF JobPins, Result, Open
  <1>3. CASE JobGoes(j, "bind") \/ JobGoes(j, "promote")
    <2>1. Calmly  BY <1>1, <1>3, JobGoesCalm DEF Awaiting
    <2> QED  BY <2>1, QuietKeeps DEF JobPins, Result, Open
  <1> QED  BY <1>2, <1>3 DEF JobPins, Result, Open

\* A state that was read as no longer waiting for the proof.
LEMMA RefreshedCalm ==
  ASSUME JobsOK, NEW j \in Jobs, JobFits(jobs[j]), NEW state, NEW active,
         state # "pending_proof" => Told(jobs[j].dev), Refreshed(j, state, active)
  PROVE  Calmly
  <1>1. jobs[j] \in JobTypes /\ jobs[j].goal \in {"recover", "again", "active", "online"}
    BY DEF JobsOK, JobTypes
  <1> DEFINE answer == [NoAnswer EXCEPT !.state = state, !.active = active]
             goes(step) ==
               /\ jobs' = [jobs EXCEPT ![j].at = step, ![j].base = 0, ![j].rosters = <<>>,
                                       ![j].answer = answer]
               /\ UNCHANGED connectionVars
             good == state = "approved" /\ active
  <1>2. ASSUME NEW step, step # "submit", step \in Awaiting => Told(jobs[j].dev), goes(step)
        PROVE  Calmly
    <2> DEFINE r == [jobs[j] EXCEPT !.at = step, !.base = 0, !.rosters = <<>>,
                                    !.answer = answer]
    <2>1. jobs' = [jobs EXCEPT ![j] = r]  BY <1>2
    <2> HIDE DEF answer
    <2>2. r.at = step /\ r.dev = jobs[j].dev /\ r.pending = jobs[j].pending
      BY <1>1 DEF JobTypes
    <2> HIDE DEF r
    <2> QED  BY <1>2, <2>1, <2>2, GoesCalm
  <1>3. \/ Throws(j) \/ Ends(j)
        \/ state # "pending_proof" /\ goes("mark")
        \/ \E step \in {"attempt", "result", "open"} : goes(step)
    <2>1. CASE jobs[j].goal = "recover" /\ state = "pending_proof"
      BY <2>1 DEF Refreshed
    <2>2. CASE jobs[j].goal = "recover" /\ state # "pending_proof"
      BY <2>2 DEF Refreshed
    <2>3. CASE jobs[j].goal = "again"  BY <2>3 DEF Refreshed
    <2>4. CASE jobs[j].goal \in {"active", "online"} /\ ~good  BY <2>4 DEF Refreshed
    <2>5. CASE jobs[j].goal = "active" /\ good  BY <2>5 DEF Refreshed
    <2>6. CASE jobs[j].goal = "online" /\ good  BY <2>6 DEF Refreshed
    <2> QED  BY <1>1, <2>1, <2>2, <2>3, <2>4, <2>5, <2>6
  <1>4. CASE Throws(j) \/ Ends(j)  BY <1>4, ThrowsCalm
  <1>5. CASE state # "pending_proof" /\ goes("mark")
    <2> HIDE DEF goes
    <2> QED  BY <1>2, <1>5
  <1>6. CASE \E step \in {"attempt", "result", "open"} : goes(step)
    <2> HIDE DEF goes
    <2> QED  BY <1>2, <1>6 DEF Awaiting
  <1> QED  BY <1>3, <1>4, <1>5, <1>6

LEMMA AskStays ==
  ASSUME DevicesAssumption, MembershipInv, StepInv, NEW j \in Jobs, Ask(j)
  PROVE  StepInv'
  <1>1. JobsOK /\ jobs[j] \in JobTypes /\ JobFits(jobs[j])
    BY DEF MembershipInv, JobsOK, StepInv
  <1> DEFINE d == jobs[j].dev
  <1>2. d \in Devices /\ enrolments[d] \in States
    BY <1>1, HasBelief DEF Ask, At, MembershipInv, RelayOK
  <1>3. CASE Throws(j)  BY <1>1, <1>3, ThrowsCalm, QuietKeeps DEF Ask
  <1>4. CASE enrolments[d] # "none" /\ Refreshed(j, enrolments[d], FALSE)
    <2>1. enrolments[d] # "pending_proof" => Told(d)
      BY <1>2, <1>4 DEF Told, Proven, States
    <2>2. Calmly  BY <1>1, <1>4, <2>1, RefreshedCalm
    <2> QED  BY <2>2, QuietKeeps DEF Ask
  <1>5. CASE enrolments[d] = "approved"
             /\ \E first \in Starts(d, MembershipOf(j).roster.epoch), cert \in LastCerts(d) :
                  \E last \in (first - 1)..Len(chain) : jobs' = Answer(j, first, last, cert)
    <2>1. PICK first \in Starts(d, MembershipOf(j).roster.epoch), cert \in LastCerts(d) :
            \E last \in (first - 1)..Len(chain) : jobs' = Answer(j, first, last, cert)
      BY <1>5
    <2>2. PICK last \in (first - 1)..Len(chain) : jobs' = Answer(j, first, last, cert)
      BY <2>1
    <2> DEFINE answer == [state |-> "approved", active |-> FALSE, latest |-> Len(chain),
                          cert |-> cert, key |-> Top.key]
               base == MembershipOf(j).roster.epoch
               rosters == SubSeq(chain, first, last)
               r == [jobs[j] EXCEPT !.at = "roster", !.base = base, !.answer = answer,
                                    !.rosters = rosters]
    <2>3. jobs' = [jobs EXCEPT ![j] = r]  BY <2>2 DEF Answer
    <2> HIDE DEF answer, base, rosters
    <2>4. r.at = "roster" /\ r.dev = jobs[j].dev /\ r.pending = jobs[j].pending
      BY <1>1 DEF JobTypes
    <2> HIDE DEF r
    <2>5. Told(d)  BY <1>2, <1>5 DEF Told, Proven
    <2>6. Calmly  BY <1>1, <2>3, <2>4, <2>5, GoesCalm
    <2> QED  BY <2>6, QuietKeeps DEF Ask
  <1> QED  BY <1>3, <1>4, <1>5 DEF Ask

LEMMA RosterStays ==
  ASSUME DevicesAssumption, MembershipInv, StepInv, NEW j \in Jobs,
         Verify(j) \/ Write(j) \/ Accept(j)
  PROVE  StepInv'
  <1>1. JobsOK /\ jobs[j] \in JobTypes /\ JobFits(jobs[j])
    BY DEF MembershipInv, JobsOK, StepInv
  <1>2. Told(jobs[j].dev)
    BY <1>1 DEF Verify, Write, Accept, At, JobFits, Awaiting
  <1>3. ASSUME NEW r, r.dev = jobs[j].dev, r.pending = jobs[j].pending,
               r.at \in {"roster", "write", "ask"}, jobs' = [jobs EXCEPT ![j] = r]
        PROVE  StepInv'
    <2>1. Calmly  BY <1>1, <1>2, <1>3, GoesCalm
    <2> QED  BY <2>1, QuietKeeps DEF Verify, Write, Accept
  <1>4. CASE Throws(j)  BY <1>1, <1>4, ThrowsCalm, QuietKeeps DEF Verify, Write, Accept
  <1>5. ASSUME NEW state, NEW active, Refreshed(j, state, active)  PROVE  StepInv'
    <2>1. Calmly  BY <1>1, <1>2, <1>5, RefreshedCalm
    <2> QED  BY <2>1, QuietKeeps DEF Verify, Write, Accept
  <1>6. CASE Verify(j)
    <2>1. CASE jobs' = Dropped(j)
      <3> DEFINE s == Tail(jobs[j].rosters)
                 r == [jobs[j] EXCEPT !.rosters = s]
      <3>1. jobs' = [jobs EXCEPT ![j] = r]  BY <2>1 DEF Dropped
      <3> HIDE DEF s
      <3>2. r.at = jobs[j].at /\ r.dev = jobs[j].dev /\ r.pending = jobs[j].pending
        BY <1>1 DEF JobTypes
      <3> HIDE DEF r
      <3>3. r.at = "roster"  BY <1>6, <3>2 DEF Verify, At
      <3> QED  BY <1>3, <3>1, <3>2, <3>3
    <2>2. ASSUME NEW seen, NEW next,
                 jobs' = [jobs EXCEPT ![j].at = "write", ![j].seen = seen, ![j].proposed = next]
          PROVE  StepInv'
      <3> DEFINE r == [jobs[j] EXCEPT !.at = "write", !.seen = seen, !.proposed = next]
      <3>1. jobs' = [jobs EXCEPT ![j] = r]  BY <2>2
      <3>2. r.at = "write" /\ r.dev = jobs[j].dev /\ r.pending = jobs[j].pending
        BY <1>1 DEF JobTypes
      <3> HIDE DEF r
      <3> QED  BY <1>3, <3>1, <3>2
    <2>3. Throws(j) \/ jobs' = Dropped(j)
          \/ \E seen, next :
               jobs' = [jobs EXCEPT ![j].at = "write", ![j].seen = seen, ![j].proposed = next]
      BY <1>6 DEF Verify
    <2> QED  BY <1>4, <2>1, <2>2, <2>3
  <1>7. CASE Write(j)
    <2>1. CASE jobs' = [Dropped(j) EXCEPT ![j].at = "roster", ![j].seen = Absent,
                                          ![j].proposed = Absent]
      <3> HIDE DEF Absent
      <3> DEFINE s == Tail(jobs[j].rosters)
                 r == [jobs[j] EXCEPT !.rosters = s, !.at = "roster", !.seen = Absent,
                                      !.proposed = Absent]
      <3>1. jobs' = [jobs EXCEPT ![j] = r]
        <4>1. Dropped(j) = [jobs EXCEPT ![j] = [jobs[j] EXCEPT !.rosters = s]]  BY DEF Dropped
        <4>2. Dropped(j)[j] = [jobs[j] EXCEPT !.rosters = s]  BY <1>1, <4>1 DEF JobsOK
        <4> HIDE DEF s
        <4>3. [Dropped(j)[j] EXCEPT !.at = "roster", !.seen = Absent, !.proposed = Absent] = r
          BY <4>2
        <4> HIDE DEF r, Dropped
        <4>4. jobs' = [Dropped(j) EXCEPT ![j] = r]  BY <2>1, <4>3
        <4> QED  BY <1>1, <4>1, <4>4 DEF JobsOK
      <3> HIDE DEF s
      <3>2. r.at = "roster" /\ r.dev = jobs[j].dev /\ r.pending = jobs[j].pending
        BY <1>1 DEF JobTypes
      <3> HIDE DEF r
      <3> QED  BY <1>3, <3>1, <3>2
    <2> QED  BY <1>4, <1>7, <2>1 DEF Write
  <1>8. CASE Accept(j)
    <2>1. CASE jobs' = [jobs EXCEPT ![j].at = "ask", ![j].base = 0, ![j].answer = NoAnswer]
      <3> HIDE DEF NoAnswer
      <3> DEFINE r == [jobs[j] EXCEPT !.at = "ask", !.base = 0, !.answer = NoAnswer]
      <3>1. jobs' = [jobs EXCEPT ![j] = r]  BY <2>1
      <3>2. r.at = "ask" /\ r.dev = jobs[j].dev /\ r.pending = jobs[j].pending
        BY <1>1 DEF JobTypes
      <3> HIDE DEF r
      <3> QED  BY <1>3, <3>1, <3>2
    <2> QED  BY <1>4, <1>5, <1>8, <2>1 DEF Accept
  <1> QED  BY <1>6, <1>7, <1>8

LEMMA ProvedMarks ==
  ASSUME MembershipInv, NEW d \in Devices, TakesProof(d), Proved(d) \/ UNCHANGED enrolments
  PROVE  /\ \A e : Proven(e) => Proven(e)'
         /\ \A e : Proven(e)' => Proven(e) \/ e = d
         /\ Proved(d) => Proven(d)'
  BY DEF MembershipInv, RelayOK, Proved, Proven

LEMMA SubmitsStays ==
  ASSUME DevicesAssumption, MembershipInv, StepInv, NEW j \in Jobs,
         JobSubmits(j) \/ RequestFails(j)
  PROVE  StepInv'
  <1>1. JobsOK /\ jobs[j] \in JobTypes /\ JobFits(jobs[j])
    BY DEF MembershipInv, JobsOK, StepInv
  <1>2. PICK d \in Devices : d = jobs[j].dev
    BY <1>1, HasBelief DEF JobSubmits, RequestFails, At, MembershipInv
  <1>3. CASE Throws(j) /\ UNCHANGED enrolments
    <2>1. Calmly  BY <1>1, <1>3, ThrowsCalm
    <2> QED  BY <1>3, <2>1, QuietKeeps DEF JobSubmits, RequestFails
  <1>4. CASE NetworkFails(j) /\ UNCHANGED enrolments
    <2>1. Calmly  BY <1>1, <1>4, ThrowsCalm
    <2> QED  BY <1>4, <2>1, QuietKeeps DEF JobSubmits, RequestFails
  <1>5. CASE TakesProof(d) /\ At(j, "submit") /\ Proved(d)
             /\ (NetworkFails(j) \/ JobGoes(j, "settle"))
    <2>1. UNCHANGED <<registered, page, restored, journal, credential>>
      BY DEF JobSubmits, RequestFails
    <2>2. Ready(d)  BY <1>1, <1>2, <1>5 DEF At, JobFits
    <2>3. /\ \A e : Proven(e) => Proven(e)'
          /\ \A e : Proven(e)' => Proven(e) \/ e = d
          /\ Proven(d)'
      BY <1>2, <1>5, ProvedMarks
    <2>4. \A e : Proven(e)' => Proven(e) \/ Ready(e)  BY <2>2, <2>3
    <2>5. \A e : (Known(e)' <=> Known(e)) /\ (Told(e) => Told(e)')
      BY <2>1, <2>3 DEF Known, Told
    <2>6. Forward  BY <2>1 DEF Forward
    <2>7. Known(credential)'  BY <2>1 DEF StepInv, JournalFits, Known
    <2>8. PageFits'
      <3>1. PICK p : p = page.entry.dev  OBVIOUS
      <3>2. page.at = "prepare" => p # d
        BY <1>1, <1>2, <3>1 DEF JobFits, Known, Devices
      <3>3. page.at = "prepare" => ~Proven(p)'
        BY <2>3, <3>1, <3>2 DEF StepInv, PageFits
      <3>4. page.at = "mark" => Told(p)'
        BY <2>5, <3>1 DEF StepInv, PageFits
      <3>5. page.at = "submit" => Ready(p)'
        BY <2>1, <3>1 DEF StepInv, PageFits, Ready
      <3> QED
        BY <2>1, <3>1, <3>3, <3>4, <3>5 DEF StepInv, PageFits, Proven, Told, Ready
    <2>9. CASE NetworkFails(j)
      <3>1. Calmly  BY <1>1, <2>9, ThrowsCalm
      <3> QED  BY <2>4, <2>5, <2>6, <2>7, <2>8, <3>1, CalmKeeps
    <2>10. CASE JobGoes(j, "settle")
      \* The job has heard of the answer that the relay gives in this step.
      <3> DEFINE r == [jobs[j] EXCEPT !.at = "settle"]
      <3>1. r.at = "settle" /\ r.dev = d /\ r.pending = jobs[j].pending
        BY <1>1, <1>2 DEF JobTypes
      <3>2. jobs' = [jobs EXCEPT ![j] = r]  BY <2>10 DEF JobGoes
      <3>3. Heard(d)  BY <1>2, <1>5 DEF Proved, Heard, MembershipInv, RelayOK
      <3> HIDE DEF r
      <3>4. Calm(jobs[j], r)  BY <1>1, <1>2, <3>1, <3>3 DEF Calm, JobFits
      <3>5. Calmly  BY <1>1, <3>2, <3>4, SetCalm
      <3> QED  BY <2>4, <2>5, <2>6, <2>7, <2>8, <3>5, CalmKeeps
    <2> QED  BY <1>5, <2>9, <2>10
  <1> QED  BY <1>2, <1>3, <1>4, <1>5 DEF JobSubmits, RequestFails

LEMMA SameWorld ==
  ASSUME StepInv, UNCHANGED <<enrolments, registered, page, restored>>
  PROVE  /\ \A d : (Known(d)' <=> Known(d)) /\ (Told(d)' <=> Told(d))
                   /\ (Proven(d)' <=> Proven(d))
         /\ Forward => PageFits'
  <1>1. \A d : (Known(d)' <=> Known(d)) /\ (Told(d)' <=> Told(d)) /\ (Proven(d)' <=> Proven(d))
    BY DEF Known, Told, Proven
  <1>2. ASSUME Forward  PROVE PageFits'
    <2>1. Ready(page.entry.dev) => Ready(page.entry.dev)'  BY <1>2 DEF Forward, Ready
    <2> QED  BY <2>1 DEF StepInv, PageFits, Told, Proven
  <1> QED  BY <1>1, <1>2

LEMMA JobWritesStays ==
  ASSUME DevicesAssumption, MembershipInv, StepInv, NEW j \in Jobs, JobWrites(j)
  PROVE  StepInv'
  <1>1. JobsOK /\ jobs[j] \in JobTypes /\ JobFits(jobs[j]) /\ journal \in Entries
    BY DEF MembershipInv, JobsOK, StepInv, JournalOK
  <1>2. UNCHANGED <<enrolments, registered, page, restored, credential>>
    BY DEF JobWrites
  <1>3. CASE Throws(j) /\ UNCHANGED journal
    <2>1. Calmly  BY <1>1, <1>3, ThrowsCalm
    <2> QED  BY <1>2, <1>3, <2>1, QuietKeeps
  <1>4. Known(credential)'  BY <1>2 DEF StepInv, JournalFits, Known
  <1>5. CASE SameEntry(jobs[j].pending) /\ (At(j, "bind") \/ journal.proof)
             /\ ~(Throws(j) /\ UNCHANGED journal)
    <2>1. journal # NoEntry /\ journal.dev = jobs[j].pending.dev
      BY <1>5 DEF SameEntry
    <2>2. journal.dev = jobs[j].dev
      BY <1>1, <2>1 DEF MembershipInv, JournalOK, JobFits
    <2>3. CASE At(j, "bind")
      <3>1. BindProof(jobs[j].pending) /\ JobGoes(j, "ask")
        BY <1>5, <2>3 DEF JobWrites, At
      <3>2. Forward  BY <1>1, <2>1, <3>1 DEF Forward, BindProof, Entries
      <3>3. Calmly  BY <1>1, <3>1, JobGoesCalm DEF Awaiting
      <3> QED  BY <1>2, <1>4, <3>2, <3>3, SameWorld, CalmKeeps
    <2>4. CASE At(j, "attempt")
      \* Before the proof is sent, the journal says so.
      <3>1. MarkProofAttempted(jobs[j].pending) /\ JobGoes(j, "submit") /\ journal.proof
        BY <1>5, <2>4 DEF JobWrites, At
      <3> DEFINE p == IF journal.phase = "registered" THEN "proof-attempted"
                      ELSE journal.phase
      <3>2. p # "registered" /\ (p = "pending-approval" => journal.phase = "pending-approval")
        OBVIOUS
      <3>3. journal' = [journal EXCEPT !.phase = p]  BY <3>1 DEF MarkProofAttempted
      <3> HIDE DEF p
      <3>4. /\ journal'.dev = journal.dev /\ journal'.proof = journal.proof
            /\ journal'.phase = p
        BY <1>1, <3>3 DEF Entries
      <3>5. Forward  BY <2>1, <3>2, <3>4 DEF Forward
      <3>6. \A d : Known(d) => Known(d)'  BY <1>2, SameWorld
      <3>7. \A d : Ready(d)'
        BY <3>1, <3>2, <3>4 DEF Ready
      <3>8. JournalFits' /\ PageFits'
        <4>1. PageFits'  BY <1>2, <3>5, SameWorld
        <4>2. Calm(jobs[j], jobs[j])  BY DEF Calm
        <4>3. Known(journal.dev)'  BY <1>2, <3>4 DEF Known, StepInv, JournalFits
        <4>4. journal'.phase = "pending-approval" => Told(journal.dev)'
          BY <1>2, <2>1, <3>2, <3>4 DEF StepInv, JournalFits, Told, Proven
        <4> QED  BY <1>4, <3>1, <3>2, <3>4, <4>1, <4>3, <4>4 DEF JournalFits
      <3>9. ASSUME NEW k \in Jobs PROVE JobFits(jobs[k])'
        <4>1. JobFits(jobs[k]) /\ jobs[k] \in JobTypes  BY <1>1 DEF StepInv, JobsOK
        <4>2. /\ jobs'[k].dev = jobs[k].dev /\ jobs'[k].pending = jobs[k].pending
              /\ jobs'[k].at \in {jobs[k].at, "submit"}
          <5>1. CASE k = j  BY <1>1, <3>1, <5>1 DEF JobGoes, JobsOK, JobTypes
          <5>2. CASE k # j  BY <1>1, <3>1, <5>2 DEF JobGoes, JobsOK
          <5> QED  BY <5>1, <5>2
        <4>3. Known(jobs[k].dev)'  BY <1>2, <4>1, <4>2 DEF JobFits, Known
        <4>4. Ready(jobs[k].dev)'  BY <3>1, <3>2, <3>4 DEF Ready
        <4>5. jobs'[k].at \in Awaiting => Told(jobs[k].dev)'
          BY <1>2, <4>1, <4>2 DEF JobFits, Told, Proven, Awaiting
        <4> QED  BY <4>1, <4>2, <4>3, <4>4, <4>5 DEF JobFits
      <3> QED  BY <3>8, <3>9 DEF StepInv
    <2>5. CASE At(j, "mark") \/ At(j, "settle")
      <3>1. MarkPendingApproval(jobs[j].pending)
        BY <1>5, <2>5 DEF JobWrites, At
      <3>2. Told(journal.dev)  BY <1>1, <2>2, <2>5 DEF JobFits, At, Awaiting
      <3>3. Forward  BY <1>1, <2>1, <3>1, <3>2 DEF Forward, MarkPendingApproval, Entries
      <3>4. Calmly
        <4>1. CASE JobGoes(j, "result")  BY <1>1, <4>1, JobGoesCalm DEF Awaiting
        <4>2. CASE jobs' = [jobs EXCEPT ![j].at = "ask", ![j].goal = "again"]
          <5> DEFINE r == [jobs[j] EXCEPT !.at = "ask", !.goal = "again"]
          <5>1. r.at = "ask" /\ r.dev = jobs[j].dev /\ r.pending = jobs[j].pending
            BY <1>1 DEF JobTypes
          <5>2. jobs' = [jobs EXCEPT ![j] = r]  BY <4>2
          <5> HIDE DEF r
          <5> QED  BY <1>1, <5>1, <5>2, GoesCalm DEF Awaiting
        <4> QED  BY <1>5, <2>5, <4>1, <4>2 DEF JobWrites, At
      <3> QED  BY <1>2, <1>4, <3>3, <3>4, SameWorld, CalmKeeps
    <2> QED  BY <2>3, <2>4, <2>5 DEF JobWrites, At
  <1> QED  BY <1>3, <1>5 DEF JobWrites

LEMMA PromotionStays ==
  ASSUME DevicesAssumption, MembershipInv, StepInv, NEW j \in Jobs,
         SaveNew(j) \/ ClearPending(j)
  PROVE  StepInv'
  <1>1. JobsOK /\ JobFits(jobs[j])  BY DEF MembershipInv, StepInv
  <1>2. UNCHANGED <<enrolments, registered, page, restored>>
    BY DEF SaveNew, ClearPending
  <1>3. Calmly
    BY <1>1, ThrowsCalm, JobGoesCalm DEF SaveNew, ClearPending, Awaiting
  <1>4. Forward
    BY DEF SaveNew, ClearPending, Forward
  <1>5. Known(credential)'
    BY <1>1, <1>2 DEF SaveNew, ClearPending, Known, JobFits, StepInv, JournalFits
  <1> QED  BY <1>2, <1>3, <1>4, <1>5, SameWorld, CalmKeeps

LEMMA ResetStays ==
  ASSUME DevicesAssumption, MembershipInv, StepInv, Drops \/ Stops \/ Reset
  PROVE  StepInv'
  <1>1. JobsOK  BY DEF MembershipInv
  <1>2. CASE Drops \/ Begin \/ RecordIntent \/ Resume \/ \E r \in Runners : Finish(r)
    <2>1. Calmly  BY <1>2 DEF Drops, Begin, RecordIntent, Resume, Finish, Calmly, Calm
    <2> QED  BY <1>2, <2>1, QuietKeeps DEF Drops, Begin, RecordIntent, Resume, Finish
  <1>3. CASE Stops
    <2>1. \A k \in Jobs : jobs'[k] = IdleJob  BY <1>3 DEF Stops
    <2>2. Calmly  BY <2>1, IdleJobCalm DEF Calmly
    <2> QED  BY <1>3, <2>2, QuietKeeps DEF Stops
  <1>4. ASSUME NEW r \in Runners, StopTransport(r)  PROVE  StepInv'
    <2>1. Calmly  BY <1>1, <1>4, AllSupersededCalm DEF StopTransport
    <2> QED  BY <1>4, <2>1, QuietKeeps DEF StopTransport
  <1>5. ASSUME NEW r \in Runners, NEW store \in Stores, ClearStore(r, store)  PROVE  StepInv'
    <2>1. UNCHANGED <<enrolments, registered, page, restored, jobs>>
      BY <1>5 DEF ClearStore
    <2>2. Calmly  BY <2>1 DEF Calmly, Calm
    <2>3. Forward  BY <1>5 DEF ClearStore, Forward
    <2>4. Known(credential)'
      BY <1>5, <2>1 DEF ClearStore, Known, StepInv, JournalFits
    <2> QED  BY <2>1, <2>2, <2>3, <2>4, SameWorld, CalmKeeps
  <1> QED  BY <1>2, <1>3, <1>4, <1>5 DEF Reset

-----------------------------------------------------------------------------
(* The steps of the relay and of the page.                                 *)

LEMMA RelayStays ==
  ASSUME DevicesAssumption, MembershipInv, StepInv, Authority \/ Restore
  PROVE  StepInv'
  <1>1. UNCHANGED <<registered, page, journal, credential, jobs>>
    BY DEF Authority, Restore
  <1>2. Calmly  BY <1>1 DEF Calmly, Calm
  <1>3. Forward /\ Known(credential)' /\ \A d : Known(d) => Known(d)'
    BY <1>1 DEF Forward, StepInv, JournalFits, Known
  <1>4. /\ \A d : Proven(d)' => Proven(d)
        /\ \A d : Told(d) => Told(d)'
    <2>1. enrolments \in [Devices -> States]  BY DEF MembershipInv, RelayOK
    <2>2. CASE Authority
      <3>1. (\E d \in Devices : Approve(d)) \/ UNCHANGED enrolments
        BY <2>2 DEF Authority, Remove, Replace, RotateAuthority
      <3>2. \A d : Proven(d)' <=> Proven(d)
        BY <2>1, <3>1 DEF Approve, Proven
      <3> QED  BY <2>2, <3>2 DEF Told, Authority
    <2>3. CASE Restore
      <3>1. ASSUME NEW d \in Devices, enrolments'[d] \in {"pending_approval", "approved"}
            PROVE  enrolments[d] \in {"pending_approval", "approved"}
        <4>1. Rank(enrolments'[d]) <= Rank(enrolments[d])  BY <2>3 DEF Restore
        <4>2. enrolments[d] \in States  BY <2>1
        <4>3. Rank(enrolments'[d]) >= 2  BY <3>1 DEF Rank
        <4>4. Rank(enrolments[d]) \in Nat  BY <4>2 DEF Rank, States
        <4>5. enrolments[d] \notin {"none", "pending_proof"}
          <5> SUFFICES ASSUME enrolments[d] \in {"none", "pending_proof"} PROVE FALSE
            OBVIOUS
          <5>1. Rank(enrolments[d]) <= 1  BY DEF Rank
          <5>2. Rank(enrolments'[d]) = 2 \/ Rank(enrolments'[d]) = 3  BY <3>1 DEF Rank
          <5> QED  BY <4>1, <4>4, <5>1, <5>2
        <4> QED  BY <4>2, <4>5 DEF States
      <3>2. restored' = TRUE  BY <2>3 DEF Restore
      <3> QED  BY <3>1, <3>2 DEF Proven, Told
    <2> QED  BY <2>2, <2>3
  <1>5. PageFits'
    <2>1. PICK p : p = page.entry.dev  OBVIOUS
    <2>2. page.at = "prepare" => ~Proven(p)'  BY <1>4, <2>1 DEF StepInv, PageFits
    <2>3. page.at = "mark" => Told(p)'  BY <1>4, <2>1 DEF StepInv, PageFits
    <2>4. page.at = "submit" => Ready(p)'  BY <1>1, <2>1 DEF StepInv, PageFits, Ready
    <2> QED
      BY <1>1, <2>1, <2>2, <2>3, <2>4 DEF StepInv, PageFits, Proven, Told, Ready
  <1> QED  BY <1>2, <1>3, <1>4, <1>5, CalmKeeps

\* The page goes on without a word to the relay, or ends.
LEMMA PageQuiet ==
  ASSUME StepInv, UNCHANGED <<enrolments, registered, restored, credential, jobs>>,
         page'.at # "prepare", Forward, PageFits'
  PROVE  StepInv'
  <1>1. \A d : (Known(d) => Known(d)') /\ (Told(d)' <=> Told(d)) /\ (Proven(d)' <=> Proven(d))
    BY DEF Known, Told, Proven
  <1>2. Calmly  BY DEF Calmly, Calm
  <1>3. Known(credential)'  BY DEF StepInv, JournalFits, Known
  <1> QED  BY <1>1, <1>2, <1>3, CalmKeeps

\* A new registration is nobody else's.
LEMMA RegisterStays ==
  ASSUME DevicesAssumption, MembershipInv, StepInv, NEW answered \in BOOLEAN,
         Register(answered)
  PROVE  StepInv'
  <1>1. PICK d \in Devices :
          /\ registered[d] = 0
          /\ enrolments' = [enrolments EXCEPT ![d] = "pending_proof"]
          /\ registered' = [registered EXCEPT ![d] = page.entry.identity]
          /\ page' = IF answered
                  THEN [at |-> "prepare",
                        entry |-> [page.entry EXCEPT !.dev = d, !.authority = Top.key,
                                                     !.phase = "registered"]]
                  ELSE IdlePage
    BY DEF Register
  <1>2. UNCHANGED <<journal, credential, jobs, restored>>  BY DEF Register
  <1>3. page.at = "register" /\ page.entry.identity # 0 /\ page.entry \in Entries
    BY DEF Register, PageAt, StepInv, PageFits, MembershipInv, PageOK
  <1>4. \/ page'.at = "idle"
        \/ page'.at = "prepare" /\ page'.entry.dev = d
    <2>1. CASE answered
      <3> DEFINE k == Top.key
      <3>1. page' = [at |-> "prepare",
                     entry |-> [page.entry EXCEPT !.dev = d, !.authority = k,
                                                  !.phase = "registered"]]
        BY <1>1, <2>1
      <3> HIDE DEF k
      <3> QED  BY <1>3, <3>1 DEF Entries
    <2>2. CASE ~answered  BY <1>1, <2>2 DEF IdlePage
    <2> QED  BY <2>1, <2>2
  <1>5. enrolments \in [Devices -> States] /\ registered \in [Devices -> Nat]
    BY DEF MembershipInv, RelayOK
  <1>6. registered'[d] # 0 /\ ~Known(d) /\ ~Proven(d)'
    BY <1>1, <1>3, <1>5 DEF Known, Proven, Devices
  <1>7. \A e : Known(e) => Known(e)'
    BY <1>1, <1>3, <1>4, <1>5, <1>6 DEF Known
  <1>8. \A e : Known(e) /\ Told(e) => Told(e)'
    BY <1>1, <1>2, <1>5, <1>6 DEF Told, Proven
  <1>9. \A e : Proven(e)' => Proven(e)
    BY <1>1, <1>5, <1>6 DEF Proven
  <1>10. Forward /\ Calmly  BY <1>2 DEF Forward, Calmly, Calm
  <1>11. Known(credential)'
    <2>1. PICK c : c = credential  OBVIOUS
    <2>2. Known(c)'  BY <1>7, <2>1 DEF StepInv, JournalFits
    <2> QED  BY <1>2, <2>1, <2>2 DEF Known
  <1>12. PageFits'  BY <1>4, <1>6 DEF PageFits, Proven
  <1> QED  BY <1>7, <1>8, <1>9, <1>10, <1>11, <1>12, CalmKeeps

\* The registration is stored before its proof, which nobody else can send.
LEMMA PrepareStays ==
  ASSUME DevicesAssumption, MembershipInv, StepInv, PrepareRegistration
  PROVE  StepInv'
  <1>1. UNCHANGED <<enrolments, registered, restored, credential, jobs>>
    BY DEF PrepareRegistration
  <1>2. CASE UNCHANGED journal /\ page' = IdlePage
    BY <1>1, <1>2, PageQuiet DEF IdlePage, PageFits, Forward
  <1>3. CASE journal = NoEntry /\ journal' = page.entry /\ PageGoes("pin")
    <2>1. /\ page.at = "prepare" /\ page.entry.phase = "registered" /\ page.entry.dev # 0
          /\ page'.at = "pin" /\ page'.entry = page.entry
      BY <1>3 DEF PrepareRegistration, PageAt, MembershipInv, PageOK, PageGoes
    <2>2. PICK d : d = page.entry.dev  OBVIOUS
    <2>3. d \in Devices /\ registered[d] # 0 /\ ~Proven(d)
      BY <2>1, <2>2 DEF StepInv, PageFits, MembershipInv, PageOK, Entries, Devices,
                        DevicesAssumption
    <2>4. \A e : (Known(e) => Known(e)' /\ e # d) /\ (Told(e)' <=> Told(e))
                 /\ (Proven(e)' <=> Proven(e))
      BY <1>1, <2>1, <2>2, <2>3 DEF Known, Told, Proven, Devices
    <2>5. \A e : e # d => Ready(e)'  BY <1>3, <2>2 DEF Ready
    <2>6. PageFits'
      BY <1>1, <2>1, <2>2, <2>3 DEF PageFits
    <2>7. Known(journal.dev)' /\ Known(credential)'
      <3>1. Known(d)'  BY <1>1, <2>1, <2>3 DEF Known
      <3>2. Known(journal.dev)'  BY <1>3, <2>2, <3>1 DEF Known
      <3>3. Known(credential)'  BY <1>1, <2>1 DEF Known, StepInv, JournalFits
      <3> QED  BY <3>2, <3>3
    <2>8. JournalFits'
      <3>1. ~Proven(journal.dev)'  BY <1>1, <1>3, <2>2, <2>3 DEF Proven
      <3> QED  BY <1>3, <2>1, <2>7, <3>1 DEF JournalFits
    <2>9. ASSUME NEW k \in Jobs PROVE JobFits(jobs[k])'
      <3>1. PICK r : r = jobs[k] /\ r = jobs'[k]  BY <1>1
      <3>2. PICK e : e = r.dev  OBVIOUS
      <3>3. JobFits(r)  BY <3>1 DEF StepInv
      <3>4. Known(e)' /\ Ready(e)' /\ (r.at \in Awaiting => Told(e)')
        BY <2>4, <2>5, <3>2, <3>3 DEF JobFits
      <3>5. /\ Known(jobs[k].dev)' /\ Ready(jobs[k].dev)'
            /\ r.at \in Awaiting => Told(jobs[k].dev)'
        BY <3>1, <3>2, <3>4 DEF Known, Ready, Told, Proven
      <3> QED  BY <3>1, <3>3, <3>5 DEF JobFits
    <2> QED  BY <2>6, <2>8, <2>9 DEF StepInv
  <1> QED  BY <1>2, <1>3 DEF PrepareRegistration

LEMMA PageSubmitsStays ==
  ASSUME DevicesAssumption, MembershipInv, StepInv, NEW answered \in BOOLEAN,
         PageSubmits(answered)
  PROVE  StepInv'
  <1>1. UNCHANGED <<registered, restored, journal, credential, jobs>>
    BY DEF PageSubmits
  <1>2. page.at = "submit"  BY DEF PageSubmits, PageAt
  <1>3. PICK d : d = page.entry.dev  OBVIOUS
  <1>4. d \in Devices /\ Ready(d) /\ registered[d] # 0
    BY <1>2, <1>3 DEF StepInv, PageFits, MembershipInv, PageOK, Entries, Devices,
                      DevicesAssumption
  <1>5. CASE ~TakesProof(d)
    <2>1. UNCHANGED enrolments /\ page' = IdlePage  BY <1>3, <1>5 DEF PageSubmits
    <2> QED  BY <1>1, <2>1, PageQuiet DEF IdlePage, PageFits, Forward
  <1>6. CASE TakesProof(d)
    <2>1. Proved(d) /\ (PageGoes("mark") \/ page' = IdlePage)
      BY <1>3, <1>6 DEF PageSubmits
    <2>2. /\ \A e : Proven(e) => Proven(e)'
          /\ \A e : Proven(e)' => Proven(e) \/ e = d
          /\ Proven(d)'
      BY <1>4, <1>6, <2>1, ProvedMarks
    <2>3. page'.at \in {"mark", "idle"} /\ (page'.at = "mark" => page'.entry = page.entry)
      BY <2>1 DEF PageGoes, IdlePage, MembershipInv, PageOK
    <2>4. \A e : (Known(e) => Known(e)') /\ (Told(e) => Told(e)')
                 /\ (Proven(e)' => Proven(e) \/ Ready(e))
      BY <1>1, <1>4, <2>2, <2>3 DEF Known, Told
    <2>5. Forward /\ Calmly  BY <1>1 DEF Forward, Calmly, Calm
    <2>6. Known(credential)'  BY <1>1, <2>3 DEF Known, StepInv, JournalFits
    <2>7. PageFits'
      <3>1. page'.at = "mark" => Proven(page.entry.dev)'
        BY <1>3, <2>2, <2>3 DEF Proven
      <3> QED  BY <1>1, <1>3, <1>4, <2>3, <3>1 DEF PageFits, Told
    <2> QED  BY <2>4, <2>5, <2>6, <2>7, CalmKeeps
  <1> QED  BY <1>5, <1>6

LEMMA PageStays ==
  ASSUME DevicesAssumption, MembershipInv, StepInv, Page
  PROVE  StepInv'
  <1>1. page.entry \in Entries /\ (page.at \notin {"idle", "register"} => page.entry.dev # 0)
        /\ page \in [at : {"idle", "register", "prepare", "pin", "bind", "attempt", "submit",
                           "mark"}, entry : Entries]
    BY DEF MembershipInv, PageOK
  <1>2. ASSUME UNCHANGED <<enrolments, registered, restored, credential, jobs>>,
               page' = IdlePage, Forward
        PROVE  StepInv'
    BY <1>2, PageQuiet DEF IdlePage, PageFits
  <1>3. CASE Submit
    <2>1. identity' # 0
      BY <1>3 DEF Submit, MembershipInv, StoresOK
    <2> DEFINE entry == [NoEntry EXCEPT !.identity = identity']
    <2>2. page' = [at |-> "register", entry |-> entry]  BY <1>3 DEF Submit
    <2>3. entry.identity # 0  BY <2>1 DEF NoEntry
    <2> HIDE DEF entry
    <2>4. PageFits'  BY <2>2, <2>3 DEF PageFits
    <2> QED  BY <1>3, <2>2, <2>4, PageQuiet DEF Submit, Forward
  <1>4. CASE PagePins
    <2>1. CASE page' = IdlePage
      BY <1>2, <1>4, <2>1 DEF PagePins, Forward
    <2>2. CASE PageGoes("bind")
      <3>1. page'.at = "bind" /\ page'.entry = page.entry /\ page.at = "pin"
        BY <1>1, <1>4, <2>2 DEF PageGoes, PagePins, PageAt
      <3>2. PageFits'  BY <1>4, <3>1 DEF PagePins, PageFits, StepInv
      <3> QED  BY <1>4, <3>1, <3>2, PageQuiet DEF PagePins, Forward
    <2> QED  BY <1>4, <2>1, <2>2 DEF PagePins
  <1>5. CASE PageWrites
    <2>1. UNCHANGED <<enrolments, registered, restored, credential, jobs>>
      BY <1>5 DEF PageWrites
    <2>2. CASE UNCHANGED journal /\ page' = IdlePage
      BY <1>2, <2>1, <2>2 DEF Forward
    <2>3. CASE SameEntry(page.entry) /\ (page.at # "bind" => journal.proof)
               /\ ~(UNCHANGED journal /\ page' = IdlePage)
      <3>1. journal # NoEntry /\ journal.dev = page.entry.dev /\ journal \in Entries
        BY <2>3 DEF SameEntry, MembershipInv, JournalOK
      <3>2. CASE page.at = "bind"
        <4>1. BindProof(page.entry) /\ page'.at = "attempt" /\ page'.entry = page.entry
          BY <1>1, <1>5, <2>3, <3>2 DEF PageWrites, PageAt, PageGoes
        <4>2. Forward  BY <3>1, <4>1 DEF Forward, BindProof, Entries
        <4>3. PageFits'  BY <2>1, <3>2, <4>1 DEF StepInv, PageFits
        <4> QED  BY <2>1, <4>1, <4>2, <4>3, PageQuiet
      <3>3. CASE page.at = "attempt"
        <4>1. /\ MarkProofAttempted(page.entry) /\ journal.proof
              /\ page'.at = "submit" /\ page'.entry = page.entry
          BY <1>1, <1>5, <2>3, <3>3 DEF PageWrites, PageAt, PageGoes
        <4> DEFINE p == IF journal.phase = "registered" THEN "proof-attempted"
                        ELSE journal.phase
        <4>2. p # "registered" /\ (p = "pending-approval" => journal.phase = "pending-approval")
          OBVIOUS
        <4>3. journal' = [journal EXCEPT !.phase = p]  BY <4>1 DEF MarkProofAttempted
        <4> HIDE DEF p
        <4>4. /\ journal'.dev = journal.dev /\ journal'.proof = journal.proof
              /\ journal'.phase = p
          BY <3>1, <4>3 DEF Entries
        <4>5. Forward  BY <3>1, <4>2, <4>4 DEF Forward
        <4>6. PageFits'
          <5>1. Ready(page.entry.dev)'  BY <4>1, <4>2, <4>4 DEF Ready
          <5> QED  BY <2>1, <3>3, <4>1, <5>1 DEF StepInv, PageFits
        <4> QED  BY <2>1, <4>1, <4>5, <4>6, PageQuiet
      <3>4. CASE page.at = "mark"
        <4>1. MarkPendingApproval(page.entry) /\ page' = IdlePage
          BY <1>5, <2>3, <3>4 DEF PageWrites, PageAt
        <4>2. Told(journal.dev)  BY <3>1, <3>4 DEF StepInv, PageFits
        <4>3. Forward  BY <3>1, <4>1, <4>2 DEF Forward, MarkPendingApproval, Entries
        <4> QED  BY <1>2, <2>1, <4>1, <4>3
      <3> QED  BY <1>5, <3>2, <3>3, <3>4 DEF PageWrites
    <2> QED  BY <1>5, <2>2, <2>3 DEF PageWrites
  <1>6. CASE PageCloses
    BY <1>2, <1>6 DEF PageCloses, Forward
  <1> QED
    BY <1>3, <1>4, <1>5, <1>6, RegisterStays, PrepareStays, PageSubmitsStays DEF Page

-----------------------------------------------------------------------------
LEMMA InitInStep ==
  ASSUME Init
  PROVE  StepInv
  BY BlankFields DEF Init, StepInv, JournalFits, PageFits, IdlePage, JobFits, Known, Awaiting

LEMMA NextInStep ==
  ASSUME DevicesAssumption, MembershipInv, StepInv, [Next]_vars
  PROVE  StepInv'
  <1>1. CASE UNCHANGED vars
    BY <1>1, QuietKeeps DEF vars, Calmly, Calm
  <1>2. ASSUME NEW j \in Jobs, JobStep(j)  PROVE  StepInv'
    BY <1>2, LoadStays, SimpleStays, JobWritesStays, SubmitsStays, AskStays, RosterStays,
       PromotionStays, StartStays
    DEF JobStep
  <1>3. CASE Next
    BY <1>2, <1>3, RelayStays, PageStays, StartStays, SubmitsStays, ResetStays
    DEF Next
  <1> QED  BY <1>1, <1>3

\* The journal is never behind what the relay was told nor ahead of it: a
\* proof the relay has was stored first, whoever sent it, and an approval is
\* awaited only once the relay took the proof.
THEOREM JournalKeepsStep == Spec => []JournalInStep
  <1>1. Init => StepInv  BY InitInStep
  <1>2. MembershipInv /\ StepInv /\ [Next]_vars => StepInv'
    BY NextInStep, DevicesAssumption
  <1>3. MembershipInv /\ StepInv => JournalInStep  BY InStep
  <1> QED  BY <1>1, <1>2, <1>3, Invariance, PTL DEF Spec
=============================================================================
