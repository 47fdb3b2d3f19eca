----------------------- MODULE WorkspaceResetProofs -------------------------
(***************************************************************************)
(* For any number of registrations, jobs, rosters and faults: a device has *)
(* a whole workspace or is resetting, and one that knows it was removed is *)
(* leaving, as long as nothing goes on beside a reset.                     *)
(***************************************************************************)
EXTENDS WorkspaceMembershipProofs

USE DEF relayVars, identityVars, historyVars, connectionVars

\* All that a stored credential needs.
Belongs(d) ==
  d \in Devices /\ memberships[d].roster # NoRoster /\ identity # 0 /\ identity = registered[d]

\* No workspace is stored, nor about to be.
NoneSaving == \A j \in Jobs : ~At(j, "save")
Vacant == credential = 0 /\ journal = NoEntry /\ NoneSaving
Registering == page.at \in {"register", "prepare"}

\* A registration that is not stored yet has the stores to itself.
PageAlone ==
  Registering =>
    /\ Vacant /\ ~Resetting
    /\ page.entry.identity # 0 /\ identity = page.entry.identity
    /\ page.at = "prepare" =>
         page.entry.dev \in Devices /\ registered[page.entry.dev] = identity

\* A reset that goes on after another one has finished finds nothing.
NothingLeft ==
  \A r \in Runners :
    resets[r].at \in {"stop", "clear"} /\ ~intent => Vacant /\ ~Registering

\* What a reset has cleared stays clear.
StaysClear ==
  \A r \in Runners :
    ResetAt(r, "clear") =>
      /\ ~linked
      /\ "credential" \notin resets[r].left => credential = 0
      /\ "journal" \notin resets[r].left => journal = NoEntry

\* What is stored, and what a promotion is about to store, is of one
\* registration and whole.
StoredWhole ==
  ~intent =>
    /\ credential # 0 => Belongs(credential)
    /\ journal # NoEntry => identity # 0 /\ identity = registered[journal.dev]
    /\ journal # NoEntry /\ credential # 0 => journal.dev = credential
SavedWhole ==
  ~intent =>
    \A j \in Jobs : At(j, "save") =>
      Belongs(jobs[j].dev) /\ jobs[j].dev \in {journal.dev, credential}

\* The button asks for a reset when none is known; the worker's start never
\* asks for one.
OneAsks ==
  /\ ResetAt("button", "begin") => ~intent /\ ResetAt("startup", "idle") /\ credential # 0
  /\ ~ResetAt("startup", "begin")

\* A connection is watched by the alarm of the refresh, which finds a roster.
Watched ==
  linked => alarms.refresh /\ (credential # 0 => memberships[credential].roster # NoRoster)

Apart ==
  PageAlone /\ NothingLeft /\ StaysClear /\ StoredWhole /\ SavedWhole /\ OneAsks /\ Watched
ResetInv == ~raced => Apart

LEMMA ApartImplies ==
  ASSUME ResetInv
  PROVE  WholeOrResetting /\ RemovedIsLeaving
  BY DEF ResetInv, Apart, StoredWhole, Belongs, Watched, WholeOrResetting, RemovedIsLeaving

-----------------------------------------------------------------------------
(* Steps that leave the stores as they are, or take them further.          *)

\* No job comes to save that was not about to.
NoNewSave ==
  \A k \in Jobs : jobs'[k].at = "save" => jobs[k].at = "save" /\ jobs'[k].dev = jobs[k].dev
JournalKept == journal' = journal \/ (journal # NoEntry /\ journal'.dev = journal.dev)
RostersKept ==
  \A d \in Devices : memberships[d].roster # NoRoster => memberships'[d].roster # NoRoster
PageKept == page' = page \/ page'.at \notin {"register", "prepare"}
LinkKept == linked' => linked /\ (alarms.refresh => alarms'.refresh)

LEMMA CredentialIsDevice ==
  ASSUME DevicesAssumption, MembershipInv, credential # 0
  PROVE  credential \in Devices
  BY DEF MembershipInv, StoresOK, Devices, DevicesAssumption

LEMMA StaysApart ==
  ASSUME DevicesAssumption, MembershipInv, Apart,
         NoNewSave, JournalKept, RostersKept, PageKept, LinkKept,
         UNCHANGED <<registered, identity, credential, intent, resets>>
  PROVE  Apart'
  <1>1. Vacant => Vacant'
    BY DEF Vacant, NoneSaving, NoNewSave, JournalKept, At
  <1>2. ASSUME NEW d, Belongs(d)  PROVE Belongs(d)'
    BY <1>2 DEF Belongs, RostersKept
  <1>3. journal' # NoEntry => journal # NoEntry  BY DEF JournalKept
  <1>4. journal'.dev = journal.dev  BY DEF JournalKept
  <1>5. journal = NoEntry => journal' = NoEntry  BY DEF JournalKept
  <1>6. Resetting' <=> Resetting  BY DEF Resetting
  <1>7. Registering' => Registering /\ page' = page  BY DEF Registering, PageKept
  <1>8. PageAlone'  BY <1>1, <1>6, <1>7 DEF Apart, PageAlone
  <1>9. NothingLeft'  BY <1>1, <1>7 DEF Apart, NothingLeft
  <1>10. StaysClear'  BY <1>5 DEF Apart, StaysClear, ResetAt, LinkKept
  <1>11. StoredWhole'
    <2> SUFFICES ASSUME ~intent' PROVE
          /\ credential' # 0 => Belongs(credential)'
          /\ journal' # NoEntry => identity' # 0 /\ identity' = registered'[journal'.dev]
          /\ journal' # NoEntry /\ credential' # 0 => journal'.dev = credential'
      BY DEF StoredWhole
    <2>1. StoredWhole /\ ~intent  BY DEF Apart
    <2>2. ASSUME credential # 0  PROVE Belongs(credential)'
      <3>1. PICK d : d = credential  OBVIOUS
      <3>2. Belongs(d)'  BY <1>2, <2>1, <2>2, <3>1 DEF StoredWhole
      <3> QED  BY <3>1, <3>2 DEF Belongs
    <2> QED  BY <1>3, <1>4, <2>1, <2>2 DEF StoredWhole
  <1>12. SavedWhole'
    <2> SUFFICES ASSUME ~intent', NEW j \in Jobs, At(j, "save")'
                 PROVE  Belongs(jobs[j].dev)' /\ jobs'[j].dev \in {journal'.dev, credential'}
      BY DEF SavedWhole
    <2>1. PICK d : d = jobs'[j].dev  OBVIOUS
    <2>2. At(j, "save") /\ jobs[j].dev = d  BY <2>1 DEF NoNewSave, At
    <2>3. Belongs(d) /\ d \in {journal.dev, credential}
      BY <2>2 DEF Apart, SavedWhole
    <2>4. Belongs(d)'  BY <1>2, <2>3
    <2> QED  BY <1>4, <2>1, <2>3, <2>4 DEF Belongs
  <1>13. OneAsks'  BY DEF Apart, OneAsks, ResetAt
  <1>14. Watched'
    BY CredentialIsDevice DEF Apart, Watched, LinkKept, RostersKept
  <1> QED  BY <1>8, <1>9, <1>10, <1>11, <1>12, <1>13, <1>14 DEF Apart

\* What a step of one job does to it.
LEMMA SetNoSave ==
  ASSUME JobsOK, NEW j \in Jobs, NEW r, r.at # "save", jobs' = [jobs EXCEPT ![j] = r]
  PROVE  NoNewSave
  BY DEF NoNewSave, JobsOK

LEMMA SupersededSetNoSave ==
  ASSUME JobsOK, NEW j \in Jobs, NEW r, r.at # "save", jobs' = [Superseded EXCEPT ![j] = r]
  PROVE  NoNewSave
  <1> SUFFICES ASSUME NEW k \in Jobs, jobs'[k].at = "save"
               PROVE  jobs[k].at = "save" /\ jobs'[k].dev = jobs[k].dev
    BY DEF NoNewSave
  <1>1. jobs' = [i \in Jobs |-> IF i = j THEN r ELSE Superseded[i]]  BY DEF Superseded
  <1>2. k # j  BY <1>1
  <1>3. jobs'[k] = [jobs[k] EXCEPT !.live = FALSE]  BY <1>1, <1>2 DEF Superseded
  <1>4. jobs[k] \in JobTypes  BY DEF JobsOK
  <1> QED  BY <1>3, <1>4 DEF JobTypes

LEMMA SupersededNoSave ==
  ASSUME JobsOK, jobs' = Superseded
  PROVE  NoNewSave
  <1> SUFFICES ASSUME NEW k \in Jobs, jobs'[k].at = "save"
               PROVE  jobs[k].at = "save" /\ jobs'[k].dev = jobs[k].dev
    BY DEF NoNewSave
  <1>1. jobs'[k] = [jobs[k] EXCEPT !.live = FALSE]  BY DEF Superseded
  <1>2. jobs[k] \in JobTypes  BY DEF JobsOK
  <1> QED  BY <1>1, <1>2 DEF JobTypes

LEMMA SameJobsNoSave ==
  ASSUME UNCHANGED jobs
  PROVE  NoNewSave
  BY DEF NoNewSave

LEMMA ThrowsNoSave ==
  ASSUME JobsOK, NEW j \in Jobs, Ends(j) \/ FailClosed(j) \/ Throws(j) \/ NetworkFails(j)
  PROVE  NoNewSave
  <1>1. IdleJob.at # "save"  BY DEF IdleJob
  <1>2. CASE jobs' = [jobs EXCEPT ![j] = IdleJob]  BY <1>1, <1>2, SetNoSave
  <1>3. CASE jobs' = [Superseded EXCEPT ![j] = IdleJob]  BY <1>1, <1>3, SupersededSetNoSave
  <1> QED  BY <1>2, <1>3 DEF Ends, FailClosed, Throws, NetworkFails

LEMMA ThrowsLinkKept ==
  ASSUME ConnectionOK, NEW j \in Jobs, Throws(j) \/ NetworkFails(j)
  PROVE  LinkKept
  BY DEF Throws, NetworkFails, FailClosed, LinkKept, ConnectionOK

LEMMA JobGoesNoSave ==
  ASSUME JobsOK, NEW j \in Jobs, NEW step, step # "save", JobGoes(j, step)
  PROVE  NoNewSave
  <1> DEFINE r == [jobs[j] EXCEPT !.at = step]
  <1>1. jobs[j] \in JobTypes  BY DEF JobsOK
  <1>2. r.at = step  BY <1>1 DEF JobTypes
  <1>3. jobs' = [jobs EXCEPT ![j] = r]  BY DEF JobGoes
  <1> HIDE DEF r
  <1> QED  BY <1>2, <1>3, SetNoSave

LEMMA SameLink ==
  ASSUME UNCHANGED connectionVars
  PROVE  LinkKept
  BY DEF LinkKept

LEMMA PinKeepsRosters ==
  ASSUME DevicesAssumption, BeliefsOK, NEW d, NEW key, PinAuthority(d, key)
  PROVE  RostersKept
  <1>1. \A e \in Devices : memberships[e].roster # NoRoster => memberships[e].pinned
    BY DEF BeliefsOK, Sound
  <1> HIDE DEF Pinned
  <1> QED  BY <1>1 DEF RostersKept, PinAuthority, BeliefsOK

-----------------------------------------------------------------------------
(* The steps of the worker that leave a registration where it is.          *)

LEMMA StartApart ==
  ASSUME DevicesAssumption, MembershipInv, Apart, NEW j \in Jobs,
         Start(j) \/ LoadCredential(j) \/ LoadPending(j)
  PROVE  Apart'
  <1>1. JobsOK /\ ConnectionOK  BY DEF MembershipInv
  <1>2. /\ RostersKept /\ JournalKept /\ PageKept
        /\ UNCHANGED <<registered, identity, credential, intent, resets>>
    BY DEF RostersKept, JournalKept, PageKept, Start, LoadCredential, LoadPending
  <1>3. NoNewSave /\ LinkKept
    <2>1. CASE Start(j)
      <3> DEFINE r == [IdleJob EXCEPT !.at = "load", !.live = TRUE]
      <3>1. jobs' = [Superseded EXCEPT ![j] = r] /\ linked' = FALSE
        BY <2>1 DEF Start, Alarm, Asked, Connect
      <3>2. r.at = "load"  BY DEF IdleJob
      <3> HIDE DEF r
      <3> QED  BY <1>1, <3>1, <3>2, SupersededSetNoSave DEF LinkKept
    <2>2. CASE LoadCredential(j)
      <3>1. LinkKept  BY <2>2, SameLink DEF LoadCredential
      <3>2. CASE Ends(j)  BY <1>1, <3>1, <3>2, ThrowsNoSave
      <3>3. CASE ~Ends(j)
        <4> DEFINE step == IF memberships[credential].pinned THEN "ask" ELSE "open"
                   r == [IdleJob EXCEPT !.at = step, !.live = TRUE, !.goal = "active",
                                        !.dev = credential]
        <4>1. jobs' = [jobs EXCEPT ![j] = r]  BY <2>2, <3>3 DEF LoadCredential
        <4>2. step # "save"  OBVIOUS
        <4> HIDE DEF step
        <4>3. r.at = step  BY DEF IdleJob
        <4> HIDE DEF r
        <4> QED  BY <1>1, <3>1, <4>1, <4>2, <4>3, SetNoSave
      <3> QED  BY <3>2, <3>3
    <2>3. CASE LoadPending(j)
      <3>1. CASE JobGoes(j, "connect") /\ UNCHANGED connectionVars
        BY <1>1, <3>1, JobGoesNoSave, SameLink
      <3>2. CASE Throws(j)  BY <1>1, <3>2, ThrowsNoSave, ThrowsLinkKept
      <3>3. CASE /\ jobs' = [jobs EXCEPT ![j].at = "pin", ![j].dev = journal.dev,
                                         ![j].pending = journal]
                 /\ UNCHANGED connectionVars
        <4> DEFINE r == [jobs[j] EXCEPT !.at = "pin", !.dev = journal.dev, !.pending = journal]
        <4>1. jobs[j] \in JobTypes  BY <1>1 DEF JobsOK
        <4>2. r.at = "pin"  BY <4>1 DEF JobTypes
        <4>3. jobs' = [jobs EXCEPT ![j] = r]  BY <3>3
        <4> HIDE DEF r
        <4> QED  BY <1>1, <3>3, <4>2, <4>3, SetNoSave, SameLink
      <3> QED  BY <2>3, <3>1, <3>2, <3>3 DEF LoadPending
    <2> QED  BY <2>1, <2>2, <2>3
  <1> QED  BY <1>2, <1>3, StaysApart

LEMMA RefreshApart ==
  ASSUME DevicesAssumption, MembershipInv, Apart, NEW j \in Jobs, RefreshWhileOnline(j)
  PROVE  Apart'
  <1>1. JobsOK /\ ConnectionOK /\ BeliefsOK  BY DEF MembershipInv
  <1>2. /\ RostersKept /\ JournalKept /\ PageKept
        /\ UNCHANGED <<registered, identity, credential, intent, resets>>
    BY DEF RostersKept, JournalKept, PageKept, RefreshWhileOnline
  <1>3. CASE credential = 0
    BY <1>1, <1>2, <1>3, ThrowsNoSave, StaysApart DEF RefreshWhileOnline, FailClosed, LinkKept
  <1>4. CASE credential # 0 /\ memberships[credential].pinned
    <2> DEFINE r == [IdleJob EXCEPT !.at = "ask", !.goal = "online", !.dev = credential]
    <2>1. jobs' = [jobs EXCEPT ![j] = r]  BY <1>4 DEF RefreshWhileOnline
    <2>2. r.at = "ask"  BY DEF IdleJob
    <2> HIDE DEF r
    <2>3. NoNewSave  BY <1>1, <2>1, <2>2, SetNoSave
    <2>4. LinkKept  BY <1>4, SameLink DEF RefreshWhileOnline
    <2> QED  BY <1>2, <2>3, <2>4, StaysApart
  <1>5. CASE credential # 0 /\ ~memberships[credential].pinned
    <2>1. UNCHANGED <<jobs, linked>>  BY <1>5 DEF RefreshWhileOnline
    <2>2. credential \in Devices  BY <1>5, CredentialIsDevice
    <2>3. memberships[credential].roster = NoRoster
      BY <1>1, <1>5, <2>2 DEF BeliefsOK, Sound
    <2>4. ~linked  BY <1>5, <2>3 DEF Apart, Watched
    <2>5. linked' = FALSE  BY <1>1, <2>1, <2>4 DEF ConnectionOK
    <2>6. NoNewSave  BY <2>1, SameJobsNoSave
    <2> QED  BY <1>2, <2>5, <2>6, StaysApart DEF LinkKept
  <1> QED  BY <1>3, <1>4, <1>5

LEMMA JobPinsApart ==
  ASSUME DevicesAssumption, MembershipInv, Apart, NEW j \in Jobs, JobPins(j)
  PROVE  Apart'
  <1>1. JobsOK /\ ConnectionOK /\ BeliefsOK  BY DEF MembershipInv
  <1>2. /\ JournalKept /\ PageKept
        /\ UNCHANGED <<registered, identity, credential, intent, resets>>
    BY DEF JournalKept, PageKept, JobPins
  <1>3. RostersKept
    <2>1. CASE UNCHANGED memberships  BY <2>1 DEF RostersKept
    <2>2. CASE PinAuthority(jobs[j].pending.dev, jobs[j].pending.authority)
      BY <1>1, <2>2, PinKeepsRosters
    <2> QED  BY <2>1, <2>2 DEF JobPins
  <1>4. NoNewSave /\ LinkKept
    <2>1. CASE JobGoes(j, "bind") /\ UNCHANGED connectionVars
      BY <1>1, <2>1, JobGoesNoSave, SameLink
    <2>2. CASE Throws(j)  BY <1>1, <2>2, ThrowsNoSave, ThrowsLinkKept
    <2> QED  BY <2>1, <2>2 DEF JobPins
  <1> QED  BY <1>2, <1>3, <1>4, StaysApart

LEMMA MarksKeepJournal ==
  ASSUME JournalOK, NEW entry, SameEntry(entry),
         BindProof(entry) \/ MarkProofAttempted(entry) \/ MarkPendingApproval(entry)
  PROVE  JournalKept
  <1>1. journal \in Entries /\ journal # NoEntry  BY DEF JournalOK, SameEntry
  <1>2. CASE BindProof(entry)
    BY <1>1, <1>2 DEF BindProof, Entries, JournalKept
  <1>3. CASE MarkPendingApproval(entry)
    BY <1>1, <1>3 DEF MarkPendingApproval, Entries, JournalKept
  <1>4. CASE MarkProofAttempted(entry)
    <2> DEFINE p == IF journal.phase = "registered" THEN "proof-attempted"
                    ELSE journal.phase
    <2>1. journal' = [journal EXCEPT !.phase = p]  BY <1>4 DEF MarkProofAttempted
    <2> HIDE DEF p
    <2> QED  BY <1>1, <2>1 DEF Entries, JournalKept
  <1> QED  BY <1>2, <1>3, <1>4

LEMMA JobWritesApart ==
  ASSUME DevicesAssumption, MembershipInv, Apart, NEW j \in Jobs, JobWrites(j)
  PROVE  Apart'
  <1>1. JobsOK /\ ConnectionOK /\ JournalOK  BY DEF MembershipInv
  <1>2. /\ RostersKept /\ PageKept
        /\ UNCHANGED <<registered, identity, credential, intent, resets>>
    BY DEF RostersKept, PageKept, JobWrites
  <1>3. CASE Throws(j) /\ UNCHANGED journal
    <2>1. JournalKept  BY <1>3 DEF JournalKept
    <2> QED  BY <1>1, <1>2, <1>3, <2>1, ThrowsNoSave, ThrowsLinkKept, StaysApart
  <1>4. CASE ~(Throws(j) /\ UNCHANGED journal)
    <2>1. /\ SameEntry(jobs[j].pending) /\ UNCHANGED connectionVars
          /\ \/ BindProof(jobs[j].pending) /\ JobGoes(j, "ask")
             \/ MarkProofAttempted(jobs[j].pending) /\ JobGoes(j, "submit")
             \/ MarkPendingApproval(jobs[j].pending) /\ JobGoes(j, "result")
             \/ /\ MarkPendingApproval(jobs[j].pending)
                /\ jobs' = [jobs EXCEPT ![j].at = "ask", ![j].goal = "again"]
      BY <1>4 DEF JobWrites, At
    <2>2. JournalKept  BY <1>1, <2>1, MarksKeepJournal
    <2>3. LinkKept  BY <2>1, SameLink
    <2>4. NoNewSave
      <3>1. CASE JobGoes(j, "ask") \/ JobGoes(j, "submit") \/ JobGoes(j, "result")
        BY <1>1, <3>1, JobGoesNoSave
      <3>2. CASE jobs' = [jobs EXCEPT ![j].at = "ask", ![j].goal = "again"]
        <4> DEFINE r == [jobs[j] EXCEPT !.at = "ask", !.goal = "again"]
        <4>1. jobs[j] \in JobTypes  BY <1>1 DEF JobsOK
        <4>2. r.at = "ask"  BY <4>1 DEF JobTypes
        <4>3. jobs' = [jobs EXCEPT ![j] = r]  BY <3>2
        <4> HIDE DEF r
        <4> QED  BY <1>1, <4>2, <4>3, SetNoSave
      <3> QED  BY <2>1, <3>1, <3>2
    <2> QED  BY <1>2, <2>2, <2>3, <2>4, StaysApart
  <1> QED  BY <1>3, <1>4

LEMMA SubmitsApart ==
  ASSUME DevicesAssumption, MembershipInv, Apart, NEW j \in Jobs,
         JobSubmits(j) \/ RequestFails(j) \/ Result(j)
  PROVE  Apart'
  <1>1. JobsOK /\ ConnectionOK  BY DEF MembershipInv
  <1>2. /\ RostersKept /\ JournalKept /\ PageKept
        /\ UNCHANGED <<registered, identity, credential, intent, resets>>
    BY DEF RostersKept, JournalKept, PageKept, JobSubmits, RequestFails, Result
  <1>3. \/ (JobGoes(j, "settle") \/ JobGoes(j, "promote")) /\ UNCHANGED connectionVars
        \/ Throws(j) \/ NetworkFails(j)
    BY DEF JobSubmits, RequestFails, Result
  <1>4. NoNewSave /\ LinkKept
    BY <1>1, <1>3, JobGoesNoSave, ThrowsNoSave, SameLink, ThrowsLinkKept
  <1> QED  BY <1>2, <1>4, StaysApart

LEMMA RefreshedNoSave ==
  ASSUME JobsOK, ConnectionOK, NEW j \in Jobs, NEW state, NEW active \in BOOLEAN,
         Refreshed(j, state, active)
  PROVE  NoNewSave /\ LinkKept
  <1>1. jobs[j] \in JobTypes /\ jobs[j].goal \in {"recover", "again", "active", "online"}
    BY DEF JobsOK, JobTypes
  <1> DEFINE answer == [NoAnswer EXCEPT !.state = state, !.active = active]
             goes(step) ==
               /\ jobs' = [jobs EXCEPT ![j].at = step, ![j].base = 0, ![j].rosters = <<>>,
                                       ![j].answer = answer]
               /\ UNCHANGED connectionVars
  <1>2. ASSUME NEW step, step \in {"attempt", "mark", "result", "open"}, goes(step)
        PROVE  NoNewSave /\ LinkKept
    <2>1. jobs' = [jobs EXCEPT ![j].at = step, ![j].base = 0, ![j].rosters = <<>>,
                               ![j].answer = answer]
          /\ UNCHANGED connectionVars
      BY <1>2
    <2> HIDE DEF answer
    <2> DEFINE r == [jobs[j] EXCEPT !.at = step, !.base = 0, !.rosters = <<>>,
                                    !.answer = answer]
    <2>2. r.at = step  BY <1>1 DEF JobTypes
    <2>3. jobs' = [jobs EXCEPT ![j] = r]  BY <2>1
    <2> HIDE DEF r
    <2> QED  BY <1>2, <2>1, <2>2, <2>3, SetNoSave, SameLink
  <1>3. CASE Throws(j)  BY <1>3, ThrowsNoSave, ThrowsLinkKept
  <1>4. CASE Ends(j) /\ UNCHANGED connectionVars  BY <1>4, ThrowsNoSave, SameLink
  <1>5. \/ Throws(j) \/ (Ends(j) /\ UNCHANGED connectionVars)
        \/ \E step \in {"attempt", "mark", "result", "open"} : goes(step)
    <2> DEFINE good == state = "approved" /\ active
    <2>1. CASE jobs[j].goal = "recover" /\ state = "pending_proof"
      BY <2>1 DEF Refreshed
    <2>2. CASE jobs[j].goal = "recover" /\ state # "pending_proof"
      BY <2>2 DEF Refreshed
    <2>3. CASE jobs[j].goal = "again"  BY <2>3 DEF Refreshed
    <2>4. CASE jobs[j].goal \in {"active", "online"} /\ ~good  BY <2>4 DEF Refreshed
    <2>5. CASE jobs[j].goal = "active" /\ good  BY <2>5 DEF Refreshed
    <2>6. CASE jobs[j].goal = "online" /\ good  BY <2>6 DEF Refreshed
    <2> QED  BY <1>1, <2>1, <2>2, <2>3, <2>4, <2>5, <2>6
  <1> QED  BY <1>2, <1>3, <1>4, <1>5

\* A job at any step comes to one that does not save.
LEMMA AskApart ==
  ASSUME DevicesAssumption, MembershipInv, Apart, NEW j \in Jobs, Ask(j) \/ Accept(j)
  PROVE  Apart'
  <1>1. JobsOK /\ ConnectionOK /\ jobs[j] \in JobTypes  BY DEF MembershipInv, JobsOK
  <1>2. /\ RostersKept /\ JournalKept /\ PageKept
        /\ UNCHANGED <<registered, identity, credential, intent, resets>>
    BY DEF RostersKept, JournalKept, PageKept, Ask, Accept
  <1>3. CASE Throws(j)
    BY <1>1, <1>2, <1>3, ThrowsNoSave, ThrowsLinkKept, StaysApart
  <1>4. ASSUME NEW state, NEW active \in BOOLEAN, Refreshed(j, state, active)
        PROVE  Apart'
    BY <1>1, <1>2, <1>4, RefreshedNoSave, StaysApart
  <1>5. ASSUME NEW first, NEW last, NEW cert, UNCHANGED connectionVars,
               jobs' = Answer(j, first, last, cert)
        PROVE  Apart'
    <2> DEFINE base == MembershipOf(j).roster.epoch
               rosters == SubSeq(chain, first, last)
               answer == [state |-> "approved", active |-> FALSE, latest |-> Len(chain),
                          cert |-> cert, key |-> Top.key]
               r == [jobs[j] EXCEPT !.at = "roster", !.base = base, !.answer = answer,
                                    !.rosters = rosters]
    <2>1. jobs' = [jobs EXCEPT ![j] = r]  BY <1>5 DEF Answer
    <2> HIDE DEF base, rosters, answer
    <2>2. r.at = "roster"  BY <1>1 DEF JobTypes
    <2> HIDE DEF r
    <2>3. NoNewSave /\ LinkKept  BY <1>1, <1>5, <2>1, <2>2, SetNoSave, SameLink
    <2> QED  BY <1>2, <2>3, StaysApart
  <1>6. CASE /\ jobs' = [jobs EXCEPT ![j].at = "ask", ![j].base = 0, ![j].answer = NoAnswer]
             /\ UNCHANGED connectionVars
    <2> HIDE DEF NoAnswer
    <2> DEFINE r == [jobs[j] EXCEPT !.at = "ask", !.base = 0, !.answer = NoAnswer]
    <2>1. jobs' = [jobs EXCEPT ![j] = r]  BY <1>6
    <2>2. r.at = "ask"  BY <1>1 DEF JobTypes
    <2> HIDE DEF r
    <2>3. NoNewSave /\ LinkKept  BY <1>1, <1>6, <2>1, <2>2, SetNoSave, SameLink
    <2> QED  BY <1>2, <2>3, StaysApart
  <1>7. CASE Ask(j)
    <2>1. \/ Throws(j) \/ Refreshed(j, enrolments[jobs[j].dev], FALSE)
          \/ /\ UNCHANGED connectionVars
             /\ \E first, last, cert : jobs' = Answer(j, first, last, cert)
      BY <1>7 DEF Ask
    <2> QED  BY <1>3, <1>4, <1>5, <2>1
  <1>8. CASE Accept(j)
    <2>1. MembershipOf(j).active \in BOOLEAN
      <3>1. MembershipOf(j) \in Memberships
        BY <1>1, <1>8, HasBelief DEF MembershipInv, Accept, At
      <3> QED  BY <3>1 DEF Memberships
    <2>2. \/ Throws(j) \/ Refreshed(j, "approved", MembershipOf(j).active)
          \/ /\ jobs' = [jobs EXCEPT ![j].at = "ask", ![j].base = 0, ![j].answer = NoAnswer]
             /\ UNCHANGED connectionVars
      BY <1>8 DEF Accept
    <2> QED  BY <1>3, <1>4, <1>6, <2>1, <2>2
  <1> QED  BY <1>7, <1>8

LEMMA VerifyApart ==
  ASSUME DevicesAssumption, MembershipInv, Apart, NEW j \in Jobs, Verify(j)
  PROVE  Apart'
  <1>1. JobsOK /\ ConnectionOK /\ jobs[j] \in JobTypes  BY DEF MembershipInv, JobsOK
  <1>2. /\ RostersKept /\ JournalKept /\ PageKept
        /\ UNCHANGED <<registered, identity, credential, intent, resets>>
    BY DEF RostersKept, JournalKept, PageKept, Verify
  <1>3. CASE Throws(j)
    BY <1>1, <1>2, <1>3, ThrowsNoSave, ThrowsLinkKept, StaysApart
  <1>4. CASE jobs' = Dropped(j) /\ UNCHANGED connectionVars
    <2> DEFINE t == Tail(jobs[j].rosters)
               q == [jobs[j] EXCEPT !.rosters = t]
    <2>1. jobs' = [jobs EXCEPT ![j] = q]  BY <1>4 DEF Dropped
    <2> HIDE DEF t
    <2>2. q.at = "roster"  BY <1>1 DEF JobTypes, Verify, At
    <2> HIDE DEF q
    <2>3. NoNewSave /\ LinkKept  BY <1>1, <1>4, <2>1, <2>2, SetNoSave, SameLink
    <2> QED  BY <1>2, <2>3, StaysApart
  <1>5. ASSUME NEW m, NEW next, UNCHANGED connectionVars,
               jobs' = [jobs EXCEPT ![j].at = "write", ![j].seen = m, ![j].proposed = next]
        PROVE  Apart'
    <2> DEFINE q == [jobs[j] EXCEPT !.at = "write", !.seen = m, !.proposed = next]
    <2>1. jobs' = [jobs EXCEPT ![j] = q]  BY <1>5
    <2>2. q.at = "write"  BY <1>1 DEF JobTypes
    <2> HIDE DEF q
    <2>3. NoNewSave /\ LinkKept  BY <1>1, <1>5, <2>1, <2>2, SetNoSave, SameLink
    <2> QED  BY <1>2, <2>3, StaysApart
  <1> DEFINE m == MembershipOf(j)
             d == jobs[j].dev
             r == Head(jobs[j].rosters)
             authority == WithAuthority(m, d, r)
             roster == WithRoster(m, d, Proposed(m, d, r, jobs[j].answer.cert), r)
  <1>6. \/ Throws(j)
        \/ jobs' = Dropped(j) /\ UNCHANGED connectionVars
        \/ /\ UNCHANGED connectionVars
           /\ jobs' = [jobs EXCEPT ![j].at = "write", ![j].seen = m, ![j].proposed = authority]
        \/ /\ UNCHANGED connectionVars
           /\ jobs' = [jobs EXCEPT ![j].at = "write", ![j].seen = m, ![j].proposed = roster]
    BY DEF Verify
  <1> HIDE DEF m, authority, roster
  <1> QED  BY <1>3, <1>4, <1>5, <1>6

LEMMA WriteApart ==
  ASSUME DevicesAssumption, MembershipInv, Apart, NEW j \in Jobs, Write(j)
  PROVE  Apart'
  <1>1. JobsOK /\ ConnectionOK /\ BeliefsOK /\ jobs[j] \in JobTypes
    BY DEF MembershipInv, JobsOK
  <1>2. /\ JournalKept /\ PageKept
        /\ UNCHANGED <<registered, identity, credential, intent, resets>>
    BY DEF JournalKept, PageKept, Write
  <1>3. CASE Throws(j) /\ UNCHANGED memberships
    <2>1. RostersKept  BY <1>3 DEF RostersKept
    <2> QED  BY <1>1, <1>2, <1>3, <2>1, ThrowsNoSave, ThrowsLinkKept, StaysApart
  <1>4. CASE /\ MembershipOf(j) = jobs[j].seen
             /\ memberships' = [memberships EXCEPT ![jobs[j].dev] = jobs[j].proposed]
             /\ jobs' = [Dropped(j) EXCEPT ![j].at = "roster", ![j].seen = Absent,
                                           ![j].proposed = Absent]
             /\ UNCHANGED connectionVars
    <2> DEFINE t == Tail(jobs[j].rosters)
               q == [jobs[j] EXCEPT !.rosters = t, !.at = "roster", !.seen = Absent,
                                    !.proposed = Absent]
    <2> HIDE DEF Absent
    <2>1. jobs' = [jobs EXCEPT ![j] = q]  BY <1>1, <1>4 DEF Dropped, JobsOK
    <2> HIDE DEF t
    <2>2. q.at = "roster"  BY <1>1 DEF JobTypes
    <2> HIDE DEF q
    <2>3. NoNewSave /\ LinkKept  BY <1>1, <1>4, <2>1, <2>2, SetNoSave, SameLink
    <2>4. RostersKept
      <3> DEFINE was == jobs[j].seen
                 now == jobs[j].proposed
      <3>1. NextBelief(was, now, jobs[j].dev)  BY <1>1 DEF Write, At, JobsOK, JobOK
      <3>2. was \in Memberships  BY <1>1 DEF JobTypes
      <3> HIDE DEF was, now
      <3>3. was.roster.epoch \in Nat  BY <3>2 DEF Memberships, Rosters
      <3>4. was.roster # NoRoster => now.roster.epoch # 0  BY <3>1, <3>3 DEF NextBelief
      <3>5. NoRoster.epoch = 0  BY DEF NoRoster
      <3>6. was.roster # NoRoster => now.roster # NoRoster  BY <3>4, <3>5
      <3>7. memberships[jobs[j].dev] = was  BY <1>4 DEF MembershipOf, was
      <3>8. \A e \in Devices : memberships'[e] = IF e = jobs[j].dev THEN now
                                                 ELSE memberships[e]
        BY <1>1, <1>4 DEF BeliefsOK, now
      <3> QED  BY <3>6, <3>7, <3>8 DEF RostersKept
    <2> QED  BY <1>2, <2>3, <2>4, StaysApart
  <1> QED  BY <1>3, <1>4 DEF Write

-----------------------------------------------------------------------------
(* The relay, the page, and the losses of the connection and the worker.   *)

LEMMA RelayApart ==
  ASSUME DevicesAssumption, MembershipInv, Apart, Authority \/ Restore \/ Drops
  PROVE  Apart'
  <1>1. ConnectionOK  BY DEF MembershipInv
  <1>2. /\ RostersKept /\ JournalKept /\ PageKept /\ UNCHANGED jobs
        /\ UNCHANGED <<registered, identity, credential, intent, resets>>
    BY DEF RostersKept, JournalKept, PageKept, Authority, Restore, Drops
  <1>3. LinkKept  BY <1>1 DEF LinkKept, Authority, Restore, Drops, ConnectionOK
  <1> QED  BY <1>2, <1>3, SameJobsNoSave, StaysApart

LEMMA PageApart ==
  ASSUME DevicesAssumption, MembershipInv, Apart,
         PagePins \/ PageWrites \/ PageCloses \/ (\E answered \in BOOLEAN : PageSubmits(answered))
  PROVE  Apart'
  <1>1. ConnectionOK /\ BeliefsOK /\ JournalOK /\ PageOK  BY DEF MembershipInv
  <1>2. UNCHANGED <<registered, identity, credential, intent, resets, jobs>>
    BY DEF PagePins, PageWrites, PageCloses, PageSubmits
  <1>3. RostersKept
    <2>1. CASE UNCHANGED memberships  BY <2>1 DEF RostersKept
    <2>2. CASE PinAuthority(page.entry.dev, page.entry.authority)
      BY <1>1, <2>2, PinKeepsRosters
    <2> QED  BY <2>1, <2>2 DEF PagePins, PageWrites, PageCloses, PageSubmits
  <1>4. JournalKept
    <2>1. CASE UNCHANGED journal  BY <2>1 DEF JournalKept
    <2>2. CASE PageWrites /\ ~UNCHANGED journal
      <3>1. /\ SameEntry(page.entry)
            /\ \/ BindProof(page.entry) \/ MarkProofAttempted(page.entry)
               \/ MarkPendingApproval(page.entry)
        BY <2>2 DEF PageWrites, PageAt
      <3> QED  BY <1>1, <3>1, MarksKeepJournal
    <2> QED  BY <2>1, <2>2 DEF PagePins, PageCloses, PageSubmits
  <1>5. PageKept
    <2>1. IdlePage.at = "idle"  BY DEF IdlePage
    <2>2. CASE page' = IdlePage  BY <2>1, <2>2 DEF PageKept
    <2>3. ASSUME NEW step, step \notin {"register", "prepare"}, PageGoes(step)
          PROVE  PageKept
      BY <1>1, <2>3 DEF PageGoes, PageKept, PageOK
    <2>4. CASE PagePins  BY <2>2, <2>3, <2>4 DEF PagePins
    <2>5. CASE PageWrites  BY <2>2, <2>3, <2>5 DEF PageWrites, PageAt
    <2>6. CASE PageCloses  BY <2>2, <2>6 DEF PageCloses
    <2>7. CASE \E answered \in BOOLEAN : PageSubmits(answered)
      BY <2>2, <2>3, <2>7 DEF PageSubmits
    <2> QED  BY <2>4, <2>5, <2>6, <2>7
  <1>6. LinkKept
    <2>1. CASE UNCHANGED connectionVars  BY <2>1, SameLink
    <2>2. CASE UNCHANGED linked /\ alarms' = [alarms EXCEPT !.reconnect = TRUE]
      BY <1>1, <2>2 DEF LinkKept, ConnectionOK
    <2> QED  BY <2>1, <2>2 DEF PagePins, PageWrites, PageAt, PageCloses, PageSubmits
  <1> QED  BY <1>2, <1>3, <1>4, <1>5, <1>6, SameJobsNoSave, StaysApart

-----------------------------------------------------------------------------
(* The steps that bring a registration or store one.  They are not beside  *)
(* a reset, or they would have raced with it.                              *)

LEMMA BelongingIsDevice ==
  ASSUME DevicesAssumption, NEW d, Belongs(d)
  PROVE  d \in Devices /\ d # 0
  BY DEF Belongs, Devices, DevicesAssumption

\* Without a reset, only what is stored matters.
LEMMA NoResetApart ==
  ASSUME ~Resetting', PageAlone', StoredWhole', SavedWhole', Watched'
  PROVE  Apart'
  <1>1. \A r \in Runners : resets'[r].at = "idle"  BY DEF Resetting
  <1>2. "button" \in Runners /\ "startup" \in Runners  BY DEF Runners
  <1> QED  BY <1>1, <1>2 DEF Apart, NothingLeft, StaysClear, OneAsks, ResetAt

LEMMA SameStores ==
  ASSUME Apart, NoNewSave,
         UNCHANGED <<registered, identity, credential, journal, memberships, intent>>
  PROVE  StoredWhole' /\ SavedWhole'
  <1>1. StoredWhole'  BY DEF Apart, StoredWhole, Belongs
  <1>2. SavedWhole'
    <2> SUFFICES ASSUME ~intent', NEW j \in Jobs, At(j, "save")'
                 PROVE  Belongs(jobs[j].dev)' /\ jobs'[j].dev \in {journal'.dev, credential'}
      BY DEF SavedWhole
    <2>1. At(j, "save") /\ jobs[j].dev = jobs'[j].dev  BY DEF NoNewSave, At
    <2> QED  BY <2>1 DEF Apart, SavedWhole, Belongs
  <1> QED  BY <1>1, <1>2

\* Where nothing is stored, nothing is about to be.
LEMMA NothingSaved ==
  ASSUME DevicesAssumption, SavedWhole, ~intent, credential = 0, journal = NoEntry
  PROVE  Vacant
  <1>1. journal.dev = 0  BY DEF NoEntry
  <1> QED  BY <1>1, BelongingIsDevice DEF SavedWhole, Vacant, NoneSaving

LEMMA VacantWhole ==
  ASSUME Vacant'
  PROVE  StoredWhole' /\ SavedWhole'
  BY DEF Vacant, NoneSaving, StoredWhole, SavedWhole

LEMMA SubmitApart ==
  ASSUME DevicesAssumption, MembershipInv, Apart, ~raced', Submit
  PROVE  Apart'
  <1>1. ~Resetting /\ ~Resetting'  BY DEF Submit, Resetting
  <1>2. Vacant  BY <1>1, NothingSaved DEF Submit, Apart, Resetting
  <1>3. Vacant'  BY <1>2 DEF Submit, Vacant, NoneSaving, At
  <1>4. identity' # 0
    <2>1. identity \in Nat /\ identities \in Nat  BY DEF MembershipInv, StoresOK
    <2> QED  BY <2>1 DEF Submit
  <1>5. page'.at = "register" /\ page'.entry.identity = identity'
    BY DEF Submit, NoEntry
  <1>6. PageAlone'  BY <1>1, <1>3, <1>4, <1>5 DEF PageAlone
  <1>7. Watched'  BY DEF Apart, Watched, Submit
  <1> QED  BY <1>1, <1>3, <1>6, <1>7, VacantWhole, NoResetApart

LEMMA RegisterApart ==
  ASSUME DevicesAssumption, MembershipInv, Apart, NEW answered \in BOOLEAN, Register(answered)
  PROVE  Apart'
  <1>1. page.at = "register" /\ Registering  BY DEF Register, PageAt, Registering
  <1>2. /\ Vacant /\ ~Resetting /\ page.entry.identity # 0
        /\ identity = page.entry.identity
    BY <1>1 DEF Apart, PageAlone
  <1>3. Vacant' /\ ~Resetting'  BY <1>2 DEF Register, Vacant, NoneSaving, At, Resetting
  <1>4. PageAlone'
    <2>1. IdlePage.at = "idle"  BY DEF IdlePage
    <2>2. PICK d \in Devices :
            /\ registered' = [registered EXCEPT ![d] = page.entry.identity]
            /\ page' = IF answered
                       THEN [at |-> "prepare",
                             entry |-> [page.entry EXCEPT !.dev = d, !.authority = Top.key,
                                                          !.phase = "registered"]]
                       ELSE IdlePage
      BY DEF Register
    <2>3. CASE ~answered  BY <2>1, <2>2, <2>3 DEF PageAlone, Registering
    <2>4. CASE answered
      <3> DEFINE key == Top.key
                 entry == [page.entry EXCEPT !.dev = d, !.authority = key,
                                             !.phase = "registered"]
      <3>1. page.entry \in Entries  BY DEF MembershipInv, PageOK
      <3>2. page' = [at |-> "prepare", entry |-> entry]  BY <2>2, <2>4
      <3> HIDE DEF key
      <3>3. entry.dev = d /\ entry.identity = page.entry.identity
        BY <3>1 DEF Entries
      <3> HIDE DEF entry
      <3>4. registered'[d] = page.entry.identity
        BY <2>2 DEF MembershipInv, RelayOK
      <3>5. identity' = identity  BY DEF Register
      <3> QED  BY <1>2, <1>3, <3>2, <3>3, <3>4, <3>5 DEF PageAlone
    <2> QED  BY <2>3, <2>4
  <1>5. Watched'  BY DEF Apart, Watched, Register
  <1> QED  BY <1>3, <1>4, <1>5, VacantWhole, NoResetApart

LEMMA PrepareApart ==
  ASSUME DevicesAssumption, MembershipInv, Apart, PrepareRegistration
  PROVE  Apart'
  <1>1. page.at = "prepare" /\ Registering  BY DEF PrepareRegistration, PageAt, Registering
  <1>2. /\ Vacant /\ ~Resetting /\ page.entry.identity # 0
        /\ identity = page.entry.identity /\ page.entry.dev \in Devices
        /\ registered[page.entry.dev] = identity
    BY <1>1 DEF Apart, PageAlone
  <1>3. journal' = page.entry /\ PageGoes("pin")
    BY <1>2 DEF PrepareRegistration, Vacant
  <1>4. ~Resetting'  BY <1>2 DEF PrepareRegistration, Resetting
  <1>5. PageAlone'
    <2>1. page'.at = "pin"  BY <1>3 DEF PageGoes, MembershipInv, PageOK
    <2> QED  BY <2>1 DEF PageAlone, Registering
  <1>6. StoredWhole' /\ SavedWhole'
    BY <1>2, <1>3 DEF PrepareRegistration, StoredWhole, SavedWhole, Vacant, NoneSaving, At
  <1>7. Watched'  BY DEF Apart, Watched, PrepareRegistration
  <1> QED  BY <1>4, <1>5, <1>6, <1>7, NoResetApart

LEMMA CheckPromotionApart ==
  ASSUME DevicesAssumption, MembershipInv, Apart, NEW j \in Jobs, CheckPromotion(j)
  PROVE  Apart'
  <1>1. JobsOK /\ ConnectionOK /\ jobs[j] \in JobTypes  BY DEF MembershipInv, JobsOK
  <1>2. /\ RostersKept /\ JournalKept /\ PageKept
        /\ UNCHANGED <<registered, identity, credential, journal, memberships, intent, resets,
                       page>>
    BY DEF RostersKept, JournalKept, PageKept, CheckPromotion
  <1>3. CASE Throws(j)
    BY <1>1, <1>2, <1>3, ThrowsNoSave, ThrowsLinkKept, StaysApart
  <1>4. CASE /\ journal # NoEntry /\ Promotable(journal, memberships[journal.dev])
             /\ jobs' = [jobs EXCEPT ![j].at = "save", ![j].dev = journal.dev,
                                     ![j].pending = journal, ![j].answer = NoAnswer]
             /\ UNCHANGED connectionVars
    <2> HIDE DEF NoAnswer
    <2> DEFINE r == [jobs[j] EXCEPT !.at = "save", !.dev = journal.dev, !.pending = journal,
                                    !.answer = NoAnswer]
    <2>1. jobs' = [jobs EXCEPT ![j] = r]  BY <1>4
    <2>2. r.dev = journal.dev  BY <1>1 DEF JobTypes
    <2> HIDE DEF r
    <2>3. ~Vacant  BY <1>4 DEF Vacant
    <2>4. PageAlone'  BY <1>2, <2>3 DEF Apart, PageAlone, Registering
    <2>5. NothingLeft'  BY <1>2, <2>3 DEF Apart, NothingLeft
    <2>6. StaysClear'  BY <1>2, <1>4 DEF Apart, StaysClear, ResetAt
    <2>7. StoredWhole'  BY <1>2 DEF Apart, StoredWhole, Belongs
    <2>8. SavedWhole'
      <3> SUFFICES ASSUME ~intent', NEW k \in Jobs, At(k, "save")'
                   PROVE  Belongs(jobs[k].dev)' /\ jobs'[k].dev \in {journal'.dev, credential'}
        BY DEF SavedWhole
      <3>1. CASE k = j
        <4>1. jobs'[k].dev = journal.dev  BY <1>1, <2>1, <2>2, <3>1 DEF JobsOK
        <4>2. journal.dev \in Devices
          BY <1>4 DEF MembershipInv, JournalOK, Entries, Devices, DevicesAssumption
        <4>3. Belongs(journal.dev)
          BY <1>2, <1>4, <4>2 DEF Apart, StoredWhole, Promotable, Belongs
        <4> QED  BY <1>2, <4>1, <4>3 DEF Belongs
      <3>2. CASE k # j
        <4>1. jobs'[k] = jobs[k]  BY <1>1, <2>1, <3>2 DEF JobsOK
        <4> QED  BY <1>2, <4>1 DEF Apart, SavedWhole, Belongs, At
      <3> QED  BY <3>1, <3>2
    <2>9. OneAsks'  BY <1>2 DEF Apart, OneAsks, ResetAt
    <2>10. Watched'  BY <1>2, <1>4 DEF Apart, Watched
    <2> QED  BY <2>4, <2>5, <2>6, <2>7, <2>8, <2>9, <2>10 DEF Apart
  <1> QED  BY <1>3, <1>4 DEF CheckPromotion

LEMMA SaveNewApart ==
  ASSUME DevicesAssumption, MembershipInv, Apart, ~raced', NEW j \in Jobs, SaveNew(j)
  PROVE  Apart'
  <1>1. JobsOK /\ ConnectionOK  BY DEF MembershipInv, JobsOK
  <1>2. /\ JournalKept /\ RostersKept /\ PageKept
        /\ UNCHANGED <<registered, identity, journal, memberships, intent, resets, page>>
    BY DEF JournalKept, RostersKept, PageKept, SaveNew
  <1>3. CASE Throws(j) /\ UNCHANGED credential
    BY <1>1, <1>2, <1>3, ThrowsNoSave, ThrowsLinkKept, StaysApart
  <1>4. CASE /\ credential \in {0, jobs[j].dev} /\ credential' = jobs[j].dev
             /\ raced' = (raced \/ Resetting)
             /\ JobGoes(j, "clear") /\ UNCHANGED connectionVars
    <2>1. ~Resetting /\ ~intent /\ ~Resetting'  BY <1>2, <1>4 DEF Resetting
    <2>2. NoNewSave  BY <1>1, <1>4, JobGoesNoSave
    <2>3. At(j, "save")  BY DEF SaveNew
    <2>4. PICK d : d = jobs[j].dev  OBVIOUS
    <2>5. Belongs(d) /\ d \in {journal.dev, credential} /\ d # 0
      BY <2>1, <2>3, <2>4, BelongingIsDevice DEF Apart, SavedWhole
    <2>6. Belongs(d)'  BY <1>2, <2>5 DEF Belongs
    <2>7. PageAlone'
      <3>1. ~Registering  BY <2>3 DEF Apart, PageAlone, Vacant, NoneSaving
      <3> QED  BY <1>2, <3>1 DEF PageAlone, Registering
    <2>8. StoredWhole'
      <3>1. Belongs(credential)'  BY <1>4, <2>4, <2>6 DEF Belongs
      <3>2. journal # NoEntry => journal.dev = d
        BY <2>1, <2>5 DEF Apart, StoredWhole
      <3> QED  BY <1>2, <1>4, <2>1, <2>4, <3>1, <3>2 DEF Apart, StoredWhole
    <2>9. SavedWhole'
      <3> SUFFICES ASSUME NEW k \in Jobs, At(k, "save")'
                   PROVE  Belongs(jobs[k].dev)' /\ jobs'[k].dev \in {journal'.dev, credential'}
        BY DEF SavedWhole
      <3>1. PICK e : e = jobs'[k].dev  OBVIOUS
      <3>2. At(k, "save") /\ jobs[k].dev = e  BY <2>2, <3>1 DEF NoNewSave, At
      <3>3. Belongs(e) /\ e \in {journal.dev, credential} /\ e # 0
        BY <2>1, <3>2, BelongingIsDevice DEF Apart, SavedWhole
      <3>4. e \in {journal.dev, d}  BY <1>4, <2>4, <3>3
      <3>5. Belongs(e)'  BY <1>2, <3>3 DEF Belongs
      <3> QED  BY <1>2, <1>4, <2>4, <3>1, <3>4, <3>5 DEF Belongs
    <2>10. Watched'
      BY <1>2, <1>4, <2>4, <2>5 DEF Apart, Watched, Belongs
    <2> QED  BY <2>1, <2>7, <2>8, <2>9, <2>10, NoResetApart
  <1> QED  BY <1>3, <1>4 DEF SaveNew

LEMMA ClearPendingApart ==
  ASSUME DevicesAssumption, MembershipInv, Apart, NEW j \in Jobs, ClearPending(j)
  PROVE  Apart'
  <1>1. JobsOK /\ ConnectionOK  BY DEF MembershipInv, JobsOK
  <1>2. /\ RostersKept /\ PageKept
        /\ UNCHANGED <<registered, identity, credential, memberships, intent, resets, page>>
    BY DEF RostersKept, PageKept, ClearPending
  <1>3. CASE Throws(j) /\ UNCHANGED journal
    <2>1. JournalKept  BY <1>3 DEF JournalKept
    <2> QED  BY <1>1, <1>2, <1>3, <2>1, ThrowsNoSave, ThrowsLinkKept, StaysApart
  <1>4. CASE /\ credential = jobs[j].dev /\ journal' = NoEntry
             /\ JobGoes(j, "connect") /\ UNCHANGED connectionVars
    <2>1. NoNewSave  BY <1>1, <1>4, JobGoesNoSave
    <2>2. credential # 0  BY <1>1, <1>4 DEF ClearPending, At, JobsOK, JobOK
    <2>3. ~Vacant  BY <2>2 DEF Vacant
    <2>4. PageAlone'  BY <1>2, <2>3 DEF Apart, PageAlone, Registering
    <2>5. NothingLeft'  BY <1>2, <2>3 DEF Apart, NothingLeft
    <2>6. StaysClear'  BY <1>2, <1>4 DEF Apart, StaysClear, ResetAt
    <2>7. StoredWhole'  BY <1>2, <1>4 DEF Apart, StoredWhole, Belongs
    <2>8. SavedWhole'
      <3> SUFFICES ASSUME ~intent', NEW k \in Jobs, At(k, "save")'
                   PROVE  Belongs(jobs[k].dev)' /\ jobs'[k].dev = credential'
        BY DEF SavedWhole
      <3>1. PICK e : e = jobs'[k].dev  OBVIOUS
      <3>2. At(k, "save") /\ jobs[k].dev = e  BY <2>1, <3>1 DEF NoNewSave, At
      <3>3. Belongs(e) /\ e \in {journal.dev, credential} /\ e # 0
        BY <1>2, <3>2, BelongingIsDevice DEF Apart, SavedWhole
      <3>4. e = credential
        <4>1. CASE e = journal.dev
          <5>1. journal # NoEntry  BY <3>3, <4>1 DEF NoEntry
          <5> QED  BY <1>2, <2>2, <4>1, <5>1 DEF Apart, StoredWhole
        <4> QED  BY <3>3, <4>1
      <3>5. Belongs(e)'  BY <1>2, <3>3 DEF Belongs
      <3> QED  BY <1>2, <3>1, <3>4, <3>5 DEF Belongs
    <2>9. OneAsks'  BY <1>2 DEF Apart, OneAsks, ResetAt
    <2>10. Watched'  BY <1>2, <1>4 DEF Apart, Watched
    <2> QED  BY <2>4, <2>5, <2>6, <2>7, <2>8, <2>9, <2>10 DEF Apart
  <1> QED  BY <1>3, <1>4 DEF ClearPending

LEMMA OpenApart ==
  ASSUME DevicesAssumption, MembershipInv, Apart, ~raced', NEW j \in Jobs, Open(j)
  PROVE  Apart'
  <1>1. JobsOK /\ ConnectionOK  BY DEF MembershipInv, JobsOK
  <1>2. /\ RostersKept /\ JournalKept /\ PageKept
        /\ UNCHANGED <<registered, identity, credential, journal, memberships, intent, resets,
                       page>>
    BY DEF RostersKept, JournalKept, PageKept, Open
  <1>3. NoNewSave  BY <1>1, ThrowsNoSave DEF Open
  <1>4. CASE LinkKept  BY <1>2, <1>3, <1>4, StaysApart
  <1>5. CASE linked' = TRUE /\ alarms' = [reconnect |-> FALSE, refresh |-> TRUE]
             /\ raced' = (raced \/ Resetting)
    <2>1. ~Resetting /\ ~intent /\ ~Resetting'  BY <1>2, <1>5 DEF Resetting
    <2>2. PageAlone'
      <3>1. NoneSaving => NoneSaving'  BY <1>3 DEF NoneSaving, NoNewSave, At
      <3> QED  BY <1>2, <2>1, <3>1 DEF Apart, PageAlone, Registering, Vacant
    <2>3. StoredWhole' /\ SavedWhole'  BY <1>2, <1>3, SameStores
    <2>4. Watched'
      BY <1>2, <1>5, <2>1 DEF Apart, StoredWhole, Watched, Belongs
    <2> QED  BY <2>1, <2>2, <2>3, <2>4, NoResetApart
  <1>6. CASE Throws(j)  BY <1>1, <1>4, <1>6, ThrowsLinkKept
  <1>7. CASE UNCHANGED connectionVars  BY <1>4, <1>7, SameLink
  <1> QED  BY <1>5, <1>6, <1>7 DEF Open

-----------------------------------------------------------------------------
(* The reset, and the stop of the worker that interrupts it.               *)

LEMMA ResetKinds ==
  ASSUME MembershipInv
  PROVE  /\ "button" \in Runners /\ "startup" \in Runners
         /\ \A r \in Runners : r = "button" \/ r = "startup"
         /\ \A r \in Runners : resets[r].at \in {"idle", "begin", "stop", "clear"}
  BY DEF MembershipInv, StoresOK, Runners

\* A reset that goes on leaves no page about to register.
LEMMA ResettingIsAlone ==
  ASSUME Apart, Resetting
  PROVE  ~Registering
  BY DEF Apart, PageAlone

LEMMA StopsApart ==
  ASSUME DevicesAssumption, MembershipInv, Apart, Stops
  PROVE  Apart'
  <1>1. IdleJob.at = "idle" /\ IdleReset.at = "idle"  BY DEF IdleJob, IdleReset
  <1>2. \A j \in Jobs : jobs'[j].at = "idle"  BY <1>1 DEF Stops
  <1>3. /\ \A r \in Runners : resets'[r].at \in {"idle", "stop"}
        /\ \A r \in Runners : ~intent => resets'[r].at = "idle"
        /\ resets'["button"].at = "idle"
    BY <1>1, ResetKinds DEF Stops, IdleReset
  <1>4. NoNewSave  BY <1>2 DEF NoNewSave
  <1>5. StoredWhole' /\ SavedWhole'  BY <1>4, SameStores DEF Stops
  <1>6. PageAlone'
    <2>1. ~Resetting => ~Resetting'  BY <1>3 DEF Resetting, Stops
    <2>2. NoneSaving'  BY <1>2 DEF NoneSaving, At
    <2> QED  BY <2>1, <2>2 DEF Apart, PageAlone, Registering, Vacant, Stops
  <1>7. NothingLeft' /\ StaysClear' /\ OneAsks'
    BY <1>3, ResetKinds DEF NothingLeft, StaysClear, OneAsks, ResetAt, Stops
  <1>8. Watched'  BY DEF Watched, Stops
  <1> QED  BY <1>5, <1>6, <1>7, <1>8 DEF Apart

\* The button: the stores and the jobs stay, and no page is registering.
LEMMA ButtonApart ==
  ASSUME DevicesAssumption, MembershipInv, Apart, Begin \/ RecordIntent \/ Resume
  PROVE  Apart'
  <1>1. /\ UNCHANGED <<registered, identity, credential, journal, memberships, jobs, page>>
        /\ UNCHANGED connectionVars
    BY DEF Begin, RecordIntent, Resume
  <1>2. /\ ResetGoes("button", "begin") \/ ResetGoes("button", "stop")
        /\ resets["button"].at \in {"idle", "begin"}
    BY DEF Begin, RecordIntent, Resume, ResetAt
  <1>3. /\ resets'["startup"] = resets["startup"]
        /\ Begin => resets'["button"].at = "begin"
        /\ RecordIntent \/ Resume => resets'["button"].at = "stop"
    BY ResetKinds DEF Begin, RecordIntent, Resume, ResetGoes, MembershipInv, StoresOK
  <1>4. ~Registering
    <2>1. CASE Begin  BY <2>1 DEF Begin, Apart, PageAlone, Vacant
    <2>2. CASE RecordIntent \/ Resume
      <3>1. Resetting
        BY <2>2, ResetKinds DEF RecordIntent, Resume, Resetting, ResetAt
      <3> QED  BY <3>1, ResettingIsAlone
    <2> QED  BY <2>1, <2>2
  <1>5. PageAlone'  BY <1>1, <1>4 DEF PageAlone, Registering
  <1>6. Begin => intent' = intent  BY DEF Begin
  <1>7. RecordIntent \/ Resume => intent'
    BY DEF RecordIntent, Resume
  <1>8. ResetAt("startup", "stop") \/ ResetAt("startup", "clear") => intent \/ credential = 0
    BY ResetKinds DEF Apart, NothingLeft, ResetAt, Vacant
  <1>9. NothingLeft'
    <2>1. CASE Begin
      BY <1>1, <1>3, <1>6, <2>1, ResetKinds
      DEF Apart, NothingLeft, Vacant, NoneSaving, At, Registering
    <2>2. CASE RecordIntent \/ Resume  BY <1>7, <2>2 DEF NothingLeft
    <2> QED  BY <2>1, <2>2
  <1>10. StaysClear'
    BY <1>1, <1>3, ResetKinds DEF Apart, StaysClear, ResetAt, Begin, RecordIntent, Resume
  <1>11. StoredWhole' /\ SavedWhole'
    <2>1. NoNewSave  BY <1>1, SameJobsNoSave
    <2>2. CASE Begin  BY <1>1, <1>6, <2>1, <2>2, SameStores
    <2>3. CASE RecordIntent \/ Resume
      BY <1>7, <2>3 DEF StoredWhole, SavedWhole
    <2> QED  BY <2>2, <2>3
  <1>12. OneAsks'
    <2>1. ResetAt("startup", "idle") \/ ResetAt("startup", "stop") \/ ResetAt("startup", "clear")
      BY ResetKinds DEF Apart, OneAsks, ResetAt
    <2>2. CASE Begin
      BY <1>1, <1>3, <1>8, <2>1, <2>2 DEF Begin, OneAsks, ResetAt
    <2>3. CASE RecordIntent \/ Resume
      BY <1>3, <2>3 DEF Apart, OneAsks, ResetAt
    <2> QED  BY <2>2, <2>3
  <1>13. Watched'  BY <1>1 DEF Apart, Watched
  <1> QED  BY <1>5, <1>9, <1>10, <1>11, <1>12, <1>13 DEF Apart

LEMMA StopTransportApart ==
  ASSUME DevicesAssumption, MembershipInv, Apart, NEW r \in Runners, StopTransport(r)
  PROVE  Apart'
  <1>1. JobsOK  BY DEF MembershipInv
  <1>2. UNCHANGED <<registered, identity, credential, journal, memberships, intent, page>>
    BY DEF StopTransport
  <1>3. NoNewSave  BY <1>1, SupersededNoSave DEF StopTransport
  <1>4. NoneSaving => NoneSaving'  BY <1>3 DEF NoneSaving, NoNewSave, At
  <1>5. linked' = FALSE  BY DEF StopTransport
  <1>6. resets[r].at = "stop" /\ Resetting  BY DEF StopTransport, ResetAt, Resetting
  <1>7. /\ resets'[r].at = "clear" /\ resets'[r].left = Stores
        /\ \A s \in Runners : s # r => resets'[s] = resets[s]
    BY DEF StopTransport, MembershipInv, StoresOK
  <1>8. ~Registering'  BY <1>2, <1>6, ResettingIsAlone DEF Registering
  <1>9. PageAlone'  BY <1>8 DEF PageAlone
  <1>10. NothingLeft'
    BY <1>2, <1>4, <1>6, <1>7, <1>8 DEF Apart, NothingLeft, Vacant
  <1>11. StaysClear'
    BY <1>2, <1>5, <1>7 DEF Apart, StaysClear, ResetAt, Stores
  <1>12. StoredWhole' /\ SavedWhole'  BY <1>2, <1>3, SameStores
  <1>13. OneAsks'
    BY <1>2, <1>6, <1>7, ResetKinds DEF Apart, OneAsks, ResetAt
  <1>14. Watched'  BY <1>5 DEF Watched
  <1> QED  BY <1>9, <1>10, <1>11, <1>12, <1>13, <1>14 DEF Apart

LEMMA ClearStoreApart ==
  ASSUME DevicesAssumption, MembershipInv, Apart, NEW r \in Runners, NEW store \in Stores,
         ClearStore(r, store)
  PROVE  Apart'
  <1>1. UNCHANGED <<intent, jobs, page, linked>>  BY DEF ClearStore
  <1>2. resets[r].at = "clear" /\ Resetting  BY DEF ClearStore, ResetAt, Resetting
  <1>3. /\ resets'[r].at = "clear" /\ resets'[r].left = resets[r].left \ {store}
        /\ \A s \in Runners : s # r => resets'[s] = resets[s]
    BY <1>2 DEF ClearStore, MembershipInv, StoresOK
  <1>4. /\ credential' = 0 \/ credential' = credential
        /\ journal' = NoEntry \/ journal' = journal
        /\ store = "credential" => credential' = 0
        /\ store = "journal" => journal' = NoEntry
    BY DEF ClearStore
  <1>5. Vacant => Vacant'  BY <1>1, <1>4 DEF Vacant, NoneSaving, At
  <1>6. ~Registering'  BY <1>1, <1>2, ResettingIsAlone DEF Registering
  <1>7. ~linked'  BY <1>1, <1>2 DEF Apart, StaysClear, ResetAt
  <1>8. PageAlone'  BY <1>6 DEF PageAlone
  <1>9. NothingLeft'
    BY <1>1, <1>2, <1>3, <1>5, <1>6 DEF Apart, NothingLeft
  <1>10. StaysClear'
    BY <1>3, <1>2, <1>4, <1>7 DEF Apart, StaysClear, ResetAt
  <1>11. StoredWhole' /\ SavedWhole'
    <2>1. ~intent => Vacant'  BY <1>2, <1>5 DEF Apart, NothingLeft
    <2>2. CASE intent  BY <1>1, <2>2 DEF StoredWhole, SavedWhole
    <2> QED  BY <2>1, <2>2, VacantWhole
  <1>12. OneAsks'
    BY <1>2, <1>3, ResetKinds DEF Apart, OneAsks, ResetAt
  <1>13. Watched'  BY <1>7 DEF Watched
  <1> QED  BY <1>8, <1>9, <1>10, <1>11, <1>12, <1>13 DEF Apart

LEMMA FinishApart ==
  ASSUME DevicesAssumption, MembershipInv, Apart, ~raced', NEW r \in Runners, Finish(r)
  PROVE  Apart'
  <1>1. /\ UNCHANGED <<credential, journal, memberships, jobs, page>>
        /\ UNCHANGED connectionVars
    BY DEF Finish
  <1>2. resets[r].at = "clear" /\ Resetting  BY DEF Finish, ResetAt, Resetting
  <1>3. /\ resets'[r].at = "idle" /\ \A s \in Runners : s # r => resets'[s] = resets[s]
    BY DEF Finish, IdleReset, MembershipInv, StoresOK
  <1>4. Vacant
    BY <1>2 DEF Finish, Apart, StaysClear, ResetAt, Vacant, NoneSaving
  <1>5. Vacant'  BY <1>1, <1>4 DEF Vacant, NoneSaving, At
  <1>6. ~Registering'  BY <1>1, <1>2, ResettingIsAlone DEF Registering
  <1>7. PageAlone' /\ NothingLeft'  BY <1>5, <1>6 DEF PageAlone, NothingLeft
  <1>8. StaysClear'
    BY <1>1, <1>3 DEF Apart, StaysClear, ResetAt
  <1>9. StoredWhole' /\ SavedWhole'  BY <1>5, VacantWhole
  <1>10. OneAsks'
    BY <1>2, <1>3, ResetKinds DEF Apart, OneAsks, ResetAt
  <1>11. Watched'  BY <1>1 DEF Apart, Watched
  <1> QED  BY <1>7, <1>8, <1>9, <1>10, <1>11 DEF Apart

-----------------------------------------------------------------------------
(* The invariant, and what it shows.                                       *)

LEMMA InitApart ==
  ASSUME DevicesAssumption, Init
  PROVE  ResetInv
  <1>1. /\ IdleReset.at = "idle" /\ IdleJob.at = "idle" /\ IdlePage.at = "idle"
    BY DEF IdleReset, IdleJob, IdlePage
  <1>2. \A r \in Runners : resets[r].at = "idle"  BY <1>1 DEF Init
  <1>3. "button" \in Runners /\ "startup" \in Runners  BY DEF Runners
  <1>4. Vacant /\ ~Registering /\ ~linked
    BY <1>1 DEF Init, Vacant, NoneSaving, At, Registering
  <1>5. NothingLeft /\ StaysClear /\ OneAsks
    BY <1>2, <1>3 DEF NothingLeft, StaysClear, OneAsks, ResetAt
  <1> QED
    BY <1>4, <1>5 DEF ResetInv, Apart, PageAlone, Vacant, NoneSaving, StoredWhole, SavedWhole,
                      Watched

LEMMA NextApart ==
  ASSUME DevicesAssumption, MembershipInv, ResetInv, [Next]_vars
  PROVE  ResetInv'
  <1> SUFFICES ASSUME ~raced' PROVE Apart'  BY DEF ResetInv
  <1>1. CASE UNCHANGED vars
    <2>1. Apart  BY <1>1 DEF vars, ResetInv
    <2> QED
      BY <1>1, <2>1, SameJobsNoSave, SameLink, StaysApart
      DEF vars, JournalKept, RostersKept, PageKept
  <1>2. ASSUME NEW j \in Jobs, JobStep(j)  PROVE  Apart'
    <2>1. raced => raced'
      BY <1>2 DEF JobStep, LoadPending, JobPins, JobWrites, JobSubmits, Ask, Verify, Write,
                  Accept, Result, CheckPromotion, SaveNew, ClearPending, LoadCredential, Open
    <2>2. Apart  BY <2>1 DEF ResetInv
    <2> QED
      BY <1>2, <2>2, StartApart, JobPinsApart, JobWritesApart, SubmitsApart, AskApart,
         VerifyApart, WriteApart, CheckPromotionApart, SaveNewApart, ClearPendingApart,
         OpenApart
      DEF JobStep
  <1>3. ASSUME NEW j \in Jobs, Start(j) \/ RequestFails(j) \/ RefreshWhileOnline(j)
        PROVE  Apart'
    <2>1. Apart  BY <1>3 DEF Start, RequestFails, RefreshWhileOnline, ResetInv
    <2> QED  BY <1>3, <2>1, StartApart, SubmitsApart, RefreshApart
  <1>4. CASE Authority \/ Restore \/ Drops \/ Stops
    <2>1. Apart  BY <1>4 DEF Authority, Restore, Drops, Stops, ResetInv
    <2> QED  BY <1>4, <2>1, RelayApart, StopsApart
  <1>5. CASE Page
    <2>1. Apart
      BY <1>5 DEF Page, Submit, PrepareRegistration, PagePins, PageWrites, PageCloses,
                  Register, PageSubmits, ResetInv
    <2> QED
      BY <1>5, <2>1, SubmitApart, RegisterApart, PrepareApart, PageApart DEF Page
  <1>6. CASE Reset
    <2>1. Apart
      BY <1>6 DEF Reset, Begin, RecordIntent, Resume, StopTransport, ClearStore, Finish,
                  ResetInv
    <2> QED
      BY <1>6, <2>1, ButtonApart, StopTransportApart, ClearStoreApart, FinishApart DEF Reset
  <1> QED  BY <1>1, <1>2, <1>3, <1>4, <1>5, <1>6 DEF Next

LEMMA ResetInvariance == Spec => []ResetInv
  <1>1. Init => ResetInv  BY InitApart, DevicesAssumption
  <1>2. MembershipInv /\ ResetInv /\ [Next]_vars => ResetInv'  BY NextApart, DevicesAssumption
  <1> QED  BY <1>1, <1>2, Invariance, PTL DEF Spec

(* A stored credential has its membership and its identity unless a reset  *)
(* is under way or something raced with one: a promotion stores only what  *)
(* is whole, and a reset that ends has left nothing.                       *)
THEOREM AlwaysWhole == Spec => []WholeOrResetting
  <1>1. ResetInv => WholeOrResetting  BY ApartImplies
  <1> QED  BY <1>1, ResetInvariance, PTL

(* A connected device that knows it was removed has the alarm that ends    *)
(* its connection: the refresh keeps it until the runtime is stopped.      *)
THEOREM RemovedAlwaysLeaves == Spec => []RemovedIsLeaving
  <1>1. ResetInv => RemovedIsLeaving  BY ApartImplies
  <1> QED  BY <1>1, ResetInvariance, PTL
=============================================================================
