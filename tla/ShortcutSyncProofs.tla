------------------------- MODULE ShortcutSyncProofs -------------------------
(***************************************************************************)
(* What the checks of ShortcutSync show on two browsers, for any number of *)
(* browsers, workspaces, passphrases, edits and failures.                  *)
(***************************************************************************)
EXTENDS ShortcutSync, TLAPS

(* The rules saved so far.                                                 *)
Texts == 0..Len(knows)

ValueOK(value) ==
  /\ value.rules \in Texts
  /\ value.revision # 0 => value.key.salt # 0

(* A part that pulls, writes or has written has a derived key.             *)
JobOK(job) ==
  /\ job.rules \in Texts /\ ValueOK(job.remote)
  /\ job.at \in {"pull", "write", "settle"} => job.key.salt # 0

Typed ==
  /\ TypeOK
  /\ \A w \in Workspaces : ValueOK(server[w])
  /\ \A b \in Browsers, p \in Parts : JobOK(jobs[b][p])
  /\ \A n \in 1..Len(knows) : n \in knows[n] /\ knows[n] \subseteq Nat

-----------------------------------------------------------------------------
(* As long as the server keeps its value and nobody goes elsewhere, all    *)
(* revisions come from the server, in its order.                           *)
Pulls(job) == job.at = "pull" \/ (job.at = "read" /\ job.key.salt # 0)
Enables(job) == job.at = "enable" \/ (job.at = "read" /\ job.key.salt = 0)

RemoteOK(value) ==
  /\ value.revision <= server[Home].revision
  /\ value.revision = server[Home].revision => value = server[Home]

StateOrdered(state) ==
  /\ state.revision <= server[Home].revision
  /\ state.on => state.revision # 0

JobOrdered(job) ==
  /\ job.workspace = Home /\ RemoteOK(job.remote)
  /\ job.revision <= server[Home].revision
  /\ Pulls(job) \/ job.at = "settle" => job.revision # 0
  /\ Enables(job) => job.revision = 0

Ordered ==
  ~replaced =>
    /\ server[Home].revision = 0 => server[Home] = NoValue
    /\ \A b \in Browsers : member[b].workspace = Home /\ StateOrdered(sync[b])
    /\ \A b \in Browsers, p \in Parts : JobOrdered(jobs[b][p])

(* The rules of browser b are made from those of the server, and the key   *)
(* opens them, if the revision is the server's.                            *)
Agrees(b, key, revision) ==
  revision = server[Home].revision =>
    Opens(key, server[Home]) /\ server[Home].rules \in Known(rules[b])

WriteAgrees(b, job) ==
  job.revision = server[Home].revision =>
    /\ job.rules \in Known(rules[b])
    /\ server[Home].revision # 0 =>
         Opens(job.key, server[Home]) /\ server[Home].rules \in Known(job.rules)

JobAgrees(b, job) ==
  /\ Pulls(job) \/ job.at = "settle" => Agrees(b, job.key, job.revision)
  /\ job.at = "write" => WriteAgrees(b, job)

(* What is stored, and what each part under way is about to store or to    *)
(* send, agrees with the server.                                           *)
StateAgrees(b, state) == state.on => Agrees(b, state.key, state.revision)

Agreement ==
  ~replaced /\ ~late =>
    /\ \A b \in Browsers : StateAgrees(b, sync[b])
    /\ \A b \in Browsers, p \in Parts : JobAgrees(b, jobs[b][p])

-----------------------------------------------------------------------------
(* Types                                                                   *)

LEMMA KeyTypes ==
  /\ NoKey \in Keys /\ NoKey.salt = 0
  /\ \A pass \in Passphrases \cup {NoPass}, salt \in Nat :
       /\ DeriveKey(pass, salt) \in Keys
       /\ DeriveKey(pass, salt).salt = salt /\ DeriveKey(pass, salt).pass = pass
  /\ \A key \in Keys : key.pass \in Passphrases \cup {NoPass} /\ key.salt \in Nat
  BY DEF NoKey, Keys, DeriveKey

LEMMA ValueTypes ==
  /\ NoValue \in Values /\ NoValue.revision = 0 /\ NoValue.rules = 0
  /\ \A key \in Keys, text \in Nat, revision \in Nat :
       /\ Seal(key, text, revision) \in Values
       /\ Seal(key, text, revision).revision = revision
       /\ Seal(key, text, revision).rules = text
       /\ Seal(key, text, revision).key = key
  /\ \A value \in Values :
       value.revision \in Nat /\ value.rules \in Nat /\ value.key \in Keys
  BY KeyTypes DEF NoValue, Values, Seal

LEMMA StateTypes ==
  /\ Off \in States /\ ~Off.on /\ Off.key.salt = 0
  /\ \A key \in Keys, revision \in Nat :
       /\ Enabled(key, revision) \in States
       /\ Enabled(key, revision).on
       /\ Enabled(key, revision).key = key /\ Enabled(key, revision).revision = revision
  /\ \A state \in States :
       state.on \in BOOLEAN /\ state.key \in Keys /\ state.revision \in Nat
  BY KeyTypes DEF Off, States, Enabled

LEMMA JobTypes ==
  /\ IdleJob \in Jobs /\ IdleJob.at = "idle" /\ IdleJob.key = NoKey
  /\ IdleJob.workspace = Home
  /\ IdleJob.revision = 0 /\ IdleJob.rules = 0 /\ IdleJob.remote = NoValue
  /\ \A job \in Jobs :
       /\ job.at \in {"idle", "resume", "read", "pull", "enable", "publish", "write",
                      "settle", "arm"}
       /\ job.key \in Keys /\ job.revision \in Nat /\ job.workspace \in Workspaces
       /\ job.rules \in Nat /\ job.remote \in Values
  BY SyncAssumption, KeyTypes, ValueTypes DEF IdleJob, Jobs

(* One part goes on, the others stay where they are.                       *)
LEMMA GoesTo ==
  ASSUME jobs \in [Browsers -> [Parts -> Jobs]],
         NEW b \in Browsers, NEW p \in Parts, NEW job \in Jobs, Goes(b, p, job)
  PROVE  /\ jobs' \in [Browsers -> [Parts -> Jobs]]
         /\ jobs'[b][p] = job
         /\ \A c \in Browsers, q \in Parts :
              jobs'[c][q] = IF c = b /\ q = p THEN job ELSE jobs[c][q]
  BY DEF Goes

LEMMA EndsIn ==
  ASSUME jobs \in [Browsers -> [Parts -> Jobs]],
         NEW b \in Browsers, NEW p \in Parts, Ends(b, p)
  PROVE  /\ jobs' \in [Browsers -> [Parts -> Jobs]]
         /\ \A c \in Browsers, q \in Parts :
              jobs'[c][q] = IF c = b /\ q = p THEN IdleJob ELSE jobs[c][q]
  BY GoesTo, JobTypes DEF Ends

THEOREM InitTyped == Init => Typed
  <1> SUFFICES ASSUME Init PROVE Typed
    OBVIOUS
  <1> USE DEF Init
  <1>1. server \in [Workspaces -> Values] /\ salts \in Nat
    BY ValueTypes
  <1>2. jobs \in [Browsers -> [Parts -> Jobs]]
    BY JobTypes
  <1>3. sync \in [Browsers -> States]
    BY StateTypes
  <1>4. knows \in Seq(SUBSET Nat) /\ Len(knows) = 0
    OBVIOUS
  <1>5. \A b \in Browsers : sync[b].on <=> sync[b].key.salt # 0
    BY StateTypes
  <1>10. member \in [Browsers -> [workspace : Workspaces, in : BOOLEAN]]
    BY SyncAssumption
  <1>11. page \in [Browsers -> [shown : 0..Len(knows), offers : BOOLEAN]]
    BY <1>4
  <1>12. rules \in [Browsers -> 0..Len(knows)]
    BY <1>4
  <1>6. TypeOK
    BY <1>1, <1>2, <1>3, <1>4, <1>5, <1>10, <1>11, <1>12 DEF TypeOK
  <1>7. \A b \in Browsers, p \in Parts : jobs[b][p] = IdleJob
    OBVIOUS
  <1>8. \A b \in Browsers, p \in Parts : JobOK(jobs[b][p])
    BY <1>4, <1>7, JobTypes, ValueTypes DEF JobOK, ValueOK, Texts
  <1>9. \A w \in Workspaces : ValueOK(server[w])
    BY <1>4, ValueTypes DEF ValueOK, Texts
  <1> QED
    BY <1>4, <1>6, <1>8, <1>9 DEF Typed

LEMMA JobsTyped ==
  ASSUME Typed, knows' = knows,
         NEW b \in Browsers, NEW p \in Parts, NEW job \in Jobs, JobOK(job),
         Goes(b, p, job)
  PROVE  /\ jobs' \in [Browsers -> [Parts -> Jobs]]
         /\ (\A c \in Browsers, q \in Parts : JobOK(jobs[c][q]))'
  <1>1. jobs \in [Browsers -> [Parts -> Jobs]]
    BY DEF Typed, TypeOK
  <1>2. jobs' \in [Browsers -> [Parts -> Jobs]]
        /\ \A c \in Browsers, q \in Parts :
             jobs'[c][q] = IF c = b /\ q = p THEN job ELSE jobs[c][q]
    BY <1>1, GoesTo
  <1>3. \A c \in Browsers, q \in Parts : JobOK(jobs'[c][q])
    BY <1>2 DEF Typed
  <1> QED
    BY <1>2, <1>3 DEF JobOK, ValueOK, Texts

LEMMA EndTyped ==
  ASSUME Typed, knows' = knows, NEW b \in Browsers, NEW p \in Parts, Ends(b, p)
  PROVE  /\ jobs' \in [Browsers -> [Parts -> Jobs]]
         /\ (\A c \in Browsers, q \in Parts : JobOK(jobs[c][q]))'
  <1>1. JobOK(IdleJob)
    BY JobTypes, ValueTypes DEF JobOK, ValueOK, Texts, Typed, TypeOK
  <1> QED
    BY <1>1, JobTypes, JobsTyped DEF Ends

SyncTypes ==
  /\ sync \in [Browsers -> States]
  /\ \A b \in Browsers : sync[b].on <=> sync[b].key.salt # 0
PageTypes == page \in [Browsers -> [shown : Texts, offers : BOOLEAN]]
ServerTypes ==
  /\ server \in [Workspaces -> Values]
  /\ \A w \in Workspaces : ValueOK(server[w])
JobTypesAll ==
  /\ jobs \in [Browsers -> [Parts -> Jobs]]
  /\ \A b \in Browsers, p \in Parts : JobOK(jobs[b][p])
KnowsTypes ==
  /\ knows \in Seq(SUBSET Nat)
  /\ \A n \in 1..Len(knows) : n \in knows[n] /\ knows[n] \subseteq Nat
RestTypes ==
  /\ salts \in Nat /\ faults \in Nat
  /\ member \in [Browsers -> [workspace : Workspaces, in : BOOLEAN]]
  /\ rules \in [Browsers -> Texts]
  /\ alarm \in [Browsers -> BOOLEAN] /\ unwatched \in [Browsers -> BOOLEAN]
  /\ late \in BOOLEAN /\ replaced \in BOOLEAN

LEMMA TypedParts ==
  Typed <=> /\ SyncTypes /\ PageTypes /\ ServerTypes /\ JobTypesAll
            /\ KnowsTypes /\ RestTypes
  BY DEF Typed, TypeOK, SyncTypes, PageTypes, ServerTypes, JobTypesAll, KnowsTypes,
         RestTypes, Texts

LEMMA TypedNext ==
  /\ SyncTypes' /\ PageTypes' /\ ServerTypes' /\ JobTypesAll'
  /\ KnowsTypes' /\ RestTypes'
  => Typed'
  BY DEF Typed, TypeOK, SyncTypes, PageTypes, ServerTypes, JobTypesAll, KnowsTypes,
         RestTypes, Texts

LEMMA StoreTyped ==
  ASSUME SyncTypes, NEW b \in Browsers, NEW key \in Keys, NEW revision \in Nat,
         key.salt # 0, sync' = [sync EXCEPT ![b] = Enabled(key, revision)]
  PROVE  SyncTypes'
  BY StateTypes DEF SyncTypes

LEMMA PageTyped ==
  ASSUME PageTypes, knows' = knows, NEW b \in Browsers, NEW text \in Texts,
         NEW offers \in BOOLEAN,
         \/ page' = page
         \/ page' = [page EXCEPT ![b] = [shown |-> text, offers |-> offers]]
         \/ page' = [page EXCEPT ![b].offers = offers]
  PROVE  PageTypes'
  BY DEF PageTypes, Texts

LEMMA AnswerTyped ==
  ASSUME PageTypes, knows' = knows, NEW b \in Browsers, NEW p \in Parts,
         NEW changed \in BOOLEAN, rules' \in [Browsers -> Texts], SyncTypes',
         Answers(b, p, changed)
  PROVE  PageTypes'
  <1>1. sync'[b].on \in BOOLEAN
    BY StateTypes DEF SyncTypes
  <1>2. page[b].shown \in Texts /\ rules'[b] \in Texts
    BY DEF PageTypes
  <1>3. (IF changed THEN rules'[b] ELSE page[b].shown) \in Texts
    BY <1>2
  <1> QED
    BY <1>1, <1>3, PageTyped DEF Answers

LEMMA ReportTyped ==
  ASSUME PageTypes, SyncTypes, knows' = knows, NEW b \in Browsers, Reports(b)
  PROVE  PageTypes'
  <1>1. sync[b].on \in BOOLEAN
    BY StateTypes DEF SyncTypes
  <1> QED
    BY <1>1 DEF Reports, PageTypes, Texts

LEMMA PullAskTyped ==
  ASSUME Typed, NEW b \in Browsers, NEW p \in Parts, NEW watched \in BOOLEAN,
         PullAsks(b, p, watched), knows' = knows
  PROVE  /\ JobTypesAll'
         /\ alarm' \in [Browsers -> BOOLEAN] /\ unwatched' \in [Browsers -> BOOLEAN]
  <1>0. SyncTypes /\ JobTypesAll /\ KnowsTypes /\ RestTypes
    BY TypedParts
  <1>1. CASE ~sync[b].on \/ ~member[b].in
    <2>1. Ends(b, p)
      BY <1>1 DEF PullAsks
    <2>2. JobTypesAll'
      BY <2>1, EndTyped DEF JobTypesAll
    <2>3. alarm' \in [Browsers -> BOOLEAN] /\ unwatched' \in [Browsers -> BOOLEAN]
      BY <1>0, <1>1 DEF PullAsks, RestTypes
    <2> QED
      BY <2>2, <2>3
  <1>2. CASE ~(~sync[b].on \/ ~member[b].in)
    <2> DEFINE job == [IdleJob EXCEPT !.at = "read", !.key = sync[b].key,
                         !.revision = sync[b].revision, !.workspace = member[b].workspace]
    <2>1. Goes(b, p, job)
      BY <1>2 DEF PullAsks
    <2>2. job \in Jobs
      BY <1>0, JobTypes, StateTypes DEF SyncTypes, RestTypes, Jobs
    <2>3. JobOK(job)
      BY JobTypes, ValueTypes, <1>0 DEF JobOK, ValueOK, Texts, KnowsTypes, Jobs
    <2> HIDE DEF job
    <2>4. JobTypesAll'
      BY <2>1, <2>2, <2>3, JobsTyped DEF JobTypesAll
    <2>5. alarm' \in [Browsers -> BOOLEAN] /\ unwatched' \in [Browsers -> BOOLEAN]
      BY <1>0, <1>2 DEF PullAsks, RestTypes
    <2> QED
      BY <2>4, <2>5
  <1> QED
    BY <1>1, <1>2

(* A part goes on with a job of its own.                                   *)
LEMMA GoTyped ==
  ASSUME Typed, knows' = knows, NEW b \in Browsers, NEW p \in Parts, NEW job,
         job \in Jobs, JobOK(job), Goes(b, p, job)
  PROVE  JobTypesAll'
  BY JobsTyped DEF JobTypesAll

LEMMA EndKeepsTypes ==
  ASSUME Typed, knows' = knows, NEW b \in Browsers, NEW p \in Parts, Ends(b, p)
  PROVE  JobTypesAll'
  BY EndTyped DEF JobTypesAll

LEMMA ReadTyped ==
  ASSUME Typed, NEW b \in Browsers, NEW p \in Parts, Read(b, p)
  PROVE  Typed'
  <1> DEFINE job == jobs[b][p]
             value == server[job.workspace]
             at == IF job.key.salt = 0 THEN "enable" ELSE "pull"
             next == [job EXCEPT !.remote = value, !.at = at]
  <1>0. SyncTypes /\ PageTypes /\ ServerTypes /\ JobTypesAll /\ KnowsTypes /\ RestTypes
    BY TypedParts
  <1>1. job \in Jobs /\ JobOK(job) /\ job.workspace \in Workspaces
    BY <1>0, JobTypes DEF JobTypesAll
  <1>2. server[job.workspace] \in Values /\ ValueOK(server[job.workspace])
    BY <1>0, <1>1 DEF ServerTypes
  <1>5. Goes(b, p, next) /\ knows' = knows
    BY DEF Read, historyVars
  <1>8. /\ at \in {"enable", "pull"} /\ (at = "pull" => job.key.salt # 0)
        /\ value \in Values /\ ValueOK(value)
    BY <1>2
  <1> HIDE DEF at, value
  <1>3. next \in Jobs
    BY <1>1, <1>8 DEF Jobs
  <1>4. JobOK(next)
    BY <1>1, <1>8 DEF JobOK, Jobs
  <1>6. JobTypesAll'
    <2> HIDE DEF next
    <2> QED
      BY <1>3, <1>4, <1>5, GoTyped
  <1>7. SyncTypes' /\ PageTypes' /\ ServerTypes' /\ KnowsTypes' /\ RestTypes'
    BY <1>0 DEF Read, SyncTypes, PageTypes, ServerTypes, KnowsTypes, RestTypes,
       historyVars, ValueOK, Texts
  <1> QED
    BY <1>6, <1>7, TypedNext

LEMMA PullTyped ==
  ASSUME Typed, NEW b \in Browsers, NEW p \in Parts,
         PullUnchanged(b, p) \/ PullCannotOpen(b, p) \/ PullApplies(b, p)
  PROVE  Typed'
  <1> DEFINE job == jobs[b][p]
  <1>0. SyncTypes /\ PageTypes /\ ServerTypes /\ JobTypesAll /\ KnowsTypes /\ RestTypes
    BY TypedParts
  <1>11. job \in Jobs /\ JobOK(job) /\ job.at = "pull"
    BY <1>0 DEF JobTypesAll, PullUnchanged, PullCannotOpen, PullApplies, At
  <1>1. /\ job.key \in Keys /\ job.key.salt # 0 /\ job.revision \in Nat
        /\ job.remote.revision \in Nat /\ job.remote.rules \in Texts
    BY <1>11, JobTypes, ValueTypes DEF JobOK, ValueOK
  <1>2. Ends(b, p) /\ knows' = knows /\ UNCHANGED <<server, salts, member, alarm, faults, replaced>>
    BY DEF PullUnchanged, PullCannotOpen, PullApplies, historyVars
  <1>3. rules' \in [Browsers -> Texts]
    BY <1>0, <1>1 DEF PullUnchanged, PullCannotOpen, PullApplies, RestTypes
  <1>4. SyncTypes'
    <2>1. CASE PullUnchanged(b, p)
      BY <2>1, <1>0, <1>1, StoreTyped DEF PullUnchanged, Stores
    <2>2. CASE PullCannotOpen(b, p)
      BY <2>2, <1>0 DEF PullCannotOpen, SyncTypes
    <2>3. CASE PullApplies(b, p)
      BY <2>3, <1>0, <1>1, StoreTyped DEF PullApplies, Stores
    <2> QED
      BY <2>1, <2>2, <2>3
  <1>5. JobTypesAll'
    BY <1>2, EndKeepsTypes
  <1>6. Answers(b, p, TRUE) \/ Answers(b, p, FALSE)
    BY DEF PullUnchanged, PullCannotOpen, PullApplies
  <1>7. PageTypes'
    BY <1>0, <1>2, <1>3, <1>4, <1>6, AnswerTyped
  <1>8. unwatched' \in [Browsers -> BOOLEAN]
    BY <1>0 DEF PullUnchanged, PullCannotOpen, PullApplies, Stores, RestTypes, historyVars
  <1>9. late' \in BOOLEAN
    BY <1>0 DEF PullUnchanged, PullCannotOpen, PullApplies, ComesLate, RestTypes, historyVars
  <1>10. ServerTypes' /\ KnowsTypes' /\ RestTypes'
    BY <1>0, <1>2, <1>3, <1>8, <1>9 DEF ServerTypes, KnowsTypes, RestTypes, ValueOK, Texts
  <1> QED
    BY <1>4, <1>5, <1>7, <1>10, TypedNext

LEMMA PutTyped ==
  ASSUME Typed, knows' = knows, NEW job \in Jobs, JobOK(job), job.key.salt # 0,
         Takes(job), Puts(job)
  PROVE  ServerTypes'
  <1> DEFINE new == Seal(job.key, job.rules, job.revision + 1)
  <1>1. ServerTypes
    BY TypedParts
  <1>2. new \in Values /\ ValueOK(new)
    BY JobTypes, ValueTypes DEF JobOK, ValueOK
  <1> HIDE DEF new
  <1>3. server' = [server EXCEPT ![job.workspace] = new]
    BY DEF Puts, new
  <1> QED
    BY <1>1, <1>2, <1>3, JobTypes DEF ServerTypes, ValueOK, Texts

LEMMA WriteTyped ==
  ASSUME Typed, NEW b \in Browsers, NEW p \in Parts, Write(b, p)
  PROVE  Typed'
  <1> DEFINE job == jobs[b][p]
             following == job.revision + 1
             next == [job EXCEPT !.at = "settle", !.revision = following]
  <1>0. SyncTypes /\ PageTypes /\ ServerTypes /\ JobTypesAll /\ KnowsTypes /\ RestTypes
    BY TypedParts
  <1>1. job \in Jobs /\ JobOK(job) /\ job.key.salt # 0 /\ knows' = knows
    BY <1>0 DEF JobTypesAll, JobOK, Write, At, historyVars
  <1>2. ServerTypes'
    <2>1. CASE Takes(job)
      BY <2>1, <1>1, PutTyped DEF Write
    <2>2. CASE ~Takes(job)
      BY <2>2, <1>0, <1>1 DEF Write, ServerTypes, ValueOK, Texts
    <2> QED
      BY <2>1, <2>2
  <1>3. next \in Jobs /\ JobOK(next)
    <2>1. following \in Nat
      BY <1>1, JobTypes
    <2> HIDE DEF following
    <2> QED
      BY <1>1, <2>1 DEF Jobs, JobOK
  <1>4. JobTypesAll'
    <2>1. CASE Takes(job)
      <3>1. Goes(b, p, next)
        BY <2>1 DEF Write
      <3> HIDE DEF next
      <3> QED
        BY <3>1, <1>1, <1>3, GoTyped
    <2>2. CASE ~Takes(job)
      BY <2>2, <1>1, EndKeepsTypes DEF Write
    <2> QED
      BY <2>1, <2>2
  <1>5. PageTypes'
    <2>1. page' = page \/ Reports(b)
      BY DEF Write
    <2> QED
      BY <2>1, <1>0, <1>1, ReportTyped DEF PageTypes, Texts
  <1>6. SyncTypes' /\ KnowsTypes' /\ RestTypes'
    BY <1>0 DEF Write, SyncTypes, KnowsTypes, RestTypes, historyVars, Texts
  <1> QED
    BY <1>2, <1>4, <1>5, <1>6, TypedNext

LEMMA SettleTyped ==
  ASSUME Typed, NEW b \in Browsers, NEW p \in Parts, Settle(b, p)
  PROVE  Typed'
  <1> DEFINE job == jobs[b][p]
             next == [job EXCEPT !.at = "arm"]
  <1>0. SyncTypes /\ PageTypes /\ ServerTypes /\ JobTypesAll /\ KnowsTypes /\ RestTypes
    BY TypedParts
  <1>1. /\ job \in Jobs /\ JobOK(job) /\ knows' = knows
        /\ job.key \in Keys /\ job.key.salt # 0 /\ job.revision \in Nat
    BY <1>0, JobTypes DEF JobTypesAll, JobOK, Settle, At
  <1>2. next \in Jobs /\ JobOK(next)
    BY <1>1 DEF Jobs, JobOK
  <1>3. JobTypesAll'
    <2>1. Goes(b, p, next) \/ Ends(b, p)
      BY DEF Settle
    <2> HIDE DEF next
    <2> QED
      BY <2>1, <1>1, <1>2, GoTyped, EndKeepsTypes
  <1>4. SyncTypes'
    BY <1>0, <1>1, StoreTyped DEF Settle, Stores
  <1>5. unwatched' \in [Browsers -> BOOLEAN]
    BY <1>0 DEF Settle, Stores, RestTypes
  <1>6. PageTypes' /\ ServerTypes' /\ KnowsTypes' /\ RestTypes'
    BY <1>0, <1>5 DEF Settle, PageTypes, ServerTypes, KnowsTypes, RestTypes, ValueOK, Texts
  <1> QED
    BY <1>3, <1>4, <1>6, TypedNext

LEMMA AskTyped ==
  ASSUME Typed, NEW b \in Browsers, AskPull(b) \/ Alarm(b) \/ Resume(b)
  PROVE  Typed'
  <1>0. SyncTypes /\ PageTypes /\ ServerTypes /\ JobTypesAll /\ KnowsTypes /\ RestTypes
    BY TypedParts
  <1>1. /\ knows' = knows /\ UNCHANGED <<server, salts, member, rules, sync, faults,
                                         late, replaced>>
    BY DEF AskPull, Alarm, Resume
  <1>2. PageTypes'
    <2>1. page' = page \/ Reports(b)
      BY DEF AskPull, Alarm, Resume
    <2> QED
      BY <2>1, <1>0, <1>1, ReportTyped DEF PageTypes, Texts
  <1>3. alarm[b] \in BOOLEAN /\ "sync" \in Parts /\ "quiet" \in Parts
    BY <1>0 DEF RestTypes, Parts
  <1>4. /\ JobTypesAll'
        /\ alarm' \in [Browsers -> BOOLEAN] /\ unwatched' \in [Browsers -> BOOLEAN]
    <2>1. CASE \E p \in Parts, watched \in BOOLEAN : PullAsks(b, p, watched)
      BY <2>1, <1>1, PullAskTyped
    <2>2. CASE Ends(b, "quiet") /\ UNCHANGED <<alarm, unwatched>>
      BY <2>2, <1>0, <1>1, <1>3, EndKeepsTypes DEF RestTypes
    <2> QED
      BY <2>1, <2>2, <1>3 DEF AskPull, Alarm, Resume
  <1>5. SyncTypes' /\ ServerTypes' /\ KnowsTypes' /\ RestTypes'
    BY <1>0, <1>1, <1>4 DEF SyncTypes, ServerTypes, KnowsTypes, RestTypes, ValueOK, Texts
  <1> QED
    BY <1>2, <1>4, <1>5, TypedNext

LEMMA SaveKnows ==
  ASSUME Typed, NEW b \in Browsers, Save(b)
  PROVE  /\ Len(knows') = Len(knows) + 1
         /\ knows' \in Seq(SUBSET Nat)
         /\ \A n \in 1..Len(knows) : knows'[n] = knows[n]
         /\ Len(knows) + 1 \in knows'[Len(knows) + 1]
         /\ rules'[b] = Len(knows) + 1
         /\ \A c \in Browsers : c # b => rules'[c] = rules[c]
         /\ IF page[b].shown = rules[b]
            THEN Known(rules[b]) \subseteq knows'[Len(knows) + 1]
            ELSE Texts \subseteq knows'[Len(knows) + 1]
  <1> DEFINE new == Len(knows) + 1
             known == IF page[b].shown = rules[b] THEN Known(page[b].shown) \cup {new}
                      ELSE 0..new
  <1>0. PageTypes /\ KnowsTypes /\ RestTypes
    BY TypedParts
  <1>1. new \in Nat /\ page[b].shown \in Texts
    BY <1>0 DEF KnowsTypes, PageTypes
  <1>2. Known(page[b].shown) \subseteq Nat
    BY <1>0, <1>1 DEF Known, KnowsTypes, Texts
  <1>3. known \in SUBSET Nat /\ new \in known
    BY <1>1, <1>2
  <1>4. knows' = Append(knows, known) /\ rules' = [rules EXCEPT ![b] = new]
    BY DEF Save
  <1>5. IF page[b].shown = rules[b] THEN Known(rules[b]) \subseteq known
        ELSE Texts \subseteq known
    BY <1>0 DEF Texts, KnowsTypes
  <1>6. knows \in Seq(SUBSET Nat) /\ b \in DOMAIN rules
    BY <1>0 DEF KnowsTypes, RestTypes
  <1> HIDE DEF known
  <1>7. Len(knows') = new /\ knows' \in Seq(SUBSET Nat) /\ knows'[new] = known
        /\ \A n \in 1..Len(knows) : knows'[n] = knows[n]
    BY <1>3, <1>4, <1>6
  <1>8. rules'[b] = new /\ \A c \in Browsers : c # b => rules'[c] = rules[c]
    BY <1>0, <1>4 DEF RestTypes
  <1> QED
    BY <1>3, <1>5, <1>7, <1>8

LEMMA SaveTyped ==
  ASSUME Typed, NEW b \in Browsers, Save(b)
  PROVE  Typed'
  <1> DEFINE next == [IdleJob EXCEPT !.at = "publish"]
  <1>0. SyncTypes /\ PageTypes /\ ServerTypes /\ JobTypesAll /\ KnowsTypes /\ RestTypes
    BY TypedParts
  <1>1. KnowsTypes'
    <2>1. knows' \in Seq(SUBSET Nat)
      BY SaveKnows
    <2>2. \A n \in 1..Len(knows') : n \in knows'[n]
      BY <1>0, SaveKnows DEF KnowsTypes
    <2> QED
      BY <2>1, <2>2 DEF KnowsTypes
  <1>2. Texts \subseteq Texts' /\ Len(knows) + 1 \in Texts'
    BY <1>0, SaveKnows DEF Texts, KnowsTypes
  <1>4. next \in Jobs /\ next.rules = 0 /\ next.remote = NoValue /\ next.at = "publish"
    BY JobTypes DEF Jobs
  <1>5. JobTypesAll'
    <2>1. Goes(b, "save", next) /\ "save" \in Parts
      BY DEF Save, Parts
    <2>2. jobs \in [Browsers -> [Parts -> Jobs]]
      BY <1>0 DEF JobTypesAll
    <2> HIDE DEF next
    <2>3. /\ jobs' \in [Browsers -> [Parts -> Jobs]]
          /\ \A c \in Browsers, q \in Parts :
               jobs'[c][q] = IF c = b /\ q = "save" THEN next ELSE jobs[c][q]
      BY <2>1, <2>2, <1>4, GoesTo
    <2>4. ASSUME NEW c \in Browsers, NEW q \in Parts
          PROVE  JobOK(jobs[c][q])'
      <3>1. CASE c = b /\ q = "save"
        BY <3>1, <2>3, <1>0, <1>2, <1>4, ValueTypes DEF JobOK, ValueOK, Texts, KnowsTypes
      <3>2. CASE ~(c = b /\ q = "save")
        BY <3>2, <2>3, <1>0, <1>2 DEF JobOK, ValueOK, JobTypesAll
      <3> QED
        BY <3>1, <3>2
    <2> QED
      BY <2>3, <2>4 DEF JobTypesAll
  <1>6. PageTypes'
    BY <1>0, <1>2 DEF Save, PageTypes
  <1>7. rules' \in [Browsers -> Texts']
    BY <1>0, <1>2 DEF Save, RestTypes
  <1>8. ServerTypes' /\ SyncTypes' /\ RestTypes'
    BY <1>0, <1>2, <1>7 DEF Save, ServerTypes, SyncTypes, RestTypes, ValueOK
  <1> QED
    BY <1>1, <1>5, <1>6, <1>8, TypedNext

LEMMA PublishTyped ==
  ASSUME Typed, NEW b \in Browsers, Publish(b)
  PROVE  Typed'
  <1> DEFINE next == [IdleJob EXCEPT !.at = "write", !.key = sync[b].key,
                        !.revision = sync[b].revision, !.rules = rules[b],
                        !.workspace = member[b].workspace]
  <1>0. SyncTypes /\ PageTypes /\ ServerTypes /\ JobTypesAll /\ KnowsTypes /\ RestTypes
    BY TypedParts
  <1>1. knows' = knows /\ "save" \in Parts
    BY DEF Publish, Parts, historyVars
  <1>2. JobTypesAll'
    <2>1. CASE sync[b].on /\ member[b].in
      <3>1. Goes(b, "save", next) /\ sync[b].key.salt # 0
        BY <2>1, <1>0 DEF Publish, SyncTypes
      <3>2. sync[b].key \in Keys /\ sync[b].revision \in Nat /\ rules[b] \in Texts
            /\ rules[b] \in Nat /\ member[b].workspace \in Workspaces
        BY <1>0, StateTypes DEF SyncTypes, RestTypes, Texts
      <3>3. next \in Jobs
        BY <3>2, JobTypes DEF Jobs
      <3>4. JobOK(next)
        BY <3>1, <3>2, JobTypes, ValueTypes, <1>0 DEF JobOK, ValueOK, Jobs, Texts, KnowsTypes
      <3> HIDE DEF next
      <3> QED
        BY <3>1, <3>3, <3>4, <1>1, GoTyped
    <2>2. CASE ~(sync[b].on /\ member[b].in)
      BY <2>2, <1>1, EndKeepsTypes DEF Publish
    <2> QED
      BY <2>1, <2>2
  <1>3. PageTypes'
    <2>1. page' = page \/ Reports(b)
      BY DEF Publish
    <2> QED
      BY <2>1, <1>0, <1>1, ReportTyped DEF PageTypes, Texts
  <1>4. SyncTypes' /\ ServerTypes' /\ KnowsTypes' /\ RestTypes'
    BY <1>0 DEF Publish, SyncTypes, ServerTypes, KnowsTypes, RestTypes, historyVars,
       ValueOK, Texts
  <1> QED
    BY <1>2, <1>3, <1>4, TypedNext

LEMMA EnableTyped ==
  ASSUME Typed, NEW b \in Browsers,
         (\E pass \in Passphrases : AskEnable(b, pass)) \/ EnableFirst(b)
  PROVE  Typed'
  <1>0. SyncTypes /\ PageTypes /\ ServerTypes /\ JobTypesAll /\ KnowsTypes /\ RestTypes
    BY TypedParts
  <1>1. knows' = knows /\ "sync" \in Parts
    BY DEF AskEnable, EnableFirst, Parts, historyVars
  <1>2. JobTypesAll'
    <2>1. CASE \E pass \in Passphrases : AskEnable(b, pass)
      <3> PICK pass \in Passphrases : AskEnable(b, pass)
        BY <2>1
      <3> DEFINE key == DeriveKey(pass, 0)
                 next == [IdleJob EXCEPT !.at = "read", !.key = key,
                            !.workspace = member[b].workspace]
      <3>1. Goes(b, "sync", next)
        BY DEF AskEnable
      <3>2. key \in Keys /\ member[b].workspace \in Workspaces
        BY <1>0, KeyTypes DEF RestTypes
      <3> HIDE DEF key
      <3>3. next \in Jobs
        BY <3>2, JobTypes DEF Jobs
      <3>4. JobOK(next)
        BY <1>0, JobTypes, ValueTypes DEF JobOK, ValueOK, Jobs, Texts, KnowsTypes
      <3> HIDE DEF next
      <3> QED
        BY <3>1, <3>3, <3>4, <1>1, GoTyped
    <2>2. CASE EnableFirst(b)
      <3> DEFINE job == jobs[b]["sync"]
                 salt == salts + 1
                 key == DeriveKey(job.key.pass, salt)
                 next == [job EXCEPT !.at = "write", !.key = key, !.rules = rules[b]]
      <3>1. Goes(b, "sync", next)
        BY <2>2 DEF EnableFirst
      <3>2. job \in Jobs /\ JobOK(job)
        BY <1>0, <1>1 DEF JobTypesAll
      <3>3. salt \in Nat /\ salt # 0 /\ rules[b] \in Texts /\ rules[b] \in Nat
        BY <1>0 DEF RestTypes, Texts
      <3> HIDE DEF salt
      <3>7. job.key.pass \in Passphrases \cup {NoPass}
        BY <3>2, KeyTypes, JobTypes
      <3>4. key \in Keys /\ key.salt # 0
        BY <3>3, <3>7, KeyTypes
      <3> HIDE DEF key
      <3>5. next \in Jobs
        BY <3>2, <3>3, <3>4 DEF Jobs
      <3>6. JobOK(next)
        BY <3>2, <3>3, <3>4 DEF JobOK, Jobs
      <3> HIDE DEF next
      <3> QED
        BY <3>1, <3>5, <3>6, <1>1, GoTyped
    <2> QED
      BY <2>1, <2>2
  <1>3. salts' \in Nat
    <2>1. salts' = salts \/ salts' = salts + 1
      BY DEF AskEnable, EnableFirst
    <2> QED
      BY <2>1, <1>0 DEF RestTypes
  <1>4. PageTypes' /\ SyncTypes' /\ ServerTypes' /\ KnowsTypes' /\ RestTypes'
    BY <1>0, <1>3 DEF AskEnable, EnableFirst, PageTypes, SyncTypes, ServerTypes,
       KnowsTypes, RestTypes, historyVars, ValueOK, Texts
  <1> QED
    BY <1>2, <1>4, TypedNext

LEMMA AdoptTyped ==
  ASSUME Typed, NEW b \in Browsers, EnableAdopts(b)
  PROVE  Typed'
  <1> DEFINE job == jobs[b]["sync"]
             key == DeriveKey(job.key.pass, SaltOf(job.remote))
             next == [job EXCEPT !.at = "arm", !.key = key]
  <1>0. SyncTypes /\ PageTypes /\ ServerTypes /\ JobTypesAll /\ KnowsTypes /\ RestTypes
    BY TypedParts
  <1>1. knows' = knows /\ "sync" \in Parts
    BY DEF EnableAdopts, Parts, historyVars
  <1>2. job \in Jobs /\ JobOK(job) /\ job.remote.revision # 0
    BY <1>0, <1>1 DEF JobTypesAll, EnableAdopts
  <1>3. /\ job.remote.rules \in Texts /\ job.remote.revision \in Nat
        /\ SaltOf(job.remote) \in Nat /\ SaltOf(job.remote) # 0
        /\ job.key.pass \in Passphrases \cup {NoPass}
    BY <1>2, JobTypes, ValueTypes, KeyTypes DEF JobOK, ValueOK, SaltOf
  <1>4. key \in Keys /\ key.salt # 0
    BY <1>3, KeyTypes
  <1>5. CASE Opens(key, job.remote)
    <2>1. /\ rules' = [rules EXCEPT ![b] = job.remote.rules]
          /\ sync' = [sync EXCEPT ![b] = Enabled(key, job.remote.revision)]
          /\ Goes(b, "sync", next)
      BY <1>5 DEF EnableAdopts
    <2>2. late' \in BOOLEAN
      BY <1>0, <1>5 DEF EnableAdopts, ComesLate, RestTypes
    <2> HIDE DEF key
    <2>3. next \in Jobs
      BY <1>2, <1>4 DEF Jobs
    <2>4. JobOK(next)
      BY <1>2, <1>4 DEF JobOK, Jobs
    <2>5. JobTypesAll'
      <3> HIDE DEF next
      <3> QED
        BY <2>1, <2>3, <2>4, <1>1, GoTyped
    <2>6. SyncTypes'
      BY <2>1, <1>0, <1>3, <1>4, StoreTyped
    <2>7. PageTypes' /\ ServerTypes' /\ KnowsTypes' /\ RestTypes'
      BY <1>0, <1>3, <2>1, <2>2 DEF EnableAdopts, PageTypes, ServerTypes, KnowsTypes,
         RestTypes, ValueOK, Texts
    <2> QED
      BY <2>5, <2>6, <2>7, TypedNext
  <1>6. CASE ~Opens(key, job.remote)
    <2>1. Ends(b, "sync") /\ UNCHANGED <<rules, sync, late>>
      BY <1>6 DEF EnableAdopts
    <2>2. JobTypesAll'
      BY <2>1, <1>1, EndKeepsTypes
    <2>3. SyncTypes' /\ PageTypes' /\ ServerTypes' /\ KnowsTypes' /\ RestTypes'
      BY <1>0, <2>1 DEF EnableAdopts, SyncTypes, PageTypes, ServerTypes, KnowsTypes,
         RestTypes, ValueOK, Texts
    <2> QED
      BY <2>2, <2>3, TypedNext
  <1> QED
    BY <1>5, <1>6

(* The end of turning it on, turning it off, and opening the page.         *)
LEMMA PageStepTyped ==
  ASSUME Typed, NEW b \in Browsers, Arm(b) \/ Disable(b) \/ Open(b)
  PROVE  Typed'
  <1>0. SyncTypes /\ PageTypes /\ ServerTypes /\ JobTypesAll /\ KnowsTypes /\ RestTypes
    BY TypedParts
  <1>1. /\ knows' = knows /\ "sync" \in Parts
        /\ UNCHANGED <<server, salts, member, rules, faults, late, replaced>>
    BY DEF Arm, Disable, Open, Parts, historyVars
  <1>2. JobTypesAll'
    <2>1. Ends(b, "sync") \/ jobs' = jobs
      BY DEF Arm, Disable, Open
    <2> QED
      BY <2>1, <1>0, <1>1, EndKeepsTypes DEF JobTypesAll, JobOK, ValueOK, Texts
  <1>3. SyncTypes'
    BY <1>0, StateTypes DEF Arm, Disable, Open, SyncTypes
  <1>4. /\ alarm' \in [Browsers -> BOOLEAN] /\ unwatched' \in [Browsers -> BOOLEAN]
    BY <1>0 DEF Arm, Disable, Open, RestTypes, historyVars
  <1>5. PageTypes'
    <2>1. rules[b] \in Texts /\ page[b].shown \in Texts /\ sync[b].on \in BOOLEAN
      BY <1>0, StateTypes DEF RestTypes, PageTypes, SyncTypes
    <2>2. \E text \in Texts, offers \in BOOLEAN :
            \/ page' = [page EXCEPT ![b] = [shown |-> text, offers |-> offers]]
            \/ page' = [page EXCEPT ![b].offers = offers]
      BY <2>1 DEF Arm, Disable, Open
    <2> QED
      BY <2>2, <1>0, <1>1, PageTyped
  <1>6. ServerTypes' /\ KnowsTypes' /\ RestTypes'
    BY <1>0, <1>1, <1>4 DEF ServerTypes, KnowsTypes, RestTypes, ValueOK, Texts
  <1> QED
    BY <1>2, <1>3, <1>5, <1>6, TypedNext

LEMMA FailsTyped ==
  ASSUME Typed, NEW b \in Browsers, NEW p \in Parts, RequestFails(b, p)
  PROVE  Typed'
  <1> DEFINE job == jobs[b][p]
  <1>0. SyncTypes /\ PageTypes /\ ServerTypes /\ JobTypesAll /\ KnowsTypes /\ RestTypes
    BY TypedParts
  <1>1. job \in Jobs /\ JobOK(job) /\ knows' = knows
    BY <1>0 DEF JobTypesAll, RequestFails, historyVars
  <1>2. ServerTypes'
    <2>1. CASE At(b, p, "write") /\ Takes(job) /\ Puts(job)
      BY <2>1, <1>1, PutTyped DEF At, JobOK
    <2>2. CASE UNCHANGED server
      BY <2>2, <1>0, <1>1 DEF ServerTypes, ValueOK, Texts
    <2> QED
      BY <2>1, <2>2 DEF RequestFails
  <1>3. JobTypesAll'
    BY <1>1, EndKeepsTypes DEF RequestFails
  <1>4. PageTypes'
    <2>1. page' = page \/ Reports(b)
      BY DEF RequestFails
    <2> QED
      BY <2>1, <1>0, <1>1, ReportTyped DEF PageTypes, Texts
  <1>5. faults' \in Nat
    BY <1>0 DEF RequestFails, Fault, RestTypes
  <1>6. SyncTypes' /\ KnowsTypes' /\ RestTypes'
    BY <1>0, <1>5 DEF RequestFails, SyncTypes, KnowsTypes, RestTypes, historyVars, Texts
  <1> QED
    BY <1>2, <1>3, <1>4, <1>6, TypedNext

LEMMA StopTyped ==
  ASSUME Typed, NEW b \in Browsers, Stops(b) \/ Restarts(b)
  PROVE  Typed'
  <1>0. SyncTypes /\ PageTypes /\ ServerTypes /\ JobTypesAll /\ KnowsTypes /\ RestTypes
    BY TypedParts
  <1>1. /\ knows' = knows
        /\ UNCHANGED <<server, salts, member, rules, sync, late, replaced>>
    BY DEF Stops, Restarts
  <1> DEFINE resume == [IdleJob EXCEPT !.at = "resume"]
  <1>2. resume \in Jobs /\ IdleJob \in Jobs /\ JobOK(resume) /\ JobOK(IdleJob)
    BY <1>0, JobTypes, ValueTypes DEF Jobs, JobOK, ValueOK, Texts, KnowsTypes
  <1>3. \E some \in [Parts -> {resume, IdleJob}] : jobs' = [jobs EXCEPT ![b] = some]
    <2>1. CASE Stops(b)
      <3>1. [p \in Parts |-> IdleJob] \in [Parts -> {resume, IdleJob}]
        OBVIOUS
      <3> QED
        BY <2>1, <3>1 DEF Stops
    <2>2. CASE Restarts(b)
      <3>1. [p \in Parts |-> IF p = "quiet" THEN resume ELSE IdleJob]
              \in [Parts -> {resume, IdleJob}]
        OBVIOUS
      <3> QED
        BY <2>2, <3>1 DEF Restarts
    <2> QED
      BY <2>1, <2>2
  <1>4. JobTypesAll'
    <2> HIDE DEF resume
    <2> PICK some \in [Parts -> {resume, IdleJob}] : jobs' = [jobs EXCEPT ![b] = some]
      BY <1>3
    <2>1. jobs' \in [Browsers -> [Parts -> Jobs]]
      BY <1>0, <1>2 DEF JobTypesAll
    <2>2. \A c \in Browsers, q \in Parts : JobOK(jobs'[c][q])
      BY <1>0, <1>2 DEF JobTypesAll
    <2> QED
      BY <2>1, <2>2, <1>1 DEF JobTypesAll, JobOK, ValueOK, Texts
  <1>5. PageTypes'
    <2>1. rules[b] \in Texts /\ sync[b].on \in BOOLEAN
      BY <1>0, StateTypes DEF RestTypes, SyncTypes
    <2>2. \/ page' = page
          \/ page' = [page EXCEPT ![b] = [shown |-> rules[b], offers |-> sync[b].on]]
      BY DEF Stops, Restarts
    <2> QED
      BY <2>1, <2>2, <1>0, <1>1, PageTyped
  <1>8. faults' \in Nat
    BY <1>0 DEF Stops, Restarts, Fault, RestTypes
  <1>9. alarm' \in [Browsers -> BOOLEAN]
    BY <1>0 DEF Stops, Restarts, RestTypes
  <1>10. unwatched' \in [Browsers -> BOOLEAN]
    <2>1. \E lost \in BOOLEAN : unwatched' = [unwatched EXCEPT ![b] = lost]
      <3>1. CASE Stops(b)
        <4>1. (unwatched[b] \/ \E p \in Parts : jobs[b][p].at \in {"arm", "resume"})
                \in BOOLEAN
          OBVIOUS
        <4> QED
          BY <3>1, <4>1 DEF Stops
      <3>2. CASE Restarts(b)
        BY <3>2 DEF Restarts
      <3> QED
        BY <3>1, <3>2
    <2> QED
      BY <2>1, <1>0 DEF RestTypes
  <1>6. /\ faults' \in Nat /\ alarm' \in [Browsers -> BOOLEAN]
        /\ unwatched' \in [Browsers -> BOOLEAN]
    BY <1>8, <1>9, <1>10
  <1>7. SyncTypes' /\ ServerTypes' /\ KnowsTypes' /\ RestTypes'
    BY <1>0, <1>1, <1>6 DEF SyncTypes, ServerTypes, KnowsTypes, RestTypes, ValueOK, Texts
  <1> QED
    BY <1>4, <1>5, <1>7, TypedNext

(* Leaving and joining a workspace, and the loss of the server's value.    *)
LEMMA MoveTyped ==
  ASSUME Typed,
         \/ \E b \in Browsers : Leaves(b)
         \/ \E b \in Browsers, w \in Workspaces : Joins(b, w)
         \/ \E w \in Workspaces : Cleared(w)
  PROVE  Typed'
  <1>0. SyncTypes /\ PageTypes /\ ServerTypes /\ JobTypesAll /\ KnowsTypes /\ RestTypes
    BY TypedParts
  <1>1. UNCHANGED <<salts, rules, sync, alarm, jobs, page, knows, unwatched, late>>
    BY DEF Leaves, Joins, Cleared, historyVars
  <1>2. /\ faults' \in Nat /\ replaced' \in BOOLEAN
        /\ member' \in [Browsers -> [workspace : Workspaces, in : BOOLEAN]]
    <2>1. ASSUME NEW b \in Browsers, Leaves(b)
          PROVE  /\ faults' \in Nat /\ replaced' \in BOOLEAN
                 /\ member' \in [Browsers -> [workspace : Workspaces, in : BOOLEAN]]
      <3>1. faults' \in Nat
        BY <2>1, <1>0 DEF Leaves, Fault, RestTypes
      <3>2. replaced' \in BOOLEAN
        BY <2>1, <1>0 DEF Leaves, RestTypes, historyVars
      <3>3. member' = [member EXCEPT ![b].in = FALSE]
        BY <2>1 DEF Leaves
      <3>4. member' \in [Browsers -> [workspace : Workspaces, in : BOOLEAN]]
        BY <3>3, <1>0 DEF RestTypes
      <3> QED
        BY <3>1, <3>2, <3>4
    <2>2. ASSUME NEW b \in Browsers, NEW w \in Workspaces, Joins(b, w)
          PROVE  /\ faults' \in Nat /\ replaced' \in BOOLEAN
                 /\ member' \in [Browsers -> [workspace : Workspaces, in : BOOLEAN]]
      BY <2>2, <1>0 DEF Joins, RestTypes
    <2>3. ASSUME NEW w \in Workspaces, Cleared(w)
          PROVE  /\ faults' \in Nat /\ replaced' \in BOOLEAN
                 /\ member' \in [Browsers -> [workspace : Workspaces, in : BOOLEAN]]
      BY <2>3, <1>0 DEF Cleared, Fault, RestTypes
    <2> QED
      BY <2>1, <2>2, <2>3
  <1>4. ServerTypes'
    <2>1. NoValue \in Values /\ ValueOK(NoValue)
      BY <1>0, ValueTypes DEF ValueOK, Texts, KnowsTypes
    <2>2. server' = server \/ \E w \in Workspaces : server' = [server EXCEPT ![w] = NoValue]
      BY DEF Leaves, Joins, Cleared
    <2> QED
      BY <2>1, <2>2, <1>0, <1>1 DEF ServerTypes, ValueOK, Texts
  <1>5. SyncTypes' /\ PageTypes' /\ JobTypesAll' /\ KnowsTypes' /\ RestTypes'
    BY <1>0, <1>1, <1>2 DEF SyncTypes, PageTypes, JobTypesAll, KnowsTypes,
       RestTypes, JobOK, ValueOK, Texts
  <1> QED
    BY <1>4, <1>5, TypedNext

THEOREM NextTyped == Typed /\ [Next]_vars => Typed'
  <1> SUFFICES ASSUME Typed, [Next]_vars PROVE Typed'
    OBVIOUS
  <1>1. CASE UNCHANGED vars
    BY <1>1 DEF vars, historyVars, Typed, TypeOK, JobOK, ValueOK, Texts
  <1>2. CASE \E b \in Browsers : Step(b) \/ Alarm(b) \/ User(b) \/ Failure(b)
    <2> PICK b \in Browsers : Step(b) \/ Alarm(b) \/ User(b) \/ Failure(b)
      BY <1>2
    <2>1. CASE Step(b)
      BY <2>1, AskTyped, PublishTyped, EnableTyped, AdoptTyped, PageStepTyped, ReadTyped,
         PullTyped, WriteTyped, SettleTyped DEF Step, JobStep
    <2>2. CASE User(b) \/ Alarm(b)
      BY <2>2, AskTyped, SaveTyped, EnableTyped, PageStepTyped DEF User
    <2>3. CASE Failure(b)
      BY <2>3, FailsTyped, StopTyped, MoveTyped DEF Failure
    <2> QED
      BY <2>1, <2>2, <2>3
  <1>3. CASE \/ \E b \in Browsers, w \in Workspaces : Joins(b, w)
             \/ \E w \in Workspaces : Cleared(w)
    BY <1>3, MoveTyped
  <1> QED
    BY <1>1, <1>2, <1>3 DEF Next

(* The variables of the synchronisation keep their types, for any number   *)
(* of browsers, edits and failures, and a browser that synchronises has a  *)
(* key derived with a salt (Enabled is only built from one).               *)
THEOREM ShortcutTypes == Spec => []TypeOK
  <1>1. Spec => []Typed
    BY InitTyped, NextTyped, PTL DEF Spec
  <1>2. Typed => TypeOK
    BY DEF Typed
  <1> QED
    BY <1>1, <1>2, PTL

-----------------------------------------------------------------------------
(* The alarm                                                               *)

Watched(b) ==
  \/ alarm[b] \/ unwatched[b]
  \/ \E p \in Parts : jobs[b][p].at \in {"arm", "resume"}

LEMMA JobSpace == Typed => jobs \in [Browsers -> [Parts -> Jobs]]
  BY DEF Typed, TypeOK

(* A part that neither arms nor resumes takes no alarm with it.            *)
LEMMA StaysWatched ==
  ASSUME Typed, NEW b \in Browsers, NEW p \in Parts, NEW job \in Jobs, Goes(b, p, job),
         jobs[b][p].at \notin {"arm", "resume"},
         NEW c \in Browsers, Watched(c),
         alarm[c] => alarm'[c], unwatched[c] => unwatched'[c]
  PROVE  Watched(c)'
  <1>1. \A q \in Parts : ~(c = b /\ q = p) => jobs'[c][q] = jobs[c][q]
    BY JobSpace, GoesTo
  <1> QED
    BY <1>1 DEF Watched

(* What is stored by a part that ends is watched, or counts as unwatched.  *)
LEMMA StoredWatched ==
  ASSUME Typed, PullsGoOn, NEW b \in Browsers, NEW p \in Parts, Ends(b, p),
         jobs[b][p].at \notin {"arm", "resume"}, NEW state, Stores(b, state),
         alarm' = alarm
  PROVE  PullsGoOn'
  <1> SUFFICES ASSUME NEW c \in Browsers, sync'[c].on PROVE Watched(c)'
    BY DEF PullsGoOn, Watched
  <1>0. unwatched \in [Browsers -> BOOLEAN] /\ sync \in [Browsers -> States]
    BY DEF Typed, TypeOK
  <1>1. unwatched[c] => unwatched'[c]
    BY <1>0 DEF Stores
  <1>2. CASE sync[c].on
    <2>1. Watched(c)
      BY <1>2 DEF PullsGoOn, Watched
    <2> QED
      BY <2>1, <1>1, StaysWatched, JobTypes DEF Ends
  <1>3. CASE ~sync[c].on
    <2>1. c = b
      BY <1>0, <1>3 DEF Stores
    <2>2. CASE alarm[c]
      BY <2>2 DEF Watched
    <2>3. CASE ~alarm[c]
      BY <1>0, <1>3, <2>1, <2>3 DEF Stores, Watched
    <2> QED
      BY <2>2, <2>3
  <1> QED
    BY <1>2, <1>3

LEMMA AskedWatched ==
  ASSUME Typed, PullsGoOn, NEW b \in Browsers, NEW p \in Parts, NEW watched,
         PullAsks(b, p, watched), sync' = sync,
         \/ watched = TRUE /\ p = "quiet"
         \/ watched = alarm[b] /\ jobs[b][p].at \notin {"arm", "resume"} /\ p # "quiet"
  PROVE  PullsGoOn'
  <1> SUFFICES ASSUME NEW c \in Browsers, sync[c].on PROVE Watched(c)'
    BY DEF PullsGoOn, Watched
  <1>0. /\ unwatched \in [Browsers -> BOOLEAN] /\ sync \in [Browsers -> States]
        /\ alarm \in [Browsers -> BOOLEAN]
    BY DEF Typed, TypeOK
  <1>1. Watched(c)
    BY DEF PullsGoOn, Watched
  <1>2. \E job \in Jobs : Goes(b, p, job)
    <2>1. CASE ~sync[b].on \/ ~member[b].in
      BY <2>1, JobTypes DEF PullAsks, Ends
    <2>2. CASE ~(~sync[b].on \/ ~member[b].in)
      <3> DEFINE job == [IdleJob EXCEPT !.at = "read", !.key = sync[b].key,
                           !.revision = sync[b].revision, !.workspace = member[b].workspace]
      <3>1. Goes(b, p, job)
        BY <2>2 DEF PullAsks
      <3>2. sync[b].key \in Keys /\ sync[b].revision \in Nat /\ member[b].workspace \in Workspaces
        BY StateTypes DEF Typed, TypeOK
      <3>3. job \in Jobs
        BY <3>2, JobTypes DEF Jobs
      <3> HIDE DEF job
      <3> QED
        BY <3>1, <3>3
    <2> QED
      BY <2>1, <2>2
  <1>3. unwatched[c] => unwatched'[c]
    BY <1>0 DEF PullAsks
  <1>4. CASE c # b
    <2>1. alarm'[c] = alarm[c]
      BY <1>0, <1>4 DEF PullAsks
    <2>2. \A q \in Parts : jobs'[c][q] = jobs[c][q]
      BY <1>2, <1>4, JobSpace, GoesTo
    <2> QED
      BY <2>1, <2>2, <1>1, <1>3 DEF Watched
  <1>5. CASE c = b /\ p = "quiet"
    <2>1. alarm'[b] \/ unwatched'[b]
      BY <1>0, <1>5 DEF PullAsks
    <2> QED
      BY <2>1, <1>5 DEF Watched
  <1>6. CASE c = b /\ p # "quiet"
    <2>1. alarm'[c] = alarm[c]
      BY <1>0, <1>6 DEF PullAsks
    <2> QED
      BY <2>1, <1>1, <1>2, <1>3, <1>6, StaysWatched
  <1> QED
    BY <1>4, <1>5, <1>6

(* A part goes on, and nobody loses an alarm or turns it on.               *)
LEMMA GoesOnWatched ==
  ASSUME Typed, PullsGoOn, NEW b \in Browsers, NEW p \in Parts, NEW job \in Jobs,
         Goes(b, p, job), jobs[b][p].at \notin {"arm", "resume"},
         UNCHANGED <<alarm, unwatched, sync>>
  PROVE  PullsGoOn'
  <1> SUFFICES ASSUME NEW c \in Browsers, sync[c].on PROVE Watched(c)'
    BY DEF PullsGoOn, Watched
  <1>1. Watched(c)
    BY DEF PullsGoOn, Watched
  <1> QED
    BY <1>1, StaysWatched

(* What is stored by a part that is about to arm is watched.               *)
LEMMA ArmingWatched ==
  ASSUME Typed, PullsGoOn, NEW b \in Browsers, NEW p \in Parts, NEW job \in Jobs,
         Goes(b, p, job), jobs[b][p].at \notin {"arm", "resume"}, job.at = "arm",
         NEW state, sync' = [sync EXCEPT ![b] = state], UNCHANGED <<alarm, unwatched>>
  PROVE  PullsGoOn'
  <1> SUFFICES ASSUME NEW c \in Browsers, sync'[c].on PROVE Watched(c)'
    BY DEF PullsGoOn, Watched
  <1>1. CASE c = b
    <2>1. jobs'[b][p].at = "arm"
      BY JobSpace, GoesTo
    <2> QED
      BY <2>1, <1>1 DEF Watched
  <1>2. CASE c # b
    <2>1. sync[c].on
      BY <1>2 DEF Typed, TypeOK
    <2>2. Watched(c)
      BY <2>1 DEF PullsGoOn, Watched
    <2> QED
      BY <2>2, StaysWatched
  <1> QED
    BY <1>1, <1>2

LEMMA WentTo ==
  ASSUME jobs \in [Browsers -> [Parts -> Jobs]], jobs' \in [Browsers -> [Parts -> Jobs]],
         NEW b \in Browsers, NEW p \in Parts, NEW job, Goes(b, p, job)
  PROVE  job \in Jobs
  <1>1. jobs'[b][p] = job
    BY DEF Goes
  <1> QED
    BY <1>1

LEMMA StepWatched ==
  ASSUME Typed, PullsGoOn, NEW b \in Browsers, Step(b), jobs' \in [Browsers -> [Parts -> Jobs]]
  PROVE  PullsGoOn'
  <1>1. ASSUME NEW p \in Parts, Read(b, p) \/ Write(b, p) PROVE PullsGoOn'
    <2>1. UNCHANGED <<alarm, unwatched, sync>> /\ jobs[b][p].at \notin {"arm", "resume"}
      BY <1>1 DEF Read, Write, historyVars, At
    <2>2. \E job : Goes(b, p, job)
      BY <1>1 DEF Read, Write, Ends
    <2>3. \E job \in Jobs : Goes(b, p, job)
      BY <2>2, JobSpace, WentTo
    <2> QED
      BY <2>1, <2>3, GoesOnWatched
  <1>2. ASSUME NEW p \in Parts, PullCannotOpen(b, p) PROVE PullsGoOn'
    BY <1>2, GoesOnWatched, JobTypes DEF PullCannotOpen, historyVars, At, Ends
  <1>3. ASSUME NEW p \in Parts, PullUnchanged(b, p) PROVE PullsGoOn'
    BY <1>3, StoredWatched DEF PullUnchanged, At
  <1>4. ASSUME NEW p \in Parts, PullApplies(b, p) PROVE PullsGoOn'
    BY <1>4, StoredWatched DEF PullApplies, At
  <1>5. ASSUME NEW p \in Parts, Settle(b, p) PROVE PullsGoOn'
    <2>1. CASE p = "sync"
      <3> DEFINE next == [jobs[b][p] EXCEPT !.at = "arm"]
      <3>3. jobs[b][p] \in Jobs
        BY JobSpace
      <3>1. next \in Jobs /\ next.at = "arm"
        BY <3>3 DEF Jobs
      <3>2. Goes(b, p, next)
        BY <1>5, <2>1 DEF Settle
      <3> HIDE DEF next
      <3> QED
        BY <1>5, <2>1, <3>1, <3>2, ArmingWatched DEF Settle, At
    <2>2. CASE p # "sync"
      BY <1>5, <2>2, StoredWatched DEF Settle, At
    <2> QED
      BY <2>1, <2>2
  <1>6. CASE Resume(b)
    <2>1. "quiet" \in Parts
      BY DEF Parts
    <2>2. CASE sync[b].on
      BY <1>6, <2>1, <2>2, AskedWatched DEF Resume
    <2>3. CASE ~sync[b].on
      <3> SUFFICES ASSUME NEW c \in Browsers, sync[c].on PROVE Watched(c)'
        BY <1>6 DEF PullsGoOn, Watched, Resume
      <3>1. c # b /\ Watched(c)
        BY <2>3 DEF PullsGoOn, Watched
      <3>2. \A q \in Parts : jobs'[c][q] = jobs[c][q]
        BY <1>6, <2>1, <2>3, <3>1, JobSpace, EndsIn DEF Resume
      <3>3. UNCHANGED <<alarm, unwatched>>
        BY <1>6, <2>3 DEF Resume
      <3> QED
        BY <3>1, <3>2, <3>3 DEF Watched
    <2> QED
      BY <2>2, <2>3
  <1>7. CASE Publish(b)
    <2>1. UNCHANGED <<alarm, unwatched, sync>> /\ jobs[b]["save"].at \notin {"arm", "resume"}
          /\ "save" \in Parts
      BY <1>7 DEF Publish, historyVars, At, Parts
    <2>2. \E job : Goes(b, "save", job)
      BY <1>7 DEF Publish, Ends
    <2>3. \E job \in Jobs : Goes(b, "save", job)
      BY <2>1, <2>2, JobSpace, WentTo
    <2> QED
      BY <2>1, <2>3, GoesOnWatched
  <1>8. CASE EnableFirst(b)
    <2>1. UNCHANGED <<alarm, unwatched, sync>> /\ jobs[b]["sync"].at \notin {"arm", "resume"}
          /\ "sync" \in Parts
      BY <1>8 DEF EnableFirst, historyVars, At, Parts
    <2>2. \E job : Goes(b, "sync", job)
      BY <1>8 DEF EnableFirst
    <2>3. \E job \in Jobs : Goes(b, "sync", job)
      BY <2>1, <2>2, JobSpace, WentTo
    <2> QED
      BY <2>1, <2>3, GoesOnWatched
  <1>9. CASE EnableAdopts(b)
    <2> DEFINE job == jobs[b]["sync"]
               key == DeriveKey(job.key.pass, SaltOf(job.remote))
               next == [job EXCEPT !.at = "arm", !.key = key]
    <2>1. "sync" \in Parts /\ job.at \notin {"arm", "resume"} /\ UNCHANGED <<alarm, unwatched>>
      BY <1>9 DEF EnableAdopts, At, Parts
    <2>2. CASE Opens(key, job.remote)
      <3>1. Goes(b, "sync", next) /\ next.at = "arm"
        BY <1>9, <2>1, <2>2, JobSpace DEF EnableAdopts, Jobs
      <3>2. next \in Jobs
        <4>1. job \in Jobs
          BY <2>1, JobSpace
        <4>2. key \in Keys
          BY <4>1, JobTypes, ValueTypes, KeyTypes DEF SaltOf
        <4> HIDE DEF key
        <4> QED
          BY <4>1, <4>2 DEF Jobs
      <3>3. \E state : sync' = [sync EXCEPT ![b] = state]
        BY <1>9, <2>2 DEF EnableAdopts
      <3> HIDE DEF next
      <3> QED
        BY <2>1, <3>1, <3>2, <3>3, ArmingWatched
    <2>3. CASE ~Opens(key, job.remote)
      BY <1>9, <2>1, <2>3, GoesOnWatched, JobTypes DEF EnableAdopts, Ends
    <2> QED
      BY <2>2, <2>3
  <1>10. CASE Arm(b)
    <2> SUFFICES ASSUME NEW c \in Browsers, sync[c].on PROVE Watched(c)'
      BY <1>10 DEF PullsGoOn, Watched, Arm
    <2>1. CASE c = b
      <3>1. alarm'[b]
        BY <1>10 DEF Arm, Typed, TypeOK
      <3> QED
        BY <2>1, <3>1 DEF Watched
    <2>2. CASE c # b
      <3>1. Watched(c)
        BY DEF PullsGoOn, Watched
      <3>2. \A q \in Parts : jobs'[c][q] = jobs[c][q]
        BY <1>10, <2>2, JobSpace, EndsIn DEF Arm, Parts
      <3>3. alarm'[c] = alarm[c] /\ unwatched'[c] = unwatched[c]
        BY <1>10, <2>2 DEF Arm, Typed, TypeOK, historyVars
      <3> QED
        BY <3>1, <3>2, <3>3 DEF Watched
    <2> QED
      BY <2>1, <2>2
  <1> QED
    BY <1>1, <1>2, <1>3, <1>4, <1>5, <1>6, <1>7, <1>8, <1>9, <1>10 DEF Step, JobStep

LEMMA UserWatched ==
  ASSUME Typed, PullsGoOn, NEW b \in Browsers, User(b) \/ Alarm(b),
         jobs' \in [Browsers -> [Parts -> Jobs]]
  PROVE  PullsGoOn'
  <1>0. "sync" \in Parts /\ "save" \in Parts /\ "quiet" \in Parts
    BY DEF Parts
  <1>1. CASE AskPull(b)
    BY <1>0, <1>1, AskedWatched DEF AskPull, At
  <1>2. CASE Alarm(b)
    BY <1>0, <1>2, AskedWatched DEF Alarm
  <1>3. CASE Save(b)
    <2>1. UNCHANGED <<alarm, unwatched, sync>> /\ jobs[b]["save"].at \notin {"arm", "resume"}
      BY <1>3 DEF Save, At
    <2>2. \E job : Goes(b, "save", job)
      BY <1>3 DEF Save
    <2> QED
      BY <1>0, <2>1, <2>2, JobSpace, WentTo, GoesOnWatched
  <1>4. CASE \E pass \in Passphrases : AskEnable(b, pass)
    <2>1. UNCHANGED <<alarm, unwatched, sync>> /\ jobs[b]["sync"].at \notin {"arm", "resume"}
      BY <1>4 DEF AskEnable, At, historyVars
    <2>2. \E job : Goes(b, "sync", job)
      BY <1>4 DEF AskEnable
    <2> QED
      BY <1>0, <2>1, <2>2, JobSpace, WentTo, GoesOnWatched
  <1>5. CASE Disable(b)
    <2> SUFFICES ASSUME NEW c \in Browsers, sync'[c].on PROVE Watched(c)'
      BY DEF PullsGoOn, Watched
    <2>1. c # b /\ sync'[c] = sync[c]
      BY <1>5, StateTypes DEF Disable, Typed, TypeOK
    <2>2. alarm'[c] = alarm[c] /\ unwatched'[c] = unwatched[c] /\ jobs' = jobs
      BY <1>5, <2>1 DEF Disable, Typed, TypeOK
    <2> QED
      BY <2>1, <2>2 DEF PullsGoOn, Watched
  <1>6. CASE Open(b)
    BY <1>6 DEF Open, PullsGoOn, historyVars
  <1> QED
    BY <1>1, <1>2, <1>3, <1>4, <1>5, <1>6 DEF User

LEMMA FailureWatched ==
  ASSUME Typed, PullsGoOn, NEW b \in Browsers, Failure(b)
  PROVE  PullsGoOn'
  <1>1. ASSUME NEW p \in Parts, RequestFails(b, p) PROVE PullsGoOn'
    <2>1. Ends(b, p) /\ jobs[b][p].at \notin {"arm", "resume"}
      BY <1>1 DEF RequestFails
    <2>2. UNCHANGED <<alarm, unwatched, sync>>
      BY <1>1 DEF RequestFails, historyVars
    <2> QED
      BY <2>1, <2>2, GoesOnWatched, JobTypes DEF Ends
  <1>2. CASE Stops(b)
    <2> SUFFICES ASSUME NEW c \in Browsers, sync[c].on PROVE Watched(c)'
      BY <1>2 DEF PullsGoOn, Watched, Stops
    <2>1. Watched(c) /\ alarm' = alarm
      BY <1>2 DEF PullsGoOn, Watched, Stops
    <2>2. CASE c = b
      <3>1. unwatched'[b] = (unwatched[b] \/ \E p \in Parts : jobs[b][p].at \in {"arm", "resume"})
        BY <1>2 DEF Stops, Typed, TypeOK
      <3> QED
        BY <2>1, <2>2, <3>1 DEF Watched
    <2>3. CASE c # b
      <3>1. unwatched'[c] = unwatched[c] /\ jobs'[c] = jobs[c]
        BY <1>2, <2>3 DEF Stops, Typed, TypeOK
      <3> QED
        BY <2>1, <3>1 DEF Watched
    <2> QED
      BY <2>2, <2>3
  <1>3. CASE Restarts(b)
    <2> SUFFICES ASSUME NEW c \in Browsers, sync[c].on PROVE Watched(c)'
      BY <1>3 DEF PullsGoOn, Watched, Restarts
    <2>1. CASE c = b
      <3>1. jobs'[b] = [p \in Parts |->
              IF p = "quiet" THEN [IdleJob EXCEPT !.at = "resume"] ELSE IdleJob]
        BY <1>3, JobSpace DEF Restarts
      <3>2. jobs'[b]["quiet"].at = "resume" /\ "quiet" \in Parts
        BY <3>1 DEF Parts, IdleJob
      <3> QED
        BY <2>1, <3>2 DEF Watched
    <2>2. CASE c # b
      <3>1. unwatched'[c] = unwatched[c] /\ jobs'[c] = jobs[c] /\ alarm'[c] = alarm[c]
        BY <1>3, <2>2 DEF Restarts, Typed, TypeOK
      <3> QED
        BY <3>1 DEF PullsGoOn, Watched
    <2> QED
      BY <2>1, <2>2
  <1>4. CASE Leaves(b)
    BY <1>4 DEF Leaves, PullsGoOn, historyVars
  <1> QED
    BY <1>1, <1>2, <1>3, <1>4 DEF Failure

THEOREM NextWatched == Typed /\ PullsGoOn /\ [Next]_vars => PullsGoOn'
  <1> SUFFICES ASSUME Typed, PullsGoOn, [Next]_vars PROVE PullsGoOn'
    OBVIOUS
  <1>1. jobs' \in [Browsers -> [Parts -> Jobs]]
    <2>1. Typed'
      BY NextTyped
    <2> QED
      BY <2>1 DEF Typed, TypeOK
  <1>2. CASE UNCHANGED vars
    BY <1>2 DEF vars, historyVars, PullsGoOn
  <1>3. CASE \E b \in Browsers : Step(b) \/ Alarm(b) \/ User(b) \/ Failure(b)
    BY <1>1, <1>3, StepWatched, UserWatched, FailureWatched
  <1>4. ASSUME NEW b \in Browsers, NEW w \in Workspaces, Joins(b, w) PROVE PullsGoOn'
    BY <1>4 DEF Joins, PullsGoOn
  <1>5. ASSUME NEW w \in Workspaces, Cleared(w) PROVE PullsGoOn'
    BY <1>5 DEF Cleared, PullsGoOn
  <1> QED
    BY <1>2, <1>3, <1>4, <1>5 DEF Next

(* Whatever pulls, saves, switches, failures and stops overlap, a browser  *)
(* that synchronises has its alarm or is about to create it, but for the   *)
(* ways that unwatched records (enableShortcutSync, resumeShortcutSyncPull *)
(* and pullShortcutPreferencesQuietly keep it).                            *)
THEOREM PullsAlwaysGoOn == Spec => []PullsGoOn
  <1>1. Init => PullsGoOn
    BY StateTypes DEF Init, PullsGoOn
  <1>2. Spec => []Typed
    BY InitTyped, NextTyped, PTL DEF Spec
  <1> QED
    BY <1>1, <1>2, NextWatched, PTL DEF Spec

-----------------------------------------------------------------------------
(* The order of the revisions                                              *)

(* The server stays, and what is stored or goes on is in order.            *)
LEMMA OrderKept ==
  ASSUME Ordered, ~replaced, replaced' = replaced, server' = server,
         \A c \in Browsers : member'[c].workspace = member[c].workspace,
         \A c \in Browsers : sync'[c] = sync[c] \/ StateOrdered(sync'[c]),
         \A c \in Browsers, q \in Parts :
           jobs'[c][q] = jobs[c][q] \/ JobOrdered(jobs'[c][q])
  PROVE  Ordered'
  <1>1. \A c \in Browsers : StateOrdered(sync'[c])
    BY DEF Ordered
  <1>2. \A c \in Browsers, q \in Parts : JobOrdered(jobs'[c][q])
    BY DEF Ordered
  <1>3. \A c \in Browsers : StateOrdered(sync[c])'
    BY <1>1 DEF StateOrdered
  <1>4. \A c \in Browsers, q \in Parts : JobOrdered(jobs[c][q])'
    BY <1>2 DEF JobOrdered, Enables, RemoteOK, Pulls
  <1> QED
    BY <1>3, <1>4 DEF Ordered

LEMMA IdleOrdered ==
  ASSUME Typed, Ordered, ~replaced, NEW job, job.at \in {"idle", "resume", "publish"},
         job.workspace = Home, job.revision = 0, job.remote = NoValue
  PROVE  JobOrdered(job)
  <1>1. server[Home].revision \in Nat
    BY SyncAssumption, ValueTypes DEF Typed, TypeOK
  <1> QED
    BY <1>1, ValueTypes DEF JobOrdered, Enables, RemoteOK, Pulls, Ordered

LEMMA ServerTyped ==
  Typed => /\ server[Home] \in Values /\ server[Home].revision \in Nat
           /\ server[Home].rules \in Texts
  BY SyncAssumption, ValueTypes DEF Typed, TypeOK, ValueOK

(* The next value of a write in order is the first of its revision.        *)
LEMMA PutOrder ==
  ASSUME Typed, Ordered, ~replaced, NEW job \in Jobs, JobOrdered(job), Takes(job), Puts(job)
  PROVE  /\ server'[Home] = Seal(job.key, job.rules, job.revision + 1)
         /\ job.revision = server[Home].revision
         /\ server'[Home].revision = server[Home].revision + 1
         /\ server'[Home].rules = job.rules /\ server'[Home].key = job.key
         /\ \A value : RemoteOK(value) /\ value.revision \in Nat => RemoteOK(value)'
         /\ \A state : StateOrdered(state) /\ state.revision \in Nat => StateOrdered(state)'
         /\ \A other : JobOrdered(other) /\ other \in Jobs => JobOrdered(other)'
  <1>1. job.workspace = Home /\ job.key \in Keys /\ job.rules \in Nat /\ job.revision \in Nat
    BY JobTypes DEF JobOrdered, Enables
  <1>2. job.revision = server[Home].revision /\ server[Home].revision \in Nat
    BY <1>1, ServerTyped DEF Takes
  <1>3. server'[Home] = Seal(job.key, job.rules, job.revision + 1)
    BY <1>1, SyncAssumption DEF Puts, Typed, TypeOK
  <1>4. /\ server'[Home].revision = server[Home].revision + 1
        /\ server'[Home].rules = job.rules /\ server'[Home].key = job.key
    BY <1>1, <1>2, <1>3 DEF Seal
  <1>5. \A value : RemoteOK(value) /\ value.revision \in Nat => RemoteOK(value)'
    BY <1>2, <1>4 DEF RemoteOK
  <1>6. \A state : StateOrdered(state) /\ state.revision \in Nat => StateOrdered(state)'
    BY <1>2, <1>4 DEF StateOrdered
  <1>7. ASSUME NEW other, JobOrdered(other), other \in Jobs PROVE JobOrdered(other)'
    <2>1. other.remote.revision \in Nat /\ other.revision \in Nat
      BY <1>7, JobTypes, ValueTypes
    <2>2. RemoteOK(other.remote)'
      BY <1>5, <1>7, <2>1 DEF JobOrdered, Enables
    <2> QED
      BY <1>2, <1>4, <1>7, <2>1, <2>2 DEF JobOrdered, Enables, Pulls
  <1> QED
    BY <1>2, <1>3, <1>4, <1>5, <1>6, <1>7

LEMMA PutOrdered ==
  ASSUME Typed, Ordered, ~replaced, NEW job \in Jobs, JobOrdered(job), Takes(job), Puts(job),
         replaced' = replaced, member' = member, sync' = sync,
         \A c \in Browsers, q \in Parts :
           jobs'[c][q] = jobs[c][q] \/ JobOrdered(jobs[c][q])'
  PROVE  Ordered'
  <1>1. server'[Home].revision # 0
    BY PutOrder, ServerTyped
  <1>2. \A c \in Browsers : StateOrdered(sync[c])'
    <2>1. \A c \in Browsers : StateOrdered(sync[c]) /\ sync[c].revision \in Nat
      BY StateTypes DEF Ordered, Typed, TypeOK
    <2> QED
      BY <2>1, PutOrder
  <1>3. ASSUME NEW c \in Browsers, NEW q \in Parts PROVE JobOrdered(jobs[c][q])'
    <2>1. JobOrdered(jobs[c][q]) /\ jobs[c][q] \in Jobs
      BY JobSpace DEF Ordered
    <2>2. JobOrdered(jobs[c][q])' \/ jobs'[c][q] = jobs[c][q]
      OBVIOUS
    <2>3. CASE jobs'[c][q] = jobs[c][q]
      <3> DEFINE other == jobs[c][q]
      <3>1. (\A any : JobOrdered(any) /\ any \in Jobs => JobOrdered(any)')
        BY PutOrder
      <3> QED
        BY <2>1, <2>3, <3>1 DEF JobOrdered, Enables, RemoteOK, Pulls
    <2> QED
      BY <2>2, <2>3
  <1> QED
    BY <1>1, <1>2, <1>3 DEF Ordered

(* A part goes on with a job in order, or ends.                            *)
LEMMA GoneOrdered ==
  ASSUME Typed, NEW b \in Browsers, NEW p \in Parts, NEW job \in Jobs, Goes(b, p, job),
         JobOrdered(job)
  PROVE  \A c \in Browsers, q \in Parts :
           jobs'[c][q] = jobs[c][q] \/ JobOrdered(jobs'[c][q])
  BY JobSpace, GoesTo

LEMMA EndedOrdered ==
  ASSUME Typed, Ordered, ~replaced, NEW b \in Browsers, NEW p \in Parts, Ends(b, p)
  PROVE  \A c \in Browsers, q \in Parts :
           jobs'[c][q] = jobs[c][q] \/ JobOrdered(jobs'[c][q])
  BY GoneOrdered, IdleOrdered, JobTypes DEF Ends

LEMMA StoredOrdered ==
  ASSUME Typed, NEW b \in Browsers, NEW state, StateOrdered(state),
         sync' = [sync EXCEPT ![b] = state]
  PROVE  \A c \in Browsers : sync'[c] = sync[c] \/ StateOrdered(sync'[c])
  BY DEF Typed, TypeOK

(* Where the server's value stays and a part that answers goes on.         *)
LEMMA ReadOrdered ==
  ASSUME Typed, Ordered, ~replaced, NEW b \in Browsers, NEW p \in Parts, Read(b, p)
  PROVE  Ordered'
  <1> DEFINE job == jobs[b][p]
             value == server[job.workspace]
             at == IF job.key.salt = 0 THEN "enable" ELSE "pull"
             next == [job EXCEPT !.remote = value, !.at = at]
  <1>1. Goes(b, p, next) /\ job.at = "read"
    BY DEF Read, At
  <1>2. job \in Jobs /\ JobOrdered(job)
    BY JobSpace DEF Ordered
  <1>3. value \in Values /\ value = server[Home]
    BY <1>2, ServerTyped DEF JobOrdered, Enables
  <1>4. /\ at \in {"enable", "pull"} /\ (at = "pull" => job.key.salt # 0)
        /\ at = "enable" => job.key.salt = 0
    OBVIOUS
  <1> HIDE DEF at, value
  <1>5. /\ next \in Jobs /\ next.at = at /\ next.remote = value
        /\ next.workspace = job.workspace /\ next.revision = job.revision
        /\ next.key = job.key
    BY <1>2, <1>3, <1>4 DEF Jobs
  <1>6. RemoteOK(value)
    BY <1>3, ServerTyped DEF RemoteOK
  <1> HIDE DEF next
  <1>7. JobOrdered(next)
    BY <1>1, <1>2, <1>4, <1>5, <1>6 DEF JobOrdered, Enables, Pulls
  <1>8. \A c \in Browsers, q \in Parts : jobs'[c][q] = jobs[c][q] \/ JobOrdered(jobs'[c][q])
    BY <1>1, <1>5, <1>7, GoneOrdered
  <1> QED
    BY <1>8, OrderKept DEF Read, historyVars

LEMMA PullOrdered ==
  ASSUME Typed, Ordered, ~replaced, NEW b \in Browsers, NEW p \in Parts,
         PullUnchanged(b, p) \/ PullCannotOpen(b, p) \/ PullApplies(b, p)
  PROVE  Ordered'
  <1> DEFINE job == jobs[b][p]
  <1>1. job \in Jobs /\ JobOrdered(job) /\ job.at = "pull"
    BY JobSpace DEF Ordered, PullUnchanged, PullCannotOpen, PullApplies, At
  <1>2. /\ job.key \in Keys /\ job.revision \in Nat /\ job.remote.revision \in Nat
    BY <1>1, JobTypes, ValueTypes
  <1>3. /\ Ends(b, p) /\ UNCHANGED <<server, member, replaced>>
    BY DEF PullUnchanged, PullCannotOpen, PullApplies, historyVars
  <1>4. \A c \in Browsers, q \in Parts : jobs'[c][q] = jobs[c][q] \/ JobOrdered(jobs'[c][q])
    BY <1>3, EndedOrdered
  <1>5. \A c \in Browsers : sync'[c] = sync[c] \/ StateOrdered(sync'[c])
    <2>1. CASE PullUnchanged(b, p)
      <3>1. StateOrdered(Enabled(job.key, job.revision))
        BY <1>1, <1>2, StateTypes DEF JobOrdered, Enables, StateOrdered, Pulls
      <3> QED
        BY <2>1, <3>1, StoredOrdered DEF PullUnchanged, Stores
    <2>2. CASE PullCannotOpen(b, p)
      BY <2>2 DEF PullCannotOpen
    <2>3. CASE PullApplies(b, p)
      <3>1. job.remote.revision # 0
        BY <1>2, <2>3 DEF PullApplies, NothingNewer
      <3>2. StateOrdered(Enabled(job.key, job.remote.revision))
        BY <1>1, <1>2, <3>1, StateTypes DEF JobOrdered, Enables, StateOrdered, RemoteOK
      <3> QED
        BY <2>3, <3>2, StoredOrdered DEF PullApplies, Stores
    <2> QED
      BY <2>1, <2>2, <2>3
  <1> QED
    BY <1>3, <1>4, <1>5, OrderKept

LEMMA WriteOrdered ==
  ASSUME Typed, Ordered, ~replaced, NEW b \in Browsers, NEW p \in Parts, Write(b, p)
  PROVE  Ordered'
  <1> DEFINE job == jobs[b][p]
             following == job.revision + 1
             next == [job EXCEPT !.at = "settle", !.revision = following]
  <1>1. job \in Jobs /\ JobOrdered(job) /\ job.remote.revision \in Nat
    BY JobSpace, JobTypes, ValueTypes DEF Ordered
  <1>2. UNCHANGED <<member, sync, replaced>>
    BY DEF Write, historyVars
  <1>3. CASE Takes(job)
    <2>1. Puts(job) /\ Goes(b, p, next)
      BY <1>3 DEF Write
    <2>2. following \in Nat /\ following # 0 /\ following = server'[Home].revision
      BY <1>1, <1>3, <2>1, JobTypes, PutOrder
    <2>3. RemoteOK(job.remote)'
      <3>1. RemoteOK(job.remote)
        BY <1>1 DEF JobOrdered, Enables
      <3>2. \A value : RemoteOK(value) /\ value.revision \in Nat
                         => value.revision <= server'[Home].revision
                            /\ (value.revision = server'[Home].revision => value = server'[Home])
        BY <1>1, <1>3, <2>1, PutOrder DEF RemoteOK
      <3>4. jobs'[b][p].remote = job.remote
        BY <2>1, <1>1, JobSpace DEF Goes, Jobs
      <3> QED
        BY <1>1, <3>1, <3>2, <3>4 DEF RemoteOK
    <2> HIDE DEF following
    <2>4. /\ next \in Jobs /\ next.workspace = job.workspace /\ next.remote = job.remote
          /\ next.revision = following /\ next.at = "settle"
      BY <1>1, <2>2 DEF Jobs
    <2> HIDE DEF next
    <2>5. \A c \in Browsers, q \in Parts :
            jobs'[c][q] = IF c = b /\ q = p THEN next ELSE jobs[c][q]
      BY <2>1, <2>4, JobSpace, GoesTo
    <2>6. JobOrdered(jobs[b][p])'
      BY <1>1, <2>2, <2>3, <2>4, <2>5, ServerTyped DEF JobOrdered, Enables, RemoteOK
    <2>7. \A c \in Browsers, q \in Parts :
            jobs'[c][q] = jobs[c][q] \/ JobOrdered(jobs[c][q])'
      BY <2>5, <2>6
    <2> QED
      BY <1>1, <1>2, <1>3, <2>1, <2>7, PutOrdered
  <1>4. CASE ~Takes(job)
    BY <1>2, <1>4, EndedOrdered, OrderKept DEF Write
  <1> QED
    BY <1>3, <1>4

LEMMA SettleOrdered ==
  ASSUME Typed, Ordered, ~replaced, NEW b \in Browsers, NEW p \in Parts, Settle(b, p)
  PROVE  Ordered'
  <1> DEFINE job == jobs[b][p]
             next == [job EXCEPT !.at = "arm"]
  <1>1. job \in Jobs /\ JobOrdered(job) /\ job.at = "settle"
    BY JobSpace DEF Ordered, Settle, At
  <1>2. job.key \in Keys /\ job.revision \in Nat
    BY <1>1, JobTypes
  <1>3. UNCHANGED <<server, member, replaced>>
    BY DEF Settle
  <1>4. StateOrdered(Enabled(job.key, job.revision))
    BY <1>1, <1>2, StateTypes DEF JobOrdered, Enables, StateOrdered
  <1>5. \A c \in Browsers : sync'[c] = sync[c] \/ StateOrdered(sync'[c])
    BY <1>4, StoredOrdered DEF Settle, Stores
  <1>6. /\ next \in Jobs /\ next.at = "arm" /\ next.workspace = job.workspace
        /\ next.remote = job.remote /\ next.revision = job.revision
    BY <1>1 DEF Jobs
  <1>7. \A c \in Browsers, q \in Parts : jobs'[c][q] = jobs[c][q] \/ JobOrdered(jobs'[c][q])
    <2>1. CASE Goes(b, p, next)
      <3> HIDE DEF next
      <3>1. JobOrdered(next)
        BY <1>1, <1>6 DEF JobOrdered, Enables, Pulls
      <3> QED
        BY <1>6, <2>1, <3>1, GoneOrdered
    <2>2. CASE Ends(b, p)
      BY <2>2, EndedOrdered
    <2> QED
      BY <2>1, <2>2 DEF Settle
  <1> QED
    BY <1>3, <1>5, <1>7, OrderKept

(* A job that begins with the stored state.                                *)
LEMMA BeginOrdered ==
  ASSUME Typed, Ordered, ~replaced, NEW b \in Browsers, NEW job \in Jobs,
         job.remote = NoValue, job.workspace = member[b].workspace,
         job.revision = sync[b].revision, sync[b].on,
         job.at = "write" \/ (job.at = "read" /\ job.key = sync[b].key)
  PROVE  JobOrdered(job)
  <1>1. sync[b].key.salt # 0
    BY DEF Typed, TypeOK
  <1>2. StateOrdered(sync[b]) /\ member[b].workspace = Home
    BY DEF Ordered
  <1>3. RemoteOK(NoValue)
    BY ServerTyped, ValueTypes DEF RemoteOK, Ordered
  <1> QED
    BY <1>1, <1>2, <1>3 DEF StateOrdered, JobOrdered, Enables, Pulls

LEMMA PullAskOrdered ==
  ASSUME Typed, Ordered, ~replaced, NEW b \in Browsers, NEW p \in Parts, NEW watched,
         PullAsks(b, p, watched)
  PROVE  \A c \in Browsers, q \in Parts :
           jobs'[c][q] = jobs[c][q] \/ JobOrdered(jobs'[c][q])
  <1>1. CASE ~sync[b].on \/ ~member[b].in
    BY <1>1, EndedOrdered DEF PullAsks
  <1>2. CASE ~(~sync[b].on \/ ~member[b].in)
    <2> DEFINE job == [IdleJob EXCEPT !.at = "read", !.key = sync[b].key,
                         !.revision = sync[b].revision, !.workspace = member[b].workspace]
    <2>1. Goes(b, p, job)
      BY <1>2 DEF PullAsks
    <2>2. sync[b].key \in Keys /\ sync[b].revision \in Nat /\ member[b].workspace \in Workspaces
      BY StateTypes DEF Typed, TypeOK
    <2>3. /\ job \in Jobs /\ job.remote = NoValue /\ job.workspace = member[b].workspace
          /\ job.revision = sync[b].revision /\ job.key = sync[b].key
          /\ job.at = "read"
      BY <2>2, JobTypes DEF Jobs
    <2> HIDE DEF job
    <2>4. JobOrdered(job) /\ sync[b].on
      BY <1>2, <2>3, BeginOrdered
    <2> QED
      BY <2>1, <2>3, <2>4, GoneOrdered
  <1> QED
    BY <1>1, <1>2

LEMMA AskOrdered ==
  ASSUME Typed, Ordered, ~replaced, NEW b \in Browsers, AskPull(b) \/ Alarm(b) \/ Resume(b)
  PROVE  Ordered'
  <1>1. UNCHANGED <<server, member, replaced, sync>>
    BY DEF AskPull, Alarm, Resume
  <1>2. "sync" \in Parts /\ "quiet" \in Parts
    BY DEF Parts
  <1>3. \A c \in Browsers, q \in Parts : jobs'[c][q] = jobs[c][q] \/ JobOrdered(jobs'[c][q])
    <2>1. \/ \E p \in Parts : \E watched : PullAsks(b, p, watched)
          \/ Ends(b, "quiet")
      BY <1>2 DEF AskPull, Alarm, Resume
    <2> QED
      BY <1>2, <2>1, PullAskOrdered, EndedOrdered
  <1> QED
    BY <1>1, <1>3, OrderKept

LEMMA SaveOrdered ==
  ASSUME Typed, Ordered, ~replaced, NEW b \in Browsers, Save(b)
  PROVE  Ordered'
  <1> DEFINE next == [IdleJob EXCEPT !.at = "publish"]
  <1>1. Goes(b, "save", next) /\ "save" \in Parts /\ UNCHANGED <<server, member, replaced, sync>>
    BY DEF Save, Parts
  <1>2. /\ next \in Jobs /\ next.at = "publish" /\ next.workspace = Home
        /\ next.revision = 0 /\ next.remote = NoValue
    BY JobTypes DEF Jobs
  <1> HIDE DEF next
  <1>3. JobOrdered(next)
    BY <1>2, IdleOrdered
  <1> QED
    BY <1>1, <1>2, <1>3, GoneOrdered, OrderKept

LEMMA PublishOrdered ==
  ASSUME Typed, Ordered, ~replaced, NEW b \in Browsers, Publish(b)
  PROVE  Ordered'
  <1> DEFINE next == [IdleJob EXCEPT !.at = "write", !.key = sync[b].key,
                        !.revision = sync[b].revision, !.rules = rules[b],
                        !.workspace = member[b].workspace]
  <1>1. "save" \in Parts /\ UNCHANGED <<server, member, replaced, sync>>
    BY DEF Publish, Parts, historyVars
  <1>2. CASE sync[b].on /\ member[b].in
    <2>1. /\ sync[b].key \in Keys /\ sync[b].revision \in Nat
          /\ member[b].workspace \in Workspaces /\ rules[b] \in Nat
      BY StateTypes DEF Typed, TypeOK
    <2>2. /\ next \in Jobs /\ next.remote = NoValue /\ next.workspace = member[b].workspace
          /\ next.revision = sync[b].revision /\ next.at = "write"
      BY <2>1, JobTypes DEF Jobs
    <2>3. Goes(b, "save", next)
      BY <1>2 DEF Publish
    <2> HIDE DEF next
    <2>4. JobOrdered(next)
      BY <1>2, <2>2, BeginOrdered
    <2> QED
      BY <1>1, <2>2, <2>3, <2>4, GoneOrdered, OrderKept
  <1>3. CASE ~(sync[b].on /\ member[b].in)
    BY <1>1, <1>3, EndedOrdered, OrderKept DEF Publish
  <1> QED
    BY <1>2, <1>3

LEMMA EnableOrdered ==
  ASSUME Typed, Ordered, ~replaced, NEW b \in Browsers,
         (\E pass \in Passphrases : AskEnable(b, pass)) \/ EnableFirst(b)
  PROVE  Ordered'
  <1>1. "sync" \in Parts /\ UNCHANGED <<server, member, replaced, sync>>
    BY DEF AskEnable, EnableFirst, Parts, historyVars
  <1>2. CASE \E pass \in Passphrases : AskEnable(b, pass)
    <2> PICK pass \in Passphrases : AskEnable(b, pass)
      BY <1>2
    <2> DEFINE key == DeriveKey(pass, 0)
               next == [IdleJob EXCEPT !.at = "read", !.key = key,
                          !.workspace = member[b].workspace]
    <2>1. Goes(b, "sync", next)
      BY DEF AskEnable
    <2>2. key \in Keys /\ key.salt = 0 /\ member[b].workspace = Home
      BY KeyTypes DEF Ordered
    <2> HIDE DEF key
    <2>3. /\ next \in Jobs /\ next.at = "read" /\ next.key = key /\ next.revision = 0
          /\ next.remote = NoValue /\ next.workspace = Home
      BY <2>2, JobTypes, SyncAssumption DEF Jobs
    <2> HIDE DEF next
    <2>4. JobOrdered(next)
      BY <2>2, <2>3, ServerTyped, ValueTypes DEF JobOrdered, Enables, RemoteOK, Pulls, Ordered
    <2> QED
      BY <1>1, <2>1, <2>3, <2>4, GoneOrdered, OrderKept
  <1>3. CASE EnableFirst(b)
    <2> DEFINE job == jobs[b]["sync"]
               salt == salts + 1
               key == DeriveKey(job.key.pass, salt)
               next == [job EXCEPT !.at = "write", !.key = key, !.rules = rules[b]]
    <2>1. Goes(b, "sync", next)
      BY <1>3 DEF EnableFirst
    <2>2. job \in Jobs /\ JobOrdered(job)
      BY <1>1, JobSpace DEF Ordered
    <2>3. key \in Keys /\ rules[b] \in Nat
      <3>1. job.key.pass \in Passphrases \cup {NoPass}
        BY <2>2, JobTypes, KeyTypes
      <3>2. salt \in Nat
        BY DEF Typed, TypeOK
      <3>3. rules[b] \in Nat
        BY DEF Typed, TypeOK
      <3> HIDE DEF salt
      <3> QED
        BY <3>1, <3>2, <3>3, KeyTypes
    <2> HIDE DEF key
    <2>4. /\ next \in Jobs /\ next.at = "write" /\ next.revision = job.revision
          /\ next.remote = job.remote /\ next.workspace = job.workspace
      BY <2>2, <2>3 DEF Jobs
    <2> HIDE DEF next
    <2>5. JobOrdered(next)
      BY <2>2, <2>4 DEF JobOrdered, Enables, Pulls
    <2> QED
      BY <1>1, <2>1, <2>4, <2>5, GoneOrdered, OrderKept
  <1> QED
    BY <1>2, <1>3

LEMMA AdoptOrdered ==
  ASSUME Typed, Ordered, ~replaced, NEW b \in Browsers, EnableAdopts(b)
  PROVE  Ordered'
  <1> DEFINE job == jobs[b]["sync"]
             key == DeriveKey(job.key.pass, SaltOf(job.remote))
             next == [job EXCEPT !.at = "arm", !.key = key]
  <1>1. "sync" \in Parts /\ UNCHANGED <<server, member, replaced>>
    BY DEF EnableAdopts, Parts
  <1>2. job \in Jobs /\ JobOrdered(job) /\ job.remote.revision # 0
    BY <1>1, JobSpace DEF Ordered, EnableAdopts
  <1>3. key \in Keys /\ job.remote.revision \in Nat
    BY <1>2, JobTypes, ValueTypes, KeyTypes DEF SaltOf
  <1>4. CASE Opens(key, job.remote)
    <2>1. /\ sync' = [sync EXCEPT ![b] = Enabled(key, job.remote.revision)]
          /\ Goes(b, "sync", next)
      BY <1>4 DEF EnableAdopts
    <2> HIDE DEF key
    <2>2. /\ next \in Jobs /\ next.at = "arm" /\ next.revision = job.revision
          /\ next.remote = job.remote /\ next.workspace = job.workspace
      BY <1>2, <1>3 DEF Jobs
    <2>3. StateOrdered(Enabled(key, job.remote.revision))
      BY <1>2, <1>3, StateTypes DEF StateOrdered, JobOrdered, Enables, RemoteOK
    <2>4. \A c \in Browsers : sync'[c] = sync[c] \/ StateOrdered(sync'[c])
      BY <2>1, <2>3, StoredOrdered
    <2> HIDE DEF next
    <2>5. JobOrdered(next)
      BY <1>2, <2>2 DEF JobOrdered, Enables, Pulls
    <2>6. \A c \in Browsers, q \in Parts : jobs'[c][q] = jobs[c][q] \/ JobOrdered(jobs'[c][q])
      BY <1>1, <2>1, <2>2, <2>5, GoneOrdered
    <2> QED
      BY <1>1, <2>4, <2>6, OrderKept
  <1>5. CASE ~Opens(key, job.remote)
    BY <1>1, <1>5, EndedOrdered, OrderKept DEF EnableAdopts
  <1> QED
    BY <1>4, <1>5

LEMMA PageOrdered ==
  ASSUME Typed, Ordered, ~replaced, NEW b \in Browsers, Arm(b) \/ Disable(b) \/ Open(b)
  PROVE  Ordered'
  <1>1. "sync" \in Parts /\ UNCHANGED <<server, member, replaced>>
    BY DEF Arm, Disable, Open, Parts, historyVars
  <1>2. \A c \in Browsers : sync'[c] = sync[c] \/ StateOrdered(sync'[c])
    <2>1. StateOrdered(Off)
      BY StateTypes, ServerTyped DEF StateOrdered, Off
    <2> QED
      BY <2>1, StoredOrdered DEF Arm, Disable, Open, historyVars
  <1>3. \A c \in Browsers, q \in Parts : jobs'[c][q] = jobs[c][q] \/ JobOrdered(jobs'[c][q])
    BY <1>1, EndedOrdered DEF Arm, Disable, Open
  <1> QED
    BY <1>1, <1>2, <1>3, OrderKept

LEMMA FailsOrdered ==
  ASSUME Typed, Ordered, ~replaced, NEW b \in Browsers, NEW p \in Parts, RequestFails(b, p)
  PROVE  Ordered'
  <1> DEFINE job == jobs[b][p]
  <1>1. UNCHANGED <<member, sync, replaced>> /\ Ends(b, p)
    BY DEF RequestFails, historyVars
  <1>2. job \in Jobs /\ JobOrdered(job)
    BY JobSpace DEF Ordered
  <1>3. CASE UNCHANGED server
    BY <1>1, <1>3, EndedOrdered, OrderKept
  <1>4. CASE Takes(job) /\ Puts(job)
    <2>1. \A c \in Browsers, q \in Parts :
            jobs'[c][q] = IF c = b /\ q = p THEN IdleJob ELSE jobs[c][q]
      BY <1>1, JobSpace, EndsIn
    <2>2. server'[Home].revision \in Nat /\ server'[Home].revision # 0
      BY <1>2, <1>4, PutOrder, ServerTyped
    <2>3. JobOrdered(jobs[b][p])'
      BY <2>1, <2>2, JobTypes, ValueTypes DEF JobOrdered, Enables, RemoteOK, Pulls
    <2>4. \A c \in Browsers, q \in Parts :
            jobs'[c][q] = jobs[c][q] \/ JobOrdered(jobs[c][q])'
      BY <2>1, <2>3
    <2> QED
      BY <1>1, <1>2, <1>4, <2>4, PutOrdered
  <1> QED
    BY <1>3, <1>4 DEF RequestFails

LEMMA StopJobs ==
  ASSUME Typed, NEW b \in Browsers, Stops(b) \/ Restarts(b)
  PROVE  \A c \in Browsers, q \in Parts :
           \/ c # b /\ jobs'[c][q] = jobs[c][q]
           \/ /\ c = b /\ jobs'[c][q].at \in {"idle", "resume"}
              /\ jobs'[c][q].workspace = Home /\ jobs'[c][q].revision = 0
              /\ jobs'[c][q].remote = NoValue /\ jobs'[c][q].key = NoKey
  <1> DEFINE resume == [IdleJob EXCEPT !.at = "resume"]
  <1>1. /\ resume.at = "resume" /\ resume.workspace = Home /\ resume.revision = 0
        /\ resume.remote = NoValue /\ resume.key = NoKey
    BY DEF IdleJob
  <1>2. CASE Stops(b)
    BY <1>2, JobSpace, JobTypes DEF Stops
  <1>3. CASE Restarts(b)
    <2>1. jobs' = [jobs EXCEPT ![b] = [p \in Parts |->
                     IF p = "quiet" THEN resume ELSE IdleJob]]
      BY <1>3 DEF Restarts
    <2> HIDE DEF resume
    <2> QED
      BY <1>1, <2>1, JobSpace, JobTypes
  <1> QED
    BY <1>2, <1>3

LEMMA StopOrdered ==
  ASSUME Typed, Ordered, ~replaced, NEW b \in Browsers, Stops(b) \/ Restarts(b)
  PROVE  Ordered'
  <1>1. UNCHANGED <<server, member, sync, replaced>>
    BY DEF Stops, Restarts
  <1>2. \A c \in Browsers, q \in Parts : jobs'[c][q] = jobs[c][q] \/ JobOrdered(jobs'[c][q])
    BY StopJobs, IdleOrdered
  <1> QED
    BY <1>1, <1>2, OrderKept

LEMMA OnceReplaced == [Next]_vars /\ ~replaced' => ~replaced
  <1>1. ASSUME NEW b \in Browsers, Step(b) PROVE replaced' = replaced
    BY <1>1 DEF Step, JobStep, historyVars, Resume, Publish, EnableFirst, EnableAdopts, Arm,
       Read, PullUnchanged, PullCannotOpen, PullApplies, Write, Settle
  <1>2. ASSUME NEW b \in Browsers, User(b) \/ Alarm(b) PROVE replaced' = replaced
    BY <1>2 DEF User, Alarm, Save, Disable, AskPull, Open, AskEnable, historyVars
  <1>3. ASSUME NEW b \in Browsers, Failure(b) PROVE replaced' = replaced
    BY <1>3 DEF Failure, RequestFails, Stops, Restarts, Leaves, historyVars
  <1>4. ASSUME NEW b \in Browsers, NEW w \in Workspaces, Joins(b, w), ~replaced'
        PROVE  ~replaced
    BY <1>4 DEF Joins
  <1>5. ASSUME NEW w \in Workspaces, Cleared(w) PROVE replaced'
    BY <1>5 DEF Cleared
  <1> QED
    BY <1>1, <1>2, <1>3, <1>4, <1>5 DEF Next, vars, historyVars

THEOREM NextOrdered == Typed /\ Ordered /\ [Next]_vars => Ordered'
  <1> SUFFICES ASSUME Typed, Ordered, [Next]_vars, ~replaced' PROVE Ordered'
    BY DEF Ordered
  <1>1. ~replaced
    BY OnceReplaced
  <1>2. CASE UNCHANGED vars
    BY <1>1, <1>2, OrderKept DEF vars, historyVars
  <1>3. ASSUME NEW b \in Browsers, Step(b) \/ Alarm(b) PROVE Ordered'
    BY <1>1, <1>3, AskOrdered, PublishOrdered, EnableOrdered, AdoptOrdered, PageOrdered,
       ReadOrdered, PullOrdered, WriteOrdered, SettleOrdered DEF Step, JobStep
  <1>4. ASSUME NEW b \in Browsers, User(b) PROVE Ordered'
    BY <1>1, <1>4, AskOrdered, SaveOrdered, EnableOrdered, PageOrdered DEF User
  <1>5. ASSUME NEW b \in Browsers, Failure(b) PROVE Ordered'
    <2>1. CASE Leaves(b)
      <3>1. \A c \in Browsers : member'[c].workspace = member[c].workspace
        BY <2>1 DEF Leaves, Typed, TypeOK
      <3> QED
        BY <1>1, <2>1, <3>1, OrderKept DEF Leaves, historyVars
    <2> QED
      BY <1>1, <1>5, <2>1, FailsOrdered, StopOrdered DEF Failure
  <1>6. ASSUME NEW b \in Browsers, NEW w \in Workspaces, Joins(b, w) PROVE Ordered'
    <2>1. w = member[b].workspace
      BY <1>6 DEF Joins
    <2>2. \A c \in Browsers : member'[c].workspace = member[c].workspace
      BY <1>6, <2>1 DEF Joins, Typed, TypeOK
    <2>3. replaced' = replaced
      BY <1>6, <2>1 DEF Joins, Typed, TypeOK
    <2>4. server' = server /\ sync' = sync /\ jobs' = jobs
      BY <1>6 DEF Joins
    <2> QED
      BY <1>1, <2>2, <2>3, <2>4, OrderKept
  <1>7. ASSUME NEW w \in Workspaces, Cleared(w) PROVE Ordered'
    BY <1>7 DEF Cleared
  <1> QED
    BY <1>2, <1>3, <1>4, <1>5, <1>6, <1>7 DEF Next

-----------------------------------------------------------------------------
(* Agreement: whoever is at the server's revision follows its rules        *)

(* The server and the rules stay; what is stored or goes on agrees.        *)
LEMMA AgreeKept ==
  ASSUME Agreement, ~replaced, ~late, UNCHANGED <<server, rules, knows>>,
         \A c \in Browsers : sync'[c] = sync[c] \/ StateAgrees(c, sync'[c]),
         \A c \in Browsers, q \in Parts :
           jobs'[c][q] = jobs[c][q] \/ JobAgrees(c, jobs'[c][q])
  PROVE  Agreement'
  <1>1. \A c \in Browsers : StateAgrees(c, sync'[c])
    BY DEF Agreement
  <1>2. \A c \in Browsers, q \in Parts : JobAgrees(c, jobs'[c][q])
    BY DEF Agreement
  <1>3. \A c \in Browsers : StateAgrees(c, sync[c])'
    BY <1>1 DEF StateAgrees, Agrees, Known, Opens
  <1>4. \A c \in Browsers, q \in Parts : JobAgrees(c, jobs[c][q])'
    BY <1>2 DEF JobAgrees, Pulls, Agrees, WriteAgrees, Known, Opens
  <1> QED
    BY <1>3, <1>4 DEF Agreement

LEMMA NothingAgreed ==
  ASSUME NEW b, NEW job, job.at \notin {"read", "pull", "settle", "write"}
  PROVE  JobAgrees(b, job)
  BY DEF JobAgrees, Pulls

LEMMA GoneAgrees ==
  ASSUME Typed, NEW b \in Browsers, NEW p \in Parts, NEW job \in Jobs, Goes(b, p, job),
         JobAgrees(b, job)
  PROVE  \A c \in Browsers, q \in Parts :
           jobs'[c][q] = jobs[c][q] \/ JobAgrees(c, jobs'[c][q])
  BY JobSpace, GoesTo

LEMMA EndedAgrees ==
  ASSUME Typed, NEW b \in Browsers, NEW p \in Parts, Ends(b, p)
  PROVE  \A c \in Browsers, q \in Parts :
           jobs'[c][q] = jobs[c][q] \/ JobAgrees(c, jobs'[c][q])
  BY GoneAgrees, NothingAgreed, JobTypes DEF Ends

LEMMA StoredAgrees ==
  ASSUME Typed, NEW b \in Browsers, NEW state, StateAgrees(b, state),
         sync' = [sync EXCEPT ![b] = state]
  PROVE  \A c \in Browsers : sync'[c] = sync[c] \/ StateAgrees(c, sync'[c])
  BY DEF Typed, TypeOK

(* Rules are made from themselves.                                         *)
LEMMA SelfKnown == Typed => \A n \in Texts : n \in Known(n)
  BY DEF Typed, TypeOK, Texts, Known

LEMMA ReadAgrees ==
  ASSUME Typed, Agreement, ~replaced, ~late, NEW b \in Browsers, NEW p \in Parts, Read(b, p)
  PROVE  Agreement'
  <1> DEFINE job == jobs[b][p]
             value == server[job.workspace]
             at == IF job.key.salt = 0 THEN "enable" ELSE "pull"
             next == [job EXCEPT !.remote = value, !.at = at]
  <1>1. Goes(b, p, next) /\ job.at = "read"
    BY DEF Read, At
  <1>2. job \in Jobs /\ JobAgrees(b, job)
    BY JobSpace DEF Agreement
  <1>3. value \in Values
    BY <1>2, JobTypes DEF Typed, TypeOK
  <1>4. at \in {"enable", "pull"} /\ (at = "pull" => job.key.salt # 0)
    OBVIOUS
  <1> HIDE DEF at, value
  <1>5. /\ next \in Jobs /\ next.at = at /\ next.key = job.key
        /\ next.revision = job.revision
    BY <1>2, <1>3, <1>4 DEF Jobs
  <1> HIDE DEF next
  <1>6. JobAgrees(b, next)
    BY <1>1, <1>2, <1>4, <1>5 DEF JobAgrees, Pulls
  <1>7. \A c \in Browsers, q \in Parts :
          jobs'[c][q] = jobs[c][q] \/ JobAgrees(c, jobs'[c][q])
    BY <1>1, <1>5, <1>6, GoneAgrees
  <1> QED
    BY <1>7, AgreeKept DEF Read, historyVars

LEMMA PullKeepsAgreement ==
  ASSUME Typed, Agreement, ~replaced, ~late, NEW b \in Browsers, NEW p \in Parts,
         PullUnchanged(b, p) \/ PullCannotOpen(b, p)
  PROVE  Agreement'
  <1> DEFINE job == jobs[b][p]
  <1>1. job \in Jobs /\ JobAgrees(b, job) /\ job.at = "pull"
    BY JobSpace DEF Agreement, PullUnchanged, PullCannotOpen, At
  <1>2. job.key \in Keys /\ job.revision \in Nat
    BY <1>1, JobTypes
  <1>3. Ends(b, p) /\ UNCHANGED <<server, rules, knows>>
    BY DEF PullUnchanged, PullCannotOpen, historyVars
  <1>4. StateAgrees(b, Enabled(job.key, job.revision))
    BY <1>1, <1>2, StateTypes DEF StateAgrees, JobAgrees, Pulls
  <1>5. \A c \in Browsers : sync'[c] = sync[c] \/ StateAgrees(c, sync'[c])
    BY <1>4, StoredAgrees DEF PullUnchanged, PullCannotOpen, Stores
  <1> QED
    BY <1>3, <1>5, EndedAgrees, AgreeKept

LEMMA SettleAgrees ==
  ASSUME Typed, Agreement, ~replaced, ~late, NEW b \in Browsers, NEW p \in Parts, Settle(b, p)
  PROVE  Agreement'
  <1> DEFINE job == jobs[b][p]
             next == [job EXCEPT !.at = "arm"]
  <1>1. job \in Jobs /\ JobAgrees(b, job) /\ job.at = "settle"
    BY JobSpace DEF Agreement, Settle, At
  <1>2. job.key \in Keys /\ job.revision \in Nat
    BY <1>1, JobTypes
  <1>3. StateAgrees(b, Enabled(job.key, job.revision))
    BY <1>1, <1>2, StateTypes DEF StateAgrees, JobAgrees
  <1>4. \A c \in Browsers : sync'[c] = sync[c] \/ StateAgrees(c, sync'[c])
    BY <1>3, StoredAgrees DEF Settle, Stores
  <1>5. next \in Jobs /\ next.at = "arm"
    BY <1>1 DEF Jobs
  <1>6. \A c \in Browsers, q \in Parts :
          jobs'[c][q] = jobs[c][q] \/ JobAgrees(c, jobs'[c][q])
    <2>1. CASE Goes(b, p, next)
      <3> HIDE DEF next
      <3> QED
        BY <1>5, <2>1, NothingAgreed, GoneAgrees
    <2>2. CASE Ends(b, p)
      BY <2>2, EndedAgrees
    <2> QED
      BY <2>1, <2>2 DEF Settle
  <1> QED
    BY <1>4, <1>6, AgreeKept DEF Settle

(* A job that begins with the stored state agrees as that does.            *)
LEMMA PullAskAgrees ==
  ASSUME Typed, Agreement, ~replaced, ~late, NEW b \in Browsers, NEW p \in Parts,
         NEW watched, PullAsks(b, p, watched)
  PROVE  \A c \in Browsers, q \in Parts :
           jobs'[c][q] = jobs[c][q] \/ JobAgrees(c, jobs'[c][q])
  <1>1. CASE ~sync[b].on \/ ~member[b].in
    BY <1>1, EndedAgrees DEF PullAsks
  <1>2. CASE ~(~sync[b].on \/ ~member[b].in)
    <2> DEFINE job == [IdleJob EXCEPT !.at = "read", !.key = sync[b].key,
                         !.revision = sync[b].revision, !.workspace = member[b].workspace]
    <2>1. Goes(b, p, job)
      BY <1>2 DEF PullAsks
    <2>2. sync[b].key \in Keys /\ sync[b].revision \in Nat /\ member[b].workspace \in Workspaces
      BY StateTypes DEF Typed, TypeOK
    <2>3. /\ job \in Jobs /\ job.revision = sync[b].revision /\ job.key = sync[b].key
          /\ job.at = "read"
      BY <2>2, JobTypes DEF Jobs
    <2> HIDE DEF job
    <2>4. JobAgrees(b, job)
      BY <1>2, <2>3 DEF Agreement, StateAgrees, JobAgrees
    <2> QED
      BY <2>1, <2>3, <2>4, GoneAgrees
  <1> QED
    BY <1>1, <1>2

LEMMA AskAgrees ==
  ASSUME Typed, Agreement, ~replaced, ~late, NEW b \in Browsers,
         AskPull(b) \/ Alarm(b) \/ Resume(b)
  PROVE  Agreement'
  <1>1. UNCHANGED <<server, rules, knows, sync>>
    BY DEF AskPull, Alarm, Resume
  <1>2. "sync" \in Parts /\ "quiet" \in Parts
    BY DEF Parts
  <1>3. \/ \E p \in Parts : \E watched : PullAsks(b, p, watched)
        \/ Ends(b, "quiet")
    BY <1>2 DEF AskPull, Alarm, Resume
  <1>4. \A c \in Browsers, q \in Parts :
          jobs'[c][q] = jobs[c][q] \/ JobAgrees(c, jobs'[c][q])
    BY <1>2, <1>3, PullAskAgrees, EndedAgrees
  <1> QED
    BY <1>1, <1>4, AgreeKept

LEMMA PublishAgrees ==
  ASSUME Typed, Agreement, ~replaced, ~late, NEW b \in Browsers, Publish(b)
  PROVE  Agreement'
  <1> DEFINE next == [IdleJob EXCEPT !.at = "write", !.key = sync[b].key,
                        !.revision = sync[b].revision, !.rules = rules[b],
                        !.workspace = member[b].workspace]
  <1>1. "save" \in Parts /\ UNCHANGED <<server, rules, knows, sync>>
    BY DEF Publish, Parts, historyVars
  <1>2. CASE sync[b].on /\ member[b].in
    <2>1. /\ sync[b].key \in Keys /\ sync[b].revision \in Nat
          /\ member[b].workspace \in Workspaces /\ rules[b] \in Nat /\ rules[b] \in Texts
      BY StateTypes DEF Typed, TypeOK, Texts
    <2>2. /\ next \in Jobs /\ next.revision = sync[b].revision /\ next.at = "write"
          /\ next.rules = rules[b] /\ next.key = sync[b].key
      BY <2>1, JobTypes DEF Jobs
    <2>3. Goes(b, "save", next)
      BY <1>2 DEF Publish
    <2> HIDE DEF next
    <2>4. rules[b] \in Known(rules[b])
      BY <2>1, SelfKnown
    <2>5. JobAgrees(b, next)
      BY <1>2, <2>2, <2>4
         DEF Agreement, StateAgrees, JobAgrees, Pulls, WriteAgrees, Agrees
    <2> QED
      BY <1>1, <2>2, <2>3, <2>5, GoneAgrees, AgreeKept
  <1>3. CASE ~(sync[b].on /\ member[b].in)
    BY <1>1, <1>3, EndedAgrees, AgreeKept DEF Publish
  <1> QED
    BY <1>2, <1>3

LEMMA EnableAgrees ==
  ASSUME Typed, Ordered, Agreement, ~replaced, ~late, NEW b \in Browsers,
         (\E pass \in Passphrases : AskEnable(b, pass)) \/ EnableFirst(b)
  PROVE  Agreement'
  <1>1. "sync" \in Parts /\ UNCHANGED <<server, rules, knows, sync>>
    BY DEF AskEnable, EnableFirst, Parts, historyVars
  <1>2. CASE \E pass \in Passphrases : AskEnable(b, pass)
    <2> PICK pass \in Passphrases : AskEnable(b, pass)
      BY <1>2
    <2> DEFINE key == DeriveKey(pass, 0)
               next == [IdleJob EXCEPT !.at = "read", !.key = key,
                          !.workspace = member[b].workspace]
    <2>1. Goes(b, "sync", next)
      BY DEF AskEnable
    <2>2. key \in Keys /\ key.salt = 0 /\ member[b].workspace \in Workspaces
      BY KeyTypes DEF Typed, TypeOK
    <2> HIDE DEF key
    <2>3. next \in Jobs /\ next.at = "read" /\ next.key = key
      BY <2>2, JobTypes, SyncAssumption DEF Jobs
    <2> HIDE DEF next
    <2>4. JobAgrees(b, next)
      BY <2>2, <2>3 DEF JobAgrees, Pulls
    <2> QED
      BY <1>1, <2>1, <2>3, <2>4, GoneAgrees, AgreeKept
  <1>3. CASE EnableFirst(b)
    <2> DEFINE job == jobs[b]["sync"]
               salt == salts + 1
               key == DeriveKey(job.key.pass, salt)
               next == [job EXCEPT !.at = "write", !.key = key, !.rules = rules[b]]
    <2>1. Goes(b, "sync", next)
      BY <1>3 DEF EnableFirst
    <2>2. job \in Jobs /\ job.revision = 0
      BY <1>1, <1>3, JobSpace DEF Ordered, JobOrdered, Enables, EnableFirst, At
    <2>3. key \in Keys /\ rules[b] \in Nat /\ rules[b] \in Texts
      <3>1. job.key.pass \in Passphrases \cup {NoPass}
        BY <2>2, JobTypes, KeyTypes
      <3>2. salt \in Nat
        BY DEF Typed, TypeOK
      <3>3. rules[b] \in Nat /\ rules[b] \in Texts
        BY DEF Typed, TypeOK, Texts
      <3> HIDE DEF salt
      <3> QED
        BY <3>1, <3>2, <3>3, KeyTypes
    <2> HIDE DEF key
    <2>4. /\ next \in Jobs /\ next.at = "write" /\ next.revision = 0
          /\ next.rules = rules[b]
      BY <2>2, <2>3 DEF Jobs
    <2> HIDE DEF next
    <2>5. rules[b] \in Known(rules[b])
      BY <2>3, SelfKnown
    <2>6. JobAgrees(b, next)
      BY <2>4, <2>5 DEF JobAgrees, Pulls, WriteAgrees
    <2> QED
      BY <1>1, <2>1, <2>4, <2>6, GoneAgrees, AgreeKept
  <1> QED
    BY <1>2, <1>3

LEMMA PageAgrees ==
  ASSUME Typed, Agreement, ~replaced, ~late, NEW b \in Browsers,
         Arm(b) \/ Disable(b) \/ Open(b)
  PROVE  Agreement'
  <1>1. "sync" \in Parts /\ UNCHANGED <<server, rules, knows>>
    BY DEF Arm, Disable, Open, Parts, historyVars
  <1>2. \A c \in Browsers : sync'[c] = sync[c] \/ StateAgrees(c, sync'[c])
    <2>1. StateAgrees(b, Off)
      BY DEF StateAgrees, Off
    <2> QED
      BY <2>1, StoredAgrees DEF Arm, Disable, Open, historyVars
  <1>3. \A c \in Browsers, q \in Parts :
          jobs'[c][q] = jobs[c][q] \/ JobAgrees(c, jobs'[c][q])
    BY <1>1, EndedAgrees DEF Arm, Disable, Open
  <1> QED
    BY <1>1, <1>2, <1>3, AgreeKept

LEMMA StopAgrees ==
  ASSUME Typed, Agreement, ~replaced, ~late, NEW b \in Browsers, Stops(b) \/ Restarts(b)
  PROVE  Agreement'
  <1>1. UNCHANGED <<server, rules, knows, sync>>
    BY DEF Stops, Restarts
  <1>2. \A c \in Browsers, q \in Parts :
          jobs'[c][q] = jobs[c][q] \/ JobAgrees(c, jobs'[c][q])
    BY StopJobs, NothingAgreed
  <1> QED
    BY <1>1, <1>2, AgreeKept

(* A value is applied: no part that is under way holds a later one.        *)
LEMMA AppliedAgrees ==
  ASSUME Typed, Agreement, ~replaced, ~late, ~late', NEW b \in Browsers,
         NEW value \in Values, RemoteOK(value), ValueOK(value), ComesLate(b, value),
         rules' = [rules EXCEPT ![b] = value.rules], UNCHANGED <<server, knows>>,
         NEW key \in Keys, Opens(key, value),
         sync' = [sync EXCEPT ![b] = Enabled(key, value.revision)],
         \A c \in Browsers, q \in Parts :
           \/ jobs'[c][q] = jobs[c][q]
           \/ jobs'[c][q].at \notin {"read", "pull", "settle", "write"}
  PROVE  Agreement'
  <1>1. /\ value.revision \in Nat /\ value.rules \in Texts
        /\ server[Home].revision \in Nat
    BY ValueTypes, ServerTyped DEF ValueOK
  <1>2. value.revision = server[Home].revision =>
          value = server[Home] /\ server[Home].rules \in Known(value.rules)
    BY <1>1, SelfKnown DEF RemoteOK
  <1>3. rules'[b] = value.rules /\ \A c \in Browsers : c # b => rules'[c] = rules[c]
    BY DEF Typed, TypeOK
  <1>4. ASSUME NEW c \in Browsers PROVE StateAgrees(c, sync[c])'
    <2>1. CASE c = b
      <3>1. sync'[b] = Enabled(key, value.revision)
        BY DEF Typed, TypeOK
      <3>2. sync'[b].key = key /\ sync'[b].revision = value.revision
        BY <1>1, <3>1, StateTypes
      <3> QED
        BY <1>2, <1>3, <2>1, <3>2 DEF StateAgrees, Agrees, Opens, Known
    <2>2. CASE c # b
      <3>1. sync'[c] = sync[c] /\ StateAgrees(c, sync[c])
        BY <2>2 DEF Typed, TypeOK, Agreement
      <3> QED
        BY <1>3, <2>2, <3>1 DEF StateAgrees, Agrees, Opens, Known
    <2> QED
      BY <2>1, <2>2
  <1>5. ASSUME NEW c \in Browsers, NEW q \in Parts PROVE JobAgrees(c, jobs[c][q])'
    <2>1. CASE jobs'[c][q] # jobs[c][q]
      BY <2>1 DEF JobAgrees, Pulls
    <2>2. CASE jobs'[c][q] = jobs[c][q] /\ c # b
      <3>1. JobAgrees(c, jobs[c][q])
        BY DEF Agreement
      <3> QED
        BY <1>3, <2>2, <3>1 DEF JobAgrees, Pulls, Agrees, WriteAgrees, Opens, Known
    <2>3. CASE jobs'[c][q] = jobs[c][q] /\ c = b
      <3> DEFINE job == jobs[b][q]
      <3>1. JobAgrees(b, job) /\ job \in Jobs /\ job.revision \in Nat
        BY JobSpace, JobTypes DEF Agreement
      <3>2. /\ job.at = "write" => ~(job.revision >= value.revision)
            /\ job.at \in {"read", "pull", "settle"} => ~(job.revision > value.revision)
        BY DEF ComesLate, At
      <3>3. job.at = "write" => job.revision # server[Home].revision
        BY <1>1, <3>1, <3>2 DEF RemoteOK
      <3>4. job.at \in {"read", "pull", "settle"} /\ job.revision = server[Home].revision
              => server[Home].rules \in Known(value.rules)
        BY <1>1, <1>2, <3>1, <3>2 DEF RemoteOK
      <3>5. jobs'[b][q] = job
        BY <2>3
      <3>6. (job.at = "write" => WriteAgrees(b, jobs[b][q])')
        BY <3>3, <3>5 DEF WriteAgrees
      <3>7. Pulls(job) \/ job.at = "settle" => Agrees(b, jobs[b][q].key, jobs[b][q].revision)'
        BY <1>3, <3>1, <3>4, <3>5 DEF JobAgrees, Pulls, Agrees, Opens, Known
      <3> HIDE DEF job
      <3>8. JobAgrees(b, jobs[b][q])'
        BY <3>5, <3>6, <3>7 DEF JobAgrees, Pulls
      <3> QED
        BY <2>3, <3>8
    <2> QED
      BY <2>1, <2>2, <2>3
  <1> QED
    BY <1>4, <1>5 DEF Agreement

LEMMA PullApplyAgrees ==
  ASSUME Typed, Ordered, Agreement, ~replaced, ~late, ~late',
         NEW b \in Browsers, NEW p \in Parts, PullApplies(b, p)
  PROVE  Agreement'
  <1> DEFINE job == jobs[b][p]
  <1>1. job \in Jobs /\ JobOrdered(job) /\ JobOK(job)
    BY JobSpace DEF Ordered, Typed
  <1>2. job.remote \in Values /\ job.key \in Keys
    BY <1>1, JobTypes
  <1>3. RemoteOK(job.remote) /\ ValueOK(job.remote)
    BY <1>1 DEF JobOrdered, JobOK
  <1>4. /\ Opens(job.key, job.remote) /\ ComesLate(b, job.remote) /\ Ends(b, p)
        /\ rules' = [rules EXCEPT ![b] = job.remote.rules]
        /\ sync' = [sync EXCEPT ![b] = Enabled(job.key, job.remote.revision)]
        /\ UNCHANGED <<server, knows>>
    BY DEF PullApplies, Stores
  <1>5. \A c \in Browsers, q \in Parts :
           \/ jobs'[c][q] = jobs[c][q]
           \/ jobs'[c][q].at \notin {"read", "pull", "settle", "write"}
    BY <1>4, JobSpace, EndsIn, JobTypes
  <1> HIDE DEF job
  <1> QED
    BY <1>2, <1>3, <1>4, <1>5, AppliedAgrees

LEMMA AdoptAgrees ==
  ASSUME Typed, Ordered, Agreement, ~replaced, ~late, ~late', NEW b \in Browsers,
         EnableAdopts(b)
  PROVE  Agreement'
  <1> DEFINE job == jobs[b]["sync"]
             key == DeriveKey(job.key.pass, SaltOf(job.remote))
             next == [job EXCEPT !.at = "arm", !.key = key]
  <1>1. "sync" \in Parts /\ UNCHANGED <<server, knows>>
    BY DEF EnableAdopts, Parts
  <1>2. job \in Jobs /\ JobOrdered(job) /\ JobOK(job)
    BY <1>1, JobSpace DEF Ordered, Typed
  <1>3. job.remote \in Values /\ key \in Keys
    BY <1>2, JobTypes, ValueTypes, KeyTypes DEF SaltOf
  <1>4. RemoteOK(job.remote) /\ ValueOK(job.remote)
    BY <1>2 DEF JobOrdered, JobOK
  <1>5. CASE Opens(key, job.remote)
    <2>1. /\ sync' = [sync EXCEPT ![b] = Enabled(key, job.remote.revision)]
          /\ rules' = [rules EXCEPT ![b] = job.remote.rules]
          /\ ComesLate(b, job.remote) /\ Goes(b, "sync", next)
      BY <1>5 DEF EnableAdopts
    <2> HIDE DEF key
    <2>2. next \in Jobs /\ next.at = "arm"
      BY <1>2, <1>3 DEF Jobs
    <2> HIDE DEF next
    <2>3. \A c \in Browsers, q \in Parts :
             \/ jobs'[c][q] = jobs[c][q]
             \/ jobs'[c][q].at \notin {"read", "pull", "settle", "write"}
      BY <1>1, <2>1, <2>2, JobSpace, GoesTo
    <2> HIDE DEF job
    <2> QED
      BY <1>1, <1>3, <1>4, <1>5, <2>1, <2>3, AppliedAgrees
  <1>6. CASE ~Opens(key, job.remote)
    BY <1>1, <1>6, EndedAgrees, AgreeKept DEF EnableAdopts
  <1> QED
    BY <1>5, <1>6

(* Saved rules are made from those they replace, or override them knowing  *)
(* nothing, and then count as made from all.                               *)
LEMMA SaveAgrees ==
  ASSUME Typed, Agreement, ~replaced, ~late, NEW b \in Browsers, Save(b)
  PROVE  Agreement'
  <1> DEFINE new == Len(knows) + 1
             next == [IdleJob EXCEPT !.at = "publish"]
  <1>1. Goes(b, "save", next) /\ "save" \in Parts /\ UNCHANGED <<server, sync>>
    BY DEF Save, Parts
  <1>2. next \in Jobs /\ next.at = "publish"
    BY JobTypes DEF Jobs
  <1> HIDE DEF next
  <1>3. \A c \in Browsers, q \in Parts :
          jobs'[c][q] = jobs[c][q] \/ jobs'[c][q].at = "publish"
    BY <1>1, <1>2, JobSpace, GoesTo
  <1>4. Len(knows) \in Nat /\ Texts = 0..Len(knows)
    BY DEF Typed, TypeOK, Texts
  <1>5. \A n \in Texts : Known(n)' = Known(n)
    <2>1. \A n \in 1..Len(knows) : knows'[n] = knows[n]
      BY SaveKnows
    <2> QED
      BY <1>4, <2>1 DEF Known
  <1>6. \A c \in Browsers : rules[c] \in Texts
    BY DEF Typed, TypeOK, Texts
  <1>7. \A n \in Texts : \A c \in Browsers : n \in Known(rules[c]) => n \in Known(rules[c])'
    <2> SUFFICES ASSUME NEW n \in Texts, NEW c \in Browsers, n \in Known(rules[c])
                 PROVE  n \in Known(rules[c])'
      OBVIOUS
    <2>1. CASE c # b
      <3>1. rules'[c] = rules[c]
        BY <2>1, SaveKnows
      <3> QED
        BY <1>5, <1>6, <3>1 DEF Known
    <2>2. CASE c = b
      <3>1. rules'[b] = new /\ new # 0
        BY <1>4, SaveKnows
      <3>2. n \in knows'[new]
        BY <2>2, SaveKnows
      <3> QED
        BY <2>2, <3>1, <3>2 DEF Known
    <2> QED
      BY <2>1, <2>2
  <1>8. server[Home].rules \in Texts
    BY ServerTyped
  <1>9. ASSUME NEW c \in Browsers PROVE StateAgrees(c, sync[c])'
    <2>1. StateAgrees(c, sync[c])
      BY DEF Agreement
    <2> QED
      BY <1>1, <1>7, <1>8, <2>1 DEF StateAgrees, Agrees, Opens
  <1>10. ASSUME NEW c \in Browsers, NEW q \in Parts PROVE JobAgrees(c, jobs[c][q])'
    <2>1. CASE jobs'[c][q] # jobs[c][q]
      BY <1>3, <2>1 DEF JobAgrees, Pulls
    <2>2. CASE jobs'[c][q] = jobs[c][q]
      <3>1. JobAgrees(c, jobs[c][q]) /\ jobs[c][q].rules \in Texts
        BY DEF Agreement, Typed, JobOK
      <3>3. server[Home].rules \in Known(jobs[c][q].rules)
              => (server[Home].rules \in Known(jobs[c][q].rules))'
        BY <1>1, <1>5, <2>2, <3>1 DEF Known
      <3> QED
        BY <1>1, <1>7, <1>8, <2>2, <3>1, <3>3
           DEF JobAgrees, Pulls, Agrees, WriteAgrees, Opens
    <2> QED
      BY <2>1, <2>2
  <1> QED
    BY <1>9, <1>10 DEF Agreement

(* A new value: everything else is of an earlier revision.                 *)
LEMMA PutAgrees ==
  ASSUME Typed, Ordered, Agreement, ~replaced, ~late,
         NEW b \in Browsers, NEW p \in Parts, At(b, p, "write"),
         Takes(jobs[b][p]), Puts(jobs[b][p]), UNCHANGED <<sync, rules, knows>>,
         \A c \in Browsers, q \in Parts :
           \/ ~(c = b /\ q = p) /\ jobs'[c][q] = jobs[c][q]
           \/ /\ c = b /\ q = p
              /\ \/ jobs'[c][q].at = "idle"
                 \/ jobs'[c][q].at = "settle" /\ jobs'[c][q].key = jobs[b][p].key
  PROVE  Agreement'
  <1> DEFINE job == jobs[b][p]
  <1>1. job \in Jobs /\ JobOrdered(job) /\ WriteAgrees(b, job) /\ job.at = "write"
    BY JobSpace DEF Ordered, Agreement, JobAgrees, At
  <1>2. /\ job.revision = server[Home].revision /\ server[Home].revision \in Nat
        /\ server'[Home].revision = server[Home].revision + 1
        /\ server'[Home].rules = job.rules /\ server'[Home].key = job.key
    BY <1>1, PutOrder, ServerTyped
  <1>3. ASSUME NEW c \in Browsers PROVE StateAgrees(c, sync[c])'
    <2>1. sync[c].revision \in Nat /\ sync[c].revision <= server[Home].revision
      BY StateTypes DEF Typed, TypeOK, Ordered, StateOrdered
    <2> QED
      BY <1>2, <2>1 DEF StateAgrees, Agrees
  <1>4. ASSUME NEW c \in Browsers, NEW q \in Parts PROVE JobAgrees(c, jobs[c][q])'
    <2>1. CASE jobs'[c][q] = jobs[c][q] /\ ~(c = b /\ q = p)
      <3>1. jobs[c][q].revision \in Nat /\ jobs[c][q].revision <= server[Home].revision
        BY JobSpace, JobTypes DEF Ordered, JobOrdered
      <3> QED
        BY <1>2, <2>1, <3>1 DEF JobAgrees, Agrees, WriteAgrees
    <2>2. CASE c = b /\ q = p
      <3>1. job.rules \in Known(rules[b])
        BY <1>1, <1>2 DEF WriteAgrees
      <3>3. server'[Home].rules \in Known(rules[b])'
        BY <1>2, <3>1 DEF Known
      <3> HIDE DEF job
      <3>4. \/ jobs'[b][p].at = "idle"
            \/ jobs'[b][p].at = "settle" /\ jobs'[b][p].key = job.key
        BY <2>2 DEF job
      <3> QED
        BY <1>2, <2>2, <3>3, <3>4 DEF JobAgrees, Pulls, Agrees, Opens
    <2> QED
      BY <2>1, <2>2
  <1> QED
    BY <1>3, <1>4 DEF Agreement

LEMMA WriteKeepsAgreement ==
  ASSUME Typed, Ordered, Agreement, ~replaced, ~late,
         NEW b \in Browsers, NEW p \in Parts, Write(b, p)
  PROVE  Agreement'
  <1> DEFINE job == jobs[b][p]
             following == job.revision + 1
             next == [job EXCEPT !.at = "settle", !.revision = following]
  <1>1. job \in Jobs /\ job.revision \in Nat /\ At(b, p, "write")
    BY JobSpace, JobTypes DEF Write
  <1>2. UNCHANGED <<sync, rules, knows>>
    BY DEF Write, historyVars
  <1>3. CASE Takes(job)
    <2>1. Puts(job) /\ Goes(b, p, next)
      BY <1>3 DEF Write
    <2>2. following \in Nat
      BY <1>1
    <2> HIDE DEF following
    <2>3. next \in Jobs /\ next.at = "settle" /\ next.key = job.key
      BY <1>1, <2>2 DEF Jobs
    <2> HIDE DEF next
    <2>4. \A c \in Browsers, q \in Parts :
            jobs'[c][q] = IF c = b /\ q = p THEN next ELSE jobs[c][q]
      BY <2>1, <2>3, JobSpace, GoesTo
    <2>5. \A c \in Browsers, q \in Parts :
            \/ ~(c = b /\ q = p) /\ jobs'[c][q] = jobs[c][q]
            \/ /\ c = b /\ q = p
               /\ \/ jobs'[c][q].at = "idle"
                  \/ jobs'[c][q].at = "settle" /\ jobs'[c][q].key = jobs[b][p].key
      BY <2>3, <2>4
    <2> QED
      BY <1>1, <1>2, <1>3, <2>1, <2>5, PutAgrees
  <1>4. CASE ~Takes(job)
    BY <1>2, <1>4, EndedAgrees, AgreeKept DEF Write
  <1> QED
    BY <1>3, <1>4

LEMMA FailsAgrees ==
  ASSUME Typed, Ordered, Agreement, ~replaced, ~late,
         NEW b \in Browsers, NEW p \in Parts, RequestFails(b, p)
  PROVE  Agreement'
  <1> DEFINE job == jobs[b][p]
  <1>1. UNCHANGED <<sync, rules, knows>> /\ Ends(b, p)
    BY DEF RequestFails, historyVars
  <1>2. CASE UNCHANGED server
    BY <1>1, <1>2, EndedAgrees, AgreeKept
  <1>3. CASE At(b, p, "write") /\ Takes(job) /\ Puts(job)
    <2>1. \A c \in Browsers, q \in Parts :
            jobs'[c][q] = IF c = b /\ q = p THEN IdleJob ELSE jobs[c][q]
      BY <1>1, JobSpace, EndsIn
    <2>2. \A c \in Browsers, q \in Parts :
            \/ ~(c = b /\ q = p) /\ jobs'[c][q] = jobs[c][q]
            \/ /\ c = b /\ q = p
               /\ \/ jobs'[c][q].at = "idle"
                  \/ jobs'[c][q].at = "settle" /\ jobs'[c][q].key = jobs[b][p].key
      BY <2>1, JobTypes
    <2> QED
      BY <1>1, <1>3, <2>2, PutAgrees
  <1> QED
    BY <1>2, <1>3 DEF RequestFails

(* The history of what came late is never taken back.                      *)
LEMMA OnceLate == [Next]_vars /\ ~late' => ~late
  <1>1. ASSUME NEW b \in Browsers, Step(b), ~late' PROVE ~late
    BY <1>1 DEF Step, JobStep, historyVars, Resume, Publish, EnableFirst, EnableAdopts, Arm,
       Read, PullUnchanged, PullCannotOpen, PullApplies, Write, Settle, ComesLate
  <1>2. ASSUME NEW b \in Browsers, User(b) \/ Alarm(b) PROVE late' = late
    BY <1>2 DEF User, Alarm, Save, Disable, AskPull, Open, AskEnable, historyVars
  <1>3. ASSUME NEW b \in Browsers, Failure(b) PROVE late' = late
    BY <1>3 DEF Failure, RequestFails, Stops, Restarts, Leaves, historyVars
  <1>4. ASSUME NEW b \in Browsers, NEW w \in Workspaces, Joins(b, w) PROVE late' = late
    BY <1>4 DEF Joins
  <1>5. ASSUME NEW w \in Workspaces, Cleared(w) PROVE late' = late
    BY <1>5 DEF Cleared
  <1> QED
    BY <1>1, <1>2, <1>3, <1>4, <1>5 DEF Next, vars, historyVars

THEOREM NextAgrees == Typed /\ Ordered /\ Agreement /\ [Next]_vars => Agreement'
  <1> SUFFICES ASSUME Typed, Ordered, Agreement, [Next]_vars, ~replaced', ~late'
               PROVE  Agreement'
    BY DEF Agreement
  <1>1. ~replaced /\ ~late
    BY OnceReplaced, OnceLate
  <1>2. CASE UNCHANGED vars
    BY <1>1, <1>2, AgreeKept DEF vars, historyVars
  <1>3. ASSUME NEW b \in Browsers, Step(b) \/ Alarm(b) PROVE Agreement'
    <2>1. CASE \E p \in Parts : JobStep(b, p)
      BY <1>1, <2>1, ReadAgrees, PullKeepsAgreement, PullApplyAgrees, WriteKeepsAgreement,
         SettleAgrees DEF JobStep
    <2> QED
      BY <1>1, <1>3, <2>1, AskAgrees, PublishAgrees, EnableAgrees, AdoptAgrees, PageAgrees
         DEF Step
  <1>4. ASSUME NEW b \in Browsers, User(b) PROVE Agreement'
    BY <1>1, <1>4, AskAgrees, SaveAgrees, EnableAgrees, PageAgrees DEF User
  <1>5. ASSUME NEW b \in Browsers, Failure(b) PROVE Agreement'
    <2>1. CASE Leaves(b)
      BY <1>1, <2>1, AgreeKept DEF Leaves, historyVars
    <2> QED
      BY <1>1, <1>5, <2>1, FailsAgrees, StopAgrees DEF Failure
  <1>6. ASSUME NEW b \in Browsers, NEW w \in Workspaces, Joins(b, w) PROVE Agreement'
    BY <1>1, <1>6, AgreeKept DEF Joins
  <1>7. ASSUME NEW w \in Workspaces, Cleared(w) PROVE Agreement'
    BY <1>7 DEF Cleared
  <1> QED
    BY <1>2, <1>3, <1>4, <1>5, <1>6, <1>7 DEF Next

LEMMA InitAgrees == Init => Ordered /\ Agreement
  <1> SUFFICES ASSUME Init PROVE Ordered /\ Agreement
    OBVIOUS
  <1>1. server[Home] = NoValue /\ NoValue.revision = 0
    BY SyncAssumption, ValueTypes DEF Init
  <1>2. \A b \in Browsers : /\ member[b].workspace = Home /\ sync[b] = Off /\ ~Off.on
                            /\ Off.revision = 0
    BY DEF Init, Off
  <1>3. \A b \in Browsers, p \in Parts : jobs[b][p] = IdleJob
    BY DEF Init
  <1>4. Ordered
    BY <1>1, <1>2, <1>3, JobTypes
       DEF Ordered, StateOrdered, JobOrdered, RemoteOK, Pulls, Enables
  <1>5. Agreement
    BY <1>2, <1>3, JobTypes DEF Agreement, StateAgrees, JobAgrees, Pulls
  <1> QED
    BY <1>4, <1>5

(* The three parts of the invariant hold together.                         *)
THEOREM SharedInvariant == Spec => [](Typed /\ Ordered /\ Agreement)
  <1>1. Typed /\ Ordered /\ Agreement /\ [Next]_vars => (Typed /\ Ordered /\ Agreement)'
    BY NextTyped, NextOrdered, NextAgrees
  <1> QED
    BY InitTyped, InitAgrees, <1>1, PTL DEF Spec

(* A browser at the server's revision has the key of the server's rules,   *)
(* and those rules or edits of them (pull, push, enable), as long as no    *)
(* value is applied late and the workspace stays what it was.              *)
THEOREM SharedRulesFollow == Spec => []UpToDateFollows
  <1>1. Ordered /\ Agreement => UpToDateFollows
    BY DEF Ordered, Agreement, StateAgrees, Agrees, UpToDateFollows
  <1> QED
    BY SharedInvariant, <1>1, PTL

(* A value is put by a write alone, which follows what it replaces.        *)
LEMMA WhoPuts ==
  ASSUME [Next]_vars, ~replaced', server' # server
  PROVE  /\ UNCHANGED knows
         /\ \E b \in Browsers, p \in Parts :
              At(b, p, "write") /\ Takes(jobs[b][p]) /\ Puts(jobs[b][p])
  <1>1. ASSUME NEW b \in Browsers, Step(b) \/ Alarm(b)
        PROVE  \E p \in Parts : Write(b, p)
    BY <1>1 DEF Step, Alarm, JobStep, historyVars, Resume, Publish, EnableFirst,
       EnableAdopts, Arm, Read, PullUnchanged, PullCannotOpen, PullApplies, Settle
  <1>2. ASSUME NEW b \in Browsers, User(b) PROVE FALSE
    BY <1>2 DEF User, Save, Disable, AskPull, Open, AskEnable, historyVars
  <1>3. ASSUME NEW b \in Browsers, Failure(b) PROVE \E p \in Parts : RequestFails(b, p)
    BY <1>3 DEF Failure, Stops, Restarts, Leaves, historyVars
  <1>4. ASSUME NEW b \in Browsers, NEW w \in Workspaces, Joins(b, w) PROVE FALSE
    BY <1>4 DEF Joins
  <1>5. ASSUME NEW w \in Workspaces, Cleared(w) PROVE FALSE
    BY <1>5 DEF Cleared
  <1>6. \E b \in Browsers, p \in Parts : Write(b, p) \/ RequestFails(b, p)
    BY <1>1, <1>2, <1>3, <1>4, <1>5 DEF Next, vars
  <1> QED
    BY <1>6 DEF Write, RequestFails, historyVars

(* The rules the server has are replaced only by rules made from them,     *)
(* sealed with their key, however pushes, pulls and failures overlap.      *)
THEOREM UpdatesNeverLost == Spec => NoLostUpdate
  <1> DEFINE Keeps ==
        \A w \in Workspaces :
          server[w].revision # 0 /\ server'[w] # server[w] /\ ~replaced' /\ ~late =>
            /\ server'[w].key = server[w].key
            /\ server[w].rules \in Known(server'[w].rules)
  <1>1. Typed /\ Ordered /\ Agreement /\ [Next]_vars => [Keeps]_vars
    <2> SUFFICES ASSUME Typed, Ordered, Agreement, [Next]_vars, NEW w \in Workspaces,
                        server[w].revision # 0, server'[w] # server[w], ~replaced', ~late
                 PROVE  /\ server'[w].key = server[w].key
                        /\ server[w].rules \in Known(server'[w].rules)
      OBVIOUS
    <2>1. ~replaced
      BY OnceReplaced
    <2>2. PICK b \in Browsers, p \in Parts :
            At(b, p, "write") /\ Takes(jobs[b][p]) /\ Puts(jobs[b][p])
      BY WhoPuts
    <2> DEFINE job == jobs[b][p]
    <2>3. job \in Jobs /\ JobOrdered(job) /\ WriteAgrees(b, job)
      BY <2>1, <2>2, JobSpace DEF Ordered, Agreement, JobAgrees, At
    <2>4. job.workspace = Home /\ w = Home
      BY <2>2, <2>3 DEF JobOrdered, Puts, Typed, TypeOK
    <2>5. /\ server'[Home].rules = job.rules /\ server'[Home].key = job.key
          /\ job.revision = server[Home].revision
      BY <2>1, <2>2, <2>3, PutOrder
    <2> QED
      BY <2>3, <2>4, <2>5 DEF WriteAgrees, Opens
  <1> QED
    BY SharedInvariant, <1>1, PTL DEF Spec, NoLostUpdate
=============================================================================
