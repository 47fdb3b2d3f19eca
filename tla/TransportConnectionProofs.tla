--------------------- MODULE TransportConnectionProofs ----------------------
(***************************************************************************)
(* For any number of attempts, tokens, requests and faults: one socket at  *)
(* most, a credential the relay accepts always kept, a stored state that   *)
(* says what the runtime is, and no connection left without its alarm.     *)
(***************************************************************************)
EXTENDS TransportConnection, TLAPS

USE DEF connectionVars, credentialVars, historyVars

AttemptsOK == attempts \in [Attempt -> AttemptRecord]
RuntimeOK == runtime \in RuntimeRecord
HistoryOK ==
  gaveUp \in BOOLEAN /\ swept \in BOOLEAN /\ clobbered \in BOOLEAN /\ crossed \in BOOLEAN
ConnectionShape ==
  /\ AttemptsOK /\ RuntimeOK /\ HistoryOK
  /\ alarms \in [reconnect : BOOLEAN, membership : BOOLEAN]
  /\ state \in {"not-configured", "offline", "connecting", "online"}
  /\ worker \in {"asleep", "booting", "running"} /\ refresh \in {"idle", "fetching"}
  /\ faults \in 0..MaxFaults
CredentialShape ==
  /\ record \in CredentialRecord
  /\ (record.pending = 0) <=> (record.phase = "none")
  /\ record.pending # 0 => record.pending # record.current
  /\ rotation \in [at : {"idle", "mark", "send"}, current : Token, pending : Token]
  /\ minted \in Token /\ valid \in Token
  /\ requests \subseteq [current : Token, pending : Token]

\* An open or closing socket is the runtime's, and the runtime's is not closed.
Attached == {"waiting", "promoting", "resuming", "publishing", "up"}
SocketOK ==
  \A a \in Attempt :
    /\ attempts[a].socket # "none" => Live(a) /\ attempts[a].at \in Attached
    /\ attempts[a].at \in {"waiting", "up"} => attempts[a].socket # "none"
OwnSocket == runtime.socket # NoAttempt => attempts[runtime.socket].socket # "none"
\* What is authenticated is the attempt that reached its end.
AuthOK ==
  /\ runtime.authenticated =>
       runtime.socket # NoAttempt /\ attempts[runtime.socket].at \in {"publishing", "up"}
  /\ \A a \in Attempt : attempts[a].at \in {"publishing", "up"}
                          /\ attempts[a].socket # "none" => runtime.authenticated
\* A retry the runtime remembers is of a connection that was lost.
Late == {"promoting", "resuming", "publishing"}
TimerOK ==
  runtime.timer => /\ runtime.current # NoAttempt /\ runtime.socket = NoAttempt
                   /\ attempts[runtime.current].at \in Late \cup {"idle"}
\* An attempt that lost its socket on its last steps has left a retry behind.
LostOK ==
  runtime.current # NoAttempt /\ runtime.socket = NoAttempt
    /\ attempts[runtime.current].at \in Late =>
      runtime.timer /\ (alarms.reconnect \/ swept)
\* All attempts in recovery leave it together.
RecoveryOK ==
  \A a \in Attempt : At(a, "recovering") /\ runtime.current # NoAttempt =>
                       At(runtime.current, "recovering")
\* No generation runs only after a stop.
HaltOK == worker = "running" /\ runtime.current = NoAttempt => gaveUp

Link == SocketOK /\ OwnSocket /\ AuthOK /\ TimerOK /\ LostOK /\ RecoveryOK /\ HaltOK
Told == OnlineIsBacked /\ OnlineIsTold /\ NeverStranded
Connected == ConnectionShape /\ Link /\ Told

-----------------------------------------------------------------------------
(* What the steps do to the attempts.                                      *)

Becomes(a, step, socket) ==
  /\ AttemptsOK'
  /\ attempts'[a].at = step /\ attempts'[a].socket = socket
  /\ \A b \in Attempt : b # a => attempts'[b] = attempts[b]

LEMMA IdleRecord ==
  ASSUME BoundAssumption
  PROVE  Idle \in AttemptRecord /\ Idle.at = "idle" /\ Idle.socket = "none"
  <1>1. 0 \in Token  BY DEF BoundAssumption, Token
  <1> QED  BY <1>1 DEF Idle, AttemptRecord, Steps

LEMMA SetRecord ==
  ASSUME AttemptsOK, NEW a \in Attempt, NEW r \in AttemptRecord,
         attempts' = [attempts EXCEPT ![a] = r]
  PROVE  Becomes(a, r.at, r.socket) /\ attempts'[a] = r
  BY DEF AttemptsOK, Becomes

LEMMA EndStep ==
  ASSUME BoundAssumption, AttemptsOK, NEW a \in Attempt,
         attempts' = [attempts EXCEPT ![a] = Idle]
  PROVE  Becomes(a, "idle", "none")
  <1>1. Idle \in AttemptRecord /\ Idle.at = "idle" /\ Idle.socket = "none"  BY IdleRecord
  <1> HIDE DEF Idle
  <1> QED  BY <1>1, SetRecord DEF Becomes

LEMMA ReachStep ==
  ASSUME AttemptsOK, NEW a \in Attempt, NEW step, step \in Steps, Reaches(a, step)
  PROVE  /\ Becomes(a, step, attempts[a].socket)
         /\ attempts'[a].token = attempts[a].token
         /\ attempts'[a].source = attempts[a].source
  <1> DEFINE r == [attempts[a] EXCEPT !.at = step]
  <1>1. attempts[a] \in AttemptRecord  BY DEF AttemptsOK
  <1>2. /\ r \in AttemptRecord /\ r.at = step /\ r.socket = attempts[a].socket
        /\ r.token = attempts[a].token /\ r.source = attempts[a].source
    BY <1>1 DEF AttemptRecord
  <1>3. attempts' = [attempts EXCEPT ![a] = r]  BY DEF Reaches
  <1> HIDE DEF r
  <1>4. Becomes(a, r.at, r.socket) /\ attempts'[a] = r  BY <1>2, <1>3, SetRecord
  <1> QED  BY <1>2, <1>4

LEMMA UnpluggedRecord ==
  ASSUME BoundAssumption, NEW r \in AttemptRecord
  PROVE  /\ Unplugged(r) \in AttemptRecord
         /\ Unplugged(r).socket = "none"
         /\ Unplugged(r).at = IF r.at \in {"waiting", "up"} THEN "idle" ELSE r.at
         /\ r.at \notin {"waiting", "up"} =>
              Unplugged(r).token = r.token /\ Unplugged(r).source = r.source
  <1>1. CASE r.at \in {"waiting", "up"}
    <2>1. Unplugged(r) = Idle  BY <1>1 DEF Unplugged
    <2>2. Idle \in AttemptRecord /\ Idle.at = "idle" /\ Idle.socket = "none"  BY IdleRecord
    <2> HIDE DEF Idle
    <2> QED  BY <1>1, <2>1, <2>2
  <1>2. CASE r.at \notin {"waiting", "up"}
    <2> DEFINE q == [r EXCEPT !.socket = "none"]
    <2>1. /\ q \in AttemptRecord /\ q.socket = "none" /\ q.at = r.at
          /\ q.token = r.token /\ q.source = r.source
      BY DEF AttemptRecord
    <2>2. Unplugged(r) = q  BY <1>2 DEF Unplugged
    <2> HIDE DEF q
    <2> QED  BY <1>2, <2>1, <2>2
  <1> QED  BY <1>1, <1>2

\* The attempt x, if it is one, has no socket any more.
Unplugs(as, x) ==
  /\ as \in [Attempt -> AttemptRecord]
  /\ \A b \in Attempt : b # x => as[b] = attempts[b]
  /\ x \in Attempt =>
       /\ as[x].socket = "none"
       /\ as[x].at = IF attempts[x].at \in {"waiting", "up"} THEN "idle" ELSE attempts[x].at
       /\ as[x].at = "promoting" => /\ as[x].token = attempts[x].token
                                    /\ as[x].source = attempts[x].source

LEMMA CloseUnplugs ==
  ASSUME BoundAssumption, AttemptsOK, NEW x \in Attempt
  PROVE  Unplugs(Close(attempts, x), x)
  <1> DEFINE r == Unplugged(attempts[x])
  <1>1. attempts[x] \in AttemptRecord  BY DEF AttemptsOK
  <1>2. /\ r \in AttemptRecord /\ r.socket = "none"
        /\ r.at = IF attempts[x].at \in {"waiting", "up"} THEN "idle" ELSE attempts[x].at
        /\ r.at = "promoting" => r.token = attempts[x].token /\ r.source = attempts[x].source
    <2>1. attempts[x].at \in {"waiting", "up"} => r.at = "idle"  BY <1>1, UnpluggedRecord
    <2> QED  BY <1>1, <2>1, UnpluggedRecord
  <1>3. Close(attempts, x) = [attempts EXCEPT ![x] = r]  BY DEF Close
  <1> HIDE DEF r
  <1> QED  BY <1>2, <1>3 DEF AttemptsOK, Unplugs

LEMMA CloseSocketUnplugs ==
  ASSUME BoundAssumption, AttemptAssumption, AttemptsOK, RuntimeOK
  PROVE  Unplugs(CloseSocket, runtime.socket)
  <1>1. runtime.socket \in Attempt \cup {NoAttempt}  BY DEF RuntimeOK, RuntimeRecord
  <1>2. CASE runtime.socket = NoAttempt
    BY <1>2 DEF CloseSocket, Unplugs, AttemptsOK, AttemptAssumption
  <1>3. CASE runtime.socket # NoAttempt  BY <1>1, <1>3, CloseUnplugs DEF CloseSocket
  <1> QED  BY <1>2, <1>3

-----------------------------------------------------------------------------
(* What the steps do to the runtime, and the invariant over a new          *)
(* generation.                                                             *)

LEMMA GenerationRecord ==
  ASSUME NEW a \in Attempt \cup {NoAttempt}, NEW prefer \in BOOLEAN
  PROVE  LET g == Generation(a, prefer) IN
         /\ g \in RuntimeRecord /\ g.current = a /\ g.socket = NoAttempt
         /\ g.authenticated = FALSE /\ g.timer = FALSE
  BY DEF Generation, RuntimeRecord

\* The runtime has just taken generation a, NoAttempt included.
Renewed(a) ==
  /\ RuntimeOK' /\ runtime'.current = a /\ runtime'.socket = NoAttempt
  /\ ~runtime'.authenticated /\ ~runtime'.timer

LEMMA RenewStep ==
  ASSUME RuntimeOK, NEW a \in Attempt \cup {NoAttempt}, NEW prefer \in BOOLEAN,
         runtime' = Generation(a, prefer)
  PROVE  Renewed(a)
  <1> DEFINE g == Generation(a, prefer)
  <1>1. /\ g \in RuntimeRecord /\ g.current = a /\ g.socket = NoAttempt
        /\ g.authenticated = FALSE /\ g.timer = FALSE
    BY GenerationRecord
  <1>2. runtime' = g  OBVIOUS
  <1> HIDE DEF g
  <1> QED  BY <1>1, <1>2 DEF Renewed, RuntimeOK

\* No attempt has a socket after the runtime closed its own.
LEMMA NoSocket ==
  ASSUME AttemptAssumption, AttemptsOK, SocketOK, NEW as, Unplugs(as, runtime.socket),
         NEW b \in Attempt
  PROVE  /\ as[b].socket = "none"
         /\ as[b].at \notin {"waiting", "up"}
         /\ as[b].at = attempts[b].at \/ as[b].at = "idle"
  <1>1. CASE b = runtime.socket  BY <1>1 DEF Unplugs
  <1>2. CASE b # runtime.socket
    <2>1. attempts[b].socket = "none"  BY <1>2 DEF SocketOK, Live
    <2> QED  BY <1>2, <2>1 DEF Unplugs, SocketOK
  <1> QED  BY <1>1, <1>2

LEMMA StartStep ==
  ASSUME BoundAssumption, AttemptAssumption, AttemptsOK, RuntimeOK, SocketOK,
         NEW a \in Attempt, NEW by, by \in {"boot", "page", "alarm", "resend"},
         StartConnection(a, by)
  PROVE  /\ AttemptsOK' /\ Renewed(a)
         /\ attempts'[a].at = "recovering" /\ attempts'[a].socket = "none"
         /\ \A b \in Attempt : b # a =>
              attempts'[b].socket = "none" /\ attempts'[b].at \notin {"waiting", "up"}
  <1> DEFINE r == [Idle EXCEPT !.at = "recovering", !.by = by]
             as == CloseSocket
  <1>1. r \in AttemptRecord /\ r.at = "recovering" /\ r.socket = "none"
    <2>1. 0 \in Token  BY DEF BoundAssumption, Token
    <2> QED  BY <2>1 DEF Idle, AttemptRecord, Steps
  <1>2. attempts' = [as EXCEPT ![a] = r]  BY DEF StartConnection
  <1>3. Unplugs(as, runtime.socket)  BY CloseSocketUnplugs
  <1>4. Renewed(a)
    <2>1. runtime.prefer \in BOOLEAN  BY DEF RuntimeOK, RuntimeRecord
    <2>2. runtime' = Generation(a, runtime.prefer)  BY DEF StartConnection
    <2> DEFINE p == runtime.prefer
    <2>3. p \in BOOLEAN /\ runtime' = Generation(a, p)  BY <2>1, <2>2
    <2> HIDE DEF p
    <2> QED  BY <2>3, RenewStep
  <1> HIDE DEF r, as
  <1>5. \A b \in Attempt : as[b].socket = "none" /\ as[b].at \notin {"waiting", "up"}
    BY <1>3, NoSocket
  <1>6. as \in [Attempt -> AttemptRecord]  BY <1>3 DEF Unplugs
  <1> QED  BY <1>1, <1>2, <1>4, <1>5, <1>6 DEF AttemptsOK

LEMMA StartKeepsLink ==
  ASSUME BoundAssumption, AttemptAssumption, AttemptsOK, RuntimeOK, SocketOK,
         NEW a \in Attempt, NEW by, by \in {"boot", "page", "alarm", "resend"},
         StartConnection(a, by)
  PROVE  Link' /\ AttemptsOK' /\ RuntimeOK' /\ InProgress' /\ ~runtime'.authenticated
         /\ runtime'.current = a /\ attempts'[a].at = "recovering"
  <1>1. /\ AttemptsOK' /\ Renewed(a)
        /\ attempts'[a].at = "recovering" /\ attempts'[a].socket = "none"
        /\ \A b \in Attempt : b # a =>
             attempts'[b].socket = "none" /\ attempts'[b].at \notin {"waiting", "up"}
    BY StartStep
  <1>2. a # NoAttempt  BY DEF AttemptAssumption
  <1>3. SocketOK' /\ OwnSocket' /\ AuthOK' /\ TimerOK'
    BY <1>1 DEF SocketOK, OwnSocket, AuthOK, TimerOK, Renewed
  <1>4. LostOK' /\ RecoveryOK' /\ HaltOK'
    BY <1>1, <1>2 DEF LostOK, RecoveryOK, HaltOK, Renewed, Late, At
  <1>5. InProgress'  BY <1>1, <1>2 DEF InProgress, Renewed
  <1> QED  BY <1>1, <1>3, <1>4, <1>5 DEF Link, Renewed

\* A stop: no attempt has a socket and none has the generation.
LEMMA HaltKeepsLink ==
  ASSUME AttemptAssumption, AttemptsOK, RuntimeOK, AttemptsOK', Renewed(NoAttempt),
         \A b \in Attempt : attempts'[b].socket = "none" /\ attempts'[b].at \notin {"waiting", "up"},
         gaveUp' \/ worker' # "running"
  PROVE  Link' /\ ~runtime'.authenticated /\ RuntimeOK'
  <1>1. SocketOK' /\ OwnSocket' /\ AuthOK' /\ TimerOK'
    BY DEF SocketOK, OwnSocket, AuthOK, TimerOK, Renewed
  <1>2. LostOK' /\ RecoveryOK' /\ HaltOK'
    BY DEF LostOK, RecoveryOK, HaltOK, Renewed
  <1> QED  BY <1>1, <1>2 DEF Link, Renewed

-----------------------------------------------------------------------------
(* Connected is kept by the steps of the worker and the callers.           *)

LEMMA FaultStep ==
  ASSUME BoundAssumption, faults \in 0..MaxFaults, Fault
  PROVE  faults' \in 0..MaxFaults
  BY DEF BoundAssumption, Fault

LEMMA ConnectedStarts ==
  ASSUME BoundAssumption, AttemptAssumption, Connected,
         NEW a \in Attempt, NEW by, by \in {"boot", "page", "alarm", "resend"},
         StartConnection(a, by), alarms' \in [reconnect : BOOLEAN, membership : BOOLEAN],
         state' = state, worker' \in {"asleep", "booting", "running"}, refresh' = refresh,
         faults' \in 0..MaxFaults
  PROVE  Connected'
  <1>0. AttemptsOK /\ RuntimeOK /\ SocketOK  BY DEF Connected, ConnectionShape, Link
  <1>1. /\ Link' /\ AttemptsOK' /\ RuntimeOK' /\ InProgress' /\ ~runtime'.authenticated
        /\ runtime'.current = a /\ attempts'[a].at = "recovering"
    BY <1>0, StartKeepsLink
  <1>2. HistoryOK'
    BY DEF StartConnection, Connected, ConnectionShape, HistoryOK
  <1>3. ConnectionShape'  BY <1>1, <1>2 DEF Connected, ConnectionShape
  <1>4. Told'
    BY <1>1 DEF Told, OnlineIsBacked, OnlineIsTold, NeverStranded, AttemptAssumption
  <1> QED  BY <1>1, <1>3, <1>4 DEF Connected

LEMMA CancelledAlarms ==
  ASSUME NEW al \in [reconnect : BOOLEAN, membership : BOOLEAN], RuntimeOK
  PROVE  CancelReconnect(al) \in [reconnect : BOOLEAN, membership : BOOLEAN]
  <1>1. (al.reconnect /\ ~runtime.timer) \in BOOLEAN  OBVIOUS
  <1> QED  BY <1>1 DEF CancelReconnect

LEMMA ConnectStep ==
  ASSUME BoundAssumption, AttemptAssumption, Connected,
         NEW a \in Attempt, Boot(a) \/ PageConnect(a) \/ EnsureAuthenticated(a)
  PROVE  Connected'
  <1>1. PICK by \in {"boot", "page", "alarm", "resend"} : Connect(a, by)
    BY DEF Boot, PageConnect, EnsureAuthenticated
  <1>2. StartConnection(a, by) /\ alarms' = CancelReconnect(alarms)  BY <1>1 DEF Connect
  <1>3. alarms' \in [reconnect : BOOLEAN, membership : BOOLEAN]
    BY <1>2, CancelledAlarms DEF Connected, ConnectionShape
  <1>4. faults' \in 0..MaxFaults
    BY FaultStep DEF Boot, PageConnect, EnsureAuthenticated, Connected, ConnectionShape
  <1>5. state' = state /\ refresh' = refresh /\ worker' \in {"asleep", "booting", "running"}
    BY DEF Boot, PageConnect, EnsureAuthenticated, Connected, ConnectionShape
  <1> QED  BY <1>2, <1>3, <1>4, <1>5, ConnectedStarts

LEMMA AlarmStep ==
  ASSUME BoundAssumption, AttemptAssumption, Connected, NEW a \in Attempt, AlarmFires(a)
  PROVE  Connected'
  <1>1. alarms' \in [reconnect : BOOLEAN, membership : BOOLEAN]
    BY DEF AlarmFires, Connected, ConnectionShape
  <1>2. faults' \in 0..MaxFaults
    BY FaultStep DEF AlarmFires, Connected, ConnectionShape
  <1>3. state' = state /\ refresh' = refresh /\ worker' = Woken
        /\ worker' \in {"asleep", "booting", "running"}
    BY DEF AlarmFires, Woken, Connected, ConnectionShape
  <1>4. CASE ~IsAuthenticated
    <2>1. StartConnection(a, "alarm")  BY <1>4 DEF AlarmFires
    <2> QED  BY <1>1, <1>2, <1>3, <2>1, ConnectedStarts
  <1>5. CASE IsAuthenticated
    <2>1. attempts' = attempts /\ gaveUp' = gaveUp /\ swept' = swept
          /\ clobbered' = clobbered /\ crossed' = crossed
          /\ runtime' = [runtime EXCEPT !.timer = FALSE]
      BY <1>5 DEF AlarmFires
    <2>2. /\ runtime' \in RuntimeRecord /\ runtime'.current = runtime.current
          /\ runtime'.socket = runtime.socket /\ runtime'.timer = FALSE
          /\ runtime'.authenticated = runtime.authenticated
      BY <2>1 DEF Connected, ConnectionShape, RuntimeOK, RuntimeRecord
    <2>3. runtime.authenticated /\ runtime.socket # NoAttempt  BY <1>5 DEF IsAuthenticated
    <2>4. Link /\ Told /\ ConnectionShape  BY DEF Connected
    <2>5. ConnectionShape'
      BY <1>1, <1>2, <1>3, <2>1, <2>2, <2>4
      DEF ConnectionShape, AttemptsOK, RuntimeOK, HistoryOK
    <2>6. SocketOK' /\ OwnSocket' /\ AuthOK' /\ TimerOK' /\ LostOK' /\ RecoveryOK'
      BY <2>1, <2>2, <2>3, <2>4
      DEF Link, SocketOK, OwnSocket, AuthOK, TimerOK, LostOK, RecoveryOK, Live, Current, At
    <2>7. runtime.current # NoAttempt
      BY <2>3, <2>4 DEF Link, OwnSocket, SocketOK, Live, Current, ConnectionShape, RuntimeOK,
                        RuntimeRecord, AttemptAssumption
    <2>8. HaltOK'  BY <2>2, <2>7 DEF HaltOK
    <2>9. Told'
      BY <1>3, <2>1, <2>2, <2>3, <2>4
      DEF Told, OnlineIsBacked, OnlineIsTold, NeverStranded, Woken
    <2> QED  BY <2>5, <2>6, <2>8, <2>9 DEF Connected, Link
  <1> QED  BY <1>4, <1>5

\* A stop that says so, or that ends the worker.
LEMMA ConnectedHalts ==
  ASSUME BoundAssumption, AttemptAssumption, Connected, AttemptsOK', Renewed(NoAttempt),
         \A b \in Attempt : attempts'[b].socket = "none" /\ attempts'[b].at \notin {"waiting", "up"},
         gaveUp' \/ worker' = "asleep", state' = "offline" \/ worker' = "asleep",
         alarms' \in [reconnect : BOOLEAN, membership : BOOLEAN],
         state' \in {"not-configured", "offline", "connecting", "online"},
         worker' \in {"asleep", "booting", "running"}, refresh' \in {"idle", "fetching"},
         faults' \in 0..MaxFaults, gaveUp' \in BOOLEAN,
         swept' = swept, clobbered' = clobbered, crossed' = crossed
  PROVE  Connected'
  <1>1. AttemptsOK /\ RuntimeOK /\ ConnectionShape  BY DEF Connected, ConnectionShape
  <1>2. Link' /\ ~runtime'.authenticated /\ RuntimeOK'  BY <1>1, HaltKeepsLink
  <1>3. ConnectionShape'  BY <1>1, <1>2 DEF ConnectionShape, HistoryOK
  <1>4. Told'  BY <1>2 DEF Told, OnlineIsBacked, OnlineIsTold, NeverStranded
  <1> QED  BY <1>2, <1>3, <1>4 DEF Connected

LEMMA StopStep ==
  ASSUME BoundAssumption, AttemptAssumption, Connected, StopRuntime
  PROVE  /\ AttemptsOK' /\ Renewed(NoAttempt) /\ gaveUp' /\ state' = "offline"
         /\ \A b \in Attempt : attempts'[b].socket = "none"
                                /\ attempts'[b].at \notin {"waiting", "up"}
  <1>0. AttemptsOK /\ RuntimeOK /\ SocketOK  BY DEF Connected, ConnectionShape, Link
  <1>1. attempts' = CloseSocket /\ gaveUp' /\ state' = "offline"
        /\ runtime' = Generation(NoAttempt, runtime.prefer)
    BY DEF StopRuntime
  <1>2. runtime.prefer \in BOOLEAN  BY <1>0 DEF RuntimeOK, RuntimeRecord
  <1>3. Renewed(NoAttempt)
    <2> DEFINE p == runtime.prefer
    <2>1. p \in BOOLEAN /\ runtime' = Generation(NoAttempt, p)  BY <1>1, <1>2
    <2> HIDE DEF p
    <2> QED  BY <1>0, <2>1, RenewStep
  <1>4. Unplugs(CloseSocket, runtime.socket)  BY <1>0, CloseSocketUnplugs
  <1> DEFINE as == CloseSocket
  <1>5. Unplugs(as, runtime.socket) /\ attempts' = as  BY <1>1, <1>4
  <1> HIDE DEF as
  <1>6. AttemptsOK'  BY <1>5 DEF Unplugs, AttemptsOK
  <1> QED  BY <1>0, <1>1, <1>3, <1>5, <1>6, NoSocket

LEMMA FailClosedStep ==
  ASSUME BoundAssumption, AttemptAssumption, Connected, FailClosed
  PROVE  Connected'
  <1>1. StopRuntime  BY DEF FailClosed
  <1>2. alarms' \in [reconnect : BOOLEAN, membership : BOOLEAN]
    BY CancelledAlarms DEF FailClosed, Connected, ConnectionShape
  <1>3. faults' \in 0..MaxFaults  BY FaultStep DEF FailClosed, Connected, ConnectionShape
  <1>4. /\ worker' = worker /\ refresh' = refresh /\ swept' = swept
        /\ clobbered' = clobbered /\ crossed' = crossed /\ gaveUp' = TRUE
    BY DEF FailClosed, StopRuntime
  <1>5. worker \in {"asleep", "booting", "running"} /\ refresh \in {"idle", "fetching"}
    BY DEF Connected, ConnectionShape
  <1> QED  BY <1>1, <1>2, <1>3, <1>4, <1>5, StopStep, ConnectedHalts

LEMMA InactiveStep ==
  ASSUME BoundAssumption, AttemptAssumption, Connected, Inactive
  PROVE  Connected'
  <1>1. StopRuntime  BY DEF Inactive
  <1>2. alarms' \in [reconnect : BOOLEAN, membership : BOOLEAN]
    <2> DEFINE al == CancelReconnect(alarms)
    <2>1. al \in [reconnect : BOOLEAN, membership : BOOLEAN]
      BY CancelledAlarms DEF Connected, ConnectionShape
    <2>2. alarms' = [al EXCEPT !.membership = FALSE]  BY DEF Inactive
    <2> HIDE DEF al
    <2> QED  BY <2>1, <2>2
  <1>3. faults' \in 0..MaxFaults  BY FaultStep DEF Inactive, Connected, ConnectionShape
  <1>4. /\ worker' = worker /\ refresh' = "idle" /\ swept' = swept
        /\ clobbered' = clobbered /\ crossed' = crossed /\ gaveUp' = TRUE
    BY DEF Inactive, StopRuntime
  <1>5. worker \in {"asleep", "booting", "running"}  BY DEF Connected, ConnectionShape
  <1> QED  BY <1>1, <1>2, <1>3, <1>4, <1>5, StopStep, ConnectedHalts

LEMMA UnloadStep ==
  ASSUME BoundAssumption, AttemptAssumption, Connected, Sleep \/ Crash
  PROVE  Connected'
  <1>1. Unloaded  BY DEF Sleep, Crash
  <1>2. faults' \in 0..MaxFaults
    BY FaultStep DEF Sleep, Crash, Connected, ConnectionShape
  <1>3. AttemptsOK' /\ \A b \in Attempt : attempts'[b].socket = "none"
                                           /\ attempts'[b].at \notin {"waiting", "up"}
    <2>1. Idle \in AttemptRecord /\ Idle.at = "idle" /\ Idle.socket = "none"  BY IdleRecord
    <2>2. attempts' = [b \in Attempt |-> Idle]  BY <1>1 DEF Unloaded
    <2> HIDE DEF Idle
    <2> QED  BY <2>1, <2>2 DEF AttemptsOK
  <1>4. Renewed(NoAttempt)
    BY <1>1, RenewStep DEF Unloaded, Connected, ConnectionShape
  <1>5. /\ worker' = "asleep" /\ refresh' = "idle" /\ alarms' = alarms /\ state' = state
        /\ gaveUp' = gaveUp /\ swept' = swept /\ clobbered' = clobbered /\ crossed' = crossed
    BY <1>1 DEF Unloaded
  <1>6. ConnectionShape  BY DEF Connected
  <1>7. /\ alarms \in [reconnect : BOOLEAN, membership : BOOLEAN] /\ gaveUp \in BOOLEAN
        /\ state \in {"not-configured", "offline", "connecting", "online"}
    BY <1>6 DEF ConnectionShape, HistoryOK
  <1> QED  BY <1>2, <1>3, <1>4, <1>5, <1>7, ConnectedHalts

-----------------------------------------------------------------------------
(* Connected is kept by the steps of an attempt before its socket.         *)

Early == {"loading", "checking", "opening"}

\* The attempts S go on, or end, before they have a socket.
Moves(S) ==
  /\ AttemptsOK'
  /\ \A b \in Attempt : b \notin S => attempts'[b] = attempts[b]
  /\ \A b \in Attempt : b \in S =>
       /\ attempts[b].at \in Early \cup {"recovering"}
       /\ attempts'[b].socket = "none" /\ attempts'[b].at \in Early \cup {"idle"}
  /\ \A b \in Attempt : At(b, "recovering") /\ runtime.current \in S => b \in S

SameLinks ==
  /\ RuntimeOK' /\ runtime'.current = runtime.current
  /\ runtime'.socket = runtime.socket /\ runtime'.authenticated = runtime.authenticated

LEMMA MovesKeepLink ==
  ASSUME AttemptAssumption, Link, AttemptsOK, RuntimeOK, NEW S, S \subseteq Attempt, Moves(S), SameLinks,
         runtime'.timer => runtime.timer \/ /\ runtime.current \in S
                                            /\ attempts'[runtime.current].at = "idle",
         runtime.timer => runtime'.timer,
         alarms.reconnect => alarms'.reconnect \/ runtime.socket # NoAttempt,
         worker' = "running" => worker = "running", gaveUp => gaveUp', swept => swept'
  PROVE  Link'
  <1>1. \A b \in Attempt : b \in S => attempts[b].socket = "none" /\ runtime.socket # b
    BY DEF Moves, Link, SocketOK, OwnSocket, Early, Attached, AttemptAssumption
  <1>2. runtime.socket \in Attempt \cup {NoAttempt} /\ runtime.current \in Attempt \cup {NoAttempt}
    BY DEF RuntimeOK, RuntimeRecord
  <1>3. SocketOK'
    BY <1>1 DEF SocketOK, Link, Moves, SameLinks, Live, Current, Early
  <1>4. OwnSocket'  BY <1>1, <1>2 DEF OwnSocket, Link, Moves, SameLinks
  <1>5. AuthOK'  BY <1>1, <1>2 DEF AuthOK, Link, Moves, SameLinks
  <1>6. runtime.current \in S /\ runtime.current # NoAttempt =>
          ~runtime.timer /\ runtime.socket = NoAttempt
    <2>1. HAVE runtime.current \in S /\ runtime.current # NoAttempt
    <2>2. attempts[runtime.current].at \in Early \cup {"recovering"}
      BY <1>2, <2>1 DEF Moves
    <2>3. ~runtime.timer  BY <2>2 DEF Link, TimerOK, Early, Late
    <2>4. runtime.socket = NoAttempt
      BY <1>1, <1>2, <2>1 DEF Link, OwnSocket, SocketOK, Live, Current
    <2> QED  BY <2>3, <2>4
  <1>7. TimerOK'
    BY <1>2, <1>6 DEF TimerOK, Link, Moves, SameLinks
  <1>8. LostOK'
    <2>1. ASSUME runtime.current # NoAttempt, runtime.socket = NoAttempt,
                 attempts'[runtime.current].at \in Late
          PROVE  runtime'.timer /\ (alarms'.reconnect \/ swept')
      <3>1. runtime.current \in Attempt /\ runtime.current \notin S
        BY <1>2, <2>1 DEF Moves, Early, Late
      <3>2. attempts[runtime.current].at \in Late  BY <2>1, <3>1 DEF Moves
      <3> QED  BY <2>1, <3>2 DEF LostOK, Link
    <2> QED  BY <2>1 DEF LostOK, SameLinks
  <1>9. RecoveryOK'
    BY <1>2 DEF RecoveryOK, Link, Moves, SameLinks, At, Early
  <1>10. HaltOK'  BY DEF HaltOK, Link, SameLinks
  <1> QED  BY <1>3, <1>4, <1>5, <1>7, <1>8, <1>9, <1>10 DEF Link

\* What is in progress is not touched by attempts that are not current.
LEMMA MovesKeepProgress ==
  ASSUME AttemptAssumption, RuntimeOK, NEW S, S \subseteq Attempt, Moves(S), SameLinks
  PROVE  /\ runtime.current \notin S => InProgress' = InProgress
         /\ runtime.current \in S => InProgress
  <1>1. runtime.current \in Attempt \cup {NoAttempt}  BY DEF RuntimeOK, RuntimeRecord
  <1>2. ASSUME runtime.current \notin S PROVE InProgress' = InProgress
    BY <1>1, <1>2 DEF InProgress, Moves, SameLinks
  <1>3. ASSUME runtime.current \in S PROVE InProgress
    BY <1>1, <1>3 DEF InProgress, Moves, AttemptAssumption, Early
  <1> QED  BY <1>2, <1>3

LEMMA MovesKeepTold ==
  ASSUME AttemptAssumption, Connected, NEW S, S \subseteq Attempt, Moves(S), SameLinks,
         worker' = worker, gaveUp => gaveUp', swept => swept', clobbered => clobbered',
         state' = "online" =>
           /\ state = "online"
           /\ runtime.current \in S => attempts'[runtime.current].at \in {"loading", "checking"},
         runtime.authenticated => state' = state \/ clobbered',
         alarms.reconnect => alarms'.reconnect \/ runtime.authenticated,
         runtime.current \in S /\ attempts'[runtime.current].at = "idle" =>
           alarms'.reconnect \/ gaveUp' \/ record'.current = 0,
         record.current = 0 /\ worker = "running" =>
           record'.current = 0 \/ InProgress' \/ gaveUp'
  PROVE  Told'
  <1>1. runtime.current \in Attempt \cup {NoAttempt}
    BY DEF Connected, ConnectionShape, RuntimeOK, RuntimeRecord
  <1>2. Told /\ Link  BY DEF Connected
  <1>3. OnlineIsBacked'
    <2>1. CASE runtime.current \in S
      BY <1>2, <2>1, AttemptAssumption DEF OnlineIsBacked, SameLinks, AttemptAssumption
    <2>2. CASE runtime.current \notin S
      BY <1>1, <1>2, <2>2 DEF Told, OnlineIsBacked, SameLinks, Moves
    <2> QED  BY <2>1, <2>2
  <1>4. OnlineIsTold'
    BY <1>2 DEF Told, OnlineIsTold, SameLinks
  <1>5. runtime.current \notin S => InProgress' = InProgress
    BY MovesKeepProgress DEF Connected, ConnectionShape
  <1>6. NeverStranded'
    <2>1. CASE runtime.current \in S
      <3>1. attempts'[runtime.current].at = "idle" \/ InProgress'
        BY <2>1 DEF InProgress, SameLinks, Moves, Early, AttemptAssumption
      <3>2. ~runtime.authenticated \/ runtime'.authenticated  BY DEF SameLinks
      <3> QED  BY <2>1, <3>1, <3>2 DEF NeverStranded
    <2>2. CASE runtime.current \notin S
      BY <1>2, <1>5, <2>2 DEF Told, NeverStranded, SameLinks
    <2> QED  BY <2>1, <2>2
  <1> QED  BY <1>3, <1>4, <1>6 DEF Told

\* One attempt alone.
LEMMA OneMove ==
  ASSUME AttemptAssumption, RecoveryOK, NEW a \in Attempt, attempts[a].at \in Early, NEW step,
         Becomes(a, step, "none"), step \in Early \cup {"idle"}
  PROVE  Moves({a}) /\ {a} \subseteq Attempt /\ attempts'[a].at = step
  <1>1. \A b \in Attempt : At(b, "recovering") /\ runtime.current \in {a} => b \in {a}
    BY DEF RecoveryOK, At, Early, AttemptAssumption
  <1> QED  BY <1>1 DEF Moves, Becomes

LEMMA WatchedAlarms ==
  ASSUME NEW a \in Attempt, NEW up \in BOOLEAN,
         alarms \in [reconnect : BOOLEAN, membership : BOOLEAN]
  PROVE  /\ Watched(a, up) \in [reconnect : BOOLEAN, membership : BOOLEAN]
         /\ Watched(a, up).reconnect = IF attempts[a].by = "resend" THEN alarms.reconnect
                                       ELSE ~up
  BY DEF Watched

LEMMA ReturnStep ==
  ASSUME BoundAssumption, Connected, NEW a \in Attempt, Return(a)
  PROVE  /\ Becomes(a, "idle", "none")
         /\ alarms' \in [reconnect : BOOLEAN, membership : BOOLEAN]
         /\ alarms.reconnect => alarms'.reconnect \/ IsAuthenticated
         /\ ~IsAuthenticated /\ attempts[a].by # "resend" => alarms'.reconnect
  <1>1. AttemptsOK /\ alarms \in [reconnect : BOOLEAN, membership : BOOLEAN]
    BY DEF Connected, ConnectionShape
  <1>2. Becomes(a, "idle", "none")  BY <1>1, EndStep DEF Return
  <1>3. IsAuthenticated \in BOOLEAN  
    BY DEF IsAuthenticated, Connected, ConnectionShape, RuntimeOK, RuntimeRecord
  <1> DEFINE up == IsAuthenticated
  <1>4. up \in BOOLEAN /\ alarms' = Watched(a, up) /\ (up <=> IsAuthenticated)
    BY <1>3 DEF Return
  <1> HIDE DEF up
  <1> QED  BY <1>1, <1>2, <1>4, WatchedAlarms

\* Nothing of the runtime changes.
LEMMA SameRuntime ==
  ASSUME Connected, UNCHANGED runtime
  PROVE  SameLinks /\ runtime'.timer = runtime.timer
  BY DEF Connected, ConnectionShape, RuntimeOK, SameLinks

LEMMA SupersededStep ==
  ASSUME BoundAssumption, AttemptAssumption, Connected, NEW a \in Attempt, Superseded(a)
  PROVE  Connected'
  <1>1. Return(a)  BY DEF Superseded
  <1>2. /\ Becomes(a, "idle", "none") /\ attempts[a].at \in Early
        /\ alarms' \in [reconnect : BOOLEAN, membership : BOOLEAN]
        /\ alarms.reconnect => alarms'.reconnect \/ IsAuthenticated
    BY <1>1, ReturnStep DEF Superseded, Early
  <1>3. Moves({a}) /\ {a} \subseteq Attempt
    BY <1>2, OneMove DEF Connected, Link
  <1>4. SameLinks /\ runtime'.timer = runtime.timer  BY SameRuntime DEF Superseded
  <1>5. UNCHANGED <<runtime, state, worker, refresh, record, faults, historyVars>>
        /\ runtime.current \notin {a}
    BY DEF Superseded, Current
  <1>6. ConnectionShape /\ Link  BY DEF Connected
  <1>7. ConnectionShape'
    BY <1>2, <1>5, <1>6 DEF ConnectionShape, RuntimeOK, HistoryOK, Becomes
  <1>8. Link'
    BY <1>2, <1>3, <1>4, <1>5, <1>6, MovesKeepLink DEF IsAuthenticated, ConnectionShape
  <1>9. Told'
    BY <1>2, <1>3, <1>4, <1>5, <1>6, MovesKeepTold DEF IsAuthenticated
  <1> QED  BY <1>7, <1>8, <1>9 DEF Connected

LEMMA LoadStep ==
  ASSUME BoundAssumption, AttemptAssumption, Connected, record \in CredentialRecord,
         NEW a \in Attempt, LoadCandidate(a)
  PROVE  /\ Becomes(a, "checking", "none")
         /\ attempts'[a].source = Candidate(runtime.prefer).source
         /\ attempts'[a].token = Candidate(runtime.prefer).token
  <1> DEFINE c == Candidate(runtime.prefer)
  <1>1. c.source \in {"current", "pending"} /\ c.token \in Token
    BY DEF Candidate, CredentialRecord
  <1>2. attempts' = [attempts EXCEPT ![a].at = "checking", ![a].source = c.source,
                                     ![a].token = c.token]
    BY DEF LoadCandidate
  <1>3. attempts \in [Attempt -> AttemptRecord] /\ attempts[a].socket = "none"
    BY DEF Connected, ConnectionShape, AttemptsOK, Link, SocketOK, LoadCandidate, At, Attached
  <1>4. Candidate(runtime.prefer) = c  OBVIOUS
  <1> HIDE DEF c
  <1>5. PICK src \in {"current", "pending"}, tok \in Token : c.source = src /\ c.token = tok
    BY <1>1
  <1> DEFINE r == [attempts[a] EXCEPT !.at = "checking", !.source = src, !.token = tok]
  <1>6. /\ r \in AttemptRecord /\ r.at = "checking" /\ r.socket = "none" /\ r.source = src
        /\ r.token = tok
    BY <1>3 DEF AttemptRecord, Steps
  <1>7. attempts' = [attempts EXCEPT ![a] = r]
    BY <1>2, <1>3, <1>5 DEF AttemptRecord
  <1> HIDE DEF r
  <1>8. Becomes(a, r.at, r.socket) /\ attempts'[a] = r
    BY <1>3, <1>6, <1>7, SetRecord DEF AttemptsOK
  <1> QED  BY <1>4, <1>5, <1>6, <1>8

\* One attempt moves on or ends, the runtime unchanged: what is left to show
\* is what the step does to the alarm and to the state.
LEMMA EarlyStep ==
  ASSUME BoundAssumption, AttemptAssumption, Connected, NEW a \in Attempt,
         attempts[a].at \in Early, NEW step, step \in Early \cup {"idle"},
         Becomes(a, step, "none"), UNCHANGED <<runtime, worker, refresh, record, crossed, swept>>,
         faults' \in 0..MaxFaults, gaveUp' \in BOOLEAN, clobbered' \in BOOLEAN,
         alarms' \in [reconnect : BOOLEAN, membership : BOOLEAN],
         state' \in {"not-configured", "offline", "connecting", "online"},
         gaveUp => gaveUp', clobbered => clobbered',
         state' = "online" => state = "online" /\ (Current(a) => step = "checking"),
         runtime.authenticated => state' = state \/ clobbered',
         alarms.reconnect => alarms'.reconnect \/ IsAuthenticated,
         Current(a) /\ step = "idle" => alarms'.reconnect \/ gaveUp' \/ record.current = 0
  PROVE  Connected'
  <1>1. ConnectionShape /\ Link  BY DEF Connected
  <1>2. Moves({a}) /\ {a} \subseteq Attempt /\ attempts'[a].at = step
    BY <1>1, OneMove DEF Link
  <1>3. SameLinks /\ runtime'.timer = runtime.timer  BY SameRuntime
  <1>4. ConnectionShape'
    BY <1>1 DEF ConnectionShape, RuntimeOK, HistoryOK, Becomes
  <1>5. Link'
    BY <1>1, <1>2, <1>3, MovesKeepLink DEF IsAuthenticated, ConnectionShape
  <1>6. Told'
    BY <1>1, <1>2, <1>3, MovesKeepTold DEF IsAuthenticated, Current
  <1> QED  BY <1>4, <1>5, <1>6 DEF Connected

LEMMA CandidateStep ==
  ASSUME BoundAssumption, AttemptAssumption, Connected, record \in CredentialRecord,
         NEW a \in Attempt, LoadCandidate(a)
  PROVE  Connected'
  <1>1. Becomes(a, "checking", "none")  BY LoadStep
  <1>2. attempts[a].at \in Early /\ UNCHANGED <<runtime, alarms, state, worker, refresh,
                                                record, faults, historyVars>>
    BY DEF LoadCandidate, At, Early
  <1>3. ConnectionShape  BY DEF Connected
  <1> QED  BY <1>1, <1>2, <1>3, EarlyStep DEF ConnectionShape, HistoryOK, Early

LEMMA EarlySocket ==
  ASSUME AttemptAssumption, Connected,
         NEW a \in Attempt, attempts[a].at \in Early \cup {"recovering"}
  PROVE  attempts[a].socket = "none" /\ runtime.socket # a
  BY DEF Connected, Link, SocketOK, OwnSocket, Early, Attached, ConnectionShape,
         RuntimeOK, RuntimeRecord, AttemptAssumption

LEMMA NotConfiguredStep ==
  ASSUME BoundAssumption, AttemptAssumption, Connected, NEW a \in Attempt, NotConfigured(a)
  PROVE  Connected'
  <1>1. Return(a)  BY DEF NotConfigured
  <1>2. /\ Becomes(a, "idle", "none")
        /\ alarms' \in [reconnect : BOOLEAN, membership : BOOLEAN]
        /\ alarms.reconnect => alarms'.reconnect \/ IsAuthenticated
    BY <1>1, ReturnStep
  <1>3. /\ attempts[a].at \in Early /\ record.current = 0 /\ state' = "not-configured"
        /\ UNCHANGED <<runtime, worker, refresh, record, faults, historyVars>> /\ Current(a)
    BY DEF NotConfigured, At, Early
  <1>4. ConnectionShape /\ Link  BY DEF Connected
  <1>5. ~runtime.authenticated
    BY <1>3, <1>4 DEF Link, AuthOK, SocketOK, OwnSocket, Live, Current, Early, AttemptAssumption,
       ConnectionShape, RuntimeOK, RuntimeRecord
  <1> QED  BY <1>2, <1>3, <1>4, <1>5, EarlyStep DEF ConnectionShape, HistoryOK

LEMMA AdmitStep ==
  ASSUME BoundAssumption, AttemptAssumption, Connected, NEW a \in Attempt, Admit(a)
  PROVE  Connected'
  <1>1. ConnectionShape /\ Link  BY DEF Connected
  <1>2. Becomes(a, "opening", attempts[a].socket)
    BY <1>1, ReachStep DEF Admit, Steps, ConnectionShape
  <1>3. /\ attempts[a].at \in Early /\ state' = "connecting" /\ Current(a)
        /\ UNCHANGED <<runtime, alarms, worker, refresh, record, faults, historyVars>>
    BY DEF Admit, At, Early
  <1>4. attempts[a].socket = "none"  BY <1>3, EarlySocket
  <1>5. ~runtime.authenticated
    BY <1>3, <1>1 DEF Link, AuthOK, SocketOK, OwnSocket, Live, Current, Early, AttemptAssumption,
       ConnectionShape, RuntimeOK, RuntimeRecord
  <1>6. Becomes(a, "opening", "none") /\ "opening" \in Early \cup {"idle"}
    BY <1>2, <1>4 DEF Becomes, Early
  <1> QED  BY <1>1, <1>3, <1>5, <1>6, EarlyStep DEF ConnectionShape, HistoryOK

LEMMA OpenSocketStep ==
  ASSUME BoundAssumption, AttemptAssumption, Connected, NEW a \in Attempt, OpenSocket(a)
  PROVE  Connected'
  <1>1. ConnectionShape /\ Link /\ Told  BY DEF Connected
  <1>2. attempts[a].at = "opening" /\ attempts[a].at \in Early /\ attempts[a].socket = "none"
    BY EarlySocket DEF OpenSocket, At, Early
  <1>3. UNCHANGED <<state, worker, refresh, record, faults, historyVars>>  BY DEF OpenSocket
  <1>4. CASE ~Current(a)
    <2>1. Return(a) /\ UNCHANGED runtime  BY <1>4 DEF OpenSocket
    <2>2. /\ Becomes(a, "idle", "none")
          /\ alarms' \in [reconnect : BOOLEAN, membership : BOOLEAN]
          /\ alarms.reconnect => alarms'.reconnect \/ IsAuthenticated
      BY <2>1, ReturnStep
    <2> QED  BY <1>1, <1>2, <1>3, <1>4, <2>1, <2>2, EarlyStep DEF ConnectionShape, HistoryOK
  <1>5. CASE Current(a)
    <2> DEFINE r == [attempts[a] EXCEPT !.at = "waiting", !.by = "page", !.socket = "open"]
    <2>1. attempts[a] \in AttemptRecord  BY <1>1 DEF ConnectionShape, AttemptsOK
    <2>2. r \in AttemptRecord /\ r.at = "waiting" /\ r.socket = "open"
      BY <2>1 DEF AttemptRecord, Steps
    <2>3. attempts' = [attempts EXCEPT ![a] = r]
      BY <1>1, <1>5 DEF OpenSocket, ConnectionShape, AttemptsOK, AttemptRecord
    <2> HIDE DEF r
    <2>4. Becomes(a, r.at, r.socket)  BY <1>1, <2>2, <2>3, SetRecord DEF ConnectionShape
    <2>5. Becomes(a, "waiting", "open")  BY <2>2, <2>4
    <2>6. alarms' \in [reconnect : BOOLEAN, membership : BOOLEAN]
      BY <1>1, <1>5, WatchedAlarms DEF OpenSocket, ConnectionShape
    <2>7. /\ runtime' \in RuntimeRecord /\ runtime'.current = a /\ runtime'.socket = a
          /\ runtime'.authenticated = runtime.authenticated /\ runtime'.timer = runtime.timer
      BY <1>1, <1>5 DEF OpenSocket, ConnectionShape, RuntimeOK, RuntimeRecord, Current
    <2>8. /\ a # NoAttempt /\ runtime.current = a /\ runtime.socket = NoAttempt
          /\ ~runtime.authenticated /\ ~runtime.timer
          /\ \A b \in Attempt : attempts[b].socket = "none"
      BY <1>1, <1>2, <1>5
      DEF Link, SocketOK, OwnSocket, AuthOK, TimerOK, Live, Current, Late, Attached,
          AttemptAssumption, ConnectionShape, RuntimeOK, RuntimeRecord
    <2>9. SocketOK' /\ OwnSocket' /\ AuthOK' /\ TimerOK'
      BY <1>1, <2>5, <2>7, <2>8
      DEF Becomes, Link, SocketOK, OwnSocket, AuthOK, TimerOK, Live, Current, Attached
    <2>10. \A b \in Attempt : attempts[b].at # "recovering"
      BY <1>1, <1>2, <2>8 DEF Link, RecoveryOK, At
    <2>11. LostOK' /\ RecoveryOK' /\ HaltOK'
      BY <2>5, <2>7, <2>8, <2>10 DEF Becomes, LostOK, RecoveryOK, HaltOK, At
    <2>12. Told'
      BY <1>1, <1>2, <1>3, <2>5, <2>7, <2>8
      DEF Becomes, Told, OnlineIsBacked, OnlineIsTold, NeverStranded, InProgress
    <2>13. ConnectionShape'
      BY <1>1, <1>3, <2>5, <2>6, <2>7 DEF Becomes, ConnectionShape, RuntimeOK, HistoryOK
    <2> QED  BY <2>9, <2>11, <2>12, <2>13 DEF Connected, Link
  <1> QED  BY <1>4, <1>5

\* What Throw does to the attempts it ends, and writes.
LEMMA ThrowStep ==
  ASSUME BoundAssumption, Connected, NEW S, S \subseteq Attempt, NEW retried \in BOOLEAN,
         Throw(S, retried)
  PROVE  /\ AttemptsOK'
         /\ \A b \in Attempt : b \notin S => attempts'[b] = attempts[b]
         /\ \A b \in Attempt : b \in S =>
              attempts'[b].socket = "none" /\ attempts'[b].at = "idle"
         /\ state' = "offline" \/ (state' = state /\ runtime.current \notin S)
         /\ HistoryOK' /\ (gaveUp => gaveUp') /\ (clobbered => clobbered') /\ swept' = swept
         /\ runtime.current \in S /\ ~retried => gaveUp'
         /\ runtime.authenticated /\ runtime.current \notin S => state' = state \/ clobbered'
         /\ UNCHANGED <<worker, refresh, record, crossed>>
  <1>1. AttemptsOK /\ HistoryOK /\ RuntimeOK  BY DEF Connected, ConnectionShape
  <1>2. /\ AttemptsOK'
        /\ \A b \in Attempt : b \notin S => attempts'[b] = attempts[b]
        /\ \A b \in Attempt : b \in S =>
             attempts'[b].socket = "none" /\ attempts'[b].at = "idle"
    <2>1. Idle \in AttemptRecord /\ Idle.at = "idle" /\ Idle.socket = "none"  BY IdleRecord
    <2>2. attempts' = [b \in Attempt |-> IF b \in S THEN Idle ELSE attempts[b]]
      BY DEF Throw
    <2> HIDE DEF Idle
    <2> QED  BY <1>1, <2>1, <2>2 DEF AttemptsOK
  <1>3. /\ gaveUp' = (gaveUp \/ (runtime.current \in S /\ ~retried))
        /\ clobbered' = (clobbered \/ (runtime.authenticated
                                        /\ \E b \in S : attempts[b].by = "boot"))
        /\ UNCHANGED <<worker, refresh, record, swept, crossed>>
        /\ state' = IF \E b \in S : Current(b) \/ attempts[b].by = "boot" THEN "offline"
                    ELSE state
    BY DEF Throw
  <1>4. HistoryOK'  BY <1>1, <1>3 DEF HistoryOK
  <1>5. runtime.authenticated /\ runtime.current \notin S => state' = state \/ clobbered'
    BY <1>3 DEF Current
  <1>6. state' = "offline" \/ (state' = state /\ runtime.current \notin S)
    BY <1>3 DEF Current
  <1> QED  BY <1>2, <1>3, <1>4, <1>5, <1>6

\* The attempts S throw, the runtime's links unchanged.
LEMMA ThrownStep ==
  ASSUME BoundAssumption, AttemptAssumption, Connected, NEW S, S \subseteq Attempt,
         NEW retried \in BOOLEAN, Throw(S, retried),
         \A b \in S : attempts[b].at \in Early \cup {"recovering"},
         \A b \in Attempt : At(b, "recovering") /\ runtime.current \in S => b \in S,
         SameLinks, runtime.timer => runtime'.timer,
         runtime'.timer => runtime.timer \/ runtime.current \in S,
         alarms' \in [reconnect : BOOLEAN, membership : BOOLEAN],
         alarms.reconnect => alarms'.reconnect,
         runtime.current \in S /\ retried => alarms'.reconnect,
         faults' \in 0..MaxFaults
  PROVE  Connected'
  <1>1. ConnectionShape /\ Link  BY DEF Connected
  <1>2. /\ AttemptsOK'
        /\ \A b \in Attempt : b \notin S => attempts'[b] = attempts[b]
        /\ \A b \in Attempt : b \in S =>
             attempts'[b].socket = "none" /\ attempts'[b].at = "idle"
        /\ state' = "offline" \/ (state' = state /\ runtime.current \notin S)
        /\ HistoryOK' /\ (gaveUp => gaveUp') /\ (clobbered => clobbered') /\ swept' = swept
        /\ runtime.current \in S /\ ~retried => gaveUp'
        /\ runtime.authenticated /\ runtime.current \notin S => state' = state \/ clobbered'
        /\ UNCHANGED <<worker, refresh, record, crossed>>
    BY ThrowStep
  <1>3. Moves(S)  BY <1>2 DEF Moves
  <1>4. runtime.current \in S => ~runtime.authenticated
    <2>1. HAVE runtime.current \in S
    <2>2. runtime.socket # runtime.current  BY <2>1, EarlySocket
    <2> QED
      BY <1>1, <2>2 DEF Link, AuthOK, OwnSocket, SocketOK, Live, Current, ConnectionShape,
                        RuntimeOK, RuntimeRecord
  <1>5. ConnectionShape'
    BY <1>1, <1>2 DEF ConnectionShape, SameLinks
  <1>6. runtime'.timer => runtime.timer \/ /\ runtime.current \in S
                                           /\ attempts'[runtime.current].at = "idle"
    BY <1>2
  <1>7. Link'
    BY <1>1, <1>2, <1>3, <1>6, MovesKeepLink DEF ConnectionShape
  <1>8. Told'
    BY <1>1, <1>2, <1>3, <1>4, MovesKeepTold
  <1> QED  BY <1>5, <1>7, <1>8 DEF Connected

LEMMA RefusedStep ==
  ASSUME BoundAssumption, AttemptAssumption, Connected, NEW retried \in BOOLEAN,
         RecoveryFails(retried) \/ \E a \in Attempt : CheckFails(a, retried)
  PROVE  Connected'
  <1>1. PICK S \in SUBSET Attempt :
          /\ Refused(S, retried)
          /\ \A b \in S : attempts[b].at \in Early \cup {"recovering"}
          /\ \A b \in Attempt : At(b, "recovering") /\ runtime.current \in S => b \in S
    <2>1. CASE RecoveryFails(retried)
      <3> Recovering \in SUBSET Attempt  BY DEF Recovering
      <3> WITNESS Recovering \in SUBSET Attempt
      <3> QED  BY <2>1 DEF RecoveryFails, Recovering, At
    <2>2. CASE \E a \in Attempt : CheckFails(a, retried)
      <3>1. PICK a \in Attempt : CheckFails(a, retried)  BY <2>2
      <3> WITNESS {a} \in SUBSET Attempt
      <3> QED  BY <3>1 DEF CheckFails, At, Early, Connected, Link, RecoveryOK, AttemptAssumption
    <2> QED  BY <2>1, <2>2
  <1>2. /\ Throw(S, retried) /\ UNCHANGED runtime
        /\ alarms' = [alarms EXCEPT !.reconnect = alarms.reconnect \/ retried] /\ Fault
    BY <1>1 DEF Refused
  <1>3. faults' \in 0..MaxFaults  BY <1>2, FaultStep DEF Connected, ConnectionShape
  <1>4. /\ alarms' \in [reconnect : BOOLEAN, membership : BOOLEAN]
        /\ alarms'.reconnect = (alarms.reconnect \/ retried)
    BY <1>2 DEF Connected, ConnectionShape
  <1>5. SameLinks /\ runtime'.timer = runtime.timer  BY <1>2, SameRuntime
  <1> QED  BY <1>1, <1>2, <1>3, <1>4, <1>5, ThrownStep

LEMMA OpenThrowsStep ==
  ASSUME BoundAssumption, AttemptAssumption, Connected, NEW a \in Attempt, OpenThrows(a)
  PROVE  Connected'
  <1>1. Throw({a}, TRUE) /\ Fault /\ attempts[a].at = "opening"  BY DEF OpenThrows, At
  <1>2. faults' \in 0..MaxFaults  BY <1>1, FaultStep DEF Connected, ConnectionShape
  <1>3. \A b \in Attempt : At(b, "recovering") /\ runtime.current \in {a} => b \in {a}
    BY <1>1 DEF At, Connected, Link, RecoveryOK, AttemptAssumption
  <1>4. ConnectionShape /\ Link  BY DEF Connected
  <1>5. CASE Current(a)
    <2>1. /\ alarms' = [alarms EXCEPT !.reconnect = alarms.reconnect \/ ~runtime.timer]
          /\ runtime' = [runtime EXCEPT !.timer = TRUE]
      BY <1>5 DEF OpenThrows, ScheduleReconnect
    <2>2. SameLinks /\ runtime'.timer
      BY <1>4, <2>1 DEF SameLinks, ConnectionShape, RuntimeOK, RuntimeRecord
    <2>3. ~runtime.timer
      BY <1>1, <1>4, <1>5 DEF Link, TimerOK, Current, Late
    <2>4. alarms' \in [reconnect : BOOLEAN, membership : BOOLEAN] /\ alarms'.reconnect
      BY <1>4, <2>1, <2>3 DEF ConnectionShape
    <2>5. runtime.current \in {a}  BY <1>5 DEF Current
    <2> QED  BY <1>1, <1>2, <1>3, <2>2, <2>4, <2>5, ThrownStep DEF Early
  <1>6. CASE ~Current(a)
    <2>1. UNCHANGED <<alarms, runtime>>  BY <1>6 DEF OpenThrows
    <2>2. SameLinks /\ runtime'.timer = runtime.timer  BY <2>1, SameRuntime
    <2>3. runtime.current \notin {a}  BY <1>6 DEF Current
    <2> QED  BY <1>1, <1>2, <1>3, <1>4, <2>1, <2>2, <2>3, ThrownStep DEF Early, ConnectionShape
  <1> QED  BY <1>5, <1>6

LEMMA RecoverStep ==
  ASSUME BoundAssumption, AttemptAssumption, Connected, Recover
  PROVE  Connected'
  <1>1. ConnectionShape /\ Link  BY DEF Connected
  <1>2. UNCHANGED <<runtime, alarms, state, worker, refresh, faults, historyVars>>
    BY DEF Recover
  <1>3. \A b \in Attempt : IF b \in Recovering
          THEN attempts'[b] \in AttemptRecord /\ attempts'[b].at = "loading"
               /\ attempts'[b].socket = attempts[b].socket
          ELSE attempts'[b] = attempts[b]
    BY <1>1 DEF Recover, ConnectionShape, AttemptsOK, AttemptRecord, Steps
  <1>4. AttemptsOK'
    <2>1. \A b \in Attempt : attempts'[b] \in AttemptRecord
      BY <1>1, <1>3 DEF ConnectionShape, AttemptsOK
    <2>2. attempts' = [b \in Attempt |-> attempts'[b]]  BY DEF Recover
    <2> QED  BY <2>1, <2>2 DEF AttemptsOK
  <1>5. \A b \in Recovering : attempts[b].socket = "none" /\ attempts[b].at = "recovering"
    BY EarlySocket DEF Recovering, At
  <1>6. Moves(Recovering) /\ Recovering \subseteq Attempt
    BY <1>3, <1>4, <1>5 DEF Moves, Early, Recovering
  <1>7. SameLinks /\ runtime'.timer = runtime.timer  BY <1>2, SameRuntime
  <1>8. ConnectionShape'  BY <1>1, <1>2, <1>4 DEF ConnectionShape, RuntimeOK, HistoryOK
  <1>9. Link'  BY <1>1, <1>2, <1>6, <1>7, MovesKeepLink DEF ConnectionShape
  <1>10. worker = "running" => InProgress' \/ gaveUp'
    <2>1. PICK b \in Attempt : At(b, "recovering")  BY DEF Recover, Recovering
    <2>2. CASE runtime.current = NoAttempt
      BY <1>1, <1>2, <2>2 DEF Link, HaltOK
    <2>3. CASE runtime.current # NoAttempt
      <3>1. runtime.current \in Recovering
        BY <1>1, <2>1, <2>3 DEF Link, RecoveryOK, Recovering, At, ConnectionShape, RuntimeOK,
                                RuntimeRecord
      <3> QED  BY <1>2, <1>3, <2>3, <3>1 DEF InProgress, Recovering
    <2> QED  BY <2>2, <2>3
  <1>11. Told'
    BY <1>2, <1>3, <1>6, <1>7, <1>10, MovesKeepTold
  <1> QED  BY <1>8, <1>9, <1>11 DEF Connected

-----------------------------------------------------------------------------
(* Connected is kept by the steps with a socket.                           *)

LEMMA TerminatedStep ==
  ASSUME BoundAssumption, AttemptAssumption, Connected, NEW a \in Attempt,
         attempts[a].socket # "none", Terminated(a), faults' \in 0..MaxFaults
  PROVE  Connected'
  <1>1. ConnectionShape /\ Link  BY DEF Connected
  <1> DEFINE as == Close(attempts, a)
  <1>2. attempts' = as /\ Unplugs(as, a)
    BY <1>1, CloseUnplugs DEF Terminated, ConnectionShape
  <1> HIDE DEF as
  <1>3. AttemptsOK'  BY <1>2 DEF Unplugs, AttemptsOK
  <1>4. runtime.current = a /\ runtime.socket = a /\ attempts[a].at \in Attached /\ a # NoAttempt
    BY <1>1 DEF Link, SocketOK, Live, Current, AttemptAssumption
  <1>5. ~runtime.timer  BY <1>1, <1>4 DEF Link, TimerOK
  <1>6. alarms' \in [reconnect : BOOLEAN, membership : BOOLEAN] /\ alarms'.reconnect
    BY <1>1, <1>5 DEF Terminated, ScheduleReconnect, ConnectionShape
  <1>7. /\ runtime' \in RuntimeRecord /\ runtime'.current = a /\ runtime'.socket = NoAttempt
        /\ ~runtime'.authenticated /\ runtime'.timer
    <2> DEFINE p == IF runtime.sno1 THEN runtime.prefer ELSE attempts[a].source = "pending"
    <2>1. p \in BOOLEAN  BY <1>1 DEF ConnectionShape, RuntimeOK, RuntimeRecord
    <2>2. runtime' = [runtime EXCEPT !.prefer = p, !.socket = NoAttempt,
                                     !.authenticated = FALSE, !.sno1 = FALSE, !.timer = TRUE]
      BY DEF Terminated
    <2> HIDE DEF p
    <2> QED  BY <1>1, <1>4, <2>1, <2>2 DEF ConnectionShape, RuntimeOK, RuntimeRecord
  <1>8. UNCHANGED <<worker, refresh, historyVars>> /\ state' = "offline"  BY DEF Terminated
  <1>9. \A b \in Attempt : attempts[b].at # "recovering" /\ (b # a => attempts[b].socket = "none")
    BY <1>1, <1>4 DEF Link, RecoveryOK, SocketOK, Live, At, Attached, Current
  <1>10. \A b \in Attempt : attempts'[b].socket = "none" /\ attempts'[b].at \notin {"waiting", "up"}
                            /\ attempts'[b].at # "recovering"
    BY <1>1, <1>2, <1>9 DEF Unplugs, Link, SocketOK
  <1>11. attempts'[a].at \in Late \cup {"idle"}
    BY <1>2, <1>4 DEF Unplugs, Attached, Late
  <1>12. SocketOK' /\ OwnSocket' /\ AuthOK' /\ TimerOK' /\ LostOK' /\ RecoveryOK' /\ HaltOK'
    BY <1>4, <1>6, <1>7, <1>10, <1>11
    DEF SocketOK, OwnSocket, AuthOK, TimerOK, LostOK, RecoveryOK, HaltOK, At
  <1>13. Told'  BY <1>6, <1>7, <1>8 DEF Told, OnlineIsBacked, OnlineIsTold, NeverStranded
  <1>14. ConnectionShape'
    BY <1>1, <1>3, <1>6, <1>7, <1>8 DEF ConnectionShape, RuntimeOK, HistoryOK
  <1> QED  BY <1>12, <1>13, <1>14 DEF Connected, Link

\* The attempt with the socket goes on, its socket not closed.
LEMMA SocketMoves ==
  ASSUME BoundAssumption, AttemptAssumption, Connected, NEW a \in Attempt,
         attempts[a].socket # "none", NEW step, step \in {"promoting", "resuming"},
         attempts[a].at \in {"waiting", "promoting"}, Becomes(a, step, attempts[a].socket),
         SameLinks, runtime'.timer = runtime.timer,
         alarms' = alarms, state' = state, worker' = worker, refresh' = refresh,
         gaveUp' = gaveUp, swept' = swept, clobbered' = clobbered, crossed' \in BOOLEAN,
         faults' = faults
  PROVE  Connected'
  <1>1. ConnectionShape /\ Link /\ Told  BY DEF Connected
  <1>2. runtime.current = a /\ runtime.socket = a /\ a # NoAttempt
    BY <1>1 DEF Link, SocketOK, Live, Current, AttemptAssumption
  <1>3. ~runtime.authenticated /\ ~runtime.timer  BY <1>1, <1>2 DEF Link, AuthOK, TimerOK
  <1>4. \A b \in Attempt : attempts[b].at # "recovering" /\ (b # a => attempts[b].socket = "none")
    BY <1>1, <1>2 DEF Link, RecoveryOK, SocketOK, Live, Current, At
  <1>5. SocketOK' /\ OwnSocket' /\ AuthOK' /\ TimerOK'
    BY <1>1, <1>2, <1>3, <1>4
    DEF Becomes, SameLinks, Link, SocketOK, OwnSocket, AuthOK, TimerOK, Live, Current, Attached
  <1>6. LostOK' /\ RecoveryOK' /\ HaltOK'
    BY <1>2, <1>4 DEF Becomes, SameLinks, LostOK, RecoveryOK, HaltOK, At
  <1>7. Told'
    BY <1>1, <1>2, <1>3
    DEF Becomes, SameLinks, Told, OnlineIsBacked, OnlineIsTold, NeverStranded, InProgress
  <1>8. ConnectionShape'
    BY <1>1 DEF ConnectionShape, Becomes, SameLinks, HistoryOK
  <1> QED  BY <1>5, <1>6, <1>7, <1>8 DEF Connected, Link

LEMMA ReadsCursorStep ==
  ASSUME BoundAssumption, AttemptsOK, NEW a \in Attempt, ReadsCursor(a)
  PROVE  Becomes(a, "resuming", attempts[a].socket)
  <1> DEFINE k == attempts[a].socket
  <1>1. k \in {"none", "open", "closing"}  BY DEF AttemptsOK, AttemptRecord
  <1>2. attempts' = [attempts EXCEPT ![a] = [Idle EXCEPT !.at = "resuming", !.socket = k]]
    BY DEF ReadsCursor
  <1>3. Becomes(a, "resuming", k)
    <2> HIDE DEF k
    <2> DEFINE r == [Idle EXCEPT !.at = "resuming", !.socket = k]
    <2>1. 0 \in Token  BY DEF BoundAssumption, Token
    <2>2. r \in AttemptRecord /\ r.at = "resuming" /\ r.socket = k
      BY <1>1, <2>1 DEF Idle, AttemptRecord, Steps
    <2>3. attempts' = [attempts EXCEPT ![a] = r]  BY <1>2
    <2> HIDE DEF r
    <2>4. Becomes(a, r.at, r.socket)  BY <2>2, <2>3, SetRecord
    <2> QED  BY <2>2, <2>4
  <1> QED  BY <1>3

LEMMA AcceptStep ==
  ASSUME BoundAssumption, AttemptAssumption, Connected, NEW a \in Attempt, RelayAccepts(a)
  PROVE  Connected'
  <1>1. ConnectionShape /\ Link  BY DEF Connected
  <1>2. attempts[a].at = "waiting" /\ attempts[a].socket # "none"
    BY <1>1 DEF RelayAccepts, At, Link, SocketOK
  <1>3. UNCHANGED <<alarms, state, worker, refresh, faults, historyVars>>  BY DEF RelayAccepts
  <1>4. SameLinks /\ runtime'.timer = runtime.timer
    BY <1>1 DEF RelayAccepts, SameLinks, ConnectionShape, RuntimeOK, RuntimeRecord
  <1>5. PICK step \in {"promoting", "resuming"} : Becomes(a, step, attempts[a].socket)
    <2>1. CASE attempts[a].source = "pending"
      BY <1>1, <2>1, ReachStep DEF RelayAccepts, Steps, ConnectionShape
    <2>2. CASE attempts[a].source # "pending"
      BY <1>1, <2>2, ReadsCursorStep DEF RelayAccepts, ConnectionShape
    <2> QED  BY <2>1, <2>2
  <1>6. crossed' \in BOOLEAN  BY <1>1, <1>3 DEF ConnectionShape, HistoryOK
  <1> QED  BY <1>2, <1>3, <1>4, <1>5, <1>6, SocketMoves

LEMMA RejectStep ==
  ASSUME BoundAssumption, AttemptAssumption, Connected, NEW a \in Attempt, RejectFrame(a)
  PROVE  Connected'
  <1>1. ConnectionShape /\ Link /\ Told  BY DEF Connected
  <1> DEFINE r == [attempts[a] EXCEPT !.socket = "closing"]
  <1>2. r \in AttemptRecord /\ r.at = attempts[a].at /\ r.socket = "closing"
    BY <1>1 DEF ConnectionShape, AttemptsOK, AttemptRecord
  <1>3. attempts' = [attempts EXCEPT ![a] = r]  BY DEF RejectFrame
  <1> HIDE DEF r
  <1>4. Becomes(a, r.at, r.socket)  BY <1>1, <1>2, <1>3, SetRecord DEF ConnectionShape
  <1>5. Becomes(a, attempts[a].at, "closing") /\ attempts[a].socket # "none"
    BY <1>2, <1>4 DEF RejectFrame
  <1>6. UNCHANGED <<runtime, alarms, state, worker, refresh, record, historyVars>>
        /\ faults' \in 0..MaxFaults
    BY <1>1, FaultStep DEF RejectFrame, ConnectionShape
  <1>7. runtime.current \in Attempt \cup {NoAttempt} /\ runtime.socket \in Attempt \cup {NoAttempt}
    BY <1>1 DEF ConnectionShape, RuntimeOK, RuntimeRecord
  <1>8. \A b \in Attempt : attempts'[b].at = attempts[b].at
                           /\ (attempts'[b].socket = "none" <=> attempts[b].socket = "none")
    BY <1>5 DEF Becomes
  <1>9. Link'
    <2>1. SocketOK' /\ OwnSocket' /\ AuthOK'
      BY <1>1, <1>6, <1>7, <1>8 DEF Link, SocketOK, OwnSocket, AuthOK, Live, Current
    <2>2. TimerOK' /\ LostOK' /\ RecoveryOK' /\ HaltOK'
      BY <1>1, <1>6, <1>7, <1>8 DEF Link, TimerOK, LostOK, RecoveryOK, HaltOK, At
    <2> QED  BY <2>1, <2>2 DEF Link
  <1>10. Told'
    BY <1>1, <1>6, <1>7, <1>8
    DEF Told, OnlineIsBacked, OnlineIsTold, NeverStranded, InProgress
  <1>11. ConnectionShape'
    BY <1>1, <1>5, <1>6 DEF ConnectionShape, Becomes, RuntimeOK, HistoryOK
  <1> QED  BY <1>9, <1>10, <1>11 DEF Connected

-----------------------------------------------------------------------------
(* Connected is kept by completeAuthentication.                            *)

\* An attempt on its last steps that is no longer live ends.
LEMMA EndsStep ==
  ASSUME BoundAssumption, AttemptAssumption, Connected, NEW a \in Attempt,
         attempts[a].at \in Late, attempts[a].socket = "none",
         Becomes(a, "idle", "none"), UNCHANGED <<runtime, state, worker, refresh>>,
         alarms' \in [reconnect : BOOLEAN, membership : BOOLEAN],
         gaveUp' = gaveUp, swept' \in BOOLEAN, clobbered' = clobbered, crossed' \in BOOLEAN,
         faults' \in 0..MaxFaults, swept => swept',
         alarms.reconnect =>
           \/ alarms'.reconnect \/ runtime.authenticated
           \/ (runtime.timer \/ ~InProgress) => swept',
         record.current = 0 => record'.current = 0
  PROVE  Connected'
  <1>1. ConnectionShape /\ Link /\ Told  BY DEF Connected
  <1>2. runtime.current \in Attempt \cup {NoAttempt} /\ runtime.socket \in Attempt \cup {NoAttempt}
    BY <1>1 DEF ConnectionShape, RuntimeOK, RuntimeRecord
  <1>3. runtime.socket # a
    BY <1>1, <1>2 DEF Link, OwnSocket, AttemptAssumption
  <1>4. runtime.current = a => runtime.timer /\ (alarms.reconnect \/ swept)
                               /\ runtime.socket = NoAttempt
    BY <1>1, <1>2, <1>3 DEF Link, OwnSocket, SocketOK, Live, Current, LostOK, AttemptAssumption
  <1>5. SocketOK' /\ OwnSocket' /\ AuthOK' /\ HaltOK'
    BY <1>1, <1>2, <1>3
    DEF Becomes, Link, SocketOK, OwnSocket, AuthOK, HaltOK, Live, Current
  <1>6. TimerOK'  BY <1>1, <1>2, <1>3 DEF Becomes, Link, TimerOK, Late
  <1>7. LostOK'
    <2>1. ASSUME runtime.current # NoAttempt, runtime.socket = NoAttempt,
                 attempts'[runtime.current].at \in Late
          PROVE  runtime.timer /\ (alarms'.reconnect \/ swept')
      <3>1. attempts[runtime.current].at \in Late  BY <1>2, <2>1 DEF Becomes, Late
      <3>2. runtime.timer /\ (alarms.reconnect \/ swept)
        BY <1>1, <2>1, <3>1 DEF Link, LostOK
      <3>3. ~runtime.authenticated  BY <1>1, <2>1 DEF Link, AuthOK
      <3> QED  BY <3>2, <3>3
    <2> QED  BY <2>1 DEF LostOK
  <1>8. RecoveryOK'  BY <1>1, <1>2 DEF Becomes, Link, RecoveryOK, At, Late
  <1>9. OnlineIsBacked' /\ OnlineIsTold'
    BY <1>1, <1>2 DEF Becomes, Told, OnlineIsBacked, OnlineIsTold, Late
  <1>10. NeverStranded'
    <2>1. ASSUME worker = "running", record'.current # 0, ~InProgress', ~runtime.authenticated
          PROVE  alarms'.reconnect \/ gaveUp \/ swept'
      <3>1. CASE runtime.current = a  BY <1>4, <2>1, <3>1
      <3>2. CASE runtime.current # a
        <4>1. ~InProgress  BY <1>2, <2>1, <3>2 DEF InProgress, Becomes
        <4>2. alarms.reconnect \/ gaveUp \/ swept  BY <1>1, <2>1, <4>1 DEF Told, NeverStranded
        <4> QED  BY <2>1, <4>1, <4>2
      <3> QED  BY <3>1, <3>2
    <2> QED  BY <2>1 DEF NeverStranded
  <1>11. ConnectionShape'
    BY <1>1 DEF Becomes, ConnectionShape, RuntimeOK, HistoryOK
  <1> QED  BY <1>5, <1>6, <1>7, <1>8, <1>9, <1>10, <1>11 DEF Connected, Link, Told

\* One that fails.
LEMMA AbandonStep ==
  ASSUME BoundAssumption, AttemptAssumption, Connected, NEW a \in Attempt,
         attempts[a].at \in {"promoting", "resuming"}, Abandon(a), ~Live(a) \/ Current(a),
         UNCHANGED <<worker, refresh, record, swept, clobbered, crossed>>,
         faults' \in 0..MaxFaults
  PROVE  Connected'
  <1>1. ConnectionShape /\ Link  BY DEF Connected
  <1>2. CASE Current(a)
    <2>1. /\ attempts' = [attempts EXCEPT ![a] = Idle] /\ alarms' = CancelReconnect(alarms)
          /\ runtime' = Generation(NoAttempt, runtime.prefer)
          /\ state' = "offline" /\ gaveUp' = TRUE
      BY <1>2 DEF Abandon
    <2>2. Becomes(a, "idle", "none")  BY <1>1, <2>1, EndStep DEF ConnectionShape
    <2>3. \A b \in Attempt : attempts'[b].socket = "none" /\ attempts'[b].at \notin {"waiting", "up"}
      BY <1>1, <1>2, <2>2 DEF Becomes, Link, SocketOK, Live, Current
    <2>4. Renewed(NoAttempt)
      <3> DEFINE p == runtime.prefer
      <3>1. p \in BOOLEAN /\ runtime' = Generation(NoAttempt, p)
        BY <1>1, <2>1 DEF ConnectionShape, RuntimeOK, RuntimeRecord
      <3> HIDE DEF p
      <3> QED  BY <1>1, <3>1, RenewStep DEF ConnectionShape
    <2>5. alarms' \in [reconnect : BOOLEAN, membership : BOOLEAN]
      BY <1>1, <2>1, CancelledAlarms DEF ConnectionShape
    <2>6. AttemptsOK'  BY <2>2 DEF Becomes
    <2>7. worker \in {"asleep", "booting", "running"} /\ refresh \in {"idle", "fetching"}
      BY <1>1 DEF ConnectionShape
    <2> QED  BY <2>1, <2>3, <2>4, <2>5, <2>6, <2>7, ConnectedHalts
  <1>3. CASE ~Current(a)
    <2>1. Ends(a)  BY <1>3 DEF Abandon
    <2>2. Becomes(a, "idle", "none")  BY <1>1, <2>1, EndStep DEF Ends, ConnectionShape
    <2>3. attempts[a].socket = "none"  BY <1>1, <1>3 DEF Link, SocketOK, Live
    <2> QED
      BY <1>1, <1>3, <2>1, <2>2, <2>3, EndsStep DEF Ends, ConnectionShape, HistoryOK, Late
  <1> QED  BY <1>2, <1>3

\* A credential is stored only with a token in it.
RecordFits == record.phase # "none" => record.current # 0

LEMMA PromoteStep ==
  ASSUME BoundAssumption, AttemptAssumption, Connected, RecordFits, NEW a \in Attempt,
         Promote(a)
  PROVE  Connected'
  <1>1. ConnectionShape /\ Link  BY DEF Connected
  <1>2. /\ attempts[a].at = "promoting" /\ record.current # 0
        /\ crossed' \in BOOLEAN /\ UNCHANGED <<worker, refresh, faults, swept, clobbered>>
    <2>1. crossed' = (crossed \/ record.pending # attempts[a].token)  BY DEF Promote
    <2>2. crossed' \in BOOLEAN  BY <1>1, <2>1 DEF ConnectionShape, HistoryOK
    <2> QED  BY <2>2 DEF Promote, At, RecordFits
  <1>3. CASE Live(a)
    <2>1. ReadsCursor(a) /\ UNCHANGED <<alarms, state, gaveUp>>
          /\ runtime' = [runtime EXCEPT !.prefer = FALSE]
      BY <1>3 DEF Promote
    <2>2. SameLinks /\ runtime'.timer = runtime.timer
      BY <1>1, <2>1 DEF SameLinks, ConnectionShape, RuntimeOK, RuntimeRecord
    <2>3. Becomes(a, "resuming", attempts[a].socket)
      BY <1>1, <2>1, ReadsCursorStep DEF ConnectionShape
    <2>4. attempts[a].socket # "none"
      BY <1>1, <1>3 DEF Link, OwnSocket, Live, AttemptAssumption
    <2> QED  BY <1>2, <2>1, <2>2, <2>3, <2>4, SocketMoves
  <1>4. CASE ~Live(a)
    <2>1. Ends(a)  BY <1>4 DEF Promote
    <2>2. Becomes(a, "idle", "none")  BY <1>1, <2>1, EndStep DEF Ends, ConnectionShape
    <2>3. attempts[a].socket = "none"  BY <1>1, <1>4 DEF Link, SocketOK
    <2> QED
      BY <1>1, <1>2, <2>1, <2>2, <2>3, EndsStep DEF Ends, ConnectionShape, HistoryOK, Late
  <1> QED  BY <1>3, <1>4

LEMMA GivesUpStep ==
  ASSUME BoundAssumption, AttemptAssumption, Connected, NEW a \in Attempt,
         PromoteRefused(a) \/ ResumeFails(a)
  PROVE  Connected'
  <1>1. /\ attempts[a].at \in {"promoting", "resuming"} /\ Abandon(a)
        /\ UNCHANGED <<worker, refresh, record, swept, clobbered, crossed>>
    BY DEF PromoteRefused, ResumeFails, At
  <1>2. faults' \in 0..MaxFaults
    BY FaultStep DEF PromoteRefused, ResumeFails, Connected, ConnectionShape
  <1>3. ~Live(a) \/ Current(a)  BY DEF Live
  <1> QED  BY <1>1, <1>2, <1>3, AbandonStep

LEMMA ResumeStep ==
  ASSUME BoundAssumption, AttemptAssumption, Connected, NEW a \in Attempt, Resume(a)
  PROVE  Connected'
  <1>1. ConnectionShape /\ Link /\ Told  BY DEF Connected
  <1>2. attempts[a].at = "resuming" /\ UNCHANGED <<worker, refresh, record, faults, swept, crossed>>
    BY DEF Resume, At
  <1>3. CASE ~Live(a)
    <2>1. Ends(a) /\ UNCHANGED clobbered  BY <1>3 DEF Resume
    <2>2. Becomes(a, "idle", "none")  BY <1>1, <2>1, EndStep DEF Ends, ConnectionShape
    <2>3. attempts[a].socket = "none"  BY <1>1, <1>3 DEF Link, SocketOK
    <2> QED
      BY <1>1, <1>2, <2>1, <2>2, <2>3, EndsStep DEF Ends, ConnectionShape, HistoryOK, Late
  <1>4. CASE Live(a)
    <2>1. /\ Reaches(a, "publishing") /\ state' = "online" /\ UNCHANGED <<alarms, gaveUp>>
          /\ runtime' = [runtime EXCEPT !.authenticated = TRUE] /\ clobbered' = FALSE
      BY <1>4 DEF Resume
    <2>2. Becomes(a, "publishing", attempts[a].socket)
      BY <1>1, <2>1, ReachStep DEF ConnectionShape, Steps
    <2>3. /\ runtime' \in RuntimeRecord /\ runtime'.current = a /\ runtime'.socket = a
          /\ runtime'.authenticated /\ runtime'.timer = runtime.timer
      BY <1>1, <1>4, <2>1 DEF ConnectionShape, RuntimeOK, RuntimeRecord, Live, Current
    <2>4. /\ runtime.current = a /\ runtime.socket = a /\ a # NoAttempt
          /\ attempts[a].socket # "none" /\ ~runtime.timer
      BY <1>1, <1>4 DEF Live, Current, Link, OwnSocket, TimerOK, AttemptAssumption
    <2>5. \A b \in Attempt : attempts[b].at # "recovering" /\ (b # a => attempts[b].socket = "none")
      BY <1>1, <1>2, <2>4 DEF Link, RecoveryOK, SocketOK, Live, Current, At
    <2>6. SocketOK' /\ OwnSocket' /\ AuthOK' /\ TimerOK'
      BY <1>1, <2>2, <2>3, <2>4, <2>5
      DEF Becomes, Link, SocketOK, OwnSocket, AuthOK, TimerOK, Live, Current, Attached
    <2>7. LostOK' /\ RecoveryOK' /\ HaltOK'
      BY <2>2, <2>3, <2>4, <2>5 DEF Becomes, LostOK, RecoveryOK, HaltOK, At
    <2>8. Told'  BY <2>1, <2>3 DEF Told, OnlineIsBacked, OnlineIsTold, NeverStranded
    <2>9. ConnectionShape'
      BY <1>1, <1>2, <2>1, <2>2, <2>3 DEF Becomes, ConnectionShape, RuntimeOK, HistoryOK
    <2> QED  BY <2>6, <2>7, <2>8, <2>9 DEF Connected, Link
  <1> QED  BY <1>3, <1>4

LEMMA AnnounceStep ==
  ASSUME BoundAssumption, AttemptAssumption, Connected, NEW a \in Attempt, Announce(a)
  PROVE  Connected'
  <1>1. ConnectionShape /\ Link /\ Told  BY DEF Connected
  <1>2. /\ attempts[a].at = "publishing"
        /\ UNCHANGED <<runtime, state, worker, refresh, record, faults, gaveUp, clobbered, crossed>>
        /\ alarms' = [reconnect |-> FALSE, membership |-> TRUE]
        /\ swept' = (swept \/ (alarms.reconnect /\ ~runtime.authenticated
                                 /\ (runtime.timer \/ ~InProgress)))
    BY DEF Announce, At
  <1>3. swept' \in BOOLEAN  BY <1>1, <1>2 DEF ConnectionShape, HistoryOK
  <1>4. alarms' \in [reconnect : BOOLEAN, membership : BOOLEAN]  BY <1>2
  <1>5. CASE attempts[a].socket = "none"
    <2>1. Becomes(a, "idle", "none")
      BY <1>1, <1>5, EndStep DEF Announce, ConnectionShape
    <2>2. alarms.reconnect =>
            \/ alarms'.reconnect \/ runtime.authenticated
            \/ (runtime.timer \/ ~InProgress) => swept'
      BY <1>2
    <2> QED
      BY <1>1, <1>2, <1>3, <1>4, <1>5, <2>1, <2>2, EndsStep DEF ConnectionShape, HistoryOK, Late
  <1>6. CASE attempts[a].socket # "none"
    <2>1. Becomes(a, "up", attempts[a].socket)
      <3>1. Reaches(a, "up")  BY <1>6 DEF Announce, Reaches
      <3> QED  BY <1>1, <3>1, ReachStep DEF ConnectionShape, Steps
    <2>2. /\ runtime.current = a /\ runtime.socket = a /\ a # NoAttempt
          /\ runtime.authenticated /\ ~runtime.timer
      BY <1>1, <1>2, <1>6 DEF Link, SocketOK, AuthOK, TimerOK, Live, Current, AttemptAssumption
    <2>3. \A b \in Attempt : attempts[b].at # "recovering" /\ (b # a => attempts[b].socket = "none")
      BY <1>1, <1>2, <2>2 DEF Link, RecoveryOK, SocketOK, Live, Current, At
    <2>4. SocketOK' /\ OwnSocket' /\ AuthOK' /\ TimerOK'
      BY <1>1, <1>2, <1>6, <2>1, <2>2, <2>3
      DEF Becomes, Link, SocketOK, OwnSocket, AuthOK, TimerOK, Live, Current, Attached
    <2>5. LostOK' /\ RecoveryOK' /\ HaltOK'
      BY <1>2, <2>1, <2>2, <2>3 DEF Becomes, LostOK, RecoveryOK, HaltOK, At
    <2>6. Told'
      BY <1>1, <1>2, <2>2 DEF Told, OnlineIsBacked, OnlineIsTold, NeverStranded
    <2>7. ConnectionShape'
      BY <1>1, <1>2, <1>3, <1>4, <2>1 DEF Becomes, ConnectionShape, RuntimeOK, HistoryOK
    <2> QED  BY <2>4, <2>5, <2>6, <2>7 DEF Connected, Link
  <1> QED  BY <1>5, <1>6

-----------------------------------------------------------------------------
(* The steps that leave the attempts and the runtime alone.                *)

LEMMA QuietStep ==
  ASSUME Connected, UNCHANGED <<attempts, runtime, state, swept, crossed>>,
         alarms' \in [reconnect : BOOLEAN, membership : BOOLEAN],
         alarms'.reconnect = alarms.reconnect,
         worker' \in {"asleep", "booting", "running"},
         worker' = "running" => worker = "running",
         refresh' \in {"idle", "fetching"}, faults' \in 0..MaxFaults,
         gaveUp' = gaveUp, clobbered' = clobbered,
         record'.current = record.current
  PROVE  Connected'
  <1>1. ConnectionShape /\ Link /\ Told  BY DEF Connected
  <1>2. ConnectionShape'
    BY <1>1 DEF ConnectionShape, AttemptsOK, RuntimeOK, HistoryOK
  <1>3. SocketOK' /\ OwnSocket' /\ AuthOK' /\ TimerOK' /\ LostOK' /\ RecoveryOK' /\ HaltOK'
    BY <1>1
    DEF Link, SocketOK, OwnSocket, AuthOK, TimerOK, LostOK, RecoveryOK, HaltOK, Live, Current, At
  <1>4. Told'
    BY <1>1 DEF Told, OnlineIsBacked, OnlineIsTold, NeverStranded, InProgress
  <1> QED  BY <1>2, <1>3, <1>4 DEF Connected, Link

LEMMA BootFailsStep ==
  ASSUME BoundAssumption, Connected, BootFails
  PROVE  Connected'
  <1>1. ConnectionShape /\ Link /\ Told  BY DEF Connected
  <1>2. /\ UNCHANGED <<attempts, runtime, alarms, refresh, record, swept, crossed>>
        /\ worker' = "running" /\ state' = "offline"
        /\ gaveUp' = (gaveUp \/ ~(InProgress \/ runtime.authenticated))
        /\ clobbered' = (clobbered \/ runtime.authenticated)
    BY DEF BootFails
  <1>3. faults' \in 0..MaxFaults  BY <1>1, FaultStep DEF BootFails, ConnectionShape
  <1>4. gaveUp' \in BOOLEAN /\ clobbered' \in BOOLEAN
    BY <1>1, <1>2 DEF ConnectionShape, HistoryOK
  <1>5. ConnectionShape'
    BY <1>1, <1>2, <1>3, <1>4 DEF ConnectionShape, AttemptsOK, RuntimeOK, HistoryOK
  <1>6. SocketOK' /\ OwnSocket' /\ AuthOK' /\ TimerOK' /\ LostOK' /\ RecoveryOK'
    BY <1>1, <1>2
    DEF Link, SocketOK, OwnSocket, AuthOK, TimerOK, LostOK, RecoveryOK, Live, Current, At
  <1>7. HaltOK'
    BY <1>1, <1>2
    DEF HaltOK, Link, AuthOK, SocketOK, OwnSocket, Live, Current, InProgress, ConnectionShape,
        RuntimeOK, RuntimeRecord, AttemptAssumption
  <1>8. Told'
    BY <1>2 DEF Told, OnlineIsBacked, OnlineIsTold, NeverStranded, InProgress
  <1> QED  BY <1>5, <1>6, <1>7, <1>8 DEF Connected, Link

LEMMA WorkerQuietStep ==
  ASSUME BoundAssumption, Connected, Wake \/ MembershipAlarm \/ StillActive \/ Legacy
  PROVE  Connected'
  <1>1. ConnectionShape  BY DEF Connected
  <1>2. faults' \in 0..MaxFaults
    BY <1>1, FaultStep DEF Wake, MembershipAlarm, StillActive, Legacy, ConnectionShape
  <1>3. UNCHANGED <<attempts, runtime, state, record, historyVars>>
    BY DEF Wake, MembershipAlarm, StillActive, Legacy
  <1>4. /\ alarms' \in [reconnect : BOOLEAN, membership : BOOLEAN]
        /\ alarms'.reconnect = alarms.reconnect
    BY <1>1 DEF Wake, MembershipAlarm, StillActive, Legacy, ConnectionShape
  <1>5. /\ worker' \in {"asleep", "booting", "running"}
        /\ worker' = "running" => worker = "running"
        /\ refresh' \in {"idle", "fetching"}
    BY <1>1 DEF Wake, MembershipAlarm, StillActive, Legacy, Woken, ConnectionShape
  <1> QED  BY <1>2, <1>3, <1>4, <1>5, QuietStep

\* A rotation, and an idle step.
LEMMA CredentialQuietStep ==
  ASSUME Connected, UNCHANGED <<connectionVars, faults, historyVars>>,
         record'.current = record.current
  PROVE  Connected'
  <1>1. ConnectionShape  BY DEF Connected
  <1> QED  BY <1>1, QuietStep DEF ConnectionShape

LEMMA RotationStep ==
  ASSUME Connected, record \in CredentialRecord,
         \/ PrepareRotation \/ MarkRotationAttempted \/ SendRotation
         \/ \E r \in requests, arrives \in BOOLEAN : RelayHandles(r, arrives)
         \/ UNCHANGED vars
  PROVE  Connected'
  <1>1. UNCHANGED <<connectionVars, faults, historyVars>>
    BY DEF PrepareRotation, MarkRotationAttempted, SendRotation, RelayHandles, vars
  <1>2. record'.current = record.current
    BY DEF PrepareRotation, MarkRotationAttempted, SendRotation, RelayHandles, vars,
           CredentialRecord
  <1> QED  BY <1>1, <1>2, CredentialQuietStep

-----------------------------------------------------------------------------
(* The credential.                                                         *)

\* A request is made with what the record holds, or was overtaken.
Matches(r) ==
  record.phase # "none" /\ r.current = record.current /\ r.pending = record.pending
TokensOK ==
  /\ RecordFits /\ minted # 0 /\ valid # 0
  /\ record.phase # "none" => record.current < record.pending
  /\ record.current <= minted /\ record.pending <= minted /\ valid <= minted
BeforeOK ==
  record.current = 0 => minted = 1 /\ valid = 1 /\ requests = {} /\ rotation.at = "idle"
RequestsOK ==
  \A r \in requests :
    /\ r.current < r.pending /\ r.pending <= minted
    /\ ~crossed => r.current < valid \/ (Matches(r) /\ record.phase = "attempted")
RotationOK ==
  rotation.at # "idle" =>
    /\ rotation.current < rotation.pending /\ rotation.pending <= minted
    /\ ~crossed => \/ rotation.current < valid
                   \/ Matches(rotation) /\ (rotation.at = "send" => record.phase = "attempted")
\* What is being promoted was accepted, and tokens only grow.
PromotingOK ==
  \A a \in Attempt : attempts[a].at = "promoting" /\ ~crossed => attempts[a].token <= valid
Kept == CredentialShape /\ TokensOK /\ BeforeOK /\ RequestsOK /\ RotationOK /\ PromotingOK
        /\ CredentialKept

SamePromotions ==
  \A b \in Attempt : attempts'[b].at = "promoting" =>
    attempts[b].at = "promoting" /\ attempts'[b].token = attempts[b].token

LEMMA KeptQuiet ==
  ASSUME Kept, SamePromotions, UNCHANGED credentialVars, crossed' = crossed
  PROVE  Kept'
  <1>1. CredentialShape' /\ TokensOK' /\ BeforeOK' /\ CredentialKept'
    BY DEF Kept, CredentialShape, TokensOK, RecordFits, BeforeOK, CredentialKept
  <1>2. RequestsOK' /\ RotationOK'  BY DEF Kept, RequestsOK, RotationOK, Matches
  <1>3. PromotingOK'  BY DEF Kept, PromotingOK, SamePromotions
  <1> QED  BY <1>1, <1>2, <1>3 DEF Kept

LEMMA BecomesPromotes ==
  ASSUME NEW a \in Attempt, NEW step, NEW socket, Becomes(a, step, socket), step # "promoting"
  PROVE  SamePromotions
  BY DEF Becomes, SamePromotions

LEMMA UnplugsPromotes ==
  ASSUME NEW x, Unplugs(attempts', x)
  PROVE  SamePromotions
  BY DEF Unplugs, SamePromotions

LEMMA StartPromotes ==
  ASSUME BoundAssumption, AttemptAssumption, Connected, NEW a \in Attempt, NEW by,
         StartConnection(a, by)
  PROVE  SamePromotions
  <1> DEFINE as == CloseSocket
             r == [Idle EXCEPT !.at = "recovering", !.by = by]
  <1>1. r.at = "recovering"  BY DEF Idle
  <1>2. attempts' = [as EXCEPT ![a] = r]  BY DEF StartConnection
  <1>3. Unplugs(as, runtime.socket)
    BY CloseSocketUnplugs DEF Connected, ConnectionShape
  <1> HIDE DEF as, r
  <1> QED  BY <1>1, <1>2, <1>3 DEF Unplugs, SamePromotions

LEMMA WorkerPromotes ==
  ASSUME BoundAssumption, AttemptAssumption, Connected, NEW a \in Attempt,
         \/ Boot(a) \/ PageConnect(a) \/ EnsureAuthenticated(a) \/ AlarmFires(a)
         \/ FailClosed \/ Inactive \/ Sleep \/ Crash
         \/ UNCHANGED attempts
  PROVE  SamePromotions
  <1>1. CASE UNCHANGED attempts  BY <1>1 DEF SamePromotions
  <1>2. CASE \E by : StartConnection(a, by)  BY <1>2, StartPromotes
  <1>3. CASE StopRuntime
    <2>1. Unplugs(CloseSocket, runtime.socket)
      BY CloseSocketUnplugs DEF Connected, ConnectionShape
    <2> DEFINE as == CloseSocket
    <2>2. attempts' = as /\ Unplugs(as, runtime.socket)  BY <1>3, <2>1 DEF StopRuntime
    <2> HIDE DEF as
    <2> QED  BY <2>2, UnplugsPromotes
  <1>4. CASE Unloaded
    <2>1. \A b \in Attempt : attempts'[b] = Idle  BY <1>4 DEF Unloaded
    <2>2. Idle.at = "idle"  BY DEF Idle
    <2> HIDE DEF Idle
    <2> QED  BY <2>1, <2>2 DEF SamePromotions
  <1> QED
    BY <1>1, <1>2, <1>3, <1>4
    DEF Boot, PageConnect, EnsureAuthenticated, Connect, AlarmFires, FailClosed, Inactive,
        Sleep, Crash

LEMMA ThrowPromotes ==
  ASSUME NEW S, NEW retried, Throw(S, retried)
  PROVE  SamePromotions
  <1>1. \A b \in Attempt : attempts'[b] = IF b \in S THEN Idle ELSE attempts[b]  BY DEF Throw
  <1>2. Idle.at = "idle"  BY DEF Idle
  <1> HIDE DEF Idle
  <1> QED  BY <1>1, <1>2 DEF SamePromotions

LEMMA AttemptPromotes ==
  ASSUME BoundAssumption, AttemptAssumption, Connected, record \in CredentialRecord,
         NEW a \in Attempt,
         \/ Superseded(a) \/ LoadCandidate(a) \/ NotConfigured(a) \/ Admit(a) \/ OpenSocket(a)
         \/ RelayRefuses(a) \/ SocketCloses(a) \/ SocketFails(a) \/ RejectFrame(a)
         \/ PromoteRefused(a) \/ ResumeFails(a) \/ Resume(a) \/ Announce(a)
  PROVE  SamePromotions
  <1>0. AttemptsOK  BY DEF Connected, ConnectionShape
  <1>1. CASE attempts' = [attempts EXCEPT ![a] = Idle]
    BY <1>0, <1>1, EndStep, BecomesPromotes
  <1>2. CASE \E step \in Steps \ {"promoting"} : Reaches(a, step)
    <2>1. PICK step \in Steps \ {"promoting"} : Reaches(a, step)  BY <1>2
    <2>2. Becomes(a, step, attempts[a].socket)  BY <1>0, <2>1, ReachStep
    <2> QED  BY <2>1, <2>2, BecomesPromotes
  <1>3. CASE LoadCandidate(a)  BY <1>3, LoadStep, BecomesPromotes
  <1>4. CASE Terminated(a)
    <2> DEFINE as == Close(attempts, a)
    <2>1. attempts' = as /\ Unplugs(as, a)  BY <1>0, <1>4, CloseUnplugs DEF Terminated
    <2> HIDE DEF as
    <2> QED  BY <2>1, UnplugsPromotes
  <1>5. CASE RejectFrame(a)
    BY <1>0, <1>5 DEF RejectFrame, SamePromotions, AttemptsOK, AttemptRecord
  <1>6. CASE OpenSocket(a) /\ Current(a)
    BY <1>0, <1>6 DEF OpenSocket, SamePromotions, AttemptsOK, AttemptRecord
  <1>7. CASE Superseded(a) \/ NotConfigured(a) \/ (OpenSocket(a) /\ ~Current(a))
    BY <1>1, <1>7 DEF Superseded, NotConfigured, OpenSocket, Return
  <1>8. CASE Admit(a)  BY <1>2, <1>8 DEF Admit, Steps
  <1>9. CASE PromoteRefused(a) \/ ResumeFails(a)
    BY <1>1, <1>9 DEF PromoteRefused, ResumeFails, Abandon, Ends
  <1>10. CASE Resume(a)
    BY <1>1, <1>2, <1>10 DEF Resume, Ends, Steps
  <1>11. CASE Announce(a)
    <2>1. attempts[a].socket # "none" => Reaches(a, "up")  BY <1>11 DEF Announce, Reaches
    <2> QED  BY <1>1, <1>2, <1>11, <2>1 DEF Announce, Steps
  <1> QED
    BY <1>3, <1>4, <1>5, <1>6, <1>7, <1>8, <1>9, <1>10, <1>11
    DEF RelayRefuses, SocketCloses, SocketFails

LEMMA RecoverKept ==
  ASSUME BoundAssumption, Kept, Recover
  PROVE  Kept'
  <1>1. SamePromotions  BY DEF Recover, SamePromotions
  <1>2. UNCHANGED <<rotation, minted, valid, requests, crossed>>  BY DEF Recover
  <1>3. CASE record' = record  BY <1>1, <1>2, <1>3, KeptQuiet
  <1>4. CASE record' # record
    <2>1. /\ record.current = 0 /\ record'.current = 1 /\ record'.pending = 0
          /\ record'.phase = "none" /\ record' \in CredentialRecord
      <3>1. record = NoRecord /\ record' = Enrolled  BY <1>4 DEF Recover
      <3>2. 0 \in Token /\ 1 \in Token  BY DEF BoundAssumption, Token
      <3> QED  BY <3>1, <3>2 DEF NoRecord, Enrolled, CredentialRecord
    <2>2. minted = 1 /\ valid = 1 /\ requests = {} /\ rotation.at = "idle"
      BY <2>1 DEF Kept, BeforeOK
    <2>3. CredentialShape'  BY <1>2, <2>1 DEF Kept, CredentialShape
    <2>4. TokensOK' /\ BeforeOK' /\ RequestsOK' /\ RotationOK' /\ CredentialKept'
      BY <1>2, <2>1, <2>2
      DEF TokensOK, RecordFits, BeforeOK, RequestsOK, RotationOK, CredentialKept
    <2>5. PromotingOK'  BY <1>1, <1>2 DEF Kept, PromotingOK, SamePromotions
    <2> QED  BY <2>3, <2>4, <2>5 DEF Kept
  <1> QED  BY <1>3, <1>4

LEMMA AcceptKept ==
  ASSUME BoundAssumption, AttemptsOK, Kept, NEW a \in Attempt, RelayAccepts(a)
  PROVE  Kept'
  <1>1. attempts[a].token = valid /\ UNCHANGED <<credentialVars, crossed>>
    BY DEF RelayAccepts
  <1>2. CASE attempts[a].source # "pending"
    <2>1. ReadsCursor(a)  BY <1>2 DEF RelayAccepts
    <2>2. SamePromotions  BY <2>1, ReadsCursorStep, BecomesPromotes
    <2> QED  BY <1>1, <2>2, KeptQuiet
  <1>3. CASE attempts[a].source = "pending"
    <2>1. Reaches(a, "promoting")  BY <1>3 DEF RelayAccepts
    <2>2. /\ Becomes(a, "promoting", attempts[a].socket)
          /\ attempts'[a].token = attempts[a].token
      BY <2>1, ReachStep DEF Steps
    <2>3. valid \in Nat  BY BoundAssumption DEF Kept, CredentialShape, Token
    <2>4. PromotingOK'
      BY <1>1, <2>2, <2>3 DEF Becomes, Kept, PromotingOK
    <2>5. CredentialShape' /\ TokensOK' /\ BeforeOK' /\ CredentialKept'
      BY <1>1 DEF Kept, CredentialShape, TokensOK, RecordFits, BeforeOK, CredentialKept
    <2>6. RequestsOK' /\ RotationOK'  BY <1>1 DEF Kept, RequestsOK, RotationOK, Matches
    <2> QED  BY <2>4, <2>5, <2>6 DEF Kept
  <1> QED  BY <1>2, <1>3

\* The types of the tokens, for arithmetic.
LEMMA TokenNat ==
  ASSUME BoundAssumption, Kept
  PROVE  /\ record.current \in Nat /\ record.pending \in Nat /\ minted \in Nat /\ valid \in Nat
         /\ rotation.current \in Nat /\ rotation.pending \in Nat
         /\ \A r \in requests : r.current \in Nat /\ r.pending \in Nat
  BY DEF BoundAssumption, Kept, CredentialShape, CredentialRecord, Token

\* The token that is promoted is the one the relay accepted, or the
\* connection promotes one that is not its own.
LEMMA PromoteKept ==
  ASSUME BoundAssumption, AttemptsOK, Kept, NEW a \in Attempt, Promote(a)
  PROVE  Kept'
  <1>1. /\ attempts[a].at = "promoting" /\ record.phase = "attempted"
        /\ record' = [current |-> record.pending, pending |-> 0, phase |-> "none"]
        /\ crossed' = (crossed \/ record.pending # attempts[a].token)
        /\ UNCHANGED <<rotation, minted, valid, requests>>
    BY DEF Promote, At
  <1>2. SamePromotions
    <2>1. CASE ReadsCursor(a)  BY <2>1, ReadsCursorStep, BecomesPromotes
    <2>2. CASE Ends(a)  BY <2>2, EndStep, BecomesPromotes DEF Ends
    <2> QED  BY <2>1, <2>2 DEF Promote
  <1>3. /\ record'.current = record.pending /\ record'.pending = 0 /\ record'.phase = "none"
        /\ record' \in CredentialRecord
    BY <1>1 DEF Kept, CredentialShape, CredentialRecord, BoundAssumption, Token
  <1>4. record.current < record.pending /\ record.pending <= minted
    BY <1>1 DEF Kept, TokensOK
  <1>5. ~crossed' => ~crossed /\ valid = record.pending
    <2>1. HAVE ~crossed'
    <2>2. ~crossed /\ attempts[a].token = record.pending  BY <1>1, <2>1
    <2>3. record.pending <= valid  BY <1>1, <2>2 DEF Kept, PromotingOK
    <2>4. valid = record.current \/ valid = record.pending
      BY <1>1, <1>4, <2>2, TokenNat DEF Kept, CredentialKept, TokensOK, RecordFits
    <2> QED  BY <1>4, <2>2, <2>3, <2>4, TokenNat
  <1>6. CredentialShape'  BY <1>1, <1>3 DEF Kept, CredentialShape
  <1>7. TokensOK' /\ BeforeOK' /\ CredentialKept'
    BY <1>1, <1>3, <1>4, <1>5, TokenNat
    DEF Kept, TokensOK, RecordFits, BeforeOK, CredentialKept
  <1>8. RequestsOK'
    <2>1. ASSUME NEW r \in requests, ~crossed'  PROVE r.current < valid
      BY <1>4, <1>5, <2>1, TokenNat DEF Kept, RequestsOK, Matches
    <2> QED  BY <1>1, <2>1 DEF Kept, RequestsOK
  <1>9. RotationOK'
    <2>1. ASSUME rotation.at # "idle", ~crossed'  PROVE rotation.current < valid
      BY <1>4, <1>5, <2>1, TokenNat DEF Kept, RotationOK, Matches
    <2> QED  BY <1>1, <2>1 DEF Kept, RotationOK
  <1>10. PromotingOK'  BY <1>1, <1>2, <1>5 DEF Kept, PromotingOK, SamePromotions
  <1> QED  BY <1>6, <1>7, <1>8, <1>9, <1>10 DEF Kept

LEMMA PrepareKept ==
  ASSUME BoundAssumption, Kept, PrepareRotation
  PROVE  Kept'
  <1>1. /\ record.current # 0 /\ rotation' = [at |-> "mark", current |-> record.current,
                                              pending |-> record'.pending]
        /\ UNCHANGED <<attempts, valid, requests, crossed>>
    BY DEF PrepareRotation
  <1>2. SamePromotions  BY <1>1 DEF SamePromotions
  <1>3. CASE record.phase # "none"
    <2>1. UNCHANGED <<record, minted>>  BY <1>3 DEF PrepareRotation
    <2>2. rotation'.at = "mark" /\ rotation'.current = record.current
          /\ rotation'.pending = record.pending
      BY <1>1, <2>1
    <2>3. CredentialShape'
      BY <1>1, <2>1 DEF Kept, CredentialShape, CredentialRecord
    <2>4. TokensOK' /\ BeforeOK' /\ CredentialKept'
      BY <1>1, <2>1 DEF Kept, TokensOK, RecordFits, BeforeOK, CredentialKept
    <2>5. RequestsOK'  BY <1>1, <2>1 DEF Kept, RequestsOK, Matches
    <2>6. RotationOK'
      BY <1>1, <1>3, <2>1, <2>2 DEF Kept, RotationOK, Matches, TokensOK
    <2>7. PromotingOK'  BY <1>1, <1>2 DEF Kept, PromotingOK, SamePromotions
    <2> QED  BY <2>3, <2>4, <2>5, <2>6, <2>7 DEF Kept
  <1>4. CASE record.phase = "none"
    <2>1. /\ minted < MaxToken /\ minted' = minted + 1
          /\ record' = [record EXCEPT !.pending = minted', !.phase = "prepared"]
      BY <1>4 DEF PrepareRotation
    <2>2. record \in CredentialRecord /\ minted \in Nat /\ minted' \in Token /\ minted' \in Nat
      BY <2>1, TokenNat DEF Kept, CredentialShape, Token, BoundAssumption
    <2> DEFINE m == minted'
    <2>3. /\ record' \in CredentialRecord /\ record'.current = record.current
          /\ record'.pending = minted' /\ record'.phase = "prepared"
      <3>1. m \in Token /\ record' = [record EXCEPT !.pending = m, !.phase = "prepared"]
            /\ m = minted'
        BY <2>1, <2>2
      <3> HIDE DEF m
      <3> QED  BY <2>2, <3>1 DEF CredentialRecord
    <2>4. /\ rotation'.at = "mark" /\ rotation'.current = record.current
          /\ rotation'.pending = minted' /\ record.current <= minted /\ valid <= minted
          /\ rotation' \in [at : {"idle", "mark", "send"}, current : Token, pending : Token]
      BY <1>1, <2>2, <2>3 DEF Kept, TokensOK, CredentialRecord
    <2>5. CredentialShape'
      BY <1>1, <2>1, <2>2, <2>3, <2>4, TokenNat DEF Kept, CredentialShape
    <2>6. TokensOK' /\ BeforeOK' /\ CredentialKept'
      BY <1>1, <1>4, <2>1, <2>2, <2>3, <2>4, TokenNat
      DEF Kept, TokensOK, RecordFits, BeforeOK, CredentialKept
    <2>7. RequestsOK'
      BY <1>1, <1>4, <2>1, <2>2, TokenNat DEF Kept, RequestsOK, Matches
    <2>8. RotationOK'
      BY <1>1, <2>1, <2>2, <2>3, <2>4, TokenNat DEF RotationOK, Matches
    <2>9. PromotingOK'  BY <1>1, <1>2 DEF Kept, PromotingOK, SamePromotions
    <2> QED  BY <2>5, <2>6, <2>7, <2>8, <2>9 DEF Kept
  <1> QED  BY <1>3, <1>4

LEMMA MarkKept ==
  ASSUME BoundAssumption, Kept, MarkRotationAttempted
  PROVE  Kept'
  <1>1. UNCHANGED <<attempts, minted, valid, requests, crossed>> /\ rotation.at = "mark"
    BY DEF MarkRotationAttempted
  <1>2. SamePromotions  BY <1>1 DEF SamePromotions
  <1>3. PromotingOK'  BY <1>1, <1>2 DEF Kept, PromotingOK, SamePromotions
  <1>4. CASE record.phase # "none" /\ record.pending = rotation.pending
    <2>1. record' = [record EXCEPT !.phase = "attempted"]
          /\ rotation' = [rotation EXCEPT !.at = "send"]
      BY <1>4 DEF MarkRotationAttempted
    <2>2. /\ record' \in CredentialRecord /\ record'.current = record.current
          /\ record'.pending = record.pending /\ record'.phase = "attempted"
          /\ rotation' \in [at : {"idle", "mark", "send"}, current : Token, pending : Token]
          /\ rotation'.at = "send" /\ rotation'.current = rotation.current
          /\ rotation'.pending = rotation.pending
      BY <2>1 DEF Kept, CredentialShape, CredentialRecord
    <2>3. CredentialShape'  BY <1>1, <1>4, <2>2 DEF Kept, CredentialShape
    <2>4. TokensOK' /\ BeforeOK' /\ CredentialKept'
      BY <1>1, <1>4, <2>2 DEF Kept, TokensOK, RecordFits, BeforeOK, CredentialKept
    <2>5. RequestsOK'  BY <1>1, <1>4, <2>2 DEF Kept, RequestsOK, Matches
    <2>6. RotationOK'  BY <1>1, <1>4, <2>2 DEF Kept, RotationOK, Matches
    <2> QED  BY <1>3, <2>3, <2>4, <2>5, <2>6 DEF Kept
  <1>5. CASE ~(record.phase # "none" /\ record.pending = rotation.pending)
    <2>1. record' = record /\ rotation' = NoRotation  BY <1>5 DEF MarkRotationAttempted
    <2>2. rotation'.at = "idle"
          /\ rotation' \in [at : {"idle", "mark", "send"}, current : Token, pending : Token]
      BY <2>1 DEF NoRotation, Token, BoundAssumption
    <2>3. CredentialShape'  BY <1>1, <2>1, <2>2 DEF Kept, CredentialShape
    <2>4. TokensOK' /\ BeforeOK' /\ CredentialKept'
      BY <1>1, <2>1, <2>2 DEF Kept, TokensOK, RecordFits, BeforeOK, CredentialKept
    <2>5. RequestsOK' /\ RotationOK'
      BY <1>1, <2>1, <2>2 DEF Kept, RequestsOK, RotationOK, Matches
    <2> QED  BY <1>3, <2>3, <2>4, <2>5 DEF Kept
  <1> QED  BY <1>4, <1>5

LEMMA SendKept ==
  ASSUME BoundAssumption, Kept, SendRotation
  PROVE  Kept'
  <1>1. /\ UNCHANGED <<attempts, record, minted, valid, crossed>> /\ rotation.at = "send"
        /\ rotation' = NoRotation
        /\ requests' = requests \cup {[current |-> rotation.current,
                                       pending |-> rotation.pending]}
    BY DEF SendRotation
  <1>2. SamePromotions  BY <1>1 DEF SamePromotions
  <1>3. rotation'.at = "idle"
        /\ rotation' \in [at : {"idle", "mark", "send"}, current : Token, pending : Token]
    BY <1>1 DEF NoRotation, Token, BoundAssumption
  <1>4. CredentialShape'
    BY <1>1, <1>3 DEF Kept, CredentialShape
  <1>5. TokensOK' /\ BeforeOK' /\ CredentialKept'
    BY <1>1 DEF Kept, TokensOK, RecordFits, BeforeOK, CredentialKept
  <1>6. RotationOK'  BY <1>3 DEF RotationOK
  <1>7. RequestsOK'
    BY <1>1 DEF Kept, RequestsOK, RotationOK, Matches
  <1>8. PromotingOK'  BY <1>1, <1>2 DEF Kept, PromotingOK, SamePromotions
  <1> QED  BY <1>4, <1>5, <1>6, <1>7, <1>8 DEF Kept

LEMMA HandlesKept ==
  ASSUME BoundAssumption, AttemptsOK, Kept, NEW r \in requests, NEW arrives,
         RelayHandles(r, arrives)
  PROVE  Kept'
  <1>1. /\ UNCHANGED <<attempts, record, rotation, minted, crossed>> /\ requests' \subseteq requests
        /\ valid' = valid \/ /\ r.current = valid
                             /\ valid' = r.pending
    BY DEF RelayHandles
  <1>2. SamePromotions  BY <1>1 DEF SamePromotions
  <1>3. r.current < r.pending /\ r.pending <= minted
        /\ (~crossed => r.current < valid \/ (Matches(r) /\ record.phase = "attempted"))
        /\ r.pending \in Token
    BY DEF Kept, RequestsOK, CredentialShape
  <1>4. valid <= valid' /\ valid' \in Token /\ valid' <= minted /\ valid' # 0
    BY <1>1, <1>3, TokenNat DEF Kept, CredentialShape, TokensOK
  <1>5. CredentialShape'  BY <1>1, <1>4 DEF Kept, CredentialShape
  <1>6. TokensOK' /\ BeforeOK'
    BY <1>1, <1>4 DEF Kept, TokensOK, RecordFits, BeforeOK
  <1>7. CredentialKept'
    BY <1>1, <1>3, TokenNat DEF Kept, CredentialKept, Matches
  <1>8. valid' \in Nat  BY <1>4 DEF Token, BoundAssumption
  <1>9. RequestsOK'
    BY <1>1, <1>4, <1>8, TokenNat DEF Kept, RequestsOK, Matches
  <1>10. RotationOK'
    BY <1>1, <1>4, <1>8, TokenNat DEF Kept, RotationOK, Matches
  <1>11. PromotingOK'
    <2>1. ASSUME NEW a \in Attempt, attempts'[a].at = "promoting", ~crossed'
          PROVE  attempts'[a].token <= valid'
      <3>1. attempts'[a].token <= valid /\ attempts'[a].token \in Nat
        BY <1>1, <2>1
        DEF Kept, PromotingOK, AttemptsOK, AttemptRecord, Token, BoundAssumption
      <3>2. CASE valid' = valid  BY <3>1, <3>2
      <3>3. CASE valid' # valid  BY <1>1, <1>3, <3>1, <3>3, TokenNat
      <3> QED  BY <3>2, <3>3
    <2> QED  BY <2>1 DEF PromotingOK
  <1> QED  BY <1>5, <1>6, <1>7, <1>9, <1>10, <1>11 DEF Kept

-----------------------------------------------------------------------------
(* The invariant, and what it implies.                                     *)

IInv == Connected /\ Kept

LEMMA InitIInv ==
  ASSUME BoundAssumption, AttemptAssumption, Init
  PROVE  IInv
  <1>1. \A a \in Attempt : attempts[a] = Idle  BY DEF Init
  <1>2. Idle \in AttemptRecord /\ Idle.at = "idle" /\ Idle.socket = "none"  BY IdleRecord
  <1>4. /\ runtime \in RuntimeRecord /\ runtime.current = NoAttempt
        /\ runtime.socket = NoAttempt /\ ~runtime.authenticated /\ ~runtime.timer
    <2>1. runtime = Generation(NoAttempt, FALSE)  BY DEF Init
    <2> QED  BY <2>1 DEF Generation, RuntimeRecord
  <1>5. AttemptsOK
    <2>1. attempts = [a \in Attempt |-> Idle]  BY DEF Init
    <2> HIDE DEF Idle
    <2> QED  BY <1>2, <2>1 DEF AttemptsOK
  <1>6. ConnectionShape
    <2>1. faults \in 0..MaxFaults  BY DEF Init, BoundAssumption
    <2>2. alarms \in [reconnect : BOOLEAN, membership : BOOLEAN]  BY DEF Init
    <2>3. /\ HistoryOK /\ worker = "booting" /\ refresh = "idle"
          /\ state \in {"not-configured", "offline"}
      BY DEF Init, HistoryOK
    <2> QED  BY <1>4, <1>5, <2>1, <2>2, <2>3 DEF ConnectionShape, RuntimeOK
  <1>7. worker = "booting"  BY DEF Init
  <1> HIDE DEF Idle
  <1>8. Link
    BY <1>1, <1>2, <1>4, <1>7
    DEF Link, SocketOK, OwnSocket, AuthOK, TimerOK, LostOK, RecoveryOK, HaltOK, At
  <1>9. Told  BY <1>4, <1>7 DEF Told, OnlineIsBacked, OnlineIsTold, NeverStranded
  <1>10. /\ record \in CredentialRecord /\ record.pending = 0 /\ record.phase = "none"
         /\ record.current \in {0, 1} /\ minted = 1 /\ valid = 1 /\ requests = {}
         /\ rotation.at = "idle" /\ minted \in Token
         /\ rotation \in [at : {"idle", "mark", "send"}, current : Token, pending : Token]
    <2>1. 0 \in Token /\ 1 \in Token  BY DEF BoundAssumption, Token
    <2>2. record = NoRecord \/ record = Enrolled  BY DEF Init
    <2> QED  BY <2>1, <2>2 DEF Init, NoRecord, Enrolled, NoRotation, CredentialRecord
  <1>11. CredentialShape  BY <1>10 DEF CredentialShape
  <1>12. TokensOK /\ BeforeOK /\ RequestsOK /\ RotationOK /\ CredentialKept
    BY <1>10 DEF TokensOK, RecordFits, BeforeOK, RequestsOK, RotationOK, CredentialKept
  <1>13. PromotingOK  BY <1>1, <1>2 DEF PromotingOK
  <1> QED  BY <1>6, <1>8, <1>9, <1>11, <1>12, <1>13 DEF IInv, Connected, Kept

LEMMA NextIInv ==
  ASSUME BoundAssumption, AttemptAssumption, IInv, [Next]_vars
  PROVE  IInv'
  <1>1. Connected /\ Kept /\ AttemptsOK /\ RecordFits /\ record \in CredentialRecord
    BY DEF IInv, Connected, ConnectionShape, Kept, TokensOK, CredentialShape
  <1>2. ASSUME NEW a \in Attempt, AttemptStep(a) \/ AttemptFault(a)
        PROVE  IInv'
    <2>1. CASE Promote(a)  BY <1>1, <2>1, PromoteStep, PromoteKept DEF IInv
    <2>2. CASE RelayAccepts(a)  BY <1>1, <2>2, AcceptStep, AcceptKept DEF IInv
    <2>3. CASE OpenThrows(a) \/ \E retried \in BOOLEAN : CheckFails(a, retried)
      <3>1. Connected'  BY <1>1, <2>3, OpenThrowsStep, RefusedStep
      <3>2. SamePromotions
        BY <2>3, ThrowPromotes DEF OpenThrows, CheckFails, Refused
      <3>3. UNCHANGED credentialVars /\ crossed' = crossed
        BY <2>3 DEF OpenThrows, CheckFails, Refused, Throw
      <3> QED  BY <1>1, <3>1, <3>2, <3>3, KeptQuiet DEF IInv
    <2>4. CASE \/ Superseded(a) \/ LoadCandidate(a) \/ NotConfigured(a) \/ Admit(a)
               \/ OpenSocket(a) \/ RelayRefuses(a) \/ SocketCloses(a) \/ SocketFails(a)
               \/ RejectFrame(a) \/ PromoteRefused(a) \/ ResumeFails(a) \/ Resume(a)
               \/ Announce(a)
      <3>1. SamePromotions  BY <1>1, <2>4, AttemptPromotes
      <3>2. UNCHANGED credentialVars /\ crossed' = crossed
        BY <2>4
        DEF Superseded, LoadCandidate, NotConfigured, Admit, OpenSocket, RelayRefuses,
            SocketCloses, SocketFails, Terminated, RejectFrame, PromoteRefused, ResumeFails,
            Resume, Announce
      <3>3. Kept'  BY <1>1, <3>1, <3>2, KeptQuiet
      <3>4. CASE RelayRefuses(a) \/ SocketCloses(a) \/ SocketFails(a)
        <4>1. attempts[a].socket # "none" /\ Terminated(a)
          BY <1>1, <3>4 DEF RelayRefuses, SocketCloses, SocketFails, Connected, Link, SocketOK, At
        <4>2. faults' \in 0..MaxFaults
          BY <1>1, <3>4, FaultStep DEF RelayRefuses, SocketCloses, SocketFails, Connected,
                                       ConnectionShape
        <4> QED  BY <1>1, <3>3, <4>1, <4>2, TerminatedStep DEF IInv
      <3> QED
        BY <1>1, <2>4, <3>3, <3>4, SupersededStep, CandidateStep, NotConfiguredStep, AdmitStep,
           OpenSocketStep, RejectStep, GivesUpStep, ResumeStep, AnnounceStep
        DEF IInv
    <2> QED  BY <1>2, <2>1, <2>2, <2>3, <2>4 DEF AttemptStep, AttemptFault
  <1>3. ASSUME NEW a \in Attempt,
               \/ Boot(a) \/ PageConnect(a) \/ EnsureAuthenticated(a) \/ AlarmFires(a)
        PROVE  IInv'
    <2>1. SamePromotions  BY <1>1, <1>3, WorkerPromotes
    <2>2. UNCHANGED credentialVars /\ crossed' = crossed
      BY <1>3 DEF Boot, PageConnect, EnsureAuthenticated, AlarmFires, Connect, StartConnection
    <2> QED  BY <1>1, <1>3, <2>1, <2>2, ConnectStep, AlarmStep, KeptQuiet DEF IInv
  <1>4. CASE \/ BootFails \/ FailClosed \/ Wake \/ Sleep
             \/ MembershipAlarm \/ StillActive \/ Legacy \/ Inactive
    <2>1. SamePromotions
      <3>1. CASE UNCHANGED attempts  BY <3>1 DEF SamePromotions
      <3>2. CASE FailClosed \/ Inactive \/ Sleep
        <4>1. ASSUME NEW a \in Attempt PROVE SamePromotions  BY <1>1, <3>2, WorkerPromotes
        <4> QED  BY <4>1 DEF SamePromotions
      <3> QED  BY <1>4, <3>1, <3>2 DEF BootFails, Wake, MembershipAlarm, StillActive, Legacy
    <2>2. UNCHANGED credentialVars /\ crossed' = crossed
      BY <1>4 DEF BootFails, FailClosed, Wake, Sleep, Unloaded, MembershipAlarm, StillActive,
                  Legacy, Inactive
    <2>3. Connected'
      BY <1>1, <1>4, BootFailsStep, FailClosedStep, UnloadStep, WorkerQuietStep, InactiveStep
    <2> QED  BY <1>1, <2>1, <2>2, <2>3, KeptQuiet DEF IInv
  <1>5. CASE Crash
    <2>1. Connected'  BY <1>1, <1>5, UnloadStep
    <2>2. SamePromotions
      <3>1. ASSUME NEW a \in Attempt PROVE SamePromotions  BY <1>1, <1>5, WorkerPromotes
      <3> QED  BY <3>1 DEF SamePromotions
    <2>3. UNCHANGED <<record, minted, valid, requests, crossed>> /\ rotation' = NoRotation
      BY <1>5 DEF Crash, Unloaded
    <2>4. rotation'.at = "idle"
          /\ rotation' \in [at : {"idle", "mark", "send"}, current : Token, pending : Token]
      BY <2>3 DEF NoRotation, Token, BoundAssumption
    <2>5. CredentialShape' /\ TokensOK' /\ BeforeOK' /\ CredentialKept'
      BY <1>1, <2>3, <2>4
      DEF Kept, CredentialShape, TokensOK, RecordFits, BeforeOK, CredentialKept
    <2>6. RequestsOK' /\ RotationOK' /\ PromotingOK'
      BY <1>1, <2>2, <2>3, <2>4
      DEF Kept, RequestsOK, RotationOK, PromotingOK, SamePromotions, Matches
    <2> QED  BY <2>1, <2>5, <2>6 DEF IInv, Kept
  <1>6. CASE Recover  BY <1>1, <1>6, RecoverStep, RecoverKept DEF IInv
  <1>7. CASE \E retried \in BOOLEAN : RecoveryFails(retried)
    <2>1. SamePromotions  BY <1>7, ThrowPromotes DEF RecoveryFails, Refused
    <2>2. UNCHANGED credentialVars /\ crossed' = crossed
      BY <1>7 DEF RecoveryFails, Refused, Throw
    <2> QED  BY <1>1, <1>7, <2>1, <2>2, RefusedStep, KeptQuiet DEF IInv
  <1>8. CASE \/ PrepareRotation \/ MarkRotationAttempted \/ SendRotation
             \/ \E r \in requests, arrives \in BOOLEAN : RelayHandles(r, arrives)
    BY <1>1, <1>8, RotationStep, PrepareKept, MarkKept, SendKept, HandlesKept DEF IInv
  <1>9. CASE UNCHANGED vars
    <2>1. SamePromotions /\ UNCHANGED credentialVars /\ crossed' = crossed
      BY <1>9 DEF vars, SamePromotions
    <2> QED  BY <1>1, <1>9, <2>1, RotationStep, KeptQuiet DEF IInv
  <1> QED  BY <1>2, <1>3, <1>4, <1>5, <1>6, <1>7, <1>8, <1>9 DEF Next

LEMMA Invariance == Spec => []IInv
  <1>1. Init => IInv  BY InitIInv, BoundAssumption, AttemptAssumption
  <1>2. IInv /\ [Next]_vars => IInv'  BY NextIInv, BoundAssumption, AttemptAssumption
  <1> QED  BY <1>1, <1>2, PTL DEF Spec

\* Every variable keeps its type, and the record is one the store accepts.
THEOREM ConnectionTypes == Spec => []TypeOK
  <1>1. IInv => TypeOK
    BY DEF IInv, Connected, ConnectionShape, AttemptsOK, RuntimeOK, HistoryOK, Kept,
           CredentialShape, TypeOK
  <1> QED  BY <1>1, Invariance, PTL

\* Overlapping attempts never hold more than the runtime's one socket.
THEOREM OneSocketOpen == Spec => []OneSocket
  <1>1. IInv => OneSocket  BY DEF IInv, Connected, Link, SocketOK, OneSocket
  <1> QED  BY <1>1, Invariance, PTL

\* A rotation, whatever is lost and whenever the worker stops, leaves the
\* record with the token the relay accepts among those that are tried.
THEOREM CredentialAlwaysKept == Spec => []CredentialKept
  <1>1. IInv => CredentialKept  BY DEF IInv, Kept
  <1> QED  BY <1>1, Invariance, PTL

\* "online" is written without a connection only while one is being opened.
THEOREM OnlineAlwaysBacked == Spec => []OnlineIsBacked
  <1>1. IInv => OnlineIsBacked  BY DEF IInv, Connected, Told
  <1> QED  BY <1>1, Invariance, PTL

\* A connection that is authenticated is written as online.
THEOREM OnlineAlwaysTold == Spec => []OnlineIsTold
  <1>1. IInv => OnlineIsTold  BY DEF IInv, Connected, Told
  <1> QED  BY <1>1, Invariance, PTL

\* No running worker is left without a connection, an attempt or an alarm.
THEOREM NeverLeftStranded == Spec => []NeverStranded
  <1>1. IInv => NeverStranded  BY DEF IInv, Connected, Told
  <1> QED  BY <1>1, Invariance, PTL
=============================================================================
