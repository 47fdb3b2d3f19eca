------------------------ MODULE TransportConnection -------------------------
(***************************************************************************)
(* The connection to the relay: TransportRuntime with the callbacks the    *)
(* service worker gives it, the alarm all its retries share, the stored    *)
(* credential with its rotation, and the relay's end of both.              *)
(*                                                                         *)
(* An attempt is one run of startConnection and of what its socket calls   *)
(* back.  Attempts overlap: a newer one takes the generation, and the      *)
(* older goes on to its next check.  A stop of the worker ends them all.   *)
(***************************************************************************)
EXTENDS Naturals, FiniteSets

CONSTANTS
  Attempt,     \* bound on the attempts in flight at once
  NoAttempt,   \* "none of them"
  MaxToken,    \* bound on the tokens ever made
  MaxRequests, \* bound on the rotation requests on their way
  MaxFaults    \* bound on failures, stops and connections asked for by pages

ASSUME AttemptAssumption == NoAttempt \notin Attempt
ASSUME BoundAssumption == MaxToken \in Nat /\ MaxToken > 0 /\ MaxRequests \in Nat
                          /\ MaxFaults \in Nat

VARIABLES
  attempts,   \* where each attempt is, its caller, candidate and socket
  runtime,    \* the fields of TransportRuntime
  alarms,     \* chrome.alarms: reconnection, and refresh of the membership
  state,      \* the connection state written for the pages
  worker,     \* the service worker: asleep, booting or running
  refresh,    \* refreshMembershipWhileOnline: idle or fetching
  record,     \* the credential record, current = 0 if there is none
  rotation,   \* rotateChromeTransportCredential: where it is and what it read
  minted,     \* the last token made
  valid,      \* the token the relay accepts
  requests,   \* rotation requests on their way to the relay
  faults,     \* failures so far
  gaveUp,     \* history: stopped on purpose, nothing asked for since
  swept,      \* history: a late onAuthenticated cleared the alarm of a loss
  clobbered,  \* history: a superseded start-up attempt wrote "offline"
  crossed     \* history: a connection promoted a token not its own

connectionVars == <<attempts, runtime, alarms, state, worker, refresh>>
credentialVars == <<record, rotation, minted, valid, requests>>
historyVars == <<gaveUp, swept, clobbered, crossed>>
vars == <<connectionVars, credentialVars, faults, historyVars>>

Idle == [at |-> "idle", by |-> "page", source |-> "current", token |-> 0,
         socket |-> "none"]
NoRotation == [at |-> "idle", current |-> 0, pending |-> 0]
NoRecord == [current |-> 0, pending |-> 0, phase |-> "none"]
Enrolled == [current |-> 1, pending |-> 0, phase |-> "none"]

(* The fields of the runtime when generation a begins; NoAttempt if it is  *)
(* one in which nothing runs.                                              *)
Generation(a, prefer) ==
  [current |-> a, socket |-> NoAttempt, sno1 |-> FALSE, authenticated |-> FALSE,
   timer |-> FALSE, prefer |-> prefer]

Init ==
  /\ attempts = [a \in Attempt |-> Idle]
  /\ runtime = Generation(NoAttempt, FALSE)
  /\ alarms = [reconnect |-> FALSE, membership |-> FALSE]
  /\ state \in {"not-configured", "offline"}
  /\ worker = "booting" /\ refresh = "idle"
  /\ record \in {NoRecord, Enrolled}
  /\ rotation = NoRotation /\ minted = 1 /\ valid = 1 /\ requests = {}
  /\ faults = 0
  /\ gaveUp = FALSE /\ swept = FALSE
  /\ clobbered = FALSE /\ crossed = FALSE

-----------------------------------------------------------------------------
At(a, step) == attempts[a].at = step
Current(a) == runtime.current = a
IsAuthenticated ==
  /\ runtime.socket # NoAttempt
  /\ runtime.authenticated
  /\ attempts[runtime.socket].socket = "open"

(* The attempt whose generation this is has not come to its end.           *)
InProgress ==
  /\ runtime.current # NoAttempt
  /\ attempts[runtime.current].at \notin {"idle", "up"}

Fault == faults < MaxFaults /\ faults' = faults + 1

(* A closed socket ends an attempt that only waited for its events; one    *)
(* inside an await goes on to the check after it.                          *)
Unplugged(r) ==
  IF r.at \in {"waiting", "up"} THEN Idle ELSE [r EXCEPT !.socket = "none"]
Close(as, a) == [as EXCEPT ![a] = Unplugged(@)]
CloseSocket ==
  IF runtime.socket = NoAttempt THEN attempts ELSE Close(attempts, runtime.socket)

(* cancelReconnect: the alarm is cleared only if the runtime set it.       *)
CancelReconnect(al) == [al EXCEPT !.reconnect = @ /\ ~runtime.timer]

(* Attempts are alike: a new one is the first that is free.                *)
Free == CHOOSE a \in Attempt : At(a, "idle")

StartConnectionTimerKept(a, by) ==
  /\ At(a, "idle") /\ a = Free
  /\ attempts' = [CloseSocket EXCEPT ![a] = [Idle EXCEPT !.at = "recovering", !.by = by]]
  /\ runtime' = [Generation(a, runtime.prefer) EXCEPT !.timer = runtime.timer]
  /\ gaveUp' = FALSE /\ swept' = FALSE
  /\ UNCHANGED <<clobbered, crossed>>
StartConnection(a, by) ==
  /\ At(a, "idle") /\ a = Free
  /\ attempts' = [CloseSocket EXCEPT ![a] = [Idle EXCEPT !.at = "recovering", !.by = by]]
  /\ runtime' = Generation(a, runtime.prefer)
  /\ gaveUp' = FALSE /\ swept' = FALSE
  /\ UNCHANGED <<clobbered, crossed>>

Connect(a, by) == StartConnection(a, by) /\ alarms' = CancelReconnect(alarms)

StopRuntimeUntold ==
  /\ attempts' = CloseSocket
  /\ runtime' = Generation(NoAttempt, runtime.prefer)
  /\ state' = state
  /\ gaveUp' = TRUE

(* failClosed and disconnect.                                              *)
StopRuntime ==
  /\ attempts' = CloseSocket
  /\ runtime' = Generation(NoAttempt, runtime.prefer)
  /\ state' = "offline"
  /\ gaveUp' = TRUE

-----------------------------------------------------------------------------
(* Worker and callers of the runtime                                       *)

Boot(a) ==
  /\ worker = "booting"
  /\ worker' = "running"
  /\ Connect(a, "boot")
  /\ UNCHANGED <<state, refresh, credentialVars, faults>>

(* initializeWorker fails before it connects.                              *)
BootFails ==
  /\ worker = "booting" /\ Fault
  /\ worker' = "running"
  /\ state' = "offline"
  /\ gaveUp' = (gaveUp \/ ~(InProgress \/ runtime.authenticated))
  /\ clobbered' = (clobbered \/ runtime.authenticated)
  /\ UNCHANGED <<attempts, runtime, alarms, refresh, credentialVars, swept, crossed>>

(* transport-connect of a page; a resend that needs a connection.          *)
PageConnect(a) ==
  /\ worker # "asleep" /\ Fault
  /\ Connect(a, "page")
  /\ UNCHANGED <<state, worker, refresh, credentialVars>>

EnsureAuthenticated(a) ==
  /\ worker # "asleep" /\ ~IsAuthenticated /\ Fault
  /\ Connect(a, "resend")
  /\ UNCHANGED <<state, worker, refresh, credentialVars>>

Woken == IF worker = "asleep" THEN "booting" ELSE worker

(* The alarm: retryTransportWithWatchdog.  That it comes before a running  *)
(* attempt got its answers is a fault, for it is a minute late then.       *)
AlarmFires(a) ==
  /\ alarms.reconnect
  /\ IF InProgress THEN Fault ELSE UNCHANGED faults
  /\ worker' = Woken
  /\ alarms' = [alarms EXCEPT !.reconnect = FALSE]
  /\ IF IsAuthenticated
       THEN /\ runtime' = [runtime EXCEPT !.timer = FALSE]
            /\ UNCHANGED <<attempts, historyVars>>
       ELSE StartConnection(a, "alarm")
  /\ UNCHANGED <<state, refresh, credentialVars>>

(* A security failure anywhere in the worker.                              *)
FailClosed ==
  /\ worker # "asleep" /\ Fault
  /\ StopRuntime
  /\ alarms' = CancelReconnect(alarms)
  /\ UNCHANGED <<worker, refresh, credentialVars, swept, clobbered, crossed>>

(* A page or a message wakes the worker; idle, it is put to sleep.         *)
Wake ==
  /\ worker = "asleep" /\ worker' = "booting"
  /\ UNCHANGED <<attempts, runtime, alarms, state, refresh, credentialVars, faults,
                 historyVars>>

Unloaded ==
  /\ worker' = "asleep"
  /\ attempts' = [a \in Attempt |-> Idle]
  /\ runtime' = Generation(NoAttempt, FALSE)
  /\ refresh' = "idle"
  /\ UNCHANGED <<alarms, state, record, minted, valid, requests, gaveUp, swept, clobbered,
                 crossed>>

Sleep ==
  /\ worker = "running" /\ refresh = "idle"
  /\ \A a \in Attempt : At(a, "idle")
  /\ Unloaded
  /\ UNCHANGED <<rotation, faults>>

Crash ==
  /\ worker # "asleep" /\ Fault
  /\ rotation' = NoRotation
  /\ Unloaded

-----------------------------------------------------------------------------
(* An attempt                                                              *)

Reaches(a, step) == attempts' = [attempts EXCEPT ![a].at = step]

(* The candidate has served; the delivery cursor is read.                  *)
ReadsCursor(a) ==
  attempts' = [attempts EXCEPT ![a] = [Idle EXCEPT !.at = "resuming",
                                                   !.socket = attempts[a].socket]]

(* The attempt returns to its caller, which schedules the watchdog; a      *)
(* resend does not.                                                        *)
Watched(a, up) ==
  IF attempts[a].by = "resend" THEN alarms ELSE [alarms EXCEPT !.reconnect = ~up]
Return(a) ==
  /\ attempts' = [attempts EXCEPT ![a] = Idle]
  /\ alarms' = Watched(a, IsAuthenticated)

(* recoverMembershipBeforeConnect: attempts that come while a recovery is  *)
(* under way join it.  It went well: nothing to recover, or an approved    *)
(* enrolment became a credential.                                          *)
Recovering == {a \in Attempt : At(a, "recovering")}
Recover ==
  /\ Recovering # {}
  /\ record' \in {record} \cup (IF record = NoRecord THEN {Enrolled} ELSE {})
  /\ attempts' = [a \in Attempt |->
       IF a \in Recovering THEN [attempts[a] EXCEPT !.at = "loading"] ELSE attempts[a]]
  /\ UNCHANGED <<runtime, alarms, state, worker, refresh, rotation, minted, valid, requests,
                 faults, historyVars>>

(* The check of the generation after each await before the socket.         *)
Superseded(a) ==
  /\ attempts[a].at \in {"loading", "checking"}
  /\ ~Current(a)
  /\ Return(a)
  /\ UNCHANGED <<runtime, state, worker, refresh, credentialVars, faults, historyVars>>

ThrowUnchecked(S, retried) ==
  /\ attempts' = [a \in Attempt |-> IF a \in S THEN Idle ELSE attempts[a]]
  /\ state' = "offline"
  /\ gaveUp' = (gaveUp \/ (runtime.current \in S /\ ~retried))
  /\ UNCHANGED <<worker, refresh, credentialVars, swept, clobbered, crossed>>

(* Attempts S throw before they have a socket.  When the network failed or *)
(* approval is still pending, the worker sets the alarm; otherwise nothing *)
(* retries.  The catch of initializeWorker writes "offline" for an attempt *)
(* of its own, superseded or not.                                          *)
Throw(S, retried) ==
  /\ attempts' = [a \in Attempt |-> IF a \in S THEN Idle ELSE attempts[a]]
  /\ state' = IF \E a \in S : Current(a) \/ attempts[a].by = "boot" THEN "offline" ELSE state
  /\ gaveUp' = (gaveUp \/ (runtime.current \in S /\ ~retried))
  /\ clobbered' = (clobbered \/ (runtime.authenticated /\ \E a \in S : attempts[a].by = "boot"))
  /\ UNCHANGED <<worker, refresh, credentialVars, swept, crossed>>

Refused(S, retried) ==
  /\ Fault
  /\ alarms' = [alarms EXCEPT !.reconnect = @ \/ retried]
  /\ Throw(S, retried)
  /\ UNCHANGED runtime

RecoveryFails(retried) == Recovering # {} /\ Refused(Recovering, retried)
CheckFails(a, retried) == At(a, "checking") /\ Refused({a}, retried)

Candidate(prefer) ==
  IF ~prefer /\ record.phase = "attempted"
    THEN [source |-> "pending", token |-> record.pending]
    ELSE [source |-> "current", token |-> record.current]

LoadCandidate(a) ==
  /\ At(a, "loading") /\ Current(a) /\ record.current # 0
  /\ attempts' = [attempts EXCEPT ![a].at = "checking",
                                  ![a].source = Candidate(runtime.prefer).source,
                                  ![a].token = Candidate(runtime.prefer).token]
  /\ UNCHANGED <<runtime, alarms, state, worker, refresh, credentialVars, faults, historyVars>>

NotConfigured(a) ==
  /\ At(a, "loading") /\ Current(a) /\ record.current = 0
  /\ state' = "not-configured"
  /\ Return(a)
  /\ UNCHANGED <<runtime, worker, refresh, credentialVars, faults, historyVars>>

Admit(a) ==
  /\ At(a, "checking") /\ Current(a)
  /\ state' = "connecting"
  /\ Reaches(a, "opening")
  /\ UNCHANGED <<runtime, alarms, worker, refresh, credentialVars, faults, historyVars>>

OpenSocketUnchecked(a) ==
  /\ At(a, "opening")
  /\ attempts' = [attempts EXCEPT ![a].at = "waiting", ![a].by = "page",
                                  ![a].socket = "open"]
  /\ runtime' = [runtime EXCEPT !.socket = a]
  /\ alarms' = Watched(a, FALSE)
  /\ UNCHANGED <<state, worker, refresh, credentialVars, faults, historyVars>>

(* No check after the state was written: the socket of a superseded        *)
(* attempt is opened, and closed again at once.                            *)
OpenSocket(a) ==
  /\ At(a, "opening")
  /\ IF Current(a)
       THEN /\ attempts' = [attempts EXCEPT ![a].at = "waiting", ![a].by = "page",
                                            ![a].socket = "open"]
            /\ runtime' = [runtime EXCEPT !.socket = a]
            /\ alarms' = Watched(a, FALSE)
       ELSE Return(a) /\ UNCHANGED runtime
  /\ UNCHANGED <<state, worker, refresh, credentialVars, faults, historyVars>>

(* scheduleReconnect                                                       *)
ScheduleReconnect == alarms' = [alarms EXCEPT !.reconnect = @ \/ ~runtime.timer]

OpenThrows(a) ==
  /\ At(a, "opening") /\ Fault
  /\ Throw({a}, TRUE)
  /\ IF Current(a)
       THEN ScheduleReconnect /\ runtime' = [runtime EXCEPT !.timer = TRUE]
       ELSE UNCHANGED <<alarms, runtime>>

-----------------------------------------------------------------------------
(* The socket                                                              *)

TerminatedPreferringCurrent(a) ==
  /\ attempts' = Close(attempts, a)
  /\ runtime' = [runtime EXCEPT
       !.prefer = ~runtime.sno1 \/ @,
       !.socket = NoAttempt, !.authenticated = FALSE, !.sno1 = FALSE, !.timer = TRUE]
  /\ state' = "offline"
  /\ ScheduleReconnect
  /\ UNCHANGED <<worker, refresh, credentialVars, historyVars>>

(* handleSocketTermination                                                 *)
Terminated(a) ==
  /\ attempts' = Close(attempts, a)
  /\ runtime' = [runtime EXCEPT
       !.prefer = IF runtime.sno1 THEN @ ELSE attempts[a].source = "pending",
       !.socket = NoAttempt, !.authenticated = FALSE, !.sno1 = FALSE, !.timer = TRUE]
  /\ state' = "offline"
  /\ ScheduleReconnect
  /\ UNCHANGED <<worker, refresh, credentialVars, historyVars>>

RelayAccepts(a) ==
  /\ At(a, "waiting") /\ attempts[a].token = valid
  /\ IF attempts[a].source = "pending"
       THEN Reaches(a, "promoting") /\ runtime' = [runtime EXCEPT !.sno1 = TRUE]
       ELSE ReadsCursor(a) /\ runtime' = [runtime EXCEPT !.sno1 = TRUE, !.prefer = FALSE]
  /\ UNCHANGED <<alarms, state, worker, refresh, credentialVars, faults, historyVars>>

RelayRefuses(a) ==
  /\ At(a, "waiting") /\ attempts[a].token # valid
  /\ Terminated(a)
  /\ UNCHANGED faults

(* The network, the relay or a heartbeat without answer ends the socket.   *)
SocketFails(a) ==
  /\ attempts[a].socket # "none" /\ Fault
  /\ Terminated(a)

(* A frame after SNO1 is refused: close is asked for, and told later.      *)
RejectFrame(a) ==
  /\ attempts[a].socket = "open" /\ runtime.sno1 /\ Fault
  /\ attempts' = [attempts EXCEPT ![a].socket = "closing"]
  /\ UNCHANGED <<runtime, alarms, state, worker, refresh, credentialVars, historyVars>>

SocketCloses(a) ==
  /\ attempts[a].socket = "closing"
  /\ Terminated(a)
  /\ UNCHANGED faults

-----------------------------------------------------------------------------
(* completeAuthentication                                                  *)

Ends(a) ==
  /\ attempts' = [attempts EXCEPT ![a] = Idle]
  /\ UNCHANGED <<runtime, alarms, state, gaveUp>>

(* A promotion or a cursor that fails closes the connection, unless it was *)
(* superseded.                                                             *)
Abandon(a) ==
  IF Current(a)
    THEN /\ attempts' = [attempts EXCEPT ![a] = Idle]
         /\ runtime' = Generation(NoAttempt, runtime.prefer)
         /\ alarms' = CancelReconnect(alarms)
         /\ state' = "offline"
         /\ gaveUp' = TRUE
    ELSE Ends(a)

Live(a) == Current(a) /\ runtime.socket = a

PromoteKeeping(a) ==
  /\ At(a, "promoting") /\ record.phase = "attempted"
  /\ record' = [record EXCEPT !.current = record.pending]
  /\ crossed' = (crossed \/ record.pending # attempts[a].token)
  /\ IF Live(a)
       THEN ReadsCursor(a) /\ UNCHANGED <<runtime, alarms, state, gaveUp>>
       ELSE Ends(a)
  /\ UNCHANGED <<worker, refresh, rotation, minted, valid, requests, faults, swept, clobbered>>

(* promotePending, of whichever token is pending now, and the check after. *)
Promote(a) ==
  /\ At(a, "promoting") /\ record.phase = "attempted"
  /\ record' = [current |-> record.pending, pending |-> 0, phase |-> "none"]
  /\ crossed' = (crossed \/ record.pending # attempts[a].token)
  /\ IF Live(a)
       THEN /\ ReadsCursor(a)
            /\ runtime' = [runtime EXCEPT !.prefer = FALSE]
            /\ UNCHANGED <<alarms, state, gaveUp>>
       ELSE Ends(a)
  /\ UNCHANGED <<worker, refresh, rotation, minted, valid, requests, faults, swept,
                 clobbered>>

PromoteRefused(a) ==
  /\ At(a, "promoting") /\ record.phase # "attempted"
  /\ Abandon(a)
  /\ UNCHANGED <<worker, refresh, credentialVars, faults, swept, clobbered, crossed>>

(* The cursor is read and SNC1 sent.                                       *)
Resume(a) ==
  /\ At(a, "resuming")
  /\ IF Live(a)
       THEN /\ Reaches(a, "publishing")
            /\ runtime' = [runtime EXCEPT !.authenticated = TRUE]
            /\ state' = "online"
            /\ clobbered' = FALSE
            /\ UNCHANGED <<alarms, gaveUp>>
       ELSE Ends(a) /\ UNCHANGED clobbered
  /\ UNCHANGED <<worker, refresh, credentialVars, faults, swept, crossed>>

ResumeFails(a) ==
  /\ At(a, "resuming") /\ Fault
  /\ Abandon(a)
  /\ UNCHANGED <<worker, refresh, credentialVars, swept, clobbered, crossed>>

(* onAuthenticated, after "online" was written, whatever has happened      *)
(* meanwhile: it clears the alarm even if a loss has just set it.          *)
Announce(a) ==
  /\ At(a, "publishing")
  /\ attempts' = IF attempts[a].socket = "none" THEN [attempts EXCEPT ![a] = Idle]
                 ELSE [attempts EXCEPT ![a].at = "up"]
  /\ alarms' = [reconnect |-> FALSE, membership |-> TRUE]
  /\ swept' = (swept \/ (alarms.reconnect /\ ~runtime.authenticated
                           /\ (runtime.timer \/ ~InProgress)))
  /\ UNCHANGED <<runtime, state, worker, refresh, credentialVars, faults, gaveUp,
                 clobbered, crossed>>

-----------------------------------------------------------------------------
(* refreshMembershipWhileOnline                                            *)

MembershipAlarm ==
  /\ alarms.membership /\ refresh = "idle"
  /\ worker = "asleep" \/ state = "online"
  /\ worker' = Woken
  /\ refresh' = IF state = "online" THEN "fetching" ELSE "idle"
  /\ UNCHANGED <<attempts, runtime, alarms, state, credentialVars, faults, historyVars>>

(* Still active, or the network failed and the next minute asks again.     *)
StillActive ==
  /\ refresh = "fetching" /\ refresh' = "idle"
  /\ UNCHANGED <<attempts, runtime, alarms, state, worker, credentialVars, faults, historyVars>>

(* A credential without a stored membership is no longer asked about.      *)
Legacy ==
  /\ refresh = "fetching" /\ refresh' = "idle" /\ Fault
  /\ alarms' = [alarms EXCEPT !.membership = FALSE]
  /\ UNCHANGED <<attempts, runtime, state, worker, credentialVars, historyVars>>

(* Removed, or any answer but a lost one: a failing relay counts as well.  *)
Inactive ==
  /\ refresh = "fetching" /\ refresh' = "idle" /\ Fault
  /\ StopRuntime
  /\ alarms' = [CancelReconnect(alarms) EXCEPT !.membership = FALSE]
  /\ UNCHANGED <<worker, credentialVars, swept, clobbered, crossed>>

-----------------------------------------------------------------------------
(* Rotation of the credential                                              *)

(* In a page: loadRotation, or a new token and prepareRotation.            *)
PrepareRotation ==
  /\ rotation.at = "idle" /\ record.current # 0 /\ Cardinality(requests) < MaxRequests
  /\ IF record.phase # "none"
       THEN UNCHANGED <<record, minted>>
       ELSE /\ minted < MaxToken
            /\ minted' = minted + 1
            /\ record' = [record EXCEPT !.pending = minted', !.phase = "prepared"]
  /\ rotation' = [at |-> "mark", current |-> record.current, pending |-> record'.pending]
  /\ UNCHANGED <<connectionVars, valid, requests, faults, historyVars>>

MarkRotationUnstored ==
  /\ rotation.at = "mark"
  /\ rotation' = [rotation EXCEPT !.at = "send"]
  /\ UNCHANGED <<record, connectionVars, minted, valid, requests, faults, historyVars>>

MarkRotationAttempted ==
  /\ rotation.at = "mark"
  /\ IF record.phase # "none" /\ record.pending = rotation.pending
       THEN /\ record' = [record EXCEPT !.phase = "attempted"]
            /\ rotation' = [rotation EXCEPT !.at = "send"]
       ELSE UNCHANGED record /\ rotation' = NoRotation
  /\ UNCHANGED <<connectionVars, minted, valid, requests, faults, historyVars>>

(* The answer is reported to the caller and changes nothing.               *)
SendRotation ==
  /\ rotation.at = "send"
  /\ requests' = requests \cup {[current |-> rotation.current, pending |-> rotation.pending]}
  /\ rotation' = NoRotation
  /\ UNCHANGED <<connectionVars, record, minted, valid, faults, historyVars>>

(* The relay, at any time later or never, commits the pending token of a   *)
(* request made with the one it accepts.                                   *)
RelayHandles(r, arrives) ==
  /\ r \in requests
  /\ requests' = requests \ {r}
  /\ valid' = IF arrives /\ r.current = valid THEN r.pending ELSE valid
  /\ UNCHANGED <<connectionVars, record, rotation, minted, faults, historyVars>>

-----------------------------------------------------------------------------
AttemptStep(a) ==
  \/ Superseded(a) \/ LoadCandidate(a) \/ NotConfigured(a) \/ Admit(a)
  \/ OpenSocket(a) \/ RelayAccepts(a) \/ RelayRefuses(a) \/ SocketCloses(a)
  \/ Promote(a) \/ PromoteRefused(a) \/ Resume(a) \/ Announce(a)

AttemptFault(a) ==
  \/ \E retried \in BOOLEAN : CheckFails(a, retried)
  \/ OpenThrows(a) \/ SocketFails(a) \/ RejectFrame(a) \/ ResumeFails(a)

Next ==
  \/ \E a \in Attempt : AttemptStep(a) \/ AttemptFault(a) \/ Boot(a) \/ PageConnect(a)
                        \/ EnsureAuthenticated(a) \/ AlarmFires(a)
  \/ Recover \/ \E retried \in BOOLEAN : RecoveryFails(retried)
  \/ BootFails \/ FailClosed \/ Wake \/ Sleep \/ Crash
  \/ MembershipAlarm \/ StillActive \/ Legacy \/ Inactive
  \/ PrepareRotation \/ MarkRotationAttempted \/ SendRotation
  \/ \E r \in requests, arrives \in BOOLEAN : RelayHandles(r, arrives)

Spec == Init /\ [][Next]_vars

(* Calls return, sockets report, alarms fire, and Chrome puts an idle      *)
(* worker to sleep: some such step is taken as long as one can be.         *)
Progress ==
  \/ \E a \in Attempt : AttemptStep(a) \/ Boot(a) \/ AlarmFires(a)
  \/ Recover \/ Sleep

Fairness == WF_vars(Progress) /\ WF_vars(MembershipAlarm \/ StillActive)

FairSpec == Spec /\ Fairness

-----------------------------------------------------------------------------
Token == 0..MaxToken
Steps == {"idle", "recovering", "loading", "checking", "opening", "waiting", "promoting",
          "resuming", "publishing", "up"}

AttemptRecord ==
  [at : Steps, by : {"boot", "page", "alarm", "resend"}, source : {"current", "pending"},
   token : Token, socket : {"none", "open", "closing"}]
RuntimeRecord ==
  [current : Attempt \cup {NoAttempt}, socket : Attempt \cup {NoAttempt}, sno1 : BOOLEAN,
   authenticated : BOOLEAN, timer : BOOLEAN, prefer : BOOLEAN]
CredentialRecord ==
  [current : Token, pending : Token, phase : {"none", "prepared", "attempted"}]

(* Besides the types, the record is one validateRecord accepts.            *)
TypeOK ==
  /\ attempts \in [Attempt -> AttemptRecord]
  /\ runtime \in RuntimeRecord
  /\ alarms \in [reconnect : BOOLEAN, membership : BOOLEAN]
  /\ state \in {"not-configured", "offline", "connecting", "online"}
  /\ worker \in {"asleep", "booting", "running"} /\ refresh \in {"idle", "fetching"}
  /\ record \in CredentialRecord
  /\ (record.pending = 0) <=> (record.phase = "none")
  /\ record.pending # 0 => record.pending # record.current
  /\ rotation \in [at : {"idle", "mark", "send"}, current : Token, pending : Token]
  /\ minted \in Token /\ valid \in Token
  /\ requests \subseteq [current : Token, pending : Token]
  /\ faults \in 0..MaxFaults
  /\ {gaveUp, swept, clobbered, crossed} \subseteq BOOLEAN

(* However attempts overlap, at most one socket is not closed, and it is   *)
(* the runtime's own, of the newest attempt.                               *)
OneSocket == \A a \in Attempt : attempts[a].socket # "none" => Live(a)

(* The token the relay accepts is one the next connections try: at no      *)
(* moment of a rotation, whatever was lost, is the device locked out.  The *)
(* exception: two connections opened with one pending token, a rotation    *)
(* between their acceptances, and the second promotes the newer token.     *)
CredentialKept ==
  record.current # 0 /\ ~crossed =>
    \/ valid = record.current
    \/ record.phase = "attempted" /\ valid = record.pending

(* "online" is left written by a stopped worker or a replaced connection   *)
(* only until the attempt under way has come to its candidate and check.   *)
OnlineIsBacked ==
  worker = "running" /\ state = "online" =>
    \/ runtime.authenticated
    \/ /\ runtime.current # NoAttempt
       /\ attempts[runtime.current].at \in {"recovering", "loading", "checking"}

(* An authenticated connection is written as online, so that the minute's  *)
(* refresh of the membership runs: no failure of an attempt it superseded  *)
(* overwrites it, but one of the attempt made at start.                    *)
OnlineIsTold == runtime.authenticated => state = "online" \/ clobbered

(* A running worker without connection and without an attempt under way    *)
(* has the alarm set, unless it stopped on purpose; but for a loss right   *)
(* after "online" was written, whose alarm onAuthenticated clears.         *)
NeverStranded ==
  worker = "running" /\ record.current # 0 /\ ~InProgress /\ ~runtime.authenticated =>
    alarms.reconnect \/ gaveUp \/ swept

(* Nothing will wake the worker: it was stopped before it set an alarm.    *)
Dormant == worker = "asleep" /\ ~alarms.reconnect /\ ~alarms.membership

(* A rotation was asked for that the relay has not committed: the pending  *)
(* token is refused, and the turn of the current one is known to the       *)
(* runtime alone.                                                          *)
Undecided == record.phase = "attempted" /\ valid # record.pending

(* Once failures end, a device with a credential is online again, if need  *)
(* be by way of a stop and a start of the worker, unless the transport     *)
(* stopped on purpose or no alarm is left to wake it.                      *)
Recovers ==
  record.current # 0 ~> (runtime.authenticated \/ gaveUp \/ crossed \/ Dormant \/ Undecided)
=============================================================================
