---------------------------- MODULE RelayDelivery ----------------------------
(***************************************************************************)
(* Durable relay delivery to one Chrome extension: the inbound half of     *)
(* TransportRuntime, the two receivers, IndexedDbRelayDeliveryCursorStore  *)
(* and SnapshotRecoveryCoordinator, with the relay and the Android sources *)
(* as their environment (relay-delivery-v1.md).                            *)
(*                                                                         *)
(* Every await between two durable effects is a step of its own.  What     *)
(* runs between two awaits is a task: a record that a crash of the MV3     *)
(* worker erases, and that outlives the connection which started it.       *)
(***************************************************************************)
EXTENDS Integers, Sequences, FiniteSets

CONSTANTS
  Source,      \* a source is a device together with its identity key
  Kind,        \* the kinds of deliveries: "notification", "result"
  None,        \* no source
  MaxLog,      \* bound on durable deliveries submitted
  MaxGen,      \* bound on connections started
  MaxFaults,   \* bound on drops, crashes, failed steps and user reconnects
  MaxReq,      \* bound on recovery sessions bound
  MaxEvict,    \* bound on evictions by the relay
  MaxRevoke,   \* bound on sources revoked from the roster
  MaxAlarms    \* bound on wakes of the recovery retry alarm

ASSUME KindAssumption == Kind \subseteq {"notification", "result"}
ASSUME NoneAssumption == None \notin Source
ASSUME BoundAssumption ==
  {MaxLog, MaxGen, MaxFaults, MaxReq, MaxEvict, MaxRevoke, MaxAlarms} \subseteq Nat

VARIABLES
  log,        \* relay: the deliveries, in delivery id order
  evicted,    \* relay: every unacknowledged id up to this one is gone
  relayAck,   \* relay: greatest id this recipient acknowledged
  link,       \* relay: its side of the current connection
  down, up,   \* frames in flight on the current connection
  requests,   \* snapshot requests in flight to the sources
  roster,     \* sources the durable authority roster certifies
  gen,        \* generation of the current connection
  sock,       \* state of the current socket
  halted,     \* failClosed stopped reconnecting
  tasks,      \* asynchronous work of the worker
  committed,  \* cursor store: committedDeliveryId
  required,   \* cursor store: snapshotRequiredHighWater
  recovery,   \* cursor store: recovery session
  applied,    \* deliveries whose business effect is durable
  replay,     \* deliveries whose replay tuple is recorded
  covered,    \* per source: log length its reconciled snapshot reflects
  waived,     \* deliveries skipped by a reset that no snapshot can restore
  nextReq, faults, evictions, revocations, alarms

relayVars == <<log, evicted, relayAck, evictions>>
netVars == <<link, down, up>>
connVars == <<gen, sock, halted>>
cursorVars == <<committed, required, recovery>>
effectVars == <<applied, replay, covered, waived>>
vars == <<relayVars, netVars, requests, roster, connVars, tasks, cursorVars,
          effectVars, nextReq, faults, revocations, alarms>>

Event == [src : Source, kind : Kind]

NoReset == -1
NoSession == [req |-> 0, expected |-> {}, completed |-> {}]
Idle == [mode |-> "idle", next |-> 0, marked |-> FALSE]

Session == [req : Nat, expected : SUBSET Source, completed : SUBSET Source]
DownFrame == [type : {"delivery", "caughtup", "reset", "manifest"},
              n : Nat, src : Source \cup {None}, req : Nat]
UpFrame == [type : {"resume", "ack"}, n : Nat]
Owner == {"inbound", "begin", "retry", "alarm"}
Pc == {"deliver", "finish", "commit", "ack", "compare", "require", "reconcile",
       "record", "load", "bind", "ask", "advance", "resume"}
Task == [owner : Owner, gen : Nat, pc : Pc, n : Nat,
         src : Source \cup {None}, req : Nat, ask : SUBSET Source]

Larger(a, b) == IF a >= b THEN a ELSE b

Frame(type, n, src, req) == [type |-> type, n |-> n, src |-> src, req |-> req]

NewTask(owner, g, pc, n) ==
  [owner |-> owner, gen |-> g, pc |-> pc, n |-> n, src |-> None, req |-> 0, ask |-> {}]

Authenticated == sock = "authenticated"

\* Mutant of Complete: one answer is enough.
CompleteByAnySource(session) == session.expected = {} \/ session.completed # {}

Complete(session) == session.completed = session.expected

(***************************************************************************)
(* The fate of a delivery is settled when its effect is durable, when a    *)
(* reconciled snapshot of its source reflects it, or when a reset gave it  *)
(* up because no snapshot source can restore it.                           *)
(***************************************************************************)
SettledBy(i) ==
  \/ i \in applied
  \/ log[i].kind = "notification" /\ i <= covered[log[i].src]
  \/ i \in waived

Settled == {i \in 1..Len(log) : SettledBy(i)}

Init ==
  /\ log = <<>> /\ evicted = 0 /\ relayAck = 0 /\ link = Idle
  /\ down = <<>> /\ up = <<>> /\ requests = {} /\ roster = Source
  /\ gen = 0 /\ sock = "closed" /\ halted = FALSE /\ tasks = {}
  /\ committed = 0 /\ required = NoReset /\ recovery = NoSession
  /\ applied = {} /\ replay = {} /\ covered = [s \in Source |-> 0] /\ waived = {}
  /\ nextReq = 0 /\ faults = 0 /\ evictions = 0 /\ revocations = 0 /\ alarms = 0

-----------------------------------------------------------------------------
(* The relay and the sources (external).                                   *)

Submit(e) ==
  /\ Len(log) < MaxLog
  /\ e.src \in roster
  /\ log' = Append(log, e)
  /\ UNCHANGED <<evicted, relayAck, evictions, netVars, requests, roster, connVars,
                 tasks, cursorVars, effectVars, nextReq, faults, revocations, alarms>>

Evict ==
  LET oldest == Larger(evicted, relayAck) + 1 IN
  /\ evictions < MaxEvict /\ oldest <= Len(log)
  /\ evicted' = oldest /\ evictions' = evictions + 1
  /\ UNCHANGED <<log, relayAck, netVars, requests, roster, connVars, tasks,
                 cursorVars, effectVars, nextReq, faults, revocations, alarms>>

RelayResume ==
  /\ up # <<>> /\ Head(up).type = "resume"
  /\ LET from == Larger(Head(up).n, relayAck) IN
     /\ relayAck' = from
     /\ IF from < evicted
        THEN /\ down' = Append(down, Frame("reset", Len(log), None, 0))
             /\ link' = [mode |-> "reset", next |-> 0, marked |-> FALSE]
        ELSE /\ link' = [mode |-> "live", next |-> from + 1, marked |-> FALSE]
             /\ UNCHANGED down
  /\ up' = Tail(up)
  /\ UNCHANGED <<log, evicted, evictions, requests, roster, connVars, tasks,
                 cursorVars, effectVars, nextReq, faults, revocations, alarms>>

RelayAcknowledge ==
  /\ up # <<>> /\ Head(up).type = "ack"
  /\ relayAck' = Larger(Head(up).n, relayAck)
  /\ up' = Tail(up)
  /\ UNCHANGED <<log, evicted, evictions, link, down, requests, roster, connVars, tasks,
                 cursorVars, effectVars, nextReq, faults, revocations, alarms>>

RelayDeliver ==
  /\ link.mode = "live" /\ link.next <= Len(log)
  /\ IF link.next > evicted
     THEN /\ down' = Append(down, Frame("delivery", link.next, None, 0))
          /\ link' = [link EXCEPT !.next = @ + 1]
     ELSE /\ down' = Append(down, Frame("reset", Len(log), None, 0))
          /\ link' = [link EXCEPT !.mode = "reset"]
  /\ UNCHANGED <<relayVars, up, requests, roster, connVars, tasks,
                 cursorVars, effectVars, nextReq, faults, revocations, alarms>>

RelayCaughtUp ==
  /\ link.mode = "live" /\ link.next > Len(log) /\ ~link.marked
  /\ down' = Append(down, Frame("caughtup", Len(log), None, 0))
  /\ link' = [link EXCEPT !.marked = TRUE]
  /\ UNCHANGED <<relayVars, up, requests, roster, connVars, tasks,
                 cursorVars, effectVars, nextReq, faults, revocations, alarms>>

\* A source answers with its current upserts and then the manifest, all of them
\* online only: the answer is lost when this device is not connected.
SourceAnswer(r) ==
  /\ r \in requests
  /\ requests' = requests \ {r}
  /\ down' = IF link.mode = "idle" THEN down
             ELSE Append(down, Frame("manifest", Len(log), r.src, r.req))
  /\ UNCHANGED <<relayVars, link, up, roster, connVars, tasks,
                 cursorVars, effectVars, nextReq, faults, revocations, alarms>>

Revoke(s) ==
  /\ revocations < MaxRevoke /\ s \in roster
  /\ roster' = roster \ {s} /\ revocations' = revocations + 1
  /\ UNCHANGED <<relayVars, netVars, requests, connVars, tasks,
                 cursorVars, effectVars, nextReq, faults, alarms>>

-----------------------------------------------------------------------------
(* Connections.                                                            *)

\* What a task becomes: ts is empty when it ends.
Continue(t, ts) == tasks' = (tasks \ {t}) \cup ts

Disconnected ==
  /\ sock' = "closed" /\ link' = Idle /\ down' = <<>> /\ up' = <<>>

\* startConnection: a new generation replaces the socket; tasks of the old one
\* go on until they next look at the generation.
StartConnection ==
  /\ gen < MaxGen
  /\ gen' = gen + 1 /\ sock' = "opening" /\ halted' = FALSE
  /\ link' = [Idle EXCEPT !.mode = "open"] /\ down' = <<>> /\ up' = <<>>
  /\ UNCHANGED <<relayVars, tasks, requests, roster, cursorVars, effectVars, nextReq, revocations, alarms>>

ScheduledConnect ==
  /\ sock = "closed" /\ ~halted
  /\ StartConnection
  /\ UNCHANGED faults

UserConnect ==
  /\ faults < MaxFaults /\ faults' = faults + 1
  /\ StartConnection

\* completeAuthentication: SNO1 arrived, the cursor is read and sent as SNC1, and
\* onAuthenticated starts a retry of the recovery session.
Authenticate ==
  /\ sock = "opening" /\ sock' = "authenticated"
  /\ up' = Append(up, [type |-> "resume", n |-> committed])
  /\ tasks' = tasks \cup {NewTask("retry", 0, "load", 0)}
  /\ UNCHANGED <<relayVars, link, down, requests, roster, gen, halted, cursorVars,
                 effectVars, nextReq, faults, revocations, alarms>>

Drop ==
  /\ sock # "closed" /\ faults < MaxFaults /\ faults' = faults + 1
  /\ Disconnected
  /\ UNCHANGED <<relayVars, requests, roster, gen, halted, tasks, cursorVars,
                 effectVars, nextReq, revocations, alarms>>

\* The browser stops the MV3 worker; the next start connects.
Crash ==
  /\ faults < MaxFaults /\ faults' = faults + 1
  /\ Disconnected
  /\ tasks' = {} /\ halted' = FALSE
  /\ UNCHANGED <<relayVars, requests, roster, gen, cursorVars,
                 effectVars, nextReq, revocations, alarms>>

\* A task throws.  An inbound one closes its own connection, which reconnects;
\* begin and the alarm's retry stop the transport (failClosed), except that the
\* watchdog alarm of a connection not yet authenticated survives and reconnects.
Throw(t) ==
  /\ Continue(t, {})
  /\ CASE t.owner = "inbound" /\ t.gen = gen -> Disconnected /\ UNCHANGED halted
       [] t.owner \in {"begin", "alarm"} ->
            Disconnected /\ halted' \in {TRUE, Authenticated \/ halted}
       [] OTHER -> UNCHANGED <<sock, link, down, up, halted>>
  /\ UNCHANGED gen

\* IndexedDB or another local step fails under a task.
LocalFailure(t) ==
  /\ faults < MaxFaults /\ faults' = faults + 1
  /\ Throw(t)
  /\ UNCHANGED <<relayVars, requests, roster, cursorVars, effectVars, nextReq, revocations, alarms>>

-----------------------------------------------------------------------------
(* The inbound queue of the current connection, one frame at a time.       *)

FirstStep(type) ==
  CASE type = "delivery" -> "deliver"
    [] type = "caughtup" -> "compare"
    [] type = "reset" -> "require"
    [] type = "manifest" -> "reconcile"

\* Mutant of NextFrame: frames are processed concurrently.
NextFrameConcurrently ==
  /\ sock # "closed" /\ down # <<>>
  /\ LET f == Head(down) IN
     tasks' = tasks \cup {[owner |-> "inbound", gen |-> gen, pc |-> FirstStep(f.type),
                           n |-> f.n, src |-> f.src, req |-> f.req, ask |-> {}]}
  /\ down' = Tail(down)
  /\ UNCHANGED <<relayVars, link, up, requests, roster, connVars, cursorVars,
                 effectVars, nextReq, faults, revocations, alarms>>

NextFrame ==
  /\ sock # "closed" /\ down # <<>>
  /\ \A t \in tasks : ~(t.owner = "inbound" /\ t.gen = gen)
  /\ LET f == Head(down) IN
     tasks' = tasks \cup {[owner |-> "inbound", gen |-> gen, pc |-> FirstStep(f.type),
                           n |-> f.n, src |-> f.src, req |-> f.req, ask |-> {}]}
  /\ down' = Tail(down)
  /\ UNCHANGED <<relayVars, link, up, requests, roster, connVars, cursorVars,
                 effectVars, nextReq, faults, revocations, alarms>>

\* First durable step of a delivery.  The notification receiver reconciles the
\* state before it consumes the replay tuple, the result receiver after.
Deliver(t) ==
  /\ t.pc = "deliver"
  /\ IF log[t.n].src \in roster
     THEN /\ Continue(t, {[t EXCEPT !.pc = "finish"]})
          /\ IF log[t.n].kind = "notification"
             THEN applied' = applied \cup {t.n} /\ UNCHANGED replay
             ELSE replay' = replay \cup {t.n} /\ UNCHANGED applied
          /\ UNCHANGED <<netVars, connVars>>
     ELSE Throw(t) /\ UNCHANGED <<applied, replay>>
  /\ UNCHANGED <<relayVars, requests, roster, cursorVars, covered, waived,
                 nextReq, faults, revocations, alarms>>

\* Mutant of Finish: the relay hears of the delivery before it is committed.
FinishAcknowledging(t) ==
  /\ t.pc = "finish"
  /\ Continue(t, {[t EXCEPT !.pc = "commit"]})
  /\ applied' = applied \cup {t.n} /\ replay' = replay \cup {t.n}
  /\ up' = IF t.gen = gen /\ Authenticated
           THEN Append(up, [type |-> "ack", n |-> t.n]) ELSE up
  /\ UNCHANGED <<relayVars, link, down, requests, roster, connVars, cursorVars,
                 covered, waived, nextReq, faults, revocations, alarms>>

\* Mutant of Finish: a replayed notification is an error.
FinishRejectingReplay(t) ==
  /\ t.pc = "finish"
  /\ IF log[t.n].kind = "notification" /\ t.n \in replay
     THEN Throw(t) /\ UNCHANGED <<applied, replay>>
     ELSE /\ Continue(t, {[t EXCEPT !.pc = "commit"]})
          /\ applied' = applied \cup {t.n} /\ replay' = replay \cup {t.n}
          /\ UNCHANGED <<netVars, connVars>>
  /\ UNCHANGED <<relayVars, requests, roster, cursorVars,
                 covered, waived, nextReq, faults, revocations, alarms>>

\* A duplicate replay tuple is tolerated: a redelivery finishes what a crash cut.
Finish(t) ==
  /\ t.pc = "finish"
  /\ Continue(t, {[t EXCEPT !.pc = "commit"]})
  /\ applied' = applied \cup {t.n} /\ replay' = replay \cup {t.n}
  /\ UNCHANGED <<relayVars, netVars, requests, roster, connVars, cursorVars,
                 covered, waived, nextReq, faults, revocations, alarms>>

\* Mutant of Commit: the delivery need not follow the cursor.
CommitAnywhere(t) ==
  /\ t.pc = "commit"
  /\ IF required = NoReset
     THEN /\ committed' = t.n
          /\ Continue(t, {[t EXCEPT !.pc = "ack"]})
          /\ UNCHANGED <<netVars, connVars>>
     ELSE Throw(t) /\ UNCHANGED committed
  /\ UNCHANGED <<relayVars, requests, roster, required, recovery, effectVars,
                 nextReq, faults, revocations, alarms>>

Commit(t) ==
  /\ t.pc = "commit"
  /\ IF required = NoReset /\ t.n \in {committed, committed + 1}
     THEN /\ committed' = t.n
          /\ Continue(t, {[t EXCEPT !.pc = "ack"]})
          /\ UNCHANGED <<netVars, connVars>>
     ELSE Throw(t) /\ UNCHANGED committed
  /\ UNCHANGED <<relayVars, requests, roster, required, recovery, effectVars,
                 nextReq, faults, revocations, alarms>>

Acknowledge(t) ==
  /\ t.pc = "ack"
  /\ up' = IF t.gen = gen /\ Authenticated
           THEN Append(up, [type |-> "ack", n |-> t.n]) ELSE up
  /\ Continue(t, {})
  /\ UNCHANGED <<relayVars, link, down, requests, roster, connVars, cursorVars,
                 effectVars, nextReq, faults, revocations, alarms>>

MarkerMatches(t) == required = NoReset /\ committed = t.n

CompareMarker(t) ==
  /\ t.pc = "compare"
  /\ IF MarkerMatches(t)
     THEN Continue(t, {}) /\ UNCHANGED <<netVars, connVars>>
     ELSE Throw(t)
  /\ UNCHANGED <<relayVars, requests, roster, cursorVars, effectVars,
                 nextReq, faults, revocations, alarms>>

\* Mutant of RequireSnapshot: a session outlives the high-water it was bound to.
RequireKeepingSession(t) ==
  /\ t.pc = "require"
  /\ IF t.n >= committed
     THEN /\ required' = Larger(required, t.n)
          /\ Continue(t, {NewTask("begin", t.gen, "load", t.n)})
          /\ UNCHANGED <<recovery, netVars, connVars>>
     ELSE Throw(t) /\ UNCHANGED <<required, recovery>>
  /\ UNCHANGED <<relayVars, requests, roster, committed, effectVars,
                 nextReq, faults, revocations, alarms>>

\* requireSnapshot: another high-water drops the session; onHistoryGap begins.
RequireSnapshot(t) ==
  /\ t.pc = "require"
  /\ IF t.n >= committed
     THEN /\ IF t.n = required
             THEN UNCHANGED <<required, recovery>>
             ELSE required' = Larger(required, t.n) /\ recovery' = NoSession
          /\ Continue(t, {NewTask("begin", t.gen, "load", t.n)})
          /\ UNCHANGED <<netVars, connVars>>
     ELSE Throw(t) /\ UNCHANGED <<required, recovery>>
  /\ UNCHANGED <<relayVars, requests, roster, committed, effectVars,
                 nextReq, faults, revocations, alarms>>

-----------------------------------------------------------------------------
(* Snapshot manifests and the recovery coordinator.                        *)

Reconcile(t) ==
  /\ t.pc = "reconcile"
  /\ IF t.src \in roster
     THEN /\ covered' = [covered EXCEPT ![t.src] = Larger(@, t.n)]
          /\ Continue(t, {[t EXCEPT !.pc = "record"]})
          /\ UNCHANGED <<netVars, connVars>>
     ELSE Throw(t) /\ UNCHANGED covered
  /\ UNCHANGED <<relayVars, requests, roster, cursorVars, applied, replay, waived,
                 nextReq, faults, revocations, alarms>>

\* acceptSnapshotRecovery goes on only while the connection is authenticated.
Accepting(t) == IF Authenticated THEN {[t EXCEPT !.pc = "advance"]} ELSE {}

\* observeManifest: a manifest of another session is ignored.
RecordSource(t) ==
  /\ t.pc = "record"
  /\ IF recovery.req # t.req
     THEN Continue(t, {}) /\ UNCHANGED <<recovery, netVars, connVars>>
     ELSE IF t.src \in recovery.expected
     THEN /\ recovery' = [recovery EXCEPT !.completed = @ \cup {t.src}]
          /\ Continue(t, IF Complete(recovery') THEN Accepting(t) ELSE {})
          /\ UNCHANGED <<netVars, connVars>>
     ELSE Throw(t) /\ UNCHANGED recovery
  /\ UNCHANGED <<relayVars, requests, roster, committed, required, effectVars,
                 nextReq, faults, revocations, alarms>>

\* What the reset passes over and no captured source can restore.
Unrestorable ==
  {i \in (committed + 1)..required :
     log[i].kind = "result" \/ log[i].src \notin recovery.expected}

\* Mutant of Advance: the session is not checked again in the accepting transaction.
AdvanceUnchecked(t) ==
  /\ t.pc = "advance"
  /\ committed' = required /\ required' = NoReset /\ recovery' = NoSession
  /\ waived' = waived \cup Unrestorable
  /\ Continue(t, {[t EXCEPT !.pc = "resume", !.n = required]})
  /\ UNCHANGED <<relayVars, netVars, connVars, requests, roster, applied, replay, covered,
                 nextReq, faults, revocations, alarms>>

Advance(t) ==
  /\ t.pc = "advance"
  /\ IF recovery.req = t.req /\ Complete(recovery)
     THEN /\ committed' = required /\ required' = NoReset /\ recovery' = NoSession
          /\ waived' = waived \cup Unrestorable
          /\ Continue(t, {[t EXCEPT !.pc = "resume", !.n = required]})
          /\ UNCHANGED <<netVars, connVars>>
     ELSE Throw(t) /\ UNCHANGED <<cursorVars, waived>>
  /\ UNCHANGED <<relayVars, requests, roster, applied, replay, covered,
                 nextReq, faults, revocations, alarms>>

ResumeAfterReset(t) ==
  /\ t.pc = "resume"
  /\ up' = IF Authenticated THEN Append(up, [type |-> "resume", n |-> t.n]) ELSE up
  /\ Continue(t, {})
  /\ UNCHANGED <<relayVars, link, down, requests, roster, connVars, cursorVars,
                 effectVars, nextReq, faults, revocations, alarms>>

\* How a loaded session goes on: accept it when complete, ask the others otherwise.
Pursue(t, session) ==
  IF Complete(session)
  THEN Accepting([t EXCEPT !.req = session.req])
  ELSE {[t EXCEPT !.pc = "ask", !.req = session.req,
                  !.ask = session.expected \ session.completed]}

LoadForBegin(t) ==
  /\ t.pc = "load" /\ t.owner = "begin"
  /\ IF required = t.n
     THEN /\ Continue(t, IF recovery = NoSession
                         THEN {[t EXCEPT !.pc = "bind", !.ask = roster]}
                         ELSE Pursue(t, recovery))
          /\ UNCHANGED <<netVars, connVars>>
     ELSE Throw(t)
  /\ UNCHANGED <<relayVars, requests, roster, cursorVars, effectVars,
                 nextReq, faults, revocations, alarms>>

\* beginSnapshotRecovery with a fresh request id: refused once a session is bound.
Bind(t) ==
  /\ t.pc = "bind"
  /\ nextReq < MaxReq /\ nextReq' = nextReq + 1
  /\ IF required = t.n /\ recovery = NoSession
     THEN LET session == [req |-> nextReq + 1, expected |-> t.ask, completed |-> {}] IN
          /\ recovery' = session
          /\ Continue(t, Pursue(t, session))
          /\ UNCHANGED <<netVars, connVars>>
     ELSE Throw(t) /\ UNCHANGED recovery
  /\ UNCHANGED <<relayVars, requests, roster, committed, required, effectVars,
                 faults, revocations, alarms>>

\* sendIncompleteRequests: an uncertified source stops it with the rest unasked.
Ask(t) ==
  /\ t.pc = "ask"
  /\ \E asked \in SUBSET (t.ask \cap roster) :
       /\ requests' = IF Authenticated
                      THEN requests \cup {[src |-> s, req |-> t.req] : s \in asked}
                      ELSE requests
       /\ IF t.ask \subseteq roster
          THEN asked = t.ask /\ Continue(t, {}) /\ UNCHANGED <<netVars, connVars>>
          ELSE Throw(t)
  /\ UNCHANGED <<relayVars, roster, cursorVars, effectVars, nextReq, faults, revocations, alarms>>

LoadForRetry(t) ==
  /\ t.pc = "load" /\ t.owner \in {"retry", "alarm"}
  /\ Continue(t, IF recovery = NoSession THEN {} ELSE Pursue(t, recovery))
  /\ UNCHANGED <<relayVars, netVars, requests, roster, connVars, cursorVars,
                 effectVars, nextReq, faults, revocations, alarms>>

\* The alarm of an active session.  Its period is a minute: what the round before
\* put on the wire has arrived or is lost.
RetryAlarm ==
  /\ alarms < MaxAlarms /\ alarms' = alarms + 1
  /\ recovery # NoSession /\ requests = {} /\ down = <<>>
  /\ \A t \in tasks : t.owner = "inbound"
  /\ tasks' = tasks \cup {NewTask("alarm", 0, "load", 0)}
  /\ UNCHANGED <<relayVars, netVars, requests, roster, connVars, cursorVars,
                 effectVars, nextReq, faults, revocations>>

-----------------------------------------------------------------------------

Relay == RelayResume \/ RelayAcknowledge \/ RelayDeliver \/ RelayCaughtUp

Step(t) ==
  \/ Deliver(t) \/ Finish(t) \/ Commit(t) \/ Acknowledge(t)
  \/ CompareMarker(t) \/ RequireSnapshot(t)
  \/ Reconcile(t) \/ RecordSource(t) \/ Advance(t) \/ ResumeAfterReset(t)
  \/ LoadForBegin(t) \/ Bind(t) \/ Ask(t) \/ LoadForRetry(t)

Next ==
  \/ \E e \in Event : Submit(e)
  \/ Evict
  \/ Relay
  \/ \E r \in requests : SourceAnswer(r)
  \/ \E s \in Source : Revoke(s)
  \/ ScheduledConnect \/ UserConnect \/ Authenticate
  \/ Drop \/ Crash
  \/ \E t \in tasks : LocalFailure(t)
  \/ NextFrame
  \/ \E t \in tasks : Step(t)
  \/ RetryAlarm

Spec == Init /\ [][Next]_vars

\* The relay, the browser's alarms and the worker's own tasks run on; losses,
\* submissions, evictions and users are not obliged to happen.
FairSpec ==
  /\ Spec
  /\ WF_vars(Relay) /\ WF_vars(ScheduledConnect) /\ WF_vars(Authenticate) /\ WF_vars(NextFrame)
  /\ \A o \in Owner : WF_vars(\E t \in tasks : t.owner = o /\ Step(t))
  /\ \A s \in Source : WF_vars(\E r \in requests : r.src = s /\ SourceAnswer(r))
  /\ WF_vars(RetryAlarm)

-----------------------------------------------------------------------------
(* Properties.                                                             *)

\* Every variable has its type.
TypeRelay == log \in Seq(Event) /\ {evicted, relayAck, evictions} \subseteq Nat
TypeNet ==
  /\ link \in [mode : {"idle", "open", "live", "reset"}, next : Nat, marked : BOOLEAN]
  /\ down \in Seq(DownFrame) /\ up \in Seq(UpFrame)
TypeConn ==
  gen \in Nat /\ sock \in {"closed", "opening", "authenticated"} /\ halted \in BOOLEAN
TypeTasks == tasks \subseteq Task
TypeCursor == committed \in Nat /\ required \in Nat \cup {NoReset} /\ recovery \in Session
TypeEffects ==
  /\ applied \subseteq Nat /\ replay \subseteq Nat /\ waived \subseteq Nat
  /\ covered \in [Source -> Nat]
TypeRest ==
  /\ requests \subseteq [src : Source, req : Nat] /\ roster \subseteq Source
  /\ {nextReq, faults, revocations, alarms} \subseteq Nat

TypeOK == TypeRelay /\ TypeNet /\ TypeConn /\ TypeTasks /\ TypeCursor /\ TypeEffects /\ TypeRest

\* No delivery is passed over in silence: whatever the interleaving of dead
\* connections, crashes and resets, every id up to the committed cursor is
\* settled (relay-delivery-v1.md, Resume cursor and Snapshot required).
NoSilentLoss == \A i \in 1..committed : i \in Settled

\* The relay never hears an acknowledgement, in SNC1 or SNC2, beyond what the
\* recipient has durably committed, not even one in flight across a crash.
AckWithinCommitted ==
  /\ relayAck <= committed
  /\ \A k \in 1..Len(up) : up[k].n <= committed

\* The committed cursor only grows, and by more than one only through a reset
\* whose every captured source answered.
CursorAdvances ==
  [][/\ committed' >= committed
     /\ committed' > committed + 1 => recovery # NoSession /\ Complete(recovery)]_vars

\* Every frame of a well-behaved relay fits the cursor it is checked against: the
\* live connection is never closed over a delivery or a marker.  It holds while
\* history is retained; a reset breaks it (see README, Findings).
FramesFit ==
  \A t \in tasks : t.gen = gen /\ sock # "closed" =>
    /\ t.pc = "compare" => MarkerMatches(t)
    /\ t.pc = "commit" => required = NoReset /\ t.n \in {committed, committed + 1}

\* Every delivery is eventually committed and the relay eventually knows, over any
\* bounded number of lost connections, crashes and failed steps.
EventuallyAcknowledged ==
  \A i \in 1..MaxLog : Len(log) >= i ~> relayAck >= i

\* The detailed system keeps the promise of DeliveryContract.
Contract == INSTANCE DeliveryContract WITH
  allocated <- Len(log), settled <- Settled, forgotten <- relayAck

KeepsContract == Contract!Spec
=============================================================================
