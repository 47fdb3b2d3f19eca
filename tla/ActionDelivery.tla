--------------------------- MODULE ActionDelivery ---------------------------
(***************************************************************************)
(* An action or reply from Chrome to a phone and its result back:          *)
(* IndexedDbPendingActionStore, ActionInvokeOutbox, ActionResultAckOutbox  *)
(* and the service worker's alarms around them; the phone is environment.  *)
(*                                                                         *)
(* Timers count down in seconds.  Each outbox runs one operation at a time *)
(* (runExclusive); an operation is a job that a crash of the worker erases *)
(* between any two of its effects.  Alarms outlive the worker.             *)
(***************************************************************************)
EXTENDS Integers, Sequences, FiniteSets

CONSTANTS
  Key,         \* idempotency keys, one logical operation each
  OneShot,     \* those of replies, sent once
  None,        \* no key
  MaxAttempts, \* MAXIMUM_ATTEMPTS
  MaxEntries,  \* capacity of the pending action store
  MinAlarm,    \* the shortest delay Chrome accepts for an alarm
  MaxAsks,     \* bound on requests of the user
  Events,      \* kinds of unforced events that may occur
  MaxEvents    \* bound on how many occur

ASSUME KeyAssumption == OneShot \subseteq Key /\ {None, "notice"} \cap Key = {}
ASSUME BoundAssumption == MaxAsks \in Nat /\ MaxEvents \in Nat
ASSUME EventAssumption ==
  Events \subseteq {"notice", "resend", "repeat", "drop", "throw", "crash", "revoke"}
ASSUME AttemptAssumption ==
  MaxAttempts \in Nat \ {0} /\ MaxEntries \in Nat /\ MinAlarm \in Nat \ {0}

VARIABLES
  rec,          \* the pending action store
  invokeJob, invokeWanted, invokeAlarm,  \* the invoke outbox, its callers, its alarm
  ackJob, ackWanted, ackAlarm,           \* the same of the acknowledgement outbox
  inbox,        \* the result or notification being received
  conn,         \* the transport: online, offline, or halted by failClosed
  approved,     \* the phone is an authorized action recipient
  toPhone,      \* frames on their way to the phone
  results,      \* results durable at the relay and not committed here
  executed,     \* phone: operations performed
  outbox,       \* phone: results not acknowledged
  sent, asked,  \* invoke frames sent and registrations made, by key
  extra,        \* resends, failures and crashes so far
  events        \* unforced events so far

invokeVars == <<invokeJob, invokeWanted, invokeAlarm>>
ackVars == <<ackJob, ackWanted, ackAlarm>>
phoneVars == <<executed, outbox>>
countVars == <<sent, asked, extra, events>>
vars == <<rec, invokeVars, ackVars, inbox, conn, approved, toPhone, results,
          phoneVars, countVars>>

Never == -1
NoRecord == [state |-> "none", attempts |-> 0, due |-> Never, ackAttempts |-> 0, ackDue |-> Never]
Idle == [pc |-> "idle", owner |-> "none", key |-> None, n |-> 0, due |-> {},
         wake |-> Never, refused |-> FALSE]

\* Callers of a drain: an alarm or the authentication, and a received result,
\* which waits for it.  Wake-ups behind a running drain coalesce.
Caller == {"wake", "inbound"}

\* The delay after the attempt numbered n from 0; the exponent stops at 6.
Power == <<1, 2, 4, 8, 16, 32, 64>>
RetryDelay(n, cap) ==
  LET power == Power[IF n < 6 THEN n + 1 ELSE 7] IN IF power < cap THEN power ELSE cap
InvokeCap == 60
AckCap == 8

Sooner(a, b) == IF a = Never \/ b < a THEN b ELSE a
Alarm(delay) == IF delay < MinAlarm THEN MinAlarm ELSE delay

Invoke(k) == [type |-> "invoke", key |-> k]
Ack(k) == [type |-> "ack", key |-> k]

Init ==
  /\ rec = [k \in Key |-> NoRecord]
  /\ invokeJob = Idle /\ invokeWanted = {} /\ invokeAlarm = Never
  /\ ackJob = Idle /\ ackWanted = {} /\ ackAlarm = Never
  /\ inbox = None /\ conn = "offline" /\ approved = TRUE
  /\ toPhone = {} /\ results = {} /\ executed = {} /\ outbox = {}
  /\ sent = [k \in Key |-> 0] /\ asked = [k \in Key |-> 0]
  /\ extra = 0 /\ events = 0

Occurs(event) == event \in Events /\ events < MaxEvents /\ events' = events + 1

-----------------------------------------------------------------------------
(* Attempts.  Record numbers are those of the store; a job computes delays  *)
(* from the number it read when it started.                                 *)

\* When the next attempt is due after attempt n + 1: never, once all are used.
Attempted(n, delay, maximum) == IF n + 1 >= maximum THEN Never ELSE delay

\* Mutant of Counted: the attempt is scheduled and not counted.
CountedNot(r, delay, maximum) == [r EXCEPT !.due = Attempted(r.attempts, delay, maximum)]

\* recordInvokeSendAttempt, of a record without a result.
Counted(r, delay, maximum) ==
  [r EXCEPT !.attempts = r.attempts + 1, !.due = Attempted(r.attempts, delay, maximum)]

\* Mutant of CountedAck: the acknowledgement is retried without end.
CountedAckAgain(r, delay) ==
  [r EXCEPT !.ackAttempts = r.ackAttempts + 1, !.ackDue = delay]

\* recordAckSendAttempt.
CountedAck(r, delay) ==
  [r EXCEPT !.ackAttempts = r.ackAttempts + 1,
            !.ackDue = Attempted(r.ackAttempts, delay, MaxAttempts)]

\* A result that arrived meanwhile ends the bookkeeping of the invocation.
RecordInvoke(k, delay, maximum) ==
  IF rec[k].state # "pending" THEN rec
  ELSE [rec EXCEPT ![k] = Counted(rec[k], delay, maximum)]

RecordAck(k, delay) == [rec EXCEPT ![k] = CountedAck(rec[k], delay)]

Send(frame) == toPhone' = toPhone \cup {frame}
SendInvoke(k) == Send(Invoke(k)) /\ sent' = [sent EXCEPT ![k] = @ + 1]

-----------------------------------------------------------------------------
(* The invoke outbox: a request of the user.                                *)

\* A reply has a key of its own; another operation may be asked for again.
Registrable(k) ==
  IF rec[k].state = "none"
  THEN Cardinality({j \in Key : rec[j].state # "none"}) < MaxEntries
  ELSE rec[k].state = "pending" /\ k \notin OneShot

\* queueAndSend or sendOnce up to the registration, which precedes the frame.
Queue(k) ==
  /\ invokeJob = Idle /\ approved
  /\ Cardinality({q \in Key \X (1..MaxAsks) : q[2] <= asked[q[1]]}) < MaxAsks
  /\ Registrable(k)
  /\ rec' = [rec EXCEPT ![k] = [NoRecord EXCEPT !.state = "pending", !.due = 0]]
  /\ asked' = [asked EXCEPT ![k] = @ + 1]
  /\ invokeJob' = [Idle EXCEPT !.pc = "send", !.owner = "user", !.key = k]
  /\ UNCHANGED <<invokeWanted, invokeAlarm, ackVars, inbox, conn, approved, toPhone,
                 results, phoneVars, sent, extra, events>>

\* WebSocket.send takes the frame, or refuses it and nothing is recorded.
QueueSend ==
  /\ invokeJob.pc = "send"
  /\ \/ /\ conn = "online"
        /\ SendInvoke(invokeJob.key)
        /\ invokeJob' = [invokeJob EXCEPT !.pc = "record"]
     \/ /\ conn # "online"
        /\ invokeJob' = Idle
        /\ UNCHANGED <<toPhone, sent>>
  /\ UNCHANGED <<rec, invokeWanted, invokeAlarm, ackVars, inbox, conn, approved, results,
                 phoneVars, asked, extra, events>>

\* The attempt is recorded; only a retried operation asks for an alarm.
QueueRecord ==
  /\ invokeJob.pc = "record" /\ invokeJob.owner = "user"
  /\ LET k == invokeJob.key IN
     IF k \in OneShot
     THEN rec' = RecordInvoke(k, 1, 1) /\ invokeJob' = Idle
     ELSE /\ rec' = RecordInvoke(k, 1, MaxAttempts)
          /\ invokeJob' = [Idle EXCEPT !.pc = "end", !.owner = "user", !.wake = 1]
  /\ UNCHANGED <<invokeWanted, invokeAlarm, ackVars, inbox, conn, approved, toPhone,
                 results, phoneVars, countVars>>

\* resendExact: one fresh envelope of the stored operation, completed or not.
Resend(k) ==
  /\ invokeJob = Idle /\ approved /\ conn = "online"
  /\ rec[k].state # "none" /\ k \notin OneShot
  /\ SendInvoke(k)
  /\ invokeJob' = [Idle EXCEPT !.pc = "resent", !.owner = "user", !.key = k]
  /\ Occurs("resend") /\ extra' = extra + 1
  /\ UNCHANGED <<rec, invokeWanted, invokeAlarm, ackVars, inbox, conn, approved, results,
                 phoneVars, asked>>

\* recordExplicitInvokeResend: counts the attempt, leaves the schedule.
CountedResend(r) == [r EXCEPT !.attempts = r.attempts + 1]

ResendRecord ==
  /\ invokeJob.pc = "resent"
  /\ rec' = [rec EXCEPT ![invokeJob.key] = CountedResend(@)]
  /\ invokeJob' = Idle
  /\ UNCHANGED <<invokeWanted, invokeAlarm, ackVars, inbox, conn, approved, toPhone,
                 results, phoneVars, countVars>>

-----------------------------------------------------------------------------
(* Draining.  The due entries and their attempt numbers are read once, at   *)
(* the start; each is then resolved, encrypted, sent and recorded.          *)

\* Mutant of DueInvokes: replies are retried like other operations.
DueInvokesOfAnyMode ==
  {<<k, rec[k].attempts>> : k \in {j \in Key : rec[j].state = "pending" /\ rec[j].due = 0}}

DueInvokes ==
  {<<k, rec[k].attempts>> :
     k \in {j \in Key \ OneShot : rec[j].state = "pending" /\ rec[j].due = 0}}

DueAcks ==
  {<<k, rec[k].ackAttempts>> :
     k \in {j \in Key : rec[j].state = "completed" /\ rec[j].ackDue = 0}}

Draining(owner, due) == [Idle EXCEPT !.pc = "next", !.owner = owner, !.due = due]
Taking(job, e) == [job EXCEPT !.pc = "record", !.key = e[1], !.n = e[2], !.due = @ \ {e}]

\* Mutant of Recorded: off by one in the attempts left.
RecordedEarly(job, delay) ==
  [job EXCEPT !.pc = "next", !.key = None, !.n = 0,
              !.wake = IF job.n + 2 < MaxAttempts THEN Sooner(@, delay) ELSE @]

\* The next wake-up counts the entries sent that have attempts left.
Recorded(job, delay) ==
  [job EXCEPT !.pc = "next", !.key = None, !.n = 0,
              !.wake = IF job.n + 1 < MaxAttempts THEN Sooner(@, delay) ELSE @]

InvokeDrainStart(c) ==
  /\ invokeJob = Idle /\ c \in invokeWanted
  /\ invokeWanted' = invokeWanted \ {c}
  /\ invokeJob' = Draining(c, DueInvokes)
  /\ UNCHANGED <<rec, invokeAlarm, ackVars, inbox, conn, approved, toPhone, results,
                 phoneVars, countVars>>

\* An entry whose recipient is not authorized is passed over; a refusal ends the drain.
InvokeDrainSend(e) ==
  /\ invokeJob.pc = "next" /\ e \in invokeJob.due
  /\ \/ /\ approved /\ conn = "online"
        /\ SendInvoke(e[1])
        /\ invokeJob' = Taking(invokeJob, e)
     \/ /\ approved /\ conn # "online"
        /\ invokeJob' = [invokeJob EXCEPT !.due = {}, !.refused = TRUE]
        /\ UNCHANGED <<toPhone, sent>>
     \/ /\ ~approved
        /\ invokeJob' = [invokeJob EXCEPT !.due = @ \ {e}]
        /\ UNCHANGED <<toPhone, sent>>
  /\ UNCHANGED <<rec, invokeWanted, invokeAlarm, ackVars, inbox, conn, approved, results,
                 phoneVars, asked, extra, events>>

InvokeDrainRecord ==
  /\ invokeJob.pc = "record" /\ invokeJob.owner # "user"
  /\ LET delay == RetryDelay(invokeJob.n, InvokeCap) IN
     /\ rec' = RecordInvoke(invokeJob.key, delay, MaxAttempts)
     /\ invokeJob' = Recorded(invokeJob, delay)
  /\ UNCHANGED <<invokeWanted, invokeAlarm, ackVars, inbox, conn, approved, toPhone,
                 results, phoneVars, countVars>>

\* The alarm replaces the one of before; without a wake-up that one stays.
InvokeEnd ==
  /\ \/ invokeJob.pc = "end"
     \/ invokeJob.pc = "next" /\ invokeJob.due = {}
  /\ invokeAlarm' = CASE invokeJob.wake # Never -> Alarm(invokeJob.wake)
                      [] invokeJob.wake = Never /\ invokeJob.refused -> Alarm(1)
                      [] OTHER -> invokeAlarm
  /\ invokeJob' = Idle
  /\ UNCHANGED <<rec, invokeWanted, ackVars, inbox, conn, approved, toPhone, results,
                 phoneVars, countVars>>

-----------------------------------------------------------------------------
(* The acknowledgement outbox: the same, over completed operations.         *)

AckDrainStart(c) ==
  /\ ackJob = Idle /\ c \in ackWanted
  /\ ackWanted' = ackWanted \ {c}
  /\ ackJob' = Draining(c, DueAcks)
  /\ UNCHANGED <<rec, invokeVars, ackAlarm, inbox, conn, approved, toPhone, results,
                 phoneVars, countVars>>

AckDrainSend(e) ==
  /\ ackJob.pc = "next" /\ e \in ackJob.due
  /\ \/ /\ approved /\ conn = "online"
        /\ Send(Ack(e[1]))
        /\ ackJob' = Taking(ackJob, e)
     \/ /\ approved /\ conn # "online"
        /\ ackJob' = [ackJob EXCEPT !.due = {}, !.refused = TRUE]
        /\ UNCHANGED toPhone
     \/ /\ ~approved
        /\ ackJob' = [ackJob EXCEPT !.due = @ \ {e}]
        /\ UNCHANGED toPhone
  /\ UNCHANGED <<rec, invokeVars, ackWanted, ackAlarm, inbox, conn, approved, results,
                 phoneVars, countVars>>

AckDrainRecord ==
  /\ ackJob.pc = "record"
  /\ LET delay == RetryDelay(ackJob.n, AckCap) IN
     /\ rec' = RecordAck(ackJob.key, delay)
     /\ ackJob' = Recorded(ackJob, delay)
  /\ UNCHANGED <<invokeVars, ackWanted, ackAlarm, inbox, conn, approved, toPhone, results,
                 phoneVars, countVars>>

\* Unlike the invoke outbox, a drain that asks for no wake-up clears the alarm.
AckEnd ==
  /\ ackJob.pc = "next" /\ ackJob.due = {}
  /\ ackAlarm' = CASE ackJob.wake # Never -> Alarm(ackJob.wake)
                   [] ackJob.wake = Never /\ ackJob.refused -> Alarm(1)
                   [] OTHER -> Never
  /\ ackJob' = Idle
  /\ UNCHANGED <<rec, invokeVars, ackWanted, inbox, conn, approved, toPhone, results,
                 phoneVars, countVars>>

-----------------------------------------------------------------------------
(* A result: one transaction completes the operation and arms its           *)
(* acknowledgement; the delivery is committed after the drain it awaits.    *)

\* The invocation's schedule is read of pending records only.
Completing(r) ==
  [r EXCEPT !.state = "completed", !.due = Never, !.ackAttempts = 0, !.ackDue = 0]

\* Mutant of Reconcile: the record is removed once its result is known.
ReconcileRemoving(k) == [rec EXCEPT ![k] = NoRecord]

Reconcile(k) == [rec EXCEPT ![k] = Completing(rec[k])]

Receive(k) ==
  /\ inbox = None /\ conn = "online" /\ approved /\ k \in results
  /\ rec[k].state # "none"
  /\ rec' = Reconcile(k)
  /\ inbox' = k /\ results' = results \ {k}
  /\ ackWanted' = ackWanted \cup {"inbound"}
  /\ UNCHANGED <<invokeVars, ackJob, ackAlarm, conn, approved, toPhone, phoneVars, countVars>>

\* Every other delivery drains the acknowledgements as well.
ReceiveNotice ==
  /\ inbox = None /\ conn = "online" /\ Occurs("notice")
  /\ inbox' = "notice"
  /\ ackWanted' = ackWanted \cup {"inbound"}
  /\ UNCHANGED <<rec, invokeVars, ackJob, ackAlarm, conn, approved, toPhone, results,
                 phoneVars, sent, asked, extra>>

CommitInbox ==
  /\ inbox # None /\ "inbound" \notin ackWanted /\ ackJob.owner # "inbound"
  /\ inbox' = None
  /\ UNCHANGED <<rec, invokeVars, ackVars, conn, approved, toPhone, results, phoneVars,
                 countVars>>

-----------------------------------------------------------------------------
(* The connection, the alarms, time and failures.                           *)

\* Mutant of Authenticated: only the acknowledgements are drained.
AuthenticatedAckOnly ==
  /\ conn = "offline" /\ conn' = "online"
  /\ ackWanted' = ackWanted \cup {"wake"}
  /\ UNCHANGED <<rec, invokeVars, ackJob, ackAlarm, inbox, approved, toPhone, results,
                 phoneVars, countVars>>

\* onAuthenticated drains both outboxes.
Authenticated ==
  /\ conn = "offline" /\ conn' = "online"
  /\ invokeWanted' = invokeWanted \cup {"wake"}
  /\ ackWanted' = ackWanted \cup {"wake"}
  /\ UNCHANGED <<rec, invokeJob, invokeAlarm, ackJob, ackAlarm, inbox, approved, toPhone,
                 results, phoneVars, countVars>>

InvokeAlarmFires ==
  /\ invokeAlarm = 0 /\ invokeAlarm' = Never
  /\ invokeWanted' = invokeWanted \cup {"wake"}
  /\ UNCHANGED <<rec, invokeJob, ackVars, inbox, conn, approved, toPhone, results,
                 phoneVars, countVars>>

AckAlarmFires ==
  /\ ackAlarm = 0 /\ ackAlarm' = Never
  /\ ackWanted' = ackWanted \cup {"wake"}
  /\ UNCHANGED <<rec, invokeVars, ackJob, inbox, conn, approved, toPhone, results,
                 phoneVars, countVars>>

Down(timer) == IF timer > 0 THEN timer - 1 ELSE timer
Aged(r) == [r EXCEPT !.due = Down(r.due), !.ackDue = Down(r.ackDue)]

Timers == {invokeAlarm, ackAlarm} \cup {rec[k].due : k \in Key} \cup {rec[k].ackDue : k \in Key}

Tick ==
  /\ \E t \in Timers : t > 0
  /\ rec' = [k \in Key |-> Aged(rec[k])]
  /\ invokeAlarm' = Down(invokeAlarm) /\ ackAlarm' = Down(ackAlarm)
  /\ UNCHANGED <<invokeJob, invokeWanted, ackJob, ackWanted, inbox, conn, approved, toPhone,
                 results, phoneVars, countVars>>

\* A lost connection loses any of the frames on their way.
Drop ==
  /\ Occurs("drop")
  /\ conn = "online" /\ conn' = "offline"
  /\ toPhone' \in SUBSET toPhone
  /\ UNCHANGED <<rec, invokeVars, ackVars, inbox, approved, results, phoneVars,
                 sent, asked, extra>>

\* A step of an outbox throws: a drain stops the transport, a request is only refused.
InvokeThrows ==
  /\ Occurs("throw") /\ extra' = extra + 1
  /\ invokeJob.pc \in {"next", "send", "record", "resent"} /\ invokeJob' = Idle
  /\ conn' = IF invokeJob.owner = "user" THEN conn ELSE "halted"
  /\ UNCHANGED <<rec, invokeWanted, invokeAlarm, ackVars, inbox, approved, toPhone, results,
                 phoneVars, sent, asked>>

AckThrows ==
  /\ Occurs("throw") /\ extra' = extra + 1
  /\ ackJob # Idle /\ ackJob' = Idle
  /\ conn' = "halted"
  /\ UNCHANGED <<rec, invokeVars, ackWanted, ackAlarm, inbox, approved, toPhone, results,
                 phoneVars, sent, asked>>

\* The worker stops: the stores, the alarms and what the relay holds remain.
Crash ==
  /\ Occurs("crash") /\ extra' = extra + 1
  /\ conn' = "offline" /\ toPhone' \in SUBSET toPhone
  /\ invokeJob' = Idle /\ invokeWanted' = {} /\ ackJob' = Idle /\ ackWanted' = {}
  /\ inbox' = None /\ results' = results \cup ({inbox} \cap Key)
  /\ UNCHANGED <<rec, invokeAlarm, ackAlarm, approved, phoneVars,
                 sent, asked>>

Revoke ==
  /\ Occurs("revoke")
  /\ approved /\ approved' = FALSE
  /\ UNCHANGED <<rec, invokeVars, ackVars, inbox, conn, toPhone, results, phoneVars,
                 sent, asked, extra>>

-----------------------------------------------------------------------------
(* The phone.  It executes an operation once and answers every request with *)
(* the stored result, which it may send again until it is acknowledged.     *)

PhoneInvoke(k) ==
  /\ Invoke(k) \in toPhone /\ toPhone' = toPhone \ {Invoke(k)}
  /\ executed' = executed \cup {k}
  /\ outbox' = IF k \in executed THEN outbox ELSE outbox \cup {k}
  /\ results' = results \cup {k}
  /\ UNCHANGED <<rec, invokeVars, ackVars, inbox, conn, approved, countVars>>

PhoneRepeat(k) ==
  /\ k \in outbox /\ Occurs("repeat")
  /\ results' = results \cup {k}
  /\ UNCHANGED <<rec, invokeVars, ackVars, inbox, conn, approved, toPhone, phoneVars,
                 sent, asked, extra>>

PhoneAck(k) ==
  /\ Ack(k) \in toPhone /\ toPhone' = toPhone \ {Ack(k)}
  /\ outbox' = outbox \ {k}
  /\ UNCHANGED <<rec, invokeVars, ackVars, inbox, conn, approved, results, executed, countVars>>

-----------------------------------------------------------------------------

InvokeStep ==
  \/ \E c \in Caller : InvokeDrainStart(c)
  \/ \E e \in invokeJob.due : InvokeDrainSend(e)
  \/ InvokeDrainRecord \/ InvokeEnd \/ QueueSend \/ QueueRecord \/ ResendRecord

AckStep ==
  \/ \E c \in Caller : AckDrainStart(c)
  \/ \E e \in ackJob.due : AckDrainSend(e)
  \/ AckDrainRecord \/ AckEnd

Next ==
  \/ \E k \in Key : Queue(k) \/ Resend(k) \/ Receive(k)
                    \/ PhoneInvoke(k) \/ PhoneRepeat(k) \/ PhoneAck(k)
  \/ InvokeStep \/ AckStep \/ ReceiveNotice \/ CommitInbox
  \/ Authenticated \/ InvokeAlarmFires \/ AckAlarmFires \/ Tick
  \/ Drop \/ InvokeThrows \/ AckThrows \/ Crash \/ Revoke

Spec == Init /\ [][Next]_vars

\* The promise continuations of an outbox run, its alarm outlives the worker and
\* fires, time passes, and the connection is sought again unless it was stopped.
\* The phone, the relay, requests and losses are obliged to nothing.
Fairness ==
  WF_vars(InvokeStep) /\ WF_vars(InvokeAlarmFires) /\ WF_vars(Tick) /\ WF_vars(Authenticated)

FairSpec == Spec /\ Fairness

-----------------------------------------------------------------------------

Record == [state : {"none", "pending", "completed"}, attempts : 0..MaxAttempts + MaxEvents,
           due : {Never} \cup 0..InvokeCap, ackAttempts : 0..MaxAttempts,
           ackDue : {Never} \cup 0..AckCap]

\* The records are what validateDeliveryRecord accepts, with the attempts within
\* the maximum: automatic ones and, for invocations, the explicit resends.
TypeOK ==
  /\ rec \in [Key -> Record]
  /\ invokeWanted \subseteq Caller /\ ackWanted \subseteq Caller
  /\ inbox \in Key \cup {None, "notice"} /\ conn \in {"online", "offline", "halted"}
  /\ toPhone \subseteq {Invoke(k) : k \in Key} \cup {Ack(k) : k \in Key}
  /\ results \cup executed \cup outbox \subseteq Key

\* A reply is never sent twice, whatever is lost, refused, retried or restarted
\* (sendOnce: "Sends a reply once while retaining only correlation state").
OneShotSentOnce == \A k \in OneShot : sent[k] <= 1

\* Frames of an operation: the attempts of each registration, one per explicit
\* resend, and one whose record was cut off per crash or failure.
BoundedSends ==
  \A k \in Key : sent[k] <= MaxAttempts * asked[k] + extra

\* An operation waits for its retry only with something that will wake the
\* drain: under FairSpec it ends with its result or with its attempts used up,
\* unless the phone is revoked or a failure stopped the transport.
Settled(k) ==
  rec[k].state = "completed" \/ rec[k].due = Never \/ ~approved \/ conn = "halted"
NeverStranded == \A k \in Key \ OneShot : rec[k].state = "pending" ~> Settled(k)

Contract == INSTANCE ActionContract WITH
  registered <- {k \in Key : rec[k].state # "none"},
  known <- {k \in Key : rec[k].state = "completed"},
  forgotten <- executed \ outbox

\* Chrome registers before the phone executes, holds the result before it
\* acknowledges, and the phone forgets only what Chrome holds.
KeepsContract == Contract!Spec

\* An invocation that was sent and has attempts left has an alarm when its outbox
\* is at rest, so a stopped worker wakes for it (SPIKE-004: "1/2/4/8-second
\* action-delivery retries can wake an MV3 Worker after suspension").
InvokeRetryScheduled ==
  (invokeJob = Idle /\ invokeWanted = {} /\ conn = "online" /\ approved) =>
    \A k \in Key \ OneShot :
      (rec[k].state = "pending" /\ rec[k].attempts > 0 /\ rec[k].due # Never)
        => invokeAlarm # Never

\* The same of acknowledgements (SPIKE-004: "retries with a bounded schedule
\* across Worker wake").
AckRetryScheduled ==
  (ackJob = Idle /\ ackWanted = {} /\ conn = "online" /\ approved) =>
    \A k \in Key : (rec[k].ackAttempts > 0 /\ rec[k].ackDue # Never) => ackAlarm # Never

=============================================================================
