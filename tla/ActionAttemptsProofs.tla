------------------------ MODULE ActionAttemptsProofs ------------------------
(***************************************************************************)
(* For every set of keys, every bound and every interleaving: the attempts *)
(* of an operation stay within their maximum, and its frames within those  *)
(* attempts; and a single retried operation keeps its alarm as long as     *)
(* the worker is not stopped.                                              *)
(***************************************************************************)
EXTENDS ActionDeliveryProofs

USE DEF invokeVars, ackVars, phoneVars, countVars

\* An invocation that will be sent again, and how often at most.
Active(r) == r.state = "pending" /\ r.due # Never
Room(r) == IF r.attempts + 1 < MaxAttempts THEN MaxAttempts - r.attempts ELSE 1

\* The key is among the entries a drain has still to send.
InDue(job, k) == \E e \in job.due : e[1] = k

\* A drain has one entry of a key, and none of the key in hand.
Separate(job) ==
  /\ \A e, f \in job.due : e[1] = f[1] => e = f
  /\ job.pc \in {"send", "record"} => ~InDue(job, job.key)

\* A record's attempts are within the maximum but for explicit resends, and
\* below it as long as another attempt is due.
Scheduled(r) ==
  /\ r.due \in {Never} \cup 0..InvokeCap /\ r.ackDue \in {Never} \cup 0..AckCap
  /\ r.attempts <= MaxAttempts + extra
  /\ Active(r) => r.attempts < MaxAttempts + extra
  /\ r.ackAttempts <= MaxAttempts
  /\ r.ackDue # Never => r.ackAttempts < MaxAttempts

CountsOK ==
  /\ extra \in Nat /\ events \in Nat /\ extra <= events /\ events <= MaxEvents
  /\ asked \in [Key -> Nat]
RestOK ==
  /\ invokeWanted \subseteq Caller /\ ackWanted \subseteq Caller
  /\ conn \in {"online", "offline", "halted"}
RecordsOK == \A k \in Key : Scheduled(rec[k])

\* What a job is about to send or to record is due.
InvokeHandOK ==
  /\ Separate(invokeJob)
  /\ invokeJob.pc \in {"send", "record"} /\ rec[invokeJob.key].state = "pending"
       => rec[invokeJob.key].due = 0
  /\ \A e \in invokeJob.due : rec[e[1]].state = "pending" => rec[e[1]].due = 0
  /\ invokeJob.pc = "resent" =>
       /\ rec[invokeJob.key].attempts < MaxAttempts + extra
       /\ Active(rec[invokeJob.key]) => rec[invokeJob.key].attempts + 1 < MaxAttempts + extra
AckHandOK ==
  /\ Separate(ackJob)
  /\ ackJob.pc = "record" => rec[ackJob.key].ackDue = 0
  /\ \A e \in ackJob.due : rec[e[1]].ackDue = 0

\* The frames of k that may still come of what is registered: the attempts left,
\* but the one that is sent and not recorded; or the frame a job is about to
\* send although the result is here.
Promised(k) ==
  IF (invokeJob.pc = "send" /\ invokeJob.key = k) \/ InDue(invokeJob, k) THEN 1 ELSE 0
Taken(k) == IF invokeJob.pc = "record" /\ invokeJob.key = k THEN 1 ELSE 0
Left(k) == IF Active(rec[k]) THEN Room(rec[k]) - Taken(k) ELSE Promised(k)
Within(k) == sent[k] + Left(k) <= MaxAttempts * asked[k] + extra
BudgetOK == \A k \in Key : Within(k)

AttemptsInv ==
  IInv /\ CountsOK /\ RestOK /\ RecordsOK /\ InvokeHandOK /\ AckHandOK /\ BudgetOK

-----------------------------------------------------------------------------
(* Records and what becomes of them.                                        *)

LEMMA RecordFields ==
  ASSUME IInv, NEW k \in Key
  PROVE  /\ rec[k] \in RecordShape /\ rec[k].attempts \in Nat /\ rec[k].due \in Int
         /\ rec[k].ackAttempts \in Nat /\ rec[k].ackDue \in Int /\ sent[k] \in Nat
  BY DEF IInv, Shape, RecordShape

\* There is always room for the next attempt.
LEMMA RoomPositive ==
  ASSUME NEW r \in RecordShape
  PROVE  Room(r) \in Nat /\ Room(r) >= 1
  <1>1. r.attempts \in Nat  BY DEF RecordShape
  <1> QED  BY <1>1, AttemptAssumption DEF Room

\* What may still be sent is at least what is about to be sent.
LEMMA LeftCovers ==
  ASSUME AttemptsInv, NEW k \in Key
  PROVE  /\ Left(k) \in Nat
         /\ Active(rec[k]) => Left(k) + Taken(k) = Room(rec[k]) /\ Room(rec[k]) >= 1
         /\ ~Active(rec[k]) => Left(k) = Promised(k)
         /\ Promised(k) \in {0, 1} /\ Taken(k) \in {0, 1}
         /\ Promised(k) <= Left(k)
  <1>1. Room(rec[k]) \in Nat /\ Room(rec[k]) >= 1
    BY RecordFields, RoomPositive DEF AttemptsInv
  <1>2. Promised(k) \in {0, 1} /\ Taken(k) \in {0, 1}  BY DEF Promised, Taken
  <1>3. Taken(k) = 1 => Promised(k) = 0
    BY DEF Taken, Promised, AttemptsInv, InvokeHandOK, Separate
  <1> QED  BY <1>1, <1>2, <1>3 DEF Left

\* retryDelayMs is within its cap.
LEMMA RetryDelayRange ==
  ASSUME NEW n \in Nat
  PROVE  RetryDelay(n, InvokeCap) \in 0..InvokeCap /\ RetryDelay(n, AckCap) \in 0..AckCap
  BY DEF RetryDelay, Power, InvokeCap, AckCap

\* An attempt recorded of a record that was due.
LEMMA CountedFields ==
  ASSUME NEW r \in RecordShape, NEW delay \in Int, NEW maximum \in Nat
  PROVE  /\ Counted(r, delay, maximum).attempts = r.attempts + 1
         /\ Counted(r, delay, maximum).due = Attempted(r.attempts, delay, maximum)
         /\ Counted(r, delay, maximum).ackAttempts = r.ackAttempts
         /\ Counted(r, delay, maximum).ackDue = r.ackDue
  BY DEF Counted, RecordShape
LEMMA CountedAckFields ==
  ASSUME NEW r \in RecordShape, NEW delay \in Int
  PROVE  /\ CountedAck(r, delay).attempts = r.attempts
         /\ CountedAck(r, delay).due = r.due
         /\ CountedAck(r, delay).ackAttempts = r.ackAttempts + 1
         /\ CountedAck(r, delay).ackDue = Attempted(r.ackAttempts, delay, MaxAttempts)
  BY DEF CountedAck, RecordShape
LEMMA CountedResendFields ==
  ASSUME NEW r \in RecordShape
  PROVE  /\ CountedResend(r).attempts = r.attempts + 1
         /\ CountedResend(r).due = r.due
         /\ CountedResend(r).ackAttempts = r.ackAttempts
         /\ CountedResend(r).ackDue = r.ackDue
  BY DEF CountedResend, RecordShape
LEMMA CompletingFields ==
  ASSUME NEW r \in RecordShape
  PROVE  /\ Completing(r).attempts = r.attempts /\ Completing(r).due = Never
         /\ Completing(r).ackAttempts = 0 /\ Completing(r).ackDue = 0
  BY DEF Completing, RecordShape
LEMMA AgedFields ==
  ASSUME NEW r \in RecordShape
  PROVE  /\ Aged(r).attempts = r.attempts /\ Aged(r).due = Down(r.due)
         /\ Aged(r).ackAttempts = r.ackAttempts /\ Aged(r).ackDue = Down(r.ackDue)
  BY DEF Aged, RecordShape
LEMMA FreshFields ==
  LET r == [NoRecord EXCEPT !.state = "pending", !.due = 0] IN
  /\ r.state = "pending" /\ r.attempts = 0 /\ r.due = 0 /\ r.ackAttempts = 0 /\ r.ackDue = Never
  BY DEF NoRecord

-----------------------------------------------------------------------------
(* The steps that record nothing and send nothing.                          *)

\* The events that are counted, and those among them that count as extra.
LEMMA CountsKept ==
  ASSUME CountsOK, UNCHANGED asked,
         \/ UNCHANGED <<extra, events>>
         \/ events < MaxEvents /\ events' = events + 1 /\ extra' \in {extra, extra + 1}
  PROVE  CountsOK' /\ extra' >= extra
  BY BoundAssumption DEF CountsOK

\* Jobs that end, go on with fewer entries or stay as they are: a frame that was
\* sent and is no longer about to be recorded is extra.
LEMMA QuietAttempts ==
  ASSUME AttemptsInv, IInv', CountsOK', RestOK', UNCHANGED <<rec, sent, asked>>,
         extra' >= extra,
         invokeJob'.due \subseteq invokeJob.due,
         \/ invokeJob'.pc \notin {"send", "record", "resent"}
         \/ invokeJob'.pc = invokeJob.pc /\ invokeJob'.key = invokeJob.key,
         invokeJob.pc = "record" => invokeJob'.pc = "record" \/ extra' >= extra + 1,
         ackJob'.due \subseteq ackJob.due,
         \/ ackJob'.pc \notin {"send", "record"}
         \/ ackJob'.pc = ackJob.pc /\ ackJob'.key = ackJob.key
  PROVE  AttemptsInv'
  <1>1. RecordsOK'
    <2> SUFFICES ASSUME NEW k \in Key PROVE Scheduled(rec[k])'  BY DEF RecordsOK
    <2>1. Scheduled(rec[k])  BY DEF AttemptsInv, RecordsOK
    <2>2. rec[k].attempts \in Nat /\ extra \in Nat /\ extra' \in Nat
      BY RecordFields DEF AttemptsInv, CountsOK
    <2> QED  BY <2>1, <2>2, AttemptAssumption DEF Scheduled, Active
  <1>2. Separate(invokeJob)' /\ Separate(ackJob)'
    BY DEF AttemptsInv, InvokeHandOK, AckHandOK, Separate, InDue
  <1>3. InvokeHandOK'
    <2>1. /\ invokeJob'.pc \in {"send", "record"} /\ rec'[invokeJob'.key].state = "pending"
               => rec'[invokeJob'.key].due = 0
          /\ \A e \in invokeJob'.due : rec'[e[1]].state = "pending" => rec'[e[1]].due = 0
      BY DEF AttemptsInv, InvokeHandOK
    <2>2. ASSUME invokeJob'.pc = "resent"
          PROVE  /\ rec'[invokeJob'.key].attempts < MaxAttempts + extra'
                 /\ Active(rec'[invokeJob'.key])
                      => rec'[invokeJob'.key].attempts + 1 < MaxAttempts + extra'
      <3> DEFINE r == rec[invokeJob.key]
      <3>1. invokeJob.pc = "resent" /\ rec'[invokeJob'.key] = r  BY <2>2
      <3>2. r.attempts \in Nat
        BY <3>1, RecordFields DEF AttemptsInv, IInv, JobKeys
      <3>3. r.attempts < MaxAttempts + extra
            /\ (Active(r) => r.attempts + 1 < MaxAttempts + extra)
        BY <3>1 DEF AttemptsInv, InvokeHandOK
      <3> HIDE DEF r
      <3>4. extra \in Nat /\ extra' \in Nat  BY DEF AttemptsInv, CountsOK
      <3> QED  BY <3>1, <3>2, <3>3, <3>4, AttemptAssumption
    <2> QED  BY <1>2, <2>1, <2>2 DEF InvokeHandOK, Active
  <1>4. AckHandOK'
    BY <1>2 DEF AttemptsInv, AckHandOK
  <1>5. BudgetOK'
    <2> SUFFICES ASSUME NEW k \in Key
                 PROVE  sent'[k] + Left(k)' <= MaxAttempts * asked'[k] + extra'
      BY DEF BudgetOK, Within
    <2>1. /\ sent[k] + Left(k) <= MaxAttempts * asked[k] + extra
          /\ sent[k] \in Nat /\ Left(k) \in Nat
          /\ extra \in Nat /\ extra' \in Nat /\ MaxAttempts * asked[k] \in Nat
      BY LeftCovers, RecordFields, AttemptAssumption DEF AttemptsInv, BudgetOK, Within, CountsOK
    <2>2. Promised(k)' <= Promised(k) /\ Promised(k)' \in Nat  BY DEF Promised, InDue
    <2>3. Taken(k)' >= Taken(k) \/ (extra' >= extra + 1 /\ Taken(k)' + 1 >= Taken(k))
      BY DEF Taken
    <2>4. Taken(k)' \in {0, 1}  BY DEF Taken
    <2>5. CASE Active(rec[k])
      <3>1. Left(k)' = Room(rec[k]) - Taken(k)'  BY <2>5 DEF Left, Room, Active
      <3>2. Room(rec[k]) \in Nat
        BY RecordFields, RoomPositive DEF AttemptsInv
      <3>3. Left(k)' <= Left(k) \/ (extra' >= extra + 1 /\ Left(k)' <= Left(k) + 1)
        BY <2>1, <2>3, <2>4, <2>5, <3>1, <3>2, LeftCovers
      <3>4. Left(k)' \in Int  BY <2>4, <3>1, <3>2
      <3> HIDE DEF Left
      <3> QED  BY <2>1, <3>3, <3>4
    <2>6. CASE ~Active(rec[k])
      <3>1. Left(k)' = Promised(k)'  BY <2>6 DEF Left, Active
      <3>2. Left(k) = Promised(k)  BY <2>6 DEF Left
      <3> QED  BY <2>1, <2>2, <3>1, <3>2
    <2> QED  BY <2>5, <2>6
  <1> QED  BY <1>1, <1>3, <1>4, <1>5 DEF AttemptsInv

\* The end of a drain, an entry refused or passed over, a failure or a crash.
LEMMA EndsAttempts ==
  ASSUME AttemptsInv, IInv', InvokeEnd \/ AckEnd \/ InvokeThrows \/ AckThrows \/ Crash
  PROVE  AttemptsInv'
  <1>1. /\ Idle.pc = "idle" /\ Idle.due = {}  BY IdleJob
  <1> DEFINE Ends ==
        /\ UNCHANGED <<rec, sent, asked>>
        /\ invokeJob' \in {invokeJob, Idle} /\ ackJob' \in {ackJob, Idle}
        /\ \/ invokeJob' = invokeJob \/ invokeJob.pc # "record" \/ extra' = extra + 1
        /\ \/ UNCHANGED <<extra, events>>
           \/ events < MaxEvents /\ events' = events + 1 /\ extra' \in {extra, extra + 1}
  <1>2. Ends
    <2>1. CASE InvokeEnd  BY <2>1 DEF InvokeEnd
    <2>2. CASE AckEnd  BY <2>2 DEF AckEnd
    <2>3. CASE InvokeThrows  BY <2>3 DEF InvokeThrows, Occurs
    <2>4. CASE AckThrows  BY <2>4 DEF AckThrows, Occurs
    <2>5. CASE Crash  BY <2>5 DEF Crash, Occurs
    <2> QED  BY <2>1, <2>2, <2>3, <2>4, <2>5
  <1>3. CountsOK' /\ extra' >= extra  BY <1>2, CountsKept DEF AttemptsInv
  <1>4. RestOK'
    BY DEF AttemptsInv, RestOK, InvokeEnd, AckEnd, InvokeThrows, AckThrows, Crash
  <1>5. extra' \in Nat /\ extra \in Nat  BY <1>3 DEF AttemptsInv, CountsOK
  <1> QED  BY <1>1, <1>2, <1>3, <1>4, <1>5, QuietAttempts

\* The connection, the alarms, deliveries, and the phone.
LEMMA OtherAttempts ==
  ASSUME AttemptsInv, IInv', OtherStep \/ \E k \in Key : PhoneInvoke(k) \/ PhoneAck(k)
  PROVE  AttemptsInv'
  <1>1. /\ UNCHANGED <<rec, sent, asked, invokeJob, ackJob>>
        /\ \/ UNCHANGED <<extra, events>>
           \/ events < MaxEvents /\ events' = events + 1 /\ extra' \in {extra, extra + 1}
    BY DEF OtherStep, ReceiveNotice, CommitInbox, Authenticated, InvokeAlarmFires,
           AckAlarmFires, Drop, Revoke, PhoneRepeat, PhoneInvoke, PhoneAck, Occurs
  <1>2. RestOK'
    BY DEF AttemptsInv, RestOK, Caller, OtherStep, ReceiveNotice, CommitInbox, Authenticated,
           InvokeAlarmFires, AckAlarmFires, Drop, Revoke, PhoneRepeat, PhoneInvoke, PhoneAck
  <1>3. CountsOK' /\ extra' >= extra  BY <1>1, CountsKept DEF AttemptsInv
  <1> QED  BY <1>1, <1>2, <1>3, QuietAttempts

\* An idle step.
LEMMA StutterAttempts ==
  ASSUME AttemptsInv, IInv', UNCHANGED vars
  PROVE  AttemptsInv'
  <1>1. UNCHANGED <<rec, sent, asked, invokeJob, ackJob, extra, events>>  BY DEF vars
  <1>2. RestOK'  BY DEF vars, AttemptsInv, RestOK
  <1>3. CountsOK' /\ extra' >= extra  BY <1>1, CountsKept DEF AttemptsInv
  <1> QED  BY <1>1, <1>2, <1>3, QuietAttempts

-----------------------------------------------------------------------------
(* The steps that record an attempt or send a frame.                        *)

\* A key whose frames, attempts and requests a step leaves alone.
LEMMA WithinKept ==
  ASSUME AttemptsInv, CountsOK', extra' >= extra, NEW j \in Key,
         Active(rec[j])' <=> Active(rec[j]), rec'[j].attempts = rec[j].attempts,
         sent'[j] = sent[j], asked'[j] = asked[j],
         Promised(j)' <= Promised(j), Taken(j)' >= Taken(j)
  PROVE  Within(j)'
  <1>1. /\ sent[j] + Left(j) <= MaxAttempts * asked[j] + extra
        /\ sent[j] \in Nat /\ Left(j) \in Nat
        /\ extra \in Nat /\ extra' \in Nat /\ MaxAttempts * asked[j] \in Nat
    BY LeftCovers, RecordFields, AttemptAssumption
       DEF AttemptsInv, BudgetOK, Within, CountsOK
  <1>2. Promised(j)' \in {0, 1} /\ Taken(j)' \in {0, 1} /\ Taken(j) \in {0, 1}
        /\ Promised(j) \in {0, 1}
    BY DEF Promised, Taken
  <1>3. Left(j)' <= Left(j) /\ Left(j)' \in Int
    <2>1. CASE Active(rec[j])
      <3>1. Left(j)' = Room(rec[j]) - Taken(j)'
        BY <2>1 DEF Left, Room
      <3>2. Room(rec[j]) \in Nat  BY RecordFields, RoomPositive DEF AttemptsInv
      <3> QED  BY <2>1, <3>1, <3>2, <1>1, <1>2, LeftCovers
    <2>2. CASE ~Active(rec[j])
      <3>1. Left(j)' = Promised(j)' /\ Left(j) = Promised(j)  BY <2>2 DEF Left
      <3> QED  BY <1>2, <3>1
    <2> QED  BY <2>1, <2>2
  <1> QED  BY <1>1, <1>3 DEF Within

\* Records whose schedules a step leaves alone.
LEMMA ScheduledKept ==
  ASSUME AttemptsInv, extra' \in Nat, extra' >= extra, NEW j \in Key, rec'[j] = rec[j]
  PROVE  Scheduled(rec[j])'
  <1>1. Scheduled(rec[j])  BY DEF AttemptsInv, RecordsOK
  <1>2. rec[j].attempts \in Nat /\ extra \in Nat
    BY RecordFields DEF AttemptsInv, CountsOK
  <1> QED  BY <1>1, <1>2, AttemptAssumption DEF Scheduled, Active

\* What one more request allows.
LEMMA OneMoreRequest ==
  ASSUME NEW m \in Nat, NEW a \in Nat
  PROVE  m * (a + 1) = m * a + m /\ m * a \in Nat
  OBVIOUS

\* A request starts a record over, with all its attempts.
LEMMA QueueAttempts ==
  ASSUME AttemptsInv, IInv', NEW k \in Key, Queue(k)
  PROVE  AttemptsInv'
  <1> DEFINE fresh == [NoRecord EXCEPT !.state = "pending", !.due = 0]
  <1>1. /\ fresh.state = "pending" /\ fresh.attempts = 0 /\ fresh.due = 0
        /\ fresh.ackAttempts = 0 /\ fresh.ackDue = Never
    BY FreshFields
  <1>2. /\ rec' = [rec EXCEPT ![k] = fresh] /\ asked' = [asked EXCEPT ![k] = @ + 1]
        /\ invokeJob = Idle /\ rec[k].state # "completed"
        /\ UNCHANGED <<ackJob, conn, invokeWanted, ackWanted, sent, extra, events>>
    BY DEF Queue, Registrable
  <1>3. invokeJob'.pc = "send" /\ invokeJob'.key = k /\ invokeJob'.due = {}
    BY UserJob DEF Queue
  <1> HIDE DEF fresh
  <1>4. rec'[k] = fresh /\ \A j \in Key \ {k} : rec'[j] = rec[j]
    BY <1>2 DEF AttemptsInv, IInv, Shape
  <1>5. CountsOK' /\ RestOK' /\ extra' \in Nat /\ extra' >= extra
    BY <1>2 DEF AttemptsInv, CountsOK, RestOK
  <1>6. RecordsOK'
    <2>1. Scheduled(rec[k])'
      BY <1>1, <1>4, <1>5, AttemptAssumption
         DEF Scheduled, Active, Never, InvokeCap, AckCap
    <2> QED  BY <1>4, <1>5, <2>1, ScheduledKept DEF RecordsOK
  <1>7. InvokeHandOK'
    BY <1>1, <1>3, <1>4 DEF InvokeHandOK, Separate, InDue
  <1>8. AckHandOK'
    BY <1>2, <1>4 DEF AttemptsInv, AckHandOK, Separate, InDue, IInv, Shape, Job, Entry,
                      JobKeys, Completed
  <1>9. ASSUME NEW j \in Key PROVE Within(j)'
    <2>1. CASE j = k
      <3>1. Left(k)' = MaxAttempts
        BY <1>1, <1>3, <1>4, AttemptAssumption DEF Left, Taken, Active, Room, Never
      <3>2. /\ sent[k] + Left(k) <= MaxAttempts * asked[k] + extra
            /\ sent[k] \in Nat /\ Left(k) \in Nat /\ asked[k] \in Nat /\ extra \in Nat
        BY LeftCovers, RecordFields DEF AttemptsInv, BudgetOK, Within, CountsOK
      <3>3. asked'[k] = asked[k] + 1 /\ sent'[k] = sent[k] /\ extra' = extra
        BY <1>2 DEF AttemptsInv, CountsOK
      <3>4. MaxAttempts * asked'[k] = MaxAttempts * asked[k] + MaxAttempts
            /\ MaxAttempts * asked[k] \in Nat /\ MaxAttempts \in Nat
        BY <3>2, <3>3, OneMoreRequest, AttemptAssumption
      <3> QED  BY <2>1, <3>1, <3>2, <3>3, <3>4 DEF Within
    <2>2. CASE j # k
      <3>1. /\ rec'[j] = rec[j] /\ asked'[j] = asked[j] /\ sent'[j] = sent[j]
        BY <1>2, <1>4, <2>2 DEF AttemptsInv, CountsOK
      <3>2. Promised(j)' = 0 /\ Promised(j) = 0 /\ Taken(j)' = 0 /\ Taken(j) = 0
        BY <1>2, <1>3, <2>2, IdleJob DEF Promised, Taken, InDue
      <3> QED  BY <1>5, <3>1, <3>2, WithinKept DEF Active
    <2> QED  BY <2>1, <2>2
  <1> QED  BY <1>5, <1>6, <1>7, <1>8, <1>9 DEF AttemptsInv, BudgetOK

\* A frame sent of the entry in hand or of one that is due: what was promised is
\* taken.
LEMMA SendAttempts ==
  ASSUME AttemptsInv, IInv', NEW k \in Key, Promised(k) = 1, Taken(k) = 0,
         invokeJob'.pc = "record", invokeJob'.key = k,
         invokeJob'.due \subseteq invokeJob.due, ~InDue(invokeJob, k)',
         \A j \in Key \ {k} : Taken(j) = 0,
         sent' = [sent EXCEPT ![k] = @ + 1],
         UNCHANGED <<rec, ackJob, conn, invokeWanted, ackWanted, asked, extra, events>>
  PROVE  AttemptsInv'
  <1>1. CountsOK' /\ RestOK' /\ RecordsOK' /\ AckHandOK' /\ extra' \in Nat /\ extra' >= extra
    BY DEF AttemptsInv, CountsOK, RestOK, RecordsOK, Scheduled, Active, AckHandOK, Separate, InDue
  <1>2. InvokeHandOK'
    <2>1. rec[k].state = "pending" => rec[k].due = 0
      BY DEF AttemptsInv, InvokeHandOK, Promised, InDue
    <2> QED  BY <2>1 DEF AttemptsInv, InvokeHandOK, Separate, InDue
  <1>3. ASSUME NEW j \in Key PROVE Within(j)'
    <2>1. CASE j = k
      <3>1. /\ sent[k] + Left(k) <= MaxAttempts * asked[k] + extra
            /\ sent[k] \in Nat /\ Left(k) \in Nat /\ MaxAttempts * asked[k] \in Nat
            /\ extra \in Nat
        BY LeftCovers, RecordFields, AttemptAssumption
           DEF AttemptsInv, BudgetOK, Within, CountsOK
      <3>2. Left(k)' = Left(k) - 1
        <4>1. Taken(k)' = 1 /\ Promised(k)' = 0  BY DEF Taken, Promised
        <4>2. Room(rec[k]) \in Nat  BY RecordFields, RoomPositive DEF AttemptsInv
        <4> QED  BY <4>1, <4>2 DEF Left, Active, Room
      <3>3. sent'[k] = sent[k] + 1  BY DEF AttemptsInv, IInv, Shape
      <3> QED  BY <2>1, <3>1, <3>2, <3>3 DEF Within
    <2>2. CASE j # k
      <3>1. sent'[j] = sent[j]  BY <2>2 DEF AttemptsInv, IInv, Shape
      <3>2. Promised(j)' <= Promised(j)  BY <2>2 DEF Promised, InDue
      <3>3. Taken(j)' >= Taken(j)  BY <2>2 DEF Taken
      <3> QED  BY <1>1, <3>1, <3>2, <3>3, WithinKept DEF Active
    <2> QED  BY <2>1, <2>2
  <1> QED  BY <1>1, <1>2, <1>3 DEF AttemptsInv, BudgetOK

\* The frame of a request.
LEMMA QueueSendAttempts ==
  ASSUME AttemptsInv, IInv', QueueSend
  PROVE  AttemptsInv'
  <1>1. CASE conn = "online"
    <2> PICK k \in Key : k = invokeJob.key
      BY DEF AttemptsInv, IInv, JobKeys, QueueSend
    <2>1. invokeJob \in Job /\ invokeJob.pc = "send"
      BY DEF AttemptsInv, IInv, Shape, QueueSend
    <2>2. /\ sent' = [sent EXCEPT ![k] = @ + 1] /\ invokeJob' = [invokeJob EXCEPT !.pc = "record"]
          /\ UNCHANGED <<rec, ackJob, conn, invokeWanted, ackWanted, asked, extra, events>>
      BY <1>1 DEF QueueSend, SendInvoke
    <2>3. /\ invokeJob'.pc = "record" /\ invokeJob'.key = k /\ invokeJob'.due = invokeJob.due
      BY <2>1, <2>2, SentJob
    <2>4. Promised(k) = 1 /\ \A j \in Key : Taken(j) = 0  BY <2>1 DEF Promised, Taken
    <2>5. ~InDue(invokeJob, k)'
      BY <2>1, <2>3 DEF AttemptsInv, InvokeHandOK, Separate, InDue
    <2>6. invokeJob'.due \subseteq invokeJob.due  BY <2>3
    <2> QED  BY <2>1, <2>2, <2>3, <2>4, <2>5, <2>6, SendAttempts
  <1>2. CASE conn # "online"
    <2>1. /\ invokeJob' = Idle /\ invokeJob.pc = "send"
          /\ UNCHANGED <<rec, sent, asked, ackJob, conn, invokeWanted, ackWanted, extra, events>>
      BY <1>2 DEF QueueSend
    <2>2. CountsOK' /\ RestOK' /\ extra' >= extra
      BY <2>1 DEF AttemptsInv, CountsOK, RestOK
    <2> QED  BY <2>1, <2>2, IdleJob, QuietAttempts
  <1> QED  BY <1>1, <1>2

\* The frame of an entry of a drain.
LEMMA InvokeDrainSendAttempts ==
  ASSUME AttemptsInv, IInv', NEW e \in invokeJob.due, InvokeDrainSend(e)
  PROVE  AttemptsInv'
  <1>1. invokeJob \in Job /\ e \in Entry /\ e[1] \in Key /\ invokeJob.pc = "next"
    BY DEF AttemptsInv, IInv, Shape, Job, Entry, InvokeDrainSend
  <1>2. CASE approved /\ conn = "online"
    <2>1. /\ sent' = [sent EXCEPT ![e[1]] = @ + 1] /\ invokeJob' = Taking(invokeJob, e)
          /\ UNCHANGED <<rec, ackJob, conn, invokeWanted, ackWanted, asked, extra, events>>
      BY <1>2 DEF InvokeDrainSend, SendInvoke
    <2>2. /\ invokeJob'.pc = "record" /\ invokeJob'.key = e[1]
          /\ invokeJob'.due = invokeJob.due \ {e}
      BY <1>1, <2>1, TakingJob
    <2>3. Promised(e[1]) = 1 /\ \A j \in Key : Taken(j) = 0
      BY <1>1 DEF Promised, Taken, InDue
    <2>4. ~InDue(invokeJob, e[1])'
      BY <2>2 DEF AttemptsInv, InvokeHandOK, Separate, InDue
    <2>5. invokeJob'.due \subseteq invokeJob.due  BY <2>2
    <2> QED  BY <1>1, <2>1, <2>2, <2>3, <2>4, <2>5, SendAttempts
  <1>3. CASE ~(approved /\ conn = "online")
    <2>1. /\ \/ invokeJob' = [invokeJob EXCEPT !.due = {}, !.refused = TRUE]
             \/ invokeJob' = [invokeJob EXCEPT !.due = @ \ {e}]
          /\ UNCHANGED <<rec, sent, asked, ackJob, conn, invokeWanted, ackWanted, extra, events>>
      BY <1>3 DEF InvokeDrainSend
    <2>2. invokeJob'.pc = "next" /\ invokeJob'.due \subseteq invokeJob.due
      <3>1. CASE invokeJob' = [invokeJob EXCEPT !.due = {}, !.refused = TRUE]
        BY <1>1, <3>1, RefusedJob
      <3>2. CASE invokeJob' = [invokeJob EXCEPT !.due = @ \ {e}]
        BY <1>1, <3>2, PassedJob
      <3> QED  BY <2>1, <3>1, <3>2
    <2>3. CountsOK' /\ RestOK' /\ extra' >= extra
      BY <2>1 DEF AttemptsInv, CountsOK, RestOK
    <2> QED  BY <1>1, <2>1, <2>2, <2>3, QuietAttempts
  <1> QED  BY <1>2, <1>3

\* The attempt of the frame in hand: the attempts left are one less already.
LEMMA RecordAttempts ==
  ASSUME AttemptsInv, IInv', invokeJob.pc = "record",
         NEW delay \in 0..InvokeCap, NEW maximum \in {1, MaxAttempts},
         rec' = RecordInvoke(invokeJob.key, delay, maximum),
         invokeJob'.pc \notin {"send", "record", "resent"},
         invokeJob'.due \subseteq invokeJob.due,
         UNCHANGED <<ackJob, conn, invokeWanted, ackWanted, sent, asked, extra, events>>
  PROVE  AttemptsInv'
  <1> PICK k \in Key : k = invokeJob.key  BY DEF AttemptsInv, IInv, JobKeys
  <1> DEFINE r == rec[k]
  <1> DEFINE counted == Counted(r, delay, maximum)
  <1>1. r \in RecordShape /\ ~InDue(invokeJob, k) /\ Taken(k) = 1
    BY RecordFields DEF AttemptsInv, InvokeHandOK, Separate, IInv, JobKeys, Taken
  <1>2. maximum \in Nat \ {0} /\ maximum <= MaxAttempts /\ delay \in Int
    BY AttemptAssumption DEF InvokeCap
  <1>3. /\ \A j \in Key \ {k} : rec'[j] = rec[j]
        /\ r.state = "pending" => rec'[k] = counted
        /\ r.state # "pending" => rec'[k] = r
    <2>1. rec \in [Key -> RecordShape]  BY DEF AttemptsInv, IInv, Shape
    <2> QED  BY <1>1, <2>1 DEF RecordInvoke
  <1>4. /\ counted.attempts = r.attempts + 1 /\ counted.state = r.state
        /\ counted.due = Attempted(r.attempts, delay, maximum)
        /\ counted.ackAttempts = r.ackAttempts /\ counted.ackDue = r.ackDue
    BY <1>1, <1>2, CountedFields, CountedKeeps
  <1>5. r.attempts \in Nat /\ Scheduled(r) /\ (r.state = "pending" => r.due = 0)
    BY <1>1 DEF RecordShape, AttemptsInv, RecordsOK, InvokeHandOK
  <1> HIDE DEF r, counted
  <1>6. CountsOK' /\ RestOK' /\ extra' \in Nat /\ extra' >= extra /\ extra' = extra
    BY DEF AttemptsInv, CountsOK, RestOK
  <1>7. Scheduled(rec[k])'
    <2>1. CASE r.state = "pending"
      <3>1. r.attempts < MaxAttempts + extra
        BY <1>5, <2>1 DEF Scheduled, Active, Never
      <3> QED
        BY <1>2, <1>3, <1>4, <1>5, <1>6, <2>1, <3>1, AttemptAssumption
           DEF Scheduled, Active, Attempted
    <2>2. CASE r.state # "pending"
      BY <1>3, <1>5, <1>6, <2>2 DEF Scheduled, Active
    <2> QED  BY <2>1, <2>2
  <1>8. RecordsOK'
    BY <1>1, <1>3, <1>6, <1>7, ScheduledKept DEF RecordsOK
  <1>9. InvokeHandOK'
    BY <1>1, <1>3 DEF AttemptsInv, InvokeHandOK, Separate, InDue, IInv, Shape, Job, Entry
  <1>10. AckHandOK'
    <2>1. \A j \in Key : rec'[j].ackDue = rec[j].ackDue
      BY <1>3, <1>4 DEF r
    <2> QED  BY <2>1 DEF AttemptsInv, AckHandOK, Separate, InDue, IInv, Shape, Job, Entry, JobKeys
  <1>11. ASSUME NEW j \in Key PROVE Within(j)'
    <2>1. Promised(j)' \in {0, 1} /\ Promised(j)' <= Promised(j) /\ Taken(j)' = 0
      BY DEF Promised, InDue, Taken
    <2>2. CASE j # k
      <3>1. Taken(j) = 0  BY <2>2 DEF Taken
      <3>2. rec'[j] = rec[j]  BY <1>3, <2>2
      <3> QED  BY <1>6, <2>1, <3>1, <3>2, WithinKept DEF Active
    <2>3. CASE j = k
      <3>1. /\ sent[k] + Left(k) <= MaxAttempts * asked[k] + extra
            /\ sent[k] \in Nat /\ Left(k) \in Nat /\ MaxAttempts * asked[k] \in Nat
            /\ extra \in Nat
        BY <1>1, LeftCovers, RecordFields, AttemptAssumption
           DEF AttemptsInv, BudgetOK, Within, CountsOK
      <3>2. Promised(k)' = 0
        BY <1>1 DEF Promised, InDue
      <3>3. Left(k)' <= Left(k) /\ Left(k)' \in Int
        <4>1. CASE r.state = "pending"
          <5>1. Left(k) = Room(r) - 1
            BY <1>1, <1>5, <4>1 DEF Left, Active, Never, r
          <5>2. CASE r.attempts + 1 >= maximum
            <6>1. ~Active(rec[k])'
              BY <1>3, <1>4, <4>1, <5>2 DEF Active, Attempted
            <6> QED  BY <3>1, <3>2, <6>1 DEF Left
          <5>3. CASE ~(r.attempts + 1 >= maximum)
            <6>1. Left(k)' \in {Room(counted), 0}
              <7>1. Room(counted) - 0 = Room(counted)
                BY <1>2, <1>4, <1>5, <5>3, AttemptAssumption DEF Room
              <7>2. rec'[k] = counted  BY <1>3, <4>1
              <7>3. Left(k)' \in {Room(counted) - 0, 0}
                BY <2>1, <2>3, <3>2, <7>2 DEF Left, Room, Active
              <7> QED  BY <7>1, <7>3
            <6>2. Room(counted) \in Nat /\ Room(counted) <= Room(r) - 1
              BY <1>2, <1>4, <1>5, <5>3, AttemptAssumption DEF Room
            <6> QED  BY <3>1, <5>1, <6>1, <6>2
          <5> QED  BY <1>2, <1>5, <5>2, <5>3
        <4>2. CASE r.state # "pending"
          <5>1. ~Active(rec[k])'  BY <1>3, <4>2 DEF Active
          <5> QED  BY <3>1, <3>2, <5>1 DEF Left
        <4> QED  BY <4>1, <4>2
      <3>4. sent'[k] = sent[k] /\ asked'[k] = asked[k]  OBVIOUS
      <3> QED  BY <1>6, <2>3, <3>1, <3>3, <3>4 DEF Within
    <2> QED  BY <2>2, <2>3
  <1> QED  BY <1>6, <1>8, <1>9, <1>10, <1>11 DEF AttemptsInv, BudgetOK

\* The attempt of a request.
LEMMA QueueRecordAttempts ==
  ASSUME AttemptsInv, IInv', QueueRecord
  PROVE  AttemptsInv'
  <1>1. invokeJob.pc = "record" /\ 1 \in 0..InvokeCap
        /\ UNCHANGED <<ackJob, conn, invokeWanted, ackWanted, sent, asked, extra, events>>
    BY DEF QueueRecord, InvokeCap
  <1>2. invokeJob'.pc \in {"idle", "end"} /\ invokeJob'.due = {}
    <2>1. 1 \in Int  OBVIOUS
    <2>2. \/ invokeJob' = Idle
          \/ invokeJob' = [Idle EXCEPT !.pc = "end", !.owner = "user", !.wake = 1]
      BY DEF QueueRecord
    <2> QED  BY <2>1, <2>2, IdleJob, EndJob
  <1>3. \/ rec' = RecordInvoke(invokeJob.key, 1, 1)
        \/ rec' = RecordInvoke(invokeJob.key, 1, MaxAttempts)
    BY DEF QueueRecord
  <1>4. /\ invokeJob'.due \subseteq invokeJob.due
        /\ invokeJob'.pc \notin {"send", "record", "resent"}
    BY <1>2
  <1>5. 1 \in {1, MaxAttempts} /\ MaxAttempts \in {1, MaxAttempts}  OBVIOUS
  <1>6. CASE rec' = RecordInvoke(invokeJob.key, 1, 1)
    BY <1>1, <1>4, <1>5, <1>6, RecordAttempts
  <1>7. CASE rec' = RecordInvoke(invokeJob.key, 1, MaxAttempts)
    BY <1>1, <1>4, <1>5, <1>7, RecordAttempts
  <1> QED  BY <1>3, <1>6, <1>7

\* The attempt of a drain.
LEMMA InvokeDrainRecordAttempts ==
  ASSUME AttemptsInv, IInv', InvokeDrainRecord
  PROVE  AttemptsInv'
  <1> DEFINE delay == RetryDelay(invokeJob.n, InvokeCap)
  <1>1. invokeJob \in Job /\ invokeJob.n \in Nat  BY DEF AttemptsInv, IInv, Shape, Job
  <1>2. delay \in 0..InvokeCap /\ delay \in Int  BY <1>1, RetryDelayRange DEF InvokeCap
  <1>3. /\ rec' = RecordInvoke(invokeJob.key, delay, MaxAttempts)
        /\ invokeJob' = Recorded(invokeJob, delay) /\ invokeJob.pc = "record"
        /\ UNCHANGED <<ackJob, conn, invokeWanted, ackWanted, sent, asked, extra, events>>
    BY DEF InvokeDrainRecord
  <1> HIDE DEF delay
  <1>4. invokeJob'.pc = "next" /\ invokeJob'.due = invokeJob.due
    BY <1>1, <1>2, <1>3, RecordedJob
  <1>5. /\ invokeJob'.due \subseteq invokeJob.due
        /\ invokeJob'.pc \notin {"send", "record", "resent"}
        /\ MaxAttempts \in {1, MaxAttempts}
    BY <1>4
  <1> QED  BY <1>2, <1>3, <1>5, RecordAttempts

\* A drain starts with what is due, so nothing is promised that is not left.
LEMMA InvokeDrainStartAttempts ==
  ASSUME AttemptsInv, IInv', NEW c \in Caller, InvokeDrainStart(c)
  PROVE  AttemptsInv'
  <1>1. DueInvokes \in SUBSET Entry
    BY DEF AttemptsInv, IInv, Shape, RecordShape, DueInvokes, Entry
  <1>2. invokeJob'.pc = "next" /\ invokeJob'.due = DueInvokes
    BY <1>1, DrainingJob DEF InvokeDrainStart
  <1>3. /\ invokeJob.pc = "idle" /\ invokeJob.due = {} /\ invokeWanted' \subseteq invokeWanted
        /\ UNCHANGED <<rec, ackJob, conn, ackWanted, sent, asked, extra, events>>
    BY IdleJob DEF InvokeDrainStart
  <1>4. CountsOK' /\ RestOK' /\ RecordsOK' /\ AckHandOK' /\ extra' >= extra
    BY <1>3 DEF AttemptsInv, CountsOK, RestOK, RecordsOK, Scheduled, Active, AckHandOK,
                Separate, InDue
  <1>5. \A e \in DueInvokes : Active(rec[e[1]]) /\ rec[e[1]].due = 0 /\ e[1] \in Key
                               /\ e = <<e[1], rec[e[1]].attempts>>
    BY DEF DueInvokes, Active, Never
  <1>6. InvokeHandOK'
    <2>1. \A e, f \in invokeJob'.due : e[1] = f[1] => e = f  BY <1>2, <1>5
    <2> QED  BY <1>2, <1>3, <1>5, <2>1 DEF InvokeHandOK, Separate, InDue
  <1>7. ASSUME NEW j \in Key PROVE Within(j)'
    <2>1. Taken(j)' = 0 /\ Taken(j) = 0  BY <1>2, <1>3 DEF Taken
    <2>2. CASE Active(rec[j])
      <3>1. Left(j)' = Left(j)  BY <1>3, <2>1, <2>2 DEF Left, Active, Room
      <3>2. Within(j)  BY DEF AttemptsInv, BudgetOK
      <3> HIDE DEF Left
      <3> QED  BY <1>3, <3>1, <3>2 DEF Within
    <2>3. CASE ~Active(rec[j])
      <3>1. Promised(j)' = 0  BY <1>2, <1>3, <1>5, <2>3 DEF Promised, InDue
      <3>2. Promised(j) \in {0, 1}  BY DEF Promised
      <3>3. rec' = rec /\ sent' = sent /\ asked' = asked  BY <1>3
      <3> QED  BY <1>4, <2>1, <3>1, <3>2, <3>3, WithinKept DEF Active
    <2> QED  BY <2>2, <2>3
  <1> QED  BY <1>4, <1>6, <1>7 DEF AttemptsInv, BudgetOK

\* An explicit resend is extra, sent or recorded.
LEMMA ResendAttempts ==
  ASSUME AttemptsInv, IInv', NEW k \in Key, Resend(k)
  PROVE  AttemptsInv'
  <1>1. invokeJob'.pc = "resent" /\ invokeJob'.key = k /\ invokeJob'.due = {}
    BY UserJob DEF Resend
  <1>2. /\ invokeJob.pc = "idle" /\ invokeJob.due = {} /\ sent' = [sent EXCEPT ![k] = @ + 1]
        /\ extra' = extra + 1 /\ events < MaxEvents /\ events' = events + 1
        /\ UNCHANGED <<rec, ackJob, conn, invokeWanted, ackWanted, asked>>
    BY IdleJob DEF Resend, SendInvoke, Occurs
  <1>3. CountsOK' /\ extra' >= extra /\ extra' \in Nat /\ extra \in Nat
    BY <1>2, BoundAssumption DEF AttemptsInv, CountsOK
  <1>4. RestOK' /\ AckHandOK'
    BY <1>2 DEF AttemptsInv, RestOK, AckHandOK, Separate, InDue
  <1>5. RecordsOK'
    BY <1>2, <1>3, ScheduledKept DEF RecordsOK
  <1>6. InvokeHandOK'
    <2>1. Scheduled(rec[k]) /\ rec[k].attempts \in Nat
      BY RecordFields DEF AttemptsInv, RecordsOK
    <2>2. /\ rec[k].attempts < MaxAttempts + extra'
          /\ Active(rec[k]) => rec[k].attempts + 1 < MaxAttempts + extra'
      BY <1>2, <1>3, <2>1, AttemptAssumption DEF Scheduled
    <2> QED  BY <1>1, <1>2, <2>2 DEF InvokeHandOK, Separate, InDue, Active
  <1>7. ASSUME NEW j \in Key PROVE Within(j)'
    <2>1. /\ sent[j] + Left(j) <= MaxAttempts * asked[j] + extra
          /\ sent[j] \in Nat /\ Left(j) \in Nat /\ MaxAttempts * asked[j] \in Nat
      BY LeftCovers, RecordFields, AttemptAssumption
         DEF AttemptsInv, BudgetOK, Within, CountsOK
    <2>2. Left(j)' = Left(j)
      BY <1>1, <1>2 DEF Left, Promised, Taken, InDue, Active, Room
    <2>3. sent'[j] <= sent[j] + 1 /\ sent'[j] \in Nat
      BY <1>2, <2>1 DEF AttemptsInv, IInv, Shape
    <2>4. asked'[j] = asked[j]  BY <1>2
    <2> HIDE DEF Left
    <2> QED  BY <1>2, <1>3, <2>1, <2>2, <2>3, <2>4 DEF Within
  <1> QED  BY <1>3, <1>4, <1>5, <1>6, <1>7 DEF AttemptsInv, BudgetOK

\* Its attempt is counted on top of the schedule.
LEMMA ResendRecordAttempts ==
  ASSUME AttemptsInv, IInv', ResendRecord
  PROVE  AttemptsInv'
  <1> PICK k \in Key : k = invokeJob.key  BY DEF AttemptsInv, IInv, JobKeys, ResendRecord
  <1> DEFINE r == rec[k]
  <1> DEFINE counted == CountedResend(r)
  <1>1. r \in RecordShape /\ r.attempts \in Nat /\ Scheduled(r)
    BY RecordFields DEF AttemptsInv, RecordsOK, IInv, JobKeys, ResendRecord
  <1>2. rec'[k] = counted /\ \A j \in Key \ {k} : rec'[j] = rec[j]
    BY <1>1 DEF ResendRecord, AttemptsInv, IInv, Shape
  <1>3. /\ counted.attempts = r.attempts + 1 /\ counted.due = r.due
        /\ counted.ackAttempts = r.ackAttempts /\ counted.ackDue = r.ackDue
        /\ counted.state = r.state
    BY <1>1, CountedResendFields, CountedResendKeeps
  <1>4. r.attempts < MaxAttempts + extra /\ (Active(r) => r.attempts + 1 < MaxAttempts + extra)
    BY DEF AttemptsInv, InvokeHandOK, ResendRecord
  <1>5. /\ invokeJob'.pc = "idle" /\ invokeJob'.due = {} /\ invokeJob.pc = "resent"
        /\ UNCHANGED <<ackJob, conn, invokeWanted, ackWanted, sent, asked, extra, events>>
    BY IdleJob DEF ResendRecord
  <1> HIDE DEF r, counted
  <1>6. CountsOK' /\ RestOK' /\ extra' \in Nat /\ extra' >= extra /\ extra' = extra
    BY <1>5 DEF AttemptsInv, CountsOK, RestOK
  <1>7. Scheduled(rec[k])'
    BY <1>1, <1>2, <1>3, <1>4, <1>6, AttemptAssumption DEF Scheduled, Active
  <1>8. RecordsOK'  BY <1>2, <1>6, <1>7, ScheduledKept DEF RecordsOK
  <1>9. InvokeHandOK'  BY <1>5 DEF InvokeHandOK, Separate, InDue
  <1>10. AckHandOK'
    <2>1. \A j \in Key : rec'[j].ackDue = rec[j].ackDue  BY <1>2, <1>3 DEF r
    <2> QED  BY <1>5, <2>1
             DEF AttemptsInv, AckHandOK, Separate, InDue, IInv, Shape, Job, Entry, JobKeys
  <1>11. ASSUME NEW j \in Key PROVE Within(j)'
    <2>1. Promised(j)' = 0 /\ Taken(j)' = 0 /\ Taken(j) = 0
      BY <1>5 DEF Promised, InDue, Taken
    <2>2. /\ sent[j] + Left(j) <= MaxAttempts * asked[j] + extra
          /\ sent[j] \in Nat /\ Left(j) \in Nat /\ MaxAttempts * asked[j] \in Nat
          /\ extra \in Nat
      BY LeftCovers, RecordFields, AttemptAssumption
         DEF AttemptsInv, BudgetOK, Within, CountsOK
    <2>3. Left(j)' <= Left(j) /\ Left(j)' \in Int
      <3>1. Active(rec[j])' <=> Active(rec[j])
        BY <1>2, <1>3 DEF Active, r
      <3>2. CASE Active(rec[j])
        <4>1. rec[j].attempts \in Nat  BY RecordFields DEF AttemptsInv
        <4>2. rec'[j].attempts \in {rec[j].attempts, rec[j].attempts + 1}
          BY <1>2, <1>3 DEF r
        <4>3. Left(j) = Room(rec[j])  BY <2>1, <2>2, <3>2, LeftCovers DEF Left
        <4>4. Left(j)' = Room(rec'[j])
          <5>1. Left(j)' = Room(rec'[j]) - Taken(j)'  BY <3>1, <3>2 DEF Left, Room
          <5>2. Room(rec'[j]) \in Int  BY <4>1, <4>2, AttemptAssumption DEF Room
          <5> QED  BY <2>1, <5>1, <5>2
        <4> QED  BY <4>1, <4>2, <4>3, <4>4, AttemptAssumption DEF Room
      <3>3. CASE ~Active(rec[j])
        <4>1. Left(j)' = Promised(j)'  BY <3>1, <3>3 DEF Left
        <4> QED  BY <2>1, <2>2, <4>1
      <3> QED  BY <3>2, <3>3
    <2>4. sent'[j] = sent[j] /\ asked'[j] = asked[j]  BY <1>5
    <2> HIDE DEF Left
    <2> QED  BY <1>6, <2>2, <2>3, <2>4 DEF Within
  <1> QED  BY <1>6, <1>8, <1>9, <1>10, <1>11 DEF AttemptsInv, BudgetOK

-----------------------------------------------------------------------------
(* Acknowledgements, results and time.                                      *)

\* A drain of the acknowledgements takes up what is due, or sends one of it.
LEMMA AckDrainAttempts ==
  ASSUME AttemptsInv, IInv',
         UNCHANGED <<rec, invokeJob, conn, invokeWanted, sent, asked, extra, events>>,
         ackWanted' \subseteq ackWanted, AckHandOK'
  PROVE  AttemptsInv'
  <1>1. CountsOK' /\ RestOK' /\ RecordsOK'
    BY DEF AttemptsInv, CountsOK, RestOK, RecordsOK, Scheduled, Active
  <1>2. InvokeHandOK'
    BY DEF AttemptsInv, InvokeHandOK, Separate, InDue, Active
  <1>3. ASSUME NEW j \in Key PROVE Within(j)'
    <2>1. Left(j)' = Left(j)
      BY DEF Left, Promised, Taken, InDue, Active, Room
    <2>2. Within(j)  BY DEF AttemptsInv, BudgetOK
    <2> HIDE DEF Left
    <2> QED  BY <2>1, <2>2 DEF Within
  <1> QED  BY <1>1, <1>2, <1>3 DEF AttemptsInv, BudgetOK

\* A drain starts with one entry of each key whose acknowledgement is due.
LEMMA AckDrainStartAttempts ==
  ASSUME AttemptsInv, IInv', NEW c \in Caller, AckDrainStart(c)
  PROVE  AttemptsInv'
  <1>1. DueAcks \in SUBSET Entry
    BY DEF AttemptsInv, IInv, Shape, RecordShape, DueAcks, Entry
  <1>2. ackJob'.pc = "next" /\ ackJob'.due = DueAcks
    BY <1>1, DrainingJob DEF AckDrainStart
  <1>3. /\ ackWanted' \subseteq ackWanted
        /\ UNCHANGED <<rec, invokeJob, conn, invokeWanted, sent, asked, extra, events>>
    BY DEF AckDrainStart
  <1>4. \A e \in DueAcks : rec[e[1]].ackDue = 0 /\ e = <<e[1], rec[e[1]].ackAttempts>>
    BY DEF DueAcks
  <1>5. \A e, f \in ackJob'.due : e[1] = f[1] => e = f  BY <1>2, <1>4
  <1>6. AckHandOK'  BY <1>2, <1>3, <1>4, <1>5 DEF AckHandOK, Separate, InDue
  <1> QED  BY <1>3, <1>6, AckDrainAttempts

\* The entry that is sent leaves the drain.
LEMMA AckDrainSendAttempts ==
  ASSUME AttemptsInv, IInv', NEW e \in ackJob.due, AckDrainSend(e)
  PROVE  AttemptsInv'
  <1>1. ackJob \in Job /\ e \in Entry /\ ackJob.pc = "next"
    BY DEF AttemptsInv, IInv, Shape, Job, Entry, AckDrainSend
  <1>2. UNCHANGED <<rec, invokeJob, conn, invokeWanted, ackWanted, sent, asked, extra, events>>
    BY DEF AckDrainSend
  <1>3. \/ ackJob' = Taking(ackJob, e)
        \/ ackJob' = [ackJob EXCEPT !.due = {}, !.refused = TRUE]
        \/ ackJob' = [ackJob EXCEPT !.due = @ \ {e}]
    BY DEF AckDrainSend
  <1>4. /\ ackJob'.due \subseteq ackJob.due
        /\ \/ ackJob'.pc = "next"
           \/ ackJob'.pc = "record" /\ ackJob'.key = e[1] /\ e \notin ackJob'.due
    <2>1. CASE ackJob' = Taking(ackJob, e)  BY <1>1, <2>1, TakingJob
    <2>2. CASE ackJob' = [ackJob EXCEPT !.due = {}, !.refused = TRUE]
      BY <1>1, <2>2, RefusedJob
    <2>3. CASE ackJob' = [ackJob EXCEPT !.due = @ \ {e}]
      BY <1>1, <2>3, PassedJob
    <2> QED  BY <1>3, <2>1, <2>2, <2>3
  <1>5. AckHandOK'
    BY <1>2, <1>4 DEF AttemptsInv, AckHandOK, Separate, InDue
  <1> QED  BY <1>2, <1>5, AckDrainAttempts

\* The attempt of an acknowledgement, of a record that is no longer pending.
LEMMA AckDrainRecordAttempts ==
  ASSUME AttemptsInv, IInv', AckDrainRecord
  PROVE  AttemptsInv'
  <1> PICK k \in Key : k = ackJob.key  BY DEF AttemptsInv, IInv, JobKeys, AckDrainRecord
  <1> DEFINE delay == RetryDelay(ackJob.n, AckCap)
  <1> DEFINE r == rec[k]
  <1> DEFINE counted == CountedAck(r, delay)
  <1>1. ackJob \in Job /\ ackJob.n \in Nat /\ r \in RecordShape /\ ackJob.pc = "record"
    BY DEF AttemptsInv, IInv, Shape, Job, AckDrainRecord
  <1>2. delay \in 0..AckCap /\ delay \in Int  BY <1>1, RetryDelayRange DEF AckCap
  <1>3. /\ r.state = "completed" /\ r.ackDue = 0 /\ Scheduled(r) /\ ~InDue(ackJob, k)
        /\ r.attempts \in Nat /\ r.ackAttempts \in Nat
    BY <1>1 DEF AttemptsInv, IInv, JobKeys, Completed, AckHandOK, Separate, RecordsOK, RecordShape
  <1>4. /\ rec'[k] = counted /\ \A j \in Key \ {k} : rec'[j] = rec[j]
        /\ ackJob' = Recorded(ackJob, delay)
        /\ UNCHANGED <<invokeJob, conn, invokeWanted, ackWanted, sent, asked, extra, events>>
    BY DEF AckDrainRecord, RecordAck, AttemptsInv, IInv, Shape
  <1> HIDE DEF delay
  <1>5. /\ counted.attempts = r.attempts /\ counted.due = r.due /\ counted.state = r.state
        /\ counted.ackAttempts = r.ackAttempts + 1
        /\ counted.ackDue = Attempted(r.ackAttempts, delay, MaxAttempts)
    BY <1>1, <1>2, CountedAckFields, CountedAckKeeps
  <1>6. ackJob'.pc = "next" /\ ackJob'.due = ackJob.due
    BY <1>1, <1>2, <1>4, RecordedJob
  <1> HIDE DEF r, counted
  <1>7. CountsOK' /\ RestOK' /\ extra' \in Nat /\ extra' >= extra /\ extra' = extra
    BY <1>4 DEF AttemptsInv, CountsOK, RestOK
  <1>8. Scheduled(rec[k])'
    BY <1>2, <1>3, <1>4, <1>5, <1>7, AttemptAssumption DEF Scheduled, Active, Attempted, Never
  <1>9. RecordsOK'  BY <1>4, <1>7, <1>8, ScheduledKept DEF RecordsOK
  <1>10. \A j \in Key : /\ rec'[j].state = rec[j].state /\ rec'[j].due = rec[j].due
                        /\ rec'[j].attempts = rec[j].attempts
    BY <1>4, <1>5 DEF r
  <1>11. InvokeHandOK'
    BY <1>4, <1>7, <1>10
       DEF AttemptsInv, InvokeHandOK, Separate, InDue, Active, IInv, Shape, Job, Entry, JobKeys
  <1>12. AckHandOK'
    BY <1>3, <1>4, <1>6 DEF AttemptsInv, AckHandOK, Separate, InDue, IInv, Shape, Job, Entry
  <1>13. ASSUME NEW j \in Key PROVE Within(j)'
    <2>1. Active(rec[j])' <=> Active(rec[j])  BY <1>10 DEF Active
    <2>2. Promised(j)' = Promised(j) /\ Taken(j)' = Taken(j)
          /\ sent'[j] = sent[j] /\ asked'[j] = asked[j]
      BY <1>4 DEF Promised, Taken, InDue
    <2>3. Promised(j) \in {0, 1} /\ Taken(j) \in {0, 1}  BY DEF Promised, Taken
    <2> QED  BY <1>7, <1>10, <2>1, <2>2, <2>3, WithinKept
  <1> QED  BY <1>7, <1>9, <1>11, <1>12, <1>13 DEF AttemptsInv, BudgetOK

\* A result ends the schedule of the invocation and starts the acknowledgement's.
LEMMA ReceiveAttempts ==
  ASSUME AttemptsInv, IInv', NEW k \in Key, Receive(k)
  PROVE  AttemptsInv'
  <1> DEFINE r == rec[k]
  <1> DEFINE done == Completing(r)
  <1>1. r \in RecordShape /\ r.attempts \in Nat /\ Scheduled(r)
    BY DEF AttemptsInv, IInv, Shape, RecordShape, RecordsOK
  <1>2. /\ done.attempts = r.attempts /\ done.due = Never /\ done.state = "completed"
        /\ done.ackAttempts = 0 /\ done.ackDue = 0
    BY <1>1, CompletingFields, CompletingKeeps
  <1>3. /\ rec'[k] = done /\ \A j \in Key \ {k} : rec'[j] = rec[j]
        /\ ackWanted' = ackWanted \cup {"inbound"}
        /\ UNCHANGED <<invokeJob, ackJob, conn, invokeWanted, sent, asked, extra, events>>
    BY DEF Receive, Reconcile, AttemptsInv, IInv, Shape
  <1> HIDE DEF r, done
  <1>4. CountsOK' /\ RestOK' /\ extra' \in Nat /\ extra \in Nat /\ extra' >= extra
        /\ extra' = extra
    BY <1>3 DEF AttemptsInv, CountsOK, RestOK, Caller
  <1>5. Scheduled(rec[k])'
    BY <1>1, <1>2, <1>3, <1>4, AttemptAssumption DEF Scheduled, Active, Never, AckCap
  <1>6. RecordsOK'  BY <1>3, <1>4, <1>5, ScheduledKept DEF RecordsOK
  <1>7. InvokeHandOK'
    BY <1>2, <1>3, <1>4 DEF AttemptsInv, InvokeHandOK, Separate, InDue, Active, IInv, Shape,
                            Job, Entry, JobKeys, r
  <1>8. AckHandOK'
    BY <1>2, <1>3 DEF AttemptsInv, AckHandOK, Separate, InDue, IInv, Shape, Job, Entry, JobKeys
  <1>9. ASSUME NEW j \in Key PROVE Within(j)'
    <2>1. Promised(j)' = Promised(j) /\ Taken(j)' = Taken(j)
          /\ sent'[j] = sent[j] /\ asked'[j] = asked[j]
      BY <1>3 DEF Promised, Taken, InDue
    <2>2. Promised(j) \in {0, 1} /\ Taken(j) \in {0, 1}  BY DEF Promised, Taken
    <2>3. CASE j = k
      <3>1. Left(k)' = Promised(k)  BY <1>2, <1>3, <2>1, <2>3 DEF Left, Active
      <3>2. /\ sent[k] + Left(k) <= MaxAttempts * asked[k] + extra
            /\ sent[k] \in Nat /\ Left(k) \in Nat /\ MaxAttempts * asked[k] \in Nat
            /\ Promised(k) <= Left(k)
        BY LeftCovers, RecordFields, AttemptAssumption
           DEF AttemptsInv, BudgetOK, Within, CountsOK
      <3> QED  BY <1>4, <2>1, <2>2, <2>3, <3>1, <3>2 DEF Within
    <2>4. CASE j # k
      <3>1. rec'[j] = rec[j]  BY <1>3, <2>4
      <3> QED  BY <1>4, <2>1, <2>2, <3>1, WithinKept DEF Active
    <2> QED  BY <2>3, <2>4
  <1> QED  BY <1>4, <1>6, <1>7, <1>8, <1>9 DEF AttemptsInv, BudgetOK

\* Time brings what is scheduled nearer, and nothing due ceases to be.
LEMMA TickAttempts ==
  ASSUME AttemptsInv, IInv', Tick
  PROVE  AttemptsInv'
  <1>1. UNCHANGED <<invokeJob, ackJob, conn, invokeWanted, ackWanted, sent, asked, extra, events>>
    BY DEF Tick
  <1>2. \A j \in Key : /\ rec'[j].attempts = rec[j].attempts /\ rec'[j].due = Down(rec[j].due)
                       /\ rec'[j].ackAttempts = rec[j].ackAttempts
                       /\ rec'[j].ackDue = Down(rec[j].ackDue) /\ rec'[j].state = rec[j].state
                       /\ rec[j].attempts \in Nat /\ rec[j].due \in Int /\ rec[j].ackDue \in Int
    <2>1. \A j \in Key : rec'[j] = Aged(rec[j])  BY DEF Tick
    <2> QED  BY <2>1, AgedFields, AgedKeeps, RecordFields DEF AttemptsInv
  <1>3. CountsOK' /\ RestOK' /\ extra' \in Nat /\ extra' >= extra /\ extra' = extra
    BY <1>1 DEF AttemptsInv, CountsOK, RestOK
  <1>4. ASSUME NEW j \in Key
        PROVE  /\ Active(rec[j])' <=> Active(rec[j])
               /\ Scheduled(rec[j])'
    <2>1. Scheduled(rec[j])  BY DEF AttemptsInv, RecordsOK
    <2>2. \A d \in {Never} \cup 0..InvokeCap :
            Down(d) \in {Never} \cup 0..InvokeCap /\ (Down(d) = Never <=> d = Never)
      BY DEF Down, Never, InvokeCap
    <2>3. \A d \in {Never} \cup 0..AckCap :
            Down(d) \in {Never} \cup 0..AckCap /\ (Down(d) = Never <=> d = Never)
      BY DEF Down, Never, AckCap
    <2>4. rec[j].due \in {Never} \cup 0..InvokeCap /\ rec[j].ackDue \in {Never} \cup 0..AckCap
      BY <2>1 DEF Scheduled
    <2>5. Active(rec[j])' <=> Active(rec[j])  BY <1>2, <2>2, <2>4 DEF Active
    <2>6. rec'[j].ackDue = Never <=> rec[j].ackDue = Never  BY <1>2, <2>3, <2>4
    <2>7. /\ rec'[j].due \in {Never} \cup 0..InvokeCap
          /\ rec'[j].ackDue \in {Never} \cup 0..AckCap
      BY <1>2, <2>2, <2>3, <2>4
    <2> QED  BY <1>2, <1>3, <2>1, <2>5, <2>6, <2>7 DEF Scheduled
  <1>5. RecordsOK'  BY <1>4 DEF RecordsOK
  <1>6. Down(0) = 0  BY DEF Down
  <1>7. InvokeHandOK'
    <2>1. \A j \in Key : /\ rec[j].due = 0 => rec'[j].due = 0
                         /\ rec'[j].state = rec[j].state /\ rec'[j].attempts = rec[j].attempts
      BY <1>2, <1>6
    <2>2. invokeJob.pc \in {"send", "record", "resent"} => invokeJob.key \in Key
      BY DEF AttemptsInv, IInv, JobKeys
    <2>3. \A e \in invokeJob.due : e[1] \in Key
      BY DEF AttemptsInv, IInv, Shape, Job, Entry
    <2>4. Separate(invokeJob)'  BY <1>1 DEF AttemptsInv, InvokeHandOK, Separate, InDue
    <2>5. ASSUME invokeJob'.pc \in {"send", "record"}, rec'[invokeJob'.key].state = "pending"
          PROVE  rec'[invokeJob'.key].due = 0
      <3> PICK k \in Key : k = invokeJob.key  BY <1>1, <2>2, <2>5
      <3>1. rec'[k].state = "pending" /\ invokeJob'.key = k  BY <1>1, <2>5
      <3>2. rec[k].state = "pending" => rec[k].due = 0
        BY <1>1, <2>5 DEF AttemptsInv, InvokeHandOK
      <3> QED  BY <2>1, <3>1, <3>2
    <2>7. ASSUME NEW e \in invokeJob'.due PROVE rec'[e[1]].state = "pending" => rec'[e[1]].due = 0
      <3>1. rec[e[1]].state = "pending" => rec[e[1]].due = 0
        BY <1>1 DEF AttemptsInv, InvokeHandOK
      <3> QED  BY <1>1, <2>1, <2>3, <3>1
    <2>6. invokeJob'.pc = "resent" =>
            /\ rec'[invokeJob'.key].attempts < MaxAttempts + extra'
            /\ rec'[invokeJob'.key].state = "pending" /\ rec'[invokeJob'.key].due # Never
                 => rec'[invokeJob'.key].attempts + 1 < MaxAttempts + extra'
      <3> SUFFICES ASSUME invokeJob'.pc = "resent"
                   PROVE  /\ rec'[invokeJob'.key].attempts < MaxAttempts + extra'
                          /\ rec'[invokeJob'.key].state = "pending"
                               /\ rec'[invokeJob'.key].due # Never
                               => rec'[invokeJob'.key].attempts + 1 < MaxAttempts + extra'
        OBVIOUS
      <3> PICK k \in Key : k = invokeJob.key  BY <1>1, <2>2
      <3>1. /\ rec[k].attempts < MaxAttempts + extra
            /\ Active(rec[k]) => rec[k].attempts + 1 < MaxAttempts + extra
        BY <1>1 DEF AttemptsInv, InvokeHandOK
      <3>2. invokeJob'.key = k /\ rec'[k].attempts = rec[k].attempts
            /\ (Active(rec[k])' <=> Active(rec[k]))
        BY <1>1, <1>4, <2>1
      <3>3. Active(rec[k])' <=> rec'[k].state = "pending" /\ rec'[k].due # Never  BY DEF Active
      <3> QED  BY <1>3, <3>1, <3>2, <3>3
    <2> QED  BY <2>4, <2>5, <2>6, <2>7 DEF InvokeHandOK, Active
  <1>8. AckHandOK'
    <2>1. \A j \in Key : rec[j].ackDue = 0 => rec'[j].ackDue = 0  BY <1>2, <1>6
    <2>2. ackJob.pc = "record" => ackJob.key \in Key
      BY DEF AttemptsInv, IInv, JobKeys
    <2>3. \A e \in ackJob.due : e[1] \in Key
      BY DEF AttemptsInv, IInv, Shape, Job, Entry
    <2> QED  BY <1>1, <2>1, <2>2, <2>3 DEF AttemptsInv, AckHandOK, Separate, InDue
  <1>9. ASSUME NEW j \in Key PROVE Within(j)'
    <2>1. Promised(j)' = Promised(j) /\ Taken(j)' = Taken(j)
          /\ sent'[j] = sent[j] /\ asked'[j] = asked[j]
      BY <1>1 DEF Promised, Taken, InDue
    <2>2. Promised(j) \in {0, 1} /\ Taken(j) \in {0, 1}  BY DEF Promised, Taken
    <2> QED  BY <1>2, <1>3, <1>4, <2>1, <2>2, WithinKept
  <1> QED  BY <1>3, <1>5, <1>7, <1>8, <1>9 DEF AttemptsInv, BudgetOK

-----------------------------------------------------------------------------
(* The theorems.                                                            *)

\* Before anything is asked for.
LEMMA InitAttempts == Init => AttemptsInv
  <1> SUFFICES ASSUME Init PROVE AttemptsInv  OBVIOUS
  <1>1. IInv  BY InitIInv
  <1>2. CountsOK /\ RestOK  BY BoundAssumption DEF Init, CountsOK, RestOK
  <1>3. RecordsOK
    BY AttemptAssumption DEF Init, RecordsOK, Scheduled, Active, NoRecord, Never
  <1>4. InvokeHandOK /\ AckHandOK
    BY IdleJob DEF Init, InvokeHandOK, AckHandOK, Separate, InDue
  <1>5. ASSUME NEW k \in Key PROVE Within(k)
    <2>1. Left(k) = 0
      BY IdleJob DEF Init, NoRecord, Left, Active, Promised, InDue
    <2>2. MaxAttempts * 0 = 0  BY AttemptAssumption
    <2> QED  BY <2>1, <2>2 DEF Init, Within
  <1> QED  BY <1>1, <1>2, <1>3, <1>4, <1>5 DEF AttemptsInv, BudgetOK

\* AttemptsInv is inductive.
LEMMA NextAttempts == AttemptsInv /\ [Next]_vars => AttemptsInv'
  <1> SUFFICES ASSUME AttemptsInv, [Next]_vars PROVE AttemptsInv'  OBVIOUS
  <1>1. IInv'  BY NextIInv DEF AttemptsInv
  <1>2. ASSUME NEW k \in Key, Queue(k) PROVE AttemptsInv'  BY <1>1, <1>2, QueueAttempts
  <1>3. ASSUME NEW k \in Key, Resend(k) PROVE AttemptsInv'  BY <1>1, <1>3, ResendAttempts
  <1>4. ASSUME NEW k \in Key, Receive(k) PROVE AttemptsInv'  BY <1>1, <1>4, ReceiveAttempts
  <1>5. ASSUME OtherStep \/ \E k \in Key : PhoneInvoke(k) \/ PhoneAck(k) PROVE AttemptsInv'
    BY <1>1, <1>5, OtherAttempts
  <1>6. CASE InvokeStep
    <2>1. ASSUME NEW c \in Caller, InvokeDrainStart(c) PROVE AttemptsInv'
      BY <1>1, <2>1, InvokeDrainStartAttempts
    <2>2. ASSUME NEW e \in invokeJob.due, InvokeDrainSend(e) PROVE AttemptsInv'
      BY <1>1, <2>2, InvokeDrainSendAttempts
    <2>3. ASSUME InvokeEnd PROVE AttemptsInv'  BY <1>1, <2>3, EndsAttempts
    <2> QED  BY <1>1, <1>6, <2>1, <2>2, <2>3, InvokeDrainRecordAttempts,
                QueueSendAttempts, QueueRecordAttempts, ResendRecordAttempts DEF InvokeStep
  <1>7. CASE AckStep
    <2>1. ASSUME NEW c \in Caller, AckDrainStart(c) PROVE AttemptsInv'
      BY <1>1, <2>1, AckDrainStartAttempts
    <2>2. ASSUME NEW e \in ackJob.due, AckDrainSend(e) PROVE AttemptsInv'
      BY <1>1, <2>2, AckDrainSendAttempts
    <2>3. ASSUME AckEnd PROVE AttemptsInv'  BY <1>1, <2>3, EndsAttempts
    <2> QED  BY <1>1, <1>7, <2>1, <2>2, <2>3, AckDrainRecordAttempts DEF AckStep
  <1>8. CASE Tick  BY <1>1, <1>8, TickAttempts
  <1>9. ASSUME InvokeThrows \/ AckThrows \/ Crash PROVE AttemptsInv'
    BY <1>1, <1>9, EndsAttempts
  <1>10. CASE UNCHANGED vars  BY <1>1, <1>10, StutterAttempts
  <1> QED
    BY <1>2, <1>3, <1>4, <1>5, <1>6, <1>7, <1>8, <1>9, <1>10 DEF Next, OtherStep

\* AttemptsInv in every reachable state, for every set of keys and every bound.
THEOREM AttemptsInductive == Spec => []AttemptsInv
  BY InitAttempts, NextAttempts, PTL DEF Spec

\* The records are what validateDeliveryRecord accepts in every reachable state: no
\* order of drains, requests, explicit resends, results and restarts counts an
\* attempt past the maximum, except for the explicit resends of invocations.
THEOREM ActionTypes == Spec => []TypeOK
  <1>1. AttemptsInv => TypeOK
    <2> SUFFICES ASSUME AttemptsInv PROVE TypeOK  OBVIOUS
    <2>1. ASSUME NEW k \in Key PROVE rec[k] \in Record
      <3>1. rec[k] \in RecordShape /\ Scheduled(rec[k])
        BY DEF AttemptsInv, IInv, Shape, RecordsOK
      <3>2. extra \in Nat /\ extra <= MaxEvents /\ MaxEvents \in Nat
        BY BoundAssumption DEF AttemptsInv, CountsOK
      <3>3. /\ rec[k].attempts \in 0..MaxAttempts + MaxEvents
            /\ rec[k].ackAttempts \in 0..MaxAttempts
        BY <3>1, <3>2, AttemptAssumption DEF RecordShape, Scheduled
      <3> QED  BY <3>1, <3>3 DEF RecordShape, Scheduled, Record
    <2>2. rec \in [Key -> Record]  BY <2>1 DEF AttemptsInv, IInv, Shape
    <2> QED  BY <2>2 DEF AttemptsInv, IInv, Shape, RestOK, TypeOK, Frame
  <1> QED  BY <1>1, AttemptsInductive, PTL

\* Frames are bounded: every frame of an operation is one of the attempts of a
\* registration, an explicit resend, or one whose record a crash or a failure
\* cut off; no overlap of a request, a drain, a result and a restart adds another.
THEOREM SendsBounded == Spec => []BoundedSends
  <1>1. AttemptsInv => BoundedSends
    <2> SUFFICES ASSUME AttemptsInv, NEW k \in Key
                 PROVE  sent[k] <= MaxAttempts * asked[k] + extra
      BY DEF BoundedSends
    <2>1. sent[k] + Left(k) <= MaxAttempts * asked[k] + extra
      BY DEF AttemptsInv, BudgetOK, Within
    <2>2. sent[k] \in Nat /\ Left(k) \in Nat /\ MaxAttempts * asked[k] + extra \in Nat
      BY LeftCovers, RecordFields, AttemptAssumption DEF AttemptsInv, CountsOK
    <2> QED  BY <2>1, <2>2
  <1> QED  BY <1>1, AttemptsInductive, PTL

-----------------------------------------------------------------------------
(* The alarm of a single retried operation.  With a second one, a drain that *)
(* sends the one replaces the alarm the other waits for (run                 *)
(* ActionInvokeWake); an explicit resend counts an attempt of an operation   *)
(* that has no alarm yet; and a crash drops the callers of a drain.          *)

OneRetried ==
  /\ Events \cap {"resend", "crash"} = {}
  /\ \A a, b \in Key \ OneShot : a = b

Waiting(k) == Active(rec[k]) /\ rec[k].attempts > 0
InHand(k) == (invokeJob.pc = "record" /\ invokeJob.key = k) \/ InDue(invokeJob, k)

\* What will start a drain of k when its attempt is due.
Awake(k) ==
  \/ invokeAlarm >= rec[k].due
  \/ "wake" \in invokeWanted /\ rec[k].due = 0
  \/ invokeJob.wake >= rec[k].due
  \/ InHand(k)
  \/ invokeJob.refused

\* A request has no entries, no refusal, and an alarm to set only at its end.
JobOK ==
  /\ invokeJob.pc = "idle" => invokeJob = Idle
  /\ invokeJob.pc # "resent"
  /\ invokeJob.pc \in {"send", "end"} => invokeJob.owner = "user"
  /\ invokeJob.owner = "user" =>
       /\ invokeJob.due = {} /\ ~invokeJob.refused
       /\ invokeJob.pc # "end" => invokeJob.wake = Never
       /\ invokeJob.pc \in {"send", "record"} => invokeJob.n = 0
  /\ invokeJob.pc = "record" /\ invokeJob.owner # "user" => invokeJob.key \notin OneShot

\* What a drain knows of k: its attempts, and when it is due at the latest.
Drained(k) ==
  /\ invokeJob.wake # Never /\ Waiting(k) => rec[k].due <= invokeJob.wake
  /\ invokeJob.refused /\ rec[k].state = "pending" => rec[k].due = 0
  /\ InHand(k) => invokeJob.wake = Never /\ ~invokeJob.refused
  /\ \A e \in invokeJob.due : e[1] = k /\ rec[k].state = "pending" => rec[k].attempts = e[2]
  /\ invokeJob.pc \in {"send", "record"} /\ invokeJob.key = k /\ rec[k].state = "pending"
       => rec[k].attempts = invokeJob.n

RetryInv ==
  /\ invokeAlarm \in Int
  /\ JobOK
  /\ \A k \in Key \ OneShot :
       /\ approved /\ conn # "halted" /\ Waiting(k) => Awake(k)
       /\ Drained(k)

\* A due time that is not Never is not negative, and numbers are numbers.
LEMMA RetryNumbers ==
  ASSUME AttemptsInv, NEW k \in Key
  PROVE  /\ rec[k].due \in Int /\ rec[k].attempts \in Nat /\ rec[k].due >= -1
         /\ Active(rec[k]) => rec[k].due >= 0
         /\ invokeJob \in Job /\ invokeJob.wake \in Int /\ invokeJob.n \in Nat
  <1>1. Scheduled(rec[k]) /\ rec[k] \in RecordShape
    BY DEF AttemptsInv, RecordsOK, IInv, Shape
  <1>2. rec[k].due >= -1  BY <1>1 DEF Scheduled, Never, InvokeCap
  <1> QED  BY <1>1, <1>2 DEF AttemptsInv, IInv, Shape, RecordShape, Job, Active, Never

\* What leaves the job and the schedules alone and takes no wake-up away.
LEMMA RetryKept ==
  ASSUME AttemptsInv, RetryInv, UNCHANGED invokeJob,
         \A k \in Key : /\ rec'[k].state = rec[k].state /\ rec'[k].due = rec[k].due
                        /\ rec'[k].attempts = rec[k].attempts,
         approved' => approved, conn' # "halted" => conn # "halted",
         invokeWanted \subseteq invokeWanted',
         \/ invokeAlarm' = invokeAlarm
         \/ invokeAlarm = 0 /\ invokeAlarm' = Never /\ "wake" \in invokeWanted'
  PROVE  RetryInv'
  <1>1. invokeAlarm' \in Int  BY DEF RetryInv, Never
  <1>2. JobOK'  BY DEF RetryInv, JobOK
  <1>3. ASSUME NEW k \in Key \ OneShot PROVE Drained(k)'
    BY DEF RetryInv, Drained, Waiting, InHand, InDue, Active
  <1>4. ASSUME NEW k \in Key \ OneShot, approved', conn' # "halted", Waiting(k)'
        PROVE  Awake(k)'
    <2>1. Waiting(k)  BY <1>4 DEF Waiting, Active
    <2>2. Awake(k)  BY <1>4, <2>1 DEF RetryInv
    <2>3. rec[k].due \in Int /\ rec[k].due >= 0 /\ rec'[k].due = rec[k].due
      BY <2>1, RetryNumbers DEF Waiting
    <2> QED  BY <2>2, <2>3 DEF Awake, InHand, InDue
  <1> QED  BY <1>1, <1>2, <1>3, <1>4 DEF RetryInv

\* A job that ends with nothing in hand and no alarm to set.
LEMMA RetryJobEnds ==
  ASSUME AttemptsInv, RetryInv, invokeJob' = Idle, UNCHANGED <<rec, invokeAlarm, invokeWanted>>,
         approved' => approved, conn' # "halted" => conn # "halted",
         \A k \in Key \ OneShot :
           approved' /\ conn' # "halted" /\ Waiting(k) =>
             invokeJob.wake = Never /\ ~invokeJob.refused /\ ~InHand(k)
  PROVE  RetryInv'
  <1>1. Idle.pc = "idle" /\ Idle.due = {} /\ Idle.owner = "none"  BY IdleJob
  <1>2. Idle.wake = Never /\ Idle.refused = FALSE  BY DEF Idle
  <1>3. JobOK'  BY <1>1 DEF JobOK
  <1>4. ASSUME NEW k \in Key \ OneShot PROVE Drained(k)'
    BY <1>1, <1>2 DEF Drained, InHand, InDue
  <1>5. ASSUME NEW k \in Key \ OneShot, approved', conn' # "halted", Waiting(k)'
        PROVE  Awake(k)'
    <2>1. Waiting(k)  BY <1>5 DEF Waiting, Active
    <2>2. Awake(k)  BY <1>5, <2>1 DEF RetryInv
    <2>3. ~InHand(k) /\ ~invokeJob.refused /\ invokeJob.wake = Never  BY <1>5, <2>1
    <2>4. ~(invokeJob.wake >= rec[k].due)
      <3>1. rec[k].due \in Int /\ rec[k].due >= 0  BY <2>1, RetryNumbers DEF Waiting
      <3> QED  BY <2>3, <3>1 DEF Never
    <2>5. invokeAlarm >= rec[k].due \/ ("wake" \in invokeWanted /\ rec[k].due = 0)
      BY <2>2, <2>3, <2>4 DEF Awake
    <2> QED  BY <2>5 DEF Awake
  <1> QED  BY <1>3, <1>4, <1>5 DEF RetryInv

\* A request has no attempt behind it; another key's leaves the schedule alone.
LEMMA QueueRetry ==
  ASSUME AttemptsInv, RetryInv, NEW k \in Key, Queue(k)
  PROVE  RetryInv'
  <1> DEFINE fresh == [NoRecord EXCEPT !.state = "pending", !.due = 0]
  <1> DEFINE job == [Idle EXCEPT !.pc = "send", !.owner = "user", !.key = k]
  <1>1. fresh.attempts = 0  BY FreshFields
  <1>2. /\ rec'[k] = fresh /\ \A j \in Key \ {k} : rec'[j] = rec[j]
        /\ invokeJob = Idle /\ invokeJob' = job
        /\ UNCHANGED <<invokeAlarm, invokeWanted, conn, approved>>
    BY DEF Queue, AttemptsInv, IInv, Shape
  <1>3. /\ job.pc = "send" /\ job.owner = "user" /\ job.key = k /\ job.n = 0 /\ job.due = {}
        /\ job.wake = Never /\ job.refused = FALSE
    BY DEF Idle
  <1>4. Idle.pc = "idle" /\ Idle.due = {} /\ Idle.wake = Never /\ Idle.refused = FALSE
    BY DEF Idle
  <1> HIDE DEF fresh, job
  <1>5. JobOK'  BY <1>2, <1>3 DEF JobOK
  <1>6. ASSUME NEW j \in Key \ OneShot PROVE Drained(j)'
    BY <1>1, <1>2, <1>3 DEF Drained, InHand, InDue
  <1>7. ASSUME NEW j \in Key \ OneShot, approved', conn' # "halted", Waiting(j)'
        PROVE  Awake(j)'
    <2>1. j # k  BY <1>1, <1>2, <1>7 DEF Waiting
    <2>2. rec'[j] = rec[j]  BY <1>2, <2>1
    <2>3. Waiting(j) /\ Awake(j)  BY <1>2, <1>7, <2>2 DEF Waiting, Active, RetryInv
    <2>4. ~InHand(j)  BY <1>2, <1>4 DEF InHand, InDue
    <2> QED  BY <1>2, <1>3, <1>4, <2>2, <2>3, <2>4 DEF Awake
  <1> QED  BY <1>2, <1>5, <1>6, <1>7 DEF RetryInv

\* Its frame is taken, or refused to it.
LEMMA QueueSendRetry ==
  ASSUME AttemptsInv, RetryInv, QueueSend
  PROVE  RetryInv'
  <1>1. /\ invokeJob.pc = "send" /\ invokeJob.owner = "user" /\ invokeJob.due = {}
        /\ invokeJob.n = 0 /\ invokeJob.wake = Never /\ ~invokeJob.refused
    BY DEF QueueSend, RetryInv, JobOK
  <1>2. UNCHANGED <<rec, invokeAlarm, invokeWanted, conn, approved>>  BY DEF QueueSend
  <1>3. \A k \in Key : ~InHand(k)  BY <1>1 DEF InHand, InDue
  <1>4. CASE invokeJob' = Idle
    BY <1>1, <1>2, <1>3, <1>4, RetryJobEnds
  <1>5. CASE invokeJob' = [invokeJob EXCEPT !.pc = "record"]
    <2>1. /\ invokeJob'.pc = "record" /\ invokeJob'.owner = "user" /\ invokeJob'.due = {}
          /\ invokeJob'.n = 0 /\ invokeJob'.wake = Never /\ ~invokeJob'.refused
          /\ invokeJob'.key = invokeJob.key
      <3>1. invokeJob \in Job  BY DEF AttemptsInv, IInv, Shape
      <3> QED  BY <1>1, <1>5, <3>1 DEF Job
    <2>2. JobOK'  BY <2>1 DEF JobOK
    <2>3. ASSUME NEW k \in Key \ OneShot PROVE Drained(k)'
      BY <1>1, <1>2, <2>1 DEF RetryInv, Drained, InHand, InDue
    <2>4. ASSUME NEW k \in Key \ OneShot, approved', conn' # "halted", Waiting(k)'
          PROVE  Awake(k)'
      <3>1. Awake(k)  BY <1>2, <2>4 DEF RetryInv, Waiting, Active
      <3> QED  BY <1>1, <1>2, <1>3, <2>1, <3>1 DEF Awake
    <2> QED  BY <1>2, <2>2, <2>3, <2>4 DEF RetryInv
  <1> QED  BY <1>4, <1>5 DEF QueueSend

\* Its attempt is recorded, with an alarm for the next.
LEMMA QueueRecordRetry ==
  ASSUME OneRetried, AttemptsInv, RetryInv, QueueRecord
  PROVE  RetryInv'
  <1> PICK k \in Key : k = invokeJob.key  BY DEF AttemptsInv, IInv, JobKeys, QueueRecord
  <1>1. /\ invokeJob.pc = "record" /\ invokeJob.owner = "user" /\ invokeJob.due = {}
        /\ invokeJob.wake = Never /\ ~invokeJob.refused
    BY DEF QueueRecord, RetryInv, JobOK
  <1>2. UNCHANGED <<invokeAlarm, invokeWanted, conn, approved>>  BY DEF QueueRecord
  <1>3. rec \in [Key -> RecordShape]  BY DEF AttemptsInv, IInv, Shape
  <1>4. CASE k \in OneShot
    <2>1. invokeJob' = Idle /\ rec' = RecordInvoke(k, 1, 1)  BY <1>4 DEF QueueRecord
    <2>2. Idle.pc = "idle" /\ Idle.due = {} /\ Idle.owner = "none"  BY IdleJob
    <2>3. Idle.wake = Never /\ Idle.refused = FALSE  BY DEF Idle
    <2>4. JobOK'  BY <2>1, <2>2 DEF JobOK
    <2>5. ASSUME NEW j \in Key \ OneShot PROVE Drained(j)'
      BY <2>1, <2>2, <2>3 DEF Drained, InHand, InDue
    <2>6. ASSUME NEW j \in Key \ OneShot, approved', conn' # "halted", Waiting(j)'
          PROVE  Awake(j)'
      <3>1. rec'[j] = rec[j]  BY <1>3, <1>4, <2>1 DEF RecordInvoke
      <3>2. Waiting(j) /\ Awake(j)  BY <1>2, <2>6, <3>1 DEF Waiting, Active, RetryInv
      <3>3. ~(invokeJob.wake >= rec[j].due)
        <4>1. rec[j].due \in Int /\ rec[j].due >= 0  BY <3>2, RetryNumbers DEF Waiting
        <4> QED  BY <1>1, <4>1 DEF Never
      <3>4. ~InHand(j)  BY <1>1, <1>4 DEF InHand, InDue
      <3>5. invokeAlarm >= rec[j].due \/ ("wake" \in invokeWanted /\ rec[j].due = 0)
        BY <1>1, <3>2, <3>3, <3>4 DEF Awake
      <3> QED  BY <1>2, <3>1, <3>5 DEF Awake
    <2> QED  BY <1>2, <2>4, <2>5, <2>6 DEF RetryInv
  <1>5. CASE k \notin OneShot
    <2> DEFINE job == [Idle EXCEPT !.pc = "end", !.owner = "user", !.wake = 1]
    <2> DEFINE counted == Counted(rec[k], 1, MaxAttempts)
    <2>1. invokeJob' = job /\ rec' = RecordInvoke(k, 1, MaxAttempts)
      BY <1>5 DEF QueueRecord
    <2>2. /\ job.pc = "end" /\ job.owner = "user" /\ job.due = {} /\ job.wake = 1
          /\ job.refused = FALSE
      BY DEF Idle
    <2>3. JobOK'  BY <2>1, <2>2 DEF JobOK
    <2>4. Waiting(k)' => rec'[k].due = 1
      <3>1. 1 \in Int /\ MaxAttempts \in Nat  BY AttemptAssumption
      <3>2. counted.due = Attempted(rec[k].attempts, 1, MaxAttempts)
        BY <1>3, <3>1, CountedFields
      <3>3. rec[k].state = "pending" => rec'[k] = counted
        BY <1>3, <2>1 DEF RecordInvoke
      <3>4. rec[k].state # "pending" => rec'[k] = rec[k]
        BY <2>1 DEF RecordInvoke
      <3> HIDE DEF counted
      <3> QED  BY <3>2, <3>3, <3>4 DEF Waiting, Active, Attempted
    <2> HIDE DEF job, counted
    <2>5. ASSUME NEW j \in Key \ OneShot PROVE j = k  BY <1>5 DEF OneRetried
    <2>6. Drained(k)'
      BY <2>1, <2>2, <2>4 DEF Drained, InHand, InDue
    <2>7. Waiting(k)' => Awake(k)'  BY <2>1, <2>2, <2>4 DEF Awake
    <2> QED  BY <1>2, <2>3, <2>5, <2>6, <2>7 DEF RetryInv
  <1> QED  BY <1>4, <1>5

\* A drain starts with every retried operation whose attempt is due.
LEMMA InvokeDrainStartRetry ==
  ASSUME AttemptsInv, RetryInv, NEW c \in Caller, InvokeDrainStart(c)
  PROVE  RetryInv'
  <1> DEFINE job == Draining(c, DueInvokes)
  <1>1. /\ job.pc = "next" /\ job.owner = c /\ job.due = DueInvokes
        /\ job.wake = Never /\ job.refused = FALSE
    BY DEF Draining, Idle
  <1>2. /\ invokeJob = Idle /\ invokeJob' = job
        /\ UNCHANGED <<rec, invokeAlarm, conn, approved>>
    BY DEF InvokeDrainStart
  <1>3. Idle.pc = "idle" /\ Idle.due = {} /\ Idle.wake = Never /\ Idle.refused = FALSE
    BY DEF Idle
  <1>4. c # "user"  BY DEF Caller
  <1> HIDE DEF job
  <1>5. JobOK'  BY <1>1, <1>2, <1>4 DEF JobOK
  <1>6. ASSUME NEW k \in Key \ OneShot PROVE Drained(k)'
    <2>1. \A e \in DueInvokes : e[1] = k => rec[k].attempts = e[2]  BY DEF DueInvokes
    <2> QED  BY <1>1, <1>2, <2>1 DEF Drained
  <1>7. ASSUME NEW k \in Key \ OneShot, approved', conn' # "halted", Waiting(k)'
        PROVE  Awake(k)'
    <2>1. Waiting(k) /\ Awake(k)  BY <1>2, <1>7 DEF Waiting, Active, RetryInv
    <2>2. ~InHand(k) /\ ~invokeJob.refused  BY <1>2, <1>3 DEF InHand, InDue
    <2>3. ~(invokeJob.wake >= rec[k].due)
      <3>1. rec[k].due \in Int /\ rec[k].due >= 0  BY <2>1, RetryNumbers DEF Waiting
      <3> QED  BY <1>2, <1>3, <3>1 DEF Never
    <2>4. CASE invokeAlarm >= rec[k].due  BY <1>2, <2>4 DEF Awake
    <2>5. CASE rec[k].due = 0
      <3>1. <<k, rec[k].attempts>> \in DueInvokes
        BY <2>1, <2>5 DEF DueInvokes, Waiting, Active
      <3> QED  BY <1>1, <1>2, <3>1 DEF Awake, InHand, InDue
    <2> QED  BY <2>1, <2>2, <2>3, <2>4, <2>5 DEF Awake
  <1> QED  BY <1>2, <1>5, <1>6, <1>7 DEF RetryInv

\* What a drain sends is in hand; a refusal asks for the alarm; a revoked phone
\* ends the retries.
LEMMA InvokeDrainSendRetry ==
  ASSUME OneRetried, AttemptsInv, RetryInv, NEW e \in invokeJob.due, InvokeDrainSend(e)
  PROVE  RetryInv'
  <1>1. /\ invokeJob \in Job /\ e \in Entry /\ e[1] \in Key \ OneShot
        /\ invokeJob.pc = "next" /\ invokeJob.owner # "user"
    BY DEF AttemptsInv, IInv, Shape, Job, Entry, JobKeys, RetryInv, JobOK, InvokeDrainSend
  <1>2. UNCHANGED <<rec, invokeAlarm, invokeWanted, conn, approved>>
    BY DEF InvokeDrainSend
  <1> PICK k \in Key \ OneShot : k = e[1]  BY <1>1
  <1>3. \A j \in Key \ OneShot : j = k  BY DEF OneRetried
  <1>4. Drained(k) /\ InHand(k)  BY DEF RetryInv, InHand, InDue
  <1>5. /\ invokeJob.wake = Never /\ ~invokeJob.refused
        /\ rec[k].state = "pending" => rec[k].attempts = e[2]
    BY <1>4 DEF Drained
  <1>6. rec[k].state = "pending" => rec[k].due = 0
    BY DEF AttemptsInv, InvokeHandOK
  <1>7. CASE invokeJob' = Taking(invokeJob, e)
    <2>1. /\ invokeJob'.pc = "record" /\ invokeJob'.key = k /\ invokeJob'.n = e[2]
          /\ invokeJob'.due \subseteq invokeJob.due /\ invokeJob'.wake = Never
          /\ ~invokeJob'.refused /\ invokeJob'.owner = invokeJob.owner
      BY <1>1, <1>5, <1>7 DEF Taking, Job
    <2>2. JobOK'  BY <1>1, <2>1 DEF JobOK
    <2>3. Drained(k)'  BY <1>2, <1>4, <1>5, <2>1 DEF Drained
    <2>4. Awake(k)'  BY <2>1 DEF Awake, InHand
    <2> QED  BY <1>2, <1>3, <2>2, <2>3, <2>4 DEF RetryInv
  <1>8. CASE invokeJob' = [invokeJob EXCEPT !.due = {}, !.refused = TRUE]
    <2>1. /\ invokeJob'.pc = "next" /\ invokeJob'.due = {} /\ invokeJob'.wake = Never
          /\ invokeJob'.refused /\ invokeJob'.owner = invokeJob.owner
      BY <1>1, <1>5, <1>8 DEF Job
    <2>2. JobOK'  BY <1>1, <2>1 DEF JobOK
    <2>3. Drained(k)'  BY <1>2, <1>6, <2>1 DEF Drained, InHand, InDue
    <2>4. Awake(k)'  BY <2>1 DEF Awake
    <2> QED  BY <1>2, <1>3, <2>2, <2>3, <2>4 DEF RetryInv
  <1>9. CASE ~approved /\ invokeJob' = [invokeJob EXCEPT !.due = @ \ {e}]
    <2>1. /\ invokeJob'.pc = "next" /\ invokeJob'.due \subseteq invokeJob.due
          /\ invokeJob'.wake = Never /\ ~invokeJob'.refused
          /\ invokeJob'.owner = invokeJob.owner
      BY <1>1, <1>5, <1>9 DEF Job
    <2>2. JobOK'  BY <1>1, <2>1 DEF JobOK
    <2>3. Drained(k)'  BY <1>2, <1>4, <2>1 DEF Drained
    <2> QED  BY <1>2, <1>3, <1>9, <2>2, <2>3 DEF RetryInv
  <1> QED  BY <1>7, <1>8, <1>9 DEF InvokeDrainSend

\* A recorded attempt is the alarm's, or the last.
LEMMA InvokeDrainRecordRetry ==
  ASSUME OneRetried, AttemptsInv, RetryInv, InvokeDrainRecord
  PROVE  RetryInv'
  <1> PICK k \in Key \ OneShot : k = invokeJob.key
    BY DEF AttemptsInv, IInv, JobKeys, RetryInv, JobOK, InvokeDrainRecord
  <1> DEFINE delay == RetryDelay(invokeJob.n, InvokeCap)
  <1> DEFINE r == rec[k]
  <1> DEFINE counted == Counted(r, delay, MaxAttempts)
  <1>1. /\ invokeJob \in Job /\ invokeJob.n \in Nat /\ r \in RecordShape
        /\ invokeJob.pc = "record" /\ invokeJob.owner # "user"
        /\ rec \in [Key -> RecordShape]
    BY DEF AttemptsInv, IInv, Shape, Job, InvokeDrainRecord
  <1>2. delay \in Int /\ MaxAttempts \in Nat /\ delay # Never /\ delay \in Nat
    BY <1>1, RetryDelayRange, AttemptAssumption DEF InvokeCap, Never
  <1>3. /\ rec' = RecordInvoke(k, delay, MaxAttempts) /\ invokeJob' = Recorded(invokeJob, delay)
        /\ UNCHANGED <<invokeAlarm, invokeWanted, conn, approved>>
    BY DEF InvokeDrainRecord
  <1>4. \A j \in Key \ OneShot : j = k  BY DEF OneRetried
  <1>5. Drained(k) /\ InHand(k)  BY <1>1 DEF RetryInv, InHand
  <1>6. /\ invokeJob.wake = Never /\ ~invokeJob.refused
        /\ r.state = "pending" => r.attempts = invokeJob.n
    BY <1>1, <1>5 DEF Drained
  <1>7. invokeJob.due = {}
    <2>1. \A e \in invokeJob.due : e[1] \in Key \ OneShot /\ e[1] # k
      BY <1>1 DEF AttemptsInv, InvokeHandOK, Separate, InDue, IInv, JobKeys, Job, Entry
    <2> QED  BY <1>4, <2>1
  <1> HIDE DEF delay
  <1>8. /\ invokeJob'.pc = "next" /\ invokeJob'.due = {} /\ ~invokeJob'.refused
        /\ invokeJob'.owner = invokeJob.owner
        /\ invokeJob'.wake = IF invokeJob.n + 1 < MaxAttempts THEN delay ELSE Never
    BY <1>1, <1>2, <1>3, <1>6, <1>7 DEF Recorded, Sooner, Job
  <1>9. /\ counted.due = Attempted(r.attempts, delay, MaxAttempts)
    BY <1>1, <1>2, CountedFields
  <1>10. Waiting(k)' => rec'[k].due = delay /\ invokeJob'.wake = delay
    <2>1. r.state = "pending" => rec'[k] = counted
      BY <1>1, <1>3 DEF RecordInvoke
    <2>2. r.state # "pending" => rec'[k] = r
      BY <1>3 DEF RecordInvoke
    <2> HIDE DEF counted, r
    <2>3. CASE r.state = "pending"
      <3>1. rec'[k].due # Never => ~(invokeJob.n + 1 >= MaxAttempts) /\ rec'[k].due = delay
        BY <1>6, <1>9, <2>1, <2>3 DEF Attempted
      <3>2. ~(invokeJob.n + 1 >= MaxAttempts) => invokeJob'.wake = delay
        BY <1>1, <1>2, <1>8
      <3> QED  BY <3>1, <3>2 DEF Waiting, Active
    <2>4. CASE r.state # "pending"
      BY <2>2, <2>4 DEF Waiting, Active
    <2> QED  BY <2>3, <2>4
  <1>11. JobOK'  BY <1>1, <1>8 DEF JobOK
  <1>12. Drained(k)'  BY <1>2, <1>8, <1>10 DEF Drained, InHand, InDue
  <1>13. Waiting(k)' => Awake(k)'  BY <1>2, <1>10 DEF Awake
  <1> QED  BY <1>3, <1>4, <1>11, <1>12, <1>13 DEF RetryInv

\* The end of a drain sets the alarm no sooner than what it sent is due, or
\* leaves the one there was.
LEMMA InvokeEndRetry ==
  ASSUME AttemptsInv, RetryInv, InvokeEnd
  PROVE  RetryInv'
  <1>1. /\ invokeJob' = Idle /\ UNCHANGED <<rec, invokeWanted, conn, approved>>
        /\ invokeJob.pc # "record" /\ invokeJob.due = {}
    BY DEF InvokeEnd, RetryInv, JobOK
  <1>2. \A k \in Key : ~InHand(k)  BY <1>1 DEF InHand, InDue
  <1>3. CASE invokeJob.wake = Never /\ ~invokeJob.refused
    <2>1. invokeAlarm' = invokeAlarm  BY <1>3 DEF InvokeEnd
    <2> QED  BY <1>1, <1>2, <1>3, <2>1, RetryJobEnds
  <1>4. CASE invokeJob.wake # Never \/ invokeJob.refused
    <2>1. Idle.pc = "idle" /\ Idle.due = {} /\ Idle.owner = "none"  BY IdleJob
    <2>2. Idle.wake = Never /\ Idle.refused = FALSE  BY DEF Idle
    <2>3. JobOK'  BY <1>1, <2>1 DEF JobOK
    <2>4. ASSUME NEW k \in Key \ OneShot PROVE Drained(k)'
      BY <1>1, <2>1, <2>2 DEF Drained, InHand, InDue
    <2>5. \A n \in Int : Alarm(n) \in Int /\ Alarm(n) >= n
      BY AttemptAssumption DEF Alarm
    <2>6. CASE invokeJob.wake # Never
      <3>1. invokeAlarm' = Alarm(invokeJob.wake)  BY <2>6 DEF InvokeEnd
      <3>2. invokeJob.wake \in Int
        BY DEF AttemptsInv, IInv, Shape, Job
      <3>3. invokeAlarm' \in Int /\ invokeAlarm' >= invokeJob.wake
        BY <2>5, <3>1, <3>2
      <3>4. ASSUME NEW k \in Key \ OneShot, Waiting(k)' PROVE Awake(k)'
        <4>1. Waiting(k)  BY <1>1, <3>4 DEF Waiting, Active
        <4>2. rec[k].due <= invokeJob.wake /\ rec[k].due \in Int
          BY <2>6, <4>1, RetryNumbers DEF RetryInv, Drained
        <4>3. invokeAlarm' >= rec'[k].due  BY <1>1, <3>2, <3>3, <4>2
        <4> QED  BY <4>3 DEF Awake
      <3> QED  BY <2>3, <2>4, <3>3, <3>4 DEF RetryInv
    <2>7. CASE invokeJob.wake = Never /\ invokeJob.refused
      <3>1. invokeAlarm' = Alarm(1)  BY <2>7 DEF InvokeEnd
      <3>2. invokeAlarm' \in Int /\ invokeAlarm' >= 1  BY <2>5, <3>1
      <3>3. ASSUME NEW k \in Key \ OneShot, Waiting(k)' PROVE Awake(k)'
        <4>1. rec[k].state = "pending"  BY <1>1, <3>3 DEF Waiting, Active
        <4>2. rec'[k].due = 0  BY <1>1, <2>7, <4>1 DEF RetryInv, Drained
        <4>3. invokeAlarm' >= rec'[k].due  BY <3>2, <4>2
        <4> QED  BY <4>3 DEF Awake
      <3> QED  BY <2>3, <2>4, <3>2, <3>3 DEF RetryInv
    <2> QED  BY <1>4, <2>6, <2>7
  <1> QED  BY <1>3, <1>4

\* A failure stops the transport, or cuts off a request with no attempt recorded.
LEMMA InvokeThrowsRetry ==
  ASSUME AttemptsInv, RetryInv, InvokeThrows
  PROVE  RetryInv'
  <1>1. /\ invokeJob' = Idle /\ UNCHANGED <<rec, invokeAlarm, invokeWanted, approved>>
        /\ invokeJob.pc \in {"next", "send", "record", "resent"}
        /\ conn' = IF invokeJob.owner = "user" THEN conn ELSE "halted"
    BY DEF InvokeThrows
  <1>2. ASSUME NEW k \in Key \ OneShot, conn' # "halted", Waiting(k)
        PROVE  invokeJob.wake = Never /\ ~invokeJob.refused /\ ~InHand(k)
    <2>1. /\ invokeJob.owner = "user" /\ invokeJob.due = {} /\ ~invokeJob.refused
          /\ invokeJob.wake = Never /\ (invokeJob.pc = "record" => invokeJob.n = 0)
      BY <1>1, <1>2 DEF RetryInv, JobOK
    <2>2. invokeJob.pc = "record" => invokeJob.key # k
      BY <1>2, <2>1, RetryNumbers DEF RetryInv, Drained, Waiting, Active
    <2> QED  BY <2>1, <2>2 DEF InHand, InDue
  <1> QED  BY <1>1, <1>2, RetryJobEnds

\* A result leaves nothing to retry.
LEMMA ReceiveRetry ==
  ASSUME AttemptsInv, RetryInv, NEW k \in Key, Receive(k)
  PROVE  RetryInv'
  <1>1. /\ rec' = Reconcile(k) /\ UNCHANGED <<invokeJob, invokeAlarm, invokeWanted, conn, approved>>
    BY DEF Receive
  <1>2. rec'[k].state = "completed" /\ \A j \in Key \ {k} : rec'[j] = rec[j]
    BY <1>1, ReconcileKeeps DEF Reconcile, AttemptsInv, IInv, Shape
  <1>3. JobOK'  BY <1>1 DEF RetryInv, JobOK
  <1>4. ASSUME NEW j \in Key \ OneShot
        PROVE  /\ Drained(j)'
               /\ approved' /\ conn' # "halted" /\ Waiting(j)' => Awake(j)'
    <2>1. CASE j = k
      <3>1. rec'[j].state # "pending" /\ ~Waiting(j)'
        BY <1>2, <2>1 DEF Waiting, Active
      <3>2. Drained(j)  BY DEF RetryInv
      <3> QED  BY <1>1, <3>1, <3>2 DEF Drained, InHand, InDue
    <2>2. CASE j # k
      <3>1. rec'[j] = rec[j]  BY <1>2, <2>2
      <3>2. Drained(j) /\ (approved /\ conn # "halted" /\ Waiting(j) => Awake(j))
        BY DEF RetryInv
      <3> QED  BY <1>1, <3>1, <3>2 DEF Drained, Waiting, Active, Awake, InHand, InDue
    <2> QED  BY <2>1, <2>2
  <1> QED  BY <1>1, <1>3, <1>4 DEF RetryInv

\* Time runs for the alarm and for what waits for it alike.
LEMMA TickRetry ==
  ASSUME AttemptsInv, RetryInv, Tick
  PROVE  RetryInv'
  <1>1. /\ invokeAlarm' = Down(invokeAlarm) /\ UNCHANGED <<invokeJob, invokeWanted, conn, approved>>
    BY DEF Tick
  <1>2. ASSUME NEW j \in Key
        PROVE  /\ rec'[j].state = rec[j].state /\ rec'[j].attempts = rec[j].attempts
               /\ rec'[j].due = Down(rec[j].due)
    <2>1. rec'[j] = Aged(rec[j]) /\ rec[j] \in RecordShape
      BY DEF Tick, AttemptsInv, IInv, Shape
    <2> QED  BY <2>1, AgedFields, AgedKeeps
  <1>3. invokeAlarm \in Int /\ Down(invokeAlarm) \in Int  BY DEF RetryInv, Down
  <1>4. JobOK'  BY <1>1 DEF RetryInv, JobOK
  <1>5. ASSUME NEW k \in Key \ OneShot
        PROVE  /\ Drained(k)'
               /\ approved' /\ conn' # "halted" /\ Waiting(k)' => Awake(k)'
    <2> DEFINE d == rec[k].due
    <2>1. /\ d \in Int /\ d >= -1 /\ invokeJob.wake \in Int
      BY RetryNumbers
    <2>2. /\ Down(d) \in Int /\ Down(d) <= d /\ (Down(d) = -1 <=> d = -1)
          /\ (d = 0 => Down(d) = 0)
      BY <2>1 DEF Down
    <2>3. rec'[k].due = Down(d)  BY <1>2
    <2>4. Waiting(k)' <=> Waiting(k)
      BY <1>2, <2>2, <2>3 DEF Waiting, Active, Never
    <2>5. InHand(k)' <=> InHand(k)  BY <1>1 DEF InHand, InDue
    <2>6. rec'[k].state = rec[k].state /\ rec'[k].attempts = rec[k].attempts  BY <1>2
    <2>7. Drained(k)  BY DEF RetryInv
    <2>8. Drained(k)'
      <3>1. invokeJob'.wake # Never /\ Waiting(k)' => rec'[k].due <= invokeJob'.wake
        BY <1>1, <2>1, <2>2, <2>3, <2>4, <2>7 DEF Drained
      <3>2. invokeJob'.refused /\ rec'[k].state = "pending" => rec'[k].due = 0
        BY <1>1, <2>2, <2>3, <2>6, <2>7 DEF Drained
      <3>3. InHand(k)' => invokeJob'.wake = Never /\ ~invokeJob'.refused
        BY <1>1, <2>5, <2>7 DEF Drained
      <3>4. \A e \in invokeJob'.due :
              e[1] = k /\ rec'[k].state = "pending" => rec'[k].attempts = e[2]
        BY <1>1, <2>6, <2>7 DEF Drained
      <3>5. invokeJob'.pc \in {"send", "record"} /\ invokeJob'.key = k /\ rec'[k].state = "pending"
              => rec'[k].attempts = invokeJob'.n
        BY <1>1, <2>6, <2>7 DEF Drained
      <3> QED  BY <3>1, <3>2, <3>3, <3>4, <3>5 DEF Drained
    <2>9. ASSUME approved', conn' # "halted", Waiting(k)' PROVE Awake(k)'
      <3>1. Awake(k)  BY <1>1, <2>4, <2>9 DEF RetryInv
      <3>2. d >= 0  BY <2>4, <2>9, RetryNumbers DEF Waiting
      <3>3. invokeAlarm >= d => Down(invokeAlarm) >= Down(d)
        BY <1>3, <2>1, <3>2 DEF Down
      <3>4. invokeJob.wake >= d => invokeJob.wake >= Down(d)  BY <2>1, <2>2
      <3>5. CASE invokeAlarm >= d
        BY <1>1, <2>3, <3>3, <3>5 DEF Awake
      <3>6. CASE "wake" \in invokeWanted /\ d = 0
        BY <1>1, <2>2, <2>3, <3>6 DEF Awake
      <3>7. CASE invokeJob.wake >= d
        BY <1>1, <2>3, <3>4, <3>7 DEF Awake
      <3>8. CASE InHand(k) \/ invokeJob.refused
        BY <1>1, <2>5, <3>8 DEF Awake
      <3> QED  BY <3>1, <3>5, <3>6, <3>7, <3>8 DEF Awake
    <2> QED  BY <2>8, <2>9
  <1> QED  BY <1>1, <1>3, <1>4, <1>5 DEF RetryInv

\* The acknowledgements, deliveries, the connection, the phone: none of them
\* touches the schedule of an invocation or takes a caller away.
LEMMA OtherRetry ==
  ASSUME AttemptsInv, RetryInv,
         AckStep \/ OtherStep \/ AckThrows \/ \E k \in Key : PhoneInvoke(k) \/ PhoneAck(k)
  PROVE  RetryInv'
  <1>1. ASSUME UNCHANGED <<rec, invokeJob, invokeWanted, invokeAlarm>>,
               approved' => approved, conn' # "halted" => conn # "halted"
        PROVE  RetryInv'
    BY <1>1, RetryKept
  <1>2. ASSUME NEW c \in Caller, AckDrainStart(c) PROVE RetryInv'
    BY <1>1, <1>2 DEF AckDrainStart
  <1>3. ASSUME NEW e \in ackJob.due, AckDrainSend(e) PROVE RetryInv'
    BY <1>1, <1>3 DEF AckDrainSend
  <1>4. CASE AckEnd  BY <1>1, <1>4 DEF AckEnd
  <1>5. CASE AckThrows  BY <1>1, <1>5 DEF AckThrows
  <1>6. CASE AckDrainRecord
    <2> PICK k \in Key : k = ackJob.key
      BY <1>6 DEF AttemptsInv, IInv, JobKeys, AckDrainRecord
    <2> DEFINE delay == RetryDelay(ackJob.n, AckCap)
    <2> DEFINE counted == CountedAck(rec[k], delay)
    <2>1. rec[k] \in RecordShape /\ delay \in Int
      <3>1. ackJob.n \in Nat /\ rec[k] \in RecordShape  BY DEF AttemptsInv, IInv, Shape, Job
      <3> QED  BY <3>1, RetryDelayRange DEF AckCap
    <2>2. /\ rec'[k] = counted /\ \A j \in Key \ {k} : rec'[j] = rec[j]
          /\ UNCHANGED <<invokeJob, invokeWanted, invokeAlarm, conn, approved>>
      BY <1>6 DEF AckDrainRecord, RecordAck, AttemptsInv, IInv, Shape
    <2> HIDE DEF delay
    <2>3. counted.state = rec[k].state /\ counted.due = rec[k].due
          /\ counted.attempts = rec[k].attempts
      BY <2>1, CountedAckFields, CountedAckKeeps
    <2> HIDE DEF counted
    <2>4. \A j \in Key : /\ rec'[j].state = rec[j].state /\ rec'[j].due = rec[j].due
                         /\ rec'[j].attempts = rec[j].attempts
      BY <2>2, <2>3
    <2> QED  BY <2>2, <2>4, RetryKept
  <1>7. CASE OtherStep
    <2>1. ASSUME InvokeAlarmFires PROVE RetryInv'
      BY <2>1, RetryKept DEF InvokeAlarmFires
    <2>2. ASSUME Authenticated PROVE RetryInv'
      BY <2>2, RetryKept DEF Authenticated
    <2>3. ASSUME NEW k \in Key, PhoneRepeat(k) PROVE RetryInv'
      BY <1>1, <2>3 DEF PhoneRepeat
    <2>4. CASE ReceiveNotice  BY <1>1, <2>4 DEF ReceiveNotice
    <2>5. CASE CommitInbox  BY <1>1, <2>5 DEF CommitInbox
    <2>6. CASE AckAlarmFires  BY <1>1, <2>6 DEF AckAlarmFires
    <2>7. CASE Drop  BY <1>1, <2>7 DEF Drop
    <2>8. CASE Revoke  BY <1>1, <2>8 DEF Revoke
    <2> QED  BY <1>7, <2>1, <2>2, <2>3, <2>4, <2>5, <2>6, <2>7, <2>8 DEF OtherStep
  <1>8. ASSUME NEW k \in Key, PhoneInvoke(k) \/ PhoneAck(k) PROVE RetryInv'
    BY <1>1, <1>8 DEF PhoneInvoke, PhoneAck
  <1> QED  BY <1>2, <1>3, <1>4, <1>5, <1>6, <1>7, <1>8 DEF AckStep

\* Nothing is retried before anything is asked for.
LEMMA InitRetry == Init => RetryInv
  <1> SUFFICES ASSUME Init PROVE RetryInv  OBVIOUS
  <1>1. /\ Idle.pc = "idle" /\ Idle.due = {} /\ Idle.owner = "none"
        /\ Idle.wake = Never /\ Idle.refused = FALSE
    BY DEF Idle
  <1>2. JobOK  BY <1>1 DEF Init, JobOK
  <1>3. ASSUME NEW k \in Key \ OneShot PROVE Drained(k) /\ ~Waiting(k)
    BY <1>1 DEF Init, Drained, InHand, InDue, Waiting, Active, NoRecord
  <1> QED  BY <1>2, <1>3 DEF Init, RetryInv, Never

\* RetryInv is inductive where one operation is retried and nothing but losses,
\* repeats, failures and a revocation disturbs it.
LEMMA NextRetry ==
  ASSUME OneRetried
  PROVE  AttemptsInv /\ RetryInv /\ [Next]_vars => RetryInv'
  <1> SUFFICES ASSUME AttemptsInv, RetryInv, [Next]_vars PROVE RetryInv'  OBVIOUS
  <1>1. ASSUME NEW k \in Key, Queue(k) PROVE RetryInv'  BY <1>1, QueueRetry
  <1>2. ASSUME NEW k \in Key, Resend(k) PROVE FALSE
    BY <1>2 DEF Resend, Occurs, OneRetried
  <1>3. ASSUME NEW k \in Key, Receive(k) PROVE RetryInv'  BY <1>3, ReceiveRetry
  <1>4. CASE InvokeStep
    <2>1. ASSUME NEW c \in Caller, InvokeDrainStart(c) PROVE RetryInv'
      BY <2>1, InvokeDrainStartRetry
    <2>2. ASSUME NEW e \in invokeJob.due, InvokeDrainSend(e) PROVE RetryInv'
      BY <2>2, InvokeDrainSendRetry
    <2>3. ~ResendRecord  BY DEF ResendRecord, RetryInv, JobOK
    <2> QED  BY <1>4, <2>1, <2>2, <2>3, InvokeDrainRecordRetry, InvokeEndRetry,
                QueueSendRetry, QueueRecordRetry DEF InvokeStep
  <1>5. CASE AckStep \/ OtherStep \/ AckThrows \/ \E k \in Key : PhoneInvoke(k) \/ PhoneAck(k)
    BY <1>5, OtherRetry
  <1>6. CASE Tick  BY <1>6, TickRetry
  <1>7. CASE InvokeThrows  BY <1>7, InvokeThrowsRetry
  <1>8. ~Crash  BY DEF Crash, Occurs, OneRetried
  <1>9. CASE UNCHANGED vars  BY <1>9, RetryKept DEF vars
  <1> QED
    BY <1>1, <1>2, <1>3, <1>4, <1>5, <1>6, <1>7, <1>8, <1>9 DEF Next, OtherStep

\* A single retried operation is never left without its alarm while the worker
\* runs: whatever is lost, repeated, refused or fails, when the outbox is at rest
\* on an open connection, an invocation that was sent and has attempts left has
\* its alarm set (drain's scheduling in ActionInvokeOutbox).
THEOREM RetriesScheduled ==
  ASSUME OneRetried
  PROVE  Spec => []InvokeRetryScheduled
  <1>1. AttemptsInv /\ RetryInv => InvokeRetryScheduled
    <2> SUFFICES ASSUME AttemptsInv, RetryInv, invokeJob = Idle, invokeWanted = {},
                        conn = "online", approved, NEW k \in Key \ OneShot,
                        rec[k].state = "pending", rec[k].attempts > 0, rec[k].due # Never
                 PROVE  invokeAlarm # Never
      BY DEF InvokeRetryScheduled
    <2>1. Waiting(k)  BY DEF Waiting, Active
    <2>2. Awake(k)  BY <2>1 DEF RetryInv
    <2>3. rec[k].due \in Int /\ rec[k].due >= 0  BY <2>1, RetryNumbers DEF Waiting
    <2>4. /\ Idle.pc = "idle" /\ Idle.due = {} /\ Idle.wake = Never /\ Idle.refused = FALSE
      BY DEF Idle
    <2>5. ~InHand(k)  BY <2>4 DEF InHand, InDue
    <2>6. ~(invokeJob.wake >= rec[k].due)  BY <2>3, <2>4 DEF Never
    <2>7. invokeAlarm >= rec[k].due  BY <2>2, <2>4, <2>5, <2>6 DEF Awake
    <2> QED  BY <2>3, <2>7 DEF Never
  <1> QED  BY <1>1, InitRetry, NextRetry, AttemptsInductive, PTL DEF Spec
=============================================================================
