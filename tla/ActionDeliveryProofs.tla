------------------------ MODULE ActionDeliveryProofs ------------------------
(***************************************************************************)
(* For every set of keys, every bound and every interleaving: a reply is   *)
(* sent at most once, and the delivery of actions implements               *)
(* ActionContract.                                                         *)
(***************************************************************************)
EXTENDS ActionDelivery, TLAPS

RecordShape ==
  [state : {"none", "pending", "completed"}, attempts : Nat, due : Int,
   ackAttempts : Nat, ackDue : Int]

Entry == Key \X Nat

Job == [pc : {"idle", "send", "record", "resent", "next", "end"},
        owner : {"none", "user"} \cup Caller, key : Key \cup {None}, n : Nat,
        due : SUBSET Entry, wake : Int, refused : BOOLEAN]

Frame == {Invoke(k) : k \in Key} \cup {Ack(k) : k \in Key}

Shape ==
  /\ rec \in [Key -> RecordShape] /\ invokeJob \in Job /\ ackJob \in Job
  /\ sent \in [Key -> Nat] /\ toPhone \subseteq Frame
  /\ inbox \in Key \cup {None, "notice"}
  /\ results \subseteq Key /\ executed \subseteq Key /\ outbox \subseteq Key

Registered(k) == rec[k].state # "none"
Completed(k) == rec[k].state = "completed"

\* What a job holds: a key it may send or record.
JobKeys ==
  /\ invokeJob.pc \in {"send", "record", "resent"} =>
       invokeJob.key \in Key /\ Registered(invokeJob.key)
  /\ \A e \in invokeJob.due : Registered(e[1]) /\ e[1] \notin OneShot
  /\ ackJob.pc \in {"idle", "next", "record"}
  /\ ackJob.pc = "record" => ackJob.key \in Key /\ Completed(ackJob.key)
  /\ \A e \in ackJob.due : Completed(e[1])

\* A reply has been sent at most once, and not before its only send.
OnceOK ==
  \A k \in OneShot :
    /\ sent[k] <= 1
    /\ ~Registered(k) => sent[k] = 0
    /\ (invokeJob.pc = "send" /\ invokeJob.key = k) => sent[k] = 0

\* Knowledge flows one way: request, execution, result, acknowledgement.
Flow ==
  /\ \A k \in Key : Invoke(k) \in toPhone => Registered(k)
  /\ \A k \in Key : Ack(k) \in toPhone => Completed(k)
  /\ \A k \in executed : Registered(k)
  /\ results \subseteq executed /\ outbox \subseteq executed
  /\ inbox \in Key => inbox \in executed
  /\ \A k \in Key : Completed(k) => k \in executed
  /\ executed \ outbox \subseteq {k \in Key : Completed(k)}

IInv == Shape /\ JobKeys /\ OnceOK /\ Flow

-----------------------------------------------------------------------------
(* The operators the actions are built from.                                *)

\* retryDelayMs is a whole number of seconds.
LEMMA RetryDelayType == ASSUME NEW n \in Nat, NEW cap \in Nat PROVE RetryDelay(n, cap) \in Int
  BY DEF RetryDelay, Power

\* One record replaced by another.
LEMMA PutRecord ==
  ASSUME rec \in [Key -> RecordShape], NEW k \in Key, NEW r \in RecordShape
  PROVE  /\ [rec EXCEPT ![k] = r] \in [Key -> RecordShape]
         /\ [rec EXCEPT ![k] = r][k] = r
         /\ \A j \in Key \ {k} : [rec EXCEPT ![k] = r][j] = rec[j]
  OBVIOUS

\* The due time an attempt leaves is one of those given.
LEMMA AttemptedType ==
  ASSUME NEW n \in Nat, NEW delay \in Int, NEW maximum \in Nat
  PROVE  Attempted(n, delay, maximum) \in Int
  BY DEF Attempted, Never

\* The ways a record is updated: its state changes by a result only.
LEMMA CountedRecord ==
  ASSUME NEW r \in RecordShape, NEW n \in Nat, NEW d \in Int
  PROVE  /\ [r EXCEPT !.attempts = n, !.due = d] \in RecordShape
         /\ [r EXCEPT !.attempts = n, !.due = d].state = r.state
         /\ [r EXCEPT !.ackAttempts = n, !.ackDue = d] \in RecordShape
         /\ [r EXCEPT !.ackAttempts = n, !.ackDue = d].state = r.state
  BY DEF RecordShape

\* A record with another count of attempts.
LEMMA NumberedRecord ==
  ASSUME NEW r \in RecordShape, NEW n \in Nat
  PROVE  [r EXCEPT !.attempts = n] \in RecordShape /\ [r EXCEPT !.attempts = n].state = r.state
  BY DEF RecordShape

\* A record with other due times.
LEMMA AgedRecord ==
  ASSUME NEW r \in RecordShape, NEW d \in Int, NEW f \in Int
  PROVE  /\ [r EXCEPT !.due = d, !.ackDue = f] \in RecordShape
         /\ [r EXCEPT !.due = d, !.ackDue = f].state = r.state
  BY DEF RecordShape

\* A record completed with other due times.
LEMMA CompletedRecord ==
  ASSUME NEW r \in RecordShape, NEW d \in Int, NEW f \in Int, NEW n \in Nat
  PROVE  /\ [r EXCEPT !.state = "completed", !.due = d, !.ackAttempts = n, !.ackDue = f]
              \in RecordShape
         /\ [r EXCEPT !.state = "completed", !.due = d, !.ackAttempts = n, !.ackDue = f].state
              = "completed"
  BY DEF RecordShape

\* Counting an attempt of an invocation leaves its state.
LEMMA CountedKeeps ==
  ASSUME NEW r \in RecordShape, NEW delay \in Int, NEW maximum \in Nat
  PROVE  Counted(r, delay, maximum) \in RecordShape /\ Counted(r, delay, maximum).state = r.state
  <1>1. r.attempts \in Nat /\ r.attempts + 1 \in Nat  BY DEF RecordShape
  <1>2. Attempted(r.attempts, delay, maximum) \in Int  BY <1>1, AttemptedType
  <1> QED  BY <1>1, <1>2, CountedRecord DEF Counted

\* Counting an attempt of an acknowledgement leaves the state.
LEMMA CountedAckKeeps ==
  ASSUME NEW r \in RecordShape, NEW delay \in Int
  PROVE  CountedAck(r, delay) \in RecordShape /\ CountedAck(r, delay).state = r.state
  <1>1. r.ackAttempts \in Nat /\ r.ackAttempts + 1 \in Nat  BY DEF RecordShape
  <1>2. Attempted(r.ackAttempts, delay, MaxAttempts) \in Int
    BY <1>1, AttemptedType, AttemptAssumption
  <1> QED  BY <1>1, <1>2, CountedRecord DEF CountedAck

\* Counting an explicit resend leaves the state.
LEMMA CountedResendKeeps ==
  ASSUME NEW r \in RecordShape
  PROVE  CountedResend(r) \in RecordShape /\ CountedResend(r).state = r.state
  <1>1. r.attempts + 1 \in Nat  BY DEF RecordShape
  <1> QED  BY <1>1, NumberedRecord DEF CountedResend

\* Time leaves the state of a record.
LEMMA AgedKeeps ==
  ASSUME NEW r \in RecordShape
  PROVE  Aged(r) \in RecordShape /\ Aged(r).state = r.state
  <1>1. r.due \in Int /\ r.ackDue \in Int  BY DEF RecordShape
  <1>2. Down(r.due) \in Int /\ Down(r.ackDue) \in Int  BY <1>1 DEF Down
  <1> QED  BY <1>2, AgedRecord DEF Aged

\* A result makes a record a completed one.
LEMMA CompletingKeeps ==
  ASSUME NEW r \in RecordShape
  PROVE  Completing(r) \in RecordShape /\ Completing(r).state = "completed"
  <1>1. Never \in Int /\ 0 \in Int /\ 0 \in Nat  BY DEF Never
  <1> QED  BY <1>1, CompletedRecord DEF Completing

\* recordInvokeSendAttempt leaves the state of every record alone.
LEMMA RecordInvokeKeeps ==
  ASSUME rec \in [Key -> RecordShape], NEW k \in Key, NEW delay \in Int, NEW maximum \in Nat
  PROVE  /\ RecordInvoke(k, delay, maximum) \in [Key -> RecordShape]
         /\ \A j \in Key : RecordInvoke(k, delay, maximum)[j].state = rec[j].state
  BY PutRecord, CountedKeeps DEF RecordInvoke

\* recordAckSendAttempt too.
LEMMA RecordAckKeeps ==
  ASSUME rec \in [Key -> RecordShape], NEW k \in Key, NEW delay \in Int
  PROVE  /\ RecordAck(k, delay) \in [Key -> RecordShape]
         /\ \A j \in Key : RecordAck(k, delay)[j].state = rec[j].state
  BY PutRecord, CountedAckKeeps DEF RecordAck

\* reconcile completes one record and leaves the others alone.
LEMMA ReconcileKeeps ==
  ASSUME rec \in [Key -> RecordShape], NEW k \in Key
  PROVE  /\ Reconcile(k) \in [Key -> RecordShape]
         /\ Reconcile(k)[k].state = "completed"
         /\ \A j \in Key \ {k} : Reconcile(k)[j].state = rec[j].state
  BY PutRecord, CompletingKeeps DEF Reconcile

\* The jobs a drain goes through.
LEMMA IdleJob ==
  /\ Idle \in Job /\ Idle.pc = "idle" /\ Idle.due = {} /\ Idle.owner = "none"
  BY DEF Idle, Job, Never, Entry

\* The job of a user's request holds its key and nothing due.
LEMMA UserJob ==
  ASSUME NEW k \in Key, NEW p \in {"send", "resent"}
  PROVE  /\ [Idle EXCEPT !.pc = p, !.owner = "user", !.key = k] \in Job
         /\ [Idle EXCEPT !.pc = p, !.owner = "user", !.key = k].pc = p
         /\ [Idle EXCEPT !.pc = p, !.owner = "user", !.key = k].key = k
         /\ [Idle EXCEPT !.pc = p, !.owner = "user", !.key = k].due = {}
  BY IdleJob DEF Job

\* The job of a recorded request only has its alarm left to set.
LEMMA EndJob ==
  ASSUME NEW w \in Int
  PROVE  /\ [Idle EXCEPT !.pc = "end", !.owner = "user", !.wake = w] \in Job
         /\ [Idle EXCEPT !.pc = "end", !.owner = "user", !.wake = w].pc = "end"
         /\ [Idle EXCEPT !.pc = "end", !.owner = "user", !.wake = w].due = {}
  BY IdleJob DEF Job

\* A request whose frame was taken holds the same key.
LEMMA SentJob ==
  ASSUME NEW job \in Job
  PROVE  /\ [job EXCEPT !.pc = "record"] \in Job
         /\ [job EXCEPT !.pc = "record"].pc = "record"
         /\ [job EXCEPT !.pc = "record"].key = job.key
         /\ [job EXCEPT !.pc = "record"].due = job.due
  BY DEF Job

\* A drain whose frame was refused has nothing left.
LEMMA RefusedJob ==
  ASSUME NEW job \in Job
  PROVE  /\ [job EXCEPT !.due = {}, !.refused = TRUE] \in Job
         /\ [job EXCEPT !.due = {}, !.refused = TRUE].pc = job.pc
         /\ [job EXCEPT !.due = {}, !.refused = TRUE].key = job.key
         /\ [job EXCEPT !.due = {}, !.refused = TRUE].due = {}
  BY DEF Job

\* A drain that passes over an entry keeps the others.
LEMMA PassedJob ==
  ASSUME NEW job \in Job, NEW e
  PROVE  /\ [job EXCEPT !.due = @ \ {e}] \in Job
         /\ [job EXCEPT !.due = @ \ {e}].pc = job.pc
         /\ [job EXCEPT !.due = @ \ {e}].key = job.key
         /\ [job EXCEPT !.due = @ \ {e}].due = job.due \ {e}
  BY DEF Job

\* A drain starts with the entries due.
LEMMA DrainingJob ==
  ASSUME NEW c \in Caller, NEW due \in SUBSET Entry
  PROVE  /\ Draining(c, due) \in Job
         /\ Draining(c, due).pc = "next" /\ Draining(c, due).due = due
  BY IdleJob DEF Draining, Job, Caller

\* A drain that sent an entry holds its key until it is recorded.
LEMMA TakingJob ==
  ASSUME NEW job \in Job, NEW e \in Entry
  PROVE  /\ Taking(job, e) \in Job
         /\ Taking(job, e).pc = "record" /\ Taking(job, e).key = e[1]
         /\ Taking(job, e).due = job.due \ {e}
  BY DEF Taking, Job, Entry

\* A drain that recorded an entry goes on with the others.
LEMMA RecordedJob ==
  ASSUME NEW job \in Job, NEW delay \in Int
  PROVE  /\ Recorded(job, delay) \in Job
         /\ Recorded(job, delay).pc = "next" /\ Recorded(job, delay).due = job.due
  BY DEF Recorded, Sooner, Job, Never, Entry

-----------------------------------------------------------------------------
(* Every action preserves IInv.                                             *)

USE DEF invokeVars, ackVars, phoneVars, countVars

\* A request is registered before anything is sent.
LEMMA QueuePreserves ==
  ASSUME IInv, NEW k \in Key, Queue(k)
  PROVE  IInv'
  <1> DEFINE fresh == [NoRecord EXCEPT !.state = "pending", !.due = 0]
  <1>1. fresh \in RecordShape /\ fresh.state = "pending"
    <2>1. NoRecord \in RecordShape  BY DEF NoRecord, RecordShape, Never
    <2>2. \A r \in RecordShape, d \in Int :
            /\ [r EXCEPT !.state = "pending", !.due = d] \in RecordShape
            /\ [r EXCEPT !.state = "pending", !.due = d].state = "pending"
      BY DEF RecordShape
    <2>3. 0 \in Int  OBVIOUS
    <2> QED  BY <2>1, <2>2, <2>3
  <1>2. rec' = [rec EXCEPT ![k] = fresh] /\ rec' \in [Key -> RecordShape]
        /\ rec'[k] = fresh /\ \A j \in Key \ {k} : rec'[j] = rec[j]
    <2> HIDE DEF fresh
    <2>1. rec' = [rec EXCEPT ![k] = fresh]  BY DEF Queue, fresh
    <2> QED  BY <1>1, <2>1, PutRecord DEF IInv, Shape
  <1> HIDE DEF fresh
  <1>3. \A j \in Key : (Registered(j) => Registered(j)') /\ (j # k => Registered(j)' = Registered(j))
    BY <1>1, <1>2 DEF Registered
  <1>4. \A j \in Key : Completed(j)' <=> Completed(j)
    BY <1>1, <1>2 DEF Completed, Queue, Registrable
  <1>5. Registered(k)' /\ (k \in OneShot => ~Registered(k))
    BY <1>1, <1>2 DEF Registered, Queue, Registrable
  <1>6. invokeJob' \in Job /\ invokeJob'.pc = "send" /\ invokeJob'.key = k /\ invokeJob'.due = {}
    BY UserJob DEF Queue
  <1>7. Shape'  BY <1>2, <1>6 DEF IInv, Shape, Queue
  <1>8. JobKeys'
    BY <1>3, <1>4, <1>5, <1>6 DEF IInv, Shape, Job, Entry, JobKeys, Queue, ackVars
  <1>9. OnceOK'
    BY KeyAssumption, <1>3, <1>5, <1>6 DEF IInv, OnceOK, Queue
  <1>10. Flow'
    BY <1>3, <1>4 DEF IInv, Shape, Flow, Queue, phoneVars
  <1> QED  BY <1>7, <1>8, <1>9, <1>10 DEF IInv

\* WebSocket.send accepts the frame of a registered request, once.
LEMMA QueueSendPreserves ==
  ASSUME IInv, QueueSend
  PROVE  IInv'
  <1>1. CASE conn = "online"
    <2> DEFINE k == invokeJob.key
    <2>1. k \in Key /\ Registered(k) /\ (k \in OneShot => sent[k] = 0)
      BY DEF IInv, JobKeys, OnceOK, QueueSend
    <2>2. /\ invokeJob' \in Job /\ invokeJob'.pc = "record"
          /\ invokeJob'.key = k /\ invokeJob'.due = invokeJob.due
      BY <1>1, SentJob DEF QueueSend, IInv, Shape
    <2>3. /\ toPhone' = toPhone \cup {Invoke(k)} /\ sent' = [sent EXCEPT ![k] = @ + 1]
          /\ UNCHANGED <<rec, ackVars, inbox, results, phoneVars>>
      BY <1>1 DEF QueueSend, SendInvoke, Send
    <2> HIDE DEF k
    <2>4. Shape'  BY <2>1, <2>2, <2>3 DEF IInv, Shape, Frame
    <2>5. JobKeys'  BY <2>1, <2>2, <2>3 DEF IInv, JobKeys, Registered, Completed
    <2>6. OnceOK'
      BY KeyAssumption, <2>1, <2>2, <2>3 DEF IInv, Shape, OnceOK, Registered
    <2>7. Flow'
      BY <2>1, <2>3 DEF IInv, Flow, Registered, Completed, Invoke, Ack
    <2> QED  BY <2>4, <2>5, <2>6, <2>7 DEF IInv
  <1>2. CASE conn # "online"
    <2>1. /\ invokeJob' = Idle
          /\ UNCHANGED <<rec, ackVars, inbox, toPhone, sent, results, phoneVars>>
      BY <1>2 DEF QueueSend
    <2>2. Shape'  BY <2>1, IdleJob DEF IInv, Shape
    <2>3. JobKeys'  BY <2>1, IdleJob DEF IInv, JobKeys, Registered, Completed
    <2>4. OnceOK'  BY <2>1, IdleJob DEF IInv, OnceOK, Registered
    <2>5. Flow'  BY <2>1 DEF IInv, Flow, Registered, Completed
    <2> QED  BY <2>2, <2>3, <2>4, <2>5 DEF IInv
  <1> QED  BY <1>1, <1>2

\* A step that ActionContract does not see.
Unseen ==
  /\ \A j \in Key : (Registered(j)' <=> Registered(j)) /\ (Completed(j)' <=> Completed(j))
  /\ UNCHANGED <<executed, outbox>>

\* A step after which the records are in their states, the jobs hold no key they
\* did not hold and no frame was sent keeps what IInv says.
LEMMA QuietPreserves ==
  ASSUME IInv, rec' \in [Key -> RecordShape],
         \A j \in Key : rec'[j].state = rec[j].state,
         invokeJob' \in Job,
         \/ invokeJob'.pc \notin {"send", "record", "resent"}
         \/ invokeJob'.pc = invokeJob.pc /\ invokeJob'.key = invokeJob.key,
         invokeJob'.due \subseteq invokeJob.due,
         ackJob' \in Job,
         \/ ackJob'.pc \in {"idle", "next"}
         \/ ackJob'.pc = ackJob.pc /\ ackJob'.key = ackJob.key,
         ackJob'.due \subseteq ackJob.due,
         toPhone' \subseteq toPhone, results' \subseteq results \cup executed,
         inbox' \in {inbox, None, "notice"}, UNCHANGED <<sent, executed, outbox>>
  PROVE  IInv' /\ Unseen
  <1>1. \A j \in Key : (Registered(j)' <=> Registered(j)) /\ (Completed(j)' <=> Completed(j))
    BY DEF Registered, Completed
  <1>2. Shape'  BY DEF IInv, Shape
  <1>3. JobKeys'  BY <1>1 DEF IInv, Shape, Job, Entry, JobKeys
  <1>4. OnceOK'  BY <1>1, KeyAssumption DEF IInv, OnceOK
  <1>5. Flow'  BY <1>1, KeyAssumption DEF IInv, Shape, Flow
  <1> QED  BY <1>1, <1>2, <1>3, <1>4, <1>5 DEF IInv, Unseen

\* The attempt of a request is recorded.
LEMMA QueueRecordPreserves ==
  ASSUME IInv, QueueRecord
  PROVE  IInv' /\ Unseen
  <1>1. invokeJob.key \in Key /\ rec \in [Key -> RecordShape]
    BY DEF IInv, Shape, JobKeys, QueueRecord
  <1>2. /\ rec' \in [Key -> RecordShape]
        /\ \A j \in Key : rec'[j].state = rec[j].state
    <2>1. /\ 1 \in Int /\ 1 \in Nat /\ MaxAttempts \in Nat
      BY AttemptAssumption
    <2>2. \/ rec' = RecordInvoke(invokeJob.key, 1, 1)
          \/ rec' = RecordInvoke(invokeJob.key, 1, MaxAttempts)
      BY DEF QueueRecord
    <2> QED  BY <1>1, <2>1, <2>2, RecordInvokeKeeps
  <1>3. invokeJob' \in Job /\ invokeJob'.pc \in {"idle", "end"} /\ invokeJob'.due = {}
    <2>1. 1 \in Int  OBVIOUS
    <2>2. \/ invokeJob' = Idle
          \/ invokeJob' = [Idle EXCEPT !.pc = "end", !.owner = "user", !.wake = 1]
      BY DEF QueueRecord
    <2>3. CASE invokeJob' = Idle  BY <2>3, IdleJob
    <2>4. CASE invokeJob' = [Idle EXCEPT !.pc = "end", !.owner = "user", !.wake = 1]
      BY <2>1, <2>4, EndJob
    <2> QED  BY <2>2, <2>3, <2>4
  <1>4. UNCHANGED <<ackJob, toPhone, inbox, results, sent, executed, outbox>>
    BY DEF QueueRecord
  <1> QED  BY <1>2, <1>3, <1>4, QuietPreserves DEF IInv, Shape

\* The explicit resend is recorded.
LEMMA ResendRecordPreserves ==
  ASSUME IInv, ResendRecord
  PROVE  IInv' /\ Unseen
  <1> DEFINE k == invokeJob.key
  <1>1. k \in Key /\ rec \in [Key -> RecordShape]
    BY DEF IInv, Shape, JobKeys, ResendRecord
  <1>2. rec' = [rec EXCEPT ![k] = CountedResend(rec[k])]
    BY <1>1 DEF ResendRecord
  <1> HIDE DEF k
  <1>3. /\ rec' \in [Key -> RecordShape]
        /\ \A j \in Key : rec'[j].state = rec[j].state
    BY <1>1, <1>2, CountedResendKeeps, PutRecord
  <1>4. invokeJob' = Idle /\ UNCHANGED <<ackJob, toPhone, inbox, results, sent, executed, outbox>>
    BY DEF ResendRecord
  <1> QED  BY <1>3, <1>4, IdleJob, QuietPreserves DEF IInv, Shape

\* An explicit resend is of an operation that is no reply.
LEMMA ResendPreserves ==
  ASSUME IInv, NEW k \in Key, Resend(k)
  PROVE  IInv'
  <1>1. /\ invokeJob' \in Job /\ invokeJob'.pc = "resent"
        /\ invokeJob'.key = k /\ invokeJob'.due = {}
    BY UserJob DEF Resend
  <1>2. /\ toPhone' = toPhone \cup {Invoke(k)} /\ sent' = [sent EXCEPT ![k] = @ + 1]
        /\ k \notin OneShot /\ Registered(k)
        /\ UNCHANGED <<rec, ackJob, inbox, results, phoneVars>>
    BY DEF Resend, SendInvoke, Send, Registered
  <1>3. Shape'  BY <1>1, <1>2 DEF IInv, Shape, Frame
  <1>4. JobKeys'  BY <1>1, <1>2 DEF IInv, JobKeys, Registered, Completed
  <1>5. OnceOK'  BY KeyAssumption, <1>1, <1>2 DEF IInv, Shape, OnceOK, Registered
  <1>6. Flow'  BY <1>2 DEF IInv, Flow, Registered, Completed, Invoke, Ack
  <1> QED  BY <1>3, <1>4, <1>5, <1>6 DEF IInv

\* The entries due are pending operations that are no replies.
LEMMA InvokeDrainStartPreserves ==
  ASSUME IInv, NEW c \in Caller, InvokeDrainStart(c)
  PROVE  IInv'
  <1>1. /\ DueInvokes \in SUBSET Entry
        /\ \A e \in DueInvokes : Registered(e[1]) /\ e[1] \notin OneShot
    BY DEF IInv, Shape, RecordShape, DueInvokes, Entry, Registered
  <1>2. /\ invokeJob' \in Job /\ invokeJob'.pc = "next" /\ invokeJob'.due = DueInvokes
    BY <1>1, DrainingJob DEF InvokeDrainStart
  <1>3. UNCHANGED <<rec, ackJob, toPhone, inbox, results, sent, executed, outbox>>
    BY DEF InvokeDrainStart
  <1>4. Shape'  BY <1>2, <1>3 DEF IInv, Shape
  <1>5. JobKeys'  BY <1>1, <1>2, <1>3 DEF IInv, JobKeys, Registered, Completed
  <1>6. OnceOK'  BY <1>2, <1>3 DEF IInv, OnceOK, Registered
  <1>7. Flow'  BY <1>3 DEF IInv, Flow, Registered, Completed
  <1> QED  BY <1>4, <1>5, <1>6, <1>7 DEF IInv

\* A drain sends an entry, refuses, or passes over it: no reply goes out.
LEMMA InvokeDrainSendPreserves ==
  ASSUME IInv, NEW e \in invokeJob.due, InvokeDrainSend(e)
  PROVE  IInv'
  <1>1. invokeJob \in Job /\ e \in Entry /\ e[1] \in Key /\ Registered(e[1]) /\ e[1] \notin OneShot
    BY DEF IInv, Shape, JobKeys, Job, Entry
  <1>2. UNCHANGED <<rec, ackJob, inbox, results, executed, outbox>> /\ invokeJob.pc = "next"
    BY DEF InvokeDrainSend
  <1>3. CASE approved /\ conn = "online"
    <2>1. /\ toPhone' = toPhone \cup {Invoke(e[1])}
          /\ sent' = [sent EXCEPT ![e[1]] = @ + 1]
          /\ invokeJob' = Taking(invokeJob, e)
      BY <1>3 DEF InvokeDrainSend, SendInvoke, Send
    <2>2. /\ invokeJob' \in Job /\ invokeJob'.pc = "record" /\ invokeJob'.key = e[1]
          /\ invokeJob'.due \subseteq invokeJob.due
      BY <1>1, <2>1, TakingJob
    <2>3. Shape'  BY <1>1, <1>2, <2>1, <2>2 DEF IInv, Shape, Frame
    <2>4. JobKeys'  BY <1>1, <1>2, <2>2 DEF IInv, JobKeys, Registered, Completed
    <2>5. OnceOK'
      BY KeyAssumption, <1>1, <1>2, <2>1, <2>2 DEF IInv, Shape, OnceOK, Registered
    <2>6. Flow'  BY <1>1, <1>2, <2>1 DEF IInv, Flow, Registered, Completed, Invoke, Ack
    <2> QED  BY <2>3, <2>4, <2>5, <2>6 DEF IInv
  <1>4. CASE ~(approved /\ conn = "online")
    <2>1. /\ \/ invokeJob' = [invokeJob EXCEPT !.due = {}, !.refused = TRUE]
             \/ invokeJob' = [invokeJob EXCEPT !.due = @ \ {e}]
          /\ UNCHANGED <<toPhone, sent>>
      BY <1>4 DEF InvokeDrainSend
    <2>2. invokeJob' \in Job /\ invokeJob'.pc = "next" /\ invokeJob'.due \subseteq invokeJob.due
      <3>1. CASE invokeJob' = [invokeJob EXCEPT !.due = {}, !.refused = TRUE]
        BY <1>1, <1>2, <3>1, RefusedJob
      <3>2. CASE invokeJob' = [invokeJob EXCEPT !.due = @ \ {e}]
        BY <1>1, <1>2, <3>2, PassedJob
      <3> QED  BY <2>1, <3>1, <3>2
    <2> QED  BY <1>2, <2>1, <2>2, QuietPreserves DEF IInv, Shape
  <1> QED  BY <1>3, <1>4

\* The attempt of a drain is recorded.
LEMMA InvokeDrainRecordPreserves ==
  ASSUME IInv, InvokeDrainRecord
  PROVE  IInv' /\ Unseen
  <1> DEFINE delay == RetryDelay(invokeJob.n, InvokeCap)
  <1>1. invokeJob \in Job /\ invokeJob.key \in Key /\ rec \in [Key -> RecordShape]
    BY DEF IInv, Shape, JobKeys, InvokeDrainRecord
  <1>2. delay \in Int /\ MaxAttempts \in Nat
    BY <1>1, RetryDelayType, AttemptAssumption DEF Job, InvokeCap
  <1>3. /\ rec' = RecordInvoke(invokeJob.key, delay, MaxAttempts)
        /\ invokeJob' = Recorded(invokeJob, delay)
        /\ UNCHANGED <<ackJob, toPhone, inbox, results, sent, executed, outbox>>
    BY DEF InvokeDrainRecord
  <1> HIDE DEF delay
  <1>4. rec' \in [Key -> RecordShape] /\ \A j \in Key : rec'[j].state = rec[j].state
    BY <1>1, <1>2, <1>3, RecordInvokeKeeps
  <1>5. invokeJob' \in Job /\ invokeJob'.pc = "next" /\ invokeJob'.due = invokeJob.due
    BY <1>1, <1>2, <1>3, RecordedJob
  <1> QED  BY <1>3, <1>4, <1>5, QuietPreserves DEF IInv, Shape

\* The end of a drain of invocations leaves an idle job.
LEMMA InvokeEndPreserves ==
  ASSUME IInv, InvokeEnd
  PROVE  IInv' /\ Unseen
  <1>1. /\ invokeJob' = Idle
        /\ UNCHANGED <<rec, ackJob, toPhone, inbox, results, sent, executed, outbox>>
    BY DEF InvokeEnd
  <1> QED  BY <1>1, IdleJob, QuietPreserves DEF IInv, Shape

\* The acknowledgements due are of completed operations.
LEMMA AckDrainStartPreserves ==
  ASSUME IInv, NEW c \in Caller, AckDrainStart(c)
  PROVE  IInv'
  <1>1. DueAcks \in SUBSET Entry /\ \A e \in DueAcks : Completed(e[1])
    BY DEF IInv, Shape, RecordShape, DueAcks, Entry, Completed
  <1>2. ackJob' \in Job /\ ackJob'.pc = "next" /\ ackJob'.due = DueAcks
    BY <1>1, DrainingJob DEF AckDrainStart
  <1>3. UNCHANGED <<rec, invokeJob, toPhone, inbox, results, sent, executed, outbox>>
    BY DEF AckDrainStart
  <1>4. Shape'  BY <1>2, <1>3 DEF IInv, Shape
  <1>5. JobKeys'  BY <1>1, <1>2, <1>3 DEF IInv, JobKeys, Registered, Completed
  <1>6. OnceOK'  BY <1>3 DEF IInv, OnceOK, Registered
  <1>7. Flow'  BY <1>3 DEF IInv, Flow, Registered, Completed
  <1> QED  BY <1>4, <1>5, <1>6, <1>7 DEF IInv

\* An acknowledgement goes out for a completed operation only.
LEMMA AckDrainSendPreserves ==
  ASSUME IInv, NEW e \in ackJob.due, AckDrainSend(e)
  PROVE  IInv'
  <1>1. ackJob \in Job /\ e \in Entry /\ e[1] \in Key /\ Completed(e[1])
    BY DEF IInv, Shape, JobKeys, Job, Entry
  <1>2. /\ UNCHANGED <<rec, invokeJob, inbox, results, sent, executed, outbox>>
        /\ ackJob.pc = "next"
    BY DEF AckDrainSend
  <1>3. CASE approved /\ conn = "online"
    <2>1. toPhone' = toPhone \cup {Ack(e[1])} /\ ackJob' = Taking(ackJob, e)
      BY <1>3 DEF AckDrainSend, Send
    <2>2. /\ ackJob' \in Job /\ ackJob'.pc = "record" /\ ackJob'.key = e[1]
          /\ ackJob'.due \subseteq ackJob.due
      BY <1>1, <2>1, TakingJob
    <2>3. Shape'  BY <1>1, <1>2, <2>1, <2>2 DEF IInv, Shape, Frame
    <2>4. JobKeys'  BY <1>1, <1>2, <2>2 DEF IInv, JobKeys, Registered, Completed
    <2>5. OnceOK'  BY <1>2 DEF IInv, OnceOK, Registered
    <2>6. Flow'  BY <1>1, <1>2, <2>1 DEF IInv, Flow, Registered, Completed, Invoke, Ack
    <2> QED  BY <2>3, <2>4, <2>5, <2>6 DEF IInv
  <1>4. CASE ~(approved /\ conn = "online")
    <2>1. /\ \/ ackJob' = [ackJob EXCEPT !.due = {}, !.refused = TRUE]
             \/ ackJob' = [ackJob EXCEPT !.due = @ \ {e}]
          /\ UNCHANGED toPhone
      BY <1>4 DEF AckDrainSend
    <2>2. ackJob' \in Job /\ ackJob'.pc = "next" /\ ackJob'.due \subseteq ackJob.due
      <3>1. CASE ackJob' = [ackJob EXCEPT !.due = {}, !.refused = TRUE]
        BY <1>1, <1>2, <3>1, RefusedJob
      <3>2. CASE ackJob' = [ackJob EXCEPT !.due = @ \ {e}]
        BY <1>1, <1>2, <3>2, PassedJob
      <3> QED  BY <2>1, <3>1, <3>2
    <2> QED  BY <1>2, <2>1, <2>2, QuietPreserves DEF IInv, Shape
  <1> QED  BY <1>3, <1>4

\* The attempt of an acknowledgement is recorded.
LEMMA AckDrainRecordPreserves ==
  ASSUME IInv, AckDrainRecord
  PROVE  IInv' /\ Unseen
  <1> DEFINE delay == RetryDelay(ackJob.n, AckCap)
  <1>1. ackJob \in Job /\ ackJob.key \in Key /\ rec \in [Key -> RecordShape]
    BY DEF IInv, Shape, JobKeys, AckDrainRecord
  <1>2. delay \in Int
    BY <1>1, RetryDelayType DEF Job, AckCap
  <1>3. /\ rec' = RecordAck(ackJob.key, delay) /\ ackJob' = Recorded(ackJob, delay)
        /\ UNCHANGED <<invokeJob, toPhone, inbox, results, sent, executed, outbox>>
    BY DEF AckDrainRecord
  <1> HIDE DEF delay
  <1>4. rec' \in [Key -> RecordShape] /\ \A j \in Key : rec'[j].state = rec[j].state
    BY <1>1, <1>2, <1>3, RecordAckKeeps
  <1>5. ackJob' \in Job /\ ackJob'.pc = "next" /\ ackJob'.due = ackJob.due
    BY <1>1, <1>2, <1>3, RecordedJob
  <1> QED  BY <1>3, <1>4, <1>5, QuietPreserves DEF IInv, Shape

\* The end of a drain of acknowledgements leaves an idle job.
LEMMA AckEndPreserves ==
  ASSUME IInv, AckEnd
  PROVE  IInv' /\ Unseen
  <1>1. /\ ackJob' = Idle
        /\ UNCHANGED <<rec, invokeJob, toPhone, inbox, results, sent, executed, outbox>>
    BY DEF AckEnd
  <1> QED  BY <1>1, IdleJob, QuietPreserves DEF IInv, Shape

\* A result is of an operation that ran, and completes its record.
LEMMA ReceivePreserves ==
  ASSUME IInv, NEW k \in Key, Receive(k)
  PROVE  IInv'
  <1>1. /\ rec' = Reconcile(k) /\ k \in executed /\ inbox' = k /\ results' = results \ {k}
        /\ UNCHANGED <<invokeJob, ackJob, toPhone, sent, executed, outbox>>
    BY DEF Receive, IInv, Flow
  <1>2. /\ rec' \in [Key -> RecordShape] /\ rec'[k].state = "completed"
        /\ \A j \in Key \ {k} : rec'[j].state = rec[j].state
    BY <1>1, ReconcileKeeps DEF IInv, Shape
  <1>3. \A j \in Key : (Registered(j) => Registered(j)') /\ (Completed(j) => Completed(j)')
    BY <1>2 DEF Registered, Completed
  <1>4. \A j \in Key : (Registered(j)' => Registered(j)) /\ (Completed(j)' => Completed(j) \/ j = k)
    BY <1>2 DEF Registered, Completed, Receive
  <1>5. Shape'  BY <1>1, <1>2 DEF IInv, Shape
  <1>6. JobKeys'  BY <1>1, <1>3 DEF IInv, Shape, Job, Entry, JobKeys
  <1>7. OnceOK'  BY KeyAssumption, <1>1, <1>3, <1>4 DEF IInv, OnceOK
  <1>8. Flow'  BY <1>1, <1>3, <1>4 DEF IInv, Shape, Flow
  <1> QED  BY <1>5, <1>6, <1>7, <1>8 DEF IInv

\* The phone runs what was requested and keeps the result until it is acknowledged.
LEMMA PhoneInvokePreserves ==
  ASSUME IInv, NEW k \in Key, PhoneInvoke(k)
  PROVE  IInv'
  <1>1. /\ Registered(k) /\ toPhone' \subseteq toPhone
        /\ executed' = executed \cup {k} /\ results' = results \cup {k}
        /\ outbox' = IF k \in executed THEN outbox ELSE outbox \cup {k}
        /\ UNCHANGED <<rec, invokeJob, ackJob, inbox, sent>>
    BY DEF PhoneInvoke, IInv, Flow
  <1>2. Shape'  BY <1>1 DEF IInv, Shape
  <1>3. JobKeys'  BY <1>1 DEF IInv, JobKeys, Registered, Completed
  <1>4. OnceOK'  BY <1>1 DEF IInv, OnceOK, Registered
  <1>5. Flow'  BY <1>1 DEF IInv, Flow, Registered, Completed
  <1> QED  BY <1>2, <1>3, <1>4, <1>5 DEF IInv

\* It forgets a result that Chrome has completed its record with.
LEMMA PhoneAckPreserves ==
  ASSUME IInv, NEW k \in Key, PhoneAck(k)
  PROVE  IInv'
  <1>1. /\ Completed(k) /\ toPhone' \subseteq toPhone /\ outbox' = outbox \ {k}
        /\ UNCHANGED <<rec, invokeJob, ackJob, inbox, sent, results, executed>>
    BY DEF PhoneAck, IInv, Flow
  <1>2. Shape'  BY <1>1 DEF IInv, Shape
  <1>3. JobKeys'  BY <1>1 DEF IInv, JobKeys, Registered, Completed
  <1>4. OnceOK'  BY <1>1 DEF IInv, OnceOK, Registered
  <1>5. Flow'  BY <1>1 DEF IInv, Flow, Registered, Completed
  <1> QED  BY <1>2, <1>3, <1>4, <1>5 DEF IInv

\* Time changes due times only.
LEMMA TickPreserves ==
  ASSUME IInv, Tick
  PROVE  IInv' /\ Unseen
  <1>1. rec' = [k \in Key |-> Aged(rec[k])] /\ rec \in [Key -> RecordShape]
    BY DEF Tick, IInv, Shape
  <1>2. rec' \in [Key -> RecordShape] /\ \A j \in Key : rec'[j].state = rec[j].state
    BY <1>1, AgedKeeps
  <1>3. UNCHANGED <<invokeJob, ackJob, toPhone, inbox, results, sent, executed, outbox>>
    BY DEF Tick
  <1> QED  BY <1>2, <1>3, QuietPreserves DEF IInv, Shape

\* The stops of an outbox or of the worker leave idle jobs and what is durable.
LEMMA StopPreserves ==
  ASSUME IInv, InvokeThrows \/ AckThrows \/ Crash
  PROVE  IInv' /\ Unseen
  <1>1. /\ UNCHANGED <<rec, sent, executed, outbox>>
        /\ invokeJob' \in {invokeJob, Idle} /\ ackJob' \in {ackJob, Idle}
        /\ toPhone' \subseteq toPhone /\ inbox' \in {inbox, None}
    BY DEF InvokeThrows, AckThrows, Crash
  <1>2. results' \subseteq results \cup executed
    BY DEF IInv, Flow, InvokeThrows, AckThrows, Crash
  <1>3. /\ invokeJob' \in Job /\ invokeJob'.due \subseteq invokeJob.due
        /\ invokeJob'.pc = "idle" \/ (invokeJob'.pc = invokeJob.pc /\ invokeJob'.key = invokeJob.key)
    BY <1>1, IdleJob DEF IInv, Shape
  <1>4. /\ ackJob' \in Job /\ ackJob'.due \subseteq ackJob.due
        /\ ackJob'.pc = "idle" \/ (ackJob'.pc = ackJob.pc /\ ackJob'.key = ackJob.key)
    BY <1>1, IdleJob DEF IInv, Shape
  <1> QED  BY <1>1, <1>2, <1>3, <1>4, QuietPreserves DEF IInv, Shape

\* The steps that touch neither a record nor a job.
OtherStep ==
  \/ ReceiveNotice \/ CommitInbox \/ Authenticated \/ InvokeAlarmFires \/ AckAlarmFires
  \/ Drop \/ Revoke \/ \E k \in Key : PhoneRepeat(k)

\* The connection, the alarms, deliveries and repeated results change neither.
LEMMA OtherPreserves ==
  ASSUME IInv, OtherStep
  PROVE  IInv' /\ Unseen
  <1>1. /\ UNCHANGED <<rec, invokeJob, ackJob, sent, executed, outbox>>
        /\ toPhone' \subseteq toPhone /\ inbox' \in {inbox, None, "notice"}
    BY DEF OtherStep, ReceiveNotice, CommitInbox, Authenticated, InvokeAlarmFires,
           AckAlarmFires, Drop, Revoke, PhoneRepeat
  <1>2. results' \subseteq results \cup executed
    BY DEF IInv, Flow, OtherStep, ReceiveNotice, CommitInbox, Authenticated,
           InvokeAlarmFires, AckAlarmFires, Drop, Revoke, PhoneRepeat
  <1> QED  BY <1>1, <1>2, QuietPreserves DEF IInv, Shape

-----------------------------------------------------------------------------
(* The theorems.                                                            *)

\* IInv holds when the worker is first installed.
LEMMA InitIInv == Init => IInv
  <1> SUFFICES ASSUME Init PROVE IInv  OBVIOUS
  <1>1. NoRecord \in RecordShape /\ NoRecord.state = "none"
    BY DEF NoRecord, RecordShape, Never
  <1>2. Shape  BY <1>1, IdleJob DEF Init, Shape
  <1>3. JobKeys  BY IdleJob DEF Init, JobKeys
  <1>4. OnceOK  BY <1>1, KeyAssumption, IdleJob DEF Init, OnceOK
  <1>5. Flow  BY <1>1, KeyAssumption DEF Init, Flow, Completed
  <1> QED  BY <1>2, <1>3, <1>4, <1>5 DEF IInv

\* IInv is inductive.
LEMMA NextIInv == IInv /\ [Next]_vars => IInv'
  <1> SUFFICES ASSUME IInv, [Next]_vars PROVE IInv'  OBVIOUS
  <1>1. ASSUME NEW k \in Key, Queue(k) PROVE IInv'  BY <1>1, QueuePreserves
  <1>2. ASSUME NEW k \in Key, Resend(k) PROVE IInv'  BY <1>2, ResendPreserves
  <1>3. ASSUME NEW k \in Key, Receive(k) PROVE IInv'  BY <1>3, ReceivePreserves
  <1>4. ASSUME NEW k \in Key, PhoneInvoke(k) PROVE IInv'  BY <1>4, PhoneInvokePreserves
  <1>5. ASSUME NEW k \in Key, PhoneAck(k) PROVE IInv'  BY <1>5, PhoneAckPreserves
  <1>6. CASE InvokeStep
    <2>1. ASSUME NEW c \in Caller, InvokeDrainStart(c) PROVE IInv'
      BY <2>1, InvokeDrainStartPreserves
    <2>2. ASSUME NEW e \in invokeJob.due, InvokeDrainSend(e) PROVE IInv'
      BY <2>2, InvokeDrainSendPreserves
    <2> QED  BY <1>6, <2>1, <2>2, InvokeDrainRecordPreserves, InvokeEndPreserves,
                QueueSendPreserves, QueueRecordPreserves, ResendRecordPreserves DEF InvokeStep
  <1>7. CASE AckStep
    <2>1. ASSUME NEW c \in Caller, AckDrainStart(c) PROVE IInv'
      BY <2>1, AckDrainStartPreserves
    <2>2. ASSUME NEW e \in ackJob.due, AckDrainSend(e) PROVE IInv'
      BY <2>2, AckDrainSendPreserves
    <2> QED  BY <1>7, <2>1, <2>2, AckDrainRecordPreserves, AckEndPreserves DEF AckStep
  <1>8. CASE OtherStep  BY <1>8, OtherPreserves
  <1>9. CASE Tick  BY <1>9, TickPreserves
  <1>10. CASE InvokeThrows \/ AckThrows \/ Crash  BY <1>10, StopPreserves
  <1>11. CASE UNCHANGED vars
    BY <1>11, QuietPreserves DEF vars, IInv, Shape
  <1> QED
    BY <1>1, <1>2, <1>3, <1>4, <1>5, <1>6, <1>7, <1>8, <1>9, <1>10, <1>11 DEF Next, OtherStep

\* IInv in every reachable state, for every set of keys and every bound.
THEOREM Inductive == Spec => []IInv
  BY InitIInv, NextIInv, PTL DEF Spec

\* A reply goes out at most once (sendOnce): whatever is lost, refused, retried
\* or restarted, no drain and no request sends the frame of a reply again.
THEOREM RepliesSentOnce == Spec => []OneShotSentOnce
  <1>1. IInv => OneShotSentOnce  BY DEF IInv, OnceOK, OneShotSentOnce
  <1> QED  BY <1>1, Inductive, PTL

\* Every step is one of ActionContract's or is not seen by it.
LEMMA StepKeepsContract == IInv /\ [Next]_vars => [Contract!Next]_Contract!vars
  <1> SUFFICES ASSUME IInv, [Next]_vars PROVE [Contract!Next]_Contract!vars  OBVIOUS
  <1>1. ASSUME Unseen PROVE UNCHANGED Contract!vars
    BY <1>1 DEF Unseen, Registered, Completed, Contract!vars
  <1>2. ASSUME UNCHANGED <<rec, executed, outbox>> PROVE UNCHANGED Contract!vars
    BY <1>2 DEF Contract!vars
  <1>3. ASSUME NEW k \in Key, Queue(k) PROVE Contract!Register(k)
    <2> DEFINE fresh == [NoRecord EXCEPT !.state = "pending", !.due = 0]
    <2>1. rec' = [rec EXCEPT ![k] = fresh] /\ rec \in [Key -> RecordShape]
      BY <1>3 DEF Queue, IInv, Shape
    <2>2. fresh.state = "pending"  BY DEF NoRecord
    <2> HIDE DEF fresh
    <2>3. \A j \in Key : (Registered(j)' <=> Registered(j) \/ j = k)
      BY <2>1, <2>2 DEF Registered
    <2>4. \A j \in Key : Completed(j)' <=> Completed(j)
      BY <1>3, <2>1, <2>2 DEF Completed, Queue, Registrable
    <2>5. UNCHANGED <<executed, outbox>>  BY <1>3 DEF Queue
    <2> QED  BY <2>3, <2>4, <2>5 DEF Contract!Register, Registered, Completed
  <1>4. ASSUME NEW k \in Key, Receive(k) PROVE Contract!Learn(k) \/ UNCHANGED Contract!vars
    <2>1. /\ rec' = Reconcile(k) /\ k \in executed /\ UNCHANGED <<executed, outbox>>
          /\ Registered(k)
      BY <1>4 DEF Receive, IInv, Flow, Registered
    <2>2. /\ rec'[k].state = "completed"
          /\ \A j \in Key \ {k} : rec'[j].state = rec[j].state
      BY <2>1, ReconcileKeeps DEF IInv, Shape
    <2>3. \A j \in Key : (Registered(j)' <=> Registered(j)) /\ (Completed(j)' <=> Completed(j) \/ j = k)
      BY <2>1, <2>2 DEF Registered, Completed
    <2>4. CASE Completed(k)
      <3>1. Unseen  BY <2>1, <2>3, <2>4 DEF Unseen
      <3> QED  BY <1>1, <3>1
    <2>5. CASE ~Completed(k)
      BY <2>1, <2>3, <2>5 DEF Contract!Learn, Registered, Completed
    <2> QED  BY <2>4, <2>5
  <1>5. ASSUME NEW k \in Key, PhoneInvoke(k)
        PROVE  Contract!Execute(k) \/ UNCHANGED Contract!vars
    <2>1. /\ Registered(k) /\ rec' = rec /\ executed' = executed \cup {k}
          /\ outbox' = IF k \in executed THEN outbox ELSE outbox \cup {k}
          /\ outbox \subseteq executed
      BY <1>5 DEF PhoneInvoke, IInv, Flow
    <2>2. CASE k \in executed  BY <2>1, <2>2, <1>2
    <2>3. CASE k \notin executed
      BY <2>1, <2>3 DEF Contract!Execute, Registered
    <2> QED  BY <2>2, <2>3
  <1>6. ASSUME NEW k \in Key, PhoneAck(k)
        PROVE  Contract!Forget(k) \/ UNCHANGED Contract!vars
    <2>1. /\ Completed(k) /\ k \in executed /\ rec' = rec
          /\ executed' = executed /\ outbox' = outbox \ {k}
      BY <1>6 DEF PhoneAck, IInv, Flow
    <2>2. CASE k \in outbox  BY <2>1, <2>2 DEF Contract!Forget, Completed
    <2>3. CASE k \notin outbox  BY <2>1, <2>3, <1>2
    <2> QED  BY <2>2, <2>3
  <1>7. ASSUME NEW k \in Key, Resend(k) PROVE UNCHANGED Contract!vars
    BY <1>2, <1>7 DEF Resend
  <1>8. CASE InvokeStep
    <2>1. ASSUME NEW c \in Caller, InvokeDrainStart(c) PROVE UNCHANGED Contract!vars
      BY <1>2, <2>1 DEF InvokeDrainStart
    <2>2. ASSUME NEW e \in invokeJob.due, InvokeDrainSend(e) PROVE UNCHANGED Contract!vars
      BY <1>2, <2>2 DEF InvokeDrainSend
    <2>3. CASE QueueSend  BY <1>2, <2>3 DEF QueueSend
    <2> QED  BY <1>1, <1>8, <2>1, <2>2, <2>3, InvokeDrainRecordPreserves, InvokeEndPreserves,
                QueueRecordPreserves, ResendRecordPreserves DEF InvokeStep
  <1>9. CASE AckStep
    <2>1. ASSUME NEW c \in Caller, AckDrainStart(c) PROVE UNCHANGED Contract!vars
      BY <1>2, <2>1 DEF AckDrainStart
    <2>2. ASSUME NEW e \in ackJob.due, AckDrainSend(e) PROVE UNCHANGED Contract!vars
      BY <1>2, <2>2 DEF AckDrainSend
    <2> QED  BY <1>1, <1>9, <2>1, <2>2, AckDrainRecordPreserves, AckEndPreserves DEF AckStep
  <1>10. CASE OtherStep  BY <1>1, <1>10, OtherPreserves
  <1>11. CASE Tick  BY <1>1, <1>11, TickPreserves
  <1>12. CASE InvokeThrows \/ AckThrows \/ Crash  BY <1>1, <1>12, StopPreserves
  <1>13. CASE UNCHANGED vars  BY <1>2, <1>13 DEF vars
  <1> QED
    BY <1>3, <1>4, <1>5, <1>6, <1>7, <1>8, <1>9, <1>10, <1>11, <1>12, <1>13
       DEF Next, OtherStep, Contract!Next

\* The delivery of actions implements ActionContract: no operation runs that was
\* not registered, no result is held before the operation ran, and the phone
\* forgets no result that Chrome does not hold.
THEOREM ImplementsContract == Spec => KeepsContract
  <1>1. Init => Contract!Init
    BY DEF Init, Contract!Init, NoRecord
  <1> QED
    BY <1>1, Inductive, StepKeepsContract, PTL DEF Spec, KeepsContract, Contract!Spec

=============================================================================
