------------------------- MODULE RelayDeliveryProofs -------------------------
(***************************************************************************)
(* Proofs about RelayDelivery for every value of its constants.            *)
(*                                                                         *)
(* NoSilentLoss is not inductive: the step that commits a delivery must    *)
(* know that its effect is durable, and the step that accepts a reset must *)
(* know that every answer recorded in the session reflects the high-water. *)
(* IInv carries both from the frames on the wire, through the tasks, to    *)
(* the cursor store.                                                       *)
(***************************************************************************)
EXTENDS RelayDelivery, TLAPS

\* The cursor never passes the log, nor a reset the log or the cursor.
CursorOK ==
  /\ relayAck <= committed /\ committed <= Len(log)
  /\ required # NoReset => committed <= required /\ required <= Len(log)

\* A recovery session belongs to a pending reset, and what it counts as completed
\* reflects the high-water of that reset.
SessionOK ==
  /\ recovery.req <= nextReq
  /\ recovery.req = 0 => recovery = NoSession
  /\ recovery.req # 0 => required # NoReset
  /\ recovery.completed \subseteq recovery.expected
  /\ \A s \in recovery.completed : covered[s] >= required

\* An answer to the current session was made after its reset was reported.
Answers(req, n) ==
  /\ req \in 1..nextReq
  /\ req = recovery.req => required <= n

FrameOK(f) ==
  /\ f.n <= Len(log)
  /\ f.type = "delivery" => f.n >= 1
  /\ f.type = "manifest" => f.src \in Source /\ Answers(f.req, f.n)

\* Effects are of deliveries made, snapshots of histories that exist.
EffectsOK ==
  /\ applied \subseteq 1..Len(log) /\ waived \subseteq 1..Len(log)
  /\ \A s \in Source : covered[s] <= Len(log)

LinkOK == link.mode = "live" => link.next >= 1
DownOK == \A k \in 1..Len(down) : FrameOK(down[k])
UpOK == \A k \in 1..Len(up) : up[k].n <= committed
RequestsOK == \A r \in requests : r.req \in 1..nextReq

TaskOK(t) ==
  /\ t.pc \in {"deliver", "finish", "commit"} => t.n \in 1..Len(log)
  /\ t.pc = "commit" => t.n \in applied
  /\ t.pc \in {"ack", "resume"} => t.n <= committed
  /\ t.pc \in {"require", "reconcile"} => t.n <= Len(log)
  /\ t.pc \in {"reconcile", "record"} => t.src \in Source /\ Answers(t.req, t.n)
  /\ t.pc = "record" => covered[t.src] >= t.n
  /\ t.pc \in {"advance", "ask"} => t.req \in 1..nextReq

TasksOK == \A t \in tasks : TaskOK(t)

IInv ==
  /\ TypeOK /\ CursorOK /\ SessionOK /\ EffectsOK
  /\ LinkOK /\ DownOK /\ UpOK /\ RequestsOK
  /\ TasksOK /\ NoSilentLoss

-----------------------------------------------------------------------------
(* Sequences.                                                              *)

\* What Append does to a sequence used as a channel or as the log.
LEMMA AppendFacts ==
  ASSUME NEW S, NEW s \in Seq(S), NEW e \in S
  PROVE  /\ Append(s, e) \in Seq(S)
         /\ Len(Append(s, e)) = Len(s) + 1
         /\ \A k \in 1..Len(s) : Append(s, e)[k] = s[k]
         /\ Append(s, e)[Len(s) + 1] = e
  OBVIOUS

\* What Tail does to a channel, and where its Head comes from.
LEMMA TailFacts ==
  ASSUME NEW S, NEW s \in Seq(S), s # <<>>
  PROVE  /\ Tail(s) \in Seq(S)
         /\ Len(s) >= 1 /\ Len(Tail(s)) = Len(s) - 1
         /\ \A k \in 1..Len(Tail(s)) : Tail(s)[k] = s[k + 1]
         /\ Head(s) = s[1] /\ Head(s) \in S
  OBVIOUS

\* Larger is the maximum of two naturals.
LEMMA LargerFacts ==
  ASSUME NEW a \in Int, NEW b \in Int
  PROVE  /\ Larger(a, b) \in {a, b}
         /\ Larger(a, b) >= a /\ Larger(a, b) >= b
  BY DEF Larger

-----------------------------------------------------------------------------
(* What every step does: the durable facts only grow, and a request id that *)
(* is already known keeps its reset or is no longer the session's.          *)

Grow ==
  /\ Len(log) <= Len(log') /\ \A i \in 1..Len(log) : log'[i] = log[i]
  /\ committed <= committed' /\ nextReq <= nextReq'
  /\ applied \subseteq applied' /\ waived \subseteq waived'
  /\ \A s \in Source : covered[s] <= covered'[s]
  /\ \A q \in 1..nextReq : q = recovery'.req => q = recovery.req /\ required' <= required

\* The consequences of TypeOK that arithmetic needs, now and after the step.
Numbers ==
  /\ log \in Seq(Event) /\ Len(log) \in Nat
  /\ committed \in Nat /\ nextReq \in Nat /\ required \in Int
  /\ covered \in [Source -> Nat]
  /\ recovery.req \in Nat

\* The arithmetic part of a well-typed state.
LEMMA TypedNumbers ==
  TypeOK => Numbers
  <1> SUFFICES ASSUME TypeOK PROVE Numbers
    OBVIOUS
  <1>1. log \in Seq(Event)
    BY DEF TypeOK, TypeRelay
  <1>2. Len(log) \in Nat
    BY <1>1
  <1>3. committed \in Nat /\ nextReq \in Nat /\ required \in Int /\ recovery.req \in Nat
    BY DEF TypeOK, TypeCursor, TypeRest, NoReset, Session
  <1>4. covered \in [Source -> Nat]
    BY DEF TypeOK, TypeEffects
  <1> QED  BY <1>1, <1>2, <1>3, <1>4 DEF Numbers

\* The same after the step.
LEMMA TypedNumbersNext ==
  TypeOK' => Numbers'
  BY TypedNumbers, PTL

\* An answer stays an answer.
LEMMA AnswersStable ==
  ASSUME Numbers, Numbers', Grow, NEW q \in Nat, NEW n \in Nat, Answers(q, n)
  PROVE  Answers(q, n)'
  BY DEF Grow, Answers, Numbers

\* A task's facts survive a step of anybody.
LEMMA TaskStable ==
  ASSUME Numbers, Numbers', Grow, NEW t \in Task, TaskOK(t)
  PROVE  TaskOK(t)'
  <1>1. t.n \in Nat /\ t.req \in Nat
    BY DEF Task
  <1>3. Answers(t.req, t.n) => Answers(t.req, t.n)'
    BY <1>1, AnswersStable
  <1>4. t.src \in Source /\ covered[t.src] >= t.n => covered'[t.src] >= t.n
    BY <1>1 DEF Grow, Numbers
  <1> QED  BY <1>1, <1>3, <1>4 DEF Grow, TaskOK, Numbers

\* So do the facts about a frame on its way to the extension.
LEMMA FrameStable ==
  ASSUME Numbers, Numbers', Grow, NEW f \in DownFrame, FrameOK(f)
  PROVE  FrameOK(f)'
  <1>1. f.n \in Nat /\ f.req \in Nat
    BY DEF DownFrame
  <1>2. Answers(f.req, f.n) => Answers(f.req, f.n)'
    BY <1>1, AnswersStable
  <1> QED  BY <1>1, <1>2 DEF Grow, FrameOK, Numbers

\* A fate once settled stays settled.
LEMMA SettledStable ==
  ASSUME Numbers, Numbers', Grow, NEW i \in 1..Len(log), i \in Settled
  PROVE  i \in Settled'
  <1>1. i \in 1..Len(log') /\ log[i] \in Event /\ log'[i] = log[i]
    BY DEF Grow, Numbers
  <1>2. CASE i \in applied \/ i \in waived
    BY <1>1, <1>2 DEF Grow, Settled, SettledBy
  <1>3. CASE log[i].kind = "notification" /\ i <= covered[log[i].src]
    <2>1. log[i].src \in Source /\ log[i].src = log'[i].src /\ log'[i].kind = "notification"
      BY <1>1, <1>3 DEF Event
    <2>2. i <= covered'[log'[i].src]
      BY <2>1, <1>3 DEF Grow, Numbers
    <2> QED  BY <1>1, <2>1, <2>2 DEF Settled, SettledBy
  <1> QED  BY <1>2, <1>3 DEF Settled, SettledBy

-----------------------------------------------------------------------------
(* What a step adds, and why the rest of the invariant follows.             *)

FreshTasks == \A u \in tasks' : u \in tasks \/ TaskOK(u)'
FreshDown ==
  \A k \in 1..Len(down') : (\E j \in 1..Len(down) : down'[k] = down[j]) \/ FrameOK(down[k])'
FreshUp ==
  \A k \in 1..Len(up') : (\E j \in 1..Len(up) : up'[k] = up[j]) \/ up'[k].n <= committed'
FreshRequests == \A r \in requests' : r \in requests \/ r.req \in 1..nextReq'
FreshCommits == \A i \in (committed + 1)..committed' : i \in Settled'

\* A step that grows the durable facts, and adds only what is in order, keeps the
\* whole invariant.
LEMMA Assemble ==
  ASSUME IInv, TypeOK', Grow, CursorOK', SessionOK', EffectsOK', LinkOK',
         FreshTasks, FreshDown, FreshUp, FreshRequests, FreshCommits
  PROVE  IInv'
  <1>1. Numbers /\ Numbers'
    BY TypedNumbers, TypedNumbersNext DEF IInv
  <1>2. TasksOK'
    <2> SUFFICES ASSUME NEW u \in tasks' PROVE TaskOK(u)'
      BY DEF TasksOK
    <2> CASE u \in tasks
      BY <1>1, TaskStable DEF IInv, TypeOK, TypeTasks, TasksOK
    <2> QED  BY DEF FreshTasks
  <1>3. DownOK'
    <2> SUFFICES ASSUME NEW k \in 1..Len(down') PROVE FrameOK(down[k])'
      BY DEF DownOK
    <2>1. CASE \E j \in 1..Len(down) : down'[k] = down[j]
      <3>1. PICK j \in 1..Len(down) : down'[k] = down[j]
        BY <2>1
      <3>2. down[j] \in DownFrame /\ FrameOK(down[j])
        BY <3>1 DEF IInv, TypeOK, TypeNet, DownOK
      <3> QED  BY <1>1, <3>1, <3>2, FrameStable
    <2> QED  BY <2>1 DEF FreshDown
  <1>4. UpOK'
    <2> SUFFICES ASSUME NEW k \in 1..Len(up') PROVE up'[k].n <= committed'
      BY DEF UpOK
    <2>1. CASE \E j \in 1..Len(up) : up'[k] = up[j]
      <3>1. PICK j \in 1..Len(up) : up'[k] = up[j]
        BY <2>1
      <3>2. up[j].n \in Nat /\ up[j].n <= committed
        <4>1. up \in Seq(UpFrame) /\ UpOK
          BY DEF IInv, TypeOK, TypeNet
        <4>2. up[j] \in UpFrame
          BY <4>1
        <4> QED  BY <4>1, <4>2 DEF UpOK, UpFrame
      <3>3. committed \in Nat /\ committed' \in Nat /\ committed <= committed'
        BY <1>1 DEF Grow, Numbers
      <3> QED  BY <3>1, <3>2, <3>3
    <2> QED  BY <2>1 DEF FreshUp
  <1>5. RequestsOK'
    BY <1>1 DEF IInv, RequestsOK, FreshRequests, Grow, Numbers
  <1>6. NoSilentLoss'
    <2> SUFFICES ASSUME NEW i \in 1..committed' PROVE i \in Settled'
      BY DEF NoSilentLoss
    <2>1. CASE i <= committed
      <3>1. i \in 1..Len(log) /\ i \in Settled
        BY <1>1, <2>1 DEF IInv, NoSilentLoss, CursorOK, Numbers
      <3> QED  BY <1>1, <3>1, SettledStable
    <2>2. CASE i > committed
      BY <1>1, <2>2 DEF FreshCommits, Numbers
    <2> QED  BY <1>1, <2>1, <2>2 DEF Numbers
  <1> QED  BY <1>2, <1>3, <1>4, <1>5, <1>6 DEF IInv

\* What a step leaves alone.
LEMMA Unchanged ==
  /\ TypeRelay /\ UNCHANGED relayVars => TypeRelay'
  /\ TypeNet /\ UNCHANGED netVars => TypeNet'
  /\ TypeConn /\ UNCHANGED connVars => TypeConn'
  /\ TypeTasks /\ UNCHANGED tasks => TypeTasks'
  /\ TypeCursor /\ UNCHANGED cursorVars => TypeCursor'
  /\ TypeEffects /\ UNCHANGED effectVars => TypeEffects'
  /\ UNCHANGED tasks => FreshTasks
  /\ UNCHANGED down => FreshDown
  /\ UNCHANGED up => FreshUp
  /\ UNCHANGED requests => FreshRequests
  /\ LinkOK /\ UNCHANGED link => LinkOK'
  <1>1. TypeRelay /\ UNCHANGED relayVars => TypeRelay'
    BY DEF TypeRelay, relayVars
  <1>2. TypeNet /\ UNCHANGED netVars => TypeNet'
    BY DEF TypeNet, netVars
  <1>3. TypeConn /\ UNCHANGED connVars => TypeConn'
    BY DEF TypeConn, connVars
  <1>4. TypeCursor /\ UNCHANGED cursorVars => TypeCursor'
    BY DEF TypeCursor, cursorVars
  <1>5. TypeEffects /\ UNCHANGED effectVars => TypeEffects'
    BY DEF TypeEffects, effectVars
  <1>6. UNCHANGED down => FreshDown
    BY DEF FreshDown
  <1>7. UNCHANGED up => FreshUp
    BY DEF FreshUp
  <1> QED  BY <1>1, <1>2, <1>3, <1>4, <1>5, <1>6, <1>7
           DEF TypeTasks, FreshTasks, FreshRequests, LinkOK

\* A step that touches neither the log nor anything durable here.
Quiet == UNCHANGED <<log, committed, required, recovery, applied, covered, waived, nextReq>>

\* A step that only grows the durable facts keeps what is on the wire and in tasks.
LEMMA QuietStep ==
  ASSUME IInv, TypeOK', Quiet, relayAck' <= committed, LinkOK',
         FreshTasks, FreshDown, FreshUp, FreshRequests
  PROVE  IInv'
  <1>1. Numbers
    BY TypedNumbers DEF IInv
  <1>2. Grow
    BY <1>1 DEF Quiet, Grow, Numbers
  <1>3. CursorOK' /\ SessionOK' /\ EffectsOK'
    BY DEF IInv, CursorOK, SessionOK, EffectsOK, Quiet
  <1>4. FreshCommits
    BY <1>1 DEF FreshCommits, Quiet, Numbers
  <1> QED  BY <1>2, <1>3, <1>4, Assemble

\* What a task becomes.
LEMMA ContinueStep ==
  ASSUME TypeTasks, NEW t, NEW ts, Continue(t, ts), \A u \in ts : u \in Task /\ TaskOK(u)'
  PROVE  TypeTasks' /\ FreshTasks
  BY DEF Continue, TypeTasks, FreshTasks

\* An empty channel, after a connection ended or before one is live.
LEMMA Cleared ==
  ASSUME down' = <<>>, up' = <<>>, link'.mode # "live",
         link' \in [mode : {"idle", "open", "live", "reset"}, next : Nat, marked : BOOLEAN]
  PROVE  TypeNet' /\ LinkOK' /\ FreshDown /\ FreshUp
  <1>1. TypeNet'
    BY DEF TypeNet
  <1>2. FreshDown
    BY DEF FreshDown
  <1>3. FreshUp
    BY DEF FreshUp
  <1> QED  BY <1>1, <1>2, <1>3 DEF LinkOK

\* With both channels empty there is no frame to vouch for.
LEMMA Emptied ==
  ASSUME Disconnected
  PROVE  TypeNet' /\ LinkOK' /\ FreshDown /\ FreshUp /\ sock' = "closed"
  BY Cleared DEF Disconnected, Idle

\* A task that throws may take its connection along, nothing else.
LEMMA ThrowStep ==
  ASSUME TypeNet, TypeConn, TypeTasks, LinkOK, NEW t, Throw(t)
  PROVE  TypeNet' /\ TypeConn' /\ TypeTasks' /\ LinkOK' /\ FreshTasks /\ FreshDown /\ FreshUp
  <1>1. TypeTasks' /\ FreshTasks
    <2>1. Continue(t, {})
      BY DEF Throw
    <2> QED  BY <2>1, ContinueStep
  <1>2. gen' = gen
    BY DEF Throw
  <1>3. CASE t.owner = "inbound" /\ t.gen = gen
    <2>1. Disconnected /\ halted' = halted
      BY <1>3 DEF Throw
    <2> QED  BY <1>1, <1>2, <2>1, Emptied DEF TypeConn
  <1>4. CASE ~(t.owner = "inbound" /\ t.gen = gen) /\ t.owner \in {"begin", "alarm"}
    <2>1. Disconnected /\ halted' \in BOOLEAN
      BY <1>4 DEF Throw, Authenticated, TypeConn
    <2> QED  BY <1>1, <1>2, <2>1, Emptied DEF TypeConn
  <1>5. CASE ~(t.owner = "inbound" /\ t.gen = gen) /\ t.owner \notin {"begin", "alarm"}
    <2>1. UNCHANGED <<sock, link, down, up, halted>>
      BY <1>5 DEF Throw
    <2> QED  BY <1>1, <1>2, <2>1, Unchanged DEF TypeConn, netVars
  <1> QED  BY <1>3, <1>4, <1>5

-----------------------------------------------------------------------------
(* The relay and the sources.                                              *)

\* One frame more for the extension.
LEMMA SendDown ==
  ASSUME TypeNet, NEW f \in DownFrame, down' = Append(down, f), f.n <= Len(log'),
         f.type = "delivery" => f.n >= 1,
         f.type = "manifest" => /\ f.src \in Source /\ f.req \in 1..nextReq'
                                /\ f.req = recovery'.req => required' <= f.n
  PROVE  down' \in Seq(DownFrame) /\ FreshDown
  <1>1. down \in Seq(DownFrame)
    BY DEF TypeNet
  <1>2. /\ down' \in Seq(DownFrame) /\ Len(down') = Len(down) + 1
        /\ \A k \in 1..Len(down) : down'[k] = down[k]
        /\ down'[Len(down) + 1] = f
    BY <1>1, AppendFacts
  <1>3. ASSUME NEW k \in 1..Len(down')
        PROVE  (\E j \in 1..Len(down) : down'[k] = down[j]) \/ FrameOK(down[k])'
    <2>1. CASE k \in 1..Len(down)
      BY <1>2, <2>1
    <2>2. CASE k = Len(down) + 1
      <3>1. FrameOK(f)'
        BY DEF FrameOK, Answers
      <3> QED  BY <1>2, <2>2, <3>1
    <2> QED  BY <1>1, <1>2, <2>1, <2>2
  <1> QED  BY <1>2, <1>3 DEF FreshDown

\* One frame more for the relay.
LEMMA SendUp ==
  ASSUME TypeNet, NEW f \in UpFrame, f.n <= committed', up' = Append(up, f)
  PROVE  up' \in Seq(UpFrame) /\ FreshUp
  <1>1. up \in Seq(UpFrame)
    BY DEF TypeNet
  <1>2. /\ up' \in Seq(UpFrame) /\ Len(up') = Len(up) + 1
        /\ \A k \in 1..Len(up) : up'[k] = up[k]
        /\ up'[Len(up) + 1] = f
    BY <1>1, AppendFacts
  <1>3. ASSUME NEW k \in 1..Len(up')
        PROVE  (\E j \in 1..Len(up) : up'[k] = up[j]) \/ up'[k].n <= committed'
    <2>1. CASE k \in 1..Len(up)
      BY <1>2, <2>1
    <2>2. CASE k = Len(up) + 1
      BY <1>2, <2>2
    <2> QED  BY <1>1, <1>2, <2>1, <2>2
  <1> QED  BY <1>2, <1>3 DEF FreshUp

\* The relay takes the oldest frame.
LEMMA ReceiveUp ==
  ASSUME TypeNet, UpOK, up # <<>>, up' = Tail(up)
  PROVE  /\ up' \in Seq(UpFrame) /\ FreshUp
         /\ Head(up) \in UpFrame /\ Head(up).n <= committed
  <1>1. up \in Seq(UpFrame)
    BY DEF TypeNet
  <1>2. /\ up' \in Seq(UpFrame) /\ Len(up) >= 1 /\ Len(up') = Len(up) - 1
        /\ \A k \in 1..Len(up') : up'[k] = up[k + 1]
        /\ Head(up) = up[1] /\ Head(up) \in UpFrame
    BY <1>1, TailFacts
  <1>3. Len(up) \in Nat
    BY <1>1
  <1>4. Head(up).n <= committed
    BY <1>2, <1>3 DEF UpOK
  <1>5. ASSUME NEW k \in 1..Len(up')
        PROVE  \E j \in 1..Len(up) : up'[k] = up[j]
    BY <1>2, <1>3
  <1> QED  BY <1>2, <1>4, <1>5 DEF FreshUp

\* A new id lies beyond everything the invariant speaks of.
LEMMA SubmitKeeps ==
  ASSUME IInv, NEW e \in Event, Submit(e)
  PROVE  IInv'
  <1>1. Numbers
    BY TypedNumbers DEF IInv
  <1>2. /\ log' \in Seq(Event) /\ Len(log') = Len(log) + 1
        /\ \A i \in 1..Len(log) : log'[i] = log[i]
    BY <1>1, AppendFacts DEF Submit, Numbers
  <1>3. UNCHANGED <<evicted, relayAck, evictions, netVars, requests, roster, connVars,
                    tasks, cursorVars, effectVars, nextReq, faults, revocations, alarms>>
    BY DEF Submit
  <1>4. TypeOK'
    BY <1>2, <1>3, Unchanged DEF IInv, TypeOK, TypeRelay, TypeTasks, TypeRest
  <1>5. Grow /\ FreshCommits
    BY <1>1, <1>2, <1>3 DEF Grow, FreshCommits, Numbers, cursorVars, effectVars
  <1>6. CursorOK' /\ SessionOK'
    BY <1>1, <1>2, <1>3 DEF IInv, CursorOK, SessionOK, cursorVars, effectVars, Numbers
  <1>7. LinkOK' /\ FreshTasks /\ FreshDown /\ FreshUp /\ FreshRequests
    BY <1>3, Unchanged DEF IInv, netVars
  <1>8. EffectsOK'
    BY <1>1, <1>2, <1>3 DEF IInv, EffectsOK, Numbers, effectVars
  <1> QED  BY <1>4, <1>5, <1>6, <1>7, <1>8, Assemble

\* Eviction is the relay's own affair.
LEMMA EvictKeeps ==
  ASSUME IInv, Evict
  PROVE  IInv'
  <1>1. TypeRelay'
    BY DEF IInv, TypeOK, TypeRelay, Evict, Larger
  <1>2. TypeOK'
    BY <1>1, Unchanged DEF IInv, TypeOK, Evict, TypeTasks, TypeRest
  <1>3. Quiet /\ relayAck' <= committed
    BY DEF Evict, Quiet, cursorVars, effectVars, IInv, CursorOK
  <1>4. LinkOK' /\ FreshTasks /\ FreshDown /\ FreshUp /\ FreshRequests
    BY Unchanged DEF IInv, Evict, netVars
  <1> QED  BY <1>2, <1>3, <1>4, QuietStep

\* SNC1 carries a committed id; a reset reports the whole log.
LEMMA RelayResumeKeeps ==
  ASSUME IInv, RelayResume
  PROVE  IInv'
  <1> DEFINE from == Larger(Head(up).n, relayAck)
  <1>1. Numbers /\ TypeNet /\ UpOK /\ TypeRelay /\ relayAck \in Nat
    BY TypedNumbers DEF IInv, TypeOK, TypeRelay
  <1>2. up' \in Seq(UpFrame) /\ FreshUp /\ Head(up).n \in Nat /\ Head(up).n <= committed
    BY <1>1, ReceiveUp DEF RelayResume, UpFrame
  <1>3. from \in Nat /\ from <= committed
    <2>1. relayAck <= committed
      BY DEF IInv, CursorOK
    <2> QED  BY <1>1, <1>2, <2>1, LargerFacts
  <1>4. /\ relayAck' = from
        /\ UNCHANGED <<log, evicted, evictions, requests, roster, connVars, tasks,
                       cursorVars, effectVars, nextReq, faults, revocations, alarms>>
    BY DEF RelayResume
  <1>5. /\ link' \in [mode : {"idle", "open", "live", "reset"}, next : Nat, marked : BOOLEAN]
        /\ LinkOK' /\ down' \in Seq(DownFrame) /\ FreshDown
    <2>1. CASE from < evicted
      <3> DEFINE f == Frame("reset", Len(log), None, 0)
      <3>1. /\ down' = Append(down, f)
            /\ link' = [mode |-> "reset", next |-> 0, marked |-> FALSE]
        BY <2>1 DEF RelayResume
      <3>2. f \in DownFrame /\ f.n <= Len(log') /\ f.type = "reset"
        BY <1>1, <1>4 DEF Frame, DownFrame, Numbers
      <3> HIDE DEF f
      <3> QED  BY <1>1, <3>1, <3>2, SendDown DEF LinkOK
    <2>2. CASE ~(from < evicted)
      <3>1. /\ down' = down
            /\ link' = [mode |-> "live", next |-> from + 1, marked |-> FALSE]
        BY <2>2 DEF RelayResume
      <3> QED  BY <1>1, <1>3, <3>1, Unchanged DEF LinkOK, TypeNet
    <2> QED  BY <2>1, <2>2
  <1>6. TypeOK'
    BY <1>1, <1>2, <1>3, <1>4, <1>5, Unchanged
       DEF IInv, TypeOK, TypeRelay, TypeNet, TypeTasks, TypeRest
  <1>7. Quiet /\ relayAck' <= committed
    BY <1>3, <1>4 DEF Quiet, cursorVars, effectVars
  <1> QED  BY <1>2, <1>4, <1>5, <1>6, <1>7, Unchanged, QuietStep

\* SNC2 carries a committed id.
LEMMA RelayAcknowledgeKeeps ==
  ASSUME IInv, RelayAcknowledge
  PROVE  IInv'
  <1>1. Numbers /\ TypeNet /\ UpOK /\ TypeRelay /\ relayAck \in Nat
    BY TypedNumbers DEF IInv, TypeOK, TypeRelay
  <1>2. up' \in Seq(UpFrame) /\ FreshUp /\ Head(up).n \in Nat /\ Head(up).n <= committed
    BY <1>1, ReceiveUp DEF RelayAcknowledge, UpFrame
  <1>3. relayAck' \in Nat /\ relayAck' <= committed
    <2>1. relayAck <= committed /\ relayAck' = Larger(Head(up).n, relayAck)
      BY DEF IInv, CursorOK, RelayAcknowledge
    <2> QED  BY <1>1, <1>2, <2>1, LargerFacts
  <1>4. UNCHANGED <<log, evicted, evictions, link, down, requests, roster, connVars, tasks,
                    cursorVars, effectVars, nextReq, faults, revocations, alarms>>
    BY DEF RelayAcknowledge
  <1>5. TypeOK'
    BY <1>1, <1>2, <1>3, <1>4, Unchanged
       DEF IInv, TypeOK, TypeRelay, TypeNet, TypeTasks, TypeRest
  <1>6. Quiet
    BY <1>4 DEF Quiet, cursorVars, effectVars
  <1>7. LinkOK' /\ FreshTasks /\ FreshDown /\ FreshRequests
    BY <1>4, Unchanged DEF IInv
  <1> QED  BY <1>2, <1>3, <1>5, <1>6, <1>7, QuietStep

\* A delivery is of an id in the log, or a reset of all of it.
LEMMA RelayDeliverKeeps ==
  ASSUME IInv, RelayDeliver
  PROVE  IInv'
  <1>1. Numbers /\ TypeNet /\ TypeRelay /\ LinkOK
    BY TypedNumbers DEF IInv, TypeOK
  <1>2. UNCHANGED <<relayVars, up, requests, roster, connVars, tasks,
                    cursorVars, effectVars, nextReq, faults, revocations, alarms>>
    BY DEF RelayDeliver
  <1>3. link.next \in Nat /\ link.next >= 1 /\ link.next <= Len(log)
    BY <1>1 DEF RelayDeliver, LinkOK, TypeNet
  <1>4. PICK f \in DownFrame :
          /\ down' = Append(down, f)
          /\ f.type # "manifest" /\ f.n <= Len(log')
          /\ f.type = "delivery" => f.n >= 1
    <2>1. CASE link.next > evicted
      BY <1>1, <1>2, <1>3, <2>1 DEF RelayDeliver, Frame, DownFrame, relayVars
    <2>2. CASE ~(link.next > evicted)
      BY <1>1, <1>2, <2>2 DEF RelayDeliver, Frame, DownFrame, relayVars, Numbers
    <2> QED  BY <2>1, <2>2
  <1>5. down' \in Seq(DownFrame) /\ FreshDown
    BY <1>1, <1>4, SendDown
  <1>6. link' \in [mode : {"idle", "open", "live", "reset"}, next : Nat, marked : BOOLEAN]
        /\ LinkOK'
    BY <1>1, <1>3 DEF RelayDeliver, TypeNet, LinkOK
  <1>7. TypeOK'
    BY <1>1, <1>2, <1>5, <1>6, Unchanged
       DEF IInv, TypeOK, TypeNet, TypeTasks, TypeRest
  <1>8. Quiet /\ relayAck' <= committed
    BY <1>2 DEF Quiet, relayVars, cursorVars, effectVars, IInv, CursorOK
  <1>9. FreshTasks /\ FreshUp /\ FreshRequests
    BY <1>2, Unchanged
  <1> QED  BY <1>5, <1>6, <1>7, <1>8, <1>9, QuietStep

\* A marker names the end of the log.
LEMMA RelayCaughtUpKeeps ==
  ASSUME IInv, RelayCaughtUp
  PROVE  IInv'
  <1>1. Numbers /\ TypeNet /\ LinkOK
    BY TypedNumbers DEF IInv, TypeOK
  <1>2. UNCHANGED <<relayVars, up, requests, roster, connVars, tasks,
                    cursorVars, effectVars, nextReq, faults, revocations, alarms>>
    BY DEF RelayCaughtUp
  <1>3. PICK f \in DownFrame :
          down' = Append(down, f) /\ f.type = "caughtup" /\ f.n <= Len(log')
    BY <1>1, <1>2 DEF RelayCaughtUp, Frame, DownFrame, relayVars, Numbers
  <1>4. down' \in Seq(DownFrame) /\ FreshDown
    BY <1>1, <1>3, SendDown
  <1>5. link' \in [mode : {"idle", "open", "live", "reset"}, next : Nat, marked : BOOLEAN]
        /\ LinkOK'
    BY <1>1 DEF RelayCaughtUp, TypeNet, LinkOK
  <1>6. TypeOK'
    BY <1>1, <1>2, <1>4, <1>5, Unchanged
       DEF IInv, TypeOK, TypeNet, TypeTasks, TypeRest
  <1>7. Quiet /\ relayAck' <= committed
    BY <1>2 DEF Quiet, relayVars, cursorVars, effectVars, IInv, CursorOK
  <1>8. FreshTasks /\ FreshUp /\ FreshRequests
    BY <1>2, Unchanged
  <1> QED  BY <1>4, <1>5, <1>6, <1>7, <1>8, QuietStep

\* An answer is made with the whole log in view, so it reflects any reset reported.
LEMMA SourceAnswerKeeps ==
  ASSUME IInv, NEW r \in requests, SourceAnswer(r)
  PROVE  IInv'
  <1>1. Numbers /\ TypeNet /\ LinkOK /\ r.src \in Source /\ r.req \in 1..nextReq
    BY TypedNumbers DEF IInv, TypeOK, TypeRest, RequestsOK
  <1>2. UNCHANGED <<relayVars, link, up, roster, connVars, tasks,
                    cursorVars, effectVars, nextReq, faults, revocations, alarms>>
        /\ requests' \subseteq requests
    BY DEF SourceAnswer
  <1>3. required' <= Len(log') /\ nextReq' = nextReq /\ Len(log') \in Nat
    BY <1>1, <1>2 DEF IInv, CursorOK, Numbers, NoReset, relayVars, cursorVars
  <1>4. down' \in Seq(DownFrame) /\ FreshDown
    <2>1. CASE link.mode = "idle"
      BY <1>1, <2>1, Unchanged DEF SourceAnswer, TypeNet
    <2>2. CASE link.mode # "idle"
      <3>1. PICK f \in DownFrame :
              /\ down' = Append(down, f) /\ f.type = "manifest"
              /\ f.n = Len(log') /\ f.src = r.src /\ f.req = r.req
        <4>1. Frame("manifest", Len(log), r.src, r.req) \in DownFrame
          BY <1>1 DEF Frame, DownFrame, Numbers
        <4>2. log' = log /\ down' = Append(down, Frame("manifest", Len(log), r.src, r.req))
          BY <1>2, <2>2 DEF SourceAnswer, relayVars
        <4> QED  BY <4>1, <4>2 DEF Frame
      <3> QED  BY <1>1, <1>3, <3>1, SendDown
    <2> QED  BY <2>1, <2>2
  <1>5. TypeOK'
    BY <1>1, <1>2, <1>4, Unchanged
       DEF IInv, TypeOK, TypeNet, TypeTasks, TypeRest
  <1>6. Quiet /\ relayAck' <= committed
    BY <1>2 DEF Quiet, relayVars, cursorVars, effectVars, IInv, CursorOK
  <1>7. FreshTasks /\ FreshUp /\ FreshRequests /\ LinkOK'
    BY <1>1, <1>2, Unchanged DEF FreshRequests
  <1> QED  BY <1>4, <1>5, <1>6, <1>7, QuietStep

\* Revocation unmakes no answer.
LEMMA RevokeKeeps ==
  ASSUME IInv, NEW s \in Source, Revoke(s)
  PROVE  IInv'
  <1>1. TypeRest'
    BY DEF IInv, TypeOK, TypeRest, Revoke
  <1>2. TypeOK'
    BY <1>1, Unchanged DEF IInv, TypeOK, Revoke, TypeTasks
  <1>3. Quiet /\ relayAck' <= committed
    BY DEF Revoke, Quiet, relayVars, cursorVars, effectVars, IInv, CursorOK
  <1>4. LinkOK' /\ FreshTasks /\ FreshDown /\ FreshUp /\ FreshRequests
    BY Unchanged DEF IInv, Revoke, netVars
  <1> QED  BY <1>2, <1>3, <1>4, QuietStep

-----------------------------------------------------------------------------
(* Connections.                                                            *)

\* A new connection starts with empty channels.
LEMMA ConnectKeeps ==
  ASSUME IInv, ScheduledConnect \/ UserConnect
  PROVE  IInv'
  <1>1. StartConnection /\ faults' \in Nat
    BY DEF ScheduledConnect, UserConnect, IInv, TypeOK, TypeRest
  <1>2. down' = <<>> /\ up' = <<>> /\ link' = [Idle EXCEPT !.mode = "open"]
        /\ gen' = gen + 1 /\ sock' = "opening" /\ halted' = FALSE
        /\ UNCHANGED <<relayVars, tasks, requests, roster, cursorVars, effectVars,
                       nextReq, revocations, alarms>>
    BY <1>1 DEF StartConnection
  <1>3. TypeNet' /\ LinkOK' /\ FreshDown /\ FreshUp
    BY <1>2, Cleared DEF Idle
  <1>4. TypeOK'
    <2>1. TypeConn'
      <3>1. gen \in Nat /\ gen' = gen + 1 /\ sock' = "opening" /\ halted' = FALSE
        BY <1>1 DEF IInv, TypeOK, TypeConn, StartConnection
      <3>2. gen' \in Nat
        BY <3>1
      <3>3. halted' \in BOOLEAN
        BY <3>1
      <3> QED  BY <3>1, <3>2, <3>3 DEF TypeConn
    <2>2. TypeRest'
      BY <1>1, <1>2 DEF IInv, TypeOK, TypeRest
    <2> QED  BY <1>2, <1>3, <2>1, <2>2, Unchanged DEF IInv, TypeOK
  <1>5. Quiet /\ relayAck' <= committed
    BY <1>2 DEF Quiet, relayVars, cursorVars, effectVars, IInv, CursorOK
  <1> QED  BY <1>2, <1>3, <1>4, <1>5, Unchanged, QuietStep

\* The first SNC1 carries the durable cursor.
LEMMA AuthenticateKeeps ==
  ASSUME IInv, Authenticate
  PROVE  IInv'
  <1>1. TypeNet /\ committed \in Nat /\ TypeTasks
    BY DEF IInv, TypeOK, TypeCursor
  <1>2. UNCHANGED <<relayVars, link, down, requests, roster, gen, halted, cursorVars,
                    effectVars, nextReq, faults, revocations, alarms>>
        /\ sock' = "authenticated"
    BY DEF Authenticate
  <1>3. PICK f \in UpFrame : up' = Append(up, f) /\ f.n <= committed'
    BY <1>1, <1>2 DEF Authenticate, UpFrame, cursorVars
  <1>4. up' \in Seq(UpFrame) /\ FreshUp
    BY <1>1, <1>3, SendUp
  <1>5. NewTask("retry", 0, "load", 0) \in Task
    BY DEF NewTask, Task, Owner, Pc
  <1>6. TypeTasks' /\ FreshTasks
    <2>1. ASSUME NEW u \in tasks', u \notin tasks PROVE TaskOK(u)'
      BY <2>1 DEF Authenticate, NewTask, TaskOK
    <2> QED  BY <1>1, <1>5, <2>1 DEF Authenticate, TypeTasks, FreshTasks
  <1>7. TypeOK'
    BY <1>1, <1>2, <1>4, <1>6, Unchanged
       DEF IInv, TypeOK, TypeNet, TypeConn, TypeRest
  <1>8. Quiet /\ relayAck' <= committed
    BY <1>2 DEF Quiet, relayVars, cursorVars, effectVars, IInv, CursorOK
  <1>9. FreshDown /\ FreshRequests /\ LinkOK'
    BY <1>2, Unchanged DEF IInv
  <1> QED  BY <1>4, <1>6, <1>7, <1>8, <1>9, QuietStep

\* A lost connection takes its frames along.
LEMMA DropKeeps ==
  ASSUME IInv, Drop
  PROVE  IInv'
  <1>1. Disconnected /\ faults' \in Nat
        /\ UNCHANGED <<relayVars, requests, roster, gen, halted, tasks, cursorVars,
                       effectVars, nextReq, revocations, alarms>>
    BY DEF Drop, IInv, TypeOK, TypeRest
  <1>2. TypeOK'
    BY <1>1, Emptied, Unchanged DEF IInv, TypeOK, TypeConn, TypeRest
  <1>3. Quiet /\ relayAck' <= committed
    BY <1>1 DEF Quiet, relayVars, cursorVars, effectVars, IInv, CursorOK
  <1> QED  BY <1>1, <1>2, <1>3, Emptied, Unchanged, QuietStep

\* A stopped worker forgets tasks and frames, nothing durable.
LEMMA CrashKeeps ==
  ASSUME IInv, Crash
  PROVE  IInv'
  <1>1. Disconnected /\ faults' \in Nat /\ tasks' = {} /\ halted' = FALSE
        /\ UNCHANGED <<relayVars, requests, roster, gen, cursorVars,
                       effectVars, nextReq, revocations, alarms>>
    BY DEF Crash, IInv, TypeOK, TypeRest
  <1>2. TypeOK' /\ FreshTasks
    BY <1>1, Emptied, Unchanged DEF IInv, TypeOK, TypeConn, TypeTasks, TypeRest, FreshTasks
  <1>3. Quiet /\ relayAck' <= committed
    BY <1>1 DEF Quiet, relayVars, cursorVars, effectVars, IInv, CursorOK
  <1> QED  BY <1>1, <1>2, <1>3, Emptied, Unchanged, QuietStep

\* Whatever branch a task fails in, failing keeps the invariant.
LEMMA ThrowKeeps ==
  ASSUME IInv, NEW t, Throw(t), faults' \in Nat,
         UNCHANGED <<relayVars, requests, roster, cursorVars, effectVars,
                     nextReq, revocations, alarms>>
  PROVE  IInv'
  <1>1. TypeNet' /\ TypeConn' /\ TypeTasks' /\ LinkOK' /\ FreshTasks /\ FreshDown /\ FreshUp
    BY ThrowStep DEF IInv, TypeOK
  <1>2. TypeOK'
    BY <1>1, Unchanged DEF IInv, TypeOK, TypeRest
  <1>3. Quiet /\ relayAck' <= committed
    BY DEF Quiet, relayVars, cursorVars, effectVars, IInv, CursorOK
  <1> QED  BY <1>1, <1>2, <1>3, Unchanged, QuietStep

\* A failing step is a throw.
LEMMA LocalFailureKeeps ==
  ASSUME IInv, NEW t \in tasks, LocalFailure(t)
  PROVE  IInv'
  BY ThrowKeeps DEF LocalFailure, IInv, TypeOK, TypeRest

-----------------------------------------------------------------------------
(* The inbound queue.                                                      *)

\* What the invariant says of one task.
LEMMA TaskFacts ==
  ASSUME IInv, NEW t \in tasks
  PROVE  t \in Task /\ TaskOK(t) /\ t.n \in Nat /\ t.req \in Nat
  BY DEF IInv, TypeOK, TypeTasks, TasksOK, Task

\* A task that only goes on.
LEMMA QuietContinue ==
  ASSUME IInv, NEW t, NEW ts, Continue(t, ts), \A u \in ts : u \in Task /\ TaskOK(u)',
         UNCHANGED <<relayVars, netVars, requests, roster, connVars, cursorVars, effectVars,
                     nextReq, faults, revocations, alarms>>
  PROVE  IInv'
  <1>1. TypeTasks' /\ FreshTasks
    BY ContinueStep DEF IInv, TypeOK
  <1>2. TypeOK'
    BY <1>1, Unchanged DEF IInv, TypeOK, TypeRest
  <1>3. Quiet /\ relayAck' <= committed
    BY DEF Quiet, relayVars, cursorVars, effectVars, IInv, CursorOK
  <1>4. LinkOK' /\ FreshDown /\ FreshUp /\ FreshRequests
    BY Unchanged DEF IInv, netVars
  <1> QED  BY <1>1, <1>2, <1>3, <1>4, QuietStep

\* What held of the frame holds of the task that takes it up.
LEMMA NextFrameKeeps ==
  ASSUME IInv, NextFrame
  PROVE  IInv'
  <1>1. UNCHANGED <<relayVars, link, up, requests, roster, connVars, cursorVars,
                    effectVars, nextReq, faults, revocations, alarms>>
    BY DEF NextFrame
  <1>2. down \in Seq(DownFrame) /\ down # <<>> /\ down' = Tail(down)
    BY DEF NextFrame, IInv, TypeOK, TypeNet
  <1>3. /\ down' \in Seq(DownFrame) /\ Len(down) >= 1 /\ Len(down') = Len(down) - 1
        /\ \A k \in 1..Len(down') : down'[k] = down[k + 1]
        /\ Head(down) = down[1] /\ Head(down) \in DownFrame
    BY <1>2, TailFacts
  <1>4. FreshDown
    BY <1>2, <1>3 DEF FreshDown
  <1>5. PICK f \in DownFrame : f = Head(down) /\ FrameOK(f)
    BY <1>2, <1>3 DEF IInv, DownOK
  <1>6. PICK u : /\ u = [owner |-> "inbound", gen |-> gen, pc |-> FirstStep(f.type),
                         n |-> f.n, src |-> f.src, req |-> f.req, ask |-> {}]
                 /\ tasks' = tasks \cup {u}
    BY <1>5 DEF NextFrame
  <1>7. u \in Task
    BY <1>6 DEF IInv, TypeOK, TypeConn, DownFrame, FirstStep, Task, Owner, Pc
  <1>8. TaskOK(u)
    <2>1. u.n = f.n /\ u.src = f.src /\ u.req = f.req /\ u.pc = FirstStep(f.type)
      BY <1>6
    <2>2. f.n \in Nat /\ Len(log) \in Nat
      BY TypedNumbers DEF DownFrame, IInv, Numbers
    <2>3. CASE f.type \in {"delivery", "manifest"}
      BY <1>5, <2>1, <2>2, <2>3 DEF TaskOK, FrameOK, FirstStep
    <2>4. CASE f.type \in {"caughtup", "reset"}
      BY <1>5, <2>1, <2>2, <2>4 DEF TaskOK, FrameOK, FirstStep
    <2> QED  BY <2>3, <2>4 DEF DownFrame
  <1>9. TypeTasks' /\ FreshTasks
    <2>1. Quiet /\ Numbers
      BY <1>1, TypedNumbers DEF Quiet, relayVars, cursorVars, effectVars, IInv
    <2>2. TaskOK(u)'
      BY <1>8, <2>1 DEF TaskOK, Answers, Quiet
    <2> QED  BY <1>6, <1>7, <2>2 DEF TypeTasks, FreshTasks, IInv, TypeOK
  <1>10. TypeOK'
    BY <1>1, <1>3, <1>9, Unchanged DEF IInv, TypeOK, TypeNet, TypeRest
  <1>11. Quiet /\ relayAck' <= committed
    BY <1>1 DEF Quiet, relayVars, cursorVars, effectVars, IInv, CursorOK
  <1>12. LinkOK' /\ FreshUp /\ FreshRequests
    BY <1>1, Unchanged DEF IInv
  <1> QED  BY <1>4, <1>9, <1>10, <1>11, <1>12, QuietStep

\* A task that goes on after making an effect durable.
LEMMA EffectContinue ==
  ASSUME IInv, NEW t, NEW ts, Continue(t, ts), \A u \in ts : u \in Task /\ TaskOK(u)',
         TypeEffects', EffectsOK', applied \subseteq applied', waived' = waived,
         \A s \in Source : covered[s] <= covered'[s],
         UNCHANGED <<relayVars, netVars, requests, roster, connVars, cursorVars,
                     nextReq, faults, revocations, alarms>>
  PROVE  IInv'
  <1>1. TypeTasks' /\ FreshTasks
    BY ContinueStep DEF IInv, TypeOK
  <1>2. TypeOK'
    BY <1>1, Unchanged DEF IInv, TypeOK, TypeRest
  <1>3. Numbers /\ Numbers'
    BY <1>2, TypedNumbers, TypedNumbersNext DEF IInv
  <1>4. UNCHANGED <<log, relayAck, committed, required, recovery, nextReq>>
    BY DEF relayVars, cursorVars
  <1>5. Grow /\ FreshCommits
    BY <1>3, <1>4 DEF Grow, FreshCommits, Numbers
  <1>6. CursorOK'
    BY <1>4 DEF IInv, CursorOK
  <1>7. SessionOK'
    <2>1. ASSUME NEW s \in recovery.completed PROVE covered'[s] >= required
      <3>1. s \in Source
        BY DEF IInv, TypeOK, TypeCursor, Session
      <3> QED  BY <1>3, <3>1 DEF IInv, SessionOK, Numbers
    <2> QED  BY <1>4, <2>1 DEF IInv, SessionOK
  <1>8. LinkOK' /\ FreshDown /\ FreshUp /\ FreshRequests
    BY Unchanged DEF IInv, netVars
  <1> QED  BY <1>1, <1>2, <1>5, <1>6, <1>7, <1>8, Assemble

\* The first effect of a delivery is of an id in the log.
LEMMA DeliverKeeps ==
  ASSUME IInv, NEW t \in tasks, Deliver(t)
  PROVE  IInv'
  <1>1. t \in Task /\ t.n \in 1..Len(log) /\ t.n \in Nat
    BY TaskFacts DEF Deliver, TaskOK
  <1>2. CASE log[t.n].src \in roster
    <2> DEFINE u == [t EXCEPT !.pc = "finish"]
    <2>1. Continue(t, {u}) /\ waived' = waived /\ covered' = covered
          /\ UNCHANGED <<relayVars, netVars, requests, roster, connVars, cursorVars,
                         nextReq, faults, revocations, alarms>>
      BY <1>2 DEF Deliver
    <2>2. u \in Task /\ u.n = t.n /\ u.pc = "finish"
      BY <1>1 DEF Task, Pc
    <2>3. \A v \in {u} : v \in Task /\ TaskOK(v)'
      BY <1>1, <2>1, <2>2 DEF TaskOK, relayVars
    <2>4. applied \subseteq applied' /\ applied' \subseteq applied \cup {t.n}
          /\ replay' \subseteq replay \cup {t.n}
      BY <1>2 DEF Deliver
    <2>5. TypeEffects'
      BY <1>1, <2>1, <2>4 DEF IInv, TypeOK, TypeEffects
    <2>6. \A s \in Source : covered[s] <= covered'[s]
      BY <2>1 DEF IInv, TypeOK, TypeEffects
    <2>7. EffectsOK'
      BY <1>1, <2>1, <2>4 DEF IInv, EffectsOK, relayVars
    <2> HIDE DEF u
    <2> QED  BY <2>1, <2>3, <2>4, <2>5, <2>6, <2>7, EffectContinue
  <1>3. CASE log[t.n].src \notin roster
    <2>1. /\ Throw(t) /\ UNCHANGED faults
          /\ UNCHANGED <<relayVars, requests, roster, cursorVars, effectVars,
                         nextReq, revocations, alarms>>
      BY <1>3 DEF Deliver, effectVars
    <2> QED  BY <2>1, ThrowKeeps DEF IInv, TypeOK, TypeRest
  <1> QED  BY <1>2, <1>3

\* After the second effect the delivery is applied.
LEMMA FinishKeeps ==
  ASSUME IInv, NEW t \in tasks, Finish(t)
  PROVE  IInv'
  <1>1. t \in Task /\ t.n \in 1..Len(log) /\ t.n \in Nat
    BY TaskFacts DEF Finish, TaskOK
  <1> DEFINE u == [t EXCEPT !.pc = "commit"]
  <1>2. Continue(t, {u}) /\ waived' = waived /\ covered' = covered
        /\ applied' = applied \cup {t.n} /\ replay' = replay \cup {t.n}
        /\ UNCHANGED <<relayVars, netVars, requests, roster, connVars, cursorVars,
                       nextReq, faults, revocations, alarms>>
    BY DEF Finish
  <1>3. u \in Task /\ u.n = t.n /\ u.pc = "commit"
    BY <1>1 DEF Task, Pc
  <1>4. \A v \in {u} : v \in Task /\ TaskOK(v)'
    BY <1>1, <1>2, <1>3 DEF TaskOK, relayVars
  <1>5. TypeEffects'
    BY <1>1, <1>2 DEF IInv, TypeOK, TypeEffects
  <1>6. \A s \in Source : covered[s] <= covered'[s]
    BY <1>2 DEF IInv, TypeOK, TypeEffects
  <1>7. EffectsOK'
    BY <1>1, <1>2 DEF IInv, EffectsOK, relayVars
  <1> HIDE DEF u
  <1> QED  BY <1>2, <1>4, <1>5, <1>6, <1>7, EffectContinue

\* The cursor moves over a delivery whose effect the task has made durable.
LEMMA CommitKeeps ==
  ASSUME IInv, NEW t \in tasks, Commit(t)
  PROVE  IInv'
  <1>1. t \in Task /\ t.n \in 1..Len(log) /\ t.n \in Nat /\ t.n \in applied
    BY TaskFacts DEF Commit, TaskOK
  <1>2. CASE required = NoReset /\ t.n \in {committed, committed + 1}
    <2> DEFINE u == [t EXCEPT !.pc = "ack"]
    <2>1. Continue(t, {u}) /\ committed' = t.n
          /\ UNCHANGED <<relayVars, netVars, requests, roster, connVars, required, recovery,
                         effectVars, nextReq, faults, revocations, alarms>>
      BY <1>2 DEF Commit
    <2>2. u \in Task /\ u.n = t.n /\ u.pc = "ack"
      BY <1>1 DEF Task, Pc
    <2>3. \A v \in {u} : v \in Task /\ TaskOK(v)'
      <3>1. ASSUME NEW v, v.n = t.n, v.pc = "ack" PROVE TaskOK(v)'
        BY <1>1, <2>1, <3>1 DEF TaskOK
      <3> QED  BY <2>2, <3>1
    <2>4. TypeTasks' /\ FreshTasks
      <3> HIDE DEF u
      <3> QED  BY <2>1, <2>3, ContinueStep DEF IInv, TypeOK
    <2>5. TypeCursor'
      BY <1>1, <2>1 DEF IInv, TypeOK, TypeCursor
    <2>6. TypeOK'
      BY <2>1, <2>4, <2>5, Unchanged DEF IInv, TypeOK, TypeRest
    <2>7. Numbers /\ Numbers'
      BY <2>6, TypedNumbers, TypedNumbersNext DEF IInv
    <2>8. UNCHANGED <<log, relayAck, required, recovery, applied, covered, waived, nextReq>>
      BY <2>1 DEF relayVars, effectVars
    <2>9. committed <= committed'
      BY <1>2, <2>1, <2>7 DEF Numbers
    <2>10. Grow
      BY <2>7, <2>8, <2>9 DEF Grow, Numbers
    <2>11. CursorOK'
      <3>1. relayAck \in Nat
        BY DEF IInv, TypeOK, TypeRelay
      <3> QED  BY <1>1, <1>2, <2>1, <2>7, <2>8, <2>9, <3>1 DEF IInv, CursorOK, Numbers
    <2>12. SessionOK' /\ EffectsOK'
      BY <2>8 DEF IInv, SessionOK, EffectsOK
    <2>13. FreshCommits
      <3>1. ASSUME NEW i \in (committed + 1)..committed' PROVE i \in Settled'
        <4>1. i = t.n
          BY <1>1, <1>2, <2>1, <2>7 DEF Numbers
        <4> QED  BY <1>1, <2>8, <4>1 DEF Settled, SettledBy
      <3> QED  BY <3>1 DEF FreshCommits
    <2>14. LinkOK' /\ FreshDown /\ FreshUp /\ FreshRequests
      BY <2>1, Unchanged DEF IInv, netVars
    <2> QED  BY <2>4, <2>6, <2>10, <2>11, <2>12, <2>13, <2>14, Assemble
  <1>3. CASE ~(required = NoReset /\ t.n \in {committed, committed + 1})
    <2>1. /\ Throw(t) /\ UNCHANGED faults
          /\ UNCHANGED <<relayVars, requests, roster, cursorVars, effectVars,
                         nextReq, revocations, alarms>>
      BY <1>3 DEF Commit, cursorVars
    <2> QED  BY <2>1, ThrowKeeps DEF IInv, TypeOK, TypeRest
  <1> QED  BY <1>2, <1>3

\* A task that only sends a frame the cursor covers, and ends.
LEMMA SendAndEnd ==
  ASSUME IInv, NEW t \in tasks, t.n <= committed, NEW f \in UpFrame, f.n = t.n,
         up' = up \/ up' = Append(up, f), Continue(t, {}),
         UNCHANGED <<relayVars, link, down, requests, roster, connVars, cursorVars, effectVars,
                     nextReq, faults, revocations, alarms>>
  PROVE  IInv'
  <1>1. TypeTasks' /\ FreshTasks
    BY ContinueStep DEF IInv, TypeOK
  <1>2. up' \in Seq(UpFrame) /\ FreshUp
    <2>1. CASE up' = up
      BY <2>1, Unchanged DEF IInv, TypeOK, TypeNet
    <2>2. CASE up' = Append(up, f)
      <3>1. f.n <= committed'
        BY DEF cursorVars
      <3> QED  BY <2>2, <3>1, SendUp DEF IInv, TypeOK
    <2> QED  BY <2>1, <2>2
  <1>3. TypeNet'
    BY <1>2 DEF IInv, TypeOK, TypeNet
  <1>4. TypeOK'
    BY <1>1, <1>3, Unchanged DEF IInv, TypeOK, TypeRest
  <1>5. Quiet /\ relayAck' <= committed
    BY DEF Quiet, relayVars, cursorVars, effectVars, IInv, CursorOK
  <1>6. LinkOK' /\ FreshDown /\ FreshRequests
    BY Unchanged DEF IInv
  <1> QED  BY <1>1, <1>2, <1>4, <1>5, <1>6, QuietStep

\* An acknowledgement carries a committed id.
LEMMA AcknowledgeKeeps ==
  ASSUME IInv, NEW t \in tasks, Acknowledge(t)
  PROVE  IInv'
  <1>1. t.n \in Nat /\ t.n <= committed
    BY TaskFacts DEF Acknowledge, TaskOK
  <1>2. PICK f \in UpFrame : f = [type |-> "ack", n |-> t.n]
    BY <1>1 DEF UpFrame
  <1>3. up' = up \/ up' = Append(up, f)
    BY <1>2 DEF Acknowledge
  <1> QED  BY <1>1, <1>2, <1>3, SendAndEnd DEF Acknowledge

\* So does the SNC1 that ends a recovery.
LEMMA ResumeAfterResetKeeps ==
  ASSUME IInv, NEW t \in tasks, ResumeAfterReset(t)
  PROVE  IInv'
  <1>1. t.n \in Nat /\ t.n <= committed
    BY TaskFacts DEF ResumeAfterReset, TaskOK
  <1>2. PICK f \in UpFrame : f = [type |-> "resume", n |-> t.n]
    BY <1>1 DEF UpFrame
  <1>3. up' = up \/ up' = Append(up, f)
    BY <1>2 DEF ResumeAfterReset
  <1> QED  BY <1>1, <1>2, <1>3, SendAndEnd DEF ResumeAfterReset

\* A marker is compared, or ends the connection.
LEMMA CompareMarkerKeeps ==
  ASSUME IInv, NEW t \in tasks, CompareMarker(t)
  PROVE  IInv'
  <1>1. CASE MarkerMatches(t)
    BY <1>1, QuietContinue DEF CompareMarker
  <1>2. CASE ~MarkerMatches(t)
    BY <1>2, ThrowKeeps DEF CompareMarker, IInv, TypeOK, TypeRest
  <1> QED  BY <1>1, <1>2

\* A reset that grows forgets the session, and with it every answer made before.
LEMMA RequireSnapshotKeeps ==
  ASSUME IInv, NEW t \in tasks, RequireSnapshot(t)
  PROVE  IInv'
  <1>1. t \in Task /\ t.n \in Nat /\ t.n <= Len(log) /\ Numbers
    BY TaskFacts, TypedNumbers DEF RequireSnapshot, TaskOK, IInv
  <1>2. CASE t.n >= committed
    <2>1. /\ Continue(t, {NewTask("begin", t.gen, "load", t.n)})
          /\ UNCHANGED <<relayVars, netVars, requests, roster, connVars, committed, effectVars,
                         nextReq, faults, revocations, alarms>>
      BY <1>2 DEF RequireSnapshot
    <2>2. NewTask("begin", t.gen, "load", t.n) \in Task
      BY <1>1 DEF NewTask, Task, Owner, Pc
    <2>3. \A u \in {NewTask("begin", t.gen, "load", t.n)} : u \in Task /\ TaskOK(u)'
      <3>1. ASSUME NEW u, u.pc = "load" PROVE TaskOK(u)'
        BY <3>1 DEF TaskOK
      <3> QED  BY <2>2, <3>1 DEF NewTask
    <2>4. TypeTasks' /\ FreshTasks
      BY <2>1, <2>3, ContinueStep DEF IInv, TypeOK
    <2>5. \/ required' = required /\ recovery' = recovery
          \/ required' = Larger(required, t.n) /\ recovery' = NoSession
      BY <1>2 DEF RequireSnapshot
    <2>6. TypeCursor' /\ required' <= Len(log)
      <3>1. CASE required' = required /\ recovery' = recovery
        <4>1. TypeCursor'
          BY <2>1, <3>1 DEF IInv, TypeOK, TypeCursor
        <4>2. required' <= Len(log)
          BY <1>1, <3>1 DEF IInv, CursorOK, NoReset, Numbers
        <4> QED  BY <4>1, <4>2
      <3>2. CASE required' = Larger(required, t.n) /\ recovery' = NoSession
        <4>1. required \in Int /\ required <= Len(log)
          BY <1>1 DEF IInv, CursorOK, Numbers, NoReset
        <4>2. required' \in Nat /\ required' <= Len(log)
          BY <1>1, <3>2, <4>1 DEF Larger, Numbers
        <4>3. recovery' \in Session
          BY <3>2 DEF NoSession, Session
        <4> QED  BY <2>1, <4>2, <4>3 DEF IInv, TypeOK, TypeCursor
      <3> QED  BY <2>5, <3>1, <3>2
    <2>14. required' = required \/ required' >= committed
      BY <1>1, <1>2, <2>5 DEF Larger, Numbers
    <2>7. TypeOK'
      BY <2>1, <2>4, <2>6, Unchanged DEF IInv, TypeOK, TypeRest
    <2>8. Numbers' /\ UNCHANGED <<log, relayAck, committed, applied, covered, waived, nextReq>>
      BY <2>1, <2>7, TypedNumbersNext DEF relayVars, effectVars
    <2>9. Grow
      <3>1. \A q \in 1..nextReq : q = recovery'.req => q = recovery.req /\ required' <= required
        BY <1>1, <2>5 DEF NoSession, Numbers
      <3> QED  BY <1>1, <2>8, <3>1 DEF Grow, Numbers
    <2>10. CursorOK' /\ EffectsOK'
      BY <2>6, <2>8, <2>14 DEF IInv, CursorOK, EffectsOK
    <2>11. SessionOK'
      <3>1. CASE required' = required /\ recovery' = recovery
        BY <2>8, <3>1 DEF IInv, SessionOK
      <3>2. CASE recovery' = NoSession
        BY <1>1, <2>8, <3>2 DEF SessionOK, NoSession, Numbers
      <3> QED  BY <2>5, <3>1, <3>2
    <2>12. FreshCommits
      BY <1>1, <2>8 DEF FreshCommits, Numbers
    <2>13. LinkOK' /\ FreshDown /\ FreshUp /\ FreshRequests
      BY <2>1, Unchanged DEF IInv, netVars
    <2> QED  BY <2>4, <2>7, <2>9, <2>10, <2>11, <2>12, <2>13, Assemble
  <1>3. CASE ~(t.n >= committed)
    <2>1. /\ Throw(t) /\ UNCHANGED faults
          /\ UNCHANGED <<relayVars, requests, roster, cursorVars, effectVars,
                         nextReq, revocations, alarms>>
      BY <1>3 DEF RequireSnapshot, cursorVars
    <2> QED  BY <2>1, ThrowKeeps DEF IInv, TypeOK, TypeRest
  <1> QED  BY <1>2, <1>3

-----------------------------------------------------------------------------
(* Manifests and the recovery coordinator.                                 *)

\* A task sent to accept a session has a request id that was given out.
LEMMA AcceptingOK ==
  ASSUME NEW t \in Task, t.req \in 1..nextReq'
  PROVE  \A u \in Accepting(t) : u \in Task /\ TaskOK(u)'
  <1>1. ASSUME NEW u \in Accepting(t) PROVE u \in Task /\ u.pc = "advance" /\ u.req = t.req
    BY <1>1 DEF Accepting, Task, Pc
  <1>2. ASSUME NEW u, u.pc = "advance", u.req = t.req PROVE TaskOK(u)'
    BY <1>2 DEF TaskOK
  <1> QED  BY <1>1, <1>2

\* So has one that asks for the rest of it.
LEMMA PursueOK ==
  ASSUME NEW t \in Task, NEW session \in Session, session.req \in 1..nextReq'
  PROVE  \A u \in Pursue(t, session) : u \in Task /\ TaskOK(u)'
  <1>1. CASE Complete(session)
    <2>1. PICK v : v = [t EXCEPT !.req = session.req]
      OBVIOUS
    <2>2. v \in Task /\ v.req = session.req
      BY <2>1 DEF Task, Session
    <2> QED  BY <1>1, <2>1, <2>2, AcceptingOK DEF Pursue
  <1>2. CASE ~Complete(session)
    <2>1. ASSUME NEW u \in Pursue(t, session)
          PROVE  u \in Task /\ u.pc = "ask" /\ u.req = session.req
      <3>1. u = [t EXCEPT !.pc = "ask", !.req = session.req,
                          !.ask = session.expected \ session.completed]
        BY <1>2, <2>1 DEF Pursue
      <3>2. session.req \in Nat /\ session.expected \ session.completed \in SUBSET Source
        BY DEF Session
      <3> QED  BY <3>1, <3>2 DEF Task, Pc
    <2>2. ASSUME NEW u, u.pc = "ask", u.req = session.req PROVE TaskOK(u)'
      BY <2>2 DEF TaskOK
    <2> QED  BY <2>1, <2>2
  <1> QED  BY <1>1, <1>2

\* Reconciling a manifest makes the snapshot's reach durable.
LEMMA ReconcileKeeps ==
  ASSUME IInv, NEW t \in tasks, Reconcile(t)
  PROVE  IInv'
  <1>1. /\ t \in Task /\ t.n \in Nat /\ t.req \in 1..nextReq /\ t.src \in Source
        /\ t.req = recovery.req => required <= t.n
        /\ t.n <= Len(log) /\ Numbers
    BY TaskFacts, TypedNumbers DEF Reconcile, TaskOK, Answers, IInv
  <1>2. CASE t.src \in roster
    <2> DEFINE u == [t EXCEPT !.pc = "record"]
    <2>1. Continue(t, {u}) /\ waived' = waived /\ applied' = applied /\ replay' = replay
          /\ covered' = [covered EXCEPT ![t.src] = Larger(@, t.n)]
          /\ UNCHANGED <<relayVars, netVars, requests, roster, connVars, cursorVars,
                         nextReq, faults, revocations, alarms>>
      BY <1>2 DEF Reconcile
    <2>2. u \in Task /\ u.n = t.n /\ u.pc = "record" /\ u.src = t.src /\ u.req = t.req
      BY <1>1 DEF Task, Pc
    <2>3. /\ covered' \in [Source -> Nat] /\ covered'[t.src] >= t.n
          /\ \A s \in Source : covered[s] <= covered'[s]
      BY <1>1, <2>1 DEF Numbers, Larger
    <2>4. \A v \in {u} : v \in Task /\ TaskOK(v)'
      <3>1. ASSUME NEW v, v.n = t.n, v.pc = "record", v.src = t.src, v.req = t.req
            PROVE  TaskOK(v)'
        BY <1>1, <2>1, <2>3, <3>1 DEF TaskOK, Answers, cursorVars
      <3> QED  BY <2>2, <3>1
    <2>5. TypeEffects'
      BY <2>1, <2>3 DEF IInv, TypeOK, TypeEffects
    <2>6. EffectsOK'
      <3>1. \A s \in Source : covered'[s] <= Len(log)
        BY <1>1, <2>1 DEF IInv, EffectsOK, Numbers, Larger
      <3> QED  BY <2>1, <3>1 DEF IInv, EffectsOK, relayVars
    <2> HIDE DEF u
    <2> QED  BY <2>1, <2>3, <2>4, <2>5, <2>6, EffectContinue
  <1>3. CASE t.src \notin roster
    <2>1. /\ Throw(t) /\ UNCHANGED faults
          /\ UNCHANGED <<relayVars, requests, roster, cursorVars, effectVars,
                         nextReq, revocations, alarms>>
      BY <1>3 DEF Reconcile, effectVars
    <2> QED  BY <2>1, ThrowKeeps DEF IInv, TypeOK, TypeRest
  <1> QED  BY <1>2, <1>3

\* The source is counted only when its snapshot reflects the high-water.
LEMMA RecordSourceKeeps ==
  ASSUME IInv, NEW t \in tasks, RecordSource(t)
  PROVE  IInv'
  <1>1. /\ t \in Task /\ t.n \in Nat /\ t.req \in 1..nextReq /\ t.src \in Source
        /\ t.req = recovery.req => required <= t.n
        /\ covered[t.src] >= t.n
        /\ Numbers
    BY TaskFacts, TypedNumbers DEF RecordSource, TaskOK, Answers, IInv
  <1>2. CASE recovery.req # t.req
    <2>1. /\ Continue(t, {})
          /\ UNCHANGED <<relayVars, netVars, requests, roster, connVars, cursorVars, effectVars,
                         nextReq, faults, revocations, alarms>>
      BY <1>2 DEF RecordSource, cursorVars
    <2> QED  BY <2>1, QuietContinue
  <1>3. CASE recovery.req = t.req /\ t.src \in recovery.expected
    <2>1. /\ recovery' = [recovery EXCEPT !.completed = @ \cup {t.src}]
          /\ UNCHANGED <<relayVars, netVars, requests, roster, connVars, committed, required,
                         effectVars, nextReq, faults, revocations, alarms>>
      BY <1>3 DEF RecordSource
    <2>2. PICK ts : Continue(t, ts) /\ (ts = {} \/ ts = Accepting(t))
      BY <1>3 DEF RecordSource
    <2>3. \A u \in ts : u \in Task /\ TaskOK(u)'
      BY <1>1, <2>1, <2>2, AcceptingOK
    <2>4. TypeTasks' /\ FreshTasks
      BY <2>2, <2>3, ContinueStep DEF IInv, TypeOK
    <2>5. recovery \in Session
      BY DEF IInv, TypeOK, TypeCursor
    <2>6. /\ recovery'.req = recovery.req /\ recovery'.expected = recovery.expected
          /\ recovery'.completed = recovery.completed \cup {t.src}
          /\ recovery' \in Session
      BY <1>1, <2>1, <2>5 DEF Session
    <2>7. TypeOK'
      BY <2>1, <2>4, <2>6, Unchanged DEF IInv, TypeOK, TypeRest, TypeCursor
    <2>8. Numbers'
      BY <2>7, TypedNumbersNext
    <2>9. UNCHANGED <<log, relayAck, committed, required, applied, covered, waived, nextReq>>
      BY <2>1 DEF relayVars, effectVars
    <2>10. Grow /\ FreshCommits
      BY <1>1, <2>6, <2>8, <2>9 DEF Grow, FreshCommits, Numbers
    <2>11. CursorOK' /\ EffectsOK'
      BY <2>9 DEF IInv, CursorOK, EffectsOK
    <2>12. SessionOK'
      <3>1. recovery.req # 0
        BY <1>1, <1>3
      <3>2. \A s \in recovery'.completed : covered[s] >= required
        <4>1. covered[t.src] >= required
          BY <1>1, <1>3 DEF Numbers
        <4> QED  BY <2>6, <4>1 DEF IInv, SessionOK
      <3> QED  BY <1>3, <2>6, <2>9, <3>1, <3>2 DEF IInv, SessionOK
    <2>13. LinkOK' /\ FreshDown /\ FreshUp /\ FreshRequests
      BY <2>1, Unchanged DEF IInv, netVars
    <2> QED  BY <2>4, <2>7, <2>10, <2>11, <2>12, <2>13, Assemble
  <1>4. CASE recovery.req = t.req /\ t.src \notin recovery.expected
    <2>1. /\ Throw(t) /\ UNCHANGED faults
          /\ UNCHANGED <<relayVars, requests, roster, cursorVars, effectVars,
                         nextReq, revocations, alarms>>
      BY <1>4 DEF RecordSource, cursorVars
    <2> QED  BY <2>1, ThrowKeeps DEF IInv, TypeOK, TypeRest
  <1> QED  BY <1>2, <1>3, <1>4

\* The cursor moves over a reset: what it passes is reflected by a completed source
\* or given up.
LEMMA AdvanceKeeps ==
  ASSUME IInv, NEW t \in tasks, Advance(t)
  PROVE  IInv'
  <1>1. t \in Task /\ t.req \in 1..nextReq /\ Numbers
    BY TaskFacts, TypedNumbers DEF Advance, TaskOK, IInv
  <1>2. CASE recovery.req = t.req /\ Complete(recovery)
    <2> DEFINE u == [t EXCEPT !.pc = "resume", !.n = required]
    <2>1. /\ Continue(t, {u})
          /\ committed' = required /\ required' = NoReset /\ recovery' = NoSession
          /\ waived' = waived \cup Unrestorable
          /\ UNCHANGED <<relayVars, netVars, requests, roster, connVars, applied, replay, covered,
                         nextReq, faults, revocations, alarms>>
      BY <1>2 DEF Advance
    <2>2. required \in Nat /\ committed <= required /\ required <= Len(log)
      <3>1. recovery.req # 0
        BY <1>1, <1>2
      <3> QED  BY <3>1 DEF IInv, TypeOK, TypeCursor, CursorOK, SessionOK
    <2>3. u \in Task /\ u.n = required /\ u.pc = "resume"
      BY <1>1, <2>2 DEF Task, Pc
    <2>4. \A v \in {u} : v \in Task /\ TaskOK(v)'
      <3>1. ASSUME NEW v, v.n = required, v.pc = "resume" PROVE TaskOK(v)'
        BY <2>1, <2>2, <3>1 DEF TaskOK
      <3> QED  BY <2>3, <3>1
    <2> HIDE DEF u
    <2>5. TypeTasks' /\ FreshTasks
      BY <2>1, <2>4, ContinueStep DEF IInv, TypeOK
    <2>6. TypeCursor'
      BY <2>1, <2>2 DEF TypeCursor, NoSession, Session
    <2>7. TypeEffects' /\ EffectsOK'
      <3>1. Unrestorable \subseteq 1..Len(log)
        BY <1>1, <2>2 DEF Unrestorable, Numbers
      <3>2. TypeEffects'
        BY <1>1, <2>1, <3>1 DEF IInv, TypeOK, TypeEffects, Numbers
      <3>3. EffectsOK'
        BY <2>1, <3>1 DEF IInv, EffectsOK, relayVars
      <3> QED  BY <3>2, <3>3
    <2>8. TypeOK'
      BY <2>1, <2>5, <2>6, <2>7, Unchanged DEF IInv, TypeOK, TypeRest
    <2>9. Numbers' /\ UNCHANGED <<log, relayAck, applied, covered, nextReq>>
      BY <2>1, <2>8, TypedNumbersNext DEF relayVars
    <2>10. Grow
      BY <1>1, <2>1, <2>2, <2>9 DEF Grow, Numbers, NoSession
    <2>11. CursorOK'
      <3>1. relayAck \in Nat /\ relayAck <= committed
        BY DEF IInv, TypeOK, TypeRelay, CursorOK
      <3> QED  BY <1>1, <2>1, <2>2, <2>9, <3>1 DEF CursorOK, Numbers
    <2>12. SessionOK'
      BY <1>1, <2>1, <2>9 DEF SessionOK, NoSession, Numbers
    <2>13. FreshCommits
      <3> SUFFICES ASSUME NEW i \in (committed + 1)..required PROVE i \in Settled'
        BY <2>1 DEF FreshCommits
      <3>1. i \in 1..Len(log) /\ log[i] \in Event
        BY <1>1, <2>2 DEF Numbers
      <3>2. CASE log[i].kind = "result" \/ log[i].src \notin recovery.expected
        <4>1. i \in waived'
          BY <2>1, <3>2 DEF Unrestorable
        <4> QED  BY <2>9, <3>1, <4>1 DEF Settled, SettledBy
      <3>3. CASE log[i].kind # "result" /\ log[i].src \in recovery.expected
        <4>1. log[i].kind = "notification"
          BY <3>1, <3>3, KindAssumption DEF Event
        <4>2. log[i].src \in Source /\ covered[log[i].src] >= required
          BY <1>2, <3>1, <3>3 DEF IInv, SessionOK, Complete, Event
        <4>3. i <= covered[log[i].src]
          BY <1>1, <2>2, <4>2 DEF Numbers
        <4> QED  BY <2>9, <3>1, <4>1, <4>3 DEF Settled, SettledBy
      <3> QED  BY <3>2, <3>3
    <2>14. LinkOK' /\ FreshDown /\ FreshUp /\ FreshRequests
      BY <2>1, Unchanged DEF IInv, netVars
    <2> QED  BY <2>5, <2>7, <2>8, <2>10, <2>11, <2>12, <2>13, <2>14, Assemble
  <1>3. CASE ~(recovery.req = t.req /\ Complete(recovery))
    <2>1. /\ Throw(t) /\ UNCHANGED faults
          /\ UNCHANGED <<relayVars, requests, roster, cursorVars, effectVars,
                         nextReq, revocations, alarms>>
      BY <1>3 DEF Advance, effectVars
    <2> QED  BY <2>1, ThrowKeeps DEF IInv, TypeOK, TypeRest
  <1> QED  BY <1>2, <1>3

\* A stored session can be pursued.
LEMMA StoredSession ==
  ASSUME IInv, recovery # NoSession
  PROVE  recovery \in Session /\ recovery.req \in 1..nextReq
  <1>1. recovery \in Session /\ recovery.req \in Nat /\ recovery.req <= nextReq
    BY DEF IInv, TypeOK, TypeCursor, Session, SessionOK
  <1>2. recovery.req # 0 /\ nextReq \in Nat
    BY TypedNumbers DEF IInv, SessionOK, Numbers
  <1> QED  BY <1>1, <1>2

\* begin only reads the cursor store.
LEMMA LoadForBeginKeeps ==
  ASSUME IInv, NEW t \in tasks, LoadForBegin(t)
  PROVE  IInv'
  <1>1. t \in Task /\ roster \subseteq Source
    BY TaskFacts DEF IInv, TypeOK, TypeRest
  <1>2. CASE required = t.n /\ recovery = NoSession
    <2> DEFINE u == [t EXCEPT !.pc = "bind", !.ask = roster]
    <2>1. u \in Task /\ u.pc = "bind"
      BY <1>1 DEF Task, Pc
    <2>2. \A v \in {u} : v \in Task /\ TaskOK(v)'
      <3>1. ASSUME NEW v, v.pc = "bind" PROVE TaskOK(v)'
        BY <3>1 DEF TaskOK
      <3> QED  BY <2>1, <3>1
    <2>3. Continue(t, {u})
          /\ UNCHANGED <<relayVars, netVars, requests, roster, connVars, cursorVars, effectVars,
                         nextReq, faults, revocations, alarms>>
      BY <1>2 DEF LoadForBegin
    <2> HIDE DEF u
    <2> QED  BY <2>2, <2>3, QuietContinue
  <1>3. CASE required = t.n /\ recovery # NoSession
    <2>1. Continue(t, Pursue(t, recovery))
          /\ UNCHANGED <<relayVars, netVars, requests, roster, connVars, cursorVars, effectVars,
                         nextReq, faults, revocations, alarms>>
      BY <1>3 DEF LoadForBegin
    <2>2. \A u \in Pursue(t, recovery) : u \in Task /\ TaskOK(u)'
      BY <1>1, <1>3, <2>1, StoredSession, PursueOK
    <2> QED  BY <2>1, <2>2, QuietContinue
  <1>4. CASE required # t.n
    BY <1>4, ThrowKeeps DEF LoadForBegin, IInv, TypeOK, TypeRest
  <1> QED  BY <1>2, <1>3, <1>4

\* retry only reads the cursor store.
LEMMA LoadForRetryKeeps ==
  ASSUME IInv, NEW t \in tasks, LoadForRetry(t)
  PROVE  IInv'
  <1>1. UNCHANGED <<relayVars, netVars, requests, roster, connVars, cursorVars, effectVars,
                    nextReq, faults, revocations, alarms>>
    BY DEF LoadForRetry
  <1>2. CASE recovery = NoSession
    <2>1. Continue(t, {})
      BY <1>2 DEF LoadForRetry
    <2> QED  BY <1>1, <2>1, QuietContinue
  <1>3. CASE recovery # NoSession
    <2>1. Continue(t, Pursue(t, recovery))
      BY <1>3 DEF LoadForRetry
    <2>2. \A u \in Pursue(t, recovery) : u \in Task /\ TaskOK(u)'
      BY <1>1, <1>3, StoredSession, TaskFacts, PursueOK
    <2> QED  BY <1>1, <2>1, <2>2, QuietContinue
  <1> QED  BY <1>2, <1>3

\* A fresh request id: no answer on its way can be taken for one to the new session.
LEMMA BindKeeps ==
  ASSUME IInv, NEW t \in tasks, Bind(t)
  PROVE  IInv'
  <1>1. t \in Task /\ Numbers /\ t.ask \subseteq Source /\ t.n \in Nat
    BY TaskFacts, TypedNumbers DEF IInv, Task
  <1>2. nextReq' = nextReq + 1
        /\ UNCHANGED <<relayVars, requests, roster, committed, required, effectVars,
                       faults, revocations, alarms>>
    BY DEF Bind
  <1>3. PICK session : session = [req |-> nextReq + 1, expected |-> t.ask, completed |-> {}]
    OBVIOUS
  <1>4. /\ session \in Session /\ session.req = nextReq + 1 /\ session.completed = {}
        /\ session.req \in 1..nextReq'
    BY <1>1, <1>2, <1>3 DEF Session, Numbers
  <1>5. \/ /\ required = t.n /\ recovery' = session
           /\ Continue(t, Pursue(t, session)) /\ UNCHANGED <<netVars, connVars>>
        \/ Throw(t) /\ recovery' = recovery
    BY <1>3 DEF Bind
  <1>6. TypeNet' /\ TypeConn' /\ TypeTasks' /\ LinkOK' /\ FreshTasks /\ FreshDown /\ FreshUp
    <2>1. CASE Throw(t)
      BY <2>1, ThrowStep DEF IInv, TypeOK
    <2>2. CASE Continue(t, Pursue(t, session)) /\ UNCHANGED <<netVars, connVars>>
      <3>1. TypeTasks' /\ FreshTasks
        BY <1>1, <1>4, <2>2, PursueOK, ContinueStep DEF IInv, TypeOK
      <3> QED  BY <2>2, <3>1, Unchanged DEF IInv, TypeOK, netVars
    <2> QED  BY <1>5, <2>1, <2>2
  <1>7. TypeCursor' /\ nextReq' \in Nat
    BY <1>1, <1>2, <1>4, <1>5 DEF IInv, TypeOK, TypeCursor, Numbers
  <1>8. TypeOK'
    BY <1>2, <1>6, <1>7, Unchanged DEF IInv, TypeOK, TypeRest
  <1>9. Numbers' /\ UNCHANGED <<log, relayAck, committed, required, applied, covered, waived>>
    BY <1>2, <1>8, TypedNumbersNext DEF relayVars, effectVars
  <1>10. Grow /\ FreshCommits
    <2>1. \A q \in 1..nextReq : q = recovery'.req => q = recovery.req /\ required' <= required
      BY <1>1, <1>4, <1>5, <1>9 DEF Numbers
    <2> QED  BY <1>1, <1>2, <1>9, <2>1 DEF Grow, FreshCommits, Numbers
  <1>11. CursorOK' /\ EffectsOK'
    BY <1>9 DEF IInv, CursorOK, EffectsOK
  <1>12. SessionOK'
    <2>1. CASE recovery' = recovery
      BY <1>1, <1>2, <1>9, <2>1 DEF IInv, SessionOK, Numbers
    <2>2. CASE required = t.n /\ recovery' = session
      BY <1>1, <1>2, <1>4, <1>9, <2>2 DEF SessionOK, NoReset, Numbers
    <2> QED  BY <1>5, <2>1, <2>2
  <1>13. FreshRequests
    BY <1>2, Unchanged
  <1> QED  BY <1>6, <1>8, <1>10, <1>11, <1>12, <1>13, Assemble

\* Requests carry an id that was given out.
LEMMA AskKeeps ==
  ASSUME IInv, NEW t \in tasks, Ask(t)
  PROVE  IInv'
  <1>1. t \in Task /\ t.req \in 1..nextReq /\ t.req \in Nat
    BY TaskFacts DEF Ask, TaskOK
  <1>2. UNCHANGED <<relayVars, roster, cursorVars, effectVars, nextReq, faults, revocations, alarms>>
    BY DEF Ask
  <1>3. PICK asked \in SUBSET (t.ask \cap roster) :
          /\ requests' = IF Authenticated
                         THEN requests \cup {[src |-> s, req |-> t.req] : s \in asked}
                         ELSE requests
          /\ IF t.ask \subseteq roster
             THEN asked = t.ask /\ Continue(t, {}) /\ UNCHANGED <<netVars, connVars>>
             ELSE Throw(t)
    BY Zenon DEF Ask
  <1>4. TypeNet' /\ TypeConn' /\ TypeTasks' /\ LinkOK' /\ FreshTasks /\ FreshDown /\ FreshUp
    <2>1. CASE Throw(t)
      BY <2>1, ThrowStep DEF IInv, TypeOK
    <2>2. CASE Continue(t, {}) /\ UNCHANGED <<netVars, connVars>>
      BY <2>2, ContinueStep, Unchanged DEF IInv, TypeOK, netVars
    <2> QED  BY <1>3, <2>1, <2>2
  <1>5. requests' \subseteq [src : Source, req : Nat] /\ FreshRequests
    <2>1. roster \subseteq Source /\ requests \subseteq [src : Source, req : Nat]
      BY DEF IInv, TypeOK, TypeRest
    <2>2. \A r \in requests' : r \in requests \/ \E s \in asked : r = [src |-> s, req |-> t.req]
      BY <1>3
    <2> QED  BY <1>1, <1>2, <1>3, <2>1, <2>2 DEF FreshRequests
  <1>6. TypeOK'
    BY <1>2, <1>4, <1>5, Unchanged DEF IInv, TypeOK, TypeRest
  <1>7. Quiet /\ relayAck' <= committed
    BY <1>2 DEF Quiet, relayVars, cursorVars, effectVars, IInv, CursorOK
  <1> QED  BY <1>4, <1>5, <1>6, <1>7, QuietStep

\* The alarm adds a task that knows nothing yet.
LEMMA RetryAlarmKeeps ==
  ASSUME IInv, RetryAlarm
  PROVE  IInv'
  <1>1. UNCHANGED <<relayVars, netVars, requests, roster, connVars, cursorVars,
                    effectVars, nextReq, faults, revocations>> /\ alarms' \in Nat
    BY DEF RetryAlarm, IInv, TypeOK, TypeRest
  <1>2. NewTask("alarm", 0, "load", 0) \in Task
    BY DEF NewTask, Task, Owner, Pc
  <1>3. TypeTasks' /\ FreshTasks
    <2>1. ASSUME NEW u, u.pc = "load" PROVE TaskOK(u)'
      BY <2>1 DEF TaskOK
    <2> QED  BY <1>2, <2>1 DEF RetryAlarm, TypeTasks, FreshTasks, IInv, TypeOK, NewTask
  <1>4. TypeOK'
    BY <1>1, <1>3, Unchanged DEF IInv, TypeOK, TypeRest
  <1>5. Quiet /\ relayAck' <= committed
    BY <1>1 DEF Quiet, relayVars, cursorVars, effectVars, IInv, CursorOK
  <1>6. LinkOK' /\ FreshDown /\ FreshUp /\ FreshRequests
    BY <1>1, Unchanged DEF IInv, netVars
  <1> QED  BY <1>3, <1>4, <1>5, <1>6, QuietStep

-----------------------------------------------------------------------------
(* The theorems.                                                           *)

\* The invariant holds at first.
LEMMA InitKeeps ==
  Init => IInv
  <1> SUFFICES ASSUME Init PROVE IInv
    OBVIOUS
  <1>1. TypeOK
    <2>1. TypeRelay
      BY DEF Init, TypeRelay
    <2>2. TypeNet
      BY DEF Init, TypeNet, Idle
    <2>3. TypeConn
      BY DEF Init, TypeConn
    <2>4. TypeTasks /\ TypeRest
      BY DEF Init, TypeTasks, TypeRest
    <2>5. TypeCursor
      BY DEF Init, TypeCursor, NoSession, Session
    <2>6. TypeEffects
      BY DEF Init, TypeEffects
    <2> QED  BY <2>1, <2>2, <2>3, <2>4, <2>5, <2>6 DEF TypeOK
  <1>2. Len(log) = 0 /\ Len(down) = 0 /\ Len(up) = 0
    BY DEF Init
  <1>3. CursorOK /\ SessionOK /\ EffectsOK
    BY <1>2 DEF Init, CursorOK, SessionOK, EffectsOK, NoSession
  <1>4. LinkOK /\ DownOK /\ UpOK /\ RequestsOK /\ TasksOK
    BY <1>2 DEF Init, LinkOK, DownOK, UpOK, RequestsOK, TasksOK, Idle
  <1>5. NoSilentLoss
    BY DEF Init, NoSilentLoss
  <1> QED  BY <1>1, <1>3, <1>4, <1>5 DEF IInv

\* The invariant holds through stuttering.
LEMMA StutterKeeps ==
  ASSUME IInv, UNCHANGED vars
  PROVE  IInv'
  <1>1. UNCHANGED <<relayVars, netVars, requests, roster, connVars, tasks, cursorVars,
                    effectVars, nextReq, faults, revocations, alarms>>
    BY DEF vars
  <1>2. TypeOK'
    BY <1>1, Unchanged DEF IInv, TypeOK, TypeTasks, TypeRest
  <1>3. Quiet /\ relayAck' <= committed
    BY <1>1 DEF Quiet, relayVars, cursorVars, effectVars, IInv, CursorOK
  <1>4. LinkOK' /\ FreshTasks /\ FreshDown /\ FreshUp /\ FreshRequests
    BY <1>1, Unchanged DEF IInv, netVars
  <1> QED  BY <1>2, <1>3, <1>4, QuietStep

\* Every step of a task keeps the invariant.
LEMMA StepKeeps ==
  ASSUME IInv, NEW t \in tasks, Step(t)
  PROVE  IInv'
  BY DeliverKeeps, FinishKeeps, CommitKeeps, AcknowledgeKeeps, CompareMarkerKeeps,
     RequireSnapshotKeeps, ReconcileKeeps, RecordSourceKeeps, AdvanceKeeps,
     ResumeAfterResetKeeps, LoadForBeginKeeps, BindKeeps, AskKeeps, LoadForRetryKeeps
  DEF Step

\* Every step of the system keeps the invariant.
LEMMA NextKeeps ==
  IInv /\ [Next]_vars => IInv'
  <1> SUFFICES ASSUME IInv, [Next]_vars PROVE IInv'
    OBVIOUS
  <1>1. ASSUME NEW e \in Event, Submit(e) PROVE IInv'
    BY <1>1, SubmitKeeps
  <1>2. CASE Evict
    BY <1>2, EvictKeeps
  <1>3. CASE Relay
    BY <1>3, RelayResumeKeeps, RelayAcknowledgeKeeps, RelayDeliverKeeps, RelayCaughtUpKeeps
    DEF Relay
  <1>4. ASSUME NEW r \in requests, SourceAnswer(r) PROVE IInv'
    BY <1>4, SourceAnswerKeeps
  <1>5. ASSUME NEW s \in Source, Revoke(s) PROVE IInv'
    BY <1>5, RevokeKeeps
  <1>6. CASE ScheduledConnect \/ UserConnect \/ Authenticate \/ Drop \/ Crash
    BY <1>6, ConnectKeeps, AuthenticateKeeps, DropKeeps, CrashKeeps
  <1>7. ASSUME NEW t \in tasks, LocalFailure(t) PROVE IInv'
    BY <1>7, LocalFailureKeeps
  <1>8. CASE NextFrame
    BY <1>8, NextFrameKeeps
  <1>9. ASSUME NEW t \in tasks, Step(t) PROVE IInv'
    BY <1>9, StepKeeps
  <1>10. CASE RetryAlarm
    BY <1>10, RetryAlarmKeeps
  <1>11. CASE UNCHANGED vars
    BY <1>11, StutterKeeps
  <1> QED
    BY <1>1, <1>2, <1>3, <1>4, <1>5, <1>6, <1>7, <1>8, <1>9, <1>10, <1>11 DEF Next

\* The inductive invariant holds throughout, for every set of sources and every bound.
THEOREM Invariance == Spec => []IInv
  <1>1. Init => IInv
    BY InitKeeps
  <1>2. IInv /\ [Next]_vars => IInv'
    BY NextKeeps
  <1> QED  BY <1>1, <1>2, PTL DEF Spec

\* Every variable of the delivery pipeline keeps its type.
THEOREM TypeCorrect == Spec => []TypeOK
  <1>1. IInv => TypeOK
    BY DEF IInv
  <1> QED  BY <1>1, Invariance, PTL

\* No interleaving of connections, crashes, failures and resets loses a delivery in
\* silence: every id the cursor store has committed is settled.
THEOREM NothingLost == Spec => []NoSilentLoss
  <1>1. IInv => NoSilentLoss
    BY DEF IInv
  <1> QED  BY <1>1, Invariance, PTL

\* The relay never hears an acknowledgement of what is not committed.
THEOREM AcknowledgementsCommitted == Spec => []AckWithinCommitted
  <1>1. IInv => AckWithinCommitted
    BY DEF IInv, CursorOK, UpOK, AckWithinCommitted
  <1> QED  BY <1>1, Invariance, PTL

-----------------------------------------------------------------------------
(* Steps of the abstract specification.                                    *)

\* The fates depend on the log and the effects alone.
LEMMA SettledSame ==
  ASSUME UNCHANGED <<log, applied, covered, waived>>
  PROVE  Settled' = Settled
  BY DEF Settled, SettledBy

\* A fate that a growing effect settles stays within the log.
LEMMA SettledGrows ==
  ASSUME IInv, log' = log, applied \subseteq applied', waived \subseteq waived',
         \A s \in Source : covered[s] <= covered'[s], TypeEffects'
  PROVE  Settled \subseteq Settled' /\ Settled' \subseteq 1..Len(log)
  <1>1. Numbers /\ covered' \in [Source -> Nat]
    BY TypedNumbers DEF IInv, TypeEffects
  <1>2. ASSUME NEW i \in Settled PROVE i \in Settled'
    <2>1. i \in 1..Len(log) /\ log[i] \in Event /\ i \in Nat
      BY <1>1 DEF Settled, Numbers
    <2>2. CASE log[i].kind = "notification" /\ i <= covered[log[i].src]
      <3>1. log[i].src \in Source
        BY <2>1 DEF Event
      <3>2. i <= covered'[log[i].src]
        BY <1>1, <2>1, <2>2, <3>1 DEF Numbers
      <3> QED  BY <2>1, <2>2, <3>2 DEF Settled, SettledBy
    <2> QED  BY <2>1, <2>2 DEF Settled, SettledBy
  <1> QED  BY <1>2 DEF Settled

\* A new id has no effect yet.
LEMMA SubmitAllocates ==
  ASSUME IInv, NEW e \in Event, Submit(e)
  PROVE  Contract!Allocate
  <1>1. Numbers /\ EffectsOK
    BY TypedNumbers DEF IInv
  <1>2. /\ Len(log') = Len(log) + 1 /\ log' \in Seq(Event)
        /\ \A i \in 1..Len(log) : log'[i] = log[i]
        /\ UNCHANGED <<relayAck, committed, applied, covered, waived>>
    BY <1>1, AppendFacts DEF Submit, Numbers, cursorVars, effectVars
  <1>3. ASSUME NEW i \in 1..Len(log') PROVE i \in Settled' <=> i \in Settled
    <2>1. CASE i \in 1..Len(log)
      BY <1>2, <2>1 DEF Settled, SettledBy
    <2>2. CASE i = Len(log) + 1
      <3>1. log'[i].src \in Source
        <4>1. log'[i] \in Event
          BY <1>2
        <4> QED  BY <4>1 DEF Event
      <3>2. i \notin applied /\ i \notin waived /\ ~(i <= covered[log'[i].src])
        BY <1>1, <2>2, <3>1 DEF EffectsOK, Numbers
      <3>3. i \notin Settled
        BY <1>1, <2>2 DEF Settled, Numbers
      <3> QED  BY <1>2, <3>2, <3>3 DEF Settled, SettledBy
    <2> QED  BY <1>1, <1>2, <2>1, <2>2 DEF Numbers
  <1>4. Settled' = Settled
    <2>1. Settled' \subseteq 1..Len(log') /\ Settled \subseteq 1..Len(log)
      BY DEF Settled
    <2>2. 1..Len(log) \subseteq 1..Len(log')
      BY <1>1, <1>2 DEF Numbers
    <2> QED  BY <1>3, <2>1, <2>2
  <1> QED  BY <1>2, <1>4 DEF Contract!Allocate

\* What the relay hears moves within what is committed.
LEMMA RelayForgets ==
  ASSUME IInv, IInv', RelayResume \/ RelayAcknowledge
  PROVE  Contract!Forget
  <1>1. UNCHANGED <<log, committed, applied, covered, waived>>
    BY DEF RelayResume, RelayAcknowledge, cursorVars, effectVars
  <1>2. relayAck' = Larger(Head(up).n, relayAck)
    BY DEF RelayResume, RelayAcknowledge
  <1>3. relayAck \in Nat /\ relayAck' \in Nat /\ relayAck' <= committed' /\ committed \in Nat
    BY DEF IInv, TypeOK, TypeRelay, TypeCursor, CursorOK
  <1>4. relayAck <= relayAck'
    <2>1. up # <<>> /\ TypeNet /\ UpOK
      BY DEF RelayResume, RelayAcknowledge, IInv, TypeOK
    <2>2. Head(up) \in UpFrame
      BY <2>1, TailFacts DEF TypeNet
    <2>3. Head(up).n \in Nat
      BY <2>2 DEF UpFrame
    <2> QED  BY <2>3, <1>2, <1>3, <2>2, LargerFacts
  <1>5. relayAck' \in relayAck..committed
    BY <1>1, <1>3, <1>4
  <1> QED  BY <1>1, <1>5, SettledSame DEF Contract!Forget

\* An effect that becomes durable settles fates.
LEMMA EffectSettles ==
  ASSUME IInv, IInv', NEW t \in tasks, Deliver(t) \/ Finish(t) \/ Reconcile(t)
  PROVE  Contract!Settle
  <1>1. UNCHANGED <<log, relayAck, committed>>
    BY DEF Deliver, Finish, Reconcile, relayVars, cursorVars
  <1>2. applied \subseteq applied' /\ waived \subseteq waived'
    BY DEF Deliver, Finish, Reconcile
  <1>3. \A s \in Source : covered[s] <= covered'[s]
    <2>1. covered \in [Source -> Nat] /\ t.n \in Nat
      BY TaskFacts DEF IInv, TypeOK, TypeEffects
    <2>2. covered' = covered \/ covered' = [covered EXCEPT ![t.src] = Larger(@, t.n)]
      BY DEF Deliver, Finish, Reconcile
    <2> QED  BY <2>1, <2>2 DEF Larger
  <1>4. Settled \subseteq Settled' /\ Settled' \subseteq 1..Len(log)
    BY <1>1, <1>2, <1>3, SettledGrows DEF IInv, TypeOK
  <1> QED  BY <1>1, <1>4 DEF Contract!Settle

\* A step that moves the cursor commits a settled prefix of the log.
LEMMA CursorCommits ==
  ASSUME IInv, IInv', NEW t \in tasks, Commit(t) \/ Advance(t), committed' # committed
  PROVE  Contract!Commit
  <1>1. UNCHANGED <<log, relayAck, applied, covered>> /\ waived \subseteq waived'
    BY DEF Commit, Advance, relayVars, effectVars
  <1>2. Settled \subseteq Settled' /\ Settled' \subseteq 1..Len(log)
    <2>1. \A s \in Source : covered[s] <= covered'[s]
      BY <1>1 DEF IInv, TypeOK, TypeEffects
    <2> QED  BY <1>1, <2>1, SettledGrows DEF IInv, TypeOK
  <1>3. Numbers /\ Numbers' /\ committed' <= Len(log)
    BY <1>1, TypedNumbers, TypedNumbersNext DEF IInv, CursorOK
  <1>4. committed' \in committed..Len(log)
    <2>1. committed <= committed'
      <3>1. CASE Commit(t)
        <4>1. committed' = t.n /\ t.n \in {committed, committed + 1}
          BY <3>1 DEF Commit
        <4> QED  BY <1>3, <4>1 DEF Numbers
      <3>2. CASE Advance(t)
        <4>1. committed' = required
          BY <3>2 DEF Advance, cursorVars
        <4> QED  BY <1>3, <4>1 DEF IInv, CursorOK, Numbers, NoReset
      <3> QED  BY <3>1, <3>2
    <2> QED  BY <1>3, <2>1 DEF Numbers
  <1>5. 1..committed' \subseteq Settled'
    BY DEF IInv, NoSilentLoss
  <1> QED  BY <1>1, <1>2, <1>4, <1>5 DEF Contract!Commit

\* Steps of the environment and of connections move neither cursor nor effect.
LEMMA StillSteps ==
  ASSUME Evict \/ RelayDeliver \/ RelayCaughtUp \/ (\E r \in requests : SourceAnswer(r))
         \/ (\E s \in Source : Revoke(s)) \/ ScheduledConnect \/ UserConnect
         \/ Authenticate \/ Drop \/ Crash \/ (\E t \in tasks : LocalFailure(t))
         \/ NextFrame \/ RetryAlarm \/ UNCHANGED vars
  PROVE  UNCHANGED <<log, relayAck, committed, applied, covered, waived>>
  <1>1. CASE Evict
    BY <1>1 DEF Evict, cursorVars, effectVars
  <1>2. CASE RelayDeliver \/ RelayCaughtUp \/ (\E r \in requests : SourceAnswer(r))
             \/ (\E s \in Source : Revoke(s))
    BY <1>2 DEF RelayDeliver, RelayCaughtUp, SourceAnswer, Revoke, relayVars, cursorVars, effectVars
  <1>3. CASE ScheduledConnect \/ UserConnect
    BY <1>3 DEF ScheduledConnect, UserConnect, StartConnection, relayVars, cursorVars, effectVars
  <1>4. CASE Authenticate \/ Drop \/ Crash \/ (\E t \in tasks : LocalFailure(t))
    BY <1>4 DEF Authenticate, Drop, Crash, LocalFailure, relayVars, cursorVars, effectVars
  <1>5. CASE NextFrame \/ RetryAlarm \/ UNCHANGED vars
    BY <1>5 DEF NextFrame, RetryAlarm, vars, relayVars, cursorVars, effectVars
  <1> QED  BY <1>1, <1>2, <1>3, <1>4, <1>5

\* Neither do the steps of a task that only read the cursor, or only mark a reset.
LEMMA StillTasks ==
  ASSUME NEW t \in tasks,
         Acknowledge(t) \/ CompareMarker(t) \/ RequireSnapshot(t) \/ RecordSource(t)
         \/ ResumeAfterReset(t) \/ LoadForBegin(t) \/ Bind(t) \/ Ask(t) \/ LoadForRetry(t)
  PROVE  UNCHANGED <<log, relayAck, committed, applied, covered, waived>>
  <1>1. CASE Acknowledge(t) \/ CompareMarker(t) \/ RequireSnapshot(t)
    BY <1>1 DEF Acknowledge, CompareMarker, RequireSnapshot, relayVars, cursorVars, effectVars
  <1>2. CASE RecordSource(t) \/ ResumeAfterReset(t) \/ LoadForBegin(t)
    BY <1>2 DEF RecordSource, ResumeAfterReset, LoadForBegin, relayVars, cursorVars, effectVars
  <1>3. CASE Bind(t) \/ Ask(t) \/ LoadForRetry(t)
    BY <1>3 DEF Bind, Ask, LoadForRetry, relayVars, cursorVars, effectVars
  <1> QED  BY <1>1, <1>2, <1>3

\* A step of the system is a step of the contract or changes nothing it sees.
LEMMA ContractStep ==
  ASSUME IInv, IInv', [Next]_vars
  PROVE  [Contract!Next]_(Contract!vars)
  <1>1. CASE UNCHANGED <<log, relayAck, committed, applied, covered, waived>>
    BY <1>1, SettledSame DEF Contract!vars
  <1>2. ASSUME NEW e \in Event, Submit(e) PROVE Contract!Next
    BY <1>2, SubmitAllocates DEF Contract!Next
  <1>3. CASE RelayResume \/ RelayAcknowledge
    BY <1>3, RelayForgets DEF Contract!Next
  <1>4. ASSUME NEW t \in tasks, Deliver(t) \/ Finish(t) \/ Reconcile(t) PROVE Contract!Next
    BY <1>4, EffectSettles DEF Contract!Next
  <1>5. ASSUME NEW t \in tasks, Commit(t) \/ Advance(t), committed' # committed
        PROVE  Contract!Next
    BY <1>5, CursorCommits DEF Contract!Next
  <1>6. ASSUME NEW t \in tasks, Commit(t) \/ Advance(t), committed' = committed
        PROVE  [Contract!Next]_(Contract!vars)
    <2>1. UNCHANGED <<log, relayAck, applied, covered>> /\ waived \subseteq waived'
      BY <1>6 DEF Commit, Advance, relayVars, effectVars
    <2>2. Settled \subseteq Settled' /\ Settled' \subseteq 1..Len(log)
      <3>1. \A s \in Source : covered[s] <= covered'[s]
        BY <2>1 DEF IInv, TypeOK, TypeEffects
      <3> QED  BY <2>1, <3>1, SettledGrows DEF IInv, TypeOK
    <2> QED  BY <1>6, <2>1, <2>2 DEF Contract!Next, Contract!Settle
  <1> QED  BY <1>1, <1>2, <1>3, <1>4, <1>5, <1>6, StillSteps, StillTasks DEF Next, Relay, Step

\* The delivery pipeline implements the promise of durable delivery: every step of
\* it is a step of the contract or none.
THEOREM ContractKept == Spec => KeepsContract
  <1>1. Init => Contract!Init
    <2> SUFFICES ASSUME Init PROVE Contract!Init
      OBVIOUS
    <2>1. Len(log) = 0
      BY DEF Init
    <2>2. Settled = {}
      BY <2>1 DEF Settled
    <2> QED  BY <2>1, <2>2 DEF Init, Contract!Init
  <1>2. IInv /\ IInv' /\ [Next]_vars => [Contract!Next]_(Contract!vars)
    BY ContractStep
  <1> QED  BY <1>1, <1>2, Invariance, PTL DEF Spec, KeepsContract, Contract!Spec

\* No step moves the cursor back, or far without a completed recovery.
LEMMA CursorStep ==
  ASSUME IInv, [Next]_vars
  PROVE  /\ committed' >= committed
         /\ committed' > committed + 1 => recovery # NoSession /\ Complete(recovery)
  <1>1. Numbers
    BY TypedNumbers DEF IInv
  <1>2. CASE committed' = committed
    BY <1>1, <1>2 DEF Numbers
  <1>3. ASSUME NEW t \in tasks, Commit(t), committed' # committed
        PROVE  committed' = committed + 1
    BY <1>3 DEF Commit
  <1>4. ASSUME NEW t \in tasks, Advance(t), committed' # committed
        PROVE  committed' >= committed /\ recovery # NoSession /\ Complete(recovery)
    <2>1. committed' = required /\ recovery.req = t.req /\ Complete(recovery)
      BY <1>4 DEF Advance, cursorVars
    <2>2. t.req \in 1..nextReq
      BY <1>4, TaskFacts DEF Advance, TaskOK
    <2>3. recovery # NoSession
      BY <1>1, <2>1, <2>2 DEF NoSession, Numbers
    <2>4. required >= committed
      BY <1>1, <2>1, <2>2 DEF IInv, SessionOK, CursorOK, Numbers
    <2> QED  BY <2>1, <2>3, <2>4
  <1>5. ASSUME NEW e \in Event, Submit(e) PROVE committed' = committed
    BY <1>5 DEF Submit, cursorVars
  <1>6. CASE RelayResume \/ RelayAcknowledge
    BY <1>2, <1>6 DEF RelayResume, RelayAcknowledge, cursorVars
  <1>7. ASSUME NEW t \in tasks, Deliver(t) \/ Finish(t) \/ Reconcile(t)
        PROVE  committed' = committed
    BY <1>7 DEF Deliver, Finish, Reconcile, cursorVars
  <1>8. CASE \E t \in tasks : Commit(t) \/ Advance(t)
    BY <1>1, <1>2, <1>3, <1>4, <1>8 DEF Numbers
  <1> QED  BY <1>2, <1>5, <1>6, <1>7, <1>8, StillSteps, StillTasks DEF Next, Relay, Step

\* The committed cursor never goes back, and leaps only over a completed recovery.
THEOREM CursorMonotone == Spec => CursorAdvances
  <1>1. IInv /\ [Next]_vars =>
          [/\ committed' >= committed
           /\ committed' > committed + 1 => recovery # NoSession /\ Complete(recovery)]_vars
    BY CursorStep
  <1> QED  BY <1>1, Invariance, PTL DEF Spec, CursorAdvances

-----------------------------------------------------------------------------
(* While history is retained, every frame fits the cursor.  A resume and    *)
(* the frames behind it are numbered from the cursor of its moment; a task  *)
(* of an older connection may commit the one delivery after it meanwhile,   *)
(* and no other.                                                            *)

Work == {"deliver", "finish", "commit"}
Mine(t) == t.owner = "inbound" /\ t.gen = gen

\* Without an eviction there is no reset, and no recovery.
Retained(t) ==
  \/ t.owner = "inbound" /\ t.pc \in Work \cup {"ack", "compare"} /\ t.gen <= gen
  \/ t.owner = "retry" /\ t.pc = "load"
History ==
  /\ evicted = 0 /\ evictions = 0 /\ link.mode # "reset"
  /\ required = NoReset /\ recovery = NoSession /\ requests = {}
  /\ \A t \in tasks : Retained(t)

\* No delivery beyond m is being worked on.
Behind(m) == \A u \in tasks : u.pc \in Work => u.n <= m
Reach == \A u \in tasks : u.pc \in Work => u.n <= committed + 1
Working == \E t \in tasks : Mine(t) /\ t.pc \in Work
Single == \A t, u \in tasks : Mine(t) /\ Mine(u) => t = u

\* The frames on the wire continue from base without a gap, and a marker was
\* sent after everything anybody works on.
Chain(base) ==
  /\ \A k \in 1..Len(down) :
       /\ down[k].type \in {"delivery", "caughtup"}
       /\ down[k].n = (IF k = 1 THEN base ELSE down[k - 1].n)
                        + (IF down[k].type = "delivery" THEN 1 ELSE 0)
       /\ base <= down[k].n /\ down[k].n < link.next
       /\ \A i \in 1..k : down[i].n <= down[k].n
  /\ link.next = (IF down = <<>> THEN base ELSE down[Len(down)].n) + 1
Markers ==
  \A k \in 1..Len(down) :
    down[k].type = "caughtup" =>
      /\ \A u \in tasks : u.pc \in Work => u.n <= down[k].n
      /\ committed <= down[k].n

\* The last frame taken from the wire was base: it is being worked on, or the
\* cursor has it.
Place(base) ==
  IF Working THEN Behind(base) /\ committed \in {base - 1, base}
  ELSE Behind(base + 1) /\ committed \in {base, base + 1}
Taking(base) ==
  \A t \in tasks : Mine(t) =>
    /\ t.n = base
    /\ t.pc = "compare" => Behind(base) /\ committed = base
OnlyAcks == \A k \in 1..Len(up) : up[k].type = "ack"

Live(base) == Chain(base) /\ Markers /\ Place(base) /\ Taking(base)
Asking(c) ==
  /\ Len(up) = 1 /\ up[1].type = "resume" /\ up[1].n = c
  /\ Behind(c + 1) /\ committed \in {c, c + 1} /\ relayAck <= c

IdleConn == link.mode = "idle" => sock = "closed" /\ down = <<>> /\ up = <<>>
OpenConn ==
  link.mode = "open" =>
    /\ down = <<>> /\ \A t \in tasks : ~Mine(t)
    /\ \/ sock = "opening" /\ up = <<>>
       \/ sock = "authenticated" /\ \E c \in Nat : Asking(c)
LiveConn ==
  link.mode = "live" =>
    /\ sock = "authenticated" /\ Single /\ OnlyAcks
    /\ \E base \in Nat : Live(base)

FramesInv == History /\ Reach /\ IdleConn /\ OpenConn /\ LiveConn

\* What the type invariant says of the numbers.
LEMMA FrameNumbers ==
  ASSUME IInv
  PROVE  /\ committed \in Nat /\ relayAck \in Nat /\ gen \in Nat /\ Len(log) \in Nat
         /\ relayAck <= committed /\ committed <= Len(log)
         /\ link.next \in Nat /\ link.mode \in {"idle", "open", "live", "reset"}
         /\ down \in Seq(DownFrame) /\ Len(down) \in Nat
         /\ \A k \in 1..Len(down) : down[k] \in DownFrame /\ down[k].n \in Nat
                                    /\ down[k].n <= Len(log)
         /\ up \in Seq(UpFrame) /\ Len(up) \in Nat
         /\ \A t \in tasks : t \in Task /\ t.n \in Nat /\ t.gen \in Nat
         /\ \A t \in tasks : t.pc \in Work => t.n \in 1..Len(log)
  <1>1. TypeOK /\ CursorOK /\ DownOK /\ TasksOK  BY DEF IInv
  <1>2. log \in Seq(Event) /\ down \in Seq(DownFrame) /\ up \in Seq(UpFrame)
    BY <1>1 DEF TypeOK, TypeRelay, TypeNet
  <1>3. \A k \in 1..Len(down) : down[k] \in DownFrame /\ down[k].n \in Nat
                                /\ down[k].n <= Len(log)
    <2> SUFFICES ASSUME NEW k \in 1..Len(down)
                 PROVE down[k] \in DownFrame /\ down[k].n \in Nat /\ down[k].n <= Len(log)
      OBVIOUS
    <2>1. down[k] \in DownFrame  BY <1>2
    <2>2. FrameOK(down[k])  BY <1>1 DEF DownOK
    <2> QED  BY <2>1, <2>2 DEF DownFrame, FrameOK
  <1>4. \A t \in tasks : t \in Task /\ t.n \in Nat /\ t.gen \in Nat
    BY <1>1 DEF TypeOK, TypeTasks, Task
  <1>5. \A t \in tasks : t.pc \in Work => t.n \in 1..Len(log)
    BY <1>1 DEF TasksOK, TaskOK, Work
  <1>6. Len(down) \in Nat /\ Len(up) \in Nat /\ Len(log) \in Nat  BY <1>2
  <1>7. committed \in Nat /\ relayAck \in Nat /\ gen \in Nat
        /\ relayAck <= committed /\ committed <= Len(log)
        /\ link.next \in Nat /\ link.mode \in {"idle", "open", "live", "reset"}
    BY <1>1 DEF TypeOK, TypeCursor, TypeRelay, TypeConn, TypeNet, CursorOK
  <1> QED  BY <1>2, <1>3, <1>4, <1>5, <1>6, <1>7

-----------------------------------------------------------------------------
(* Tasks that go on or end, and connections that end.                       *)

StoredStill ==
  UNCHANGED <<evicted, evictions, required, recovery, requests, committed, relayAck, gen>>

Like(u, t) ==
  /\ u.owner = t.owner /\ u.gen = t.gen /\ u.n = t.n
  /\ u.pc \in Work <=> t.pc \in Work
  /\ u.pc \notin Work => u = t
Eased ==
  /\ \A u \in tasks' : \E t \in tasks : Like(u, t)
  /\ Single => Single'
  /\ Working => Working'

LEMMA EasedFits ==
  ASSUME IInv, FramesInv, StoredStill, UNCHANGED <<link, down, sock>>, Eased,
         up' = up \/ (link.mode = "live" /\ OnlyAcks')
  PROVE  FramesInv'
  <1>1. ASSUME NEW m, Behind(m) PROVE Behind(m)'
    BY <1>1 DEF Behind, Eased, Like
  <1>2. \A u \in tasks' : Mine(u)' => \E t \in tasks : Mine(t) /\ Like(u, t)
    BY DEF Eased, Like, Mine, StoredStill
  <1>3. Working' <=> Working
    BY <1>2 DEF Eased, Working, Like
  <1>4. \A u \in tasks' : Retained(u)'
    <2> SUFFICES ASSUME NEW u \in tasks' PROVE Retained(u)'  OBVIOUS
    <2>1. PICK t \in tasks : Like(u, t)  BY DEF Eased
    <2>2. Retained(t)  BY DEF FramesInv, History
    <2>3. gen' = gen  BY DEF StoredStill
    <2>4. CASE u.pc \in Work
      <3>1. t.pc \in Work /\ u.owner = t.owner /\ u.gen = t.gen  BY <2>1, <2>4 DEF Like
      <3>2. t.pc # "load"  BY <3>1 DEF Work
      <3>3. t.owner = "inbound" /\ t.gen <= gen  BY <2>2, <3>2 DEF Retained
      <3> QED  BY <2>3, <2>4, <3>1, <3>3 DEF Retained
    <2>5. CASE u.pc \notin Work
      <3>1. u = t  BY <2>1, <2>5 DEF Like
      <3> QED  BY <2>2, <2>3, <3>1 DEF Retained
    <2> QED  BY <2>4, <2>5
  <1>5. History' /\ Reach'
    <2>1. History'  BY <1>4 DEF FramesInv, History, StoredStill
    <2>2. Reach'
      <3> SUFFICES ASSUME NEW u \in tasks', u.pc \in Work PROVE u.n <= committed' + 1
        BY DEF Reach
      <3>1. PICK t \in tasks : u.n = t.n /\ t.pc \in Work  BY DEF Eased, Like
      <3> QED  BY <3>1 DEF FramesInv, Reach, StoredStill
    <2> QED  BY <2>1, <2>2
  <1>6. IdleConn'
    <2>1. link.mode = "idle" => up' = up  OBVIOUS
    <2>2. IdleConn  BY DEF FramesInv
    <2> QED  BY <2>1, <2>2 DEF IdleConn
  <1>7. OpenConn'
    <2> SUFFICES ASSUME link.mode = "open"
                 PROVE  /\ down = <<>> /\ \A t \in tasks' : ~Mine(t)'
                        /\ \/ sock = "opening" /\ up = <<>>
                           \/ sock = "authenticated" /\ \E c \in Nat : Asking(c)'
      BY DEF OpenConn
    <2>1. up' = up  OBVIOUS
    <2>2. \A c \in Nat : Asking(c) => Asking(c)'
      BY <1>1, <2>1 DEF Asking, StoredStill
    <2> QED  BY <1>2, <2>2 DEF FramesInv, OpenConn
  <1>8. LiveConn'
    <2> SUFFICES ASSUME link.mode = "live"
                 PROVE  sock = "authenticated" /\ Single' /\ OnlyAcks'
                        /\ \E base \in Nat : Live(base)'
      BY DEF LiveConn
    <2>1. sock = "authenticated" /\ Single /\ OnlyAcks  BY DEF FramesInv, LiveConn
    <2>2. PICK base \in Nat : Live(base)  BY DEF FramesInv, LiveConn
    <2>3. Chain(base)'  BY <2>2 DEF Live, Chain
    <2>4. Markers'  BY <2>2 DEF Live, Markers, Eased, Like, StoredStill
    <2>5. Place(base)'  BY <1>1, <1>3, <2>2 DEF Live, Place, StoredStill
    <2>6. Taking(base)'
      <3> SUFFICES ASSUME NEW u \in tasks', Mine(u)'
                   PROVE  u.n = base /\ (u.pc = "compare" => Behind(base)' /\ committed' = base)
        BY DEF Taking
      <3>1. PICK t \in tasks : Mine(t) /\ Like(u, t)  BY <1>2
      <3>2. u.pc = "compare" => u = t  BY <3>1 DEF Like, Work
      <3>3. Behind(base) => Behind(base)'  BY <1>1
      <3> QED  BY <2>2, <3>1, <3>2, <3>3 DEF Live, Taking, Like, StoredStill
    <2>7. OnlyAcks'  BY <2>1 DEF OnlyAcks
    <2> QED  BY <2>1, <2>3, <2>4, <2>5, <2>6, <2>7 DEF Live, Eased
  <1> QED  BY <1>5, <1>6, <1>7, <1>8 DEF FramesInv

\* A task ends, unless it is the one at work on this connection.
LEMMA EndEases ==
  ASSUME NEW t \in tasks, Continue(t, {}), gen' = gen, ~(Mine(t) /\ t.pc \in Work)
  PROVE  Eased
  <1>1. tasks' = tasks \ {t}  BY DEF Continue
  <1>2. \A u \in tasks' : u \in tasks /\ Like(u, u)  BY <1>1 DEF Like
  <1>3. Single => Single'  BY <1>1 DEF Single, Mine
  <1>4. Working => Working'  BY <1>1 DEF Working, Mine
  <1> QED  BY <1>2, <1>3, <1>4 DEF Eased

\* A task goes from one step of its work to the next.
LEMMA MoveEases ==
  ASSUME IInv, NEW t \in tasks, NEW pc \in Work, t.pc \in Work,
         Continue(t, {[t EXCEPT !.pc = pc]}), gen' = gen
  PROVE  Eased
  <1>0. t \in Task  BY FrameNumbers
  <1>1. PICK v : v = [t EXCEPT !.pc = pc]  OBVIOUS
  <1>2. v.owner = t.owner /\ v.gen = t.gen /\ v.n = t.n /\ v.pc = pc
    BY <1>0, <1>1 DEF Task
  <1>3. tasks' = (tasks \ {t}) \cup {v}  BY <1>1 DEF Continue
  <1>4. \A u \in tasks' : \E w \in tasks : Like(u, w)
    <2>1. Like(v, t)  BY <1>2 DEF Like
    <2>2. \A u \in tasks : Like(u, u)  BY DEF Like
    <2> QED  BY <1>3, <2>1, <2>2
  <1>5. Single => Single'  BY <1>2, <1>3 DEF Single, Mine
  <1>6. Working => Working'  BY <1>2, <1>3 DEF Working, Mine
  <1> QED  BY <1>4, <1>5, <1>6 DEF Eased

\* The connection ends; what runs goes on.
LEMMA EndedFits ==
  ASSUME IInv, FramesInv, Disconnected, StoredStill, tasks' \subseteq tasks
  PROVE  FramesInv'
  <1>1. link'.mode = "idle" /\ sock' = "closed" /\ down' = <<>> /\ up' = <<>>
    BY DEF Disconnected, Idle
  <1>2. History' /\ Reach'
    BY <1>1 DEF FramesInv, History, Reach, Retained, StoredStill
  <1> QED  BY <1>1, <1>2 DEF FramesInv, IdleConn, OpenConn, LiveConn

LEMMA ThrowFits ==
  ASSUME IInv, FramesInv, NEW t \in tasks, Throw(t),
         UNCHANGED <<evicted, evictions, required, recovery, requests, committed, relayAck>>
  PROVE  FramesInv'
  <1>1. Continue(t, {}) /\ gen' = gen  BY DEF Throw
  <1>2. StoredStill  BY <1>1 DEF StoredStill
  <1>3. t.owner \in {"inbound", "retry"}  BY DEF FramesInv, History, Retained
  <1>4. CASE Mine(t)
    <2>1. Disconnected  BY <1>4 DEF Mine, Throw
    <2> QED  BY <1>1, <1>2, <2>1, EndedFits DEF Continue
  <1>5. CASE ~Mine(t)
    <2>1. UNCHANGED <<sock, link, down, up>>  BY <1>3, <1>5 DEF Mine, Throw
    <2> QED  BY <1>1, <1>2, <1>5, <2>1, EndEases, EasedFits
  <1> QED  BY <1>4, <1>5

-----------------------------------------------------------------------------
(* The relay.                                                               *)

\* The parts of Live that say nothing of the wire.
LEMMA LiveStill ==
  ASSUME NEW base, Live(base), UNCHANGED <<tasks, gen, committed>>
  PROVE  Place(base)' /\ Taking(base)'
  BY DEF Live, Place, Taking, Working, Behind, Mine

\* Nothing but the wire and the link changes, on a live connection.
LEMMA WireFits ==
  ASSUME FramesInv, StoredStill, UNCHANGED <<tasks, sock>>,
         link.mode = "live", link'.mode = "live", OnlyAcks',
         \A base \in Nat : Live(base) => Chain(base)' /\ Markers'
  PROVE  FramesInv'
  <1>1. History' /\ Reach'
    BY DEF FramesInv, History, Reach, Retained, StoredStill
  <1>2. sock = "authenticated" /\ Single /\ \E base \in Nat : Live(base)
    BY DEF FramesInv, LiveConn
  <1>3. PICK base \in Nat : Live(base)  BY <1>2
  <1>4. Live(base)'  BY <1>3, LiveStill DEF Live, StoredStill
  <1>5. Single'  BY <1>2 DEF Single, Mine, StoredStill
  <1> QED  BY <1>1, <1>2, <1>4, <1>5 DEF FramesInv, IdleConn, OpenConn, LiveConn

LEMMA RelayResumeFits ==
  ASSUME IInv, FramesInv, RelayResume
  PROVE  FramesInv'
  <1>0. up \in Seq(UpFrame) /\ up # <<>> /\ Head(up) = up[1] /\ Len(up) >= 1
        /\ up[1].type = "resume" /\ up' = Tail(up) /\ relayAck \in Nat /\ committed \in Nat
    BY FrameNumbers DEF RelayResume
  <1>1. link.mode = "open"
    <2>1. link.mode # "live"  BY <1>0 DEF FramesInv, LiveConn, OnlyAcks
    <2>2. link.mode # "idle"  BY <1>0 DEF FramesInv, IdleConn
    <2> QED  BY <2>1, <2>2, FrameNumbers DEF FramesInv, History
  <1>2. sock = "authenticated" /\ down = <<>> /\ \A t \in tasks : ~Mine(t)
    BY <1>0, <1>1 DEF FramesInv, OpenConn
  <1>3. PICK c \in Nat : Asking(c)  BY <1>0, <1>1 DEF FramesInv, OpenConn
  <1>4. Larger(Head(up).n, relayAck) = c  BY <1>0, <1>3 DEF Larger, Asking
  <1>5. ~(c < evicted)  BY <1>3 DEF FramesInv, History
  <1>6. /\ link' = [mode |-> "live", next |-> c + 1, marked |-> FALSE] /\ down' = down
        /\ UNCHANGED <<evicted, evictions, requests, gen, sock, tasks, committed, required,
                       recovery>>
    BY <1>4, <1>5 DEF RelayResume, connVars, cursorVars
  <1>7. up' = <<>>
    <2>1. Len(up) = 1  BY <1>3 DEF Asking
    <2> QED  BY <1>0, <2>1
  <1>8. link'.mode = "live" /\ link'.next = c + 1  BY <1>6
  <1>9. History' /\ Reach'
    BY <1>6, <1>8 DEF FramesInv, History, Reach, Retained
  <1>10. \A t \in tasks' : ~Mine(t)'  BY <1>2, <1>6 DEF Mine
  <1>11. Live(c)'
    <2>1. Chain(c)'  BY <1>2, <1>6, <1>8 DEF Chain
    <2>2. Markers'  BY <1>2, <1>6 DEF Markers
    <2>3. Place(c)'  BY <1>3, <1>6, <1>10 DEF Place, Working, Asking, Behind
    <2>4. Taking(c)'  BY <1>10 DEF Taking
    <2> QED  BY <2>1, <2>2, <2>3, <2>4 DEF Live
  <1>12. Single' /\ OnlyAcks'  BY <1>7, <1>10 DEF Single, OnlyAcks
  <1> QED  BY <1>2, <1>6, <1>8, <1>9, <1>11, <1>12 DEF FramesInv, IdleConn, OpenConn, LiveConn

LEMMA RelayAcknowledgeFits ==
  ASSUME IInv, FramesInv, RelayAcknowledge
  PROVE  FramesInv'
  <1>0. up \in Seq(UpFrame) /\ up # <<>> /\ Head(up) = up[1] /\ Len(up) >= 1
        /\ up[1].type = "ack" /\ up' = Tail(up)
    BY FrameNumbers DEF RelayAcknowledge
  <1>1. link.mode = "live"
    <2>1. link.mode # "open"  BY <1>0 DEF FramesInv, OpenConn, Asking
    <2>2. link.mode # "idle"  BY <1>0 DEF FramesInv, IdleConn
    <2> QED  BY <2>1, <2>2, FrameNumbers DEF FramesInv, History
  <1>2. OnlyAcks'
    <2>1. OnlyAcks  BY <1>1 DEF FramesInv, LiveConn
    <2>2. Len(up') = Len(up) - 1 /\ \A k \in 1..Len(up') : up'[k] = up[k + 1]  BY <1>0
    <2>3. \A k \in 1..Len(up') : k + 1 \in 1..Len(up)  BY <1>0, <2>2
    <2> QED  BY <2>1, <2>2, <2>3 DEF OnlyAcks
  <1>3. UNCHANGED <<evicted, evictions, link, down, requests, gen, sock, tasks, committed,
                    required, recovery>>
    BY DEF RelayAcknowledge, connVars, cursorVars
  <1>4. History' /\ Reach'
    BY <1>3 DEF FramesInv, History, Reach, Retained
  <1>5. PICK base \in Nat : Live(base)  BY <1>1 DEF FramesInv, LiveConn
  <1>6. Live(base)'
    <2>1. Chain(base)' /\ Markers'  BY <1>3, <1>5 DEF Live, Chain, Markers
    <2> QED  BY <1>3, <1>5, <2>1, LiveStill DEF Live
  <1>7. Single'  BY <1>1, <1>3 DEF FramesInv, LiveConn, Single, Mine
  <1>8. sock' = "authenticated" /\ link'.mode = "live"  BY <1>1, <1>3 DEF FramesInv, LiveConn
  <1> QED  BY <1>2, <1>4, <1>6, <1>7, <1>8 DEF FramesInv, IdleConn, OpenConn, LiveConn

\* A frame joins the wire behind the others.
LEMMA AppendFits ==
  ASSUME IInv, NEW base \in Nat, Live(base), NEW f \in DownFrame, down' = Append(down, f),
         f.type \in {"delivery", "caughtup"},
         f.n = link.next - 1 + (IF f.type = "delivery" THEN 1 ELSE 0),
         link'.next = f.n + 1, UNCHANGED <<tasks, committed>>,
         f.type = "caughtup" =>
           committed <= f.n /\ \A u \in tasks : u.pc \in Work => u.n <= f.n
  PROVE  Chain(base)' /\ Markers'
  <1>0. /\ down \in Seq(DownFrame) /\ Len(down) \in Nat /\ link.next \in Nat
        /\ \A k \in 1..Len(down) : down[k].n \in Nat
    BY FrameNumbers
  <1>1. /\ down' \in Seq(DownFrame) /\ Len(down') = Len(down) + 1
        /\ \A k \in 1..Len(down) : down'[k] = down[k]
        /\ down'[Len(down) + 1] = f
    BY <1>0, AppendFacts
  <1>2. Chain(base) /\ Markers  BY DEF Live
  <1>3. /\ base <= link.next - 1 /\ \A k \in 1..Len(down) : down[k].n <= link.next - 1
        /\ link.next - 1 \in Nat
    <2>1. CASE down = <<>>  BY <1>0, <1>2, <2>1 DEF Chain
    <2>2. CASE down # <<>>
      <3>1. Len(down) \in 1..Len(down)  BY <1>0, <2>2
      <3> QED  BY <1>0, <1>2, <2>2, <3>1 DEF Chain
    <2> QED  BY <2>1, <2>2
  <1>4. f.n \in Nat /\ f.n >= link.next - 1  BY <1>0, <1>3
  <1>5. f.n = (IF Len(down) + 1 = 1 THEN base ELSE down'[(Len(down) + 1) - 1].n)
                + (IF f.type = "delivery" THEN 1 ELSE 0)
    <2>1. CASE down = <<>>
      <3>1. Len(down) = 0  BY <2>1
      <3>2. link.next = base + 1  BY <1>2, <2>1 DEF Chain
      <3> QED  BY <3>1, <3>2
    <2>2. CASE down # <<>>
      <3>1. Len(down) >= 1 /\ Len(down) \in 1..Len(down)  BY <1>0, <2>2
      <3>2. link.next = down[Len(down)].n + 1  BY <1>2, <2>2 DEF Chain
      <3>3. down'[(Len(down) + 1) - 1] = down[Len(down)]  BY <1>0, <1>1, <3>1
      <3>4. down[Len(down)].n \in Nat  BY <1>0, <3>1
      <3> QED  BY <1>0, <3>1, <3>2, <3>3, <3>4
    <2> QED  BY <2>1, <2>2
  <1>6. ASSUME NEW k \in 1..Len(down')
        PROVE  /\ down'[k].type \in {"delivery", "caughtup"}
               /\ down'[k].n = (IF k = 1 THEN base ELSE down'[k - 1].n)
                                 + (IF down'[k].type = "delivery" THEN 1 ELSE 0)
               /\ base <= down'[k].n /\ down'[k].n < link'.next
               /\ \A i \in 1..k : down'[i].n <= down'[k].n
               /\ down'[k].type = "caughtup" =>
                    /\ \A u \in tasks' : u.pc \in Work => u.n <= down'[k].n
                    /\ committed' <= down'[k].n
    <2>1. CASE k = Len(down) + 1
      <3>1. down'[k] = f  BY <1>1, <2>1
      <3>2. \A i \in 1..k : i = k \/ i \in 1..Len(down)  BY <1>0, <2>1
      <3>3. \A i \in 1..k : down'[i].n <= f.n
        BY <1>0, <1>1, <1>3, <1>4, <3>1, <3>2
      <3>4. base <= f.n /\ f.n < link'.next  BY <1>0, <1>3, <1>4
      <3> QED  BY <1>5, <2>1, <3>1, <3>3, <3>4
    <2>2. CASE k # Len(down) + 1
      <3>1. k \in 1..Len(down)  BY <1>0, <1>1, <2>2
      <3>2. down'[k] = down[k] /\ \A i \in 1..k : down'[i] = down[i]
        <4>1. \A i \in 1..k : i \in 1..Len(down)  BY <1>0, <3>1
        <4> QED  BY <1>1, <3>1, <4>1
      <3>3. k # 1 => down'[k - 1] = down[k - 1]
        <4>1. k # 1 => k - 1 \in 1..Len(down)  BY <1>0, <3>1
        <4> QED  BY <1>1, <4>1
      <3>4. down[k].n < link'.next  BY <1>0, <1>3, <1>4, <3>1
      <3>5. /\ down[k].type \in {"delivery", "caughtup"}
            /\ down[k].n = (IF k = 1 THEN base ELSE down[k - 1].n)
                             + (IF down[k].type = "delivery" THEN 1 ELSE 0)
            /\ base <= down[k].n
            /\ \A i \in 1..k : down[i].n <= down[k].n
        BY <1>2, <3>1 DEF Chain
      <3>6. down[k].type = "caughtup" =>
              /\ \A u \in tasks : u.pc \in Work => u.n <= down[k].n
              /\ committed <= down[k].n
        BY <1>2, <3>1 DEF Markers
      <3> QED  BY <3>2, <3>3, <3>4, <3>5, <3>6
    <2> QED  BY <2>1, <2>2
  <1>7. link'.next = (IF down' = <<>> THEN base ELSE down'[Len(down')].n) + 1
    <2>1. down' # <<>>  BY <1>0, <1>1
    <2>2. down'[Len(down')] = f  BY <1>1
    <2> QED  BY <2>1, <2>2
  <1>8. Chain(base)'  BY <1>6, <1>7 DEF Chain
  <1>9. Markers'  BY <1>6 DEF Markers
  <1> QED  BY <1>8, <1>9

LEMMA RelayDeliverFits ==
  ASSUME IInv, FramesInv, RelayDeliver
  PROVE  FramesInv'
  <1>0. link.mode = "live" /\ link.next \in Nat /\ link.next >= 1
    BY FrameNumbers DEF RelayDeliver, IInv, LinkOK
  <1>1. link.next > evicted  BY <1>0 DEF FramesInv, History
  <1>2. PICK f : f = Frame("delivery", link.next, None, 0)  OBVIOUS
  <1>3. f \in DownFrame /\ f.type = "delivery" /\ f.n = link.next
    BY <1>0, <1>2 DEF Frame, DownFrame
  <1>4. down' = Append(down, f) /\ link' = [link EXCEPT !.next = @ + 1]
    BY <1>1, <1>2 DEF RelayDeliver
  <1>5. link'.mode = "live" /\ link'.next = link.next + 1
    BY <1>0, <1>4 DEF IInv, TypeOK, TypeNet
  <1>6. StoredStill /\ UNCHANGED <<tasks, sock, up>>
    BY DEF RelayDeliver, StoredStill, relayVars, connVars, cursorVars
  <1>7. OnlyAcks'  BY <1>0, <1>6 DEF FramesInv, LiveConn, OnlyAcks
  <1>8. ASSUME NEW base \in Nat, Live(base) PROVE Chain(base)' /\ Markers'
    <2>1. f.n = link.next - 1 + (IF f.type = "delivery" THEN 1 ELSE 0)  BY <1>0, <1>3
    <2>2. UNCHANGED <<tasks, committed>>  BY <1>6 DEF StoredStill
    <2> QED  BY <1>3, <1>4, <1>5, <1>8, <2>1, <2>2, AppendFits
  <1> QED  BY <1>0, <1>5, <1>6, <1>7, <1>8, WireFits

\* Where the wire ends: base is a delivery of the log.
LEMMA LiveInLog ==
  ASSUME IInv, FramesInv, NEW base \in Nat, Live(base)
  PROVE  link.next - 1 <= Len(log)
  <1>1. base <= Len(log)
    <2>1. CASE Working
      <3>1. PICK t \in tasks : Mine(t) /\ t.pc \in Work  BY <2>1 DEF Working
      <3>2. t.n = base  BY <3>1 DEF Live, Taking
      <3> QED  BY <3>1, <3>2, FrameNumbers
    <2>2. CASE ~Working
      <3>1. base <= committed  BY <2>2, FrameNumbers DEF Live, Place
      <3> QED  BY <3>1, FrameNumbers
    <2> QED  BY <2>1, <2>2
  <1>2. CASE down = <<>>  BY <1>1, <1>2, FrameNumbers DEF Live, Chain
  <1>3. CASE down # <<>>
    <2>1. Len(down) \in 1..Len(down)  BY <1>3, FrameNumbers
    <2>2. link.next = down[Len(down)].n + 1  BY <1>3 DEF Live, Chain
    <2> QED  BY <2>1, <2>2, FrameNumbers
  <1> QED  BY <1>2, <1>3

LEMMA RelayCaughtUpFits ==
  ASSUME IInv, FramesInv, RelayCaughtUp
  PROVE  FramesInv'
  <1>0. link.mode = "live" /\ link.next \in Nat /\ link.next > Len(log) /\ Len(log) \in Nat
    BY FrameNumbers DEF RelayCaughtUp
  <1>2. PICK f : f = Frame("caughtup", Len(log), None, 0)  OBVIOUS
  <1>3. f \in DownFrame /\ f.type = "caughtup" /\ f.n = Len(log)
    BY <1>0, <1>2 DEF Frame, DownFrame
  <1>4. down' = Append(down, f) /\ link' = [link EXCEPT !.marked = TRUE]
    BY <1>2 DEF RelayCaughtUp
  <1>5. link'.mode = "live" /\ link'.next = link.next
    BY <1>0, <1>4 DEF IInv, TypeOK, TypeNet
  <1>6. StoredStill /\ UNCHANGED <<tasks, sock, up>>
    BY DEF RelayCaughtUp, StoredStill, relayVars, connVars, cursorVars
  <1>7. OnlyAcks'  BY <1>0, <1>6 DEF FramesInv, LiveConn, OnlyAcks
  <1>8. ASSUME NEW base \in Nat, Live(base) PROVE Chain(base)' /\ Markers'
    <2>1. link.next - 1 <= Len(log)  BY <1>8, LiveInLog
    <2>2. link.next = Len(log) + 1  BY <1>0, <2>1
    <2>3. f.n = link.next - 1 + (IF f.type = "delivery" THEN 1 ELSE 0) /\ link'.next = f.n + 1
      BY <1>0, <1>3, <1>5, <2>2
    <2>4. committed <= f.n /\ \A u \in tasks : u.pc \in Work => u.n <= f.n
      BY <1>0, <1>3, FrameNumbers
    <2>5. UNCHANGED <<tasks, committed>>  BY <1>6 DEF StoredStill
    <2> QED  BY <1>3, <1>4, <1>8, <2>3, <2>4, <2>5, AppendFits
  <1> QED  BY <1>0, <1>5, <1>6, <1>7, <1>8, WireFits

-----------------------------------------------------------------------------
(* Connections, and the steps of the tasks.                                 *)

LEMMA ConnectFits ==
  ASSUME IInv, FramesInv, ScheduledConnect \/ UserConnect
  PROVE  FramesInv'
  <1>1. StartConnection  BY DEF ScheduledConnect, UserConnect
  <1>2. /\ gen' = gen + 1 /\ sock' = "opening" /\ down' = <<>> /\ up' = <<>>
        /\ link'.mode = "open"
        /\ UNCHANGED <<evicted, evictions, tasks, requests, required, recovery, committed>>
    BY <1>1 DEF StartConnection, Idle, relayVars, cursorVars
  <1>3. gen \in Nat /\ \A t \in tasks : t.gen \in Nat  BY FrameNumbers
  <1>4. \A t \in tasks : t.owner = "inbound" => t.gen <= gen
    BY DEF FramesInv, History, Retained
  <1>5. \A t \in tasks' : ~Mine(t)'  BY <1>2, <1>3, <1>4 DEF Mine
  <1>6. \A t \in tasks' : Retained(t)'
    BY <1>2, <1>3 DEF FramesInv, History, Retained
  <1>7. History' /\ Reach'
    BY <1>2, <1>6 DEF FramesInv, History, Reach
  <1> QED  BY <1>2, <1>5, <1>7 DEF FramesInv, IdleConn, OpenConn, LiveConn

LEMMA AuthenticateFits ==
  ASSUME IInv, FramesInv, Authenticate
  PROVE  FramesInv'
  <1>0. committed \in Nat /\ relayAck <= committed  BY FrameNumbers
  <1>1. sock = "opening" /\ sock' = "authenticated"
        /\ UNCHANGED <<evicted, evictions, relayAck, link, down, requests, gen, committed,
                       required, recovery>>
    BY DEF Authenticate, relayVars, cursorVars
  <1>2. link.mode = "open"
    BY <1>1, FrameNumbers DEF FramesInv, History, IdleConn, LiveConn
  <1>3. up = <<>> /\ down = <<>> /\ \A t \in tasks : ~Mine(t)
    BY <1>1, <1>2 DEF FramesInv, OpenConn
  <1>4. PICK v : v = NewTask("retry", 0, "load", 0)  OBVIOUS
  <1>5. v.owner = "retry" /\ v.pc = "load" /\ tasks' = tasks \cup {v}
    BY <1>4 DEF NewTask, Authenticate
  <1>6. \A t \in tasks' : ~Mine(t)'  BY <1>1, <1>3, <1>5 DEF Mine
  <1>7. \A t \in tasks' : Retained(t)'
    BY <1>1, <1>5 DEF FramesInv, History, Retained
  <1>8. \A t \in tasks' : t.pc \in Work => t \in tasks  BY <1>5 DEF Work
  <1>9. History' /\ Reach'
    BY <1>1, <1>7, <1>8 DEF FramesInv, History, Reach
  <1>10. Asking(committed)'
    <2>1. up' = <<[type |-> "resume", n |-> committed]>>  BY <1>3 DEF Authenticate
    <2>2. Len(up') = 1 /\ up'[1].type = "resume" /\ up'[1].n = committed  BY <2>1
    <2>3. \A t \in tasks' : t.pc \in Work => t.n <= committed + 1
      BY <1>8 DEF FramesInv, Reach
    <2> QED  BY <1>0, <1>1, <2>2, <2>3 DEF Asking, Behind
  <1>11. \E c \in Nat : Asking(c)'
    <2>1. PICK c : c = committed  OBVIOUS
    <2> QED  BY <1>0, <1>1, <1>10, <2>1
  <1> QED  BY <1>1, <1>2, <1>3, <1>6, <1>9, <1>11 DEF FramesInv, IdleConn, OpenConn, LiveConn

LEMMA BreakFits ==
  ASSUME IInv, FramesInv, Drop \/ Crash
  PROVE  FramesInv'
  <1>1. Disconnected /\ tasks' \subseteq tasks  BY DEF Drop, Crash
  <1>2. StoredStill  BY DEF Drop, Crash, StoredStill, relayVars, cursorVars
  <1> QED  BY <1>1, <1>2, EndedFits

LEMMA NextFrameFits ==
  ASSUME IInv, FramesInv, NextFrame
  PROVE  FramesInv'
  <1>0. /\ down # <<>> /\ down' = Tail(down) /\ committed \in Nat /\ gen \in Nat
        /\ \A t \in tasks : ~Mine(t)
        /\ UNCHANGED <<evicted, evictions, relayAck, link, up, requests, gen, sock, committed,
                       required, recovery>>
    BY FrameNumbers DEF NextFrame, Mine, relayVars, connVars, cursorVars
  <1>1. link.mode = "live"
    BY <1>0, FrameNumbers DEF FramesInv, History, IdleConn, OpenConn
  <1>2. PICK base \in Nat : Live(base)  BY <1>1 DEF FramesInv, LiveConn
  <1>3. /\ down \in Seq(DownFrame) /\ Len(down) \in Nat /\ Len(down) >= 1
        /\ Len(down') = Len(down) - 1
        /\ \A k \in 1..Len(down') : down'[k] = down[k + 1]
        /\ Head(down) = down[1]
        /\ \A k \in 1..Len(down) : down[k].n \in Nat
    BY <1>0, FrameNumbers, TailFacts
  <1>4. PICK f : f = down[1]  OBVIOUS
  <1>5. /\ f.type \in {"delivery", "caughtup"} /\ f.n \in Nat
        /\ f.n = base + (IF f.type = "delivery" THEN 1 ELSE 0)
        /\ f.type = "caughtup" =>
             committed <= f.n /\ \A u \in tasks : u.pc \in Work => u.n <= f.n
    BY <1>2, <1>3, <1>4 DEF Live, Chain, Markers
  <1>6. PICK v : v = [owner |-> "inbound", gen |-> gen, pc |-> FirstStep(f.type),
                      n |-> f.n, src |-> f.src, req |-> f.req, ask |-> {}]
    OBVIOUS
  <1>7. /\ tasks' = tasks \cup {v} /\ v.owner = "inbound" /\ v.gen = gen /\ v.n = f.n
        /\ f.type = "delivery" => v.pc = "deliver"
        /\ f.type = "caughtup" => v.pc = "compare"
    BY <1>3, <1>4, <1>5, <1>6 DEF NextFrame, FirstStep
  <1>8. ~Working  BY <1>0 DEF Working
  <1>9. Behind(base + 1) /\ committed \in {base, base + 1}  BY <1>2, <1>8 DEF Live, Place
  <1>10. \A t \in tasks' : Mine(t)' => t = v  BY <1>0, <1>7 DEF Mine
  <1>11. Mine(v)'  BY <1>0, <1>7 DEF Mine
  <1>12. \A t \in tasks' : Retained(t)'
    <2>1. Retained(v)'  BY <1>0, <1>5, <1>7 DEF Retained, Work
    <2> QED  BY <1>0, <1>7, <2>1 DEF FramesInv, History, Retained
  <1>13. History'  BY <1>0, <1>12 DEF FramesInv, History
  <1>14. Reach'
    <2>1. f.n <= committed + 1  BY <1>0, <1>5, <1>9
    <2> QED  BY <1>0, <1>7, <2>1 DEF FramesInv, Reach
  <1>15. Live(f.n)'
    <2>1. PICK m \in Nat : m = f.n  BY <1>5
    <2>2. Chain(m)'
      <3>1. Chain(base)  BY <1>2 DEF Live
      <3>2. ASSUME NEW k \in 1..Len(down')
            PROVE  /\ down'[k].type \in {"delivery", "caughtup"}
                   /\ down'[k].n = (IF k = 1 THEN m ELSE down'[k - 1].n)
                                     + (IF down'[k].type = "delivery" THEN 1 ELSE 0)
                   /\ m <= down'[k].n /\ down'[k].n < link'.next
                   /\ \A i \in 1..k : down'[i].n <= down'[k].n
        <4>1. k + 1 \in 1..Len(down) /\ 1 \in 1..(k + 1) /\ k + 1 # 1 /\ (k + 1) - 1 = k
          BY <1>3
        <4>2. down'[k] = down[k + 1]  BY <1>3
        <4>3. IF k = 1 THEN down[k] = f ELSE down'[k - 1] = down[k]
          <5>1. k # 1 => k - 1 \in 1..Len(down') /\ (k - 1) + 1 = k  BY <1>3
          <5> QED  BY <1>3, <1>4, <5>1
        <4>4. \A i \in 1..k : down'[i] = down[i + 1] /\ i + 1 \in 1..(k + 1)
          <5>1. \A i \in 1..k : i \in 1..Len(down')  BY <1>3
          <5> QED  BY <1>3, <5>1
        <4>5. /\ down[k + 1].type \in {"delivery", "caughtup"}
              /\ down[k + 1].n = down[k].n + (IF down[k + 1].type = "delivery" THEN 1 ELSE 0)
              /\ down[k + 1].n < link.next
              /\ \A i \in 1..(k + 1) : down[i].n <= down[k + 1].n
          BY <3>1, <4>1 DEF Chain
        <4>6. m <= down[k + 1].n  BY <1>4, <2>1, <4>1, <4>5
        <4> QED  BY <1>0, <2>1, <4>2, <4>3, <4>4, <4>5, <4>6
      <3>3. link'.next = (IF down' = <<>> THEN m ELSE down'[Len(down')].n) + 1
        <4>1. link.next = down[Len(down)].n + 1  BY <1>0, <3>1 DEF Chain
        <4>2. CASE down' = <<>>
          <5>1. Len(down) = 1  BY <1>3, <4>2
          <5> QED  BY <1>0, <1>4, <2>1, <4>1, <4>2, <5>1
        <4>3. CASE down' # <<>>
          <5>1. Len(down') \in 1..Len(down') /\ Len(down') + 1 = Len(down)
            <6>1. down' \in Seq(DownFrame)  BY <1>0, <1>3
            <6>2. Len(down') # 0  BY <4>3, <6>1
            <6> QED  BY <1>3, <6>2
          <5>2. down'[Len(down')] = down[Len(down)]  BY <1>3, <5>1
          <5> QED  BY <1>0, <4>1, <4>3, <5>2
        <4> QED  BY <4>2, <4>3
      <3> QED  BY <3>2, <3>3 DEF Chain
    <2>3. Markers'
      <3> SUFFICES ASSUME NEW k \in 1..Len(down'), down'[k].type = "caughtup"
                   PROVE  /\ \A u \in tasks' : u.pc \in Work => u.n <= down'[k].n
                          /\ committed' <= down'[k].n
        BY DEF Markers
      <3>1. k + 1 \in 1..Len(down) /\ down'[k] = down[k + 1]  BY <1>3
      <3>2. /\ \A u \in tasks : u.pc \in Work => u.n <= down[k + 1].n
            /\ committed <= down[k + 1].n
        BY <1>2, <3>1 DEF Live, Markers
      <3>3. f.n <= down'[k].n  BY <2>1, <2>2 DEF Chain
      <3> QED  BY <1>0, <1>7, <3>1, <3>2, <3>3
    <2>4. Place(m)'
      <3>1. CASE f.type = "delivery"
        <4>1. m = base + 1 /\ v.pc \in Work  BY <1>5, <1>7, <2>1, <3>1 DEF Work
        <4>2. Working'  BY <1>7, <1>11, <4>1 DEF Working
        <4>3. Behind(m)'  BY <1>7, <1>9, <2>1, <4>1 DEF Behind
        <4>4. committed' \in {m - 1, m}  BY <1>0, <1>9, <4>1
        <4> QED  BY <4>2, <4>3, <4>4 DEF Place
      <3>2. CASE f.type = "caughtup"
        <4>1. m = base /\ v.pc \notin Work  BY <1>5, <1>7, <2>1, <3>2 DEF Work
        <4>2. ~Working'  BY <1>10, <4>1 DEF Working
        <4>3. Behind(m + 1)'  BY <1>7, <1>9, <4>1 DEF Behind
        <4>4. committed' \in {m, m + 1}  BY <1>0, <1>9, <4>1
        <4> QED  BY <4>2, <4>3, <4>4 DEF Place
      <3> QED  BY <1>5, <3>1, <3>2
    <2>5. Taking(m)'
      <3> SUFFICES ASSUME NEW t \in tasks', Mine(t)'
                   PROVE  t.n = m /\ (t.pc = "compare" => Behind(m)' /\ committed' = m)
        BY DEF Taking
      <3>1. t = v  BY <1>10
      <3>2. ASSUME f.type = "caughtup" PROVE Behind(m)' /\ committed' = m
        <4>1. m = base /\ v.pc \notin Work  BY <1>5, <1>7, <2>1, <3>2 DEF Work
        <4>2. Behind(m)'  BY <1>5, <1>7, <2>1, <3>2, <4>1 DEF Behind
        <4>3. committed' = m  BY <1>0, <1>5, <1>9, <2>1, <3>2, <4>1
        <4> QED  BY <4>2, <4>3
      <3> QED  BY <1>5, <1>7, <2>1, <3>1, <3>2
    <2>6. f' = f  OBVIOUS
    <2> QED  BY <2>1, <2>2, <2>3, <2>4, <2>5 DEF Live
  <1>16. Single'  BY <1>10 DEF Single
  <1>17. OnlyAcks' /\ sock' = "authenticated" /\ link'.mode = "live"
    BY <1>0, <1>1 DEF FramesInv, LiveConn, OnlyAcks
  <1> QED  BY <1>5, <1>13, <1>14, <1>15, <1>16, <1>17 DEF FramesInv, IdleConn, OpenConn, LiveConn

LEMMA CommitFits ==
  ASSUME IInv, FramesInv, NEW t \in tasks, Commit(t)
  PROVE  FramesInv'
  <1>0. UNCHANGED <<evicted, evictions, relayAck, requests, required, recovery>>
    BY DEF Commit, relayVars
  <1>1. CASE ~(required = NoReset /\ t.n \in {committed, committed + 1})
    <2>1. Throw(t) /\ committed' = committed  BY <1>1 DEF Commit
    <2> QED  BY <1>0, <2>1, ThrowFits
  <1>2. CASE required = NoReset /\ t.n \in {committed, committed + 1}
    <2>0. /\ t \in Task /\ t.n \in Nat /\ committed \in Nat /\ t.pc \in Work
          /\ relayAck <= committed /\ t.pc = "commit" /\ relayAck \in Nat
      BY FrameNumbers DEF Commit, Work
    <2>1. PICK v : v = [t EXCEPT !.pc = "ack"]  OBVIOUS
    <2>2. v.owner = t.owner /\ v.gen = t.gen /\ v.n = t.n /\ v.pc = "ack"
      BY <2>0, <2>1 DEF Task
    <2>3. /\ committed' = t.n /\ tasks' = (tasks \ {t}) \cup {v}
          /\ UNCHANGED <<link, down, up, gen, sock>>
      BY <1>2, <2>1 DEF Commit, Continue, netVars, connVars
    <2>4. \A u \in tasks' : u.pc \in Work => u \in tasks \ {t}
      BY <2>2, <2>3 DEF Work
    <2>5. t.owner = "inbound" /\ t.gen <= gen
      BY <2>0 DEF FramesInv, History, Retained, Work
    <2>6. \A u \in tasks' : Retained(u)'
      BY <2>2, <2>3, <2>5 DEF FramesInv, History, Retained
    <2>7. committed' \in {committed, committed + 1}  BY <1>2, <2>3
    <2>8. Reach'
      <3> SUFFICES ASSUME NEW u \in tasks', u.pc \in Work PROVE u.n <= committed' + 1
        BY DEF Reach
      <3>1. u \in tasks /\ u.n <= committed + 1 /\ u.n \in Nat
        BY <2>4, FrameNumbers DEF FramesInv, Reach
      <3> QED  BY <2>0, <2>7, <3>1
    <2>9. History'  BY <1>0, <2>3, <2>6 DEF FramesInv, History
    <2>10. ASSUME NEW m, Behind(m) PROVE Behind(m)' /\ t.n <= m
      BY <2>0, <2>4, <2>10 DEF Behind
    <2>11. IdleConn'  BY <2>3 DEF FramesInv, IdleConn
    <2>12. OpenConn'
      <3> SUFFICES ASSUME link.mode = "open"
                   PROVE  /\ down = <<>> /\ \A u \in tasks' : ~Mine(u)'
                          /\ \/ sock = "opening" /\ up = <<>>
                             \/ sock = "authenticated" /\ \E c \in Nat : Asking(c)'
        BY <2>3 DEF OpenConn
      <3>1. down = <<>> /\ \A u \in tasks : ~Mine(u)  BY DEF FramesInv, OpenConn
      <3>2. \A u \in tasks' : ~Mine(u)'  BY <2>2, <2>3, <3>1 DEF Mine
      <3>3. ASSUME NEW c \in Nat, Asking(c) PROVE Asking(c)'
        <4>1. Behind(c + 1)' /\ t.n <= c + 1  BY <2>10, <3>3 DEF Asking
        <4>2. t.n \in {c, c + 1}  BY <1>2, <2>0, <3>3, <4>1 DEF Asking
        <4> QED  BY <1>0, <2>3, <3>3, <4>1, <4>2 DEF Asking
      <3> QED  BY <3>1, <3>2, <3>3 DEF FramesInv, OpenConn
    <2>13. LiveConn'
      <3> SUFFICES ASSUME link.mode = "live"
                   PROVE  sock = "authenticated" /\ Single' /\ OnlyAcks'
                          /\ \E base \in Nat : Live(base)'
        BY <2>3 DEF LiveConn
      <3>1. sock = "authenticated" /\ Single /\ OnlyAcks  BY DEF FramesInv, LiveConn
      <3>2. PICK base \in Nat : Live(base)  BY DEF FramesInv, LiveConn
      <3>3. Single'  BY <2>2, <2>3, <3>1 DEF Single, Mine
      <3>4. OnlyAcks'  BY <2>3, <3>1 DEF OnlyAcks
      <3>5. Chain(base)'  BY <2>3, <3>2 DEF Live, Chain
      <3>6. Markers'
        <4>1. Markers  BY <3>2 DEF Live
        <4> QED  BY <2>0, <2>3, <2>4, <4>1 DEF Markers
      <3>7. Place(base)'
        <4>1. CASE Mine(t)
          <5>1. Working  BY <2>0, <4>1 DEF Working
          <5>2. t.n = base /\ Behind(base)  BY <3>2, <4>1, <5>1 DEF Live, Taking, Place
          <5>3. ~Working'
            <6>1. \A u \in tasks' : Mine(u)' => u = v
              BY <2>2, <2>3, <3>1, <4>1 DEF Single, Mine
            <6> QED  BY <2>2, <6>1 DEF Working, Work
          <5>4. Behind(base + 1)'
            BY <2>4, <5>2, FrameNumbers DEF Behind
          <5> QED  BY <2>3, <5>2, <5>3, <5>4 DEF Place
        <4>2. CASE ~Mine(t)
          <5>1. Working' <=> Working
            BY <2>2, <2>3, <4>2 DEF Working, Mine, Work
          <5>2. CASE Working
            <6>1. Behind(base) /\ committed \in {base - 1, base}
              BY <3>2, <5>2 DEF Live, Place
            <6>2. Behind(base)' /\ t.n <= base  BY <2>10, <6>1
            <6>3. t.n \in {base - 1, base}  BY <1>2, <2>0, <6>1, <6>2
            <6> QED  BY <2>3, <5>1, <5>2, <6>2, <6>3 DEF Place
          <5>3. CASE ~Working
            <6>1. Behind(base + 1) /\ committed \in {base, base + 1}
              BY <3>2, <5>3 DEF Live, Place
            <6>2. Behind(base + 1)' /\ t.n <= base + 1  BY <2>10, <6>1
            <6>3. t.n \in {base, base + 1}  BY <1>2, <2>0, <6>1, <6>2
            <6> QED  BY <2>3, <5>1, <5>3, <6>2, <6>3 DEF Place
          <5> QED  BY <5>2, <5>3
        <4> QED  BY <4>1, <4>2
      <3>8. Taking(base)'
        <4> SUFFICES ASSUME NEW u \in tasks', Mine(u)'
                     PROVE  u.n = base /\ (u.pc = "compare" => Behind(base)' /\ committed' = base)
          BY DEF Taking
        <4>1. CASE u = v
          <5>1. Mine(t)  BY <2>2, <2>3, <4>1 DEF Mine
          <5> QED  BY <2>2, <3>2, <4>1, <5>1 DEF Live, Taking
        <4>2. CASE u # v
          <5>1. u \in tasks /\ Mine(u)  BY <2>3, <4>2 DEF Mine
          <5>2. u.n = base /\ (u.pc = "compare" => Behind(base) /\ committed = base)
            BY <3>2, <5>1 DEF Live, Taking
          <5>3. ASSUME u.pc = "compare" PROVE Behind(base)' /\ committed' = base
            <6>1. Behind(base)' /\ t.n <= base  BY <2>10, <5>2, <5>3
            <6> QED  BY <1>2, <2>0, <2>3, <5>2, <5>3, <6>1
          <5> QED  BY <5>2, <5>3
        <4> QED  BY <4>1, <4>2
      <3> QED  BY <3>1, <3>3, <3>4, <3>2, <3>5, <3>6, <3>7, <3>8 DEF Live
    <2> QED  BY <2>8, <2>9, <2>11, <2>12, <2>13 DEF FramesInv
  <1> QED  BY <1>1, <1>2

\* The steps before it, which work on.
LEMMA WorkFits ==
  ASSUME IInv, FramesInv, NEW t \in tasks, Deliver(t) \/ Finish(t)
  PROVE  FramesInv'
  <1>0. UNCHANGED <<evicted, evictions, relayAck, requests, required, recovery, committed>>
    BY DEF Deliver, Finish, relayVars, cursorVars
  <1>1. CASE Throw(t)  BY <1>0, <1>1, ThrowFits
  <1>2. CASE \E pc \in Work : Continue(t, {[t EXCEPT !.pc = pc]}) /\ UNCHANGED <<netVars, connVars>>
    <2>1. PICK pc \in Work : Continue(t, {[t EXCEPT !.pc = pc]})  BY <1>2
    <2>2. UNCHANGED <<link, down, up, gen, sock>>  BY <1>2 DEF netVars, connVars
    <2>3. t.pc \in Work  BY DEF Deliver, Finish, Work
    <2>4. Eased  BY <2>1, <2>2, <2>3, MoveEases
    <2> QED  BY <1>0, <2>2, <2>4, EasedFits DEF StoredStill
  <1> QED  BY <1>1, <1>2 DEF Deliver, Finish, Work

LEMMA AcknowledgeFits ==
  ASSUME IInv, FramesInv, NEW t \in tasks, Acknowledge(t)
  PROVE  FramesInv'
  <1>0. StoredStill /\ UNCHANGED <<link, down, sock>> /\ Continue(t, {}) /\ t.pc \notin Work
    BY DEF Acknowledge, StoredStill, relayVars, connVars, cursorVars, Work
  <1>1. Eased  BY <1>0, EndEases DEF StoredStill
  <1>2. t.owner = "inbound"
    BY <1>0 DEF Acknowledge, FramesInv, History, Retained
  <1>3. CASE t.gen = gen /\ Authenticated
    <2>1. link.mode = "live"
      BY <1>2, <1>3, FrameNumbers DEF FramesInv, History, IdleConn, OpenConn, Mine, Authenticated
    <2>2. OnlyAcks  BY <2>1 DEF FramesInv, LiveConn
    <2>3. up' = Append(up, [type |-> "ack", n |-> t.n])  BY <1>3 DEF Acknowledge
    <2>4. /\ Len(up') = Len(up) + 1 /\ \A k \in 1..Len(up) : up'[k] = up[k]
          /\ up'[Len(up) + 1] = [type |-> "ack", n |-> t.n] /\ Len(up) \in Nat
      <3>1. [type |-> "ack", n |-> t.n] \in UpFrame  BY FrameNumbers DEF UpFrame
      <3> QED  BY <2>3, <3>1, FrameNumbers, AppendFacts
    <2>5. \A k \in 1..Len(up') : k \in 1..Len(up) \/ k = Len(up) + 1  BY <2>4
    <2>6. OnlyAcks'  BY <2>2, <2>4, <2>5 DEF OnlyAcks
    <2> QED  BY <1>0, <1>1, <2>1, <2>6, EasedFits
  <1>4. CASE ~(t.gen = gen /\ Authenticated)
    <2>1. up' = up  BY <1>4 DEF Acknowledge
    <2> QED  BY <1>0, <1>1, <2>1, EasedFits
  <1> QED  BY <1>3, <1>4

\* A marker that matches, and a retry with nothing to recover.
LEMMA EndFits ==
  ASSUME IInv, FramesInv, NEW t \in tasks, CompareMarker(t) \/ LoadForRetry(t)
  PROVE  FramesInv'
  <1>0. UNCHANGED <<evicted, evictions, relayAck, requests, required, recovery, committed>>
    BY DEF CompareMarker, LoadForRetry, relayVars, cursorVars
  <1>1. CASE Throw(t)  BY <1>0, <1>1, ThrowFits
  <1>2. CASE Continue(t, {}) /\ UNCHANGED <<netVars, connVars>>
    <2>1. UNCHANGED <<link, down, up, gen, sock>>  BY <1>2 DEF netVars, connVars
    <2>2. t.pc \notin Work  BY DEF CompareMarker, LoadForRetry, Work
    <2>3. Eased  BY <1>2, <2>1, <2>2, EndEases
    <2> QED  BY <1>0, <2>1, <2>3, EasedFits DEF StoredStill
  <1>3. recovery = NoSession  BY DEF FramesInv, History
  <1> QED  BY <1>1, <1>2, <1>3 DEF CompareMarker, LoadForRetry

LEMMA StepFits ==
  ASSUME IInv, FramesInv, NEW t \in tasks, Step(t)
  PROVE  FramesInv'
  <1>1. t.owner \in {"inbound", "retry"}
        /\ (t.owner = "inbound" => t.pc \in Work \cup {"ack", "compare"})
        /\ (t.owner = "retry" => t.pc = "load")
    BY DEF FramesInv, History, Retained
  <1>2. ~(\/ RequireSnapshot(t) \/ Reconcile(t) \/ RecordSource(t) \/ Advance(t)
          \/ ResumeAfterReset(t) \/ LoadForBegin(t) \/ Bind(t) \/ Ask(t))
    BY <1>1 DEF RequireSnapshot, Reconcile, RecordSource, Advance, ResumeAfterReset,
                LoadForBegin, Bind, Ask, Work
  <1> QED  BY <1>2, WorkFits, CommitFits, AcknowledgeFits, EndFits DEF Step

\* What changes nothing here.
LEMMA RestFits ==
  ASSUME IInv, FramesInv,
         (\E e \in Event : Submit(e)) \/ (\E s \in Source : Revoke(s)) \/ UNCHANGED vars
  PROVE  FramesInv'
  <1>1. StoredStill /\ UNCHANGED <<link, down, up, sock, tasks>>
    BY DEF Submit, Revoke, vars, StoredStill, relayVars, netVars, connVars, cursorVars
  <1>2. Eased
    <2>1. \A t \in tasks : Like(t, t)  BY DEF Like
    <2> QED  BY <1>1, <2>1 DEF Eased, Single, Working, Mine, StoredStill
  <1> QED  BY <1>1, <1>2, EasedFits

LEMMA InitFits == ASSUME Init PROVE FramesInv
  BY DEF Init, Idle, FramesInv, History, Reach, IdleConn, OpenConn, LiveConn

LEMMA NextFits ==
  ASSUME MaxEvict = 0, IInv, FramesInv, [Next]_vars
  PROVE  FramesInv'
  <1>1. ~Evict  BY DEF Evict, FramesInv, History
  <1>2. ~RetryAlarm  BY DEF RetryAlarm, FramesInv, History
  <1>3. \A r \in requests : ~SourceAnswer(r)  BY DEF FramesInv, History
  <1>4. CASE Relay
    BY <1>4, RelayResumeFits, RelayAcknowledgeFits, RelayDeliverFits, RelayCaughtUpFits DEF Relay
  <1>5. CASE ScheduledConnect \/ UserConnect \/ Authenticate \/ Drop \/ Crash
    BY <1>5, ConnectFits, AuthenticateFits, BreakFits
  <1>6. CASE \E t \in tasks : LocalFailure(t)
    BY <1>6, ThrowFits DEF LocalFailure, relayVars, cursorVars
  <1>7. CASE NextFrame  BY <1>7, NextFrameFits
  <1>8. CASE \E t \in tasks : Step(t)  BY <1>8, StepFits
  <1>9. CASE (\E e \in Event : Submit(e)) \/ (\E s \in Source : Revoke(s)) \/ UNCHANGED vars
    BY <1>9, RestFits
  <1> QED  BY <1>1, <1>2, <1>3, <1>4, <1>5, <1>6, <1>7, <1>8, <1>9 DEF Next

\* While the relay evicts nothing, it never sends what the cursor refuses: no
\* redelivery, no task left over from an older connection and no crash closes a
\* live connection over a delivery or a marker (commitDelivery and onCaughtUp).
THEOREM NeverRefused ==
  ASSUME MaxEvict = 0
  PROVE  Spec => []FramesFit
  <1>1. IInv /\ FramesInv => FramesFit
    <2> SUFFICES ASSUME IInv, FramesInv, NEW t \in tasks, t.gen = gen, sock # "closed"
                 PROVE  /\ t.pc = "compare" => MarkerMatches(t)
                        /\ t.pc = "commit" =>
                             required = NoReset /\ t.n \in {committed, committed + 1}
      BY DEF FramesFit
    <2> SUFFICES ASSUME t.pc \in {"compare", "commit"}
                 PROVE  required = NoReset /\ (t.pc = "compare" => committed = t.n)
                        /\ (t.pc = "commit" => t.n \in {committed, committed + 1})
      BY DEF MarkerMatches
    <2>1. required = NoReset /\ Mine(t)
      BY DEF FramesInv, History, Retained, Mine
    <2>2. link.mode = "live"
      BY <2>1, FrameNumbers DEF FramesInv, History, IdleConn, OpenConn
    <2>3. PICK base \in Nat : Live(base)  BY <2>2 DEF FramesInv, LiveConn
    <2>4. t.n = base /\ (t.pc = "compare" => committed = base)
      BY <2>1, <2>3 DEF Live, Taking
    <2>5. t.pc = "commit" => committed \in {base - 1, base}
      BY <2>1, <2>3 DEF Live, Place, Working, Work
    <2> QED  BY <2>1, <2>4, <2>5, FrameNumbers
  <1> QED  BY <1>1, InitFits, NextFits, Invariance, PTL DEF Spec

=============================================================================
