---------------------- MODULE NotificationMirrorProofs ----------------------
(***************************************************************************)
(* For every set of notifications, every bound and any number of           *)
(* overlapping tasks: the records of the mirror implement MirrorContract   *)
(* and never refuse a message of the source, no close by the extension     *)
(* becomes a dismissal, and what Chrome shows is what is stored.           *)
(***************************************************************************)
EXTENDS NotificationMirror, TLAPS

USE DEF phoneVars, recordVars, snapshotVars, storeVars, chromeVars, markerVars,
        historyVars, boundVars

Steps == {"idle", "observed", "load", "bind", "show", "unbind", "mark", "clear",
          "list", "hide", "view", "persist", "resolve"}
Working == Steps \ {"idle", "observed", "list", "hide"}
Kinds == {"none", "inbound", "refresh", "clear", "view", "body", "button", "open"}
Items == [note : Note, rev : 0..MaxRev, act : {"show", "close"}]
Readings == [rev : [Note -> 0..MaxRev],
             phase : [Note -> {"unknown", "visible", "removed"}],
             digest : [Note -> {"none", "upsert", "removed"}]]
TaskShape == [step : Steps, kind : Kinds, item : Items \union {NoItem},
              todo : SUBSET Items, at : 0..MaxRev, seen : Readings]
Events == [type : {"closed", "body", "button"}, note : Note, byUser : BOOLEAN,
           why : {"user", "click", "program"}]

RecordShape ==
  /\ phoneRev \in 0..MaxRev
  /\ active \in [0..MaxRev -> [Note -> 0..MaxRev]]
  /\ rev \in [Note -> 0..MaxRev]
  /\ phase \in [Note -> {"unknown", "visible", "removed"}]
  /\ digest \in [Note -> {"none", "upsert", "removed"}]
  /\ high \in -1..MaxRev
  /\ manifest \in [Note -> 0..MaxRev]
ViewShape ==
  /\ viewed \in [Note -> 0..MaxRev]
  /\ hidden \in [Note -> 0..MaxRev]
  /\ \A n \in Note : viewed[n] <= rev[n] /\ hidden[n] <= rev[n]
BrowserShape ==
  /\ native \in [Note -> 0..MaxRev]
  /\ bound \in [Note -> 0..MaxRev]
  /\ muted \in BOOLEAN
  /\ cut \subseteq Note /\ stale \subseteq Note
BoundShape == gestures \in 0..MaxGestures /\ crashes \in 0..MaxCrashes
\* A task that handles an item has one.
TasksOK ==
  /\ task \in [Task -> TaskShape]
  /\ \A t \in Task : task[t].step \in Working => task[t].item \in Items
MarkerShape ==
  /\ mem \subseteq Note /\ kept \subseteq Note /\ lost \subseteq Note
  /\ events \in Seq(Events)
  /\ closing \subseteq Note \X {"user", "click", "program", "interrupted"}

Shape == RecordShape /\ ViewShape /\ BrowserShape /\ BoundShape /\ TasksOK /\ MarkerShape

\* What the source had active at a revision, it has since that notification's
\* own revision.
PhoneOK ==
  \A r \in 0..phoneRev, n \in Note :
    /\ active[r][n] <= r
    /\ active[r][n] # 0 => active[active[r][n]][n] = active[r][n]

\* A record is a state the source had, with the bytes of the message for it.
RecordOK ==
  \A n \in Note :
    /\ rev[n] <= phoneRev
    /\ phase[n] = "unknown" => rev[n] = 0
    /\ phase[n] = "visible" =>
         rev[n] # 0 /\ active[rev[n]][n] = rev[n] /\ digest[n] = "upsert"
    /\ phase[n] = "removed" => active[rev[n]][n] = 0 /\ digest[n] = "removed"

SnapshotOK ==
  /\ high <= phoneRev
  /\ high >= 0 => manifest = active[high]
  /\ \A t \in Task : At(t, "observed") => task[t].at <= phoneRev

StoreOK == PhoneOK /\ RecordOK /\ SnapshotOK

\* A close that came with a click waits right behind the click, or it is the
\* next event and its marker is set or was lost in a crash.
Clicks(es, marked) ==
  \A i \in 1..Len(es) :
    /\ es[i].why = "program" => ~es[i].byUser
    /\ (es[i].why = "click" /\ es[i].type = "closed") =>
         \/ i > 1 /\ es[i - 1].type # "closed" /\ es[i - 1].note = es[i].note
         \/ i = 1 /\ es[i].note \in marked

ClicksOK == Clicks(events, mem \union kept \union lost)

MarkerOK == ClicksOK /\ \A c \in closing : c[2] \in {"user", "interrupted"}

IInv == Shape /\ StoreOK /\ MarkerOK

-----------------------------------------------------------------------------
(* What the operators the actions are built from do to the tasks.          *)

\* The other tasks are left alone, and none begins to observe.
TaskStep(t) ==
  /\ TasksOK'
  /\ \A u \in Task : u # t => task'[u] = task[u]
  /\ task'[t].step # "observed" \/ task'[t] = task[t]

LEMMA IdleShape == ASSUME BoundAssumption PROVE Idle \in TaskShape
  <1>1. NoRecords \in Readings  BY BoundAssumption DEF NoRecords, Readings, BoundAssumption
  <1>2. 0 \in 0..MaxRev  BY DEF BoundAssumption
  <1> QED  BY <1>1, <1>2 DEF Idle, TaskShape, Steps, Kinds

LEMMA RestStep ==
  ASSUME BoundAssumption, TasksOK, NEW t \in Task, Rest(t)
  PROVE  TaskStep(t)
  <1>1. Idle \in TaskShape  BY IdleShape
  <1>2. Idle.step = "idle"  BY DEF Idle
  <1>3. task' = [task EXCEPT ![t] = Idle]  BY DEF Rest
  <1>4. "idle" \notin Working  BY DEF Working
  <1> QED  BY <1>1, <1>2, <1>3, <1>4 DEF TasksOK, TaskStep

LEMMA RunStep ==
  ASSUME BoundAssumption, TasksOK, NEW t \in Task, NEW kind \in Kinds, NEW step \in Steps,
         step # "observed", NEW item \in Items \union {NoItem}, NEW todo \in SUBSET Items,
         step \in Working => item \in Items, Run(t, kind, step, item, todo)
  PROVE  TaskStep(t)
  <1> DEFINE new == [Idle EXCEPT !.step = step, !.kind = kind, !.item = item, !.todo = todo]
  <1>1. new \in TaskShape  BY IdleShape DEF TaskShape
  <1>2. new.step = step /\ new.item = item  BY IdleShape DEF TaskShape
  <1>3. task' = [task EXCEPT ![t] = new]  BY DEF Run
  <1> HIDE DEF new
  <1> QED  BY <1>1, <1>2, <1>3 DEF TasksOK, TaskStep

LEMMA BeginStep ==
  ASSUME BoundAssumption, TasksOK, NEW t \in Task, NEW kind \in Kinds,
         NEW items \in SUBSET Items, Begin(t, kind, items)
  PROVE  TaskStep(t)
  <1>1. CASE items = {} /\ kind = "clear" /\ Run(t, kind, "hide", NoItem, {})
    BY <1>1, RunStep DEF Steps, Working
  <1>2. CASE items = {} /\ kind # "clear" /\ Rest(t)
    BY <1>2, RestStep
  <1>3. CASE \E i \in items : Run(t, kind, FirstStep(kind, i), i, items \ {i})
    <2>1. PICK i \in items : Run(t, kind, FirstStep(kind, i), i, items \ {i})  BY <1>3
    <2>2. FirstStep(kind, i) \in Steps /\ FirstStep(kind, i) # "observed"
      BY DEF FirstStep, Steps
    <2> QED  BY <2>1, <2>2, RunStep
  <1> QED  BY <1>1, <1>2, <1>3 DEF Begin

LEMMA ProceedStep ==
  ASSUME BoundAssumption, TasksOK, NEW t \in Task, Proceed(t)
  PROVE  TaskStep(t)
  <1>1. task[t].kind \in Kinds /\ task[t].todo \in SUBSET Items  BY DEF TasksOK, TaskShape
  <1> QED  BY <1>1, BeginStep DEF Proceed

LEMMA MovingStep ==
  ASSUME TasksOK, NEW t \in Task, task[t].step \in Working, NEW step \in Working,
         Moving(t, step)
  PROVE  TaskStep(t)
  <1> DEFINE new == [task[t] EXCEPT !.step = step]
  <1>1. task[t] \in TaskShape  BY DEF TasksOK
  <1>2. new \in TaskShape /\ new.step = step /\ new.item = task[t].item
    BY <1>1 DEF TaskShape, Working
  <1>3. task' = [task EXCEPT ![t] = new]  BY DEF Moving
  <1>4. step # "observed"  BY DEF Working
  <1> HIDE DEF new
  <1> QED  BY <1>1, <1>2, <1>3, <1>4 DEF TasksOK, TaskStep

-----------------------------------------------------------------------------
(* What a step keeps that leaves a part alone.                             *)

LEMMA StoreKept ==
  ASSUME StoreOK, RecordShape, TasksOK, TasksOK',
         UNCHANGED <<phoneVars, rev, phase, digest, snapshotVars>>,
         \A u \in Task : task'[u].step = "observed" => task'[u] = task[u]
  PROVE  StoreOK'
  <1>1. PhoneOK'  BY DEF StoreOK, PhoneOK
  <1>2. RecordOK'  BY DEF StoreOK, RecordOK
  <1>3. SnapshotOK'  BY DEF StoreOK, SnapshotOK, At
  <1> QED  BY <1>1, <1>2, <1>3 DEF StoreOK

LEMMA MarkersKept ==
  ASSUME MarkerOK, UNCHANGED <<events, closing>>,
         \A n \in Note : n \in mem \union kept \union lost
                           => n \in mem' \union kept' \union lost',
         events \in Seq(Events)
  PROVE  MarkerOK'
  <1>1. \A i \in 1..Len(events) : events[i] \in Events  OBVIOUS
  <1>2. \A i \in 1..Len(events) : events[i].note \in Note  BY <1>1 DEF Events
  <1>3. ClicksOK'  BY <1>2 DEF MarkerOK, ClicksOK, Clicks
  <1> QED  BY <1>3 DEF MarkerOK

\* A marker may go once no close of its notification waits, or is counted lost.
LEMMA MarkerDropped ==
  ASSUME MarkerOK, events \in Seq(Events), UNCHANGED <<events, closing>>,
         NEW n \in Note, mem' = mem \ {n}, kept' = kept \ {n}, lost \subseteq lost',
         ClosePending(n) => n \in lost'
  PROVE  MarkerOK'
  <1>1. DOMAIN events = 1..Len(events)  OBVIOUS
  <1>2. \A i \in 1..Len(events) :
          events[i].type = "closed" /\ events[i].note = n => n \in lost'
    BY <1>1 DEF ClosePending
  <1>3. ClicksOK'  BY <1>2 DEF MarkerOK, ClicksOK, Clicks
  <1> QED  BY <1>3 DEF MarkerOK

LEMMA ClicksAppend ==
  ASSUME NEW es \in Seq(Events), NEW marked, Clicks(es, marked), NEW e \in Events,
         e.why = "program" => ~e.byUser,
         (e.why = "click" /\ e.type = "closed") =>
           Len(es) > 0 /\ es[Len(es)].type # "closed" /\ es[Len(es)].note = e.note
  PROVE  Append(es, e) \in Seq(Events) /\ Clicks(Append(es, e), marked)
  <1> DEFINE fs == Append(es, e)
  <1>1. fs \in Seq(Events) /\ Len(fs) = Len(es) + 1 /\ Len(es) \in Nat  OBVIOUS
  <1>2. \A i \in 1..Len(es) : fs[i] = es[i]  OBVIOUS
  <1>3. fs[Len(es) + 1] = e  OBVIOUS
  <1> HIDE DEF fs
  <1>4. ASSUME NEW i \in 1..Len(fs)
        PROVE  /\ fs[i].why = "program" => ~fs[i].byUser
               /\ (fs[i].why = "click" /\ fs[i].type = "closed") =>
                    \/ i > 1 /\ fs[i - 1].type # "closed" /\ fs[i - 1].note = fs[i].note
                    \/ i = 1 /\ fs[i].note \in marked
    <2>1. CASE i = Len(es) + 1
      <3>1. fs[i] = e  BY <2>1, <1>3
      <3>2. Len(es) > 0 => i > 1 /\ fs[i - 1] = es[Len(es)]  BY <2>1, <1>1, <1>2
      <3> QED  BY <3>1, <3>2
    <2>2. CASE i # Len(es) + 1
      <3>1. i \in 1..Len(es)  BY <2>2, <1>1
      <3>2. fs[i] = es[i] /\ (i > 1 => fs[i - 1] = es[i - 1])  BY <3>1, <1>1, <1>2
      <3> QED  BY <3>1, <3>2 DEF Clicks
    <2> QED  BY <2>1, <2>2
  <1>5. Clicks(fs, marked)  BY <1>4 DEF Clicks
  <1> QED  BY <1>1, <1>5 DEF fs

\* The first event is handled: what it was about is settled.
LEMMA ClicksTail ==
  ASSUME NEW es \in Seq(Events), es # <<>>, NEW marked, NEW left, Clicks(es, marked),
         Head(es).type # "closed" => Head(es).note \in left
  PROVE  Tail(es) \in Seq(Events) /\ Clicks(Tail(es), left)
  <1> DEFINE fs == Tail(es)
  <1>1. fs \in Seq(Events) /\ Len(fs) = Len(es) - 1 /\ Len(es) \in Nat  OBVIOUS
  <1>2. \A i \in 1..Len(fs) : fs[i] = es[i + 1]  OBVIOUS
  <1>3. Head(es) = es[1]  OBVIOUS
  <1> HIDE DEF fs
  <1>4. ASSUME NEW i \in 1..Len(fs)
        PROVE  /\ fs[i].why = "program" => ~fs[i].byUser
               /\ (fs[i].why = "click" /\ fs[i].type = "closed") =>
                    \/ i > 1 /\ fs[i - 1].type # "closed" /\ fs[i - 1].note = fs[i].note
                    \/ i = 1 /\ fs[i].note \in left
    <2>1. i + 1 \in 1..Len(es) /\ fs[i] = es[i + 1] /\ i + 1 > 1 /\ (i + 1) - 1 = i
      BY <1>1, <1>2
    <2>2. i > 1 => fs[i - 1] = es[i]
      <3> SUFFICES ASSUME i > 1 PROVE fs[i - 1] = es[i]  OBVIOUS
      <3>1. i - 1 \in 1..Len(fs) /\ (i - 1) + 1 = i  BY <1>1
      <3> QED  BY <3>1, <1>2
    <2>3. /\ es[i + 1].why = "program" => ~es[i + 1].byUser
          /\ (es[i + 1].why = "click" /\ es[i + 1].type = "closed") =>
               es[i].type # "closed" /\ es[i].note = es[i + 1].note
      BY <2>1 DEF Clicks
    <2>4. i \in Nat /\ (i > 1 \/ i = 1)  BY <1>1
    <2> QED  BY <2>1, <2>2, <2>3, <2>4, <1>3
  <1>5. Clicks(fs, left)  BY <1>4 DEF Clicks
  <1> QED  BY <1>1, <1>5 DEF fs

-----------------------------------------------------------------------------
(* One lemma for each action that touches the records.                     *)

LEMMA PhoneEventPreserves ==
  ASSUME BoundAssumption, IInv, NEW n \in Note, NEW shown \in BOOLEAN, PhoneEvent(n, shown)
  PROVE  IInv'
  <1> USE DEF PhoneEvent, IInv, Shape
  <1> DEFINE r == phoneRev + 1
             row == [m \in Note |-> IF m # n THEN active[phoneRev][m]
                                    ELSE IF shown THEN r ELSE 0]
  <1>1. phoneRev \in Nat /\ MaxRev \in Nat /\ r \in 0..MaxRev /\ phoneRev \in 0..MaxRev
    BY DEF RecordShape, BoundAssumption
  <1>2. row \in [Note -> 0..MaxRev]  BY <1>1 DEF RecordShape
  <1>3. phoneRev' = r /\ active' = [active EXCEPT ![r] = row]  OBVIOUS
  <1>4. row[n] \in {0, r} /\ \A m \in Note : m # n => row[m] = active[phoneRev][m]
    OBVIOUS
  <1>0. active \in [0..MaxRev -> [Note -> 0..MaxRev]]  BY DEF RecordShape
  <1> HIDE DEF row
  <1>5. RecordShape'  BY <1>1, <1>2, <1>3 DEF RecordShape
  <1>6. active'[r] = row /\ \A q \in 0..phoneRev : active'[q] = active[q]
    BY <1>1, <1>3 DEF RecordShape
  <1>7. PhoneOK'
    <2> SUFFICES ASSUME NEW q \in 0..r, NEW m \in Note
                 PROVE  /\ active'[q][m] <= q
                        /\ active'[q][m] # 0 => active'[active'[q][m]][m] = active'[q][m]
      BY <1>3 DEF PhoneOK
    <2>1. CASE q \in 0..phoneRev
      <3>1. active[q][m] <= q /\ (active[q][m] # 0 => active[active[q][m]][m] = active[q][m])
        BY <2>1 DEF StoreOK, PhoneOK
      <3>4. q \in 0..MaxRev  BY <2>1, <1>1
      <3>2. active[q][m] \in 0..MaxRev  BY <3>4, <1>0
      <3>3. active[q][m] \in 0..phoneRev  BY <2>1, <3>1, <3>2, <1>1
      <3> QED  BY <3>1, <3>3, <2>1, <1>6
    <2>2. CASE q = r
      <3>1. CASE m = n  BY <3>1, <2>2, <1>4, <1>6, <1>1
      <3>2. CASE m # n
        <4>1. active'[q][m] = active[phoneRev][m]  BY <3>2, <2>2, <1>4, <1>6
        <4>2. active[phoneRev][m] <= phoneRev
              /\ (active[phoneRev][m] # 0
                    => active[active[phoneRev][m]][m] = active[phoneRev][m])
          BY <1>1 DEF StoreOK, PhoneOK
        <4>3. active[phoneRev][m] \in 0..phoneRev  BY <4>2, <1>1 DEF RecordShape
        <4> QED  BY <4>1, <4>2, <4>3, <2>2, <1>6, <1>1
      <3> QED  BY <3>1, <3>2
    <2>3. q \in 0..phoneRev \/ q = r  BY <1>1
    <2> QED  BY <2>1, <2>2, <2>3
  <1>8. RecordOK'
    <2>1. \A m \in Note : rev[m] \in 0..phoneRev
      BY <1>1 DEF StoreOK, RecordOK, RecordShape
    <2>2. \A m \in Note : active'[rev[m]] = active[rev[m]]  BY <2>1, <1>6
    <2> QED  BY <2>1, <2>2, <1>1, <1>3 DEF StoreOK, RecordOK
  <1>9. SnapshotOK'
    <2>1. high >= 0 => active'[high] = active[high]
      BY <1>1, <1>6 DEF StoreOK, SnapshotOK, RecordShape
    <2>2. \A t \in Task : task[t].at \in Int  BY <1>1 DEF TasksOK, TaskShape
    <2>3. high \in Int  BY DEF RecordShape
    <2> QED  BY <2>1, <2>2, <2>3, <1>1, <1>3 DEF StoreOK, SnapshotOK, At
  <1>10. ViewShape' /\ BrowserShape' /\ BoundShape' /\ TasksOK' /\ MarkerShape'
    BY DEF ViewShape, BrowserShape, BoundShape, TasksOK, MarkerShape
  <1>11. MarkerOK'  BY MarkersKept DEF MarkerShape
  <1> QED  BY <1>5, <1>7, <1>8, <1>9, <1>10, <1>11 DEF StoreOK

\* A message names a state of the source that the record may take.
LEMMA MessageState ==
  ASSUME RecordShape, BoundAssumption, NEW n \in Note, NEW r \in 1..MaxRev,
         MessagePhase(n, r) # "none"
  PROVE  /\ r <= phoneRev
         /\ MessagePhase(n, r) \in {"visible", "removed"}
         /\ MessagePhase(n, r) = "visible" => active[r][n] = r
         /\ MessagePhase(n, r) = "removed" => active[r][n] = 0
  BY DEF MessagePhase, RecordShape, BoundAssumption

LEMMA ReceiveItemPreserves ==
  ASSUME BoundAssumption, IInv, NEW t \in Task, NEW n \in Note, NEW r \in 1..MaxRev,
         ReceiveItem(t, n, r)
  PROVE  IInv'
  <1> DEFINE p == MessagePhase(n, r)
             item == Item(n, r, IF p = "visible" THEN "show" ELSE "close")
  <1>0. RecordShape /\ ViewShape /\ TasksOK /\ MarkerShape /\ StoreOK /\ MarkerOK
    BY DEF IInv, Shape
  <1>1. p # "none" /\ ~(r < rev[n])  BY DEF ReceiveItem, Stale
  <1>2. r <= phoneRev /\ p \in {"visible", "removed"}
        /\ (p = "visible" => active[r][n] = r) /\ (p = "removed" => active[r][n] = 0)
    BY <1>0, <1>1, MessageState
  <1>3. item \in Items  BY BoundAssumption DEF Items, Item, BoundAssumption
  <1> HIDE DEF p
  <1>4. Begin(t, "inbound", {item})  BY DEF ReceiveItem, p
  <1>5. TaskStep(t)
    <2>1. {item} \in SUBSET Items /\ "inbound" \in Kinds  BY <1>3 DEF Kinds
    <2> HIDE DEF item
    <2> QED  BY <1>0, <1>4, <2>1, BeginStep
  <1>6. UNCHANGED <<phoneVars, snapshotVars, boundVars, chromeVars, muted, markerVars,
                    events, closing, stale, lost>> /\ cut' = cut \ {n}
    BY DEF ReceiveItem
  <1>7. CASE r = rev[n]
    <2>1. UNCHANGED recordVars  BY <1>7 DEF ReceiveItem, Applied
    <2>2. StoreOK'  BY <2>1, <1>0, <1>5, <1>6, StoreKept DEF TaskStep
    <2>3. MarkerOK'  BY <1>0, <1>6, MarkersKept DEF MarkerShape
    <2>4. Shape'
      BY <2>1, <1>5, <1>6 DEF TaskStep, IInv, Shape, RecordShape, ViewShape, BrowserShape,
                              BoundShape, MarkerShape
    <2> QED  BY <2>2, <2>3, <2>4 DEF IInv
  <1>8. CASE r # rev[n]
    <2>1. rev[n] \in Nat /\ r > rev[n] /\ r \in 0..MaxRev
      BY <1>0, <1>1, <1>8 DEF RecordShape
    <2>2. Put(n, r, p)  BY <1>8 DEF ReceiveItem, Applied, p
    <2>3. /\ rev' = [rev EXCEPT ![n] = r] /\ phase' = [phase EXCEPT ![n] = p]
          /\ digest' = [digest EXCEPT ![n] = Bytes(p)]
          /\ hidden' = [hidden EXCEPT ![n] = 0] /\ viewed' = viewed
      BY <2>2 DEF Put
    <2>4. Bytes(p) \in {"upsert", "removed"} /\ (p = "visible" => Bytes(p) = "upsert")
          /\ (p = "removed" => Bytes(p) = "removed")
      BY <1>2 DEF Bytes
    <2>5. RecordShape'  BY <1>0, <1>2, <1>6, <2>1, <2>3, <2>4 DEF RecordShape
    <2>6. ViewShape'
      <3>1. viewed' \in [Note -> 0..MaxRev] /\ hidden' \in [Note -> 0..MaxRev]
        BY <1>0, <2>3, BoundAssumption DEF ViewShape, BoundAssumption
      <3>2. ASSUME NEW m \in Note
            PROVE  viewed'[m] <= rev'[m] /\ hidden'[m] <= rev'[m]
        <4>1. viewed[m] \in Nat /\ rev[m] \in Nat /\ viewed[m] <= rev[m]
              /\ hidden[m] <= rev[m] /\ viewed[n] <= rev[n] /\ r \in Nat
          BY <1>0, <2>1 DEF ViewShape, RecordShape
        <4>2. CASE m = n
          <5>1. rev'[m] = r /\ hidden'[m] = 0 /\ viewed'[m] = viewed[n]
            BY <1>0, <2>3, <4>2 DEF ViewShape, RecordShape
          <5> QED  BY <2>1, <4>1, <4>2, <5>1
        <4>3. CASE m # n
          <5>1. rev'[m] = rev[m] /\ hidden'[m] = hidden[m] /\ viewed'[m] = viewed[m]
            BY <1>0, <2>3, <4>3 DEF ViewShape, RecordShape
          <5> QED  BY <4>1, <5>1
        <4> QED  BY <4>2, <4>3
      <3> QED  BY <3>1, <3>2 DEF ViewShape
    <2>7. PhoneOK' /\ SnapshotOK'
      BY <1>0, <1>5, <1>6 DEF StoreOK, PhoneOK, SnapshotOK, TaskStep, At
    <2>8. RecordOK'
      <3> SUFFICES ASSUME NEW m \in Note
                   PROVE  /\ rev'[m] <= phoneRev'
                          /\ phase'[m] = "unknown" => rev'[m] = 0
                          /\ phase'[m] = "visible" =>
                               rev'[m] # 0 /\ active'[rev'[m]][m] = rev'[m]
                               /\ digest'[m] = "upsert"
                          /\ phase'[m] = "removed" =>
                               active'[rev'[m]][m] = 0 /\ digest'[m] = "removed"
        BY DEF RecordOK
      <3>1. CASE m = n
        <4>1. rev'[m] = r /\ phase'[m] = p /\ digest'[m] = Bytes(p) /\ active' = active
              /\ phoneRev' = phoneRev
          BY <3>1, <1>0, <1>6, <2>3 DEF RecordShape
        <4> QED  BY <4>1, <3>1, <1>2, <2>1, <2>4
      <3>2. CASE m # n
        <4>1. rev'[m] = rev[m] /\ phase'[m] = phase[m] /\ digest'[m] = digest[m]
              /\ active' = active /\ phoneRev' = phoneRev
          BY <3>2, <1>0, <1>6, <2>3 DEF RecordShape
        <4> QED  BY <4>1, <1>0 DEF StoreOK, RecordOK
      <3> QED  BY <3>1, <3>2
    <2>9. MarkerOK'  BY <1>0, <1>6, MarkersKept DEF MarkerShape
    <2>10. BrowserShape' /\ BoundShape' /\ TasksOK' /\ MarkerShape'
      BY <1>5, <1>6 DEF TaskStep, IInv, Shape, BrowserShape, BoundShape, MarkerShape
    <2> QED  BY <2>5, <2>6, <2>7, <2>8, <2>9, <2>10 DEF IInv, Shape, StoreOK
  <1> QED  BY <1>7, <1>8

LEMMA ReceiveSnapshotPreserves ==
  ASSUME BoundAssumption, IInv, NEW t \in Task, NEW r \in 0..MaxRev, ReceiveSnapshot(t, r)
  PROVE  IInv'
  <1> DEFINE new == [Idle EXCEPT !.step = "observed", !.at = r, !.seen = Records]
  <1>0. RecordShape /\ TasksOK /\ MarkerShape /\ StoreOK /\ MarkerOK  BY DEF IInv, Shape
  <1>1. r <= phoneRev
    BY <1>0 DEF ReceiveSnapshot, RecordShape
  <1>2. Records \in Readings  BY <1>0 DEF Records, Readings, RecordShape
  <1>3. new \in TaskShape /\ new.step = "observed" /\ new.at = r
    BY <1>2, IdleShape DEF TaskShape, Steps
  <1>4. task' = [task EXCEPT ![t] = new]  BY DEF ReceiveSnapshot
  <1>5. "observed" \notin Working  BY DEF Working
  <1>6. UNCHANGED <<boundVars, phoneVars, storeVars, chromeVars, muted, markerVars, events,
                    closing, historyVars>>
    BY DEF ReceiveSnapshot
  <1> HIDE DEF new
  <1>7. TasksOK'  BY <1>0, <1>3, <1>4, <1>5 DEF TasksOK
  <1>8. SnapshotOK'
    <2>1. \A u \in Task : task'[u] = IF u = t THEN new ELSE task[u]
      BY <1>0, <1>4 DEF TasksOK
    <2> QED  BY <2>1, <1>0, <1>1, <1>3, <1>6 DEF StoreOK, SnapshotOK, At
  <1>9. PhoneOK' /\ RecordOK'  BY <1>0, <1>6 DEF StoreOK, PhoneOK, RecordOK
  <1>10. MarkerOK'  BY <1>0, <1>6, MarkersKept DEF MarkerShape
  <1>11. RecordShape' /\ ViewShape' /\ BrowserShape' /\ BoundShape' /\ MarkerShape'
    BY <1>6 DEF IInv, Shape, RecordShape, ViewShape, BrowserShape, BoundShape, MarkerShape
  <1> QED  BY <1>7, <1>8, <1>9, <1>10, <1>11 DEF IInv, Shape, StoreOK

LEMMA ApplySnapshotPreserves ==
  ASSUME BoundAssumption, IInv, NEW t \in Task, ApplySnapshot(t)
  PROVE  IInv'
  <1> DEFINE r == task[t].at
             S == Omitted(r)
  <1>0. RecordShape /\ ViewShape /\ TasksOK /\ MarkerShape /\ StoreOK /\ MarkerOK
    BY DEF IInv, Shape
  <1>1. r \in 0..MaxRev /\ r <= phoneRev
    BY <1>0 DEF ApplySnapshot, StoreOK, SnapshotOK, TasksOK, TaskShape
  <1>2. S \subseteq Note /\ \A n \in S : active[r][n] = 0 /\ rev[n] < r
    BY DEF Omitted, Visible
  <1>3. Closes(S) \in SUBSET Items
    BY <1>2, BoundAssumption DEF Closes, Item, Items, BoundAssumption
  <1>4. Tombstones(S, r) /\ Begin(t, "inbound", Closes(S))
        /\ high' = r /\ manifest' = active[r] /\ cut' = cut \ S
        /\ UNCHANGED <<boundVars, phoneVars, chromeVars, muted, markerVars, events, closing,
                       stale, lost>>
    BY DEF ApplySnapshot
  <1> HIDE DEF r, S
  <1>5. TaskStep(t)  BY <1>0, <1>3, <1>4, BeginStep DEF Kinds
  <1>6. \A n \in Note :
          IF n \in S
          THEN rev'[n] = r /\ phase'[n] = "removed" /\ digest'[n] = "removed"
               /\ viewed'[n] = 0 /\ hidden'[n] = 0
          ELSE rev'[n] = rev[n] /\ phase'[n] = phase[n] /\ digest'[n] = digest[n]
               /\ viewed'[n] = viewed[n] /\ hidden'[n] = hidden[n]
    BY <1>4 DEF Tombstones, TombstoneBytes, Bytes
  <1>7. RecordShape'
    <2>1. rev' \in [Note -> 0..MaxRev]
      BY <1>0, <1>1, <1>4 DEF RecordShape, Tombstones
    <2>2. phase' \in [Note -> {"unknown", "visible", "removed"}]
      BY <1>0, <1>4 DEF RecordShape, Tombstones
    <2>3. digest' \in [Note -> {"none", "upsert", "removed"}]
      BY <1>0, <1>4 DEF RecordShape, Tombstones, TombstoneBytes, Bytes
    <2>4. manifest' \in [Note -> 0..MaxRev] /\ high' \in -1..MaxRev
      BY <1>0, <1>1, <1>4, BoundAssumption DEF RecordShape, BoundAssumption
    <2> QED  BY <2>1, <2>2, <2>3, <2>4, <1>0, <1>4 DEF RecordShape
  <1>8. ViewShape'
    <2>1. viewed' \in [Note -> 0..MaxRev]
      BY <1>0, <1>4, BoundAssumption DEF ViewShape, Tombstones, BoundAssumption
    <2>2. hidden' \in [Note -> 0..MaxRev]
      BY <1>0, <1>4, BoundAssumption DEF ViewShape, Tombstones, BoundAssumption
    <2>3. \A n \in Note : viewed'[n] <= rev'[n] /\ hidden'[n] <= rev'[n]
      BY <1>0, <1>1, <1>6 DEF ViewShape
    <2> QED  BY <2>1, <2>2, <2>3 DEF ViewShape
  <1>9. RecordOK'
    BY <1>0, <1>1, <1>2, <1>4, <1>6 DEF StoreOK, RecordOK
  <1>10. PhoneOK' /\ SnapshotOK'
    BY <1>0, <1>1, <1>4, <1>5 DEF StoreOK, PhoneOK, SnapshotOK, TaskStep, At
  <1>11. MarkerOK'  BY <1>0, <1>4, MarkersKept DEF MarkerShape
  <1>12. BrowserShape' /\ BoundShape' /\ TasksOK' /\ MarkerShape'
    BY <1>4, <1>5 DEF TaskStep, IInv, Shape, BrowserShape, BoundShape, MarkerShape
  <1> QED  BY <1>7, <1>8, <1>9, <1>10, <1>11, <1>12 DEF IInv, Shape, StoreOK

-----------------------------------------------------------------------------
(* The presenter, the pages and the callbacks leave the records alone.     *)

LEMMA TasksKept ==
  ASSUME RecordShape, StoreOK, TasksOK, NEW t \in Task, TaskStep(t),
         UNCHANGED <<phoneVars, rev, phase, digest, snapshotVars>>
  PROVE  StoreOK' /\ TasksOK' /\ RecordShape'
  <1>1. StoreOK'  BY StoreKept DEF TaskStep
  <1> QED  BY <1>1 DEF TaskStep, RecordShape

LEMMA Listing == ASSUME RecordShape, BoundAssumption PROVE Listed \in SUBSET Items
  BY DEF Listed, Visible, Item, Items, RecordShape

\* Steps of a task that touch neither records nor markers.
PlainStep(t) ==
  \/ RepeatSnapshot(t) \/ DropSnapshot(t) \/ LoadPreferences(t) \/ SaveBindings(t)
  \/ Show(t) \/ RemoveBindings(t) \/ SavePreferences(t) \/ Refresh(t) \/ ClearLocal(t)
  \/ \E kind \in {"body", "button"} : ResolveOpen(t, kind)

LEMMA PlainTaskStep ==
  ASSUME BoundAssumption, IInv, NEW t \in Task, PlainStep(t)
  PROVE  TaskStep(t)
  <1>0. RecordShape /\ TasksOK  BY DEF IInv, Shape
  <1>1. CASE RepeatSnapshot(t)
    <2> DEFINE gone == {n \in Note : phase[n] = "removed" /\ rev[n] = task[t].at
                                     /\ active[task[t].at][n] = 0}
    <2>1. gone \subseteq Note  OBVIOUS
    <2>2. Begin(t, "inbound", Closes(gone))  BY <1>1 DEF RepeatSnapshot
    <2> HIDE DEF gone
    <2>3. Closes(gone) \in SUBSET Items
      BY <2>1, BoundAssumption DEF Closes, Item, Items, BoundAssumption
    <2> QED  BY <1>0, <2>2, <2>3, BeginStep DEF Kinds
  <1>2. CASE DropSnapshot(t)  BY <1>0, <1>2, RestStep DEF DropSnapshot
  <1>3. CASE LoadPreferences(t)
    <2>1. PICK readable \in BOOLEAN :
            Moving(t, IF readable /\ ~muted THEN "bind" ELSE "unbind")
      BY <1>3 DEF LoadPreferences
    <2>2. task[t].step \in Working  BY <1>3 DEF LoadPreferences, At, Working, Steps
    <2>3. CASE readable /\ ~muted
      <3>1. Moving(t, "bind")  BY <2>1, <2>3
      <3> QED  BY <1>0, <2>2, <3>1, MovingStep DEF Working, Steps
    <2>4. CASE ~(readable /\ ~muted)
      <3>1. Moving(t, "unbind")  BY <2>1, <2>4
      <3> QED  BY <1>0, <2>2, <3>1, MovingStep DEF Working, Steps
    <2> QED  BY <2>3, <2>4
  <1>4. CASE SaveBindings(t)
    BY <1>0, <1>4, MovingStep DEF SaveBindings, At, Working, Steps
  <1>5. CASE Show(t)  BY <1>0, <1>5, ProceedStep DEF Show
  <1>6. CASE RemoveBindings(t)
    BY <1>0, <1>6, MovingStep DEF RemoveBindings, At, Working, Steps
  <1>7. CASE SavePreferences(t)
    BY <1>0, <1>7, RunStep DEF SavePreferences, Working, Steps, Kinds
  <1>8. CASE Refresh(t)  BY <1>0, <1>8, Listing, BeginStep DEF Refresh, Kinds
  <1>9. CASE ClearLocal(t)  BY <1>0, <1>9, Listing, BeginStep DEF ClearLocal, Kinds
  <1>10. CASE \E kind \in {"body", "button"} : ResolveOpen(t, kind)
    <2>1. Begin(t, "open", {Current(t)}) \/ Rest(t)  BY <1>10 DEF ResolveOpen
    <2>2. task[t].step \in Working  BY <1>10 DEF ResolveOpen, At, Working, Steps
    <2>3. {Current(t)} \in SUBSET Items  BY <1>0, <2>2 DEF TasksOK, Current
    <2>4. CASE Begin(t, "open", {Current(t)})
      BY <1>0, <2>3, <2>4, BeginStep DEF Kinds
    <2> QED  BY <1>0, <2>1, <2>4, RestStep
  <1> QED
    BY <1>1, <1>2, <1>3, <1>4, <1>5, <1>6, <1>7, <1>8, <1>9, <1>10 DEF PlainStep

LEMMA CurrentItem ==
  ASSUME TasksOK, NEW t \in Task, task[t].step \in Working
  PROVE  Current(t) \in Items /\ Current(t).note \in Note /\ Current(t).rev \in 0..MaxRev
  BY DEF TasksOK, Current, Items

LEMMA PlainBrowser ==
  ASSUME BoundAssumption, IInv, NEW t \in Task, PlainStep(t)
  PROVE  BrowserShape' /\ BoundShape'
  <1>0. BrowserShape /\ BoundShape /\ TasksOK  BY DEF IInv, Shape
  <1>1. 0 \in 0..MaxRev  BY DEF BoundAssumption
  <1>2. CASE Show(t)
    <2>1. Current(t).note \in Note /\ Current(t).rev \in 0..MaxRev
      BY <1>0, <1>2, CurrentItem DEF Show, At, Working, Steps
    <2> QED  BY <1>0, <1>2, <2>1 DEF Show, BrowserShape, BoundShape
  <1>3. CASE SaveBindings(t)
    <2>1. Current(t).note \in Note /\ Current(t).rev \in 0..MaxRev
      BY <1>0, <1>3, CurrentItem DEF SaveBindings, At, Working, Steps
    <2> QED  BY <1>0, <1>3, <2>1 DEF SaveBindings, BrowserShape, BoundShape
  <1>4. CASE RemoveBindings(t)
    BY <1>0, <1>1, <1>4 DEF RemoveBindings, BrowserShape, BoundShape
  <1>5. CASE SavePreferences(t)
    BY <1>0, <1>5 DEF SavePreferences, Gesture, BrowserShape, BoundShape, BoundAssumption
  <1>6. CASE ClearLocal(t)
    BY <1>0, <1>6 DEF ClearLocal, Gesture, BrowserShape, BoundShape, BoundAssumption
  <1>7. CASE RepeatSnapshot(t)  BY <1>0, <1>7 DEF RepeatSnapshot, BrowserShape, BoundShape
  <1>8. CASE DropSnapshot(t) \/ LoadPreferences(t) \/ Refresh(t)
             \/ \E kind \in {"body", "button"} : ResolveOpen(t, kind)
    BY <1>0, <1>8 DEF DropSnapshot, LoadPreferences, Refresh, ResolveOpen, BrowserShape,
                      BoundShape
  <1> QED  BY <1>2, <1>3, <1>4, <1>5, <1>6, <1>7, <1>8 DEF PlainStep

LEMMA PlainPreserves ==
  ASSUME BoundAssumption, IInv, NEW t \in Task, PlainStep(t)
  PROVE  IInv'
  <1>0. RecordShape /\ ViewShape /\ TasksOK /\ MarkerShape /\ StoreOK /\ MarkerOK
    BY DEF IInv, Shape
  <1>1. TaskStep(t)  BY PlainTaskStep
  <1>2. UNCHANGED <<phoneVars, storeVars, markerVars, events, closing, lost>>
    BY DEF PlainStep, RepeatSnapshot, DropSnapshot, LoadPreferences, SaveBindings, Show,
           RemoveBindings, SavePreferences, Refresh, ClearLocal, ResolveOpen
  <1>3. StoreOK' /\ TasksOK' /\ RecordShape'  BY <1>0, <1>1, <1>2, TasksKept
  <1>4. MarkerOK'  BY <1>0, <1>2, MarkersKept DEF MarkerShape
  <1>5. ViewShape' /\ MarkerShape'  BY <1>0, <1>2 DEF ViewShape, MarkerShape
  <1>6. BrowserShape' /\ BoundShape'  BY PlainBrowser
  <1> QED  BY <1>3, <1>4, <1>5, <1>6 DEF IInv, Shape

\* The three steps of the lists the pages show.
ViewStep(t) ==
  \/ HideVisible(t) \/ MarkViewed(t)
  \/ \E n \in Note, r \in 1..MaxRev : OpenNotification(t, n, r)

LEMMA ViewPreserves ==
  ASSUME BoundAssumption, IInv, NEW t \in Task, ViewStep(t)
  PROVE  IInv'
  <1>0. RecordShape /\ ViewShape /\ TasksOK /\ MarkerShape /\ StoreOK /\ MarkerOK
        /\ BrowserShape /\ BoundShape
    BY DEF IInv, Shape
  <1>1. UNCHANGED <<phoneVars, rev, phase, digest, snapshotVars, chromeVars, muted,
                    markerVars, events, closing, historyVars>>
    BY DEF ViewStep, HideVisible, MarkViewed, OpenNotification
  <1>2. TaskStep(t) /\ ViewShape' /\ BoundShape'
    <2>1. CASE HideVisible(t)
      <3>1. TaskStep(t) /\ BoundShape'
        BY <1>0, <2>1, RestStep DEF HideVisible, BoundShape
      <3>2. hidden' = [n \in Note |-> IF n \in Visible THEN rev[n] ELSE hidden[n]]
            /\ viewed' = viewed /\ rev' = rev
        BY <2>1 DEF HideVisible
      <3>3. hidden' \in [Note -> 0..MaxRev]  BY <1>0, <3>2 DEF ViewShape, RecordShape
      <3>4. \A n \in Note : hidden'[n] \in {rev[n], hidden[n]}  BY <3>2
      <3>5. \A n \in Note : rev[n] <= rev[n]  BY <1>0 DEF RecordShape
      <3> QED  BY <1>0, <3>1, <3>2, <3>3, <3>4, <3>5 DEF ViewShape
    <2>2. CASE MarkViewed(t)
      <3>1. TaskStep(t) /\ BoundShape'
        BY <1>0, <2>2, RestStep DEF MarkViewed, BoundShape
      <3>2. viewed' \in {[viewed EXCEPT ![Current(t).note] = rev[Current(t).note]], viewed}
            /\ hidden' = hidden /\ rev' = rev
        BY <2>2 DEF MarkViewed
      <3>3. Current(t).note \in Note
        BY <1>0, <2>2, CurrentItem DEF MarkViewed, At, Working, Steps
      <3>4. rev \in [Note -> 0..MaxRev]  BY <1>0 DEF RecordShape
      <3>5. viewed' \in [Note -> 0..MaxRev]  BY <1>0, <3>2, <3>3, <3>4 DEF ViewShape
      <3>6. \A n \in Note : viewed'[n] \in {rev[n], viewed[n]}
        BY <1>0, <3>2, <3>3 DEF ViewShape
      <3>7. \A n \in Note : rev[n] <= rev[n]  BY <3>4
      <3> QED  BY <1>0, <3>1, <3>2, <3>5, <3>6, <3>7 DEF ViewShape
    <2>3. ASSUME NEW n \in Note, NEW r \in 1..MaxRev, OpenNotification(t, n, r)
          PROVE  TaskStep(t) /\ ViewShape' /\ BoundShape'
      <3>1. Item(n, r, "show") \in Items  BY <2>3 DEF Item, Items
      <3>2. Run(t, "view", "view", Item(n, r, "show"), {})  BY <2>3 DEF OpenNotification
      <3>3. TaskStep(t)  BY <1>0, <3>1, <3>2, RunStep DEF Steps, Kinds
      <3>4. ViewShape' /\ BoundShape'
        BY <1>0, <2>3, BoundAssumption
           DEF OpenNotification, Gesture, ViewShape, BoundShape, BoundAssumption
      <3> QED  BY <3>3, <3>4
    <2> QED  BY <2>1, <2>2, <2>3 DEF ViewStep
  <1>3. StoreOK' /\ TasksOK' /\ RecordShape'  BY <1>0, <1>1, <1>2, TasksKept
  <1>4. MarkerOK'  BY <1>0, <1>1, MarkersKept DEF MarkerShape
  <1>5. BrowserShape' /\ MarkerShape'  BY <1>0, <1>1 DEF BrowserShape, MarkerShape
  <1> QED  BY <1>2, <1>3, <1>4, <1>5 DEF IInv, Shape

\* Setting a marker, in one place or both.
LEMMA MarkPreserves ==
  ASSUME BoundAssumption, IInv, NEW t \in Task, Mark(t) \/ StoreMarker(t)
  PROVE  IInv'
  <1>0. RecordShape /\ ViewShape /\ TasksOK /\ MarkerShape /\ StoreOK /\ MarkerOK
        /\ BrowserShape /\ BoundShape
    BY DEF IInv, Shape
  <1>1. TaskStep(t)
    BY <1>0, MovingStep DEF Mark, StoreMarker, At, Working, Steps
  <1>2. Current(t).note \in Note
    BY <1>0, CurrentItem DEF Mark, StoreMarker, At, Working, Steps
  <1>3. UNCHANGED <<boundVars, phoneVars, storeVars, chromeVars, muted, events, closing,
                    historyVars>>
    BY DEF Mark, StoreMarker
  <1>4. /\ mem' \in {mem, mem \union {Current(t).note}}
        /\ kept' = kept \union {Current(t).note}
    BY DEF Mark, StoreMarker
  <1>5. StoreOK' /\ TasksOK' /\ RecordShape'  BY <1>0, <1>1, <1>3, TasksKept
  <1>6. MarkerOK'  BY <1>0, <1>3, <1>4, MarkersKept DEF MarkerShape
  <1>7. MarkerShape'  BY <1>0, <1>2, <1>3, <1>4 DEF MarkerShape
  <1>8. ViewShape' /\ BrowserShape' /\ BoundShape'
    BY <1>0, <1>3 DEF ViewShape, BrowserShape, BoundShape
  <1> QED  BY <1>5, <1>6, <1>7, <1>8 DEF IInv, Shape

LEMMA ClearAbsentPreserves ==
  ASSUME BoundAssumption, IInv, NEW t \in Task, ClearAbsent(t)
  PROVE  IInv'
  <1> DEFINE n == Current(t).note
  <1>0. RecordShape /\ ViewShape /\ TasksOK /\ MarkerShape /\ StoreOK /\ MarkerOK
        /\ BrowserShape /\ BoundShape
    BY DEF IInv, Shape
  <1>1. TaskStep(t)  BY <1>0, ProceedStep DEF ClearAbsent
  <1>2. n \in Note  BY <1>0, CurrentItem DEF ClearAbsent, At, Working, Steps
  <1>3. UNCHANGED <<boundVars, phoneVars, storeVars, chromeVars, muted, events, closing,
                    historyVars>> /\ ~ClosePending(n)
    BY DEF ClearAbsent
  <1>4. UNCHANGED markerVars \/ (mem' = mem \ {n} /\ kept' = kept \ {n})
    BY DEF ClearAbsent
  <1> HIDE DEF n
  <1>5. StoreOK' /\ TasksOK' /\ RecordShape'  BY <1>0, <1>1, <1>3, TasksKept
  <1>6. MarkerOK'
    <2>1. CASE UNCHANGED markerVars  BY <1>0, <1>3, <2>1, MarkersKept DEF MarkerShape
    <2>2. CASE mem' = mem \ {n} /\ kept' = kept \ {n}
      BY <1>0, <1>2, <1>3, <2>2, MarkerDropped DEF MarkerShape
    <2> QED  BY <1>4, <2>1, <2>2
  <1>7. MarkerShape'  BY <1>0, <1>3, <1>4 DEF MarkerShape
  <1>8. ViewShape' /\ BrowserShape' /\ BoundShape'
    BY <1>0, <1>3 DEF ViewShape, BrowserShape, BoundShape
  <1> QED  BY <1>5, <1>6, <1>7, <1>8 DEF IInv, Shape

LEMMA ResolveButtonPreserves ==
  ASSUME BoundAssumption, IInv, NEW t \in Task, ResolveButton(t)
  PROVE  IInv'
  <1> DEFINE n == Current(t).note
  <1>0. RecordShape /\ ViewShape /\ TasksOK /\ MarkerShape /\ StoreOK /\ MarkerOK
        /\ BrowserShape /\ BoundShape
    BY DEF IInv, Shape
  <1>1. TaskStep(t)  BY <1>0, RestStep DEF ResolveButton
  <1>2. n \in Note  BY <1>0, CurrentItem DEF ResolveButton, At, Working, Steps
  <1>3. UNCHANGED <<boundVars, phoneVars, storeVars, chromeVars, muted, events, closing,
                    cut, stale>>
    BY DEF ResolveButton
  <1>4. \/ UNCHANGED <<markerVars, lost>>
        \/ mem' = mem \union {n} /\ kept' = kept \union {n} /\ lost' = lost
        \/ mem' = mem \ {n} /\ kept' = kept \ {n}
           /\ lost' = IF ClosePending(n) THEN lost \union {n} ELSE lost
    BY DEF ResolveButton
  <1> HIDE DEF n
  <1>5. StoreOK' /\ TasksOK' /\ RecordShape'  BY <1>0, <1>1, <1>3, TasksKept
  <1>6. MarkerOK' /\ MarkerShape'
    <2>1. CASE UNCHANGED <<markerVars, lost>>
      BY <1>0, <1>3, <2>1, MarkersKept DEF MarkerShape
    <2>2. CASE mem' = mem \union {n} /\ kept' = kept \union {n} /\ lost' = lost
      BY <1>0, <1>2, <1>3, <2>2, MarkersKept DEF MarkerShape
    <2>3. CASE mem' = mem \ {n} /\ kept' = kept \ {n}
               /\ lost' = IF ClosePending(n) THEN lost \union {n} ELSE lost
      <3>1. MarkerOK'  BY <1>0, <1>2, <1>3, <2>3, MarkerDropped DEF MarkerShape
      <3>2. MarkerShape'  BY <1>0, <1>2, <1>3, <2>3 DEF MarkerShape
      <3> QED  BY <3>1, <3>2
    <2> QED  BY <1>4, <2>1, <2>2, <2>3
  <1>7. ViewShape' /\ BrowserShape' /\ BoundShape'
    BY <1>0, <1>3 DEF ViewShape, BrowserShape, BoundShape
  <1> QED  BY <1>5, <1>6, <1>7 DEF IInv, Shape

LEMMA ExpireMarkerPreserves ==
  ASSUME BoundAssumption, IInv, NEW n \in Note, ExpireMarker(n)
  PROVE  IInv'
  <1>0. RecordShape /\ ViewShape /\ TasksOK /\ MarkerShape /\ StoreOK /\ MarkerOK
        /\ BrowserShape /\ BoundShape
    BY DEF IInv, Shape
  <1>1. UNCHANGED <<boundVars, phoneVars, storeVars, chromeVars, muted, events, closing,
                    task, historyVars>> /\ mem' = mem \ {n} /\ kept' = kept \ {n}
    BY DEF ExpireMarker
  <1>2. ~ClosePending(n)  BY DEF ExpireMarker, ClosePending
  <1>3. MarkerOK'  BY <1>0, <1>1, <1>2, MarkerDropped DEF MarkerShape
  <1>4. StoreOK'  BY <1>0, <1>1, StoreKept DEF TasksOK
  <1>5. Shape'
    BY <1>0, <1>1 DEF Shape, RecordShape, ViewShape, TasksOK, MarkerShape, BrowserShape,
                      BoundShape
  <1> QED  BY <1>3, <1>4, <1>5 DEF IInv

\* Native notifications go, and events come.
LEMMA UserPreserves ==
  ASSUME BoundAssumption, IInv, NEW n \in Note,
         UserClose(n) \/ \E type \in {"body", "button"} : UserClick(n, type)
  PROVE  IInv'
  <1>0. RecordShape /\ ViewShape /\ TasksOK /\ MarkerShape /\ StoreOK /\ MarkerOK
        /\ BrowserShape /\ BoundShape
    BY DEF IInv, Shape
  <1>1. /\ UNCHANGED <<phoneVars, storeVars, bound, muted, markerVars, closing, task, cut,
                       lost>>
        /\ native' \in {native, [native EXCEPT ![n] = 0]}
        /\ stale' \in {stale, stale \ {n}}
    BY DEF UserClose, UserClick
  <1>2. BoundShape'
    <2>1. Gesture  BY DEF UserClose, UserClick
    <2> QED  BY <1>0, <2>1, BoundAssumption DEF Gesture, BoundShape, BoundAssumption
  <1>3. events' \in Seq(Events) /\ Clicks(events', mem \union kept \union lost)
    <2>0. events \in Seq(Events) /\ Clicks(events, mem \union kept \union lost)
      BY <1>0 DEF MarkerShape, MarkerOK, ClicksOK
    <2>1. CASE UserClose(n)
      <3>1. events' = Append(events, Event("closed", n, TRUE, "user"))
        BY <2>1 DEF UserClose
      <3> DEFINE e == Event("closed", n, TRUE, "user")
      <3>2. e \in Events /\ e.why = "user"  BY DEF Event, Events
      <3> HIDE DEF e
      <3>3. events' = Append(events, e)  BY <3>1 DEF e
      <3> QED  BY <2>0, <3>2, <3>3, ClicksAppend
    <2>2. ASSUME NEW type \in {"body", "button"}, UserClick(n, type)
          PROVE  events' \in Seq(Events) /\ Clicks(events', mem \union kept \union lost)
      <3> DEFINE click == Event(type, n, TRUE, "click")
                 close == Event("closed", n, TRUE, "click")
      <3>1. /\ click \in Events /\ click.type # "closed" /\ click.note = n
            /\ click.why = "click"
            /\ close \in Events /\ close.note = n /\ close.why = "click"
        BY DEF Event, Events
      <3>2. events' = Append(events, click) \/ events' = events \o <<click, close>>
        BY <2>2 DEF UserClick
      <3> HIDE DEF click, close
      <3>3. /\ Append(events, click) \in Seq(Events)
            /\ Clicks(Append(events, click), mem \union kept \union lost)
        BY <2>0, <3>1, ClicksAppend
      <3>4. /\ Len(Append(events, click)) > 0
            /\ Append(events, click)[Len(Append(events, click))] = click
            /\ events \o <<click, close>> = Append(Append(events, click), close)
        BY <2>0, <3>1
      <3>5. /\ Append(Append(events, click), close) \in Seq(Events)
            /\ Clicks(Append(Append(events, click), close), mem \union kept \union lost)
        BY <3>1, <3>3, <3>4, ClicksAppend
      <3> QED  BY <3>2, <3>3, <3>4, <3>5
    <2> QED  BY <2>1, <2>2
  <1>4. MarkerOK' /\ MarkerShape'
    BY <1>0, <1>1, <1>3 DEF MarkerOK, ClicksOK, MarkerShape
  <1>5. StoreOK'  BY <1>0, <1>1, StoreKept DEF TasksOK
  <1>6. BrowserShape'
    <2>1. 0 \in 0..MaxRev  BY DEF BoundAssumption
    <2>2. native' \in [Note -> 0..MaxRev]  BY <1>0, <1>1, <2>1 DEF BrowserShape
    <2> QED  BY <1>0, <1>1, <2>2 DEF BrowserShape
  <1>7. RecordShape' /\ ViewShape' /\ TasksOK'
    BY <1>0, <1>1 DEF RecordShape, ViewShape, TasksOK
  <1> QED  BY <1>2, <1>4, <1>5, <1>6, <1>7 DEF IInv, Shape

LEMMA ClearShownPreserves ==
  ASSUME BoundAssumption, IInv, NEW t \in Task, ClearShown(t)
  PROVE  IInv'
  <1> DEFINE n == Current(t).note
             e == Event("closed", n, FALSE, "program")
  <1>0. RecordShape /\ ViewShape /\ TasksOK /\ MarkerShape /\ StoreOK /\ MarkerOK
        /\ BrowserShape /\ BoundShape
    BY DEF IInv, Shape
  <1>1. n \in Note  BY <1>0, CurrentItem DEF ClearShown, At, Working, Steps
  <1>2. TaskStep(t)  BY <1>0, ProceedStep DEF ClearShown
  <1>3. /\ UNCHANGED <<boundVars, phoneVars, storeVars, bound, muted, markerVars, closing,
                       cut, lost>>
        /\ native' = [native EXCEPT ![n] = 0] /\ stale' = stale \ {n}
        /\ events' = Append(events, e)
    BY DEF ClearShown
  <1>4. e \in Events /\ ~e.byUser /\ e.why = "program"
    BY <1>1 DEF Event, Events
  <1> HIDE DEF n, e
  <1>5. events' \in Seq(Events) /\ Clicks(events', mem \union kept \union lost)
    BY <1>0, <1>3, <1>4, ClicksAppend DEF MarkerShape, MarkerOK, ClicksOK
  <1>6. MarkerOK' /\ MarkerShape'
    BY <1>0, <1>3, <1>5 DEF MarkerOK, ClicksOK, MarkerShape
  <1>7. StoreOK' /\ TasksOK' /\ RecordShape'  BY <1>0, <1>2, <1>3, TasksKept
  <1>8. BrowserShape'
    <2>1. 0 \in 0..MaxRev  BY DEF BoundAssumption
    <2>2. native' \in [Note -> 0..MaxRev]  BY <1>0, <1>3, <2>1 DEF BrowserShape
    <2> QED  BY <1>0, <1>3, <2>2 DEF BrowserShape
  <1>9. ViewShape' /\ BoundShape'  BY <1>0, <1>3 DEF ViewShape, BoundShape
  <1> QED  BY <1>6, <1>7, <1>8, <1>9 DEF IInv, Shape

\* Only a close of the user is queued: the event of a click has a marker by then.
LEMMA HandleClosedPreserves ==
  ASSUME BoundAssumption, IInv, HandleClosed
  PROVE  IInv'
  <1> DEFINE e == Head(events)
             marked == mem \union kept \union lost
             cause == IF e.note \in lost THEN "interrupted" ELSE e.why
  <1>0. RecordShape /\ ViewShape /\ TasksOK /\ MarkerShape /\ StoreOK /\ MarkerOK
        /\ BrowserShape /\ BoundShape
    BY DEF IInv, Shape
  <1>1. events \in Seq(Events) /\ events # <<>> /\ Clicks(events, marked)
    BY <1>0 DEF HandleClosed, MarkerShape, MarkerOK, ClicksOK
  <1>2. e.type = "closed" /\ e \in Events /\ e = events[1] /\ 1 \in 1..Len(events)
    BY <1>1 DEF HandleClosed
  <1>3. /\ events' = Tail(events)
        /\ closing' = IF Dismisses(e) THEN closing \union {<<e.note, cause>>} ELSE closing
        /\ mem' = mem \ {e.note} /\ kept' = kept \ {e.note} /\ lost' = lost \ {e.note}
        /\ UNCHANGED <<boundVars, phoneVars, storeVars, chromeVars, muted, task, cut, stale>>
    BY DEF HandleClosed
  <1>4. e.why = "program" => ~e.byUser  BY <1>1, <1>2 DEF Clicks
  <1>5. e.why = "click" => e.note \in marked
    BY <1>1, <1>2 DEF Clicks
  <1>6. e.note \in Note /\ e.why \in {"user", "click", "program"}  BY <1>2 DEF Events
  <1> HIDE DEF e
  <1>7. Dismisses(e) => cause \in {"user", "interrupted"}
    BY <1>4, <1>5, <1>6 DEF Dismisses
  <1>8. events' \in Seq(Events) /\ ClicksOK'
    <2>1. Head(events).type # "closed" => Head(events).note \in marked'  BY <1>2 DEF e
    <2> HIDE DEF marked
    <2>2. Tail(events) \in Seq(Events) /\ Clicks(Tail(events), marked')
      BY <1>1, <2>1, ClicksTail
    <2> QED  BY <1>3, <2>2 DEF ClicksOK, marked
  <1>9. MarkerOK'  BY <1>0, <1>3, <1>7, <1>8 DEF MarkerOK
  <1>10. MarkerShape'
    BY <1>0, <1>3, <1>6, <1>7, <1>8 DEF MarkerShape
  <1>11. StoreOK'  BY <1>0, <1>3, StoreKept DEF TasksOK
  <1>12. RecordShape' /\ ViewShape' /\ TasksOK' /\ BrowserShape' /\ BoundShape'
    BY <1>0, <1>3 DEF RecordShape, ViewShape, TasksOK, BrowserShape, BoundShape
  <1> QED  BY <1>9, <1>10, <1>11, <1>12 DEF IInv, Shape

LEMMA HandleClickPreserves ==
  ASSUME BoundAssumption, IInv, NEW t \in Task, HandleClick(t)
  PROVE  IInv'
  <1> DEFINE e == Head(events)
             marked == mem \union kept \union lost
  <1>0. RecordShape /\ ViewShape /\ TasksOK /\ MarkerShape /\ StoreOK /\ MarkerOK
        /\ BrowserShape /\ BoundShape
    BY DEF IInv, Shape
  <1>1. events \in Seq(Events) /\ events # <<>> /\ Clicks(events, marked)
    BY <1>0 DEF HandleClick, MarkerShape, MarkerOK, ClicksOK
  <1>2. e \in Events /\ e.note \in Note /\ e.type \in {"body", "button"}
    <2>1. e \in Events  BY <1>1
    <2> QED  BY <2>1 DEF Events, HandleClick
  <1>3. /\ events' = Tail(events) /\ mem' = mem \union {e.note}
        /\ Run(t, e.type, "persist", Item(e.note, 0, "close"), {})
        /\ UNCHANGED <<boundVars, phoneVars, storeVars, chromeVars, muted, kept, closing,
                       historyVars>>
    BY DEF HandleClick
  <1> HIDE DEF e
  <1>4. TaskStep(t)
    <2>1. Item(e.note, 0, "close") \in Items
      BY <1>2, BoundAssumption DEF Item, Items, BoundAssumption
    <2> QED  BY <1>0, <1>2, <1>3, <2>1, RunStep DEF Steps, Kinds
  <1>5. events' \in Seq(Events) /\ ClicksOK'
    <2>1. Head(events).type # "closed" => Head(events).note \in marked'
      BY <1>3 DEF e
    <2> HIDE DEF marked
    <2>2. Tail(events) \in Seq(Events) /\ Clicks(Tail(events), marked')
      BY <1>1, <2>1, ClicksTail
    <2> QED  BY <1>3, <2>2 DEF ClicksOK, marked
  <1>6. MarkerOK' /\ MarkerShape'
    BY <1>0, <1>2, <1>3, <1>5 DEF MarkerOK, MarkerShape
  <1>7. StoreOK' /\ TasksOK' /\ RecordShape'  BY <1>0, <1>3, <1>4, TasksKept
  <1>8. ViewShape' /\ BrowserShape' /\ BoundShape'
    BY <1>0, <1>3 DEF ViewShape, BrowserShape, BoundShape
  <1> QED  BY <1>6, <1>7, <1>8 DEF IInv, Shape

LEMMA RequestDismissPreserves ==
  ASSUME BoundAssumption, IInv, NEW c \in closing, RequestDismiss(c)
  PROVE  IInv'
  <1>0. RecordShape /\ ViewShape /\ TasksOK /\ MarkerShape /\ StoreOK /\ MarkerOK
        /\ BrowserShape /\ BoundShape
    BY DEF IInv, Shape
  <1>1. closing' = closing \ {c} /\ UNCHANGED <<boundVars, phoneVars, storeVars, chromeVars,
                                    muted, markerVars, events, task, historyVars>>
    BY DEF RequestDismiss
  <1>2. MarkerOK' /\ MarkerShape'  BY <1>0, <1>1 DEF MarkerOK, ClicksOK, Clicks, MarkerShape
  <1>3. StoreOK'  BY <1>0, <1>1, StoreKept DEF TasksOK
  <1>4. RecordShape' /\ ViewShape' /\ TasksOK' /\ BrowserShape' /\ BoundShape'
    BY <1>0, <1>1 DEF RecordShape, ViewShape, TasksOK, BrowserShape, BoundShape
  <1> QED  BY <1>2, <1>3, <1>4 DEF IInv, Shape

LEMMA CrashPreserves ==
  ASSUME BoundAssumption, IInv, Crash
  PROVE  IInv'
  <1>0. RecordShape /\ ViewShape /\ TasksOK /\ MarkerShape /\ StoreOK /\ MarkerOK
        /\ BrowserShape /\ BoundShape
    BY DEF IInv, Shape
  <1>1. /\ task' = [t \in Task |-> Idle] /\ mem' = {} /\ closing' = {}
        /\ cut' = cut \union {n \in Note : InHand(n)}
        /\ lost' = lost \union {n \in mem \ kept : ClosePending(n)}
        /\ UNCHANGED <<gestures, phoneVars, storeVars, chromeVars, muted, kept, events,
                       stale>>
    BY DEF Crash
  <1>2. TasksOK'
    BY <1>1, IdleShape DEF TasksOK, Idle, Working
  <1>3. \A t \in Task : task'[t].step # "observed"  BY <1>1 DEF Idle
  <1>4. StoreOK'  BY <1>0, <1>1, <1>2, <1>3, StoreKept
  <1>5. DOMAIN events = 1..Len(events)  BY <1>0 DEF MarkerShape
  <1>6. \A i \in 1..Len(events) : events[i].type = "closed" => ClosePending(events[i].note)
    BY <1>5 DEF ClosePending
  <1>7. ClicksOK'
    <2>1. \A i \in 1..Len(events) :
            events[i].type = "closed" /\ events[i].note \in mem \union kept \union lost
              => events[i].note \in mem' \union kept' \union lost'
      BY <1>1, <1>6
    <2> QED  BY <1>0, <1>1, <2>1 DEF MarkerOK, ClicksOK, Clicks
  <1>8. MarkerOK' /\ MarkerShape'  BY <1>0, <1>1, <1>7 DEF MarkerOK, MarkerShape
  <1>9. BoundShape'  BY <1>0, <1>1, BoundAssumption DEF Crash, BoundShape, BoundAssumption
  <1>10. RecordShape' /\ ViewShape' /\ BrowserShape'
    BY <1>0, <1>1 DEF RecordShape, ViewShape, BrowserShape
  <1> QED  BY <1>2, <1>4, <1>8, <1>9, <1>10 DEF IInv, Shape

-----------------------------------------------------------------------------
(* The invariant and what follows from it.                                 *)

LEMMA InitIInv == ASSUME BoundAssumption, Init PROVE IInv
  <1>0. 0 \in 0..MaxRev  BY DEF BoundAssumption
  <1>1. RecordShape  BY <1>0 DEF Init, RecordShape
  <1>2. ViewShape  BY <1>0 DEF Init, ViewShape
  <1>3. BrowserShape  BY <1>0 DEF Init, BrowserShape
  <1>4. BoundShape  BY DEF Init, BoundShape, BoundAssumption
  <1>5. TasksOK  BY IdleShape DEF Init, TasksOK, Idle, Working
  <1>6. MarkerShape  BY DEF Init, MarkerShape
  <1>7. StoreOK
    <2>1. \A t \in Task : task[t].step # "observed"  BY DEF Init, Idle
    <2> QED  BY <2>1, <1>0 DEF Init, StoreOK, PhoneOK, RecordOK, SnapshotOK, At
  <1>8. MarkerOK  BY DEF Init, MarkerOK, ClicksOK, Clicks
  <1> QED  BY <1>1, <1>2, <1>3, <1>4, <1>5, <1>6, <1>7, <1>8 DEF IInv, Shape

LEMMA StutterPreserves == ASSUME BoundAssumption, IInv, UNCHANGED vars PROVE IInv'
  <1>0. RecordShape /\ ViewShape /\ TasksOK /\ MarkerShape /\ StoreOK /\ MarkerOK
        /\ BrowserShape /\ BoundShape
    BY DEF IInv, Shape
  <1>1. UNCHANGED <<phoneVars, storeVars, chromeVars, muted, markerVars, events, closing,
                    task, boundVars, historyVars>>
    BY DEF vars
  <1>2. StoreOK'  BY <1>0, <1>1, StoreKept DEF TasksOK
  <1>3. MarkerOK' /\ MarkerShape'  BY <1>0, <1>1 DEF MarkerOK, ClicksOK, MarkerShape
  <1>4. RecordShape' /\ ViewShape' /\ TasksOK' /\ BrowserShape' /\ BoundShape'
    BY <1>0, <1>1 DEF RecordShape, ViewShape, TasksOK, BrowserShape, BoundShape
  <1> QED  BY <1>2, <1>3, <1>4 DEF IInv, Shape

LEMMA NextIInv == ASSUME BoundAssumption, IInv, [Next]_vars PROVE IInv'
  <1>1. CASE \E n \in Note, shown \in BOOLEAN : PhoneEvent(n, shown)
    BY <1>1, PhoneEventPreserves
  <1>2. CASE \E t \in Task, n \in Note, r \in 1..MaxRev : ReceiveItem(t, n, r)
    BY <1>2, ReceiveItemPreserves
  <1>3. CASE \E t \in Task, r \in 0..MaxRev : ReceiveSnapshot(t, r)
    BY <1>3, ReceiveSnapshotPreserves
  <1>4. CASE \E t \in Task : ApplySnapshot(t)  BY <1>4, ApplySnapshotPreserves
  <1>5. CASE \E t \in Task : PlainStep(t)  BY <1>5, PlainPreserves
  <1>6. CASE \E t \in Task : ViewStep(t)  BY <1>6, ViewPreserves
  <1>7. CASE \E t \in Task : Mark(t) \/ StoreMarker(t)  BY <1>7, MarkPreserves
  <1>8. CASE \E t \in Task : ClearShown(t) \/ ClearAbsent(t)
    BY <1>8, ClearShownPreserves, ClearAbsentPreserves
  <1>9. CASE \E t \in Task : ResolveButton(t) \/ HandleClick(t)
    BY <1>9, ResolveButtonPreserves, HandleClickPreserves
  <1>10. CASE \E n \in Note : \/ UserClose(n)
                               \/ \E type \in {"body", "button"} : UserClick(n, type)
    BY <1>10, UserPreserves
  <1>11. CASE HandleClosed \/ (\E c \in closing : RequestDismiss(c)) \/ Crash
    BY <1>11, HandleClosedPreserves, RequestDismissPreserves, CrashPreserves
  <1>12. CASE \E n \in Note : ExpireMarker(n)  BY <1>12, ExpireMarkerPreserves
  <1>13. CASE UNCHANGED vars  BY <1>13, StutterPreserves
  <1> QED
    BY <1>1, <1>2, <1>3, <1>4, <1>5, <1>6, <1>7, <1>8, <1>9, <1>10, <1>11, <1>12, <1>13
       DEF Next, PlainStep, ViewStep

\* The inductive invariant, for all notifications, tasks and bounds.
THEOREM MirrorInductive == Spec => []IInv
  BY BoundAssumption, InitIInv, NextIInv, PTL DEF Spec

\* Type correctness of the mirror: no marker, view or local hiding is ever of
\* a revision the store does not hold.
THEOREM MirrorTypes == Spec => []TypeOK
  <1>1. IInv => TypeOK
    BY DEF IInv, Shape, RecordShape, ViewShape, BrowserShape, BoundShape, MarkerShape, TypeOK
  <1> QED  BY <1>1, MirrorInductive, PTL

\* No message or manifest of the source is ever refused as bound to different
\* bytes (reconcile, reconcileSnapshot), whatever came before it.
THEOREM NeverConflicts == Spec => []NoConflict
  <1>1. ASSUME IInv, NEW n \in Note, NEW r \in 1..phoneRev PROVE ~ItemConflicts(n, r)
    <2>1. RecordShape /\ RecordOK  BY <1>1 DEF IInv, Shape, StoreOK
    <2>2. phase[n] \in {"unknown", "visible", "removed"} /\ r > 0
      BY <1>1, <2>1 DEF RecordShape
    <2>3. rev[n] = r /\ MessagePhase(n, r) = "visible"
            => phase[n] = "visible" /\ digest[n] = "upsert"
      BY <2>1, <2>2 DEF MessagePhase, RecordOK
    <2>4. rev[n] = r /\ MessagePhase(n, r) = "removed"
            => phase[n] = "removed" /\ digest[n] = "removed"
      BY <2>1, <2>2 DEF MessagePhase, RecordOK
    <2>5. MessagePhase(n, r) \in {"none", "visible", "removed"}  BY DEF MessagePhase
    <2> QED  BY <2>3, <2>4, <2>5 DEF ItemConflicts, Bytes
  <1>2. ASSUME IInv, NEW r \in 0..phoneRev PROVE ~SnapshotConflicts(r)
    <2>1. RecordShape /\ RecordOK /\ PhoneOK /\ SnapshotOK  BY <1>2 DEF IInv, Shape, StoreOK
    <2>2. r = high => manifest = active[r]
      BY <1>2, <2>1 DEF SnapshotOK
    <2>3. ASSUME NEW n \in Note, active[r][n] # 0, rev[n] = active[r][n]
          PROVE  phase[n] = "visible"
      <3>1. active[rev[n]][n] = rev[n] /\ rev[n] # 0  BY <2>1, <2>3 DEF PhoneOK
      <3>2. phase[n] \in {"unknown", "visible", "removed"}  BY <2>1 DEF RecordShape
      <3> QED  BY <2>1, <3>1, <3>2 DEF RecordOK
    <2>4. ASSUME NEW n \in Note, active[r][n] = 0, phase[n] = "visible"
          PROVE  rev[n] # r
      BY <2>1, <2>4 DEF RecordOK
    <2> QED  BY <2>2, <2>3, <2>4 DEF SnapshotConflicts
  <1>3. IInv => NoConflict  BY <1>1, <1>2 DEF NoConflict
  <1> QED  BY <1>3, MirrorInductive, PTL

\* handleNotificationClosed and the click callbacks: no close by the extension,
\* and none that came with a click, asks the phone to dismiss, unless its marker
\* was lost in a crash or taken back after a clear that could not be sent.
THEOREM ProgramNeverDismisses == Spec => []OnlyUserDismisses
  <1>1. IInv => OnlyUserDismisses  BY DEF IInv, MarkerOK, OnlyUserDismisses
  <1> QED  BY <1>1, MirrorInductive, PTL

-----------------------------------------------------------------------------
(* The records implement MirrorContract.                                   *)

LEMMA ReceiveItemAdvances ==
  ASSUME BoundAssumption, IInv, NEW t \in Task, NEW n \in Note, NEW r \in 1..MaxRev,
         ReceiveItem(t, n, r)
  PROVE  Contract!Advance({n}) \/ UNCHANGED <<phoneRev, active, rev, phase>>
  <1> DEFINE p == MessagePhase(n, r)
  <1>0. RecordShape /\ RecordOK  BY DEF IInv, Shape, StoreOK
  <1>1. p # "none" /\ ~(r < rev[n])  BY DEF ReceiveItem, Stale
  <1>2. r <= phoneRev /\ p \in {"visible", "removed"}
        /\ (p = "visible" => active[r][n] = r) /\ (p = "removed" => active[r][n] = 0)
    BY <1>0, <1>1, MessageState
  <1>3. CASE r = rev[n]  BY <1>3 DEF ReceiveItem, Applied
  <1>4. CASE r # rev[n]
    <2>1. rev' = [rev EXCEPT ![n] = r] /\ phase' = [phase EXCEPT ![n] = p]
          /\ UNCHANGED <<phoneRev, active>>
      BY <1>4 DEF ReceiveItem, Applied, Put
    <2> HIDE DEF p
    <2>2. rev[n] \in Nat /\ r > rev[n] /\ r \in 0..phoneRev /\ phoneRev \in Nat
      BY <1>0, <1>1, <1>2, <1>4 DEF RecordShape
    <2>3. rev \in [Note -> 0..phoneRev]  BY <1>0, <2>2 DEF RecordShape, RecordOK
    <2>4. rev' \in [Note -> 0..phoneRev]  BY <2>1, <2>2, <2>3
    <2>5. phase' \in [Note -> {"unknown", "visible", "removed"}]
      BY <1>0, <1>2, <2>1 DEF RecordShape
    <2>6. \A m \in Note \ {n} : rev'[m] = rev[m] /\ phase'[m] = phase[m]
      BY <1>0, <2>1 DEF RecordShape
    <2>7. rev'[n] = r /\ phase'[n] = p  BY <1>0, <2>1 DEF RecordShape
    <2> QED  BY <1>2, <2>1, <2>2, <2>4, <2>5, <2>6, <2>7 DEF Contract!Advance
  <1> QED  BY <1>3, <1>4

LEMMA ApplySnapshotAdvances ==
  ASSUME BoundAssumption, IInv, NEW t \in Task, ApplySnapshot(t)
  PROVE  \/ \E S \in SUBSET Note : Contract!Advance(S)
         \/ UNCHANGED <<phoneRev, active, rev, phase>>
  <1> DEFINE r == task[t].at
             S == Omitted(r)
  <1>0. RecordShape /\ RecordOK /\ SnapshotOK /\ TasksOK  BY DEF IInv, Shape, StoreOK
  <1>1. r \in 0..MaxRev /\ r <= phoneRev /\ phoneRev \in Nat
    BY <1>0 DEF ApplySnapshot, SnapshotOK, TasksOK, TaskShape, RecordShape
  <1>2. S \subseteq Note /\ \A n \in S : active[r][n] = 0 /\ rev[n] < r
    BY DEF Omitted, Visible
  <1>3. Tombstones(S, r) /\ UNCHANGED <<phoneRev, active>>  BY DEF ApplySnapshot
  <1> HIDE DEF r, S
  <1>4. /\ rev' = [n \in Note |-> IF n \in S THEN r ELSE rev[n]]
        /\ phase' = [n \in Note |-> IF n \in S THEN "removed" ELSE phase[n]]
    BY <1>3 DEF Tombstones
  <1>5. CASE S = {}
    <2>1. rev' = rev /\ phase' = phase  BY <1>0, <1>4, <1>5 DEF RecordShape
    <2> QED  BY <1>3, <2>1
  <1>6. CASE S # {}
    <2>1. rev \in [Note -> 0..phoneRev]  BY <1>0, <1>1 DEF RecordShape, RecordOK
    <2>2. rev' \in [Note -> 0..phoneRev]  BY <1>1, <1>4, <2>1
    <2>3. phase' \in [Note -> {"unknown", "visible", "removed"}]
      BY <1>0, <1>4 DEF RecordShape
    <2>4. Contract!Advance(S)
      BY <1>1, <1>2, <1>3, <1>4, <1>6, <2>1, <2>2, <2>3 DEF Contract!Advance
    <2> QED  BY <1>2, <2>4
  <1> QED  BY <1>5, <1>6

LEMMA StepKeepsContract ==
  ASSUME BoundAssumption, IInv, [Next]_vars
  PROVE  [Contract!Next]_(Contract!contractVars)
  <1> USE DEF Contract!contractVars
  <1>1. CASE \E n \in Note, shown \in BOOLEAN : PhoneEvent(n, shown)
    BY <1>1 DEF PhoneEvent, Contract!PhoneEvent, Contract!Next
  <1>2. CASE \E t \in Task, n \in Note, r \in 1..MaxRev : ReceiveItem(t, n, r)
    <2>1. PICK t \in Task, n \in Note, r \in 1..MaxRev : ReceiveItem(t, n, r)  BY <1>2
    <2>2. {n} \in SUBSET Note  OBVIOUS
    <2> QED  BY <2>1, <2>2, ReceiveItemAdvances DEF Contract!Next
  <1>3. CASE \E t \in Task : ApplySnapshot(t)
    BY <1>3, ApplySnapshotAdvances DEF Contract!Next
  <1>4. CASE \E t \in Task : PlainStep(t)
    BY <1>4 DEF PlainStep, RepeatSnapshot, DropSnapshot, LoadPreferences, SaveBindings, Show,
                RemoveBindings, SavePreferences, Refresh, ClearLocal, ResolveOpen
  <1>5. CASE \E t \in Task : \/ ViewStep(t) \/ Mark(t) \/ StoreMarker(t) \/ ClearShown(t)
                             \/ ClearAbsent(t) \/ ResolveButton(t) \/ HandleClick(t)
                             \/ \E r \in 0..MaxRev : ReceiveSnapshot(t, r)
    BY <1>5 DEF ViewStep, HideVisible, MarkViewed, OpenNotification, Mark, StoreMarker,
                ClearShown, ClearAbsent, ResolveButton, HandleClick, ReceiveSnapshot
  <1>6. CASE \E n \in Note : \/ UserClose(n) \/ ExpireMarker(n)
                             \/ \E type \in {"body", "button"} : UserClick(n, type)
    BY <1>6 DEF UserClose, ExpireMarker, UserClick
  <1>7. CASE HandleClosed \/ (\E c \in closing : RequestDismiss(c)) \/ Crash
    BY <1>7 DEF HandleClosed, RequestDismiss, Crash
  <1>8. CASE UNCHANGED vars  BY <1>8 DEF vars
  <1> QED
    BY <1>1, <1>2, <1>3, <1>4, <1>5, <1>6, <1>7, <1>8 DEF Next, PlainStep, ViewStep

\* The mirror implements MirrorContract for every set of notifications and any
\* number of tasks: each record is a state the source had, and moves only to
\* later ones, whatever order, repetition or loss the messages meet.
THEOREM MirrorImplementsContract == Spec => KeepsContract
  <1>1. Init => Contract!Init  BY DEF Init, Contract!Init
  <1> QED
    BY BoundAssumption, <1>1, MirrorInductive, StepKeepsContract, PTL
       DEF Spec, KeepsContract, Contract!Spec

\* markViewed: a revision becomes viewed only by opening that very revision.
THEOREM OnlyOpenedIsViewed == Spec => ViewedAsOpened
  <1>1. ASSUME IInv, [Next]_vars PROVE [Opened]_vars
    <2>0. viewed \in [Note -> 0..MaxRev]  BY <1>1 DEF IInv, Shape, ViewShape
    <2>1. CASE \E t \in Task, n \in Note, r \in 1..MaxRev : ReceiveItem(t, n, r)
      BY <2>1 DEF ReceiveItem, Put, Opened
    <2>2. CASE \E t \in Task : ApplySnapshot(t)
      <3>1. \A n \in Note : viewed'[n] \in {viewed[n], 0}
        BY <2>2 DEF ApplySnapshot, Tombstones
      <3> QED  BY <3>1 DEF Opened
    <2>3. CASE \E t \in Task : MarkViewed(t)
      <3>1. PICK t \in Task : MarkViewed(t)  BY <2>3
      <3>2. CASE viewed' = viewed  BY <3>2 DEF Opened
      <3>3. CASE viewed' # viewed
        <4>1. At(t, "view") /\ rev[Current(t).note] = Current(t).rev
              /\ viewed' = [viewed EXCEPT ![Current(t).note] = rev[Current(t).note]]
          BY <3>1, <3>3 DEF MarkViewed, StillAsListed
        <4>2. \A n \in Note : n # Current(t).note => viewed'[n] = viewed[n]
          BY <4>1, <2>0
        <4>3. Current(t).note \in Note => viewed'[Current(t).note] = Current(t).rev
          BY <4>1, <2>0
        <4> QED  BY <4>1, <4>2, <4>3 DEF Opened
      <3> QED  BY <3>2, <3>3
    <2>4. CASE viewed' = viewed  BY <2>4 DEF Opened
    <2>5. \/ \E t \in Task, n \in Note, r \in 1..MaxRev : ReceiveItem(t, n, r)
          \/ \E t \in Task : ApplySnapshot(t) \/ MarkViewed(t)
          \/ viewed' = viewed
      BY <1>1 DEF Next, vars, PhoneEvent, ReceiveSnapshot, RepeatSnapshot, DropSnapshot,
                  LoadPreferences, SaveBindings, Show, RemoveBindings, SavePreferences,
                  Refresh, ClearLocal, ResolveOpen, HideVisible, OpenNotification, Mark,
                  StoreMarker, ClearShown, ClearAbsent, ResolveButton, HandleClick,
                  UserClose, ExpireMarker, UserClick, HandleClosed, RequestDismiss, Crash
    <2> QED  BY <2>1, <2>2, <2>3, <2>4, <2>5
  <1> QED  BY <1>1, MirrorInductive, PTL DEF Spec, ViewedAsOpened

-----------------------------------------------------------------------------
(* What chrome.notifications shows.                                         *)

\* A task with these steps ends by showing or clearing its item, and goes on to
\* the next; the others have no further items.
Presenting == {"load", "bind", "show", "unbind", "mark", "clear"}
Handles(x, n) ==
  \/ x.step \in Presenting /\ x.item.note = n
  \/ \E i \in x.todo : i.note = n
Busy(n) == \E t \in Task : Handles(task[t], n)
Fresh(n) == phase[n] = "visible" /\ native[n] = rev[n] /\ bound[n] = rev[n]

TodoOK == \A t \in Task : task[t].step \notin Presenting => task[t].todo = {}
ShownOK ==
  \A n \in Note : native[n] # 0 /\ ~Busy(n) /\ n \notin cut \union stale => Fresh(n)
PresentInv == TodoOK /\ ShownOK

\* n is as it was, and in hand if it was.
Untouched(n) ==
  /\ UNCHANGED <<phase[n], rev[n], native[n], bound[n]>>
  /\ n \in cut \union stale => n \in cut' \union stale'
  /\ Busy(n) => Busy(n)'
Settled(n) == Busy(n)' \/ native'[n] = 0 \/ n \in cut' \union stale' \/ Fresh(n)'

LEMMA PresentKept ==
  ASSUME PresentInv, TodoOK', \A n \in Note : Untouched(n) \/ Settled(n)
  PROVE  PresentInv'
  BY DEF PresentInv, ShownOK, Untouched, Settled, Fresh

\* Where a task begins with an item, or goes on, everything that is left is in hand.
LEMMA RestQuiet ==
  ASSUME TasksOK, TodoOK, NEW t \in Task, Rest(t)
  PROVE  /\ TodoOK' /\ \A u \in Task : u # t => task'[u] = task[u]
  <1>1. Idle.step = "idle" /\ Idle.todo = {}  BY DEF Idle
  <1>2. task' = [task EXCEPT ![t] = Idle]  BY DEF Rest
  <1> QED  BY <1>1, <1>2 DEF TasksOK, TodoOK

LEMMA RunHands ==
  ASSUME TasksOK, TodoOK, NEW t \in Task, NEW kind, NEW step, NEW item, NEW todo,
         Run(t, kind, step, item, todo), step \notin Presenting => todo = {}
  PROVE  /\ TodoOK' /\ \A u \in Task : u # t => task'[u] = task[u]
         /\ task'[t].step = step /\ task'[t].item = item /\ task'[t].todo = todo
  <1> DEFINE new == [Idle EXCEPT !.step = step, !.kind = kind, !.item = item, !.todo = todo]
  <1>1. new.step = step /\ new.item = item /\ new.todo = todo  BY DEF Idle
  <1>2. task' = [task EXCEPT ![t] = new]  BY DEF Run
  <1> HIDE DEF new
  <1> QED  BY <1>1, <1>2 DEF TasksOK, TodoOK

LEMMA BeginHands ==
  ASSUME TasksOK, TodoOK, NEW t \in Task, NEW kind, NEW items, Begin(t, kind, items)
  PROVE  /\ TodoOK' /\ \A u \in Task : u # t => task'[u] = task[u]
         /\ \A i \in items : Handles(task'[t], i.note)
  <1>1. CASE items = {} /\ kind = "clear" /\ Run(t, kind, "hide", NoItem, {})
    BY <1>1, RunHands
  <1>2. CASE items = {} /\ kind # "clear" /\ Rest(t)
    BY <1>2, RestQuiet
  <1>3. CASE \E i \in items : Run(t, kind, FirstStep(kind, i), i, items \ {i})
    <2>1. PICK i \in items : Run(t, kind, FirstStep(kind, i), i, items \ {i})  BY <1>3
    <2>2. FirstStep(kind, i) \in Presenting  BY DEF FirstStep, Presenting
    <2>3. /\ TodoOK' /\ \A u \in Task : u # t => task'[u] = task[u]
          /\ task'[t].step = FirstStep(kind, i) /\ task'[t].item = i
          /\ task'[t].todo = items \ {i}
      BY <2>1, <2>2, RunHands
    <2>4. \A e \in items : e = i \/ e \in task'[t].todo  BY <2>3
    <2> QED  BY <2>2, <2>3, <2>4 DEF Handles
  <1> QED  BY <1>1, <1>2, <1>3 DEF Begin

LEMMA MovingHands ==
  ASSUME TasksOK, TodoOK, NEW t \in Task, NEW step, Moving(t, step),
         step \in Presenting \/ task[t].step \notin Presenting
  PROVE  /\ TodoOK' /\ \A u \in Task : u # t => task'[u] = task[u]
         /\ task'[t].step = step
         /\ task'[t].item = task[t].item /\ task'[t].todo = task[t].todo
  <1>1. task[t] \in TaskShape  BY DEF TasksOK
  <1>2. task' = [task EXCEPT ![t].step = step]  BY DEF Moving
  <1>3. /\ \A u \in Task : u # t => task'[u] = task[u]
        /\ task'[t].step = step
        /\ task'[t].item = task[t].item /\ task'[t].todo = task[t].todo
    BY <1>1, <1>2 DEF TasksOK, TaskShape
  <1> QED  BY <1>3 DEF TodoOK

\* What stays in hand when only t goes on.
LEMMA BusyStays ==
  ASSUME NEW t \in Task, \A u \in Task : u # t => task'[u] = task[u], NEW n,
         Handles(task[t], n) => Handles(task'[t], n), Busy(n)
  PROVE  Busy(n)'
  BY DEF Busy

\* A step of t on its item: the rest of its items stays in hand.
LEMMA ProceedPresents ==
  ASSUME IInv, PresentInv, NEW t \in Task, task[t].step \in Presenting, Proceed(t),
         NEW m \in Note, m = Current(t).note,
         UNCHANGED <<phase, rev, bound, cut>>,
         \A n \in Note : n # m => UNCHANGED native[n] /\ (n \in stale => n \in stale'),
         Settled(m)
  PROVE  PresentInv'
  <1>0. TasksOK /\ TodoOK  BY DEF IInv, Shape, PresentInv
  <1>1. /\ TodoOK' /\ \A u \in Task : u # t => task'[u] = task[u]
        /\ \A i \in task[t].todo : Handles(task'[t], i.note)
    BY <1>0, BeginHands DEF Proceed
  <1>2. ASSUME NEW n \in Note, n # m PROVE Untouched(n)
    <2>1. Handles(task[t], n) => Handles(task'[t], n)
      BY <1>1, <1>2 DEF Handles, Current
    <2>2. Busy(n) => Busy(n)'  BY <1>1, <2>1, BusyStays
    <2> QED  BY <1>2, <2>2 DEF Untouched
  <1>3. \A n \in Note : Untouched(n) \/ Settled(n)  BY <1>2
  <1> QED  BY <1>1, <1>3, PresentKept

LEMMA ShowPresents ==
  ASSUME BoundAssumption, IInv, PresentInv, NEW t \in Task, Show(t)
  PROVE  PresentInv'
  <1>0. /\ native \in [Note -> 0..MaxRev] /\ stale \subseteq Note /\ TasksOK
        /\ task[t].step \in Working /\ task[t].step \in Presenting
    BY DEF IInv, Shape, BrowserShape, Show, At, Working, Steps, Presenting
  <1>1. PICK n \in Note : n = Current(t).note
    BY <1>0 DEF TasksOK, Items, Current
  <1>2. Current(t).rev \in 0..MaxRev  BY <1>0 DEF TasksOK, Items, Current
  <1>3. native' = [native EXCEPT ![n] = Current(t).rev]  BY <1>1 DEF Show
  <1>4. Settled(n)
    <2>1. CASE phase[n] = "visible" /\ rev[n] = Current(t).rev /\ bound[n] = Current(t).rev
      <3>1. Fresh(n)'  BY <1>0, <1>3, <2>1 DEF Fresh, Show
      <3> QED  BY <3>1 DEF Settled
    <2>2. CASE ~(phase[n] = "visible" /\ rev[n] = Current(t).rev /\ bound[n] = Current(t).rev)
      <3>1. n \in stale'  BY <1>1, <2>2 DEF Show
      <3> QED  BY <3>1 DEF Settled
    <2> QED  BY <2>1, <2>2
  <1>5. \A m \in Note : m # n => native'[m] = native[m] /\ (m \in stale => m \in stale')
    BY <1>0, <1>1, <1>3 DEF Show
  <1>6. Proceed(t) /\ UNCHANGED <<phase, rev, bound, cut>>  BY DEF Show
  <1> QED  BY <1>0, <1>1, <1>4, <1>5, <1>6, ProceedPresents

LEMMA ClearPresents ==
  ASSUME BoundAssumption, IInv, PresentInv, NEW t \in Task, ClearShown(t) \/ ClearAbsent(t)
  PROVE  PresentInv'
  <1>0. /\ native \in [Note -> 0..MaxRev] /\ stale \subseteq Note /\ TasksOK
        /\ task[t].step \in Working /\ task[t].step \in Presenting
    BY DEF IInv, Shape, BrowserShape, ClearShown, ClearAbsent, At, Working, Steps, Presenting
  <1>1. PICK n \in Note : n = Current(t).note
    BY <1>0 DEF TasksOK, Items, Current
  <1>2. native'[n] = 0 /\ \A m \in Note : m # n => native'[m] = native[m]
    BY <1>0, <1>1 DEF ClearShown, ClearAbsent
  <1>3. Settled(n)  BY <1>2 DEF Settled
  <1>4. \A m \in Note : m # n => (m \in stale => m \in stale')
    BY <1>1 DEF ClearShown, ClearAbsent
  <1>5. Proceed(t) /\ UNCHANGED <<phase, rev, bound, cut>>  BY DEF ClearShown, ClearAbsent
  <1> QED  BY <1>0, <1>1, <1>2, <1>3, <1>4, <1>5, ProceedPresents

\* The steps before it, which keep the item in hand.
LEMMA MovingPresents ==
  ASSUME BoundAssumption, IInv, PresentInv, NEW t \in Task,
         \/ LoadPreferences(t) \/ SaveBindings(t) \/ RemoveBindings(t) \/ Mark(t)
  PROVE  PresentInv'
  <1>0. /\ bound \in [Note -> 0..MaxRev] /\ TasksOK /\ TodoOK
        /\ task[t].step \in Working /\ task[t].step \in Presenting
    BY DEF IInv, Shape, BrowserShape, PresentInv, LoadPreferences, SaveBindings,
           RemoveBindings, Mark, At, Working, Steps, Presenting
  <1>1. PICK n \in Note : n = Current(t).note
    BY <1>0 DEF TasksOK, Items, Current
  <1>2. PICK step \in Presenting : Moving(t, step)
    BY DEF LoadPreferences, SaveBindings, RemoveBindings, Mark, Presenting
  <1>3. /\ TodoOK' /\ \A u \in Task : u # t => task'[u] = task[u]
        /\ task'[t].step = step
        /\ task'[t].item = task[t].item /\ task'[t].todo = task[t].todo
    BY <1>0, <1>2, MovingHands
  <1>4. UNCHANGED <<phase, rev, native, cut, stale>>
    BY DEF LoadPreferences, SaveBindings, RemoveBindings, Mark
  <1>5. \A m \in Note : m # n => bound'[m] = bound[m]
    BY <1>0, <1>1 DEF LoadPreferences, SaveBindings, RemoveBindings, Mark
  <1>6. Busy(n)'  BY <1>1, <1>2, <1>3 DEF Busy, Handles, Current
  <1>7. ASSUME NEW m \in Note, m # n PROVE Untouched(m)
    <2>1. Handles(task[t], m) => Handles(task'[t], m)
      BY <1>0, <1>2, <1>3 DEF Handles
    <2>2. Busy(m) => Busy(m)'  BY <1>3, <2>1, BusyStays
    <2> QED  BY <1>4, <1>5, <1>7, <2>2 DEF Untouched
  <1>8. \A m \in Note : Untouched(m) \/ Settled(m)  BY <1>6, <1>7 DEF Settled
  <1> QED  BY <1>3, <1>8, PresentKept

\* A task that handles nothing goes on: nothing leaves its hands.
LEMMA OthersPresent ==
  ASSUME PresentInv, NEW t \in Task, TodoOK', \A u \in Task : u # t => task'[u] = task[u],
         task[t].step \notin Presenting,
         UNCHANGED <<native, bound, stale>>,
         \A n \in Note : \/ UNCHANGED <<phase[n], rev[n]>> /\ (n \in cut => n \in cut')
                         \/ Handles(task'[t], n)
  PROVE  PresentInv'
  <1>1. task[t].todo = {}  BY DEF PresentInv, TodoOK
  <1>2. ASSUME NEW n \in Note PROVE Untouched(n) \/ Settled(n)
    <2>1. ~Handles(task[t], n)  BY <1>1 DEF Handles
    <2>2. Busy(n) => Busy(n)'  BY <2>1, BusyStays
    <2>3. CASE UNCHANGED <<phase[n], rev[n]>> /\ (n \in cut => n \in cut')
      BY <2>2, <2>3 DEF Untouched
    <2>4. CASE Handles(task'[t], n)
      <3>1. Busy(n)'  BY <2>4 DEF Busy
      <3> QED  BY <3>1 DEF Settled
    <2> QED  BY <2>3, <2>4
  <1> QED  BY <1>2, PresentKept

LEMMA ReceiveItemPresents ==
  ASSUME BoundAssumption, IInv, PresentInv, NEW t \in Task, NEW n \in Note,
         NEW r \in 1..MaxRev, ReceiveItem(t, n, r)
  PROVE  PresentInv'
  <1> DEFINE p == MessagePhase(n, r)
             item == Item(n, r, IF p = "visible" THEN "show" ELSE "close")
  <1>0. TasksOK /\ TodoOK /\ task[t].step \notin Presenting
        /\ rev \in [Note -> 0..MaxRev]
        /\ phase \in [Note -> {"unknown", "visible", "removed"}]
    BY DEF IInv, Shape, RecordShape, PresentInv, ReceiveItem, At, Presenting
  <1>1. item.note = n  BY DEF Item
  <1>2. Begin(t, "inbound", {item})  BY DEF ReceiveItem
  <1> HIDE DEF item
  <1>3. /\ TodoOK' /\ \A u \in Task : u # t => task'[u] = task[u]
        /\ Handles(task'[t], n)
    BY <1>0, <1>1, <1>2, BeginHands
  <1>4. \A m \in Note : m # n => UNCHANGED <<phase[m], rev[m]>> /\ (m \in cut => m \in cut')
    BY <1>0 DEF ReceiveItem, Put
  <1>5. UNCHANGED <<native, bound, stale>>  BY DEF ReceiveItem
  <1> QED  BY <1>0, <1>3, <1>4, <1>5, OthersPresent

LEMMA SnapshotPresents ==
  ASSUME BoundAssumption, IInv, PresentInv, NEW t \in Task, ApplySnapshot(t) \/ RepeatSnapshot(t)
  PROVE  PresentInv'
  <1>0. TasksOK /\ TodoOK /\ task[t].step \notin Presenting
        /\ rev \in [Note -> 0..MaxRev]
        /\ phase \in [Note -> {"unknown", "visible", "removed"}]
    BY DEF IInv, Shape, RecordShape, PresentInv, ApplySnapshot, RepeatSnapshot, At, Presenting
  <1>1. PICK S \in SUBSET Note :
          /\ Begin(t, "inbound", Closes(S)) /\ cut' = cut \ S
          /\ \A m \in Note \ S : UNCHANGED <<phase[m], rev[m]>>
    <2>1. CASE ApplySnapshot(t)
      <3> DEFINE S == Omitted(task[t].at)
      <3>1. S \in SUBSET Note  BY DEF Omitted, Visible
      <3>2. Tombstones(S, task[t].at) /\ Begin(t, "inbound", Closes(S)) /\ cut' = cut \ S
        BY <2>1 DEF ApplySnapshot
      <3> HIDE DEF S
      <3>3. \A m \in Note \ S : UNCHANGED <<phase[m], rev[m]>>
        BY <1>0, <3>2 DEF Tombstones
      <3> QED  BY <3>1, <3>2, <3>3
    <2>2. CASE RepeatSnapshot(t)
      <3> DEFINE S == {n \in Note : phase[n] = "removed" /\ rev[n] = task[t].at
                                    /\ active[task[t].at][n] = 0}
      <3>1. S \in SUBSET Note  OBVIOUS
      <3>2. Begin(t, "inbound", Closes(S)) /\ cut' = cut \ S /\ UNCHANGED <<phase, rev>>
        BY <2>2 DEF RepeatSnapshot
      <3> HIDE DEF S
      <3> QED  BY <3>1, <3>2
    <2> QED  BY <2>1, <2>2
  <1>2. /\ TodoOK' /\ \A u \in Task : u # t => task'[u] = task[u]
        /\ \A i \in Closes(S) : Handles(task'[t], i.note)
    BY <1>0, <1>1, BeginHands
  <1>3. ASSUME NEW n \in S PROVE Handles(task'[t], n)
    <2>1. Item(n, 0, "close") \in Closes(S) /\ Item(n, 0, "close").note = n
      BY DEF Closes, Item
    <2> QED  BY <1>2, <2>1
  <1>4. UNCHANGED <<native, bound, stale>>  BY DEF ApplySnapshot, RepeatSnapshot
  <1> QED  BY <1>0, <1>1, <1>2, <1>3, <1>4, OthersPresent

\* The beginnings and ends of the other tasks.
LEMMA QuietPresents ==
  ASSUME BoundAssumption, IInv, PresentInv, NEW t \in Task,
         \/ \E r \in 0..MaxRev : ReceiveSnapshot(t, r)
         \/ \E n \in Note, r \in 1..MaxRev : OpenNotification(t, n, r)
         \/ \E kind \in {"body", "button"} : ResolveOpen(t, kind)
         \/ DropSnapshot(t) \/ SavePreferences(t) \/ Refresh(t) \/ ClearLocal(t)
         \/ HideVisible(t) \/ MarkViewed(t) \/ HandleClick(t) \/ StoreMarker(t)
         \/ ResolveButton(t)
  PROVE  PresentInv'
  <1>0. TasksOK /\ TodoOK /\ task[t].step \notin Presenting
    BY DEF IInv, Shape, PresentInv, At, Presenting, ReceiveSnapshot, OpenNotification,
           ResolveOpen, DropSnapshot, SavePreferences, Refresh, ClearLocal, HideVisible,
           MarkViewed, HandleClick, StoreMarker, ResolveButton
  <1>1. UNCHANGED <<phase, rev, native, bound, cut, stale>>
    BY DEF ReceiveSnapshot, OpenNotification,
           ResolveOpen, DropSnapshot, SavePreferences, Refresh, ClearLocal, HideVisible,
           MarkViewed, HandleClick, StoreMarker, ResolveButton
  <1>2. TodoOK' /\ \A u \in Task : u # t => task'[u] = task[u]
    <2>1. CASE \E r \in 0..MaxRev : ReceiveSnapshot(t, r)
      <3>1. PICK r \in 0..MaxRev : ReceiveSnapshot(t, r)  BY <2>1
      <3> DEFINE new == [Idle EXCEPT !.step = "observed", !.at = r, !.seen = Records]
      <3>2. new.step = "observed" /\ new.todo = {}  BY DEF Idle
      <3>3. task' = [task EXCEPT ![t] = new]  BY <3>1 DEF ReceiveSnapshot
      <3> HIDE DEF new
      <3> QED  BY <1>0, <3>2, <3>3 DEF TasksOK, TodoOK
    <2>2. CASE (\E n \in Note, r \in 1..MaxRev : OpenNotification(t, n, r))
               \/ SavePreferences(t) \/ HandleClick(t)
      <3>1. PICK kind, step, item : Run(t, kind, step, item, {})
        BY <2>2 DEF OpenNotification, SavePreferences, HandleClick
      <3> QED  BY <1>0, <3>1, RunHands
    <2>3. CASE Refresh(t) \/ ClearLocal(t)
      <3>1. PICK kind, items : Begin(t, kind, items)  BY <2>3 DEF Refresh, ClearLocal
      <3> QED  BY <1>0, <3>1, BeginHands
    <2>4. CASE \E kind \in {"body", "button"} : ResolveOpen(t, kind)
      <3>1. Begin(t, "open", {Current(t)}) \/ Rest(t)  BY <2>4 DEF ResolveOpen
      <3> QED  BY <1>0, <3>1, BeginHands, RestQuiet
    <2>5. CASE DropSnapshot(t) \/ HideVisible(t) \/ MarkViewed(t) \/ ResolveButton(t)
      <3>1. Rest(t)  BY <2>5 DEF DropSnapshot, HideVisible, MarkViewed, ResolveButton
      <3> QED  BY <1>0, <3>1, RestQuiet
    <2>6. CASE StoreMarker(t)
      <3>1. Moving(t, "resolve")  BY <2>6 DEF StoreMarker
      <3> QED  BY <1>0, <3>1, MovingHands
    <2> QED  BY <2>1, <2>2, <2>3, <2>4, <2>5, <2>6
  <1> QED  BY <1>0, <1>1, <1>2, OthersPresent

\* The browser's side, and the marks.
LEMMA BrowserPresents ==
  ASSUME BoundAssumption, IInv, PresentInv,
         \/ \E n \in Note : UserClose(n)
         \/ \E n \in Note, type \in {"body", "button"} : UserClick(n, type)
         \/ \E n \in Note, shown \in BOOLEAN : PhoneEvent(n, shown)
         \/ \E n \in Note : ExpireMarker(n)
         \/ HandleClosed \/ (\E c \in closing : RequestDismiss(c))
         \/ UNCHANGED vars
  PROVE  PresentInv'
  <1>0. native \in [Note -> 0..MaxRev] /\ stale \subseteq Note
    BY DEF IInv, Shape, BrowserShape
  <1>1. UNCHANGED <<phase, rev, bound, cut, task>>
    BY DEF UserClose, UserClick, PhoneEvent, ExpireMarker, HandleClosed, RequestDismiss, vars
  <1>2. \/ UNCHANGED <<native, stale>>
        \/ \E n \in Note : native' = [native EXCEPT ![n] = 0] /\ stale' = stale \ {n}
    BY DEF UserClose, UserClick, PhoneEvent, ExpireMarker, HandleClosed, RequestDismiss, vars
  <1>3. TodoOK'  BY <1>1 DEF PresentInv, TodoOK
  <1>4. \A n \in Note : Busy(n) => Busy(n)'  BY <1>1 DEF Busy
  <1>5. ASSUME NEW n \in Note PROVE Untouched(n) \/ Settled(n)
    <2>1. CASE native'[n] = native[n] /\ (n \in stale => n \in stale')
      BY <1>1, <1>4, <2>1 DEF Untouched
    <2>2. CASE native'[n] = 0  BY <2>2 DEF Settled
    <2> QED  BY <1>0, <1>2, <2>1, <2>2
  <1> QED  BY <1>3, <1>5, PresentKept

LEMMA CrashPresents ==
  ASSUME BoundAssumption, IInv, PresentInv, Crash
  PROVE  PresentInv'
  <1>1. TodoOK'
    <2>1. Idle.todo = {}  BY DEF Idle
    <2> QED  BY <2>1 DEF TodoOK, Crash
  <1>2. ASSUME NEW n \in Note PROVE Settled(n) \/ (Untouched(n))
    <2>1. CASE Busy(n)
      <3>1. InHand(n)  BY <2>1 DEF Busy, Handles, InHand
      <3> QED  BY <3>1 DEF Crash, Settled
    <2>2. CASE ~Busy(n)  BY <2>2 DEF Crash, Untouched
    <2> QED  BY <2>1, <2>2
  <1> QED  BY <1>1, <1>2, PresentKept

LEMMA InitPresents == ASSUME BoundAssumption, Init PROVE PresentInv
  <1>1. Idle.todo = {}  BY DEF Idle
  <1> QED  BY <1>1 DEF Init, PresentInv, TodoOK, ShownOK

LEMMA NextPresents == ASSUME BoundAssumption, IInv, PresentInv, [Next]_vars PROVE PresentInv'
  <1>1. CASE \E t \in Task, n \in Note, r \in 1..MaxRev : ReceiveItem(t, n, r)
    BY <1>1, ReceiveItemPresents
  <1>2. CASE \E t \in Task : ApplySnapshot(t) \/ RepeatSnapshot(t)
    BY <1>2, SnapshotPresents
  <1>3. CASE \E t \in Task : Show(t)  BY <1>3, ShowPresents
  <1>4. CASE \E t \in Task : ClearShown(t) \/ ClearAbsent(t)  BY <1>4, ClearPresents
  <1>5. CASE \E t \in Task : \/ LoadPreferences(t) \/ SaveBindings(t)
                             \/ RemoveBindings(t) \/ Mark(t)
    BY <1>5, MovingPresents
  <1>6. CASE \E t \in Task :
               \/ \E r \in 0..MaxRev : ReceiveSnapshot(t, r)
               \/ \E n \in Note, r \in 1..MaxRev : OpenNotification(t, n, r)
               \/ \E kind \in {"body", "button"} : ResolveOpen(t, kind)
               \/ DropSnapshot(t) \/ SavePreferences(t) \/ Refresh(t) \/ ClearLocal(t)
               \/ HideVisible(t) \/ MarkViewed(t) \/ HandleClick(t) \/ StoreMarker(t)
               \/ ResolveButton(t)
    BY <1>6, QuietPresents
  <1>7. CASE \/ \E n \in Note : UserClose(n)
             \/ \E n \in Note, type \in {"body", "button"} : UserClick(n, type)
             \/ \E n \in Note, shown \in BOOLEAN : PhoneEvent(n, shown)
             \/ \E n \in Note : ExpireMarker(n)
             \/ HandleClosed \/ (\E c \in closing : RequestDismiss(c))
             \/ UNCHANGED vars
    BY <1>7, BrowserPresents
  <1>8. CASE Crash  BY <1>8, CrashPresents
  <1> QED  BY <1>1, <1>2, <1>3, <1>4, <1>5, <1>6, <1>7, <1>8 DEF Next

\* NotificationPresenter: what Chrome shows is the stored record with its own
\* buttons, whenever no task has the notification in hand, for any number of
\* overlapping messages, refreshes, clears and clicks.
THEOREM ShownIsStored == Spec => []NativeUpToDate
  <1>1. PresentInv => NativeUpToDate
    <2> SUFFICES ASSUME PresentInv, NEW n \in Note, native[n] # 0, ~InHand(n),
                        n \notin cut \union stale
                 PROVE  Fresh(n)
      BY DEF NativeUpToDate, Fresh
    <2>1. ~Busy(n)  BY DEF InHand, Busy, Handles
    <2> QED  BY <2>1 DEF PresentInv, ShownOK
  <1> QED
    BY <1>1, BoundAssumption, InitPresents, NextPresents, MirrorInductive, PTL DEF Spec
=============================================================================
