------------------------- MODULE NotificationMirror -------------------------
(***************************************************************************)
(* The mirror of one Android source in Chrome: the records of              *)
(* IndexedDbNotificationStateStore, what NotificationPresenter does with   *)
(* them, and the close and click callbacks of chrome.notifications.        *)
(*                                                                         *)
(* Everything that runs between two awaits is one step of a task; tasks    *)
(* overlap (an old and a new connection, a settings change, a click) and   *)
(* die with the worker.  The relay may deliver any message of the source   *)
(* at any time and any number of times: NotificationMirror relies on no    *)
(* order at all.                                                           *)
(***************************************************************************)
EXTENDS Integers, Sequences

CONSTANTS
  Note,      \* notifications of the source
  Task,      \* bound on the worker's overlapping tasks
  MaxRev,    \* bound on the revisions the source allocates
  MaxEvents,    \* bound on browser events not yet handled
  MaxGestures,  \* bound on the user's gestures and messages of the pages
  MaxCrashes    \* bound on stops of the worker

ASSUME BoundAssumption ==
  /\ MaxRev \in Nat
  /\ MaxEvents \in Nat
  /\ MaxGestures \in Nat
  /\ MaxCrashes \in Nat

VARIABLES
  phoneRev, active,    \* the source: see MirrorContract
  rev, phase, digest,  \* store: revision, phase and payloadSha256 of a record
  viewed, hidden,      \* store: viewedRevision and locallyHiddenRevision, 0 if absent
  high, manifest,      \* store: last snapshot high-water (-1 if none) and its bytes
  native,              \* revision chrome.notifications shows, 0 if none
  bound,               \* revision the stored button bindings are of, 0 if none
  muted,               \* preferences: native notifications of the source are off
  mem, kept,           \* programmatic-close markers: immediate and stored
  events,              \* browser events not yet handled
  closing,             \* closes of the user whose dismissal is to be queued
  task,                \* the worker's tasks
  gestures, crashes,   \* gestures and page messages, and stops, so far
  cut, stale, lost     \* history: presentations cut by a crash, presentations
                       \* of an outdated reading, markers lost in a crash or
                       \* taken back before the close they were for

phoneVars == <<phoneRev, active>>
recordVars == <<rev, phase, digest, viewed, hidden>>
snapshotVars == <<high, manifest>>
storeVars == <<recordVars, snapshotVars>>
chromeVars == <<native, bound>>
markerVars == <<mem, kept>>
historyVars == <<cut, stale, lost>>
boundVars == <<gestures, crashes>>
vars == <<phoneVars, storeVars, chromeVars, muted, markerVars, events, closing,
          task, boundVars, historyVars>>

Records == [rev |-> rev, phase |-> phase, digest |-> digest]
NoRecords == [rev |-> [n \in Note |-> 0], phase |-> [n \in Note |-> "unknown"],
              digest |-> [n \in Note |-> "none"]]
Item(n, r, act) == [note |-> n, rev |-> r, act |-> act]
NoItem == [note |-> "none", rev |-> 0, act |-> "none"]
Idle == [step |-> "idle", kind |-> "none", item |-> NoItem, todo |-> {}, at |-> 0,
         seen |-> NoRecords]

Event(type, n, byUser, why) ==
  [type |-> type, note |-> n, byUser |-> byUser, why |-> why]

InHand(n) == \E t \in Task : n \in {i.note : i \in task[t].todo \union {task[t].item}}
ClosePending(n) ==
  \E i \in DOMAIN events : events[i].type = "closed" /\ events[i].note = n
Visible == {n \in Note : phase[n] = "visible"}

Init ==
  /\ phoneRev = 0
  /\ active = [r \in 0..MaxRev |-> [n \in Note |-> 0]]
  /\ rev = [n \in Note |-> 0]
  /\ phase = [n \in Note |-> "unknown"]
  /\ digest = [n \in Note |-> "none"]
  /\ viewed = [n \in Note |-> 0]
  /\ hidden = [n \in Note |-> 0]
  /\ high = -1
  /\ manifest = [n \in Note |-> 0]
  /\ native = [n \in Note |-> 0]
  /\ bound = [n \in Note |-> 0]
  /\ muted = FALSE
  /\ mem = {} /\ kept = {} /\ events = <<>> /\ closing = {}
  /\ task = [t \in Task |-> Idle]
  /\ gestures = 0 /\ crashes = 0
  /\ cut = {} /\ stale = {} /\ lost = {}

-----------------------------------------------------------------------------
(* The Android source *)

PhoneEvent(n, shown) ==
  LET r == phoneRev + 1 IN
  /\ phoneRev < MaxRev
  /\ shown \/ active[phoneRev][n] # 0
  /\ phoneRev' = r
  /\ active' = [active EXCEPT ![r] =
                  [m \in Note |-> IF m # n THEN active[phoneRev][m]
                                  ELSE IF shown THEN r ELSE 0]]
  /\ UNCHANGED <<boundVars, storeVars, chromeVars, muted, markerVars, events,
                 closing, task, historyVars>>

(* The message of revision r about n, if that is what r was allocated for. *)
MessagePhase(n, r) ==
  IF r = 0 \/ r > phoneRev THEN "none"
  ELSE IF active[r][n] = r THEN "visible"
  ELSE IF active[r][n] = 0 /\ active[r - 1][n] # 0 THEN "removed" ELSE "none"

-----------------------------------------------------------------------------
(* Tasks *)

Rest(t) == task' = [task EXCEPT ![t] = Idle]
Run(t, kind, step, item, todo) ==
  task' = [task EXCEPT ![t] = [Idle EXCEPT !.step = step, !.kind = kind, !.item = item,
                                           !.todo = todo]]

(* Where the handling of an item begins: a local clear and the hiding for  *)
(* an interaction window leave the button bindings alone.                  *)
FirstStep(kind, item) ==
  IF kind \in {"clear", "open"} THEN "mark"
  ELSE IF item.act = "close" THEN "unbind" ELSE "load"

(* The items are handled one after the other.                              *)
Begin(t, kind, items) ==
  \/ items = {} /\ kind = "clear" /\ Run(t, kind, "hide", NoItem, {})
  \/ items = {} /\ kind # "clear" /\ Rest(t)
  \/ \E i \in items : Run(t, kind, FirstStep(kind, i), i, items \ {i})

Proceed(t) == Begin(t, task[t].kind, task[t].todo)

(* A gesture of the user or a message of a page.                           *)
Gesture ==
  /\ gestures < MaxGestures
  /\ gestures' = gestures + 1
  /\ UNCHANGED crashes

At(t, step) == task[t].step = step
Current(t) == task[t].item
Moving(t, step) == task' = [task EXCEPT ![t].step = step]

-----------------------------------------------------------------------------
(* The state store: reconcile *)

Bytes(p) == IF p = "visible" THEN "upsert" ELSE "removed"

(* reconcile puts the proposed record over the older one: the viewed       *)
(* revision survives, the locally hidden one does not.                     *)
Put(n, r, p) ==
  /\ rev' = [rev EXCEPT ![n] = r]
  /\ phase' = [phase EXCEPT ![n] = p]
  /\ digest' = [digest EXCEPT ![n] = Bytes(p)]
  /\ hidden' = [hidden EXCEPT ![n] = 0]
  /\ UNCHANGED viewed

(* The two messages the store refuses as bound to different bytes.         *)
ItemConflicts(n, r) ==
  /\ MessagePhase(n, r) # "none"
  /\ r = rev[n]
  /\ phase[n] # MessagePhase(n, r) \/ digest[n] # Bytes(MessagePhase(n, r))
SnapshotConflicts(r) ==
  \/ r = high /\ manifest # active[r]
  \/ /\ r > high
     /\ \E n \in Note :
          \/ active[r][n] # 0 /\ rev[n] = active[r][n] /\ phase[n] # "visible"
          \/ active[r][n] = 0 /\ phase[n] = "visible" /\ rev[n] = r

(* The dispositions stale and applied; the third is already applied.       *)
NeverStale(n, r) == FALSE
Stale(n, r) == r < rev[n]
Applied(n, r) == r # rev[n]

(* An item message: applied, already applied, or stale (then nothing       *)
(* happens); the presentation of the stored record follows.                *)
ReceiveItem(t, n, r) ==
  LET p == MessagePhase(n, r) IN
  /\ At(t, "idle")
  /\ p # "none"
  /\ ~Stale(n, r)
  /\ ~ItemConflicts(n, r)
  /\ IF Applied(n, r) THEN Put(n, r, p) ELSE UNCHANGED recordVars
  /\ Begin(t, "inbound", {Item(n, r, IF p = "visible" THEN "show" ELSE "close")})
  /\ cut' = cut \ {n}
  /\ UNCHANGED <<boundVars, phoneVars, snapshotVars, chromeVars, muted,
                 markerVars, events, closing, stale, lost>>

(* A manifest: the records are read, the digests of its removals computed  *)
(* outside any transaction, and the write transaction reads them again.    *)
ReceiveSnapshot(t, r) ==
  /\ At(t, "idle")
  /\ r \in 0..phoneRev
  /\ task' = [task EXCEPT ![t] =
                [Idle EXCEPT !.step = "observed", !.at = r, !.seen = Records]]
  /\ UNCHANGED <<boundVars, phoneVars, storeVars, chromeVars, muted,
                 markerVars, events, closing, historyVars>>

ClosesNothing(S) == {}
Closes(S) == {Item(n, 0, "close") : n \in S}

(* Notifications a manifest at r omits although the mirror shows an older  *)
(* revision of them.                                                       *)
OmittedAtAnyAge(r) == {n \in Visible : active[r][n] = 0}
Omitted(r) == {n \in Visible : active[r][n] = 0 /\ rev[n] < r}
Covered(r) == \A n \in Note : active[r][n] # 0 => rev[n] >= active[r][n]

SnapshotRefused(t) ==
  LET r == task[t].at IN
  /\ r >= high
  /\ \/ task[t].seen # Records
     \/ SnapshotConflicts(r)
     \/ r > high /\ ~Covered(r)

(* The digest is that of the removal message, so that a late one matches.  *)
ManifestBytes == "manifest"
TombstoneBytes == Bytes("removed")

Tombstones(S, r) ==
  /\ rev' = [n \in Note |-> IF n \in S THEN r ELSE rev[n]]
  /\ phase' = [n \in Note |-> IF n \in S THEN "removed" ELSE phase[n]]
  /\ digest' = [n \in Note |-> IF n \in S THEN TombstoneBytes ELSE digest[n]]
  /\ viewed' = [n \in Note |-> IF n \in S THEN 0 ELSE viewed[n]]
  /\ hidden' = [n \in Note |-> IF n \in S THEN 0 ELSE hidden[n]]

ApplySnapshot(t) ==
  LET r == task[t].at IN
  /\ At(t, "observed")
  /\ r > high
  /\ ~SnapshotRefused(t)
  /\ Tombstones(Omitted(r), r)
  /\ high' = r
  /\ manifest' = active[r]
  /\ Begin(t, "inbound", Closes(Omitted(r)))
  /\ cut' = cut \ Omitted(r)
  /\ UNCHANGED <<boundVars, phoneVars, chromeVars, muted, markerVars, events,
                 closing, stale, lost>>

(* The manifest of the stored high-water again: its closes are repeated.   *)
RepeatSnapshot(t) ==
  LET r == task[t].at
      gone == {n \in Note : phase[n] = "removed" /\ rev[n] = r /\ active[r][n] = 0} IN
  /\ At(t, "observed")
  /\ r = high
  /\ ~SnapshotRefused(t)
  /\ Begin(t, "inbound", Closes(gone))
  /\ cut' = cut \ gone
  /\ UNCHANGED <<boundVars, phoneVars, storeVars, chromeVars, muted,
                 markerVars, events, closing, stale, lost>>

(* A stale manifest, or one that is refused: nothing is written.           *)
DropSnapshot(t) ==
  /\ At(t, "observed")
  /\ task[t].at < high \/ SnapshotRefused(t)
  /\ Rest(t)
  /\ UNCHANGED <<boundVars, phoneVars, storeVars, chromeVars, muted,
                 markerVars, events, closing, historyVars>>

-----------------------------------------------------------------------------
(* NotificationPresenter *)

(* presentState: preferences that cannot be read count as muted.           *)
LoadPreferences(t) ==
  /\ At(t, "load")
  /\ \E readable \in BOOLEAN :
       Moving(t, IF readable /\ ~muted THEN "bind" ELSE "unbind")
  /\ UNCHANGED <<boundVars, phoneVars, storeVars, chromeVars, muted,
                 markerVars, events, closing, historyVars>>

SaveBindings(t) ==
  /\ At(t, "bind")
  /\ bound' = [bound EXCEPT ![Current(t).note] = Current(t).rev]
  /\ Moving(t, "show")
  /\ UNCHANGED <<boundVars, phoneVars, storeVars, native, muted, markerVars,
                 events, closing, historyVars>>

(* create or update; either way the notification shows the carried record. *)
Show(t) ==
  LET n == Current(t).note
      r == Current(t).rev
      fresh == phase[n] = "visible" /\ rev[n] = r /\ bound[n] = r IN
  /\ At(t, "show")
  /\ native' = [native EXCEPT ![n] = r]
  /\ stale' = IF fresh THEN stale \ {n} ELSE stale \union {n}
  /\ Proceed(t)
  /\ UNCHANGED <<boundVars, phoneVars, storeVars, bound, muted, markerVars,
                 events, closing, cut, lost>>

RemoveBindings(t) ==
  /\ At(t, "unbind")
  /\ bound' = [bound EXCEPT ![Current(t).note] = 0]
  /\ Moving(t, "mark")
  /\ UNCHANGED <<boundVars, phoneVars, storeVars, native, muted, markerVars,
                 events, closing, historyVars>>

(* markProgrammaticClose, before the notification is cleared.              *)
Mark(t) ==
  LET n == Current(t).note IN
  /\ At(t, "mark")
  /\ mem' = mem \union {n}
  /\ kept' = kept \union {n}
  /\ Moving(t, "clear")
  /\ UNCHANGED <<boundVars, phoneVars, storeVars, chromeVars, muted, events,
                 closing, historyVars>>

(* chrome.notifications.clear: a notification that was shown goes with an  *)
(* event; if none was, no event will consume the marker, and the presenter *)
(* takes it back (a local clear does not).  Events and answers of the      *)
(* browser reach the worker in order.                                      *)
ClearShown(t) ==
  LET n == Current(t).note IN
  /\ At(t, "clear")
  /\ native[n] # 0
  /\ Len(events) < MaxEvents
  /\ native' = [native EXCEPT ![n] = 0]
  /\ events' = Append(events, Event("closed", n, FALSE, "program"))
  /\ stale' = stale \ {n}
  /\ Proceed(t)
  /\ UNCHANGED <<boundVars, phoneVars, storeVars, bound, muted, markerVars,
                 closing, cut, lost>>

ClearAbsent(t) ==
  LET n == Current(t).note IN
  /\ At(t, "clear")
  /\ native[n] = 0
  /\ ~ClosePending(n)
  /\ IF task[t].kind = "clear" THEN UNCHANGED markerVars
     ELSE mem' = mem \ {n} /\ kept' = kept \ {n}
  /\ Proceed(t)
  /\ UNCHANGED <<boundVars, phoneVars, storeVars, chromeVars, muted, events,
                 closing, historyVars>>

-----------------------------------------------------------------------------
(* Messages of the pages *)

Listed == {Item(n, rev[n], "show") : n \in Visible}

(* Saved preferences: refreshNotificationPresentation lists the visible    *)
(* records and presents them one after the other.                          *)
SavePreferences(t) ==
  /\ Gesture
  /\ At(t, "idle")
  /\ muted' = ~muted
  /\ Run(t, "refresh", "list", NoItem, {})
  /\ UNCHANGED <<phoneVars, storeVars, chromeVars, markerVars, events, closing,
                 historyVars>>

Refresh(t) ==
  /\ At(t, "list")
  /\ Begin(t, "refresh", Listed)
  /\ UNCHANGED <<boundVars, phoneVars, storeVars, chromeVars, muted,
                 markerVars, events, closing, historyVars>>

(* clearLocalNotificationState, then hideVisibleForPresentation.           *)
ClearLocal(t) ==
  /\ Gesture
  /\ At(t, "idle")
  /\ Begin(t, "clear", Listed)
  /\ UNCHANGED <<phoneVars, storeVars, chromeVars, muted, markerVars, events,
                 closing, historyVars>>

HideVisible(t) ==
  /\ At(t, "hide")
  /\ hidden' = [n \in Note |-> IF n \in Visible THEN rev[n] ELSE hidden[n]]
  /\ Rest(t)
  /\ UNCHANGED <<boundVars, phoneVars, rev, phase, digest, viewed,
                 snapshotVars, chromeVars, muted, markerVars, events, closing,
                 historyVars>>

(* markNotificationsViewed for revision r, opened from a list that may be  *)
(* older than the records.                                                 *)
OpenNotification(t, n, r) ==
  /\ Gesture
  /\ At(t, "idle")
  /\ n \in Visible /\ rev[n] = r
  /\ Run(t, "view", "view", Item(n, r, "show"), {})
  /\ UNCHANGED <<phoneVars, storeVars, chromeVars, muted, markerVars, events,
                 closing, historyVars>>

StillVisible(item) == item.note \in Visible
StillAsListed(item) == item.note \in Visible /\ rev[item.note] = item.rev

MarkViewed(t) ==
  LET n == Current(t).note IN
  /\ At(t, "view")
  /\ viewed' = IF StillAsListed(Current(t))
               THEN [viewed EXCEPT ![n] = rev[n]] ELSE viewed
  /\ Rest(t)
  /\ UNCHANGED <<boundVars, phoneVars, rev, phase, digest, hidden,
                 snapshotVars, chromeVars, muted, markerVars, events, closing,
                 historyVars>>

-----------------------------------------------------------------------------
(* The user and the callbacks of chrome.notifications *)

UserClose(n) ==
  /\ Gesture
  /\ native[n] # 0
  /\ Len(events) < MaxEvents
  /\ native' = [native EXCEPT ![n] = 0]
  /\ stale' = stale \ {n}
  /\ events' = Append(events, Event("closed", n, TRUE, "user"))
  /\ UNCHANGED <<phoneVars, storeVars, bound, muted, markerVars, closing, task,
                 cut, lost>>

(* A click on the body or on a button; some platforms close the            *)
(* notification with it and report that as a close by the user.            *)
UserClick(n, type) ==
  /\ Gesture
  /\ native[n] # 0
  /\ \/ /\ Len(events) < MaxEvents
        /\ events' = Append(events, Event(type, n, TRUE, "click"))
        /\ UNCHANGED <<native, stale>>
     \/ /\ Len(events) + 1 < MaxEvents
        /\ events' = events \o <<Event(type, n, TRUE, "click"),
                                 Event("closed", n, TRUE, "click")>>
        /\ native' = [native EXCEPT ![n] = 0]
        /\ stale' = stale \ {n}
  /\ UNCHANGED <<phoneVars, storeVars, bound, muted, markerVars, closing, task,
                 cut, lost>>

(* handleNotificationClosed: consume the marker, then decideClose.         *)
DismissesUnlessInMemory(e) == e.byUser /\ e.note \notin mem
Dismisses(e) == e.byUser /\ e.note \notin mem \union kept

HandleClosed ==
  LET e == Head(events)
      cause == IF e.note \in lost THEN "interrupted" ELSE e.why IN
  /\ events # <<>> /\ e.type = "closed"
  /\ events' = Tail(events)
  /\ closing' = IF Dismisses(e) THEN closing \union {<<e.note, cause>>} ELSE closing
  /\ mem' = mem \ {e.note}
  /\ kept' = kept \ {e.note}
  /\ lost' = lost \ {e.note}
  /\ UNCHANGED <<boundVars, phoneVars, storeVars, chromeVars, muted, task, cut,
                 stale>>

(* requestNotificationDismiss: the operation is queued for the record of   *)
(* that moment, if it is still visible (ActionDelivery takes it from here).*)
RequestDismiss(c) ==
  /\ c \in closing
  /\ closing' = closing \ {c}
  /\ UNCHANGED <<boundVars, phoneVars, storeVars, chromeVars, muted,
                 markerVars, events, task, historyVars>>

(* onClicked and onButtonClicked: the marker is in memory at once, and     *)
(* stored before anything else is looked up.                               *)
HandleClick(t) ==
  LET e == Head(events) IN
  /\ events # <<>> /\ e.type \in {"body", "button"}
  /\ At(t, "idle")
  /\ events' = Tail(events)
  /\ mem' = mem \union {e.note}
  /\ Run(t, e.type, "persist", Item(e.note, 0, "close"), {})
  /\ UNCHANGED <<boundVars, phoneVars, storeVars, chromeVars, muted, kept,
                 closing, historyVars>>

StoreMarker(t) ==
  /\ At(t, "persist")
  /\ kept' = kept \union {Current(t).note}
  /\ Moving(t, "resolve")
  /\ UNCHANGED <<boundVars, phoneVars, storeVars, chromeVars, muted, mem,
                 events, closing, historyVars>>

(* openNotificationInteraction hides the notification and opens a window;  *)
(* a notification that is gone or muted is left alone, its marker too.     *)
ResolveOpen(t, kind) ==
  LET n == Current(t).note IN
  /\ At(t, "resolve")
  /\ kind = "body" \/ (n \in Visible /\ bound[n] = rev[n])
  /\ task[t].kind = kind
  /\ IF n \in Visible /\ ~muted THEN Begin(t, "open", {Current(t)})
     ELSE Rest(t)
  /\ UNCHANGED <<boundVars, phoneVars, storeVars, chromeVars, muted,
                 markerVars, events, closing, historyVars>>

(* invokeNotificationButton for the other buttons: an obsolete binding or  *)
(* an action leaves the marker, a clear sets it again or, when nothing     *)
(* could be queued, takes it back.                                         *)
ResolveButton(t) ==
  LET n == Current(t).note
      ownButtons == n \in Visible /\ bound[n] = rev[n] IN
  /\ At(t, "resolve")
  /\ task[t].kind = "button"
  /\ \/ UNCHANGED <<markerVars, lost>>
     \/ /\ ownButtons
        /\ mem' = mem \union {n} /\ kept' = kept \union {n}
        /\ UNCHANGED lost
     \/ /\ ownButtons
        /\ mem' = mem \ {n} /\ kept' = kept \ {n}
        /\ lost' = IF ClosePending(n) THEN lost \union {n} ELSE lost
  /\ Rest(t)
  /\ UNCHANGED <<boundVars, phoneVars, storeVars, chromeVars, muted, events,
                 closing, cut, stale>>

(* MARKER_TTL_MS passes; a close already reported is handled sooner.       *)
ExpireMarker(n) ==
  /\ n \in mem \union kept
  /\ \A i \in DOMAIN events : events[i].note # n
  /\ mem' = mem \ {n}
  /\ kept' = kept \ {n}
  /\ UNCHANGED <<boundVars, phoneVars, storeVars, chromeVars, muted, events,
                 closing, task, historyVars>>

(* The worker is stopped: stored state, the browser's notifications and    *)
(* its events survive.                                                     *)
Crash ==
  /\ crashes < MaxCrashes
  /\ crashes' = crashes + 1
  /\ task # [t \in Task |-> Idle] \/ mem # {} \/ closing # {}
  /\ task' = [t \in Task |-> Idle]
  /\ mem' = {}
  /\ closing' = {}
  /\ cut' = cut \union {n \in Note : InHand(n)}
  /\ lost' = lost \union {n \in mem \ kept : ClosePending(n)}
  /\ UNCHANGED <<gestures, phoneVars, storeVars, chromeVars, muted, kept,
                 events, stale>>

Next ==
  \/ \E n \in Note, shown \in BOOLEAN : PhoneEvent(n, shown)
  \/ \E t \in Task, n \in Note, r \in 1..MaxRev : ReceiveItem(t, n, r)
  \/ \E t \in Task, r \in 0..MaxRev : ReceiveSnapshot(t, r)
  \/ \E t \in Task : ApplySnapshot(t)
  \/ \E t \in Task : RepeatSnapshot(t)
  \/ \E t \in Task : DropSnapshot(t)
  \/ \E t \in Task : LoadPreferences(t)
  \/ \E t \in Task : SaveBindings(t)
  \/ \E t \in Task : Show(t)
  \/ \E t \in Task : RemoveBindings(t)
  \/ \E t \in Task : Mark(t)
  \/ \E t \in Task : ClearShown(t)
  \/ \E t \in Task : ClearAbsent(t)
  \/ \E t \in Task : SavePreferences(t)
  \/ \E t \in Task : Refresh(t)
  \/ \E t \in Task : ClearLocal(t)
  \/ \E t \in Task : HideVisible(t)
  \/ \E t \in Task, n \in Note, r \in 1..MaxRev : OpenNotification(t, n, r)
  \/ \E t \in Task : MarkViewed(t)
  \/ \E n \in Note : UserClose(n)
  \/ \E n \in Note, type \in {"body", "button"} : UserClick(n, type)
  \/ HandleClosed
  \/ \E c \in closing : RequestDismiss(c)
  \/ \E t \in Task : HandleClick(t)
  \/ \E t \in Task : StoreMarker(t)
  \/ \E t \in Task, kind \in {"body", "button"} : ResolveOpen(t, kind)
  \/ \E t \in Task : ResolveButton(t)
  \/ \E n \in Note : ExpireMarker(n)
  \/ Crash

Spec == Init /\ [][Next]_vars

-----------------------------------------------------------------------------
(* Properties *)

TypeOK ==
  /\ phoneRev \in 0..MaxRev
  /\ active \in [0..MaxRev -> [Note -> 0..MaxRev]]
  /\ rev \in [Note -> 0..MaxRev]
  /\ phase \in [Note -> {"unknown", "visible", "removed"}]
  /\ digest \in [Note -> {"none", "upsert", "removed"}]
  /\ viewed \in [Note -> 0..MaxRev]
  /\ hidden \in [Note -> 0..MaxRev]
  /\ high \in -1..MaxRev
  /\ manifest \in [Note -> 0..MaxRev]
  /\ native \in [Note -> 0..MaxRev]
  /\ bound \in [Note -> 0..MaxRev]
  /\ muted \in BOOLEAN
  /\ gestures \in 0..MaxGestures /\ crashes \in 0..MaxCrashes
  /\ mem \subseteq Note /\ kept \subseteq Note
  /\ cut \subseteq Note /\ stale \subseteq Note /\ lost \subseteq Note
  /\ closing \subseteq Note \X {"user", "click", "program", "interrupted"}
  /\ \A n \in Note : viewed[n] <= rev[n] /\ hidden[n] <= rev[n]

(* MirrorContract: whatever is delivered again, late or never, each record *)
(* is a state the source had, and moves to later ones only: an old upsert  *)
(* never resurrects a removed notification, and a manifest never removes   *)
(* what was posted after it.                                               *)
Contract == INSTANCE MirrorContract
KeepsContract == Contract!Spec

(* reconcile and reconcileSnapshot never refuse, as bound to different     *)
(* bytes, a message of a source that allocates its revisions in order: a   *)
(* refusal closes the transport, and a redelivery would repeat it forever. *)
NoConflict ==
  /\ \A n \in Note, r \in 1..phoneRev : ~ItemConflicts(n, r)
  /\ \A r \in 0..phoneRev : ~SnapshotConflicts(r)

(* What chrome.notifications shows is the stored record with its own       *)
(* buttons, unless a task is about to change it, a crash cut one (its      *)
(* message comes again), or overlapping tasks showed an outdated reading.  *)
NativeUpToDate ==
  \A n \in Note :
    native[n] # 0 /\ ~InHand(n) /\ n \notin cut \union stale =>
      phase[n] = "visible" /\ native[n] = rev[n] /\ bound[n] = rev[n]

(* Neither a close by the extension nor the close that comes with a click  *)
(* becomes a dismissal on the phone, except if the worker stopped between  *)
(* the click and the storing of its marker, or the click was on a clear    *)
(* button and could not be sent otherwise.                                 *)
OnlyUserDismisses == \A c \in closing : c[2] \in {"user", "interrupted"}

(* A revision becomes viewed only by opening that very revision.           *)
Opened ==
  \A n \in Note : viewed'[n] \notin {viewed[n], 0} =>
    \E t \in Task :
      /\ At(t, "view")
      /\ Current(t).note = n
      /\ Current(t).rev = viewed'[n]
ViewedAsOpened == [][Opened]_vars
=============================================================================
