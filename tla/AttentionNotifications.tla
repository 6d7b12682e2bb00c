----------------------- MODULE AttentionNotifications -----------------------
(***************************************************************************)
(* What a window does when a session waits for its user: a native toast is *)
(* raised, a registration waits for the answer to it                       *)
(* (snoreToastActivationServer.ts), and as long as one may come two        *)
(* short-lived helper processes are kept running to carry it               *)
(* (snoreToastActivator.ts).  Before that the toasts' identity is          *)
(* installed (snoreToastNotificationSink.ts).                              *)
(*                                                                         *)
(* The activator is one record and its functions map records to records;   *)
(* an action is a callback with all the functions it calls.  Timers have   *)
(* no lengths: one that is set may fire at any time.  What Windows, the    *)
(* installer and the helpers do is left open.                              *)
(***************************************************************************)
EXTENDS Naturals, FiniteSets

CONSTANTS
    Session,
    Helper,             \* bound: helper processes at one time
    MaxToasts,          \* bound: toasts raised
    MaxRegistrations,
    MaxCallbacks,       \* bound: answers on their way at one time
    None,
    Stopping            \* a helper that was asked to end, and has not yet

ASSUME BoundsAssumption == {MaxToasts, MaxRegistrations, MaxCallbacks} \subseteq Nat \ {0}
ASSUME NoneAssumption == {None, Stopping} \cap (Helper \cup Session) = {}

VARIABLES
    phase,        \* where activation stands
    mode,         \* which notification sink there is
    installer,    \* the installation of the toasts' identity
    sessions,     \* manager.sessions
    toasts,       \* what was raised, and what the user sees of it
    registry,     \* sessionsByNotification: the toasts in it, which are numbered as they come
    callbacks,    \* what helpers have written to the pipe and is not read yet
    clicked,      \* the toasts whose click has begun a selection
    activator     \* createSnoreToastActivator

toastVars == <<sessions, toasts, registry, callbacks, clicked, activator>>
vars == <<phase, mode, installer, toastVars>>

Toast == 1..MaxToasts
Slot == {0, 1}

Phases == {"waiting", "installing", "serving", "watching", "ready", "disposed"}
Modes == {"silent", "plain", "selectable"}
Present == {"live", "closing"}
Toasts == [of : Session \cup {None}, shown : {"unraised", "shown", "old", "gone"}]
Answers == {"clicked", "dismissed", "timedout"}
Staying == [slot : Slot, previous : Helper \cup {None}, retiring : BOOLEAN]
Workers == {Stopping} \cup Staying
Activators ==
    [active : BOOLEAN, disposed : BOOLEAN, renewing : BOOLEAN, next : Slot,
     slots : [Slot -> Helper \cup {None}], retries : [Slot -> BOOLEAN],
     workers : [Helper -> Workers \cup {None}]]

ASSUME WorkerAssumption == None # Stopping /\ None \notin Staying /\ Stopping \notin Staying

TypeOK ==
    /\ phase \in Phases /\ mode \in Modes
    /\ installer \in [child : {"none", "running", "ended"}, settled : BOOLEAN,
                      staged : BOOLEAN, refused : BOOLEAN]
    /\ sessions \in [Session -> {"none", "gone"} \cup Present]
    /\ toasts \in [Toast -> Toasts]
    /\ registry \subseteq Toast /\ Cardinality(registry) <= MaxRegistrations
    /\ callbacks \subseteq [toast : Toast, action : Answers]
    /\ clicked \subseteq Toast
    /\ activator \in Activators

Idle ==
    [active |-> FALSE, disposed |-> FALSE, renewing |-> FALSE, next |-> 0,
     slots |-> [k \in Slot |-> None], retries |-> [k \in Slot |-> FALSE],
     workers |-> [w \in Helper |-> None]]

Init ==
    /\ phase = "waiting"
    /\ mode = "silent"
    /\ installer = [child |-> "none", settled |-> FALSE, staged |-> FALSE, refused |-> FALSE]
    /\ sessions = [s \in Session |-> "none"]
    /\ toasts = [t \in Toast |-> [of |-> None, shown |-> "unraised"]]
    /\ registry = {}
    /\ callbacks = {}
    /\ clicked = {}
    /\ activator = Idle

----------------------------------------------------------------------------
(* The registry *)

\* pruneRegistrations: those whose session is not live go.
Pruned(reg, present) == {t \in reg : present[toasts[t].of] = "live"}

\* Mutation: the limit on registrations is not kept.
RegisteredUnbounded(reg, t) == reg \cup {t}

\* register: the oldest makes room.
Oldest(reg) == CHOOSE t \in reg : \A u \in reg : t <= u
Registered(reg, t) == (IF Cardinality(reg) < MaxRegistrations THEN reg ELSE reg \ {Oldest(reg)}) \cup {t}

\* The registration of a toast is disposed or used up.
Released(reg, t) == reg \ {t}

(* The activator *)

\* retry
Retried(a, k) == IF a.active THEN [a EXCEPT !.retries[k] = TRUE] ELSE a

StoppedWorker(worker) == IF worker = None THEN None ELSE Stopping

\* stop: all timers end and all helpers are asked to; whether they do is theirs.
Stopped(a) ==
    [a EXCEPT !.active = FALSE, !.renewing = FALSE,
              !.retries = [k \in Slot |-> FALSE], !.slots = [k \in Slot |-> None],
              !.workers = [w \in Helper |-> StoppedWorker(@[w])]]

Free(a) == {w \in Helper : a.workers[w] = None}

Worker(k, previous) == [slot |-> k, previous |-> previous, retiring |-> FALSE]

\* A helper was launched for a slot: the one it replaces goes on for a while.
Replaced(a, k) ==
    LET w == CHOOSE w \in Free(a) : TRUE
        previous == a.slots[k]
        retired == IF previous = None THEN a.workers
                   ELSE [a.workers EXCEPT ![previous].retiring = TRUE]
    IN  [a EXCEPT !.slots[k] = w, !.workers = [retired EXCEPT ![w] = Worker(k, previous)]]

\* startWorker; launched says whether the operating system starts the helper,
\* which it does not beyond the bound.
StartedWorker(a, k, pending, launched) ==
    LET ready == [a EXCEPT !.retries[k] = FALSE]
    IN  CASE ~a.active -> a
          [] a.active /\ ~pending -> Stopped(a)
          [] a.active /\ pending /\ launched /\ Free(a) # {} -> Replaced(ready, k)
          [] a.active /\ pending /\ (~launched \/ Free(a) = {}) -> Retried(ready, k)

\* ensureRunning
Ensured(a, pending, launched) ==
    CASE a.disposed \/ (pending /\ a.active) -> a
      [] ~a.disposed /\ ~pending -> Stopped(a)
      [] ~a.disposed /\ pending /\ ~a.active ->
            LET first == StartedWorker([a EXCEPT !.active = TRUE, !.next = 0], 0, TRUE, launched[0])
                second == StartedWorker(first, 1, TRUE, launched[1])
            IN  [second EXCEPT !.renewing = TRUE]

\* Which launches may succeed, where ensureRunning begins any.
Launches == IF activator.active THEN {[k \in Slot |-> TRUE]} ELSE [Slot -> BOOLEAN]

\* renew
Renewed(a, pending, launched) ==
    IF ~pending THEN Stopped(a)
    ELSE [StartedWorker(a, a.next, TRUE, launched) EXCEPT !.next = 1 - @]

Kept(a, w) == a.workers[w] \notin {None, Stopping}

\* This becomes of a worker, and no other names it as the one it replaced.
WithWorker(a, w, worker) ==
    [v \in Helper |-> IF v = w THEN worker
                      ELSE IF Kept(a, v) /\ (Kept(a, v) => a.workers[v].previous = w)
                      THEN [a.workers[v] EXCEPT !.previous = None] ELSE a.workers[v]]

\* The helper of a slot ended: the one it had replaced, if it still runs, is
\* taken back, and a new one is started before long.
EndedCurrent(a, w, pending) ==
    LET worker == a.workers[w]
        prior == worker.previous
        back == prior # None
        rest == WithWorker(a, w, None)
        b == [a EXCEPT !.slots[worker.slot] = IF back THEN prior ELSE None,
                       !.workers = IF back THEN [rest EXCEPT ![prior].retiring = FALSE] ELSE rest]
    IN  IF ~a.active THEN b ELSE IF pending THEN Retried(b, worker.slot) ELSE Stopped(b)

\* Mutation: a helper's end always ends its slot, also when another has taken it.
EndedAnywhere(a, w, pending) ==
    IF Kept(a, w) THEN EndedCurrent(a, w, pending)
    ELSE [a EXCEPT !.workers = WithWorker(a, w, None)]

\* ended
Ended(a, w, pending) ==
    IF w \in {a.slots[k] : k \in Slot} THEN EndedCurrent(a, w, pending)
    ELSE [a EXCEPT !.workers = WithWorker(a, w, None)]

\* The retirement of a helper that was replaced: it is asked to end.
Retired(a, w) ==
    [a EXCEPT !.slots = [k \in Slot |-> IF @[k] = w THEN None ELSE @[k]],
              !.workers = WithWorker(a, w, Stopping)]

----------------------------------------------------------------------------
(* Activation and its end *)

\* The window's channel is open: the installer of the identity is launched, if it can be.
InstallBegins ==
    /\ phase = "waiting"
    /\ \/ /\ phase' = "installing"
          /\ installer' = [installer EXCEPT !.child = "running"]
       \/ /\ phase' = "watching"
          /\ installer' = [installer EXCEPT !.settled = TRUE]
    /\ UNCHANGED <<mode, toastVars>>

\* The installer writes the shortcut under the staging name.
InstallerWrites ==
    /\ installer.child = "running" /\ ~installer.staged
    /\ installer' = [installer EXCEPT !.staged = TRUE]
    /\ UNCHANGED <<phase, mode, toastVars>>

\* cleanupStaging: what is there is removed, unless that is refused.
CleanedUp(i) ==
    {[i EXCEPT !.staged = FALSE]} \cup
    (IF i.staged THEN {[i EXCEPT !.refused = TRUE]} ELSE {})

\* fail: activation goes on without native toasts.
InstallFails(i) ==
    /\ installer' \in CleanedUp([i EXCEPT !.settled = TRUE])
    /\ phase' = "watching"

\* The installer is not awaited any longer; it is asked to end and may not.
InstallTimesOut ==
    /\ phase = "installing"
    /\ InstallFails(installer)
    /\ UNCHANGED <<mode, toastVars>>

\* The installer ends.  If all is well its link takes the shortcut's name; after
\* the timeout whatever it wrote meanwhile is removed.
InstallerEnds ==
    /\ installer.child = "running"
    /\ LET ended == [installer EXCEPT !.child = "ended"]
       IN  \/ /\ installer.settled
              /\ installer' \in CleanedUp(ended)
              /\ UNCHANGED phase
           \/ /\ ~installer.settled
              /\ InstallFails(ended)
           \/ /\ ~installer.settled /\ installer.staged
              /\ installer' = [ended EXCEPT !.settled = TRUE, !.staged = FALSE]
              /\ phase' = "serving"
    /\ UNCHANGED <<mode, toastVars>>

\* The pipe is listened to, or toasts go without answers.
ServerOpens ==
    /\ phase = "serving"
    /\ mode' \in {"selectable", "plain"}
    /\ phase' = "watching"
    /\ UNCHANGED <<installer, toastVars>>

\* The server's registry is emptied for good, then the activator stops for good.
Disposed ==
    /\ registry' = {}
    /\ activator' = [Stopped(activator) EXCEPT !.disposed = TRUE]

\* The signals of the channel are watched; if they cannot be, all is disposed.
WatcherStarts ==
    /\ phase = "watching"
    /\ \/ phase' = "ready" /\ UNCHANGED <<registry, activator>>
       \/ phase' = "disposed" /\ Disposed
    /\ UNCHANGED <<mode, installer, sessions, toasts, callbacks, clicked>>

\* deactivate: the resources are disposed.
Deactivates ==
    /\ phase \in {"ready", "disposed"}
    /\ phase' = "disposed"
    /\ Disposed
    /\ UNCHANGED <<mode, installer, sessions, toasts, callbacks, clicked>>

----------------------------------------------------------------------------
(* Sessions, toasts and answers *)

Serving == phase = "ready"

\* onDidChangeSessions reaches the activator in the same callback; to be asked
\* whether something is pending prunes the registry.
SessionChanges(s, from, to) ==
    LET present == [sessions EXCEPT ![s] = to]
        reg == Pruned(registry, present)
    IN  /\ Serving /\ sessions[s] \in from
        /\ sessions' = present
        /\ \E launched \in Launches :
              IF mode = "selectable"
              THEN registry' = reg /\ activator' = Ensured(activator, reg # {}, launched)
              ELSE UNCHANGED <<registry, activator>>
        /\ UNCHANGED <<phase, mode, installer, toasts, callbacks, clicked>>

SessionStarts(s) == SessionChanges(s, {"none"}, "live")
SessionCloses(s) == SessionChanges(s, {"live"}, "closing")
SessionEnds(s) == SessionChanges(s, Present, "gone")

Unraised == {t \in Toast : toasts[t].shown = "unraised"}

\* A waiting stage opens while the window is in the background: a registration,
\* the helpers, then the toast.
Raises(s) ==
    /\ Serving /\ sessions[s] \in Present /\ mode # "silent" /\ Unraised # {}
    /\ LET t == CHOOSE t \in Unraised : \A u \in Unraised : t <= u
           reg == Registered(Pruned(registry, sessions), t)
           kept == IF sessions[s] = "live" THEN reg ELSE Released(reg, t)
       IN  /\ toasts' = [toasts EXCEPT ![t].of = s, ![t].shown = "shown"]
           /\ \E launched \in Launches :
                IF mode = "selectable"
                THEN registry' = kept /\ activator' = Ensured(activator, kept # {}, launched)
                ELSE UNCHANGED <<registry, activator>>
    /\ UNCHANGED <<phase, mode, installer, sessions, callbacks, clicked>>

\* The banner, or what is left of it in the Action Center.
Visible(t) == toasts[t].shown \in {"shown", "old"}

\* The toast's process cannot be started or reports failure: there is no answer
\* to wait for.
ToastFails(t) ==
    /\ Visible(t)
    /\ toasts' = [toasts EXCEPT ![t].shown = "gone"]
    /\ registry' = Released(registry, t)
    /\ UNCHANGED <<phase, mode, installer, sessions, callbacks, clicked, activator>>

\* A registration is a week old, the oldest first.  The next pruning would remove
\* it; as everyone prunes before looking, it is removed at once.  The toast may stay.
Expires(t) ==
    /\ t \in registry /\ \A u \in registry : t <= u
    /\ toasts' = [toasts EXCEPT ![t].shown = IF @ = "shown" THEN "old" ELSE @]
    /\ registry' = Released(registry, t)
    /\ UNCHANGED <<phase, mode, installer, sessions, callbacks, clicked, activator>>

\* What becomes of a toast: its banner fades into the Action
\* Center, or the user clicks or dismisses it.
\* Whether the answer reaches the pipe, and is not lost there, is left open.
Answered(t, action) ==
    /\ Visible(t)
    /\ toasts' = [toasts EXCEPT ![t].shown = IF action = "timedout" THEN @ ELSE "gone"]
    /\ callbacks' \in {c \in {callbacks, callbacks \cup {[toast |-> t, action |-> action]}} :
                          Cardinality(c) <= MaxCallbacks}
    /\ UNCHANGED <<phase, mode, installer, sessions, registry, clicked, activator>>

\* Mutation: a faded banner uses its registration up.
ReleasedByAny(reg, c) == Released(reg, c.toast)

\* A banner that faded stays in the Action Center and can still be clicked.
ReleasedBy(reg, c) == IF c.action = "timedout" THEN reg ELSE Released(reg, c.toast)

\* A connection ends and its answer is accepted; the same answer may come again,
\* from the toast's own process and from a helper.  A click begins a selection.
Accepts(c) ==
    LET reg == Pruned(registry, sessions)
        selects == c.toast \in reg /\ c.action = "clicked"
    IN  /\ Serving /\ mode = "selectable" /\ c \in callbacks
        /\ callbacks' \in {callbacks, callbacks \ {c}}
        /\ registry' = ReleasedBy(reg, c)
        /\ clicked' = IF selects THEN clicked \cup {c.toast} ELSE clicked
        /\ UNCHANGED <<phase, mode, installer, sessions, toasts, activator>>

----------------------------------------------------------------------------
(* The activator's timers and the helpers' ends *)

Pending == Pruned(registry, sessions) # {}

\* A timer or a helper's end changes the activator.  What it would prune is
\* pruned whether or not it asks: nobody can tell the difference.
Becomes(next) ==
    /\ activator' = next
    /\ registry' = Pruned(registry, sessions)
    /\ UNCHANGED <<phase, mode, installer, sessions, toasts, callbacks, clicked>>

Renews ==
    /\ activator.renewing
    /\ \E launched \in BOOLEAN : Becomes(Renewed(activator, Pending, launched))

Retries(k) ==
    /\ activator.retries[k]
    /\ \E launched \in BOOLEAN : Becomes(StartedWorker(activator, k, Pending, launched))

Runs(w) == activator.workers[w] # None

Retires(w) == Kept(activator, w) /\ activator.workers[w].retiring /\ Becomes(Retired(activator, w))

\* A helper ends: after a callback, after a minute, because it was asked to, or
\* because it failed.
HelperEnds(w) == Runs(w) /\ Becomes(Ended(activator, w, Pending))

----------------------------------------------------------------------------
Activation ==
    \/ InstallBegins \/ InstallerWrites \/ InstallTimesOut \/ InstallerEnds
    \/ ServerOpens \/ WatcherStarts \/ Deactivates

Waiting ==
    \/ \E s \in Session : SessionStarts(s) \/ SessionCloses(s) \/ SessionEnds(s) \/ Raises(s)
    \/ \E t \in Toast : ToastFails(t) \/ Expires(t)
    \/ \E t \in Toast, action \in Answers : Answered(t, action)
    \/ \E c \in callbacks : Accepts(c)

Helping ==
    \/ Renews
    \/ \E k \in Slot : Retries(k)
    \/ \E w \in Helper : Retires(w) \/ HelperEnds(w)

Next == Activation \/ Waiting \/ Helping

Spec == Init /\ [][Next]_vars

----------------------------------------------------------------------------
\* No process and no file of a process is left without the one who needs it.
\* The helpers follow what is pending, through launches that fail, helpers that
\* end at any time, their renewal, retirement and replacement.  While some
\* registration can still be answered the activator works; while it works it
\* will renew, and each slot has a helper that stays or a retry; every helper
\* that was not asked to end is one of those or about to be retired; and when
\* it does not work no timer is left that could start one.  And however late
\* the installer ends, and however it does, no link is left under the staging
\* name while the window runs, unless its removal was refused.
NothingLeftBehind ==
    LET a == activator
    IN  /\ Pending => a.active
        /\ a.active =>
            /\ a.renewing
            /\ \A k \in Slot :
                \/ a.retries[k]
                \/ a.slots[k] # None /\ Kept(a, a.slots[k]) /\ ~a.workers[a.slots[k]].retiring
        /\ ~a.active => ~a.renewing /\ \A k \in Slot : ~a.retries[k]
        /\ \A w \in Helper : Kept(a, w) =>
            a.active /\ (a.slots[a.workers[w].slot] = w \/ a.workers[w].retiring)
        /\ installer.settled /\ installer.child # "running" /\ installer.staged => installer.refused

\* A toast the user can still see leads, for a week, to its session as long as
\* that session lives: its registration is used up neither by its banner's
\* fading, nor by the answers to other toasts, nor by sessions that close; only
\* newer toasts push it out.  And no toast selects twice.
ToastsSelectable ==
    Serving /\ mode = "selectable" =>
        \A t \in Toast :
            /\ toasts[t].shown = "shown" /\ sessions[toasts[t].of] = "live"
                => t \in registry
                   \/ Cardinality({u \in Toast : u > t /\ toasts[u].of # None}) >= MaxRegistrations
            /\ t \in clicked => t \notin registry
=============================================================================
