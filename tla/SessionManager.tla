--------------------------- MODULE SessionManager ---------------------------
(***************************************************************************)
(* The registry of managed Claude sessions (sessionManager.ts) together    *)
(* with the PTY adapter it drives (nodePtyAdapter.ts).                     *)
(*                                                                         *)
(* JavaScript runs one callback at a time, so an action is one run of the  *)
(* event loop between two awaits.  launch() is a coroutine with two awaits *)
(* (prepareLaunch, spawn); a close is a promise chain with up to three     *)
(* (beforeTerminate, the adapter's kill, the clearing of the retry guard). *)
(* Everything else, the process's own exit included, can happen between    *)
(* any two of these steps.                                                 *)
(***************************************************************************)
EXTENDS Naturals, Sequences, SequencesExt

CONSTANTS
    Session,      \* the ids createId() can mint; each is used for one launch
    None,         \* undefined
    MaxInput      \* bound: chunks of input sent, over all sessions

\* The failures a user is told of.
Failures == {"startup-failed", "immediate-nonzero-exit", "unexpected-nonzero-exit"}

ASSUME NoneAssumption == None \notin Session \cup Failures
ASSUME InputAssumption == MaxInput \in Nat

VARIABLES
    records,      \* SessionManager.records, in launch order
    active,       \* currentActiveSessionId
    terminal,     \* the terminal flag
    state,        \* snapshot.state of each record
    launching,    \* where the launch coroutine of each id stands
    owned,        \* record.pty # undefined (and its exit is subscribed)
    closeOp,      \* record.closeOperation, by the promise it waits for
    reached,      \* record.reachedRunning
    keen,         \* record.notifyOnUnexpectedExit
    resizing,     \* record.pendingResize # undefined
    pending,      \* record.pendingInput
    process,      \* the native process behind the PTY
    kill,         \* NodeManagedPty.termination and .terminated
    typed,        \* how many chunks the panel has sent to each session
    delivered,    \* what reached the PTY
    notice        \* the last notification about each session

registry == <<records, active, terminal>>
recordVars == <<state, closeOp, reached, keen, resizing, pending>>
ptyVars == <<owned, process, kill>>
inputVars == <<typed, delivered>>
vars == <<registry, recordVars, ptyVars, launching, inputVars, notice>>

States == {"none", "starting", "running", "closing"}
LaunchSteps == {"unborn", "preparing", "spawning", "spawned", "settled"}
CloseSteps == {"none", "flushing", "killing", "settling"}
Processes == {"none", "live", "clean", "failed"}
Kills == {"idle", "pending", "sent", "refused"}
Notices == {None} \cup Failures

TypeOK ==
    /\ records \in Seq(Session)
    /\ active \in Session \cup {None}
    /\ terminal \in BOOLEAN
    /\ state \in [Session -> States]
    /\ launching \in [Session -> LaunchSteps]
    /\ owned \in [Session -> BOOLEAN]
    /\ closeOp \in [Session -> CloseSteps]
    /\ reached \in [Session -> BOOLEAN]
    /\ keen \in [Session -> BOOLEAN]
    /\ resizing \in [Session -> BOOLEAN]
    /\ pending \in [Session -> Seq(Nat)]
    /\ process \in [Session -> Processes]
    /\ kill \in [Session -> Kills]
    /\ typed \in [Session -> Nat]
    /\ delivered \in [Session -> Seq(Nat)]
    /\ notice \in [Session -> Notices]

Init ==
    /\ records = <<>>
    /\ active = None
    /\ terminal = FALSE
    /\ state = [s \in Session |-> "none"]
    /\ launching = [s \in Session |-> "unborn"]
    /\ owned = [s \in Session |-> FALSE]
    /\ closeOp = [s \in Session |-> "none"]
    /\ reached = [s \in Session |-> FALSE]
    /\ keen = [s \in Session |-> FALSE]
    /\ resizing = [s \in Session |-> FALSE]
    /\ pending = [s \in Session |-> <<>>]
    /\ process = [s \in Session |-> "none"]
    /\ kill = [s \in Session |-> "idle"]
    /\ typed = [s \in Session |-> 0]
    /\ delivered = [s \in Session |-> <<>>]
    /\ notice = [s \in Session |-> None]

----------------------------------------------------------------------------
(* Helpers of the registry. *)

Registered == {records[i] : i \in DOMAIN records}

\* records.findIndex(record => record.id === s)
Index(s) == CHOOSE i \in DOMAIN records : records[i] = s

\* Mutation: the position is stored in place of the id.
ReplacementPosition(rest, index) ==
    IF index \in DOMAIN rest \/ index - 1 \in DOMAIN rest THEN index ELSE None

\* Mutation: no fallback to the preceding record.
ReplacementForward(rest, index) == IF index \in DOMAIN rest THEN rest[index] ELSE None

\* records[index] ?? records[index - 1], read after the splice.
Replacement(rest, index) ==
    IF index \in DOMAIN rest THEN rest[index]
    ELSE IF index - 1 \in DOMAIN rest THEN rest[index - 1] ELSE None

\* What NodeManagedPty.terminate() leaves of its own state: a second call
\* shares the kill in flight, a refused kill may be tried again.
Terminated(k) == IF k \in {"idle", "refused"} THEN "pending" ELSE k

\* NodeManagedPty.terminate() on the PTY of s, whose process may be gone.
TerminatePty(s) ==
    kill' = IF process[s] = "live" THEN [kill EXCEPT ![s] = Terminated(@)] ELSE kill

\* removeRecord: nothing if the record is gone; otherwise splice it out, hand
\* its selection to a neighbour and release (and so terminate) its PTY.
RemoveRecord(s) ==
    IF s \notin Registered
    THEN UNCHANGED <<records, active>>
    ELSE LET rest == RemoveAt(records, Index(s)) IN
         /\ records' = rest
         /\ active' = IF active = s THEN Replacement(rest, Index(s)) ELSE active

\* launch's catch blocks: a launch the user or the shutdown cancelled fails
\* in silence, any other failure is reported.
Cancelled(s) == terminal \/ state[s] = "closing"

NotifyUnless(cancelled, s, kind) ==
    notice' = IF cancelled THEN notice ELSE [notice EXCEPT ![s] = kind]

\* terminateRecord: a close in progress is shared.
CloseStarted(op) == IF op = "none" THEN "flushing" ELSE op

----------------------------------------------------------------------------
(* launch *)

Launch(s, wantsNotice) ==
    /\ ~terminal
    /\ launching[s] = "unborn"
    /\ records' = Append(records, s)
    /\ active' = s
    /\ state' = [state EXCEPT ![s] = "starting"]
    /\ keen' = [keen EXCEPT ![s] = wantsNotice]
    /\ launching' = [launching EXCEPT ![s] = "preparing"]
    /\ UNCHANGED <<terminal, closeOp, reached, resizing, pending, ptyVars, inputVars, notice>>

\* Mutation: the spawn goes ahead without looking at the session again.
PreparedBlindly(s) ==
    /\ launching[s] = "preparing"
    /\ launching' = [launching EXCEPT ![s] = "spawning"]
    /\ UNCHANGED <<registry, recordVars, ptyVars, inputVars, notice>>

\* prepareLaunch resolved: spawn, unless the session is not wanted any more.
Prepared(s) ==
    /\ launching[s] = "preparing"
    /\ IF Cancelled(s) \/ s \notin Registered
       THEN /\ RemoveRecord(s)
            /\ launching' = [launching EXCEPT ![s] = "settled"]
       ELSE /\ launching' = [launching EXCEPT ![s] = "spawning"]
            /\ UNCHANGED <<records, active>>
    /\ UNCHANGED <<terminal, recordVars, ptyVars, inputVars, notice>>

\* prepareLaunch or spawn rejected.
LaunchFailed(s) ==
    /\ launching[s] \in {"preparing", "spawning"}
    /\ RemoveRecord(s)
    /\ NotifyUnless(Cancelled(s), s, "startup-failed")
    /\ launching' = [launching EXCEPT ![s] = "settled"]
    /\ UNCHANGED <<terminal, recordVars, ptyVars, inputVars>>

\* The process exists and the spawn promise is resolved, but the
\* continuation of launch has not run yet.
Spawned(s) ==
    /\ launching[s] = "spawning"
    /\ process' = [process EXCEPT ![s] = "live"]
    /\ launching' = [launching EXCEPT ![s] = "spawned"]
    /\ UNCHANGED <<registry, recordVars, owned, kill, inputVars, notice>>

\* Mutation: the late PTY is dropped without terminating it.
AdoptAbandonedLeaks(s) ==
    /\ launching[s] = "spawned"
    /\ terminal \/ s \notin Registered
    /\ RemoveRecord(s)
    /\ launching' = [launching EXCEPT ![s] = "settled"]
    /\ UNCHANGED <<terminal, recordVars, ptyVars, inputVars, notice>>

\* The manager has let go of the session: abandonPty.
AdoptAbandoned(s) ==
    /\ launching[s] = "spawned"
    /\ terminal \/ s \notin Registered
    /\ RemoveRecord(s)
    /\ TerminatePty(s)
    /\ launching' = [launching EXCEPT ![s] = "settled"]
    /\ UNCHANGED <<terminal, recordVars, owned, process, inputVars, notice>>

\* From here on launch still owns the record; it subscribes to the PTY.
Adopting(s) ==
    /\ launching[s] = "spawned"
    /\ ~terminal
    /\ s \in Registered
    /\ launching' = [launching EXCEPT ![s] = "settled"]

ExitNotice(s) ==
    IF reached[s] THEN "unexpected-nonzero-exit" ELSE "immediate-nonzero-exit"

\* handleExit for an exit of this outcome.
HandleExit(s, outcome) ==
    /\ RemoveRecord(s)
    /\ NotifyUnless(\/ Cancelled(s)
                    \/ outcome = "clean"
                    \/ reached[s] /\ ~keen[s],
                    s, ExitNotice(s))

\* The process exited before the continuation ran: subscribing replays it.
AdoptExited(s) ==
    /\ Adopting(s)
    /\ process[s] # "live"
    /\ HandleExit(s, process[s])
    /\ UNCHANGED <<terminal, recordVars, ptyVars, inputVars>>

\* Applying the resize requested while starting threw.
AdoptResizeFailed(s) ==
    /\ Adopting(s)
    /\ process[s] = "live"
    /\ resizing[s]
    /\ RemoveRecord(s)
    /\ TerminatePty(s)
    /\ NotifyUnless(Cancelled(s), s, "startup-failed")
    /\ UNCHANGED <<terminal, recordVars, owned, process, inputVars>>

\* The session was closed while it was starting: close it again, now that
\* there is a PTY to terminate.
AdoptClosing(s) ==
    /\ Adopting(s)
    /\ process[s] = "live"
    /\ state[s] = "closing"
    /\ owned' = [owned EXCEPT ![s] = TRUE]
    /\ resizing' = [resizing EXCEPT ![s] = FALSE]
    /\ closeOp' = [closeOp EXCEPT ![s] = CloseStarted(@)]
    /\ UNCHANGED <<registry, state, reached, keen, pending, process, kill, inputVars, notice>>

\* Mutation: the buffer is written out but not emptied.
AdoptRunningKeepsBuffer(s) ==
    /\ Adopting(s)
    /\ process[s] = "live"
    /\ state[s] = "starting"
    /\ owned' = [owned EXCEPT ![s] = TRUE]
    /\ resizing' = [resizing EXCEPT ![s] = FALSE]
    /\ delivered' = [delivered EXCEPT ![s] = @ \o pending[s]]
    /\ state' = [state EXCEPT ![s] = "running"]
    /\ reached' = [reached EXCEPT ![s] = TRUE]
    /\ UNCHANGED <<registry, pending, closeOp, keen, process, kill, typed, notice>>

\* The buffered input goes out in order and the session runs.
AdoptRunning(s) ==
    /\ Adopting(s)
    /\ process[s] = "live"
    /\ state[s] = "starting"
    /\ owned' = [owned EXCEPT ![s] = TRUE]
    /\ resizing' = [resizing EXCEPT ![s] = FALSE]
    /\ delivered' = [delivered EXCEPT ![s] = @ \o pending[s]]
    /\ pending' = [pending EXCEPT ![s] = <<>>]
    /\ state' = [state EXCEPT ![s] = "running"]
    /\ reached' = [reached EXCEPT ![s] = TRUE]
    /\ UNCHANGED <<registry, closeOp, keen, process, kill, typed, notice>>

\* Writing the k-th buffered chunk threw: the k - 1 before it went out.
AdoptFlushFailed(s) ==
    /\ Adopting(s)
    /\ process[s] = "live"
    /\ state[s] = "starting"
    /\ resizing' = [resizing EXCEPT ![s] = FALSE]
    /\ \E k \in DOMAIN pending[s] :
          delivered' = [delivered EXCEPT ![s] = @ \o SubSeq(pending[s], 1, k - 1)]
    /\ RemoveRecord(s)
    /\ TerminatePty(s)
    /\ NotifyUnless(FALSE, s, "startup-failed")
    /\ UNCHANGED <<terminal, state, closeOp, reached, keen, pending, owned, process, typed>>

\* The PTY answered the k-th buffered chunk at once and a listener of its
\* output closed the session: the rest of the buffer is not sent.
AdoptFlushClosed(s) ==
    /\ Adopting(s)
    /\ process[s] = "live"
    /\ state[s] = "starting"
    /\ owned' = [owned EXCEPT ![s] = TRUE]
    /\ resizing' = [resizing EXCEPT ![s] = FALSE]
    /\ \E k \in DOMAIN pending[s] :
          delivered' = [delivered EXCEPT ![s] = @ \o SubSeq(pending[s], 1, k)]
    /\ state' = [state EXCEPT ![s] = "closing"]
    /\ closeOp' = [closeOp EXCEPT ![s] = CloseStarted(@)]
    /\ UNCHANGED <<registry, reached, keen, pending, process, kill, typed, notice>>

----------------------------------------------------------------------------
(* close, terminateAll, dispose *)

Close(s) ==
    /\ s \in Registered
    /\ state' = [state EXCEPT ![s] = "closing"]
    /\ closeOp' = [closeOp EXCEPT ![s] = CloseStarted(@)]
    /\ UNCHANGED <<registry, reached, keen, resizing, pending, ptyVars, launching, inputVars, notice>>

\* transitionToClosing and terminateRecord for every record.
AllClosing ==
    /\ state' = [s \in Session |-> IF s \in Registered THEN "closing" ELSE state[s]]
    /\ closeOp' = [s \in Session |->
                      IF s \in Registered THEN CloseStarted(closeOp[s]) ELSE closeOp[s]]

TerminateAll ==
    /\ ~terminal
    /\ terminal' = TRUE
    /\ AllClosing
    /\ UNCHANGED <<records, active, reached, keen, resizing, pending, ptyVars, launching,
                   inputVars, notice>>

\* terminateAll is started unless it was before; every record is released.
Dispose ==
    /\ ~terminal \/ records # <<>>
    /\ terminal' = TRUE
    /\ IF terminal THEN UNCHANGED <<state, closeOp>> ELSE AllClosing
    /\ kill' = [s \in Session |-> IF owned[s] THEN Terminated(kill[s]) ELSE kill[s]]
    /\ owned' = [s \in Session |-> FALSE]
    /\ records' = <<>>
    /\ active' = None
    /\ UNCHANGED <<reached, keen, resizing, pending, process, launching, inputVars, notice>>

\* beforeTerminate settled (its failure is swallowed); the PTY is looked up
\* only now.
Flushed(s) ==
    /\ closeOp[s] = "flushing"
    /\ IF owned[s]
       THEN /\ kill' = [kill EXCEPT ![s] = Terminated(@)]
            /\ closeOp' = [closeOp EXCEPT ![s] = IF kill[s] = "sent" THEN "settling" ELSE "killing"]
       ELSE /\ closeOp' = [closeOp EXCEPT ![s] = "settling"]
            /\ UNCHANGED kill
    /\ UNCHANGED <<registry, state, reached, keen, resizing, pending, owned, process, launching,
                   inputVars, notice>>

\* The adapter's kill succeeded or threw; a close waiting for it goes on.
Killed(s) ==
    /\ kill[s] = "pending"
    /\ \E outcome \in {"sent", "refused"} : kill' = [kill EXCEPT ![s] = outcome]
    /\ closeOp' = [closeOp EXCEPT ![s] = IF @ = "killing" THEN "settling" ELSE @]
    /\ UNCHANGED <<registry, state, reached, keen, resizing, pending, owned, process, launching,
                   inputVars, notice>>

\* The last link of the chain clears the retry guard.
CloseSettled(s) ==
    /\ closeOp[s] = "settling"
    /\ closeOp' = [closeOp EXCEPT ![s] = "none"]
    /\ UNCHANGED <<registry, state, reached, keen, resizing, pending, ptyVars, launching,
                   inputVars, notice>>

\* The process exits, by itself or because it was killed.  An owner hears of
\* it at once, a PTY nobody subscribed to yet remembers it, a disposed PTY
\* has unsubscribed.
ProcessExit(s, outcome) ==
    /\ process[s] = "live"
    /\ process' = [process EXCEPT ![s] = outcome]
    /\ IF owned[s]
       THEN HandleExit(s, outcome) /\ owned' = [owned EXCEPT ![s] = FALSE]
       ELSE UNCHANGED <<records, active, notice, owned>>
    /\ UNCHANGED <<terminal, recordVars, kill, launching, inputVars>>

----------------------------------------------------------------------------
(* Input, geometry and selection *)

\* write: straight to the PTY, or into the buffer of a starting session, or
\* dropped.  One the PTY refuses throws to the caller and changes nothing: no step.
Write(s) ==
    /\ s \in Registered
    /\ FoldFunction(+, 0, typed) < MaxInput
    /\ typed' = [typed EXCEPT ![s] = @ + 1]
    /\ delivered' = IF owned[s] THEN [delivered EXCEPT ![s] = Append(@, typed[s] + 1)] ELSE delivered
    /\ pending' = IF ~owned[s] /\ state[s] = "starting"
                  THEN [pending EXCEPT ![s] = Append(@, typed[s] + 1)] ELSE pending
    /\ UNCHANGED <<registry, state, closeOp, reached, keen, resizing, ptyVars, launching, notice>>

\* resize before there is a PTY: only the latest size is kept.
Resize(s) ==
    /\ s \in Registered
    /\ ~owned[s]
    /\ resizing' = [resizing EXCEPT ![s] = TRUE]
    /\ UNCHANGED <<registry, state, closeOp, reached, keen, pending, ptyVars, launching, inputVars,
                   notice>>

Activate(s) ==
    /\ s \in Registered
    /\ active' = s
    /\ UNCHANGED <<records, terminal, recordVars, ptyVars, launching, inputVars, notice>>

\* activateNext (step = 1) and activatePrevious (step = Len - 1), wrapping.
ActivateRelative(step) ==
    /\ Len(records) >= 2
    /\ active \in Registered
    /\ active' = records[1 + ((Index(active) - 1 + step) % Len(records))]
    /\ UNCHANGED <<records, terminal, recordVars, ptyVars, launching, inputVars, notice>>

ActivateNext == ActivateRelative(1)
ActivatePrevious == ActivateRelative(Len(records) - 1)

----------------------------------------------------------------------------
LaunchStep(s) ==
    \/ Prepared(s) \/ LaunchFailed(s) \/ Spawned(s)
    \/ AdoptAbandoned(s) \/ AdoptExited(s) \/ AdoptResizeFailed(s) \/ AdoptClosing(s)
    \/ AdoptRunning(s) \/ AdoptFlushFailed(s) \/ AdoptFlushClosed(s)

CloseStep(s) == Flushed(s) \/ Killed(s) \/ CloseSettled(s)

UserStep(s) ==
    \/ \E wantsNotice \in BOOLEAN : Launch(s, wantsNotice)
    \/ Close(s) \/ Write(s) \/ Resize(s) \/ Activate(s)

Next ==
    \/ \E s \in Session :
          \/ LaunchStep(s)
          \/ CloseStep(s)
          \/ UserStep(s)
          \/ \E outcome \in {"clean", "failed"} : ProcessExit(s, outcome)
    \/ ActivateNext \/ ActivatePrevious
    \/ TerminateAll \/ Dispose

Spec == Init /\ [][Next]_vars

----------------------------------------------------------------------------
(* Safety *)

\* No interleaving of launch, close, shutdown and exit leaves a process
\* behind: whatever is alive is owned by a record of the registry, or is
\* about to be adopted by its launch, or was told to terminate
\* (launch's two re-checks, removeRecord, abandonPty, dispose).  And a close
\* that waits for a kill waits for one that is under way, so that its retry
\* guard is let go and a refused termination can be tried again.
NoOrphanProcess ==
    \A s \in Session :
        /\ process[s] = "live" =>
              owned[s] \/ launching[s] = "spawned" \/ kill[s] # "idle"
        /\ owned[s] => s \in Registered /\ process[s] = "live"
        /\ closeOp[s] = "killing" => kill[s] = "pending"

\* Whatever order sessions are launched, closed and removed in, the panel's
\* selection names a session of the registry, and there is a selection as
\* long as there is a session (removeRecord's hand-over to a neighbour).
SelectionLive ==
    IF records = <<>> THEN active = None ELSE active \in Registered

\* Input typed while a session starts and after it runs reaches its PTY
\* once, in the order it was typed and, until the session is closed, without
\* a gap, whichever of the two paths of write() each chunk took.
InputInOrder ==
    \A s \in Session :
        /\ \A i, j \in DOMAIN delivered[s] : i < j => delivered[s][i] < delivered[s][j]
        /\ s \in Registered /\ state[s] # "closing" =>
              delivered[s] \o pending[s] = [i \in 1..typed[s] |-> i]

\* The registry implements the abstract life cycle of SessionLifecycle.
Phase ==
    [s \in Session |->
        IF launching[s] = "unborn" THEN "unborn"
        ELSE IF s \in Registered THEN state[s] ELSE "gone"]

ProcessView ==
    [s \in Session |->
        CASE process[s] = "live" -> "live"
          [] process[s] \in {"clean", "failed"} -> "dead"
          [] OTHER -> IF launching[s] = "spawning" THEN "ordered" ELSE "none"]

SL == INSTANCE SessionLifecycle WITH
        shut <- terminal,
        phase <- Phase,
        process <- ProcessView,
        doomed <- [s \in Session |-> kill[s] # "idle"],
        told <- [s \in Session |-> notice[s] # None]

\* Every step of launch, close, shutdown and exit is a step of the abstract
\* life cycle: no revival, no process ordered for a cancelled session, no
\* process left behind, and no failure reported of a session that the user
\* closed or the shutdown ended.
Lifecycle == SL!Spec

\* sessionManager.ts:267 "requests termination from its PTY": once the close
\* of a session with a live PTY has run its course, the PTY was told to
\* terminate.
CloseRequestsTermination ==
    \A s \in Session :
        state[s] = "closing" /\ owned[s] /\ closeOp[s] = "none" => kill[s] # "idle"
=============================================================================
