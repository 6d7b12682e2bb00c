-------------------------- MODULE AttentionSignals ---------------------------
(***************************************************************************)
(* The extension's side of the attention channel                           *)
(* (attentionSignalWatcher.ts): the watcher that takes the signal files in *)
(* batches and the processor that turns them into what the panel shows of  *)
(* one managed session, composed with the reporter that writes them.       *)
(*                                                                         *)
(* A batch is sorted by the time the signals were stamped, a later batch   *)
(* may still hold an older signal, and a file that cannot be removed is    *)
(* read again.  Running agents, the parent's turn and an open question are *)
(* kept apart and combined whenever the session's activity is set.         *)
(***************************************************************************)
EXTENDS CompletionReporter

CONSTANTS
    Known,       \* the session was launched for a known conversation
    MaxStuck     \* bound: signal files that cannot be removed

ASSUME WatcherAssumption ==
    Known \in BOOLEAN /\ MaxStuck \in Nat /\ None \notin {"idle", "working", "waiting"}

VARIABLES
    running,     \* manager: the session exists and runs
    activity,    \* manager: what the panel shows
    unread,      \* manager: the mark of an unread response
    count,       \* manager: the number of agents shown
    stage,       \* processor: a question is open (waitingStages)
    own,         \* processor: the activity of Claude's own turn (parentActivities)
    agents,      \* processor: the run shown for each agent, 0 without a generation
    warned,      \* processor: the missing reporter was reported
    noticed,     \* watcher: an ingestion is scheduled
    stuck        \* files that could not be removed so far

session == <<running, activity, unread, count>>
processor == <<stage, own, agents, warned>>
watcher == <<noticed, stuck>>
vars == <<reporterVars, session, processor, watcher>>

Activities == {"idle", "working", "waiting"}
Busy(shown) == {a \in Agent : shown[a] # None}

TypeOK ==
    /\ ReporterTypeOK
    /\ running \in BOOLEAN
    /\ activity \in Activities /\ unread \in BOOLEAN /\ count \in Nat
    /\ stage \in BOOLEAN /\ own \in Activities \cup {None}
    /\ agents \in [Agent -> 0..MaxEvents \cup {None}]
    /\ warned \in BOOLEAN /\ noticed \in BOOLEAN
    /\ stuck \in 0..MaxStuck

Init ==
    /\ ReporterInit
    /\ running = TRUE
    /\ activity = "idle" /\ unread = FALSE /\ count = 0
    /\ stage = FALSE /\ own = None /\ agents = [a \in Agent |-> None] /\ warned = FALSE
    /\ noticed = FALSE /\ stuck = 0

----------------------------------------------------------------------------
(* The processor *)

\* setAttention
Show(newActivity, newUnread, newAgents) ==
    /\ activity' = newActivity
    /\ unread' = newUnread
    /\ count' = Cardinality(Busy(newAgents))

\* Signals of a session that does not run or of another conversation.
Foreign(s) == ~running \/ (Known /\ s.conv # 1)

\* A stop that precedes the decision of other hooks, or an agent's signal
\* that is not owned: a completion ends the run it names only.
OfAgent(s) == s.run # 0
Disowned(s) ==
    \/ s.event = "Stop" /\ s.ready
    \/ OfAgent(s) /\ ~s.ready
    \/ OfAgent(s) /\ s.event = "TurnComplete" /\ agents[runs[s.run].agent] # s.gen

\* A start or a completion of an agent.
AgentSignal(s) ==
    LET a == runs[s.run].agent
        shown == [agents EXCEPT ![a] = IF s.event = "SubagentStart" THEN s.gen ELSE None]
        before == IF s.event = "SubagentStart" /\ own = None THEN activity ELSE own IN
    /\ agents' = shown
    /\ own' = before
    /\ Show(IF stage THEN "waiting"
            ELSE IF Busy(shown) # {} THEN "working"
            ELSE IF before # None THEN before ELSE activity,
            unread, shown)
    /\ UNCHANGED stage

\* attentionTransition: the activity and the mark a signal of Claude's own
\* turn asks for.
Transition(s, viewed, answered) ==
    CASE s.event = "UserPromptSubmit" -> [activity |-> "working", unread |-> FALSE, stage |-> FALSE]
      [] s.event = "Stop" -> [activity |-> "waiting", unread |-> ~viewed, stage |-> stage]
      [] s.event = "TurnComplete" ->
            [activity |-> "waiting", unread |-> ~viewed /\ answered, stage |-> stage]
      [] s.event = "SessionEnd" -> [activity |-> "idle", unread |-> FALSE, stage |-> FALSE]
      [] s.event = "permission" -> [activity |-> "waiting", unread |-> FALSE, stage |-> TRUE]
      [] s.event = "idle" -> [activity |-> "idle", unread |-> FALSE, stage |-> stage]

OwnSignal(s, viewed, answered) ==
    LET t == Transition(s, viewed, answered)
        ends == s.event = "SessionEnd"
        shown == IF ends THEN [a \in Agent |-> None] ELSE agents IN
    /\ agents' = shown
    /\ own' = IF ends THEN None ELSE t.activity
    /\ stage' = t.stage
    /\ Show(IF ~t.stage /\ Busy(shown) # {} THEN "working" ELSE t.activity, t.unread, shown)

\* process
Process(s) ==
    IF Foreign(s) THEN UNCHANGED <<processor, activity, unread, count>>
    ELSE /\ warned' = (warned \/ (s.event = "UserPromptSubmit" /\ ~s.ready))
         /\ IF Disowned(s) THEN UNCHANGED <<stage, own, agents, activity, unread, count>>
            ELSE IF OfAgent(s) THEN AgentSignal(s)
            ELSE \E viewed, answered \in BOOLEAN : OwnSignal(s, viewed, answered)

\* promptSubmitted: the user presses Enter in the terminal, which also
\* answers a question.
UserEnters ==
    /\ running /\ Goes(1) /\ told' = told + 1
    /\ parent' = IF parent = "asking" THEN "working" ELSE parent
    /\ stage' = FALSE /\ own' = "working"
    /\ activity' = "working" /\ unread' = FALSE /\ count' = Cardinality(Busy(agents))
    /\ UNCHANGED <<conv, runs, reporter, files, lost, running, agents, warned, watcher>>

\* The session ends and leaves the list (onDidChangeSessions).
SessionRemoved ==
    /\ running /\ running' = FALSE
    /\ stage' = FALSE /\ warned' = FALSE /\ own' = None
    /\ agents' = IF own # None THEN [a \in Agent |-> None] ELSE agents
    /\ UNCHANGED <<reporterVars, activity, unread, count, watcher>>

----------------------------------------------------------------------------
(* The watcher *)

Taken == {i \in DOMAIN files : files[i].file = "taken"}
Shown == {i \in DOMAIN files : files[i].file = "shown"}
Marked(set, mark) == [i \in DOMAIN files |-> IF i \in set THEN [files[i] EXCEPT !.file = mark] ELSE files[i]]

\* A file appears, which schedules an ingestion.
FileAppears ==
    /\ \E i \in DOMAIN files : Shows(i)
    /\ noticed' = TRUE
    /\ UNCHANGED <<session, processor, stuck>>

\* Any other step of Claude and its hooks.
HostIdle == UNCHANGED <<session, processor, watcher>>

\* ingestAttentionSignals: what is in the directory, oldest first.
Ingest ==
    /\ noticed /\ Taken = {}
    /\ noticed' = FALSE
    /\ files' = Marked(Shown, "taken")
    /\ UNCHANGED <<claude, runs, reporter, lost, session, processor, stuck>>

\* The oldest signal of the batch is processed and its file removed.
ProcessNext ==
    \E i \in Taken :
        /\ \A j \in Taken : i <= j
        /\ Process(files[i])
        /\ files' = RemoveAt(files, i)
        /\ UNCHANGED <<claude, runs, reporter, lost, running, watcher>>

\* Its file cannot be removed: the rest of the batch waits with it.
ProcessStuck ==
    \E i \in Taken :
        /\ \A j \in Taken : i <= j
        /\ stuck < MaxStuck /\ stuck' = stuck + 1
        /\ Process(files[i])
        /\ files' = Marked(Taken, "shown")
        /\ UNCHANGED <<claude, runs, reporter, lost, running, noticed>>

Next ==
    \/ running /\ ReporterNext /\ HostIdle
    \/ FileAppears \/ UserEnters \/ SessionRemoved
    \/ Ingest \/ ProcessNext \/ ProcessStuck
Spec == Init /\ [][Next]_vars

----------------------------------------------------------------------------
(* Properties *)

\* "A duplicate or delayed confirmation cannot end a newer run of this ID":
\* an agent shown under a generation leaves the panel for a completion of
\* just that run, and no report of an agent touches the question, the mark
\* or the turn of Claude itself.
OnlyOwnRunEnds ==
    [][\A i \in Taken :
         /\ Cardinality(Taken') < Cardinality(Taken) /\ \A j \in Taken : i <= j
         /\ ~Foreign(files[i]) /\ OfAgent(files[i])
         => /\ unread' = unread /\ stage' = stage
            /\ own # None => own' = own
            /\ \A a \in Agent :
                 agents[a] \notin {None, 0} /\ agents'[a] # agents[a] =>
                     runs[files[i].run].agent = a
                     /\ (files[i].event = "TurnComplete" => files[i].run = agents[a])]_vars

\* Nothing is under way: no writer, no signal, no handler, no retry.
AtRest ==
    /\ files = <<>> /\ retry = None /\ Kept(records) = {}
    /\ \A n \in DOMAIN runs : runs[n].opening = "over" /\ runs[n].closing \in {"running", "over"}

\* What the panel shows of a running session is what its parts say: an open
\* question is never hidden by agents at work, agents show as working, and
\* when the last of them ends the activity of Claude's own turn comes back
\* (attentionSignalWatcher.ts: "activity: this.waitingStages.has(...)").  The
\* agents in turn are those that run (the recovery contract of
\* completionRetry.js): when one publication at most was lost, an agent that is
\* still shown when nothing is under way runs; and a retry reports under the
\* conversation its run belongs to (publish takes the id that run has checked).
ActivityAgrees ==
    /\ running =>
        /\ count = Cardinality(Busy(agents))
        /\ stage => activity # "working"
        /\ ~stage /\ Busy(agents) # {} => activity = "working"
        /\ ~stage /\ Busy(agents) = {} /\ own # None => activity = own
    /\ AtRest /\ running /\ clock /\ lost <= 1 =>
        \A a \in Agent : agents[a] \notin {None, 0} /\ runs[agents[a]].owner = conv =>
            runs[agents[a]].closing = "running"
    /\ \A i \in DOMAIN files : files[i].again => files[i].conv = runs[files[i].run].conv
=============================================================================
