------------------------- MODULE CompletionReporter --------------------------
(***************************************************************************)
(* The reporter inside Claude (media/attention/hooks/register.js and       *)
(* completionRetry.js, with the writer report-activity.ps1 that every      *)
(* report runs): what Claude tells the extension about its turns and its   *)
(* background agents, through one file per signal.                         *)
(*                                                                         *)
(* A writer stamps the time when it starts and shows its file when it      *)
(* ends, so files appear in another order than they are stamped, or never. *)
(* A confirmed completion of an agent is therefore kept and reported again *)
(* five seconds later, under the generation of the run it ended.           *)
(***************************************************************************)
EXTENDS Integers, FiniteSets, SequencesExt

CONSTANTS
    Agent,       \* agent ids
    None,        \* undefined
    MaxRecords,  \* records kept at most (256)
    MaxEvents,   \* bound: events in Claude; a run, and a conversation, begins and ends
    MaxLost      \* bound: publications that fail

ASSUME ReporterAssumption ==
    /\ None \notin Agent \cup Nat
    /\ {MaxRecords, MaxEvents} \subseteq Nat \ {0} /\ MaxLost \in Nat

VARIABLES
    conv,      \* Claude: the conversation it runs
    parent,    \* Claude: its own turn
    told,      \* Claude: signals of its own turn so far
    runs,      \* Claude and its hooks: the runs of agents, with the handlers of their events
    identity,  \* completionRetry: the conversation it works for (0: none)
    records,   \* completionRetry: for each agent the run that can be retried
    retry,     \* completionRetry: the retry in flight
    clock,     \* completionRetry: timers work
    ready,     \* register: the newest markReady in progress
    env,       \* the conversation the reporter is declared ready for (0: none)
    files,     \* the signals on disk, in the order they were stamped
    lost       \* publications that failed

claude == <<conv, parent, told>>
reporter == <<identity, records, retry, clock, ready, env>>
reporterVars == <<claude, runs, reporter, files, lost>>

Runs == 1..MaxEvents
Conversations == 1..(MaxEvents + 1)
Parents == {"UserPromptSubmit", "Stop", "TurnComplete", "permission", "idle", "SessionEnd"}
Signals == [event : Parents \cup {"SubagentStart"}, run : 0..MaxEvents, gen : 0..MaxEvents,
            conv : Conversations, ready : BOOLEAN, again : BOOLEAN,
            file : {"writing", "shown", "taken"}]

Run == [agent : Agent, conv : Conversations, owner : Conversations \cup {0}, held : 0..MaxEvents,
        opening : {"publishing", "over"}, closing : {"running", "next", "publishing", "over"}]
Record == [run : Runs, kept : BOOLEAN, attempts : 0..2]
Retry == [run : Runs, step : {"id", "publish"}]

ASSUME NoneIsNoRecord == None \notin Record \cup Retry

ReporterTypeOK ==
    /\ conv \in Conversations /\ identity \in Conversations \cup {0} /\ env \in Conversations \cup {0}
    /\ parent \in {"idle", "working", "asking", "stopped"} /\ told \in 0..MaxEvents
    /\ runs \in Seq(Run)
    /\ records \in [Agent -> Record \cup {None}] /\ retry \in Retry \cup {None}
    /\ clock \in BOOLEAN
    /\ ready \in [step : {"idle", "announced", "write"}, id : Conversations \cup {0}]
    /\ files \in Seq(Signals) /\ lost \in 0..MaxLost

ReporterInit ==
    /\ conv = 1 /\ parent = "idle" /\ told = 0
    /\ runs = <<>>
    /\ identity = 0 /\ records = [a \in Agent |-> None] /\ retry = None /\ clock = TRUE
    /\ ready = [step |-> "announced", id |-> 0] /\ env = 0
    /\ files = <<>> /\ lost = 0

\* The bound: there is room for k more events.
Goes(k) == 2 * (Len(runs) + conv - 1) + told + k <= MaxEvents

----------------------------------------------------------------------------
(* The writer *)

Signal(event, run, gen, isReady, again) ==
    [event |-> event, run |-> run, gen |-> gen, conv |-> conv, ready |-> isReady,
     again |-> again, file |-> "writing"]

\* publish: the writer process has started and stamped its signal.
Write(signal) == files' = Append(files, signal)

\* A command hook of the settings; its writer derives readiness from the environment.
Hook(event) == Write(Signal(event, 0, 0, env = conv, FALSE))

\* The mod's own reports declare themselves ready.
Report(event, run, gen, again) == Write(Signal(event, run, gen, TRUE, again))

----------------------------------------------------------------------------
(* completionRetry *)

Kept(recs) == {a \in Agent : recs[a] # None /\ recs[a].kept}
Released(recs) == [a \in Agent |-> IF a \in Kept(recs) THEN None ELSE recs[a]]

\* schedule: a timer for the next kept record, unless a retry is in flight.
\* Setting or cancelling it may fail, once and for all.
Schedule(recs) ==
    \/ records' = (IF clock \/ retry' # None THEN recs ELSE Released(recs)) /\ UNCHANGED clock
    \/ retry' = None /\ Kept(recs) # {} /\ clock' = FALSE /\ records' = Released(recs)

\* generation(id)
GenerationOf(a) == IF records[a] = None THEN 0 ELSE records[a].run

\* started: the run gets a generation if a retry could carry it.
Versioned(a) ==
    clock /\ identity # 0 /\ Cardinality({b \in Agent \ {a} : records[b] # None}) < MaxRecords

\* current(record): still the record of the run.
Current(n) == GenerationOf(runs[n].agent) = n

\* end; cancelling the timer may fail.
End ==
    /\ identity' = 0 /\ records' = [a \in Agent |-> None]
    /\ \/ UNCHANGED clock
       \/ clock /\ retry = None /\ Kept(records) # {} /\ clock' = FALSE

\* activate
Activate(c) ==
    IF identity = c THEN UNCHANGED <<identity, records, clock>>
    ELSE /\ identity' = c /\ records' = [a \in Agent |-> None]
         /\ \/ UNCHANGED clock
            \/ clock /\ retry = None /\ Kept(records) # {} /\ clock' = FALSE

\* Mutation: what was confirmed is forgotten, as its first report is on its way.
CompletedForgets(n) ==
    LET a == runs[n].agent IN
    UNCHANGED retry /\
    IF runs[n].held # 0 /\ records[a] # None /\ records[a].run = runs[n].held
    THEN Schedule([records EXCEPT ![a] = None])
    ELSE UNCHANGED <<records, clock>>

\* completed: keep what is confirmed, for a retry.
Completed(n) ==
    LET a == runs[n].agent IN
    UNCHANGED retry /\
    IF runs[n].held # 0 /\ records[a] # None /\ records[a].run = runs[n].held /\ ~records[a].kept
    THEN Schedule([records EXCEPT ![a] = [run |-> n, kept |-> TRUE, attempts |-> 0]])
    ELSE UNCHANGED <<records, clock>>

\* run: the timer of a kept record fires.
RetryFires(a) ==
    /\ clock /\ retry = None
    /\ a \in Kept(records)
    /\ retry' = [run |-> records[a].run, step |-> "id"]
    /\ UNCHANGED <<claude, runs, identity, records, clock, ready, env, files, lost>>

\* The session id arrives: nothing is published for a record that is not
\* current, nor in another conversation than its own.
RetryIdentified ==
    /\ retry # None /\ retry.step = "id"
    /\ IF Current(retry.run) /\ conv = identity
       THEN /\ Report("TurnComplete", retry.run, retry.run, TRUE)
            /\ retry' = [retry EXCEPT !.step = "publish"]
            /\ UNCHANGED <<identity, records, clock>>
       ELSE /\ retry' = None
            /\ IF Current(retry.run) THEN End
               ELSE Schedule(records) /\ UNCHANGED identity
            /\ UNCHANGED files
    /\ UNCHANGED <<claude, runs, ready, env, lost>>

\* Mutation: a retry that succeeded is repeated like one that failed.
RetryRepeats(n, successful) ==
    /\ retry' = None
    /\ IF ~Current(n) THEN Schedule(records)
       ELSE Schedule([records EXCEPT ![runs[n].agent] = [@ EXCEPT !.attempts = @ + 1]])

\* A record after an attempt: three at most, one if it succeeds.
Tried(record, successful) ==
    IF successful \/ record.attempts = 2 THEN None
    ELSE [record EXCEPT !.attempts = @ + 1]

\* The end of a retry.
RetryOver(n, successful) ==
    LET a == runs[n].agent IN
    /\ retry' = None
    /\ IF ~Current(n) THEN Schedule(records)
       ELSE Schedule([records EXCEPT ![a] = Tried(@, successful)])

\* The session id cannot be read: an attempt like one that published nothing.
RetryUnidentified ==
    /\ retry # None /\ retry.step = "id"
    /\ lost < MaxLost /\ lost' = lost + 1
    /\ RetryOver(retry.run, FALSE)
    /\ UNCHANGED <<claude, runs, identity, ready, env, files>>

----------------------------------------------------------------------------
(* register: the handlers of Claude's events *)

\* classic.SubagentStart: agent a runs, for the first time or again.
AgentStarts(a) ==
    LET n == Len(runs) + 1
        without == [records EXCEPT ![a] = None] IN
    /\ Goes(2)
    /\ \A m \in DOMAIN runs : runs[m].agent = a => runs[m].closing # "running"
    /\ runs' = Append(runs, [agent |-> a, conv |-> conv, held |-> 0,
                             owner |-> IF Versioned(a) THEN identity ELSE 0,
                             opening |-> "publishing", closing |-> "running"])
    /\ UNCHANGED retry
    /\ Schedule(IF Versioned(a) THEN [without EXCEPT ![a] = [run |-> n, kept |-> FALSE, attempts |-> 0]]
                ELSE without)
    /\ Report("SubagentStart", n, IF Versioned(a) THEN n ELSE 0, FALSE)
    /\ UNCHANGED <<claude, identity, ready, env, lost>>

\* turn.complete of an agent, which runs once the handlers of its start are
\* through: the generation is read before the other handlers of the event.
AgentCompletes(n) ==
    /\ runs[n].opening = "over" /\ runs[n].closing = "running"
    /\ runs' = [runs EXCEPT ![n].closing = "next", ![n].held = GenerationOf(runs[n].agent)]
    /\ UNCHANGED <<claude, reporter, files, lost>>

\* Mutation: the generation is read when the completion is published.
CompletionReread(n) ==
    /\ runs[n].closing = "next"
    /\ runs' = [runs EXCEPT ![n].closing = "publishing"]
    /\ Report("TurnComplete", n, GenerationOf(runs[n].agent), FALSE)
    /\ UNCHANGED <<claude, reporter, lost>>

\* next(e) returns, and the completion is published.
CompletionConfirmed(n) ==
    /\ runs[n].closing = "next"
    /\ runs' = [runs EXCEPT ![n].closing = "publishing"]
    /\ Report("TurnComplete", n, runs[n].held, FALSE)
    /\ UNCHANGED <<claude, reporter, lost>>

\* An agent of a conversation that is over ends without an event.
AgentVanishes(n) ==
    /\ runs[n].closing = "running" /\ runs[n].conv # conv
    /\ runs' = [runs EXCEPT ![n].closing = "over"]
    /\ UNCHANGED <<claude, reporter, files, lost>>

\* What waits for the writer of a signal goes on with its result.
Continue(s, successful) ==
    CASE s.run = 0 -> UNCHANGED <<runs, records, retry, clock>>
      [] s.again -> RetryOver(s.run, successful) /\ UNCHANGED runs
      [] s.event = "SubagentStart" ->
            runs' = [runs EXCEPT ![s.run].opening = "over"] /\ UNCHANGED <<records, retry, clock>>
      [] OTHER -> runs' = [runs EXCEPT ![s.run].closing = "over"] /\ Completed(s.run)

\* The writer moves its file into place; it may still miss its deadline.
Shows(i) ==
    /\ files[i].file = "writing"
    /\ files' = [files EXCEPT ![i].file = "shown"]
    /\ \/ Continue(files[i], TRUE) /\ UNCHANGED lost
       \/ lost < MaxLost /\ lost' = lost + 1 /\ Continue(files[i], FALSE)
    /\ UNCHANGED <<claude, identity, ready, env>>

\* The writer fails, or is killed, before it shows the file.
Loses(i) ==
    /\ files[i].file = "writing" /\ lost < MaxLost
    /\ lost' = lost + 1
    /\ files' = RemoveAt(files, i)
    /\ Continue(files[i], FALSE)
    /\ UNCHANGED <<claude, identity, ready, env>>

\* /clear, /resume: SessionEnd, and perhaps session.end (markReady with ended),
\* at which retries are given up.
ConversationEnds ==
    /\ Goes(2)
    /\ conv' = conv + 1 /\ parent' = "idle"
    /\ Hook("SessionEnd")
    /\ \/ End /\ ready' = [step |-> "write", id |-> 0]
       \/ ready' = [step |-> "announced", id |-> 0] /\ UNCHANGED <<identity, records, clock>>
    /\ UNCHANGED <<told, runs, retry, env, lost>>

\* session.start and classic.SessionStart: markReady replaces the one in
\* progress; the session id arrives, or cannot be had.
ConversationStarts ==
    /\ ready.step = "announced" \/ ready = [step |-> "write", id |-> 0]
    /\ \/ /\ Activate(conv)
          /\ ready' = [step |-> "write", id |-> conv]
          /\ UNCHANGED lost
       \/ /\ lost < MaxLost /\ lost' = lost + 1
          /\ ready' = [step |-> "idle", id |-> 0]
          /\ UNCHANGED <<identity, records, clock>>
    /\ UNCHANGED <<claude, runs, retry, env, files>>

\* markReady: the environment declares the reporter ready.
ReadyWritten ==
    /\ ready.step = "write"
    /\ env' = ready.id
    /\ ready' = [step |-> IF ready.id = 0 THEN "announced" ELSE "idle", id |-> 0]
    /\ UNCHANGED <<claude, runs, identity, records, retry, clock, files, lost>>

\* Claude's own turn: from the prompt to its end, with questions in between.
TurnStep(event) ==
    CASE event = "UserPromptSubmit" -> parent = "idle" /\ parent' = "working"
      [] event = "permission" -> parent = "working" /\ parent' = "asking"
      [] event = "Stop" -> parent = "working" /\ parent' = "stopped"
      [] event = "TurnComplete" -> parent = "stopped" /\ parent' = "idle"
      [] event = "idle" -> parent \in {"idle", "asking"} /\ UNCHANGED parent
      [] OTHER -> FALSE

\* Its signals: the command hooks of the settings, and turn.complete.
ParentTells(event) ==
    /\ Goes(1) /\ told' = told + 1
    /\ TurnStep(event)
    /\ IF event = "TurnComplete" THEN Report(event, 0, 0, FALSE) ELSE Hook(event)
    /\ UNCHANGED <<conv, runs, reporter, lost>>

\* Every step but a file that appears.
ReporterNext ==
    \/ \E a \in Agent : AgentStarts(a) \/ RetryFires(a)
    \/ \E n \in DOMAIN runs : AgentCompletes(n) \/ CompletionConfirmed(n) \/ AgentVanishes(n)
    \/ \E i \in DOMAIN files : Loses(i)
    \/ RetryIdentified \/ RetryUnidentified
    \/ ConversationEnds \/ ConversationStarts \/ ReadyWritten
    \/ \E event \in Parents : ParentTells(event)
=============================================================================
