------------------------ MODULE AttentionSignalsProofs ------------------------
(***************************************************************************)
(* Proofs about AttentionSignals and the reporter it is composed with, for *)
(* any number of agents, events, lost publications and files that cannot   *)
(* be removed: that the panel shows of a session what its parts say, that  *)
(* an agent leaves it for the end of just its run, and that one lost       *)
(* publication leaves no agent in it that does not run.                    *)
(***************************************************************************)
EXTENDS AttentionSignals, FiniteSetTheorems, TLAPS

----------------------------------------------------------------------------
(* The inductive invariant *)

\* The runs of the same agent that began after run n.
Newer(n) == {m \in DOMAIN runs : n < m /\ runs[m].agent = runs[n].agent}

\* Run n began in the present conversation, under a generation.
Carried(n) == runs[n].owner = conv

\* The signals of the start and of the end of run n.
IsStart(s, n) == s.event = "SubagentStart" /\ s.run = n
IsEnd(s, n) == s.event = "TurnComplete" /\ s.run = n

\* The run is the one of the record, and it was confirmed.
IsKept(n) ==
    LET r == records[runs[n].agent]
    IN  r # None /\ r.run = n /\ r.kept

\* A run has an owner of the past or the present, holds its own generation, and
\* is the last of its agent as long as it goes on; one that is carried has its
\* start behind it when it is confirmed, and holds its generation then.
RunsSound ==
    /\ identity <= conv
    /\ \A n \in DOMAIN runs :
         /\ runs[n].owner <= runs[n].conv /\ runs[n].conv <= conv
         /\ runs[n].held \in {0, n}
         /\ runs[n].closing = "running" => Newer(n) = {}
         /\ Carried(n) => identity = conv
         /\ Carried(n) /\ runs[n].closing # "running" => runs[n].opening = "over" /\ runs[n].held = n

\* A record is of the last run of its agent and of the reporter's conversation,
\* and kept once that run is over; the last run of an agent has its record
\* until it is over, and no run was tried more often than publications failed.
RecordsSound ==
    /\ \A a \in Agent : records[a] # None =>
         LET n == records[a].run IN
         /\ n \in DOMAIN runs /\ runs[n].agent = a /\ Newer(n) = {}
         /\ identity # 0 /\ runs[n].owner = identity
         /\ records[a].attempts <= lost
         /\ records[a].kept => runs[n].closing = "over"
    /\ \A n \in DOMAIN runs : Carried(n) /\ Newer(n) = {} /\ runs[n].closing # "over" =>
         LET r == records[runs[n].agent] IN r # None /\ r.run = n /\ ~r.kept

\* One retry is in flight, of a run that is over; its record stays.
RetrySound ==
    /\ retry # None =>
         LET n == retry.run IN
         /\ n \in DOMAIN runs /\ runs[n].closing = "over"
         /\ clock /\ Carried(n) /\ Newer(n) = {} => IsKept(n)
    /\ \A i \in DOMAIN files : files[i].again /\ files[i].file = "writing" =>
         retry = [run |-> files[i].run, step |-> "publish"]
    /\ \A i, j \in DOMAIN files :
         /\ files[i].again /\ files[i].file = "writing"
         /\ files[j].again /\ files[j].file = "writing"
         => i = j

\* What a signal says of a run is true of it.
SignalSound(s) ==
    LET n == s.run IN
    /\ s.event = "SubagentStart" \/ s.again => n # 0
    /\ n # 0 =>
         /\ n \in DOMAIN runs /\ s.ready /\ s.gen \in {0, n}
         /\ s.event \in {"SubagentStart", "TurnComplete"}
         /\ runs[n].conv <= s.conv /\ s.conv <= conv
         /\ s.event = "SubagentStart" =>
              /\ ~s.again /\ s.conv = runs[n].conv
              /\ runs[n].owner # 0 => s.gen = n
              /\ s.file = "writing" => runs[n].opening = "publishing"
         /\ s.event = "TurnComplete" =>
              /\ runs[n].closing \in {"publishing", "over"}
              /\ Carried(n) => s.gen = n
              /\ ~s.again /\ s.file = "writing" => runs[n].closing = "publishing"
         /\ s.again => s.conv = runs[n].conv /\ s.gen = n

\* So it is of every signal; a run has one writer of its end under way.
SignalsSound ==
    /\ \A i \in DOMAIN files : SignalSound(files[i])
    /\ \A i, j \in DOMAIN files :
         /\ files[i].event = "TurnComplete" /\ ~files[i].again /\ files[i].file = "writing"
         /\ files[j].event = "TurnComplete" /\ ~files[j].again /\ files[j].file = "writing"
         /\ files[i].run = files[j].run /\ files[i].run # 0
         => i = j

\* The start of a run was stamped after every signal of a run before it, and
\* before its end; nor is the start taken later than what was stamped after it.
StartsFirst ==
    /\ \A i, j \in DOMAIN files : i < j /\ files[j].event = "SubagentStart" => files[i].run < files[j].run
    /\ \A i, j \in DOMAIN files, n \in DOMAIN runs :
         /\ IsStart(files[i], n) /\ Carried(n)
         /\ IsEnd(files[j], n) \/ \E m \in Newer(n) : IsStart(files[j], m)
         => files[i].file # "writing" /\ (files[j].file = "taken" => files[i].file = "taken")

\* The panel shows agents that have run, and a run under its generation.
AgentsSound ==
    \A a \in Agent : agents[a] # None =>
        /\ \E n \in DOMAIN runs : runs[n].agent = a
        /\ agents[a] # 0 =>
             /\ agents[a] \in DOMAIN runs /\ runs[agents[a]].agent = a
             /\ Known => runs[agents[a]].conv = 1

\* Run n is shown or is still going to be.
Appears(n) ==
    \/ agents[runs[n].agent] = n
    \/ \E i \in DOMAIN files : IsStart(files[i], n)

\* Its end, or the start of a newer run of its agent, is on its way.
EndComes(n) == runs[n].closing = "next" \/ \E i \in DOMAIN files : IsEnd(files[i], n)
NewerComes(n) == \E i \in DOMAIN files : \E m \in Newer(n) : IsStart(files[i], m)

\* A run that is over and shown is going to leave the panel: as long as nothing
\* was lost for each of its reasons, and after one loss for one of them.
Recovers(n) ==
    Carried(n) /\ runs[n].closing # "running" /\ Appears(n) =>
        /\ lost = 0 => EndComes(n) /\ (Newer(n) # {} => NewerComes(n))
        /\ lost = 1 => EndComes(n) \/ (IF Newer(n) = {} THEN IsKept(n) ELSE NewerComes(n))
Recovery == running /\ clock => \A n \in DOMAIN runs : Recovers(n)

\* What is shown follows from its parts.
ActivityShown ==
    running =>
        /\ count = Cardinality(Busy(agents))
        /\ stage => activity # "working"
        /\ ~stage /\ Busy(agents) # {} => activity = "working"
        /\ ~stage /\ Busy(agents) = {} /\ own # None => activity = own

\* The events so far keep within their bound.
Bounded == Goes(0)

IInv ==
    /\ TypeOK /\ Bounded
    /\ RunsSound /\ RecordsSound /\ RetrySound
    /\ SignalsSound /\ StartsFirst
    /\ AgentsSound /\ Recovery /\ ActivityShown

----------------------------------------------------------------------------
(* Sequences and what is in them *)

\* The place before the removal of place k of what comes to be at place j.
Before(k, j) == IF j < k THEN j ELSE j + 1

\* RemoveAt takes one element out and leaves the order of the others.
LEMMA RemoveAtFacts ==
    ASSUME NEW S, NEW seq \in Seq(S), NEW k \in DOMAIN seq
    PROVE  /\ RemoveAt(seq, k) \in Seq(S)
           /\ Len(RemoveAt(seq, k)) = Len(seq) - 1
           /\ \A j \in DOMAIN RemoveAt(seq, k) :
                 /\ Before(k, j) \in DOMAIN seq /\ Before(k, j) # k
                 /\ RemoveAt(seq, k)[j] = seq[Before(k, j)]
           /\ \A j \in DOMAIN seq : j # k => \E m \in DOMAIN RemoveAt(seq, k) : Before(k, m) = j
<1> DEFINE front == SubSeq(seq, 1, k - 1)
           back == SubSeq(seq, k + 1, Len(seq))
<1>1. k \in 1..Len(seq) /\ Len(seq) \in Nat
  OBVIOUS
<1>2. /\ front \in Seq(S) /\ Len(front) = k - 1
      /\ \A j \in 1..(k - 1) : front[j] = seq[j]
  BY <1>1
<1>3. /\ back \in Seq(S) /\ Len(back) = Len(seq) - k
      /\ \A j \in 1..(Len(seq) - k) : back[j] = seq[j + k]
  BY <1>1
<1>4. RemoveAt(seq, k) = front \o back
  BY DEF RemoveAt
<1> HIDE DEF front, back
<1>5. /\ RemoveAt(seq, k) \in Seq(S)
      /\ Len(RemoveAt(seq, k)) = Len(seq) - 1
      /\ DOMAIN RemoveAt(seq, k) = 1..(Len(seq) - 1)
  BY <1>1, <1>2, <1>3, <1>4
<1>6. ASSUME NEW j \in 1..(Len(seq) - 1)
      PROVE  RemoveAt(seq, k)[j] = seq[Before(k, j)]
  <2>1. CASE j < k
    BY <1>1, <1>2, <1>3, <1>4, <2>1 DEF Before
  <2>2. CASE j >= k
    <3>1. (front \o back)[j] = back[j - (k - 1)]
      BY <1>1, <1>2, <1>3, <2>2
    <3>2. j - (k - 1) \in 1..(Len(seq) - k) /\ (j - (k - 1)) + k = j + 1
      BY <1>1, <2>2
    <3>3. back[j - (k - 1)] = seq[(j - (k - 1)) + k]
      BY <1>3, <3>2
    <3>4. Before(k, j) = j + 1
      BY <1>1, <2>2 DEF Before
    <3> QED
      BY <1>4, <3>1, <3>2, <3>3, <3>4
  <2> QED
    BY <1>1, <2>1, <2>2
<1>7. ASSUME NEW j \in DOMAIN seq, j # k
      PROVE  \E m \in DOMAIN RemoveAt(seq, k) : Before(k, m) = j
  <2>1. CASE j < k
    BY <1>1, <1>5, <2>1 DEF Before
  <2>2. CASE j > k
    <3>1. j - 1 \in DOMAIN RemoveAt(seq, k) /\ Before(k, j - 1) = j
      BY <1>1, <1>5, <2>2 DEF Before
    <3> QED
      BY <3>1
  <2> QED
    BY <1>1, <1>7, <2>1, <2>2
<1> QED
  BY <1>1, <1>5, <1>6, <1>7 DEF Before

\* What the bounds and the types say of runs, files and records.
LEMMA Shapes ==
    ASSUME TypeOK
    PROVE  /\ runs \in Seq(Run) /\ DOMAIN runs = 1..Len(runs) /\ Len(runs) \in Nat
           /\ \A n \in DOMAIN runs : runs[n] \in Run
           /\ files \in Seq(Signals) /\ DOMAIN files = 1..Len(files) /\ Len(files) \in Nat
           /\ \A i \in DOMAIN files : files[i] \in Signals
           /\ records \in [Agent -> Record \cup {None}]
           /\ \A a \in Agent : records[a] # None => records[a] \in Record
           /\ conv \in Nat \ {0} /\ identity \in Nat /\ lost \in Nat
           /\ retry # None => retry \in Retry
<1>1. runs \in Seq(Run) /\ files \in Seq(Signals) /\ records \in [Agent -> Record \cup {None}]
  BY DEF TypeOK, ReporterTypeOK
<1>2. /\ conv \in Conversations /\ identity \in Conversations \cup {0} /\ lost \in 0..MaxLost
      /\ retry \in Retry \cup {None}
  BY DEF TypeOK, ReporterTypeOK
<1>3. conv \in Nat \ {0} /\ identity \in Nat /\ lost \in Nat
  BY <1>2, ReporterAssumption DEF Conversations
<1> QED
  BY <1>1, <1>2, <1>3

\* Scheduling keeps the records, or gives up those that are kept and the timers.
LEMMA ScheduleFacts ==
    ASSUME clock \in BOOLEAN, NEW recs \in [Agent -> Record \cup {None}], Schedule(recs)
    PROVE  /\ records' \in [Agent -> Record \cup {None}]
           /\ clock' \in BOOLEAN
           /\ clock' => clock /\ records' = recs
           /\ \A a \in Agent : \/ records'[a] = recs[a]
                               \/ recs[a] # None /\ recs[a].kept /\ records'[a] = None
<1>1. CASE records' = (IF clock \/ retry' # None THEN recs ELSE Released(recs)) /\ UNCHANGED clock
  <2>1. CASE clock \/ retry' # None
    BY <1>1, <2>1
  <2>2. CASE ~(clock \/ retry' # None)
    <3>1. records' = Released(recs) /\ ~clock'
      BY <1>1, <2>2
    <3> QED
      BY <1>1, <3>1 DEF Released, Kept
  <2> QED
    BY <2>1, <2>2
<1>2. CASE retry' = None /\ Kept(recs) # {} /\ clock' = FALSE /\ records' = Released(recs)
  BY <1>2 DEF Released, Kept
<1> QED
  BY <1>1, <1>2 DEF Schedule

\* A conversation that is given up leaves no record.
LEMMA EndFacts ==
    ASSUME clock \in BOOLEAN, End
    PROVE  /\ records' = [a \in Agent |-> None] /\ identity' = 0
           /\ clock' \in BOOLEAN /\ (clock' => clock)
<1>1. clock' = clock \/ clock' = FALSE
  BY DEF End
<1>2. clock' \in BOOLEAN
  BY <1>1
<1>3. clock' => clock
  BY <1>1
<1>4. records' = [a \in Agent |-> None] /\ identity' = 0
  BY DEF End
<1> QED
  BY <1>2, <1>3, <1>4

\* The reporter turns to a conversation.
LEMMA ActivateFacts ==
    ASSUME clock \in BOOLEAN, NEW c, Activate(c)
    PROVE  /\ identity' = c
           /\ clock' \in BOOLEAN /\ (clock' => clock)
           /\ IF identity = c THEN records' = records ELSE records' = [a \in Agent |-> None]
<1>1. clock' = clock \/ clock' = FALSE
  BY DEF Activate
<1>2. clock' \in BOOLEAN
  BY <1>1
<1>3. clock' => clock
  BY <1>1
<1>4. /\ identity' = c
      /\ IF identity = c THEN records' = records ELSE records' = [a \in Agent |-> None]
  BY DEF Activate
<1> QED
  BY <1>2, <1>3, <1>4

\* The bound of the events is one for the runs and the conversations.
LEMMA RunsBounded ==
    ASSUME TypeOK, Goes(0)
    PROVE  \A n \in DOMAIN runs : n \in Runs
<1>1. Len(runs) \in Nat /\ DOMAIN runs = 1..Len(runs) /\ conv \in Nat \ {0}
  BY Shapes
<1>2. told \in Nat /\ MaxEvents \in Nat
  BY ReporterAssumption DEF TypeOK, ReporterTypeOK
<1>3. Len(runs) <= MaxEvents
  BY <1>1, <1>2 DEF Goes
<1> QED
  BY <1>1, <1>2, <1>3 DEF Runs

\* The end of a retry gives a record up that is kept, or changes its attempts.
LEMMA RetryOverFacts ==
    ASSUME TypeOK, NEW n \in DOMAIN runs, NEW ok \in BOOLEAN, RetryOver(n, ok)
    PROVE  /\ retry' = None
           /\ records' \in [Agent -> Record \cup {None}]
           /\ clock' \in BOOLEAN
           /\ clock' => clock
           /\ \A a \in Agent : records'[a] # None =>
                 /\ records[a] # None
                 /\ records'[a].run = records[a].run /\ records'[a].kept = records[a].kept
                 /\ records'[a].attempts # records[a].attempts =>
                      ~ok /\ records'[a].attempts = records[a].attempts + 1
           /\ \A a \in Agent : records[a] # None /\ records'[a] = None =>
                 records[a].kept \/ records[a].run = n
           /\ clock' => \A a \in Agent :
                 records[a] # None /\ (records[a].run # n \/ (~ok /\ records[a].attempts # 2)) =>
                     records'[a] # None
<1> DEFINE b == runs[n].agent
           recs == IF ~Current(n) THEN records
                   ELSE [records EXCEPT ![b] = Tried(@, ok)]
<1>1. retry' = None /\ Schedule(recs)
  BY DEF RetryOver
<1>2. clock \in BOOLEAN
  BY DEF TypeOK, ReporterTypeOK
<1>3. runs[n] \in Run /\ records \in [Agent -> Record \cup {None}] /\ n \in Nat \ {0}
  BY Shapes
<1>4. b \in Agent
  BY <1>3 DEF Run
<1>5. Current(n) <=> records[b] # None /\ records[b].run = n
  BY <1>3 DEF Current, GenerationOf
<1>6. /\ recs \in [Agent -> Record \cup {None}]
      /\ \A a \in Agent : recs[a] # None =>
            /\ records[a] # None
            /\ recs[a].run = records[a].run /\ recs[a].kept = records[a].kept
            /\ recs[a].attempts # records[a].attempts =>
                 ~ok /\ recs[a].attempts = records[a].attempts + 1
      /\ \A a \in Agent : records[a] # None /\ recs[a] = None => records[a].run = n
      /\ \A a \in Agent :
            records[a] # None /\ (records[a].run # n \/ (~ok /\ records[a].attempts # 2)) => recs[a] # None
  <2>1. CASE ~Current(n)
    BY <1>3, <2>1
  <2>2. CASE Current(n)
    <3>1. records[b] \in Record /\ records[b] # None /\ records[b].run = n
      BY <1>3, <1>4, <1>5, <2>2
    <3>2. CASE ok \/ records[b].attempts = 2
      <4>1. recs = [records EXCEPT ![b] = None]
        BY <2>2, <3>2 DEF Tried
      <4> QED
        BY <1>3, <1>4, <3>1, <3>2, <4>1
    <3>3. CASE ~(ok \/ records[b].attempts = 2)
      <4> DEFINE new == [records[b] EXCEPT !.attempts = @ + 1]
      <4>1. recs = [records EXCEPT ![b] = new]
        BY <2>2, <3>3 DEF Tried
      <4>2. /\ new \in Record /\ new.run = records[b].run /\ new.kept = records[b].kept
            /\ new.attempts = records[b].attempts + 1
        BY <3>1, <3>3 DEF Record
      <4>3. new # None
        BY <4>2, NoneIsNoRecord
      <4> HIDE DEF new
      <4> QED
        BY <1>3, <1>4, <3>1, <3>3, <4>1, <4>2, <4>3
    <3> QED
      BY <3>2, <3>3
  <2> QED
    BY <2>1, <2>2
<1> HIDE DEF recs, b
<1>7. /\ records' \in [Agent -> Record \cup {None}]
      /\ clock' \in BOOLEAN
      /\ clock' => clock /\ records' = recs
      /\ \A a \in Agent : \/ records'[a] = recs[a]
                          \/ recs[a] # None /\ recs[a].kept /\ records'[a] = None
  BY <1>1, <1>2, <1>6, ScheduleFacts
<1> QED
  BY <1>1, <1>6, <1>7

\* A confirmed completion turns the record of its run into one that is kept.
LEMMA CompletedFacts ==
    ASSUME TypeOK, Bounded, NEW n \in DOMAIN runs, Completed(n)
    PROVE  /\ retry' = retry
           /\ records' \in [Agent -> Record \cup {None}]
           /\ clock' \in BOOLEAN
           /\ clock' => clock
           /\ \A a \in Agent : records'[a] # None =>
                 /\ records[a] # None
                 /\ \/ records'[a] = records[a]
                    \/ /\ a = runs[n].agent /\ records[a].run = runs[n].held /\ ~records[a].kept
                       /\ records'[a] = [run |-> n, kept |-> TRUE, attempts |-> 0]
           /\ \A a \in Agent : records[a] # None /\ records'[a] = None =>
                 records[a].kept \/ (a = runs[n].agent /\ records[a].run = runs[n].held)
           /\ clock' => \A a \in Agent : records[a] # None =>
                 /\ records'[a] # None
                 /\ a = runs[n].agent /\ runs[n].held # 0 /\ records[a].run = runs[n].held =>
                        records'[a].kept
<1> DEFINE b == runs[n].agent
           goes == runs[n].held # 0 /\ records[b] # None /\ records[b].run = runs[n].held /\ ~records[b].kept
           new == [run |-> n, kept |-> TRUE, attempts |-> 0]
           recs == [records EXCEPT ![b] = new]
<1>1. retry' = retry /\ (IF goes THEN Schedule(recs) ELSE records' = records /\ clock' = clock)
  BY DEF Completed
<1>2. clock \in BOOLEAN
  BY DEF TypeOK, ReporterTypeOK
<1>3. runs[n] \in Run /\ records \in [Agent -> Record \cup {None}] /\ n \in 1..Len(runs) /\ runs \in Seq(Run)
  BY Shapes
<1>4. b \in Agent /\ runs[n].held \in Nat
  BY <1>3, ReporterAssumption DEF Run
<1>5. CASE ~goes
  <2>1. records' = records /\ clock' = clock
    BY <1>1, <1>5
  <2>2. runs[n].held # 0 /\ records[b] # None /\ records[b].run = runs[n].held => records[b].kept
    BY <1>5
  <2>3. clock' \in BOOLEAN
    BY <1>2, <2>1
  <2>4. clock' => clock
    BY <2>1
  <2> HIDE DEF goes
  <2> QED
    BY <1>1, <1>3, <2>1, <2>2, <2>3, <2>4
<1>6. CASE goes
  <2>1. records[b] # None /\ records[b].run = runs[n].held /\ ~records[b].kept /\ Schedule(recs)
    BY <1>1, <1>6
  <2>2. n \in Runs
    BY RunsBounded DEF Bounded
  <2>3. new \in Record
    BY <2>2 DEF Record
  <2>4. new.kept
    OBVIOUS
  <2>5. new # None
    BY <2>3, NoneIsNoRecord
  <2> HIDE DEF new, goes
  <2>6. recs \in [Agent -> Record \cup {None}]
    BY <1>3, <2>3
  <2>7. \A a \in Agent : recs[a] = IF a = b THEN new ELSE records[a]
    BY <1>3, <1>4
  <2> HIDE DEF recs, b
  <2>8. /\ records' \in [Agent -> Record \cup {None}]
        /\ clock' \in BOOLEAN
        /\ clock' => clock /\ records' = recs
        /\ \A a \in Agent : \/ records'[a] = recs[a]
                            \/ recs[a] # None /\ recs[a].kept /\ records'[a] = None
    BY <1>2, <2>1, <2>6, ScheduleFacts
  <2> QED
    BY <1>1, <1>4, <2>1, <2>4, <2>5, <2>7, <2>8 DEF new, b
<1> QED
  BY <1>5, <1>6

\* A run or a signal is changed in its place.
LEMMA UpdateFacts ==
    ASSUME NEW S, NEW seq \in Seq(S), NEW k \in DOMAIN seq, NEW e \in S
    PROVE  /\ [seq EXCEPT ![k] = e] \in Seq(S)
           /\ Len([seq EXCEPT ![k] = e]) = Len(seq)
           /\ DOMAIN [seq EXCEPT ![k] = e] = DOMAIN seq
           /\ \A j \in DOMAIN seq : [seq EXCEPT ![k] = e][j] = IF j = k THEN e ELSE seq[j]
  OBVIOUS

\* A run or a signal comes after the others.
LEMMA AppendFacts ==
    ASSUME NEW S, NEW seq \in Seq(S), NEW e \in S
    PROVE  /\ Append(seq, e) \in Seq(S)
           /\ Len(Append(seq, e)) = Len(seq) + 1
           /\ DOMAIN Append(seq, e) = DOMAIN seq \cup {Len(seq) + 1}
           /\ \A j \in DOMAIN seq : Append(seq, e)[j] = seq[j]
           /\ Append(seq, e)[Len(seq) + 1] = e
  OBVIOUS

\* What is published is a signal.
LEMMA SignalTyped ==
    ASSUME TypeOK, NEW event \in Parents \cup {"SubagentStart"}, NEW run \in 0..MaxEvents,
           NEW gen \in 0..MaxEvents, NEW isReady \in BOOLEAN, NEW again \in BOOLEAN
    PROVE  Signal(event, run, gen, isReady, again) \in Signals
  BY DEF TypeOK, ReporterTypeOK, Signal, Signals

\* A writer starts: its signal comes last.
LEMMA WriteFacts ==
    ASSUME TypeOK, NEW s \in Signals, Write(s)
    PROVE  /\ files' \in Seq(Signals) /\ Len(files') = Len(files) + 1
           /\ DOMAIN files' = DOMAIN files \cup {Len(files) + 1}
           /\ \A i \in DOMAIN files : files'[i] = files[i]
           /\ files'[Len(files) + 1] = s
<1>1. files \in Seq(Signals)
  BY Shapes
<1>2. files' = Append(files, s)
  BY DEF Write
<1> HIDE DEF Signals
<1> QED
  BY <1>1, <1>2, AppendFacts

\* What goes on once a signal was written, or not.
LEMMA ContinueFacts ==
    ASSUME TypeOK, Bounded, SignalsSound, NEW i \in DOMAIN files, NEW ok \in BOOLEAN, Continue(files[i], ok)
    PROVE  LET s == files[i]
               n == s.run
           IN  \/ n = 0 /\ UNCHANGED <<runs, records, retry, clock>>
               \/ /\ n \in DOMAIN runs /\ s.again /\ s.event = "TurnComplete"
                  /\ RetryOver(n, ok) /\ runs' = runs
               \/ /\ n \in DOMAIN runs /\ ~s.again /\ s.event = "SubagentStart"
                  /\ runs' = [runs EXCEPT ![n] = [runs[n] EXCEPT !.opening = "over"]]
                  /\ UNCHANGED <<records, retry, clock>>
               \/ /\ n \in DOMAIN runs /\ ~s.again /\ s.event = "TurnComplete"
                  /\ runs' = [runs EXCEPT ![n] = [runs[n] EXCEPT !.closing = "over"]]
                  /\ Completed(n)
<1> DEFINE s == files[i]
           n == s.run
<1>1. s \in Signals
  BY Shapes
<1>2. n # 0 => n \in DOMAIN runs /\ s.event \in {"SubagentStart", "TurnComplete"}
               /\ (s.event = "SubagentStart" => ~s.again)
  BY DEF SignalsSound, SignalSound
<1>0. n = 0 => ~s.again /\ s.event # "SubagentStart"
  BY DEF SignalsSound, SignalSound
<1>3. CASE n = 0
  <2>1. UNCHANGED <<runs, records, retry, clock>>
    BY <1>0, <1>3 DEF Continue
  <2> QED
    BY <1>3, <2>1
<1>4. CASE n # 0 /\ s.again
  <2>1. s.event = "TurnComplete"
    BY <1>2, <1>4
  <2>2. RetryOver(n, ok) /\ runs' = runs
    BY <1>4, <2>1 DEF Continue
  <2> QED
    BY <1>2, <1>4, <2>1, <2>2
<1>5. CASE n # 0 /\ ~s.again /\ s.event = "SubagentStart"
  BY <1>2, <1>5 DEF Continue
<1>6. CASE n # 0 /\ ~s.again /\ s.event = "TurnComplete"
  BY <1>2, <1>6 DEF Continue
<1> QED
  BY <1>2, <1>3, <1>4, <1>5, <1>6

\* The run and the record that a start makes.
Begun(a) ==
    [agent |-> a, conv |-> conv, held |-> 0, owner |-> IF Versioned(a) THEN identity ELSE 0,
     opening |-> "publishing", closing |-> "running"]
Opened(n) == [run |-> n, kept |-> FALSE, attempts |-> 0]

\* An agent starts: its run is the last one, and its record, if it gets one, is of it.
LEMMA StartFacts ==
    ASSUME TypeOK, NEW a \in Agent, AgentStarts(a)
    PROVE  LET n == Len(runs) + 1
               s == Signal("SubagentStart", n, IF Versioned(a) THEN n ELSE 0, TRUE, FALSE)
           IN  /\ n \in Runs
               /\ Begun(a) \in Run
               /\ runs' \in Seq(Run) /\ Len(runs') = n
               /\ DOMAIN runs' = DOMAIN runs \cup {n} /\ n \notin DOMAIN runs
               /\ \A m \in DOMAIN runs : runs'[m] = runs[m] /\ m < n
               /\ runs'[n] = Begun(a)
               /\ s \in Signals /\ Write(s)
               /\ records' \in [Agent -> Record \cup {None}]
               /\ clock' \in BOOLEAN
               /\ clock' => clock
               /\ \A b \in Agent \ {a} : /\ records'[b] # None => records'[b] = records[b]
                                         /\ clock' => records'[b] = records[b]
                                         /\ records[b] # None /\ ~records[b].kept =>
                                              records'[b] = records[b]
               /\ records'[a] = IF Versioned(a) THEN Opened(n) ELSE None
<1> DEFINE n == Len(runs) + 1
           s == Signal("SubagentStart", n, IF Versioned(a) THEN n ELSE 0, TRUE, FALSE)
           without == [records EXCEPT ![a] = None]
           recs == IF Versioned(a) THEN [without EXCEPT ![a] = Opened(n)] ELSE without
<1>1. /\ runs \in Seq(Run) /\ DOMAIN runs = 1..Len(runs) /\ Len(runs) \in Nat
      /\ records \in [Agent -> Record \cup {None}] /\ conv \in Nat \ {0}
  BY Shapes
<1>2. /\ told \in Nat /\ MaxEvents \in Nat /\ clock \in BOOLEAN
      /\ conv \in Conversations /\ identity \in Conversations \cup {0}
  BY ReporterAssumption DEF TypeOK, ReporterTypeOK
<1>3. 2 * (Len(runs) + conv - 1) + told + 2 <= MaxEvents
  BY DEF AgentStarts, Goes
<1>4. n \in Runs
  BY <1>1, <1>2, <1>3 DEF Runs
<1>5. Begun(a) \in Run
  BY <1>2 DEF Begun, Run
<1>6. runs' = Append(runs, Begun(a))
  BY DEF AgentStarts, Begun
<1>7. /\ runs' \in Seq(Run) /\ Len(runs') = n
      /\ DOMAIN runs' = DOMAIN runs \cup {n} /\ n \notin DOMAIN runs
      /\ \A m \in DOMAIN runs : runs'[m] = runs[m] /\ m < n
      /\ runs'[n] = Begun(a)
  <2> HIDE DEF Run
  <2> QED
    BY <1>1, <1>5, <1>6, AppendFacts
<1>8. s \in Signals
  <2>1. n \in 0..MaxEvents /\ (IF Versioned(a) THEN n ELSE 0) \in 0..MaxEvents
    BY <1>4, <1>2 DEF Runs
  <2> QED
    BY <2>1, SignalTyped
<1>9. Write(s)
  BY DEF AgentStarts, Report
<1>10. Opened(n) \in Record
  BY <1>4 DEF Opened, Record
<1>11. Opened(n) # None /\ Opened(n).kept = FALSE
  BY <1>10, NoneIsNoRecord DEF Opened
<1>12. Schedule(recs)
  BY DEF AgentStarts, Opened
<1>13. /\ recs \in [Agent -> Record \cup {None}]
       /\ \A b \in Agent \ {a} : recs[b] = records[b]
       /\ recs[a] = IF Versioned(a) THEN Opened(n) ELSE None
  BY <1>1, <1>10
<1> HIDE DEF recs, without
<1>14. /\ records' \in [Agent -> Record \cup {None}]
       /\ clock' \in BOOLEAN
       /\ clock' => clock /\ records' = recs
       /\ \A b \in Agent : \/ records'[b] = recs[b]
                           \/ recs[b] # None /\ recs[b].kept /\ records'[b] = None
  BY <1>2, <1>12, <1>13, ScheduleFacts
<1>15. records'[a] = IF Versioned(a) THEN Opened(n) ELSE None
  BY <1>11, <1>13, <1>14
<1>16. \A b \in Agent \ {a} : /\ records'[b] # None => records'[b] = records[b]
                              /\ clock' => records'[b] = records[b]
                              /\ records[b] # None /\ ~records[b].kept =>
                                   records'[b] = records[b]
  BY <1>13, <1>14
<1>17. clock' => clock
  BY <1>14
<1> HIDE DEF n, s
<1> QED
  BY <1>4, <1>5, <1>7, <1>8, <1>9, <1>14, <1>15, <1>16, <1>17 DEF n, s

----------------------------------------------------------------------------
(* What a step does to the panel *)

\* The agents shown are some of those that have run, which are finitely many.
LEMMA BusyFinite ==
    ASSUME TypeOK, NEW shown,
           \A a \in Agent : shown[a] # None => \E n \in DOMAIN runs : runs[n].agent = a
    PROVE  Cardinality(Busy(shown)) \in Nat
<1> DEFINE of == [n \in 1..Len(runs) |-> runs[n].agent]
           Ran == {runs[n].agent : n \in 1..Len(runs)}
<1>1. Len(runs) \in Nat /\ DOMAIN runs = 1..Len(runs)
  BY Shapes
<1>2. IsFiniteSet(1..Len(runs))
  BY <1>1, FS_Interval
<1>3. of \in Surjection(1..Len(runs), Ran)
  BY DEF Surjection
<1>4. IsFiniteSet(Ran)
  BY <1>2, <1>3, FS_Surjection
<1>5. Busy(shown) \subseteq Ran
  BY <1>1 DEF Busy
<1> QED
  BY <1>4, <1>5, FS_Subset, FS_CardinalityType

\* A signal is not the session's, is not owned, or is of an agent or of Claude's own turn.
LEMMA ProcessFacts ==
    ASSUME TypeOK, SignalsSound, NEW i \in DOMAIN files, Process(files[i])
    PROVE  LET s == files[i]
           IN  /\ warned' \in BOOLEAN
               /\ \/ /\ Foreign(s) \/ Disowned(s)
                     /\ UNCHANGED <<stage, own, agents, activity, unread, count>>
                  \/ ~Foreign(s) /\ ~Disowned(s) /\ s.run \in DOMAIN runs /\ AgentSignal(s)
                  \/ /\ ~Foreign(s) /\ ~Disowned(s) /\ s.run = 0
                     /\ \E viewed, answered \in BOOLEAN : OwnSignal(s, viewed, answered)
<1> DEFINE s == files[i]
<1>1. warned \in BOOLEAN
  BY DEF TypeOK
<1>2. CASE Foreign(s)
  <2>1. UNCHANGED <<processor, activity, unread, count>>
    BY <1>2 DEF Process
  <2> QED
    BY <1>1, <1>2, <2>1 DEF processor
<1>3. CASE ~Foreign(s)
  <2>1. warned' \in BOOLEAN
    BY <1>3 DEF Process
  <2>2. CASE Disowned(s)
    <3>1. UNCHANGED <<stage, own, agents, activity, unread, count>>
      BY <1>3, <2>2 DEF Process
    <3> QED
      BY <2>1, <2>2, <3>1
  <2>3. CASE ~Disowned(s) /\ s.run # 0
    <3>1. AgentSignal(s)
      BY <1>3, <2>3 DEF Process, OfAgent
    <3>2. s.run \in DOMAIN runs
      BY <2>3 DEF SignalsSound, SignalSound
    <3> QED
      BY <1>3, <2>1, <2>3, <3>1, <3>2
  <2>4. CASE ~Disowned(s) /\ s.run = 0
    <3>1. \E viewed, answered \in BOOLEAN : OwnSignal(s, viewed, answered)
      BY <1>3, <2>4 DEF Process, OfAgent
    <3> QED
      BY <1>3, <2>1, <2>4, <3>1
  <2> QED
    BY <2>2, <2>3, <2>4
<1> QED
  BY <1>2, <1>3

\* A signal of an agent: the agent is shown under the signal's generation, or
\* no longer, and the panel shows what its parts say.
LEMMA AgentSignalFacts ==
    ASSUME TypeOK, Bounded, SignalsSound, AgentsSound, NEW i \in DOMAIN files,
           files[i].run \in DOMAIN runs, AgentSignal(files[i])
    PROVE  LET s == files[i]
               a == runs[s.run].agent
           IN  /\ a \in Agent
               /\ agents' = [agents EXCEPT ![a] = IF s.event = "SubagentStart" THEN s.gen ELSE None]
               /\ agents' \in [Agent -> 0..MaxEvents \cup {None}]
               /\ UNCHANGED <<stage, unread>>
               /\ own' \in Activities \cup {None}
               /\ own # None => own' = own
               /\ activity' \in Activities
               /\ count' = Cardinality(Busy(agents')) /\ count' \in Nat
               /\ stage => activity' # "working"
               /\ ~stage /\ Busy(agents') # {} => activity' = "working"
               /\ ~stage /\ Busy(agents') = {} /\ own' # None => activity' = own'
<1> DEFINE s == files[i]
           a == runs[s.run].agent
           shown == [agents EXCEPT ![a] = IF s.event = "SubagentStart" THEN s.gen ELSE None]
           before == IF s.event = "SubagentStart" /\ own = None THEN activity ELSE own
<1>1. s \in Signals /\ runs[s.run] \in Run
  BY Shapes
<1>2. a \in Agent /\ s.gen \in 0..MaxEvents
  BY <1>1 DEF Signals, Run
<1>3. /\ agents \in [Agent -> 0..MaxEvents \cup {None}] /\ stage \in BOOLEAN
      /\ own \in Activities \cup {None} /\ activity \in Activities
  BY DEF TypeOK
<1>4. /\ agents' = shown /\ own' = before /\ UNCHANGED <<stage, unread>>
      /\ count' = Cardinality(Busy(shown))
      /\ activity' = IF stage THEN "waiting"
                     ELSE IF Busy(shown) # {} THEN "working"
                     ELSE IF before # None THEN before ELSE activity
  BY DEF AgentSignal, Show
<1>5. shown \in [Agent -> 0..MaxEvents \cup {None}]
  BY <1>2, <1>3
<1>6. \A b \in Agent : shown[b] # None => \E n \in DOMAIN runs : runs[n].agent = b
  BY <1>2, <1>3 DEF AgentsSound
<1> HIDE DEF shown
<1>7. Cardinality(Busy(shown)) \in Nat
  BY <1>6, BusyFinite
<1>8. before \in Activities \cup {None} /\ (own # None => before = own)
  BY <1>3
<1> HIDE DEF before
<1>9. activity' \in Activities
  BY <1>3, <1>4, <1>8 DEF Activities
<1>10. stage => activity' # "working"
  BY <1>4
<1>11. ~stage /\ Busy(shown) # {} => activity' = "working"
  BY <1>4
<1>12. ~stage /\ Busy(shown) = {} /\ before # None => activity' = before
  BY <1>4
<1> QED
  BY <1>2, <1>4, <1>5, <1>7, <1>8, <1>9, <1>10, <1>11, <1>12 DEF shown

\* A signal of Claude's own turn: no agent is shown that was not.
LEMMA OwnSignalFacts ==
    ASSUME TypeOK, SignalsSound, AgentsSound, NEW i \in DOMAIN files, files[i].run = 0,
           NEW viewed \in BOOLEAN, NEW answered \in BOOLEAN, OwnSignal(files[i], viewed, answered)
    PROVE  /\ agents' \in [Agent -> 0..MaxEvents \cup {None}]
           /\ \A a \in Agent : agents'[a] \in {None, agents[a]}
           /\ stage' \in BOOLEAN /\ unread' \in BOOLEAN
           /\ own' \in Activities \cup {None}
           /\ activity' \in Activities
           /\ count' = Cardinality(Busy(agents')) /\ count' \in Nat
           /\ stage' => activity' # "working"
           /\ ~stage' /\ Busy(agents') # {} => activity' = "working"
           /\ ~stage' /\ Busy(agents') = {} /\ own' # None => activity' = own'
<1> DEFINE s == files[i]
           t == Transition(s, viewed, answered)
           ends == s.event = "SessionEnd"
           shown == IF ends THEN [a \in Agent |-> None] ELSE agents
<1>1. s \in Signals
  BY Shapes
<1>2. s.event \in Parents
  BY <1>1 DEF SignalsSound, SignalSound, Signals
<1>3. /\ agents \in [Agent -> 0..MaxEvents \cup {None}] /\ stage \in BOOLEAN
      /\ own \in Activities \cup {None} /\ activity \in Activities
  BY DEF TypeOK
<1>4. /\ t.activity \in Activities
      /\ t.unread \in BOOLEAN /\ t.stage \in BOOLEAN
  BY <1>2, <1>3 DEF Transition, Parents, Activities
<1>5. t.stage => t.activity # "working"
  <2>1. CASE s.event = "UserPromptSubmit"
    BY <2>1 DEF Transition
  <2>2. CASE s.event # "UserPromptSubmit"
    BY <1>2, <2>2 DEF Transition, Parents
  <2> QED
    BY <2>1, <2>2
<1>6. /\ agents' = shown /\ own' = (IF ends THEN None ELSE t.activity) /\ stage' = t.stage
      /\ unread' = t.unread /\ count' = Cardinality(Busy(shown))
      /\ activity' = IF ~t.stage /\ Busy(shown) # {} THEN "working" ELSE t.activity
  BY DEF OwnSignal, Show
<1>7. /\ shown \in [Agent -> 0..MaxEvents \cup {None}]
      /\ \A a \in Agent : shown[a] \in {None, agents[a]}
  BY <1>3
<1>8. Cardinality(Busy(shown)) \in Nat
  <2>1. \A b \in Agent : shown[b] # None => \E n \in DOMAIN runs : runs[n].agent = b
    BY <1>7 DEF AgentsSound
  <2> QED
    BY <2>1, BusyFinite
<1> HIDE DEF t, shown
<1>9. activity' \in Activities
  BY <1>4, <1>6 DEF Activities
<1>10. stage' => activity' # "working"
  BY <1>5, <1>6
<1>11. ~stage' /\ Busy(agents') # {} => activity' = "working"
  BY <1>6
<1>12. ~stage' /\ Busy(agents') = {} /\ own' # None => activity' = own'
  BY <1>6
<1> QED
  BY <1>4, <1>6, <1>7, <1>8, <1>9, <1>10, <1>11, <1>12

----------------------------------------------------------------------------
(* The types and the bound *)

\* A batch is taken, or put back.
LEMMA MarkedFacts ==
    ASSUME TypeOK, NEW set, NEW mark \in {"shown", "taken"}, files' = Marked(set, mark)
    PROVE  /\ files' \in Seq(Signals) /\ Len(files') = Len(files) /\ DOMAIN files' = DOMAIN files
           /\ \A i \in DOMAIN files :
                files'[i] = IF i \in set THEN [files[i] EXCEPT !.file = mark] ELSE files[i]
<1>1. /\ files \in Seq(Signals) /\ DOMAIN files = 1..Len(files) /\ Len(files) \in Nat
      /\ \A i \in DOMAIN files : files[i] \in Signals
  BY Shapes
<1>2. \A i \in DOMAIN files :
         (IF i \in set THEN [files[i] EXCEPT !.file = mark] ELSE files[i]) \in Signals
  BY <1>1 DEF Signals
<1>3. files' = [i \in 1..Len(files) |->
                   IF i \in set THEN [files[i] EXCEPT !.file = mark] ELSE files[i]]
  BY <1>1 DEF Marked
<1> HIDE DEF Signals
<1> QED
  BY <1>1, <1>2, <1>3

\* A signal file is shown.
LEMMA ShownFacts ==
    ASSUME TypeOK, NEW i \in DOMAIN files, files' = [files EXCEPT ![i].file = "shown"]
    PROVE  /\ files' \in Seq(Signals) /\ Len(files') = Len(files) /\ DOMAIN files' = DOMAIN files
           /\ \A j \in DOMAIN files :
                files'[j] = IF j = i THEN [files[i] EXCEPT !.file = "shown"] ELSE files[j]
<1>1. files \in Seq(Signals) /\ files[i] \in Signals
  BY Shapes
<1> DEFINE new == [files[i] EXCEPT !.file = "shown"]
<1>2. new \in Signals
  BY <1>1 DEF Signals
<1>3. files' = [files EXCEPT ![i] = new]
  OBVIOUS
<1> HIDE DEF new, Signals
<1>4. /\ files' \in Seq(Signals) /\ Len(files') = Len(files) /\ DOMAIN files' = DOMAIN files
      /\ \A j \in DOMAIN files : files'[j] = IF j = i THEN new ELSE files[j]
  BY <1>1, <1>2, <1>3, UpdateFacts
<1> QED
  BY <1>4 DEF new

\* What goes on after a signal keeps the types, and the number of runs.
LEMMA ContinueType ==
    ASSUME TypeOK, Bounded, SignalsSound, NEW i \in DOMAIN files, NEW ok \in BOOLEAN, Continue(files[i], ok)
    PROVE  /\ runs' \in Seq(Run) /\ Len(runs') = Len(runs)
           /\ records' \in [Agent -> Record \cup {None}]
           /\ retry' \in Retry \cup {None}
           /\ clock' \in BOOLEAN
<1> DEFINE s == files[i]
           n == s.run
<1>1. /\ runs \in Seq(Run) /\ records \in [Agent -> Record \cup {None}]
      /\ \A m \in DOMAIN runs : runs[m] \in Run
  BY Shapes
<1>2. retry \in Retry \cup {None} /\ clock \in BOOLEAN
  BY DEF TypeOK, ReporterTypeOK
<1>3. CASE n = 0 /\ UNCHANGED <<runs, records, retry, clock>>
  BY <1>1, <1>2, <1>3
<1>4. CASE n \in DOMAIN runs /\ RetryOver(n, ok) /\ runs' = runs
  BY <1>1, <1>4, RetryOverFacts
<1>5. CASE /\ n \in DOMAIN runs
           /\ runs' = [runs EXCEPT ![n] = [runs[n] EXCEPT !.opening = "over"]]
           /\ UNCHANGED <<records, retry, clock>>
  <2>1. [runs[n] EXCEPT !.opening = "over"] \in Run
    BY <1>1, <1>5 DEF Run
  <2> HIDE DEF Run
  <2>2. runs' \in Seq(Run) /\ Len(runs') = Len(runs)
    BY <1>1, <1>5, <2>1, UpdateFacts
  <2> QED
    BY <1>1, <1>2, <1>5, <2>2
<1>6. CASE /\ n \in DOMAIN runs
           /\ runs' = [runs EXCEPT ![n] = [runs[n] EXCEPT !.closing = "over"]]
           /\ Completed(n)
  <2>1. [runs[n] EXCEPT !.closing = "over"] \in Run
    BY <1>1, <1>6 DEF Run
  <2> HIDE DEF Run
  <2>2. runs' \in Seq(Run) /\ Len(runs') = Len(runs)
    BY <1>1, <1>6, <2>1, UpdateFacts
  <2>3. /\ records' \in [Agent -> Record \cup {None}] /\ retry' = retry
        /\ clock' \in BOOLEAN
    BY <1>6, CompletedFacts
  <2> QED
    BY <1>2, <2>2, <2>3
<1> QED
  BY <1>3, <1>4, <1>5, <1>6, ContinueFacts

\* Claude's own turn goes on, as one of its kinds of step.
LEMMA TurnStepType ==
    ASSUME TypeOK, NEW event \in Parents, TurnStep(event)
    PROVE  parent' \in {"idle", "working", "asking", "stopped"}
  BY DEF TurnStep, Parents, TypeOK, ReporterTypeOK

\* The part of the types that is Claude's and the reporter's.
LEMMA ReporterStep ==
    ASSUME TypeOK, Bounded, SignalsSound, RetrySound, running, ReporterNext, HostIdle
    PROVE  ReporterTypeOK' /\ Bounded'
<1> USE DEF ReporterTypeOK, Bounded
<1>1. /\ ReporterTypeOK /\ clock \in BOOLEAN
      /\ runs \in Seq(Run) /\ files \in Seq(Signals) /\ Len(runs) \in Nat /\ DOMAIN runs = 1..Len(runs)
      /\ \A n \in DOMAIN runs : runs[n] \in Run
      /\ conv \in Nat \ {0} /\ told \in Nat /\ MaxEvents \in Nat /\ told \in 0..MaxEvents
  BY Shapes, ReporterAssumption DEF TypeOK
<1>2. \A n \in DOMAIN runs : n \in Runs
  BY RunsBounded
<1> HIDE DEF ReporterTypeOK
<1>3. ASSUME NEW a \in Agent, AgentStarts(a)
      PROVE  ReporterTypeOK' /\ Bounded'
  <2>1. /\ runs' \in Seq(Run) /\ Len(runs') = Len(runs) + 1
        /\ records' \in [Agent -> Record \cup {None}] /\ clock' \in BOOLEAN
        /\ files' \in Seq(Signals)
    BY <1>3, StartFacts, WriteFacts
  <2>2. UNCHANGED <<claude, identity, ready, env, lost, retry>> /\ Goes(2)
    BY <1>3 DEF AgentStarts
  <2>3. Goes(0)'
    BY <1>1, <2>1, <2>2 DEF Goes, claude
  <2> QED
    BY <1>1, <2>1, <2>2, <2>3 DEF ReporterTypeOK, claude
<1>4. ASSUME NEW a \in Agent, RetryFires(a)
      PROVE  ReporterTypeOK' /\ Bounded'
  <2>1. retry' = [run |-> records[a].run, step |-> "id"] /\ records[a] # None
    BY <1>4 DEF RetryFires, Kept
  <2>2. records[a] \in Record
    BY <2>1, Shapes
  <2>3. retry' \in Retry
    BY <2>1, <2>2 DEF Record, Retry
  <2>4. UNCHANGED <<claude, runs, identity, records, clock, ready, env, files, lost>>
    BY <1>4 DEF RetryFires
  <2> QED
    BY <1>1, <2>3, <2>4 DEF ReporterTypeOK, Goes, claude
<1>5. ASSUME NEW n \in DOMAIN runs, AgentCompletes(n)
      PROVE  ReporterTypeOK' /\ Bounded'
  <2> DEFINE g == GenerationOf(runs[n].agent)
             new == [[runs[n] EXCEPT !.closing = "next"] EXCEPT !.held = g]
  <2>1. runs[n].agent \in Agent
    BY <1>1 DEF Run
  <2>2. g \in 0..MaxEvents
    BY <1>1, <2>1, Shapes DEF GenerationOf, Record, Runs
  <2>3. new \in Run
    BY <1>1, <2>2 DEF Run
  <2>4. runs' = [runs EXCEPT ![n] = new]
    BY <1>5 DEF AgentCompletes
  <2> HIDE DEF Run, new
  <2>5. runs' \in Seq(Run) /\ Len(runs') = Len(runs)
    BY <1>1, <2>3, <2>4, UpdateFacts
  <2>6. UNCHANGED <<claude, reporter, files, lost>>
    BY <1>5 DEF AgentCompletes
  <2> QED
    BY <1>1, <2>5, <2>6 DEF ReporterTypeOK, Goes, claude, reporter
<1>6. ASSUME NEW n \in DOMAIN runs, CompletionConfirmed(n)
      PROVE  ReporterTypeOK' /\ Bounded'
  <2> DEFINE new == [runs[n] EXCEPT !.closing = "publishing"]
  <2>1. new \in Run
    BY <1>1 DEF Run
  <2>2. runs' = [runs EXCEPT ![n] = new]
    BY <1>6 DEF CompletionConfirmed
  <2>3. n \in 0..MaxEvents /\ runs[n].held \in 0..MaxEvents
    BY <1>1, <1>2 DEF Run, Runs
  <2>4. Signal("TurnComplete", n, runs[n].held, TRUE, FALSE) \in Signals
    BY <2>3, SignalTyped DEF Parents
  <2> HIDE DEF Run, new, Signals
  <2>5. runs' \in Seq(Run) /\ Len(runs') = Len(runs)
    BY <1>1, <2>1, <2>2, UpdateFacts
  <2>6. files' \in Seq(Signals)
    BY <1>6, <2>4, WriteFacts DEF CompletionConfirmed, Report
  <2>7. UNCHANGED <<claude, reporter, lost>>
    BY <1>6 DEF CompletionConfirmed
  <2> QED
    BY <1>1, <2>5, <2>6, <2>7 DEF ReporterTypeOK, Goes, claude, reporter
<1>7. ASSUME NEW n \in DOMAIN runs, AgentVanishes(n)
      PROVE  ReporterTypeOK' /\ Bounded'
  <2> DEFINE new == [runs[n] EXCEPT !.closing = "over"]
  <2>1. new \in Run
    BY <1>1 DEF Run
  <2>2. runs' = [runs EXCEPT ![n] = new]
    BY <1>7 DEF AgentVanishes
  <2> HIDE DEF Run, new
  <2>3. runs' \in Seq(Run) /\ Len(runs') = Len(runs)
    BY <1>1, <2>1, <2>2, UpdateFacts
  <2>4. UNCHANGED <<claude, reporter, files, lost>>
    BY <1>7 DEF AgentVanishes
  <2> QED
    BY <1>1, <2>3, <2>4 DEF ReporterTypeOK, Goes, claude, reporter
<1>8. ASSUME NEW i \in DOMAIN files, Loses(i)
      PROVE  ReporterTypeOK' /\ Bounded'
  <2>1. /\ lost < MaxLost /\ lost' = lost + 1 /\ files' = RemoveAt(files, i) /\ Continue(files[i], FALSE)
        /\ UNCHANGED <<claude, identity, ready, env>>
    BY <1>8 DEF Loses
  <2>2. /\ runs' \in Seq(Run) /\ Len(runs') = Len(runs)
        /\ records' \in [Agent -> Record \cup {None}] /\ retry' \in Retry \cup {None} /\ clock' \in BOOLEAN
    BY <2>1, ContinueType
  <2>3. files' \in Seq(Signals)
    BY <1>1, <2>1, RemoveAtFacts
  <2>4. lost' \in 0..MaxLost
    BY <1>1, <2>1, ReporterAssumption DEF ReporterTypeOK
  <2> QED
    BY <1>1, <2>1, <2>2, <2>3, <2>4 DEF ReporterTypeOK, Goes, claude
<1>9. ASSUME RetryIdentified
      PROVE  ReporterTypeOK' /\ Bounded'
  <2>1. retry \in Retry
    BY <1>9, Shapes DEF RetryIdentified
  <2>2. UNCHANGED <<claude, runs, ready, env, lost>>
    BY <1>9 DEF RetryIdentified
  <2>3. CASE Current(retry.run) /\ conv = identity
    <3>1. /\ Report("TurnComplete", retry.run, retry.run, TRUE)
          /\ retry' = [retry EXCEPT !.step = "publish"] /\ UNCHANGED <<identity, records, clock>>
      BY <1>9, <2>3 DEF RetryIdentified
    <3>2. retry' \in Retry
      BY <2>1, <3>1 DEF Retry
    <3>3. retry.run \in 0..MaxEvents
      BY <1>1, <2>1 DEF Retry, Runs
    <3>4. Signal("TurnComplete", retry.run, retry.run, TRUE, TRUE) \in Signals
      BY <3>3, SignalTyped DEF Parents
    <3>5. files' \in Seq(Signals)
      BY <3>1, <3>4, WriteFacts DEF Report
    <3> QED
      BY <1>1, <2>2, <3>1, <3>2, <3>5 DEF ReporterTypeOK, Goes, claude
  <2>4. CASE ~(Current(retry.run) /\ conv = identity) /\ Current(retry.run)
    <3>1. retry' = None /\ End /\ UNCHANGED files
      BY <1>9, <2>4 DEF RetryIdentified
    <3>2. records' = [a \in Agent |-> None] /\ identity' = 0 /\ clock' \in BOOLEAN
      BY <1>1, <3>1, EndFacts
    <3>3. records' \in [Agent -> Record \cup {None}]
      BY <3>2
    <3> QED
      BY <1>1, <2>2, <3>1, <3>2, <3>3 DEF ReporterTypeOK, Goes, claude
  <2>5. CASE ~Current(retry.run)
    <3>1. retry' = None /\ Schedule(records) /\ UNCHANGED <<identity, files>>
      BY <1>9, <2>5 DEF RetryIdentified
    <3>2. records' \in [Agent -> Record \cup {None}] /\ clock' \in BOOLEAN
      BY <1>1, <3>1, ScheduleFacts DEF ReporterTypeOK
    <3> QED
      BY <1>1, <2>2, <3>1, <3>2 DEF ReporterTypeOK, Goes, claude
  <2> QED
    BY <2>3, <2>4, <2>5
<1>14. ASSUME RetryUnidentified
       PROVE  ReporterTypeOK' /\ Bounded'
  <2>1. /\ retry \in Retry /\ RetryOver(retry.run, FALSE) /\ lost < MaxLost /\ lost' = lost + 1
        /\ UNCHANGED <<claude, runs, identity, ready, env, files>>
    BY <1>14, Shapes DEF RetryUnidentified
  <2>2. PICK n : n = retry.run
    OBVIOUS
  <2>3. n \in DOMAIN runs
    BY <1>14, <2>2 DEF RetrySound, RetryUnidentified
  <2>4. retry' = None /\ records' \in [Agent -> Record \cup {None}] /\ clock' \in BOOLEAN
    BY <2>1, <2>2, <2>3, RetryOverFacts
  <2>5. lost' \in 0..MaxLost
    BY <1>1, <2>1, ReporterAssumption DEF ReporterTypeOK
  <2> QED
    BY <1>1, <2>1, <2>4, <2>5 DEF ReporterTypeOK, Goes, claude
<1>10. ASSUME ConversationEnds
       PROVE  ReporterTypeOK' /\ Bounded'
  <2>1. /\ Goes(2) /\ conv' = conv + 1 /\ parent' = "idle" /\ Hook("SessionEnd")
        /\ UNCHANGED <<told, runs, retry, env, lost>>
    BY <1>10 DEF ConversationEnds
  <2>2. Signal("SessionEnd", 0, 0, env = conv, FALSE) \in Signals
    <3>1. 0 \in 0..MaxEvents /\ (env = conv) \in BOOLEAN /\ FALSE \in BOOLEAN
      BY <1>1
    <3>2. "SessionEnd" \in Parents \cup {"SubagentStart"}
      BY DEF Parents
    <3> HIDE DEF Signals
    <3> QED
      BY <3>1, <3>2, SignalTyped
  <2>3. files' \in Seq(Signals)
    BY <2>1, <2>2, WriteFacts DEF Hook
  <2>4. conv' \in Conversations /\ Goes(0)'
    BY <1>1, <2>1 DEF Goes, Conversations
  <2>5. ready' \in [step : {"idle", "announced", "write"}, id : Conversations \cup {0}]
    BY <1>10 DEF ConversationEnds
  <2>6. CASE End
    <3>1. records' = [a \in Agent |-> None] /\ identity' = 0 /\ clock' \in BOOLEAN
      BY <1>1, <2>6, EndFacts
    <3>2. records' \in [Agent -> Record \cup {None}]
      BY <3>1
    <3> QED
      BY <1>1, <2>1, <2>3, <2>4, <2>5, <3>1, <3>2 DEF ReporterTypeOK
  <2>7. CASE UNCHANGED <<identity, records, clock>>
    BY <1>1, <2>1, <2>3, <2>4, <2>5, <2>7 DEF ReporterTypeOK
  <2> QED
    BY <1>10, <2>6, <2>7 DEF ConversationEnds
<1>11. ASSUME ConversationStarts
       PROVE  ReporterTypeOK' /\ Bounded'
  <2>1. UNCHANGED <<claude, runs, retry, env, files>>
    BY <1>11 DEF ConversationStarts
  <2>2. CASE Activate(conv) /\ ready' = [step |-> "write", id |-> conv] /\ UNCHANGED lost
    <3>1. /\ identity' = conv /\ clock' \in BOOLEAN
          /\ records' \in {records, [a \in Agent |-> None]}
      BY <1>1, <2>2, ActivateFacts
    <3>2. records' \in [Agent -> Record \cup {None}]
      BY <1>1, <3>1 DEF ReporterTypeOK
    <3> QED
      BY <1>1, <2>1, <2>2, <3>1, <3>2 DEF ReporterTypeOK, Goes, claude
  <2>3. CASE /\ lost < MaxLost /\ lost' = lost + 1 /\ ready' = [step |-> "idle", id |-> 0]
             /\ UNCHANGED <<identity, records, clock>>
    <3>1. lost' \in 0..MaxLost
      BY <1>1, <2>3, ReporterAssumption DEF ReporterTypeOK
    <3> QED
      BY <1>1, <2>1, <2>3, <3>1 DEF ReporterTypeOK, Goes, claude
  <2> QED
    BY <1>11, <2>2, <2>3 DEF ConversationStarts
<1>12. ASSUME ReadyWritten
       PROVE  ReporterTypeOK' /\ Bounded'
  BY <1>1, <1>12 DEF ReadyWritten, ReporterTypeOK, Goes, claude
<1>13. ASSUME NEW event \in Parents, ParentTells(event)
       PROVE  ReporterTypeOK' /\ Bounded'
  <2>1. /\ Goes(1) /\ told' = told + 1 /\ TurnStep(event) /\ UNCHANGED <<conv, runs, reporter, lost>>
    BY <1>13 DEF ParentTells
  <2>2. parent' \in {"idle", "working", "asking", "stopped"}
    BY <2>1, TurnStepType
  <2>3. ASSUME NEW b \in BOOLEAN
        PROVE  Signal(event, 0, 0, b, FALSE) \in Signals
    <3>1. 0 \in 0..MaxEvents /\ FALSE \in BOOLEAN /\ event \in Parents \cup {"SubagentStart"}
      BY <1>1
    <3> QED
      BY <3>1, SignalTyped
  <2>4. \E b \in BOOLEAN : Write(Signal(event, 0, 0, b, FALSE))
    BY <1>13 DEF ParentTells, Report, Hook
  <2>5. files' \in Seq(Signals)
    BY <2>3, <2>4, WriteFacts
  <2>6. told' \in 0..MaxEvents /\ Goes(0)'
    BY <1>1, <2>1 DEF Goes
  <2> QED
    BY <1>1, <2>1, <2>2, <2>5, <2>6 DEF ReporterTypeOK, reporter
<1> QED
  BY <1>3, <1>4, <1>5, <1>6, <1>7, <1>8, <1>9, <1>10, <1>11, <1>12, <1>13, <1>14 DEF ReporterNext

\* A file appears: what waited for its writer goes on, also when the writer
\* missed its deadline.
LEMMA ShowsFacts ==
    ASSUME NEW i \in DOMAIN files, Shows(i)
    PROVE  /\ files[i].file = "writing" /\ files' = [files EXCEPT ![i].file = "shown"]
           /\ UNCHANGED <<conv, parent, told, identity, ready, env>>
           /\ lost' # lost => lost < MaxLost /\ lost' = lost + 1
           /\ \E ok \in BOOLEAN : /\ Continue(files[i], ok)
                                  /\ ok => lost' = lost
                                  /\ ~ok => lost < MaxLost /\ lost' = lost + 1
<1>1. UNCHANGED <<conv, parent, told, identity, ready, env>>
  BY DEF Shows, claude
<1>2. files[i].file = "writing" /\ files' = [files EXCEPT ![i] = [files[i] EXCEPT !.file = "shown"]]
  BY Zenon DEF Shows
<1>3. \/ Continue(files[i], TRUE) /\ UNCHANGED lost
      \/ lost < MaxLost /\ lost' = lost + 1 /\ Continue(files[i], FALSE)
  BY Zenon DEF Shows
<1>4. \E ok \in BOOLEAN : /\ Continue(files[i], ok)
                          /\ ok => lost' = lost
                          /\ ~ok => lost < MaxLost /\ lost' = lost + 1
  <2>1. CASE Continue(files[i], TRUE) /\ UNCHANGED lost
    BY <2>1
  <2>2. CASE lost < MaxLost /\ lost' = lost + 1 /\ Continue(files[i], FALSE)
    BY <2>2
  <2> QED
    BY <1>3, <2>1, <2>2
<1>5. lost' # lost => lost < MaxLost /\ lost' = lost + 1
  BY <1>3, Zenon
<1> QED
  BY <1>1, <1>2, <1>4, <1>5, Zenon

\* A processed signal leaves the panel and the processor in their types, and
\* the panel with what its parts say.
LEMMA ProcessType ==
    ASSUME TypeOK, Bounded, SignalsSound, AgentsSound, ActivityShown,
           NEW i \in DOMAIN files, Process(files[i]), running' = running
    PROVE  /\ agents' \in [Agent -> 0..MaxEvents \cup {None}]
           /\ stage' \in BOOLEAN /\ unread' \in BOOLEAN /\ warned' \in BOOLEAN
           /\ own' \in Activities \cup {None}
           /\ activity' \in Activities
           /\ count' \in Nat
           /\ ActivityShown'
<1> DEFINE s == files[i]
<1>1. /\ agents \in [Agent -> 0..MaxEvents \cup {None}] /\ stage \in BOOLEAN /\ unread \in BOOLEAN
      /\ own \in Activities \cup {None} /\ activity \in Activities /\ count \in Nat
  BY DEF TypeOK
<1>2. warned' \in BOOLEAN
  BY ProcessFacts
<1>3. CASE UNCHANGED <<stage, own, agents, activity, unread, count>>
  BY <1>1, <1>2, <1>3 DEF ActivityShown, Busy
<1>4. CASE s.run \in DOMAIN runs /\ AgentSignal(s)
  BY <1>1, <1>2, <1>4, AgentSignalFacts DEF ActivityShown
<1>5. CASE s.run = 0 /\ \E viewed, answered \in BOOLEAN : OwnSignal(s, viewed, answered)
  BY <1>1, <1>2, <1>5, OwnSignalFacts DEF ActivityShown
<1> QED
  BY <1>3, <1>4, <1>5, ProcessFacts

\* No step leaves the types or the bound.
LEMMA TypeStep ==
    ASSUME TypeOK, Bounded, SignalsSound, RetrySound, AgentsSound, ActivityShown, [Next]_vars
    PROVE  TypeOK' /\ Bounded'
<1> USE DEF Bounded
<1>1. /\ ReporterTypeOK
      /\ running \in BOOLEAN
      /\ activity \in Activities /\ unread \in BOOLEAN /\ count \in Nat
      /\ stage \in BOOLEAN /\ own \in Activities \cup {None}
      /\ agents \in [Agent -> 0..MaxEvents \cup {None}]
      /\ warned \in BOOLEAN /\ noticed \in BOOLEAN /\ stuck \in 0..MaxStuck
  BY DEF TypeOK
<1>2. /\ files \in Seq(Signals) /\ conv \in Nat \ {0} /\ Len(runs) \in Nat /\ told \in 0..MaxEvents
      /\ MaxEvents \in Nat /\ MaxStuck \in Nat
  BY Shapes, ReporterAssumption, WatcherAssumption DEF TypeOK, ReporterTypeOK
<1>3. CASE running /\ ReporterNext /\ HostIdle
  <2>1. ReporterTypeOK' /\ Bounded'
    BY <1>3, ReporterStep
  <2> QED
    BY <1>1, <1>3, <2>1 DEF TypeOK, HostIdle, session, processor, watcher
<1>4. CASE FileAppears
  <2>1. PICK i \in DOMAIN files : Shows(i)
    BY <1>4 DEF FileAppears
  <2>2. UNCHANGED <<conv, parent, told, identity, ready, env>>
    BY <2>1, ShowsFacts
  <2>8. PICK ok \in BOOLEAN : Continue(files[i], ok)
    BY <2>1, ShowsFacts, Zenon
  <2>3. files' \in Seq(Signals)
    BY <2>1, ShowsFacts, ShownFacts
  <2>4. /\ runs' \in Seq(Run) /\ Len(runs') = Len(runs)
        /\ records' \in [Agent -> Record \cup {None}] /\ retry' \in Retry \cup {None} /\ clock' \in BOOLEAN
    BY <2>8, ContinueType
  <2>5. lost' \in 0..MaxLost
    <3>1. lost' # lost => lost < MaxLost /\ lost' = lost + 1
      BY <2>1, ShowsFacts
    <3> QED
      BY <1>1, <3>1, ReporterAssumption DEF ReporterTypeOK
  <2>9. Bounded'
    BY <1>2, <2>2, <2>4 DEF Goes
  <2>6. ReporterTypeOK' /\ Bounded'
    BY <1>1, <2>2, <2>3, <2>4, <2>5, <2>9 DEF ReporterTypeOK
  <2>7. noticed' = TRUE /\ UNCHANGED <<session, processor, stuck>>
    BY <1>4 DEF FileAppears
  <2> QED
    BY <1>1, <2>6, <2>7 DEF TypeOK, session, processor
<1>5. CASE UserEnters
  <2>1. /\ Goes(1) /\ told' = told + 1 /\ parent' = IF parent = "asking" THEN "working" ELSE parent
        /\ stage' = FALSE /\ own' = "working" /\ activity' = "working" /\ unread' = FALSE
        /\ count' = Cardinality(Busy(agents))
        /\ UNCHANGED <<conv, runs, reporter, files, lost, running, agents, warned, watcher>>
    BY <1>5 DEF UserEnters
  <2>2. told' \in 0..MaxEvents /\ Goes(0)'
    BY <1>2, <2>1 DEF Goes
  <2>3. ReporterTypeOK'
    BY <1>1, <2>1, <2>2 DEF ReporterTypeOK, reporter
  <2>4. count' \in Nat
    <3>1. \A a \in Agent : agents[a] # None => \E n \in DOMAIN runs : runs[n].agent = a
      BY DEF AgentsSound
    <3> QED
      BY <2>1, <3>1, BusyFinite
  <2> QED
    BY <1>1, <2>1, <2>2, <2>3, <2>4 DEF TypeOK, Activities, watcher
<1>6. CASE SessionRemoved
  <2>1. agents' \in [Agent -> 0..MaxEvents \cup {None}]
    <3>1. agents' = agents \/ agents' = [a \in Agent |-> None]
      BY <1>6 DEF SessionRemoved
    <3> QED
      BY <1>1, <3>1
  <2>2. /\ running' = FALSE /\ stage' = FALSE /\ warned' = FALSE /\ own' = None
        /\ UNCHANGED <<reporterVars, activity, unread, count, watcher>>
    BY <1>6 DEF SessionRemoved
  <2>3. UNCHANGED <<conv, parent, told, runs, identity, records, retry, clock, ready, env, files, lost>>
    BY <2>2 DEF reporterVars, claude, reporter
  <2>4. ReporterTypeOK' /\ Bounded'
    BY <1>1, <2>3 DEF ReporterTypeOK, Goes
  <2>5. running' \in BOOLEAN /\ stage' \in BOOLEAN /\ warned' \in BOOLEAN
    BY <2>2
  <2>6. UNCHANGED <<activity, unread, count, noticed, stuck>>
    BY <2>2 DEF watcher
  <2> QED
    BY <1>1, <2>1, <2>2, <2>4, <2>5, <2>6 DEF TypeOK
<1>7. CASE Ingest
  <2>1. files' \in Seq(Signals)
    BY <1>7, MarkedFacts DEF Ingest
  <2>2. UNCHANGED <<claude, runs, reporter, lost, session, processor, stuck>>
    BY <1>7 DEF Ingest
  <2>3. noticed' \in BOOLEAN
    BY <1>7 DEF Ingest
  <2>4. UNCHANGED <<conv, parent, told, runs, identity, records, retry, clock, ready, env, lost>>
    BY <2>2 DEF claude, reporter
  <2>5. ReporterTypeOK' /\ Bounded'
    BY <1>1, <2>1, <2>4 DEF ReporterTypeOK, Goes
  <2> QED
    BY <1>1, <2>2, <2>3, <2>5 DEF TypeOK, session, processor
<1>8. CASE ProcessNext
  <2>1. PICK i \in Taken : Process(files[i]) /\ files' = RemoveAt(files, i)
    BY <1>8 DEF ProcessNext
  <2>2. UNCHANGED <<claude, runs, reporter, lost, running, watcher>> /\ i \in DOMAIN files
    BY <1>8, <2>1 DEF ProcessNext, Taken
  <2>3. files' \in Seq(Signals)
    BY <1>2, <2>1, <2>2, RemoveAtFacts
  <2>4. /\ agents' \in [Agent -> 0..MaxEvents \cup {None}]
        /\ stage' \in BOOLEAN /\ unread' \in BOOLEAN /\ warned' \in BOOLEAN
        /\ own' \in Activities \cup {None} /\ activity' \in Activities /\ count' \in Nat
    BY <2>1, <2>2, ProcessType
  <2> QED
    BY <1>1, <2>2, <2>3, <2>4 DEF TypeOK, ReporterTypeOK, Goes, claude, reporter, watcher
<1>9. CASE ProcessStuck
  <2>1. PICK i \in Taken : Process(files[i]) /\ files' = Marked(Taken, "shown")
    BY <1>9 DEF ProcessStuck
  <2>2. /\ UNCHANGED <<claude, runs, reporter, lost, running, noticed>> /\ i \in DOMAIN files
        /\ stuck < MaxStuck /\ stuck' = stuck + 1
    BY <1>9, <2>1 DEF ProcessStuck, Taken
  <2>3. files' \in Seq(Signals)
    BY <2>1, MarkedFacts
  <2>4. /\ agents' \in [Agent -> 0..MaxEvents \cup {None}]
        /\ stage' \in BOOLEAN /\ unread' \in BOOLEAN /\ warned' \in BOOLEAN
        /\ own' \in Activities \cup {None} /\ activity' \in Activities /\ count' \in Nat
    BY <2>1, <2>2, ProcessType
  <2>5. stuck' \in 0..MaxStuck
    BY <1>1, <1>2, <2>2
  <2> QED
    BY <1>1, <2>2, <2>3, <2>4, <2>5 DEF TypeOK, ReporterTypeOK, Goes, claude, reporter
<1>10. CASE UNCHANGED vars
  BY <1>1, <1>10 DEF TypeOK, ReporterTypeOK, Goes, vars, reporterVars, claude, reporter, session, processor, watcher
<1> QED
  BY <1>3, <1>4, <1>5, <1>6, <1>7, <1>8, <1>9, <1>10 DEF Next

----------------------------------------------------------------------------
(* Signals that stay: what a step that writes none does to the directory *)

\* The same signal, wherever its file is.
SameSignal(s, t) ==
    /\ s.event = t.event /\ s.run = t.run /\ s.gen = t.gen
    /\ s.conv = t.conv /\ s.ready = t.ready /\ s.again = t.again

\* All signals but the one at place k stay, in their order; what was taken
\* with another one is still taken with it.
Moved(k) ==
    /\ k \in Nat
    /\ \A j \in DOMAIN files' :
         /\ Before(k, j) \in DOMAIN files /\ Before(k, j) # k
         /\ SameSignal(files'[j], files[Before(k, j)])
         /\ files'[j].file = "writing" => files[Before(k, j)].file = "writing"
    /\ \A j \in DOMAIN files : j # k => \E m \in DOMAIN files' : Before(k, m) = j
    /\ \A i, j \in DOMAIN files' :
         /\ files[Before(k, i)].file # "writing"
         /\ files[Before(k, j)].file = "taken" => files[Before(k, i)].file = "taken"
         => (files'[j].file = "taken" => files'[i].file = "taken")

\* A place beyond the last: every signal stays.
LEMMA BeforeFacts ==
    ASSUME TypeOK
    PROVE  /\ Len(files) + 1 \in Nat /\ Len(files) + 1 \notin DOMAIN files
           /\ \A j \in DOMAIN files : Before(Len(files) + 1, j) = j
<1>1. DOMAIN files = 1..Len(files) /\ Len(files) \in Nat
  BY Shapes
<1> QED
  BY <1>1 DEF Before

\* Places keep their order.
LEMMA BeforeOrder ==
    ASSUME TypeOK, NEW k \in Nat, Moved(k), NEW i \in DOMAIN files', NEW j \in DOMAIN files',
           DOMAIN files' \subseteq Nat
    PROVE  /\ i < j => Before(k, i) < Before(k, j)
           /\ Before(k, i) = Before(k, j) => i = j
<1>1. i \in Nat /\ j \in Nat
  OBVIOUS
<1> QED
  BY <1>1 DEF Before

\* The signal at place k leaves the directory.
LEMMA RemovedMoves ==
    ASSUME TypeOK, NEW k \in DOMAIN files, files' = RemoveAt(files, k)
    PROVE  Moved(k)
<1>1. files \in Seq(Signals) /\ k \in Nat
  BY Shapes
<1>2. /\ \A j \in DOMAIN files' :
           Before(k, j) \in DOMAIN files /\ Before(k, j) # k /\ files'[j] = files[Before(k, j)]
      /\ \A j \in DOMAIN files : j # k => \E m \in DOMAIN files' : Before(k, m) = j
  <2> HIDE DEF Signals
  <2> QED
    BY <1>1, RemoveAtFacts
<1> QED
  BY <1>1, <1>2 DEF Moved, SameSignal

\* The files of some signals are moved on.
LEMMA MarkedMoves ==
    ASSUME TypeOK, NEW set, NEW mark \in {"shown", "taken"}, files' = Marked(set, mark),
           \A i \in set \cap DOMAIN files : files[i].file # "writing",
           mark = "shown" => set = Taken,
           mark = "taken" => Taken = {} /\ set = Shown
    PROVE  Moved(Len(files) + 1)
<1>1. /\ DOMAIN files' = DOMAIN files
      /\ \A i \in DOMAIN files :
           files'[i] = IF i \in set THEN [files[i] EXCEPT !.file = mark] ELSE files[i]
  BY MarkedFacts
<1>2. /\ Len(files) + 1 \in Nat
      /\ \A j \in DOMAIN files : Before(Len(files) + 1, j) = j
  BY BeforeFacts
<1>3. \A i \in DOMAIN files : files[i] \in Signals
  BY Shapes
<1>4. \A i \in DOMAIN files : SameSignal(files'[i], files[i])
  BY <1>1, <1>3 DEF SameSignal, Signals
<1>5. \A i \in DOMAIN files : files'[i].file = IF i \in set THEN mark ELSE files[i].file
  BY <1>1, <1>3 DEF Signals
<1>6. \A i \in DOMAIN files : files[i].file \in {"writing", "shown", "taken"}
  BY <1>3 DEF Signals
<1>7. \A i, j \in DOMAIN files :
        /\ files[i].file # "writing"
        /\ files[j].file = "taken" => files[i].file = "taken"
        => (files'[j].file = "taken" => files'[i].file = "taken")
  <2>1. CASE mark = "shown"
    BY <1>5, <2>1 DEF Taken
  <2>2. CASE mark = "taken"
    BY <1>5, <1>6, <2>2 DEF Taken, Shown
  <2> QED
    BY <2>1, <2>2
<1>8. \A i \in DOMAIN files : files'[i].file = "writing" => files[i].file = "writing"
  BY <1>5
<1> QED
  BY <1>1, <1>2, <1>4, <1>7, <1>8 DEF Moved

\* A file appears.
LEMMA ShownMoves ==
    ASSUME TypeOK, NEW i \in DOMAIN files, files' = [files EXCEPT ![i].file = "shown"],
           files[i].file = "writing"
    PROVE  Moved(Len(files) + 1)
<1>1. /\ DOMAIN files' = DOMAIN files
      /\ \A j \in DOMAIN files :
           files'[j] = IF j = i THEN [files[i] EXCEPT !.file = "shown"] ELSE files[j]
  BY ShownFacts
<1>2. /\ Len(files) + 1 \in Nat
      /\ \A j \in DOMAIN files : Before(Len(files) + 1, j) = j
  BY BeforeFacts
<1>3. \A j \in DOMAIN files : files[j] \in Signals
  BY Shapes
<1>4. \A j \in DOMAIN files : SameSignal(files'[j], files[j])
  BY <1>1, <1>3 DEF SameSignal, Signals
<1>5. \A j \in DOMAIN files : files'[j].file = IF j = i THEN "shown" ELSE files[j].file
  BY <1>1, <1>3 DEF Signals
<1> QED
  BY <1>1, <1>2, <1>4, <1>5 DEF Moved

\* Nothing happens in the directory.
LEMMA SameMoves ==
    ASSUME TypeOK, files' = files
    PROVE  Moved(Len(files) + 1)
BY BeforeFacts DEF Moved, SameSignal

\* The runs stay what they are, but for how far their handlers are.
SameRuns ==
    /\ DOMAIN runs' = DOMAIN runs
    /\ \A n \in DOMAIN runs :
         /\ runs'[n].agent = runs[n].agent /\ runs'[n].conv = runs[n].conv
         /\ runs'[n].owner = runs[n].owner

\* No handler goes on whose writer is still under way.
WritersAwaited ==
    /\ \A n \in DOMAIN runs :
         runs[n].closing \in {"publishing", "over"} => runs'[n].closing \in {"publishing", "over"}
    /\ \A j \in DOMAIN files' :
         LET s == files'[j]
             n == s.run
         IN  n \in DOMAIN runs /\ s.file = "writing" =>
               /\ s.event = "SubagentStart" => runs'[n].opening = runs[n].opening
               /\ s.event = "TurnComplete" /\ ~s.again => runs'[n].closing = runs[n].closing

\* What is said of runs is then said of the same ones.
LEMMA SameRunsFacts ==
    ASSUME SameRuns, conv' = conv
    PROVE  \A n \in DOMAIN runs : Newer(n)' = Newer(n) /\ (Carried(n)' <=> Carried(n))
BY DEF SameRuns, Newer, Carried

\* A step that writes no signal keeps what the signals say true.
LEMMA MovedSignals ==
    ASSUME TypeOK, SignalsSound, NEW k \in Nat, Moved(k), SameRuns, conv' = conv,
           WritersAwaited, DOMAIN files' \subseteq Nat
    PROVE  SignalsSound'
<1>1. ASSUME NEW j \in DOMAIN files'
      PROVE  SignalSound(files[j])'
  <2> DEFINE i == Before(k, j)
  <2>1. i \in DOMAIN files /\ SameSignal(files'[j], files[i])
        /\ (files'[j].file = "writing" => files[i].file = "writing")
    BY DEF Moved
  <2>2. SignalSound(files[i])
    BY <2>1 DEF SignalsSound
  <2>3. LET s == files'[j]
            n == s.run
        IN  n \in DOMAIN runs =>
              /\ runs[n].closing \in {"publishing", "over"} => runs'[n].closing \in {"publishing", "over"}
              /\ s.file = "writing" /\ s.event = "SubagentStart" => runs'[n].opening = runs[n].opening
              /\ s.file = "writing" /\ s.event = "TurnComplete" /\ ~s.again => runs'[n].closing = runs[n].closing
    BY DEF WritersAwaited
  <2>4. DOMAIN runs' = DOMAIN runs /\ \A n \in DOMAIN runs : runs'[n].conv = runs[n].conv
                                      /\ runs'[n].owner = runs[n].owner
    BY DEF SameRuns
  <2> HIDE DEF i
  <2> QED
    BY <2>1, <2>2, <2>3, <2>4 DEF SameSignal, SignalSound, Carried
<1>2. ASSUME NEW i \in DOMAIN files', NEW j \in DOMAIN files',
             files'[i].event = "TurnComplete", ~files'[i].again, files'[i].file = "writing",
             files'[j].event = "TurnComplete", ~files'[j].again, files'[j].file = "writing",
             files'[i].run = files'[j].run, files'[i].run # 0
      PROVE  i = j
  <2>1. /\ Before(k, i) \in DOMAIN files /\ Before(k, j) \in DOMAIN files
        /\ SameSignal(files'[i], files[Before(k, i)]) /\ SameSignal(files'[j], files[Before(k, j)])
        /\ files[Before(k, i)].file = "writing" /\ files[Before(k, j)].file = "writing"
    BY <1>2 DEF Moved
  <2>2. Before(k, i) = Before(k, j)
    BY <1>2, <2>1 DEF SignalsSound, SameSignal
  <2> QED
    BY <2>2, BeforeOrder
<1> QED
  BY <1>1, <1>2 DEF SignalsSound

\* ... and their order.
LEMMA MovedStarts ==
    ASSUME TypeOK, SignalsSound, StartsFirst, NEW k \in Nat, Moved(k), SameRuns, conv' = conv,
           DOMAIN files' \subseteq Nat
    PROVE  StartsFirst'
<1>1. ASSUME NEW i \in DOMAIN files', NEW j \in DOMAIN files', i < j, files'[j].event = "SubagentStart"
      PROVE  files'[i].run < files'[j].run
  <2>1. /\ Before(k, i) \in DOMAIN files /\ Before(k, j) \in DOMAIN files
        /\ SameSignal(files'[i], files[Before(k, i)]) /\ SameSignal(files'[j], files[Before(k, j)])
        /\ Before(k, i) < Before(k, j)
    BY <1>1, BeforeOrder DEF Moved
  <2> QED
    BY <1>1, <2>1 DEF StartsFirst, SameSignal
<1>2. ASSUME NEW i \in DOMAIN files', NEW j \in DOMAIN files', NEW n \in DOMAIN runs',
             IsStart(files[i], n)', Carried(n)',
             IsEnd(files[j], n)' \/ \E m \in Newer(n)' : IsStart(files[j], m)'
      PROVE  files'[i].file # "writing" /\ (files'[j].file = "taken" => files'[i].file = "taken")
  <2>1. /\ Before(k, i) \in DOMAIN files /\ Before(k, j) \in DOMAIN files
        /\ SameSignal(files'[i], files[Before(k, i)]) /\ SameSignal(files'[j], files[Before(k, j)])
        /\ files'[i].file = "writing" => files[Before(k, i)].file = "writing"
    BY DEF Moved
  <2>2. n \in DOMAIN runs /\ Carried(n) /\ Newer(n)' = Newer(n)
    BY <1>2, SameRunsFacts DEF SameRuns
  <2>3. IsStart(files[Before(k, i)], n)
    BY <1>2, <2>1 DEF IsStart, SameSignal
  <2>4. IsEnd(files[Before(k, j)], n) \/ \E m \in Newer(n) : IsStart(files[Before(k, j)], m)
    BY <1>2, <2>1, <2>2 DEF IsStart, IsEnd, SameSignal
  <2>5. /\ files[Before(k, i)].file # "writing"
        /\ files[Before(k, j)].file = "taken" => files[Before(k, i)].file = "taken"
    BY <2>1, <2>2, <2>3, <2>4 DEF StartsFirst
  <2>6. files'[j].file = "taken" => files'[i].file = "taken"
    BY <2>5 DEF Moved
  <2> QED
    BY <2>1, <2>5, <2>6
<1> QED
  BY <1>1, <1>2 DEF StartsFirst

\* ... and the retry to which one of them belongs.
LEMMA MovedRetry ==
    ASSUME TypeOK, RetrySound, NEW k \in Nat, Moved(k), DOMAIN files' \subseteq Nat
    PROVE  /\ \A j \in DOMAIN files' : files'[j].again /\ files'[j].file = "writing" =>
                /\ files[Before(k, j)].again /\ files[Before(k, j)].file = "writing"
                /\ Before(k, j) \in DOMAIN files
                /\ retry = [run |-> files'[j].run, step |-> "publish"]
           /\ \A i, j \in DOMAIN files' :
                /\ files'[i].again /\ files'[i].file = "writing"
                /\ files'[j].again /\ files'[j].file = "writing"
                => i = j
<1>1. ASSUME NEW j \in DOMAIN files', files'[j].again, files'[j].file = "writing"
      PROVE  /\ files[Before(k, j)].again /\ files[Before(k, j)].file = "writing"
             /\ Before(k, j) \in DOMAIN files /\ SameSignal(files'[j], files[Before(k, j)])
  BY <1>1 DEF Moved, SameSignal
<1>2. ASSUME NEW j \in DOMAIN files', files'[j].again, files'[j].file = "writing"
      PROVE  retry = [run |-> files'[j].run, step |-> "publish"]
  <2>1. retry = [run |-> files[Before(k, j)].run, step |-> "publish"]
    BY <1>1, <1>2 DEF RetrySound
  <2>2. files'[j].run = files[Before(k, j)].run
    BY <1>1, <1>2 DEF SameSignal
  <2> QED
    BY <2>1, <2>2
<1>3. ASSUME NEW i \in DOMAIN files', NEW j \in DOMAIN files',
             files'[i].again, files'[i].file = "writing", files'[j].again, files'[j].file = "writing"
      PROVE  i = j
  <2>1. Before(k, i) = Before(k, j)
    BY <1>1, <1>3 DEF RetrySound
  <2> QED
    BY <2>1, BeforeOrder
<1> QED
  BY <1>1, <1>2, <1>3

----------------------------------------------------------------------------
(* A signal that is written *)

\* The runs so far stay, and what their writers under way wait for.
RunsExtend ==
    /\ DOMAIN runs \subseteq DOMAIN runs'
    /\ \A n \in DOMAIN runs :
         /\ runs'[n].agent = runs[n].agent /\ runs'[n].conv = runs[n].conv
         /\ runs'[n].owner = runs[n].owner /\ runs'[n].opening = runs[n].opening
         /\ runs[n].closing \in {"publishing", "over"} => runs'[n].closing = runs[n].closing
         /\ Carried(n)' => Carried(n)

\* It is true of its run, as the signals before it stay.
LEMMA AppendedSignals ==
    ASSUME TypeOK, SignalsSound, NEW s \in Signals, Write(s), RunsExtend,
           conv' \in Nat, conv <= conv',
           SignalSound(s)',
           s.event = "TurnComplete" /\ ~s.again /\ s.run # 0 =>
               s.run \in DOMAIN runs /\ runs[s.run].closing # "publishing"
    PROVE  SignalsSound'
<1>0. /\ files \in Seq(Signals) /\ DOMAIN files = 1..Len(files) /\ Len(files) \in Nat
      /\ \A i \in DOMAIN files : files[i] \in Signals
      /\ conv \in Nat
  BY Shapes
<1>1. /\ DOMAIN files' = DOMAIN files \cup {Len(files) + 1}
      /\ \A i \in DOMAIN files : files'[i] = files[i]
      /\ files'[Len(files) + 1] = s
  BY WriteFacts
<1>2. ASSUME NEW j \in DOMAIN files'
      PROVE  SignalSound(files[j])'
  <2>1. CASE j \in DOMAIN files
    <3>1. SignalSound(files[j]) /\ files'[j] = files[j]
      BY <1>1, <2>1 DEF SignalsSound
    <3>2. files[j].conv \in Nat
      BY <1>0, <2>1 DEF Signals, Conversations
    <3> QED
      BY <1>0, <3>1, <3>2 DEF SignalSound, RunsExtend
  <2>2. CASE j = Len(files) + 1
    BY <1>1, <2>2 DEF SignalSound, Carried
  <2> QED
    BY <1>1, <2>1, <2>2
<1>3. ASSUME NEW i \in DOMAIN files',
             files'[i].event = "TurnComplete", ~files'[i].again, files'[i].file = "writing",
             files'[i].run = s.run, s.event = "TurnComplete", ~s.again, s.run # 0
      PROVE  i = Len(files) + 1
  <2>1. CASE i \in DOMAIN files
    <3>1. SignalSound(files[i]) /\ files'[i] = files[i]
      BY <1>1, <2>1 DEF SignalsSound
    <3>2. runs[s.run].closing = "publishing"
      BY <1>3, <3>1 DEF SignalSound
    <3> QED
      BY <1>3, <3>2
  <2> QED
    BY <1>1, <2>1
<1>4. ASSUME NEW i \in DOMAIN files', NEW j \in DOMAIN files',
             files'[i].event = "TurnComplete", ~files'[i].again, files'[i].file = "writing",
             files'[j].event = "TurnComplete", ~files'[j].again, files'[j].file = "writing",
             files'[i].run = files'[j].run, files'[i].run # 0
      PROVE  i = j
  <2>1. CASE i \in DOMAIN files /\ j \in DOMAIN files
    BY <1>1, <1>4, <2>1 DEF SignalsSound
  <2>2. CASE i = Len(files) + 1
    <3>1. j = Len(files) + 1
      BY <1>1, <1>3, <1>4, <2>2
    <3> QED
      BY <2>2, <3>1
  <2>3. CASE j = Len(files) + 1
    <3>1. i = Len(files) + 1
      BY <1>1, <1>3, <1>4, <2>3
    <3> QED
      BY <2>3, <3>1
  <2> QED
    BY <1>1, <2>1, <2>2, <2>3
<1> QED
  BY <1>2, <1>4 DEF SignalsSound

\* A start is stamped after all signals of the runs before it, and an end after
\* its start has appeared.
LEMMA AppendedStarts ==
    ASSUME TypeOK, SignalsSound, StartsFirst, NEW s \in Signals, Write(s), RunsExtend,
           s.file = "writing",
           s.event = "SubagentStart" => s.run \in Nat \ {0} /\ \A m \in DOMAIN runs : m < s.run,
           \A i \in DOMAIN files, n \in DOMAIN runs :
               /\ IsStart(files[i], n) /\ Carried(n)
               /\ IsEnd(s, n) \/ (s.event = "SubagentStart" /\ runs'[s.run].agent = runs[n].agent)
               => files[i].file # "writing"
    PROVE  StartsFirst'
<1>0. /\ files \in Seq(Signals) /\ DOMAIN files = 1..Len(files) /\ Len(files) \in Nat
      /\ DOMAIN runs = 1..Len(runs) /\ Len(runs) \in Nat
  BY Shapes
<1>1. /\ DOMAIN files' = DOMAIN files \cup {Len(files) + 1}
      /\ \A i \in DOMAIN files : files'[i] = files[i]
      /\ files'[Len(files) + 1] = s
  BY WriteFacts
<1>2. \A i \in DOMAIN files : /\ files[i].run \in DOMAIN runs \cup {0}
                              /\ files[i].event = "SubagentStart" => files[i].run # 0
  BY DEF SignalsSound, SignalSound
<1>3. ASSUME NEW i \in DOMAIN files', NEW j \in DOMAIN files', i < j, files'[j].event = "SubagentStart"
      PROVE  files'[i].run < files'[j].run
  <2>1. CASE j \in DOMAIN files
    <3>1. i \in DOMAIN files
      BY <1>0, <1>1, <1>3, <2>1
    <3> QED
      BY <1>1, <1>3, <2>1, <3>1 DEF StartsFirst
  <2>2. CASE j = Len(files) + 1
    <3>1. i \in DOMAIN files
      BY <1>0, <1>1, <1>3, <2>2
    <3>2. files'[i].run \in DOMAIN runs \cup {0} /\ files'[j] = s
      BY <1>1, <1>2, <2>2, <3>1
    <3> QED
      BY <1>3, <3>2
  <2> QED
    BY <1>1, <2>1, <2>2
<1>4. ASSUME NEW i \in DOMAIN files', NEW j \in DOMAIN files', NEW n \in DOMAIN runs',
             IsStart(files[i], n)', Carried(n)',
             IsEnd(files[j], n)' \/ \E m \in Newer(n)' : IsStart(files[j], m)'
      PROVE  files'[i].file # "writing" /\ (files'[j].file = "taken" => files'[i].file = "taken")
  <2>1. CASE i \in DOMAIN files /\ j \in DOMAIN files
    <3>1. files'[i] = files[i] /\ files'[j] = files[j]
      BY <1>1, <2>1
    <3>2. IsStart(files[i], n) /\ n \in DOMAIN runs /\ Carried(n)
      <4>1. IsStart(files[i], n)
        BY <1>4, <3>1 DEF IsStart
      <4>2. n \in DOMAIN runs
        BY <1>2, <2>1, <4>1 DEF IsStart
      <4> QED
        BY <1>4, <4>1, <4>2 DEF RunsExtend
    <3>3. IsEnd(files[j], n) \/ \E m \in Newer(n) : IsStart(files[j], m)
      <4>1. CASE IsEnd(files[j], n)'
        BY <3>1, <4>1 DEF IsEnd
      <4>2. CASE \E m \in Newer(n)' : IsStart(files[j], m)'
        <5>1. PICK m \in Newer(n)' : IsStart(files[j], m)'
          BY <4>2
        <5>2. IsStart(files[j], m)
          BY <3>1, <5>1 DEF IsStart
        <5>3. m \in DOMAIN runs
          BY <1>2, <2>1, <5>2 DEF IsStart
        <5>4. m \in Newer(n)
          BY <3>2, <5>1, <5>3 DEF Newer, RunsExtend
        <5> QED
          BY <5>2, <5>4
      <4> QED
        BY <1>4, <4>1, <4>2
    <3>4. files[i].file # "writing" /\ (files[j].file = "taken" => files[i].file = "taken")
      BY <2>1, <3>2, <3>3 DEF StartsFirst
    <3> QED
      BY <3>1, <3>4
  <2>2. CASE i = Len(files) + 1
    <3>1. s.event = "SubagentStart" /\ s.run = n
      BY <1>1, <1>4, <2>2 DEF IsStart
    <3>2. n \notin DOMAIN runs /\ n \in Nat /\ \A m \in DOMAIN runs : m < n
      BY <1>0, <3>1
    <3>3. j \notin DOMAIN files
      <4>1. SUFFICES ASSUME j \in DOMAIN files PROVE FALSE
        OBVIOUS
      <4>2. files'[j] = files[j] /\ files[j].run \in DOMAIN runs \cup {0}
        BY <1>1, <1>2, <4>1
      <4>3. CASE IsEnd(files[j], n)'
        BY <3>1, <3>2, <4>2, <4>3 DEF IsEnd
      <4>4. CASE \E m \in Newer(n)' : IsStart(files[j], m)'
        BY <1>0, <3>1, <3>2, <4>2, <4>4 DEF IsStart, Newer
      <4> QED
        BY <1>4, <4>3, <4>4
    <3>4. files'[j] = s
      BY <1>1, <3>3
    <3>5. CASE IsEnd(files[j], n)'
      BY <3>1, <3>4, <3>5 DEF IsEnd
    <3>6. CASE \E m \in Newer(n)' : IsStart(files[j], m)'
      BY <3>1, <3>2, <3>4, <3>6 DEF IsStart, Newer
    <3> QED
      BY <1>4, <3>5, <3>6
  <2>3. CASE i \in DOMAIN files /\ j = Len(files) + 1
    <3>1. files'[i] = files[i] /\ files'[j] = s
      BY <1>1, <2>3
    <3>2. IsStart(files[i], n) /\ n \in DOMAIN runs /\ Carried(n)
      <4>1. IsStart(files[i], n)
        BY <1>4, <3>1 DEF IsStart
      <4>2. n \in DOMAIN runs
        BY <1>2, <2>3, <4>1 DEF IsStart
      <4> QED
        BY <1>4, <4>1, <4>2 DEF RunsExtend
    <3>3. IsEnd(s, n) \/ (s.event = "SubagentStart" /\ runs'[s.run].agent = runs[n].agent)
      <4>1. CASE IsEnd(files[j], n)'
        BY <3>1, <4>1 DEF IsEnd
      <4>2. CASE \E m \in Newer(n)' : IsStart(files[j], m)'
        BY <3>1, <3>2, <4>2 DEF IsStart, Newer, RunsExtend
      <4> QED
        BY <1>4, <4>1, <4>2
    <3> QED
      BY <2>3, <3>1, <3>2, <3>3
  <2> QED
    BY <1>1, <2>1, <2>2, <2>3
<1> QED
  BY <1>3, <1>4 DEF StartsFirst

----------------------------------------------------------------------------
(* The reporter's state and its signals: every step *)

Reports == RunsSound /\ RecordsSound /\ RetrySound /\ SignalsSound /\ StartsFirst

\* A step that only moves files on.
LEMMA QuietReports ==
    ASSUME TypeOK, TypeOK', Reports, NEW k \in Nat, Moved(k),
           UNCHANGED <<conv, runs, identity, records, retry, clock, lost>>
    PROVE  Reports'
<1>1. DOMAIN files' \subseteq Nat
  <2>1. files' \in Seq(Signals)
    BY DEF TypeOK, ReporterTypeOK
  <2> HIDE DEF Signals
  <2> QED
    BY <2>1
<1>2. SameRuns /\ WritersAwaited
  BY DEF SameRuns, WritersAwaited
<1>3. SignalsSound' /\ StartsFirst'
  BY <1>1, <1>2, MovedSignals, MovedStarts DEF Reports
<1>4. RunsSound' /\ RecordsSound'
  BY DEF Reports, RunsSound, RecordsSound, Newer, Carried
<1>5. retry # None =>
        LET n == retry.run IN
        /\ n \in DOMAIN runs /\ runs[n].closing = "over"
        /\ clock /\ Carried(n) /\ Newer(n) = {} => IsKept(n)
  BY DEF Reports, RetrySound
<1>6. (retry # None =>
        LET n == retry.run IN
        /\ n \in DOMAIN runs /\ runs[n].closing = "over"
        /\ clock /\ Carried(n) /\ Newer(n) = {} => IsKept(n))'
  BY <1>5 DEF Newer, Carried, IsKept
<1>7. RetrySound'
  BY <1>1, <1>6, MovedRetry DEF Reports, RetrySound
<1> QED
  BY <1>3, <1>4, <1>7 DEF Reports

\* A step that writes a signal of no run.
LEMMA HookReports ==
    ASSUME TypeOK, TypeOK', Reports, NEW s \in Signals, Write(s),
           s.run = 0, ~s.again, s.event # "SubagentStart", s.file = "writing",
           UNCHANGED <<conv, runs, identity, records, retry, clock, lost>>
    PROVE  Reports'
<1>0. conv \in Nat /\ DOMAIN runs = 1..Len(runs) /\ Len(runs) \in Nat
  BY Shapes
<1>1. RunsExtend /\ conv' \in Nat /\ conv <= conv'
  BY <1>0 DEF RunsExtend, Carried
<1>2. SignalSound(s)'
  BY DEF SignalSound
<1>3. SignalsSound'
  BY <1>1, <1>2, AppendedSignals DEF Reports
<1>4. \A n \in DOMAIN runs : ~IsEnd(s, n)
  BY <1>0 DEF IsEnd
<1>5. StartsFirst'
  BY <1>1, <1>4, AppendedStarts DEF Reports
<1>6. RunsSound' /\ RecordsSound'
  BY DEF Reports, RunsSound, RecordsSound, Newer, Carried
<1>7. /\ DOMAIN files' = DOMAIN files \cup {Len(files) + 1}
      /\ \A i \in DOMAIN files : files'[i] = files[i]
      /\ files'[Len(files) + 1] = s
  BY WriteFacts
<1>8. RetrySound'
  <2>1. RetrySound
    BY DEF Reports
  <2> QED
    BY <1>7, <2>1 DEF RetrySound, Newer, Carried, IsKept
<1> QED
  BY <1>3, <1>5, <1>6, <1>8 DEF Reports

\* A signal of no retry leaves the retry in flight as it is.
LEMMA AppendedRetry ==
    ASSUME TypeOK, RetrySound, NEW s \in Signals, Write(s), ~s.again
    PROVE  /\ \A i \in DOMAIN files' : files'[i].again /\ files'[i].file = "writing" =>
                /\ i \in DOMAIN files /\ files[i].again /\ files[i].file = "writing"
                /\ retry = [run |-> files'[i].run, step |-> "publish"]
           /\ \A i, j \in DOMAIN files' :
                /\ files'[i].again /\ files'[i].file = "writing"
                /\ files'[j].again /\ files'[j].file = "writing"
                => i = j
<1>1. /\ DOMAIN files' = DOMAIN files \cup {Len(files) + 1}
      /\ \A i \in DOMAIN files : files'[i] = files[i]
      /\ files'[Len(files) + 1] = s
  BY WriteFacts
<1>2. \A i \in DOMAIN files' : files'[i].again => i \in DOMAIN files
  BY <1>1
<1> QED
  BY <1>1, <1>2 DEF RetrySound

\* An agent starts.
LEMMA StartReports ==
    ASSUME TypeOK, Reports, NEW a \in Agent, AgentStarts(a)
    PROVE  Reports'
<1>n. PICK n \in Nat : n = Len(runs) + 1
  BY Shapes
<1>0. /\ DOMAIN runs = 1..Len(runs) /\ Len(runs) \in Nat /\ conv \in Nat \ {0} /\ identity \in Nat /\ lost \in Nat
      /\ n \in Nat \ {0}
      /\ \A m \in DOMAIN runs : runs[m] \in Run
      /\ records \in [Agent -> Record \cup {None}]
  BY <1>n, Shapes
<1>1. PICK s \in Signals :
        /\ s = Signal("SubagentStart", n, IF Versioned(a) THEN n ELSE 0, TRUE, FALSE)
        /\ Write(s)
  BY <1>n, StartFacts
<1>2. /\ s.event = "SubagentStart" /\ s.run = n /\ s.gen = (IF Versioned(a) THEN n ELSE 0)
      /\ s.conv = conv /\ s.ready /\ ~s.again /\ s.file = "writing"
  BY <1>1 DEF Signal
<1>3. /\ DOMAIN runs' = DOMAIN runs \cup {n} /\ n \notin DOMAIN runs
      /\ \A m \in DOMAIN runs : runs'[m] = runs[m] /\ m < n
      /\ runs'[n] = Begun(a)
  BY <1>n, StartFacts
<1>4. /\ runs'[n].agent = a /\ runs'[n].conv = conv /\ runs'[n].held = 0
      /\ runs'[n].owner = (IF Versioned(a) THEN identity ELSE 0)
      /\ runs'[n].opening = "publishing" /\ runs'[n].closing = "running"
  BY <1>3 DEF Begun
<1>5. \A b \in Agent \ {a} : /\ records'[b] # None => records'[b] = records[b]
                             /\ clock' => records'[b] = records[b]
                             /\ records[b] # None /\ ~records[b].kept => records'[b] = records[b]
  BY <1>n, StartFacts
<1>6. records'[a] = IF Versioned(a) THEN [run |-> n, kept |-> FALSE, attempts |-> 0] ELSE None
  BY <1>n, StartFacts DEF Opened
<1>7. UNCHANGED <<conv, identity, lost, retry>>
  BY DEF AgentStarts, claude
<1>8. \A m \in DOMAIN runs : runs[m].agent = a => runs[m].closing # "running"
  BY DEF AgentStarts
<1>9. clock' => clock
  BY <1>n, StartFacts
<1>10. Versioned(a) => identity # 0
  BY DEF Versioned
<1>11. \A m \in DOMAIN runs : /\ runs[m].agent # a => Newer(m)' = Newer(m)
                              /\ runs[m].agent = a => Newer(m)' = Newer(m) \cup {n}
                              /\ Carried(m)' <=> Carried(m)
  BY <1>3, <1>4, <1>7 DEF Newer, Carried
<1>12. Newer(n)' = {}
  BY <1>0, <1>3 DEF Newer
<1>13. Carried(n)' => Versioned(a) /\ identity = conv
  BY <1>0, <1>4, <1>7 DEF Carried
<1>14. RunsSound'
  <2>1. ASSUME NEW m \in DOMAIN runs'
        PROVE  /\ runs'[m].owner <= runs'[m].conv /\ runs'[m].conv <= conv'
               /\ runs'[m].held \in {0, m}
               /\ runs'[m].closing = "running" => Newer(m)' = {}
               /\ Carried(m)' => identity' = conv'
               /\ Carried(m)' /\ runs'[m].closing # "running" => runs'[m].opening = "over" /\ runs'[m].held = m
    <3>1. CASE m \in DOMAIN runs
      BY <1>3, <1>7, <1>8, <1>11, <3>1 DEF Reports, RunsSound
    <3>2. CASE m = n
      BY <1>0, <1>4, <1>7, <1>12, <1>13, <3>2 DEF Reports, RunsSound
    <3> QED
      BY <1>3, <3>1, <3>2
  <2> QED
    BY <1>7, <2>1 DEF Reports, RunsSound
<1>15. RecordsSound'
  <2>1. ASSUME NEW b \in Agent, records'[b] # None, NEW m, m = records'[b].run
        PROVE  /\ m \in DOMAIN runs' /\ runs'[m].agent = b /\ Newer(m)' = {}
               /\ identity' # 0 /\ runs'[m].owner = identity'
               /\ records'[b].attempts <= lost'
               /\ records'[b].kept => runs'[m].closing = "over"
    <3>1. CASE b = a
      BY <1>0, <1>3, <1>4, <1>6, <1>7, <1>10, <1>12, <2>1, <3>1
    <3>2. CASE b # a
      BY <1>3, <1>5, <1>7, <1>11, <2>1, <3>2 DEF Reports, RecordsSound
    <3> QED
      BY <3>1, <3>2
  <2>2. ASSUME NEW m \in DOMAIN runs', Carried(m)', Newer(m)' = {}, runs'[m].closing # "over"
        PROVE  LET r == records'[runs'[m].agent] IN r # None /\ r.run = m /\ ~r.kept
    <3>1. CASE m = n
      <4>1. records'[a] = [run |-> n, kept |-> FALSE, attempts |-> 0]
        BY <1>6, <1>13, <2>2, <3>1
      <4>2. records'[a] # None
        <5>1. n \in Runs
          BY <1>n, StartFacts
        <5>2. records'[a] \in Record
          BY <4>1, <5>1 DEF Record
        <5> QED
          BY <5>2, NoneIsNoRecord
      <4> QED
        BY <1>4, <3>1, <4>1, <4>2
    <3>2. CASE m \in DOMAIN runs
      <4>1. runs[m].agent # a /\ Newer(m) = {} /\ Carried(m) /\ runs'[m] = runs[m]
        BY <1>3, <1>11, <2>2, <3>2
      <4>2. runs[m].agent \in Agent
        BY <1>0, <3>2 DEF Run
      <4>3. LET r == records[runs[m].agent] IN r # None /\ r.run = m /\ ~r.kept
        BY <2>2, <3>2, <4>1 DEF Reports, RecordsSound
      <4> QED
        BY <1>5, <4>1, <4>2, <4>3
    <3> QED
      BY <1>3, <2>2, <3>1, <3>2
  <2> QED
    BY <2>1, <2>2 DEF RecordsSound, Newer, Carried
<1>16. RunsExtend
  BY <1>3, <1>11 DEF RunsExtend
<1>17. SignalsSound'
  <2>1. SignalSound(s)'
    BY <1>0, <1>2, <1>3, <1>4, <1>7, <1>10 DEF SignalSound
  <2>2. conv' \in Nat /\ conv <= conv' /\ s.event # "TurnComplete"
    BY <1>0, <1>2, <1>7
  <2> QED
    BY <1>1, <1>16, <2>1, <2>2, AppendedSignals DEF Reports
<1>18. StartsFirst'
  <2>1. ASSUME NEW i \in DOMAIN files, NEW m \in DOMAIN runs, IsStart(files[i], m), Carried(m),
               IsEnd(s, m) \/ (s.event = "SubagentStart" /\ runs'[s.run].agent = runs[m].agent)
        PROVE  files[i].file # "writing"
    <3>1. runs[m].agent = a
      BY <1>2, <1>4, <2>1 DEF IsEnd
    <3>2. runs[m].opening = "over"
      BY <1>8, <2>1, <3>1 DEF Reports, RunsSound
    <3>3. SignalSound(files[i])
      BY DEF Reports, SignalsSound
    <3>4. m # 0
      BY <1>0
    <3> QED
      BY <2>1, <3>2, <3>3, <3>4 DEF SignalSound, IsStart
  <2> QED
    BY <1>0, <1>1, <1>2, <1>3, <1>16, <2>1, AppendedStarts DEF Reports
<1>19. RetrySound'
  <2>1. ASSUME retry' # None, NEW m, m = retry'.run
        PROVE  /\ m \in DOMAIN runs' /\ runs'[m].closing = "over"
               /\ clock' /\ Carried(m)' /\ Newer(m)' = {} => IsKept(m)'
    <3>1. retry' = retry /\ m \in DOMAIN runs /\ runs[m].closing = "over"
          /\ (clock /\ Carried(m) /\ Newer(m) = {} => IsKept(m))
      BY <2>1, <1>7, <2>1 DEF Reports, RetrySound
    <3>2. m \in DOMAIN runs' /\ runs'[m] = runs[m]
      BY <1>3, <3>1
    <3>3. ASSUME clock', Carried(m)', Newer(m)' = {}
          PROVE  IsKept(m)'
      <4>1. runs[m].agent # a /\ Newer(m) = {} /\ Carried(m) /\ runs[m].agent \in Agent
        BY <1>0, <1>11, <3>1, <3>3 DEF Run
      <4>2. IsKept(m)
        BY <1>9, <3>1, <3>3, <4>1
      <4>3. records'[runs[m].agent] = records[runs[m].agent]
        BY <1>5, <3>3, <4>1
      <4> QED
        BY <3>2, <4>2, <4>3 DEF IsKept
    <3> QED
      BY <3>1, <3>2, <3>3
  <2> QED
    BY <1>1, <1>2, <1>7, <2>1, AppendedRetry DEF Reports, RetrySound, Newer, Carried, IsKept
<1> QED
  BY <1>14, <1>15, <1>17, <1>18, <1>19 DEF Reports

\* The timer of a kept record fires: a retry of a run that is over.
LEMMA FiresReports ==
    ASSUME TypeOK, Reports, NEW a \in Agent, RetryFires(a)
    PROVE  Reports'
<1>1. /\ retry = None /\ clock /\ records[a] # None /\ records[a].kept
      /\ retry' = [run |-> records[a].run, step |-> "id"]
      /\ UNCHANGED <<conv, runs, identity, records, clock, files, lost>>
  BY DEF RetryFires, Kept, claude
<1>2. RunsSound' /\ RecordsSound' /\ SignalsSound' /\ StartsFirst'
  BY <1>1 DEF Reports, RunsSound, RecordsSound, SignalsSound, SignalSound, StartsFirst,
              Newer, Carried, IsStart, IsEnd
<1>3. \A i \in DOMAIN files : ~(files[i].again /\ files[i].file = "writing")
  <2>1. SUFFICES ASSUME NEW i \in DOMAIN files, files[i].again, files[i].file = "writing" PROVE FALSE
    OBVIOUS
  <2>2. retry = [run |-> files[i].run, step |-> "publish"]
    BY <2>1 DEF Reports, RetrySound
  <2>3. files[i].run \in DOMAIN runs
    BY <2>1 DEF Reports, SignalsSound, SignalSound
  <2>4. [run |-> files[i].run, step |-> "publish"] \in Retry
    <3>1. files[i].run \in Runs
      <4>1. files[i] \in Signals /\ files[i].run # 0 /\ MaxEvents \in Nat
        BY <2>3, Shapes, ReporterAssumption
      <4> QED
        BY <4>1 DEF Signals, Runs
    <3> QED
      BY <3>1 DEF Retry
  <2> QED
    BY <1>1, <2>2, <2>4, NoneIsNoRecord
<1>4. RetrySound'
  <2>1. ASSUME NEW m, m = retry'.run
        PROVE  /\ m \in DOMAIN runs' /\ runs'[m].closing = "over"
               /\ clock' /\ Carried(m)' /\ Newer(m)' = {} => IsKept(m)'
    <3>1. m = records[a].run
      BY <1>1, <2>1
    <3>2. m \in DOMAIN runs /\ runs[m].closing = "over" /\ runs[m].agent = a
      BY <1>1, <3>1 DEF Reports, RecordsSound
    <3>3. IsKept(m)'
      BY <1>1, <3>1, <3>2 DEF IsKept
    <3> QED
      BY <1>1, <3>2, <3>3
  <2> QED
    BY <1>1, <1>3, <2>1 DEF RetrySound, Newer, Carried, IsKept
<1> QED
  BY <1>2, <1>4 DEF Reports

\* The handlers of the end of run n go on: nothing changes for the other runs,
\* and its record, if it is over, is that of a run that is over.
LEMMA ClosingReports ==
    ASSUME TypeOK, TypeOK', RunsSound, RecordsSound, RetrySound, NEW n \in DOMAIN runs,
           SameRuns, UNCHANGED <<conv, identity, records, retry, clock, lost>>,
           \A m \in DOMAIN runs : m # n => runs'[m] = runs[m],
           runs'[n].closing # "running", runs[n].closing # "over",
           runs'[n].opening = runs[n].opening,
           runs'[n].held \in {0, n},
           Carried(n) => runs'[n].opening = "over" /\ runs'[n].held = n,
           Carried(n) => runs'[n].closing # "over"
    PROVE  /\ RunsSound' /\ RecordsSound'
           /\ retry' # None =>
                 LET m == retry'.run IN
                 m \in DOMAIN runs' /\ runs'[m].closing = "over"
           /\ \A m \in DOMAIN runs : clock /\ Carried(m) /\ Newer(m) = {} /\ IsKept(m) => IsKept(m)'
<1>1. \A m \in DOMAIN runs : Newer(m)' = Newer(m) /\ (Carried(m)' <=> Carried(m))
  BY SameRunsFacts
<1>2. /\ DOMAIN runs' = DOMAIN runs
      /\ \A m \in DOMAIN runs :
           /\ runs'[m].agent = runs[m].agent /\ runs'[m].conv = runs[m].conv
           /\ runs'[m].owner = runs[m].owner
  BY DEF SameRuns
<1>3. RunsSound'
  <2>1. ASSUME NEW m \in DOMAIN runs
        PROVE  /\ runs'[m].owner <= runs'[m].conv /\ runs'[m].conv <= conv'
               /\ runs'[m].held \in {0, m}
               /\ runs'[m].closing = "running" => Newer(m)' = {}
               /\ Carried(m)' => identity' = conv'
               /\ Carried(m)' /\ runs'[m].closing # "running" => runs'[m].opening = "over" /\ runs'[m].held = m
    <3>1. CASE m = n
      BY <1>1, <1>2, <3>1 DEF RunsSound
    <3>2. CASE m # n
      BY <1>1, <1>2, <3>2 DEF RunsSound
    <3> QED
      BY <3>1, <3>2
  <2> QED
    BY <1>2, <2>1 DEF RunsSound
<1>4. RecordsSound'
  <2>1. ASSUME NEW a \in Agent, records'[a] # None, NEW m, m = records'[a].run
        PROVE  /\ m \in DOMAIN runs' /\ runs'[m].agent = a /\ Newer(m)' = {}
               /\ identity' # 0 /\ runs'[m].owner = identity'
               /\ records'[a].attempts <= lost'
               /\ records'[a].kept => runs'[m].closing = "over"
    BY <1>1, <1>2, <2>1 DEF RecordsSound
  <2>2. ASSUME NEW m \in DOMAIN runs, Carried(m)', Newer(m)' = {}, runs'[m].closing # "over"
        PROVE  LET r == records'[runs'[m].agent] IN r # None /\ r.run = m /\ ~r.kept
    BY <1>1, <1>2, <2>2 DEF RecordsSound
  <2> QED
    BY <1>2, <2>1, <2>2 DEF RecordsSound, Newer, Carried
<1>5. retry' # None => LET m == retry'.run IN m \in DOMAIN runs' /\ runs'[m].closing = "over"
  BY <1>2 DEF RetrySound
<1>6. \A m \in DOMAIN runs : clock /\ Carried(m) /\ Newer(m) = {} /\ IsKept(m) => IsKept(m)'
  BY <1>2 DEF IsKept
<1> QED
  BY <1>3, <1>4, <1>5, <1>6

\* A run that goes on, with its last event or with a writer of its end awaited.
LEMMA ClosedRun ==
    ASSUME TypeOK, NEW n \in DOMAIN runs, NEW r \in Run, runs' = [runs EXCEPT ![n] = r],
           r.agent = runs[n].agent, r.conv = runs[n].conv, r.owner = runs[n].owner
    PROVE  /\ SameRuns /\ DOMAIN runs' = DOMAIN runs /\ runs'[n] = r
           /\ \A m \in DOMAIN runs : m # n => runs'[m] = runs[m]
<1>1. runs \in Seq(Run)
  BY Shapes
<1>2. /\ DOMAIN runs' = DOMAIN runs
      /\ \A m \in DOMAIN runs : runs'[m] = IF m = n THEN r ELSE runs[m]
  <2> HIDE DEF Run
  <2> QED
    BY <1>1, UpdateFacts
<1> QED
  BY <1>2 DEF SameRuns

\* The generation that the end of a run is confirmed under is its own.
LEMMA GenerationHeld ==
    ASSUME TypeOK, RunsSound, RecordsSound, NEW n \in DOMAIN runs, runs[n].closing = "running"
    PROVE  /\ GenerationOf(runs[n].agent) \in {0, n}
           /\ Carried(n) => GenerationOf(runs[n].agent) = n
<1> DEFINE a == runs[n].agent
<1>1. a \in Agent /\ n \in Nat \ {0} /\ DOMAIN runs \subseteq Nat
  BY Shapes DEF Run
<1>2. Newer(n) = {}
  BY DEF RunsSound
<1>3. CASE records[a] = None
  <2>1. GenerationOf(a) = 0
    BY <1>3 DEF GenerationOf
  <2>2. ~Carried(n)
    BY <1>2, <1>3 DEF RecordsSound
  <2> QED
    BY <2>1, <2>2
<1>4. CASE records[a] # None
  <2>1. PICK m : m = records[a].run
    OBVIOUS
  <2>2. GenerationOf(a) = m /\ m \in DOMAIN runs /\ runs[m].agent = a /\ Newer(m) = {}
    BY <1>1, <1>4, <2>1 DEF GenerationOf, RecordsSound
  <2>3. ~(m < n) /\ ~(n < m)
    BY <1>2, <2>2 DEF Newer
  <2>4. m = n
    BY <1>1, <2>2, <2>3
  <2> QED
    BY <2>2, <2>4
<1> QED
  BY <1>3, <1>4

\* turn.complete of an agent.
LEMMA CompletesReports ==
    ASSUME TypeOK, TypeOK', Bounded, Reports, NEW n \in DOMAIN runs, AgentCompletes(n)
    PROVE  Reports'
<1> DEFINE g == GenerationOf(runs[n].agent)
           new == [[runs[n] EXCEPT !.closing = "next"] EXCEPT !.held = g]
<1>1. /\ runs[n].opening = "over" /\ runs[n].closing = "running"
      /\ UNCHANGED <<conv, identity, records, retry, clock, lost, files>>
  BY DEF AgentCompletes, claude, reporter
<1>2. runs' = [runs EXCEPT ![n] = new]
  BY DEF AgentCompletes
<1>3. runs[n] \in Run /\ n \in Nat \ {0} /\ n \in Runs /\ MaxEvents \in Nat
  BY Shapes, RunsBounded, ReporterAssumption DEF Bounded
<1>4. g \in {0, n} /\ (Carried(n) => g = n)
  BY <1>1, GenerationHeld DEF Reports
<1>5. new \in Run
  <2>1. g \in 0..MaxEvents
    BY <1>3, <1>4 DEF Runs
  <2> HIDE DEF g
  <2> QED
    BY <1>3, <2>1 DEF Run
<1>6. /\ new.agent = runs[n].agent /\ new.conv = runs[n].conv /\ new.owner = runs[n].owner
      /\ new.opening = runs[n].opening /\ new.closing = "next" /\ new.held = g
  BY <1>3 DEF Run
<1> HIDE DEF new, g
<1>7. /\ SameRuns /\ DOMAIN runs' = DOMAIN runs /\ runs'[n] = new
      /\ \A m \in DOMAIN runs : m # n => runs'[m] = runs[m]
  BY <1>2, <1>5, <1>6, ClosedRun
<1>8. /\ RunsSound' /\ RecordsSound'
      /\ retry' # None =>
            LET m == retry'.run IN
            m \in DOMAIN runs' /\ runs'[m].closing = "over"
      /\ \A m \in DOMAIN runs : clock /\ Carried(m) /\ Newer(m) = {} /\ IsKept(m) => IsKept(m)'
  BY <1>1, <1>4, <1>6, <1>7, ClosingReports DEF Reports
<1>9. \A j \in DOMAIN files : files[j].event = "TurnComplete" => files[j].run # n
  BY <1>1, <1>3 DEF Reports, SignalsSound, SignalSound
<1>10. WritersAwaited
  <2>1. ASSUME NEW m \in DOMAIN runs
        PROVE  /\ runs'[m].opening = runs[m].opening
               /\ m # n => runs'[m].closing = runs[m].closing
    BY <1>6, <1>7
  <2> QED
    BY <1>1, <1>9, <2>1 DEF WritersAwaited
<1>11. Moved(Len(files) + 1) /\ Len(files) + 1 \in Nat /\ DOMAIN files' \subseteq Nat
  BY <1>1, SameMoves, Shapes
<1>12. SignalsSound' /\ StartsFirst'
  BY <1>1, <1>7, <1>10, <1>11, MovedSignals, MovedStarts DEF Reports
<1>13. RetrySound'
  BY <1>1, <1>7, <1>8, SameRunsFacts DEF Reports, RetrySound
<1> QED
  BY <1>8, <1>12, <1>13 DEF Reports

\* next(e) of a completion returns: its generation is that of the run it ends.
LEMMA ConfirmedReports ==
    ASSUME TypeOK, TypeOK', Bounded, Reports, NEW n \in DOMAIN runs, CompletionConfirmed(n)
    PROVE  Reports'
<1> DEFINE new == [runs[n] EXCEPT !.closing = "publishing"]
<1>1. /\ runs[n].closing = "next"
      /\ UNCHANGED <<conv, identity, records, retry, clock, lost>>
  BY DEF CompletionConfirmed, claude, reporter
<1>2. runs' = [runs EXCEPT ![n] = new]
  BY DEF CompletionConfirmed
<1>3. runs[n] \in Run /\ n \in Nat \ {0} /\ n \in Runs /\ MaxEvents \in Nat /\ conv \in Nat
  BY Shapes, RunsBounded, ReporterAssumption DEF Bounded
<1>4. /\ runs[n].held \in {0, n} /\ (Carried(n) => runs[n].held = n /\ runs[n].opening = "over")
      /\ runs[n].conv <= conv
  BY <1>1 DEF Reports, RunsSound
<1>5. new \in Run
  BY <1>3 DEF Run
<1>6. /\ new.agent = runs[n].agent /\ new.conv = runs[n].conv /\ new.owner = runs[n].owner
      /\ new.opening = runs[n].opening /\ new.closing = "publishing" /\ new.held = runs[n].held
  BY <1>3 DEF Run
<1> HIDE DEF new
<1>7. /\ SameRuns /\ DOMAIN runs' = DOMAIN runs /\ runs'[n] = new
      /\ \A m \in DOMAIN runs : m # n => runs'[m] = runs[m]
  BY <1>2, <1>5, <1>6, ClosedRun
<1>8. /\ RunsSound' /\ RecordsSound'
      /\ retry' # None =>
            LET m == retry'.run IN
            m \in DOMAIN runs' /\ runs'[m].closing = "over"
      /\ \A m \in DOMAIN runs : clock /\ Carried(m) /\ Newer(m) = {} /\ IsKept(m) => IsKept(m)'
  BY <1>1, <1>4, <1>6, <1>7, ClosingReports DEF Reports
<1>9. PICK s \in Signals : s = Signal("TurnComplete", n, runs[n].held, TRUE, FALSE) /\ Write(s)
  <2>1. n \in 0..MaxEvents /\ runs[n].held \in 0..MaxEvents
    BY <1>3 DEF Run, Runs
  <2>2. Signal("TurnComplete", n, runs[n].held, TRUE, FALSE) \in Signals
    BY <2>1, SignalTyped DEF Parents
  <2>3. Write(Signal("TurnComplete", n, runs[n].held, TRUE, FALSE))
    BY DEF CompletionConfirmed, Report
  <2> HIDE DEF Signals
  <2> QED
    BY <2>2, <2>3
<1>10. /\ s.event = "TurnComplete" /\ s.run = n /\ s.gen = runs[n].held
       /\ s.conv = conv /\ s.ready /\ ~s.again /\ s.file = "writing"
  BY <1>9 DEF Signal
<1>11. RunsExtend
  <2>1. ASSUME NEW m \in DOMAIN runs
        PROVE  /\ runs'[m].opening = runs[m].opening
               /\ runs[m].closing \in {"publishing", "over"} => runs'[m].closing = runs[m].closing
               /\ Carried(m)' => Carried(m)
    BY <1>1, <1>6, <1>7, SameRunsFacts
  <2> QED
    BY <1>7, <2>1 DEF SameRuns, RunsExtend
<1>12. SignalsSound'
  <2>1. SignalSound(s)'
    BY <1>1, <1>3, <1>4, <1>6, <1>7, <1>10 DEF SignalSound, Carried
  <2>2. conv' \in Nat /\ conv <= conv' /\ runs[s.run].closing # "publishing" /\ s.run \in DOMAIN runs
    BY <1>1, <1>3, <1>10
  <2> QED
    BY <1>9, <1>11, <2>1, <2>2, AppendedSignals DEF Reports
<1>13. StartsFirst'
  <2>1. ASSUME NEW i \in DOMAIN files, NEW m \in DOMAIN runs, IsStart(files[i], m), Carried(m),
               IsEnd(s, m) \/ (s.event = "SubagentStart" /\ runs'[s.run].agent = runs[m].agent)
        PROVE  files[i].file # "writing"
    <3>1. m = n
      BY <1>10, <2>1 DEF IsEnd
    <3>2. SignalSound(files[i])
      BY DEF Reports, SignalsSound
    <3> QED
      BY <1>3, <1>4, <2>1, <3>1, <3>2 DEF SignalSound, IsStart
  <2>2. s.event # "SubagentStart" /\ s.file = "writing"
    BY <1>10
  <2> QED
    BY <1>9, <1>11, <2>1, <2>2, AppendedStarts DEF Reports
<1>14. RetrySound'
  <2>1. ~s.again
    BY <1>10
  <2>2. retry # None => LET m == retry.run IN clock /\ Carried(m) /\ Newer(m) = {} => IsKept(m)
    BY DEF Reports, RetrySound
  <2>3. RetrySound
    BY DEF Reports
  <2> QED
    BY <1>1, <1>7, <1>8, <1>9, <2>1, <2>2, <2>3, AppendedRetry, SameRunsFacts DEF RetrySound
<1> QED
  BY <1>8, <1>12, <1>13, <1>14 DEF Reports

\* An agent of a conversation that is over ends without an event.
LEMMA VanishesReports ==
    ASSUME TypeOK, TypeOK', Bounded, Reports, NEW n \in DOMAIN runs, AgentVanishes(n)
    PROVE  Reports'
<1> DEFINE new == [runs[n] EXCEPT !.closing = "over"]
<1>1. /\ runs[n].closing = "running" /\ runs[n].conv # conv
      /\ UNCHANGED <<conv, identity, records, retry, clock, lost, files>>
  BY DEF AgentVanishes, claude, reporter
<1>2. runs' = [runs EXCEPT ![n] = new]
  BY DEF AgentVanishes
<1>3. runs[n] \in Run /\ n \in Nat \ {0} /\ conv \in Nat
  BY Shapes
<1>4. runs[n].held \in {0, n} /\ ~Carried(n)
  <2>1. runs[n].conv \in Nat /\ runs[n].owner \in Nat
    BY <1>3 DEF Run, Conversations
  <2> QED
    BY <1>1, <1>3, <2>1 DEF Reports, RunsSound, Carried
<1>5. new \in Run
  BY <1>3 DEF Run
<1>6. /\ new.agent = runs[n].agent /\ new.conv = runs[n].conv /\ new.owner = runs[n].owner
      /\ new.opening = runs[n].opening /\ new.closing = "over" /\ new.held = runs[n].held
  BY <1>3 DEF Run
<1> HIDE DEF new
<1>7. /\ SameRuns /\ DOMAIN runs' = DOMAIN runs /\ runs'[n] = new
      /\ \A m \in DOMAIN runs : m # n => runs'[m] = runs[m]
  BY <1>2, <1>5, <1>6, ClosedRun
<1>8. /\ RunsSound' /\ RecordsSound'
      /\ retry' # None =>
            LET m == retry'.run IN
            m \in DOMAIN runs' /\ runs'[m].closing = "over"
      /\ \A m \in DOMAIN runs : clock /\ Carried(m) /\ Newer(m) = {} /\ IsKept(m) => IsKept(m)'
  BY <1>1, <1>4, <1>6, <1>7, ClosingReports DEF Reports
<1>9. \A j \in DOMAIN files : files[j].event = "TurnComplete" => files[j].run # n
  BY <1>1, <1>3 DEF Reports, SignalsSound, SignalSound
<1>10. WritersAwaited
  <2>1. ASSUME NEW m \in DOMAIN runs
        PROVE  /\ runs'[m].opening = runs[m].opening
               /\ m # n => runs'[m].closing = runs[m].closing
    BY <1>6, <1>7
  <2> QED
    BY <1>1, <1>9, <2>1 DEF WritersAwaited
<1>11. Moved(Len(files) + 1) /\ Len(files) + 1 \in Nat /\ DOMAIN files' \subseteq Nat
  BY <1>1, SameMoves, Shapes
<1>12. SignalsSound' /\ StartsFirst'
  BY <1>1, <1>7, <1>10, <1>11, MovedSignals, MovedStarts DEF Reports
<1>13. RetrySound'
  BY <1>1, <1>7, <1>8, SameRunsFacts DEF Reports, RetrySound
<1> QED
  BY <1>8, <1>12, <1>13 DEF Reports

\* Records that only leave, or count an attempt more, when a publication was lost.
LEMMA RecordsStep ==
    ASSUME TypeOK, RecordsSound, UNCHANGED <<conv, identity, runs>>,
           \A a \in Agent : records'[a] # None =>
               /\ records[a] # None
               /\ records'[a].run = records[a].run /\ records'[a].kept = records[a].kept
               /\ records'[a].attempts <= lost',
           \A a \in Agent : records[a] # None /\ records'[a] = None =>
               records[a].kept \/ runs[records[a].run].closing = "over"
    PROVE  RecordsSound'
<1>0. \A n \in DOMAIN runs : runs[n].agent \in Agent
  BY Shapes DEF Run
<1>1. ASSUME NEW a \in Agent, records'[a] # None, NEW m, m = records'[a].run
      PROVE  /\ m \in DOMAIN runs' /\ runs'[m].agent = a /\ Newer(m)' = {}
             /\ identity' # 0 /\ runs'[m].owner = identity'
             /\ records'[a].attempts <= lost'
             /\ records'[a].kept => runs'[m].closing = "over"
  <2>1. records[a] # None /\ records[a].run = m
    BY <1>1
  <2> QED
    BY <1>1, <2>1 DEF RecordsSound, Newer
<1>2. ASSUME NEW m \in DOMAIN runs, Carried(m)', Newer(m)' = {}, runs'[m].closing # "over"
      PROVE  LET r == records'[runs'[m].agent] IN r # None /\ r.run = m /\ ~r.kept
  <2>1. LET r == records[runs[m].agent] IN r # None /\ r.run = m /\ ~r.kept
    BY <1>2 DEF RecordsSound, Newer, Carried
  <2> QED
    BY <1>0, <1>2, <2>1
<1> QED
  BY <1>1, <1>2 DEF RecordsSound, Newer, Carried

\* Signals of a run that do not concern what its writer is awaited for.
LEMMA OtherWriters ==
    ASSUME TypeOK, SignalsSound, StartsFirst, NEW k \in Nat, Moved(k), NEW i \in DOMAIN files,
           files[i].file = "writing", files[i].run # 0,
           \A j \in DOMAIN files' : Before(k, j) = i => files'[j].file # "writing",
           NEW j \in DOMAIN files', files'[j].file = "writing", files'[j].run = files[i].run
    PROVE  /\ files[i].event = "SubagentStart" => files'[j].event # "SubagentStart"
           /\ files[i].event = "TurnComplete" /\ ~files[i].again =>
                 ~(files'[j].event = "TurnComplete" /\ ~files'[j].again)
<1>1. /\ Before(k, j) \in DOMAIN files /\ Before(k, j) # i
      /\ SameSignal(files'[j], files[Before(k, j)]) /\ files[Before(k, j)].file = "writing"
  BY DEF Moved
<1>2. PICK h \in DOMAIN files : h = Before(k, j)
  BY <1>1
<1>3. files[h].run = files[i].run /\ files[h].file = "writing" /\ h # i
      /\ files[h].event = files'[j].event /\ (files[h].again <=> files'[j].again)
  BY <1>1, <1>2 DEF SameSignal
<1>4. /\ DOMAIN files = 1..Len(files) /\ Len(files) \in Nat
      /\ files[i].run \in Nat
  BY Shapes DEF Signals
<1>5. ~(files[i].event = "SubagentStart" /\ files[h].event = "SubagentStart")
  <2>1. CASE i < h
    BY <1>3, <1>4, <2>1 DEF StartsFirst
  <2>2. CASE h < i
    BY <1>3, <1>4, <2>2 DEF StartsFirst
  <2> QED
    BY <1>3, <1>4, <2>1, <2>2
<1>6. ~(files[i].event = "TurnComplete" /\ ~files[i].again /\ files[h].event = "TurnComplete" /\ ~files[h].again)
  BY <1>3 DEF SignalsSound
<1> QED
  BY <1>3, <1>5, <1>6

\* A retry is over: its record leaves or counts one more attempt.
LEMMA RetriedReports ==
    ASSUME TypeOK, TypeOK', Reports, NEW i \in DOMAIN files, files[i].file = "writing", files[i].again,
           NEW ok \in BOOLEAN, files[i].run \in DOMAIN runs, RetryOver(files[i].run, ok),
           NEW k \in Nat, Moved(k), DOMAIN files' \subseteq Nat,
           \A j \in DOMAIN files' : Before(k, j) = i => files'[j].file # "writing",
           UNCHANGED <<conv, identity, runs>>, lost' \in Nat, lost <= lost', ~ok => lost' = lost + 1
    PROVE  Reports'
<1> DEFINE n == files[i].run
<1>1. /\ retry' = None
      /\ \A a \in Agent : records'[a] # None =>
            /\ records[a] # None
            /\ records'[a].run = records[a].run /\ records'[a].kept = records[a].kept
            /\ records'[a].attempts # records[a].attempts =>
                 ~ok /\ records'[a].attempts = records[a].attempts + 1
      /\ \A a \in Agent : records[a] # None /\ records'[a] = None =>
            records[a].kept \/ records[a].run = n
  BY RetryOverFacts
<1>2. runs[n].closing = "over"
  <2>1. retry = [run |-> n, step |-> "publish"]
    BY DEF Reports, RetrySound
  <2>2. n \in Runs
    <3>1. files[i] \in Signals /\ n \in Nat \ {0} /\ MaxEvents \in Nat
      BY Shapes, ReporterAssumption
    <3> QED
      BY <3>1 DEF Signals, Runs
  <2>3. retry # None /\ retry.run = n
    <3>1. retry \in Retry
      BY <2>1, <2>2 DEF Retry
    <3> QED
      BY <2>1, <3>1, NoneIsNoRecord
  <2> QED
    BY <2>3 DEF Reports, RetrySound
<1>3. \A a \in Agent : records'[a] # None => records'[a].attempts <= lost'
  <2>1. SUFFICES ASSUME NEW a \in Agent, records'[a] # None PROVE records'[a].attempts <= lost'
    OBVIOUS
  <2>2. records[a] # None /\ records[a] \in Record /\ lost \in Nat
    BY <1>1, <2>1, Shapes
  <2>3. records[a].attempts \in Nat /\ records[a].attempts <= lost
    BY <2>2 DEF Reports, RecordsSound, Record
  <2>4. \/ records'[a].attempts = records[a].attempts
        \/ lost' = lost + 1 /\ records'[a].attempts = records[a].attempts + 1
    BY <1>1, <2>1
  <2> QED
    BY <2>2, <2>3, <2>4
<1>4. RecordsSound'
  BY <1>1, <1>2, <1>3, RecordsStep DEF Reports
<1>5. RunsSound'
  BY DEF Reports, RunsSound, Newer, Carried
<1>6. SameRuns /\ WritersAwaited
  BY DEF SameRuns, WritersAwaited
<1>7. SignalsSound' /\ StartsFirst'
  BY <1>6, MovedSignals, MovedStarts DEF Reports
<1>8. \A j \in DOMAIN files' : ~(files'[j].again /\ files'[j].file = "writing")
  <2>1. SUFFICES ASSUME NEW j \in DOMAIN files', files'[j].again, files'[j].file = "writing" PROVE FALSE
    OBVIOUS
  <2>2. /\ files[Before(k, j)].again /\ files[Before(k, j)].file = "writing"
        /\ Before(k, j) \in DOMAIN files
    BY <2>1, MovedRetry DEF Reports
  <2>3. Before(k, j) = i
    BY <2>2 DEF Reports, RetrySound
  <2> QED
    BY <2>1, <2>3
<1>9. RetrySound'
  BY <1>1, <1>8 DEF RetrySound
<1> QED
  BY <1>4, <1>5, <1>7, <1>9 DEF Reports

\* The handlers of a start go on.
LEMMA OpenedReports ==
    ASSUME TypeOK, TypeOK', Reports, NEW i \in DOMAIN files, files[i].file = "writing",
           NEW n \in DOMAIN runs, n = files[i].run, files[i].event = "SubagentStart",
           runs' = [runs EXCEPT ![n] = [runs[n] EXCEPT !.opening = "over"]],
           NEW k \in Nat, Moved(k), DOMAIN files' \subseteq Nat,
           \A j \in DOMAIN files' : Before(k, j) = i => files'[j].file # "writing",
           UNCHANGED <<conv, identity, records, retry, clock>>, lost' \in Nat, lost <= lost'
    PROVE  Reports'
<1> DEFINE new == [runs[n] EXCEPT !.opening = "over"]
<1>1. runs[n] \in Run /\ n # 0 /\ \A m \in DOMAIN runs : runs[m].agent \in Agent
  BY Shapes DEF Run
<1>2. new \in Run
  BY <1>1 DEF Run
<1>3. /\ new.agent = runs[n].agent /\ new.conv = runs[n].conv /\ new.owner = runs[n].owner
      /\ new.opening = "over" /\ new.closing = runs[n].closing /\ new.held = runs[n].held
  BY <1>1 DEF Run
<1>4. runs' = [runs EXCEPT ![n] = new]
  OBVIOUS
<1> HIDE DEF new
<1>5. /\ SameRuns /\ DOMAIN runs' = DOMAIN runs /\ runs'[n] = new
      /\ \A m \in DOMAIN runs : m # n => runs'[m] = runs[m]
  BY <1>2, <1>3, <1>4, ClosedRun
<1>6. \A m \in DOMAIN runs : /\ Newer(m)' = Newer(m) /\ (Carried(m)' <=> Carried(m))
                             /\ runs'[m].agent = runs[m].agent /\ runs'[m].conv = runs[m].conv
                             /\ runs'[m].owner = runs[m].owner /\ runs'[m].held = runs[m].held
                             /\ runs'[m].closing = runs[m].closing
                             /\ runs'[m].opening \in {runs[m].opening, "over"}
                             /\ m # n => runs'[m].opening = runs[m].opening
  BY <1>3, <1>5, SameRunsFacts
<1>7. RunsSound'
  BY <1>5, <1>6 DEF Reports, RunsSound
<1>8. RecordsSound'
  <2>1. ASSUME NEW a \in Agent, records'[a] # None, NEW m, m = records'[a].run
        PROVE  /\ m \in DOMAIN runs' /\ runs'[m].agent = a /\ Newer(m)' = {}
               /\ identity' # 0 /\ runs'[m].owner = identity'
               /\ records'[a].attempts <= lost'
               /\ records'[a].kept => runs'[m].closing = "over"
    <3>1. m \in DOMAIN runs /\ runs[m].agent = a /\ Newer(m) = {} /\ identity # 0
          /\ runs[m].owner = identity /\ (records[a].kept => runs[m].closing = "over")
          /\ records[a] # None /\ records[a].attempts <= lost
      BY <2>1 DEF Reports, RecordsSound
    <3>2. records[a].attempts \in Nat /\ lost \in Nat
      BY <3>1, Shapes DEF Record
    <3> QED
      BY <1>5, <1>6, <2>1, <3>1, <3>2
  <2>2. ASSUME NEW m \in DOMAIN runs, Carried(m)', Newer(m)' = {}, runs'[m].closing # "over"
        PROVE  LET r == records'[runs'[m].agent] IN r # None /\ r.run = m /\ ~r.kept
    BY <1>6, <2>2 DEF Reports, RecordsSound
  <2> QED
    BY <1>5, <2>1, <2>2 DEF RecordsSound, Newer, Carried
<1>9. WritersAwaited
  <2>1. ASSUME NEW j \in DOMAIN files', files'[j].file = "writing", files'[j].run = n
        PROVE  files'[j].event # "SubagentStart"
    BY <1>1, <2>1, OtherWriters DEF Reports
  <2> QED
    BY <1>6, <2>1 DEF WritersAwaited
<1>10. SignalsSound' /\ StartsFirst'
  BY <1>5, <1>9, MovedSignals, MovedStarts DEF Reports
<1>11. RetrySound'
  <2>1. ASSUME retry' # None, NEW m, m = retry'.run
        PROVE  /\ m \in DOMAIN runs' /\ runs'[m].closing = "over"
               /\ clock' /\ Carried(m)' /\ Newer(m)' = {} => IsKept(m)'
    <3>1. /\ m \in DOMAIN runs /\ runs[m].closing = "over"
          /\ clock /\ Carried(m) /\ Newer(m) = {} => IsKept(m)
      BY <2>1 DEF Reports, RetrySound
    <3> QED
      BY <1>5, <1>6, <3>1 DEF IsKept
  <2> QED
    BY <2>1, MovedRetry DEF Reports, RetrySound, Newer, Carried, IsKept
<1> QED
  BY <1>7, <1>8, <1>10, <1>11 DEF Reports

\* The handlers of an end go on, and its run is kept if it has its record still.
LEMMA EndedReports ==
    ASSUME TypeOK, TypeOK', Bounded, Reports, NEW i \in DOMAIN files, files[i].file = "writing",
           NEW n \in DOMAIN runs, n = files[i].run, files[i].event = "TurnComplete", ~files[i].again,
           runs' = [runs EXCEPT ![n] = [runs[n] EXCEPT !.closing = "over"]], Completed(n),
           NEW k \in Nat, Moved(k), DOMAIN files' \subseteq Nat,
           \A j \in DOMAIN files' : Before(k, j) = i => files'[j].file # "writing",
           UNCHANGED <<conv, identity>>, lost' \in Nat, lost <= lost'
    PROVE  Reports'
<1> DEFINE new == [runs[n] EXCEPT !.closing = "over"]
<1>1. runs[n] \in Run /\ n \in Nat \ {0} /\ \A m \in DOMAIN runs : runs[m].agent \in Agent
  BY Shapes DEF Run
<1>2. new \in Run
  BY <1>1 DEF Run
<1>3. /\ new.agent = runs[n].agent /\ new.conv = runs[n].conv /\ new.owner = runs[n].owner
      /\ new.closing = "over" /\ new.opening = runs[n].opening /\ new.held = runs[n].held
  BY <1>1 DEF Run
<1>4. runs' = [runs EXCEPT ![n] = new]
  OBVIOUS
<1> HIDE DEF new
<1>5. /\ SameRuns /\ DOMAIN runs' = DOMAIN runs /\ runs'[n] = new
      /\ \A m \in DOMAIN runs : m # n => runs'[m] = runs[m]
  BY <1>2, <1>3, <1>4, ClosedRun
<1>6. \A m \in DOMAIN runs : /\ Newer(m)' = Newer(m) /\ (Carried(m)' <=> Carried(m))
                             /\ runs'[m].agent = runs[m].agent /\ runs'[m].conv = runs[m].conv
                             /\ runs'[m].owner = runs[m].owner /\ runs'[m].held = runs[m].held
                             /\ runs'[m].opening = runs[m].opening
                             /\ runs'[m].closing = IF m = n THEN "over" ELSE runs[m].closing
  BY <1>3, <1>5, SameRunsFacts
<1>7. runs[n].closing = "publishing" /\ runs[n].held \in {0, n}
  <2>1. SignalSound(files[i])
    BY DEF Reports, SignalsSound
  <2> QED
    BY <1>1, <2>1 DEF SignalSound, Reports, RunsSound
<1>8. RunsSound'
  BY <1>5, <1>6, <1>7 DEF Reports, RunsSound
<1>9. /\ retry' = retry /\ (clock' => clock)
      /\ \A a \in Agent : records'[a] # None =>
            /\ records[a] # None
            /\ \/ records'[a] = records[a]
               \/ /\ a = runs[n].agent /\ records[a].run = runs[n].held /\ ~records[a].kept
                  /\ records'[a] = [run |-> n, kept |-> TRUE, attempts |-> 0]
      /\ \A a \in Agent : records[a] # None /\ records'[a] = None =>
            records[a].kept \/ (a = runs[n].agent /\ records[a].run = runs[n].held)
      /\ clock' => \A a \in Agent : records[a] # None => records'[a] # None
  BY CompletedFacts
<1>10. \A a \in Agent : records[a] # None =>
         /\ records[a].run \in DOMAIN runs /\ runs[records[a].run].agent = a /\ records[a].run # 0
         /\ records[a].attempts \in Nat
  <2>1. DOMAIN runs \subseteq Nat \ {0} /\ \A a \in Agent : records[a] # None => records[a] \in Record
    BY Shapes
  <2> QED
    BY <2>1 DEF Reports, RecordsSound, Record
<1>11. RecordsSound'
  <2>1. ASSUME NEW a \in Agent, records'[a] # None, NEW m, m = records'[a].run
        PROVE  /\ m \in DOMAIN runs' /\ runs'[m].agent = a /\ Newer(m)' = {}
               /\ identity' # 0 /\ runs'[m].owner = identity'
               /\ records'[a].attempts <= lost'
               /\ records'[a].kept => runs'[m].closing = "over"
    <3>1. /\ records[a] # None /\ records[a].run = m /\ records'[a].attempts <= lost'
          /\ records'[a].kept => records[a].kept \/ m = n
      <4>1. CASE records'[a] = records[a]
        <5>1. records[a].attempts <= lost /\ lost \in Nat /\ records[a].attempts \in Nat /\ records[a] # None
          BY <1>9, <1>10, <2>1, Shapes DEF Reports, RecordsSound
        <5> QED
          BY <2>1, <4>1, <5>1
      <4>2. CASE /\ records[a].run = runs[n].held
                 /\ records'[a] = [run |-> n, kept |-> TRUE, attempts |-> 0]
        <5>1. records[a] # None /\ records[a].run # 0
          BY <1>9, <1>10, <2>1
        <5>2. records[a].run = n /\ m = n
          BY <1>7, <2>1, <4>2, <5>1
        <5> QED
          BY <4>2, <5>1, <5>2
      <4> QED
        BY <1>9, <2>1, <4>1, <4>2
    <3>2. /\ m \in DOMAIN runs /\ runs[m].agent = a /\ Newer(m) = {} /\ identity # 0
          /\ runs[m].owner = identity /\ (records[a].kept => runs[m].closing = "over")
      BY <3>1 DEF Reports, RecordsSound
    <3> QED
      BY <1>5, <1>6, <2>1, <3>1, <3>2
  <2>2. ASSUME NEW m \in DOMAIN runs, Carried(m)', Newer(m)' = {}, runs'[m].closing # "over"
        PROVE  LET r == records'[runs'[m].agent] IN r # None /\ r.run = m /\ ~r.kept
    <3> DEFINE a == runs[m].agent
    <3>1. m # n /\ Carried(m) /\ Newer(m) = {} /\ runs[m].closing # "over" /\ a \in Agent /\ m # 0
      BY <1>1, <1>6, <2>2, Shapes
    <3>2. records[a] # None /\ records[a].run = m /\ ~records[a].kept
      BY <3>1 DEF Reports, RecordsSound
    <3>3. records[a].run # runs[n].held
      BY <1>7, <3>1, <3>2
    <3>4. records'[a] # None
      BY <1>9, <3>1, <3>2, <3>3
    <3>5. records'[a] = records[a]
      BY <1>9, <3>1, <3>3, <3>4
    <3> QED
      BY <1>6, <3>2, <3>4, <3>5
  <2> QED
    BY <1>5, <2>1, <2>2 DEF RecordsSound, Newer, Carried
<1>12. WritersAwaited
  <2>1. ASSUME NEW j \in DOMAIN files', files'[j].file = "writing", files'[j].run = n
        PROVE  ~(files'[j].event = "TurnComplete" /\ ~files'[j].again)
    BY <1>1, <2>1, OtherWriters DEF Reports
  <2> QED
    BY <1>6, <2>1 DEF WritersAwaited
<1>13. SignalsSound' /\ StartsFirst'
  BY <1>5, <1>12, MovedSignals, MovedStarts DEF Reports
<1>14. RetrySound'
  <2>1. ASSUME retry' # None, NEW m, m = retry'.run
        PROVE  /\ m \in DOMAIN runs' /\ runs'[m].closing = "over"
               /\ clock' /\ Carried(m)' /\ Newer(m)' = {} => IsKept(m)'
    <3>1. /\ m \in DOMAIN runs /\ runs[m].closing = "over"
          /\ clock /\ Carried(m) /\ Newer(m) = {} => IsKept(m)
      BY <1>9, <2>1 DEF Reports, RetrySound
    <3>2. ASSUME clock', Carried(m)', Newer(m)' = {}
          PROVE  IsKept(m)'
      <4> DEFINE a == runs[m].agent
      <4>1. IsKept(m) /\ a \in Agent
        BY <1>1, <1>6, <1>9, <3>1, <3>2
      <4>2. records[a] # None /\ records[a].run = m /\ records[a].kept
        BY <4>1 DEF IsKept
      <4>3. records'[a] # None /\ records'[a] = records[a]
        BY <1>9, <3>2, <4>1, <4>2
      <4> QED
        BY <1>6, <3>1, <4>2, <4>3 DEF IsKept
    <3> QED
      BY <1>5, <1>6, <3>1, <3>2
  <2> QED
    BY <1>9, <2>1, MovedRetry DEF Reports, RetrySound, Newer, Carried, IsKept
<1> QED
  BY <1>8, <1>11, <1>13, <1>14 DEF Reports

\* A writer ends: what waited for it goes on.
LEMMA ContinueReports ==
    ASSUME TypeOK, TypeOK', Bounded, Reports, NEW i \in DOMAIN files, files[i].file = "writing",
           NEW ok \in BOOLEAN, Continue(files[i], ok),
           NEW k \in Nat, Moved(k), DOMAIN files' \subseteq Nat,
           \A j \in DOMAIN files' : Before(k, j) = i => files'[j].file # "writing",
           UNCHANGED <<conv, identity>>, lost' \in Nat, lost <= lost', ~ok => lost' = lost + 1
    PROVE  Reports'
<1>1. SignalsSound
  BY DEF Reports
<1>2. PICK n : n = files[i].run
  OBVIOUS
<1>3. \/ n = 0 /\ UNCHANGED <<runs, records, retry, clock>>
      \/ /\ n \in DOMAIN runs /\ files[i].again /\ files[i].event = "TurnComplete"
         /\ RetryOver(n, ok) /\ runs' = runs
      \/ /\ n \in DOMAIN runs /\ ~files[i].again /\ files[i].event = "SubagentStart"
         /\ runs' = [runs EXCEPT ![n] = [runs[n] EXCEPT !.opening = "over"]]
         /\ UNCHANGED <<records, retry, clock>>
      \/ /\ n \in DOMAIN runs /\ ~files[i].again /\ files[i].event = "TurnComplete"
         /\ runs' = [runs EXCEPT ![n] = [runs[n] EXCEPT !.closing = "over"]]
         /\ Completed(n)
  BY <1>1, <1>2, ContinueFacts
<1>4. CASE n = 0 /\ UNCHANGED <<runs, records, retry, clock>>
  <2>1. RunsSound'
    BY <1>4 DEF Reports, RunsSound, Newer, Carried
  <2>2. \A a \in Agent : records[a] # None => records[a].attempts <= lost'
    <3>1. SUFFICES ASSUME NEW a \in Agent, records[a] # None PROVE records[a].attempts <= lost'
      OBVIOUS
    <3>2. records[a].attempts <= lost /\ records[a].attempts \in Nat /\ lost \in Nat
      BY <3>1, Shapes DEF Reports, RecordsSound, Record
    <3> QED
      BY <3>2
  <2>3. RecordsSound'
    BY <1>4, <2>2, RecordsStep DEF Reports
  <2>4. SameRuns /\ WritersAwaited
    BY <1>4 DEF SameRuns, WritersAwaited
  <2>5. SignalsSound' /\ StartsFirst'
    BY <2>4, MovedSignals, MovedStarts DEF Reports
  <2>6. RetrySound
    BY DEF Reports
  <2>7. RetrySound'
    BY <1>4, <2>6, MovedRetry DEF RetrySound, Newer, Carried, IsKept
  <2> QED
    BY <2>1, <2>3, <2>5, <2>7 DEF Reports
<1>5. CASE /\ n \in DOMAIN runs /\ files[i].again /\ files[i].event = "TurnComplete"
           /\ RetryOver(n, ok) /\ runs' = runs
  BY <1>2, <1>5, RetriedReports
<1>6. CASE /\ n \in DOMAIN runs /\ ~files[i].again /\ files[i].event = "SubagentStart"
           /\ runs' = [runs EXCEPT ![n] = [runs[n] EXCEPT !.opening = "over"]]
           /\ UNCHANGED <<records, retry, clock>>
  BY <1>2, <1>6, OpenedReports
<1>7. CASE /\ n \in DOMAIN runs /\ ~files[i].again /\ files[i].event = "TurnComplete"
           /\ runs' = [runs EXCEPT ![n] = [runs[n] EXCEPT !.closing = "over"]]
           /\ Completed(n)
  BY <1>2, <1>7, EndedReports
<1> QED
  BY <1>3, <1>4, <1>5, <1>6, <1>7

\* The directory is a sequence before and after a step.
LEMMA FilesDomain ==
    ASSUME TypeOK'
    PROVE  DOMAIN files' \subseteq Nat
<1>1. files' \in Seq(Signals)
  BY DEF TypeOK, ReporterTypeOK
<1> HIDE DEF Signals
<1> QED
  BY <1>1

\* A file appears.
LEMMA ShowsReports ==
    ASSUME TypeOK, TypeOK', Bounded, Reports, NEW i \in DOMAIN files, Shows(i)
    PROVE  Reports'
<1>1. files[i].file = "writing" /\ files' = [files EXCEPT ![i].file = "shown"]
      /\ UNCHANGED <<conv, identity>>
  BY ShowsFacts
<1>2. PICK ok \in BOOLEAN : /\ Continue(files[i], ok)
                            /\ ok => lost' = lost
                            /\ ~ok => lost < MaxLost /\ lost' = lost + 1
  BY ShowsFacts
<1>3. lost' \in Nat /\ lost <= lost' /\ lost \in Nat
  BY ShowsFacts, Shapes
<1>4. ~ok => lost' = lost + 1
  BY <1>2
<1>5. Moved(Len(files) + 1) /\ Len(files) + 1 \in Nat
  BY <1>1, ShownMoves, BeforeFacts
<1>6. \A j \in DOMAIN files' : Before(Len(files) + 1, j) = i => files'[j].file # "writing"
  <2>1. /\ DOMAIN files' = DOMAIN files
        /\ files'[i] = [files[i] EXCEPT !.file = "shown"] /\ files[i] \in Signals
    BY <1>1, ShownFacts, Shapes
  <2>2. files'[i].file = "shown"
    BY <2>1 DEF Signals
  <2> QED
    BY <2>1, <2>2, BeforeFacts
<1>7. PICK k \in Nat : k = Len(files) + 1
  BY <1>5
<1> QED
  BY <1>1, <1>2, <1>3, <1>4, <1>5, <1>6, <1>7, FilesDomain, ContinueReports

\* A writer fails.
LEMMA LosesReports ==
    ASSUME TypeOK, TypeOK', Bounded, Reports, NEW i \in DOMAIN files, Loses(i)
    PROVE  Reports'
<1>1. /\ files[i].file = "writing" /\ files' = RemoveAt(files, i)
      /\ Continue(files[i], FALSE) /\ lost' = lost + 1
      /\ UNCHANGED <<conv, identity>>
  BY DEF Loses, claude
<1>2. lost' \in Nat /\ lost <= lost' /\ lost \in Nat /\ i \in Nat
  BY <1>1, Shapes
<1>3. Moved(i)
  BY <1>1, RemovedMoves
<1>4. \A j \in DOMAIN files' : Before(i, j) # i
  BY <1>3 DEF Moved
<1> QED
  BY <1>1, <1>2, <1>3, <1>4, FilesDomain, ContinueReports

\* The session id of a retry arrives.
LEMMA IdentifiedReports ==
    ASSUME TypeOK, TypeOK', Bounded, Reports, RetryIdentified
    PROVE  Reports'
<1>0. /\ conv \in Nat \ {0} /\ identity \in Nat /\ retry \in Retry \cup {None} /\ clock \in BOOLEAN
      /\ records \in [Agent -> Record \cup {None}] /\ \A m \in DOMAIN runs : runs[m] \in Run
      /\ DOMAIN runs = 1..Len(runs) /\ Len(runs) \in Nat
  BY Shapes DEF TypeOK, ReporterTypeOK
<1>1. PICK n : n = retry.run
  OBVIOUS
<1>2. /\ retry # None /\ retry.step = "id" /\ UNCHANGED <<conv, runs, lost>>
      /\ n \in DOMAIN runs /\ runs[n].closing = "over" /\ n # 0
      /\ retry \in Retry
  <2>1. retry # None /\ retry.step = "id" /\ UNCHANGED <<conv, runs, lost>>
    BY DEF RetryIdentified, claude
  <2> QED
    BY <1>0, <1>1, <2>1 DEF Reports, RetrySound
<1>3. \A i \in DOMAIN files : ~(files[i].again /\ files[i].file = "writing")
  <2>1. SUFFICES ASSUME NEW i \in DOMAIN files, files[i].again, files[i].file = "writing" PROVE FALSE
    OBVIOUS
  <2>2. retry = [run |-> files[i].run, step |-> "publish"]
    BY <2>1 DEF Reports, RetrySound
  <2> QED
    BY <1>2, <2>2
<1>4. RunsSound' \/ identity' # identity
  BY <1>2 DEF Reports, RunsSound, Newer, Carried
<1>5. CASE Current(n) /\ conv = identity
  <2>1. /\ Report("TurnComplete", n, n, TRUE)
        /\ retry' = [retry EXCEPT !.step = "publish"]
        /\ UNCHANGED <<identity, records, clock>>
    BY <1>1, <1>5 DEF RetryIdentified
  <2>2. runs[n].owner = conv /\ runs[n].conv = conv
    <3>1. GenerationOf(runs[n].agent) = n /\ runs[n].agent \in Agent
      BY <1>0, <1>2, <1>5 DEF Current, Run
    <3>2. records[runs[n].agent] # None /\ records[runs[n].agent].run = n
      BY <1>2, <3>1 DEF GenerationOf
    <3>3. runs[n].owner = identity
      BY <3>1, <3>2 DEF Reports, RecordsSound
    <3>4. runs[n].owner <= runs[n].conv /\ runs[n].conv <= conv /\ runs[n].conv \in Nat
      BY <1>0, <1>2 DEF Reports, RunsSound, Run, Conversations
    <3> QED
      BY <1>0, <1>5, <3>3, <3>4
  <2>3. PICK s \in Signals : s = Signal("TurnComplete", n, n, TRUE, TRUE) /\ Write(s)
    <3>1. n \in 0..MaxEvents
      <4>1. n \in Runs /\ MaxEvents \in Nat
        BY <1>2, RunsBounded, ReporterAssumption DEF Bounded
      <4> QED
        BY <4>1 DEF Runs
    <3>2. Signal("TurnComplete", n, n, TRUE, TRUE) \in Signals
      BY <3>1, SignalTyped DEF Parents
    <3>3. Write(Signal("TurnComplete", n, n, TRUE, TRUE))
      BY <2>1 DEF Report
    <3> HIDE DEF Signals
    <3> QED
      BY <3>2, <3>3
  <2>4. /\ s.event = "TurnComplete" /\ s.run = n /\ s.gen = n
        /\ s.conv = conv /\ s.ready /\ s.again /\ s.file = "writing"
    BY <2>3 DEF Signal
  <2>5. RunsExtend
    BY <1>2 DEF RunsExtend, Carried
  <2>6. SignalsSound'
    <3>1. SignalSound(s)'
      BY <1>0, <1>2, <2>2, <2>4 DEF SignalSound
    <3>2. conv' \in Nat /\ conv <= conv' /\ s.again
      BY <1>0, <1>2, <2>4
    <3> QED
      BY <2>3, <2>5, <3>1, <3>2, AppendedSignals DEF Reports
  <2>7. StartsFirst'
    <3>1. ASSUME NEW i \in DOMAIN files, NEW m \in DOMAIN runs, IsStart(files[i], m), Carried(m),
                 IsEnd(s, m) \/ (s.event = "SubagentStart" /\ runs'[s.run].agent = runs[m].agent)
          PROVE  files[i].file # "writing"
      <4>1. m = n
        BY <2>4, <3>1 DEF IsEnd
      <4>2. SignalSound(files[i])
        BY DEF Reports, SignalsSound
      <4>3. runs[n].opening = "over"
        BY <1>2, <3>1, <4>1 DEF Reports, RunsSound
      <4> QED
        BY <1>2, <3>1, <4>1, <4>2, <4>3 DEF SignalSound, IsStart
    <3>2. s.event # "SubagentStart" /\ s.file = "writing"
      BY <2>4
    <3> QED
      BY <2>3, <2>5, <3>1, <3>2, AppendedStarts DEF Reports
  <2>8. RunsSound' /\ RecordsSound'
    BY <1>2, <2>1 DEF Reports, RunsSound, RecordsSound, Newer, Carried
  <2>9. RetrySound'
    <3>1. /\ DOMAIN files' = DOMAIN files \cup {Len(files) + 1}
          /\ \A i \in DOMAIN files : files'[i] = files[i]
          /\ files'[Len(files) + 1] = s
      BY <2>3, WriteFacts
    <3>2. retry' = [run |-> n, step |-> "publish"]
      BY <1>1, <1>2, <2>1 DEF Retry
    <3>3. \A i \in DOMAIN files' : files'[i].again /\ files'[i].file = "writing" => i = Len(files) + 1
      BY <1>3, <3>1
    <3>4. retry'.run = n
      BY <3>2
    <3>5. /\ n \in DOMAIN runs /\ runs[n].closing = "over"
          /\ clock /\ Carried(n) /\ Newer(n) = {} => IsKept(n)
      BY <1>1, <1>2 DEF Reports, RetrySound
    <3>6. ASSUME NEW m, m = retry'.run
          PROVE  /\ m \in DOMAIN runs' /\ runs'[m].closing = "over"
                 /\ clock' /\ Carried(m)' /\ Newer(m)' = {} => IsKept(m)'
      BY <1>2, <2>1, <3>4, <3>5, <3>6 DEF Carried, Newer, IsKept
    <3>7. \A i \in DOMAIN files' : files'[i].again /\ files'[i].file = "writing" =>
             retry' = [run |-> files'[i].run, step |-> "publish"]
      BY <2>4, <3>1, <3>2, <3>3
    <3> QED
      BY <3>3, <3>6, <3>7 DEF RetrySound, Carried, Newer, IsKept
  <2> QED
    BY <2>6, <2>7, <2>8, <2>9 DEF Reports
<1>6. CASE ~(Current(n) /\ conv = identity)
  <2>1. retry' = None /\ UNCHANGED files
    BY <1>1, <1>6 DEF RetryIdentified
  <2>2. RetrySound'
    BY <1>3, <2>1 DEF RetrySound
  <2>3. SignalsSound' /\ StartsFirst'
    BY <1>2, <2>1 DEF Reports, SignalsSound, SignalSound, StartsFirst, Newer, Carried, IsStart, IsEnd
  <2>4. CASE Current(n)
    <3>1. End /\ conv # identity
      BY <1>1, <1>6, <2>4 DEF RetryIdentified
    <3>2. records' = [a \in Agent |-> None] /\ identity' = 0
      BY <1>0, <3>1, EndFacts
    <3>3. \A m \in DOMAIN runs : ~Carried(m)
      BY <3>1 DEF Reports, RunsSound
    <3>4. RunsSound'
      BY <1>0, <1>2, <3>2, <3>3 DEF Reports, RunsSound, Newer, Carried
    <3>5. RecordsSound'
      BY <1>0, <1>2, <3>2, <3>3 DEF RecordsSound, Newer, Carried
    <3> QED
      BY <2>2, <2>3, <3>4, <3>5 DEF Reports
  <2>5. CASE ~Current(n)
    <3>1. Schedule(records) /\ identity' = identity
      BY <1>1, <1>6, <2>5 DEF RetryIdentified
    <3>2. \A a \in Agent : \/ records'[a] = records[a]
                           \/ records[a] # None /\ records[a].kept /\ records'[a] = None
      BY <1>0, <3>1, ScheduleFacts
    <3>3. RunsSound'
      BY <1>4, <3>1
    <3>4. RecordsSound'
      BY <1>2, <3>1, <3>2, RecordsStep DEF Reports, RecordsSound
    <3> QED
      BY <2>2, <2>3, <3>3, <3>4 DEF Reports
  <2> QED
    BY <2>4, <2>5
<1> QED
  BY <1>5, <1>6

\* The session id of a retry cannot be read: the attempt counts as a lost one.
LEMMA UnidentifiedReports ==
    ASSUME TypeOK, TypeOK', Bounded, Reports, RetryUnidentified
    PROVE  Reports'
<1>1. PICK n : n = retry.run
  OBVIOUS
<1>2. /\ retry # None /\ retry.step = "id" /\ n \in DOMAIN runs /\ runs[n].closing = "over"
      /\ lost' = lost + 1 /\ RetryOver(n, FALSE)
      /\ UNCHANGED <<conv, identity, runs, files>>
  BY <1>1 DEF RetryUnidentified, Reports, RetrySound, claude
<1>3. /\ retry' = None
      /\ \A a \in Agent : records'[a] # None =>
            /\ records[a] # None
            /\ records'[a].run = records[a].run /\ records'[a].kept = records[a].kept
            /\ records'[a].attempts # records[a].attempts => records'[a].attempts = records[a].attempts + 1
      /\ \A a \in Agent : records[a] # None /\ records'[a] = None => records[a].kept \/ records[a].run = n
  BY <1>2, RetryOverFacts
<1>4. \A a \in Agent : records'[a] # None => records'[a].attempts <= lost'
  <2>1. SUFFICES ASSUME NEW a \in Agent, records'[a] # None PROVE records'[a].attempts <= lost'
    OBVIOUS
  <2>2. records[a] # None /\ records[a] \in Record /\ lost \in Nat
    BY <1>3, <2>1, Shapes
  <2>3. records[a].attempts \in Nat /\ records[a].attempts <= lost
    BY <2>2 DEF Reports, RecordsSound, Record
  <2> QED
    BY <1>2, <1>3, <2>1, <2>2, <2>3
<1>5. RecordsSound'
  BY <1>2, <1>3, <1>4, RecordsStep DEF Reports
<1>6. \A i \in DOMAIN files : ~(files[i].again /\ files[i].file = "writing")
  <2>1. SUFFICES ASSUME NEW i \in DOMAIN files, files[i].again, files[i].file = "writing" PROVE FALSE
    OBVIOUS
  <2>2. retry = [run |-> files[i].run, step |-> "publish"]
    BY <2>1 DEF Reports, RetrySound
  <2> QED
    BY <1>2, <2>2
<1>7. RetrySound'
  BY <1>2, <1>3, <1>6 DEF RetrySound
<1>8. RunsSound' /\ SignalsSound' /\ StartsFirst'
  BY <1>2 DEF Reports, RunsSound, SignalsSound, SignalSound, StartsFirst, Newer, Carried, IsStart, IsEnd
<1> QED
  BY <1>5, <1>7, <1>8 DEF Reports

\* A conversation ends: no run is carried in the next one yet.
LEMMA EndsReports ==
    ASSUME TypeOK, TypeOK', Bounded, Reports, ConversationEnds
    PROVE  Reports'
<1>0. /\ conv \in Nat \ {0} /\ identity \in Nat /\ clock \in BOOLEAN
      /\ \A m \in DOMAIN runs : runs[m] \in Run
      /\ DOMAIN runs = 1..Len(runs) /\ Len(runs) \in Nat
  BY Shapes DEF TypeOK, ReporterTypeOK
<1>1. conv' = conv + 1 /\ UNCHANGED <<runs, retry, lost>> /\ Hook("SessionEnd")
  BY DEF ConversationEnds
<1>2. \A m \in DOMAIN runs : /\ runs[m].owner <= runs[m].conv /\ runs[m].conv <= conv
                             /\ runs[m].owner \in Nat /\ runs[m].conv \in Nat
  BY <1>0 DEF Reports, RunsSound, Run, Conversations
<1>3. \A m \in DOMAIN runs : ~Carried(m)'
  BY <1>0, <1>1, <1>2 DEF Carried
<1>4. \/ records' = [a \in Agent |-> None] /\ identity' = 0
      \/ UNCHANGED <<identity, records>>
  <2>1. End \/ UNCHANGED <<identity, records>>
    BY DEF ConversationEnds
  <2> QED
    BY <1>0, <2>1, EndFacts
<1>5. RunsSound'
  <2>1. identity' <= conv'
    BY <1>0, <1>1, <1>4 DEF Reports, RunsSound
  <2>2. ASSUME NEW m \in DOMAIN runs
        PROVE  runs[m].conv <= conv'
    BY <1>0, <1>1, <1>2
  <2>3. \A m \in DOMAIN runs : runs[m].held \in {0, m} /\ (runs[m].closing = "running" => Newer(m) = {})
    BY DEF Reports, RunsSound
  <2>4. \A m \in DOMAIN runs : Newer(m)' = Newer(m)
    BY <1>1 DEF Newer
  <2> QED
    BY <1>1, <1>2, <1>3, <2>1, <2>2, <2>3, <2>4 DEF RunsSound
<1>6. RecordsSound'
  <2>1. CASE records' = [a \in Agent |-> None] /\ identity' = 0
    BY <1>1, <1>3, <2>1 DEF RecordsSound
  <2>2. CASE UNCHANGED <<identity, records>>
    BY <1>1, <1>3, <2>2 DEF Reports, RecordsSound, Newer
  <2> QED
    BY <1>4, <2>1, <2>2
<1>7. PICK s \in Signals : s = Signal("SessionEnd", 0, 0, env = conv, FALSE) /\ Write(s)
  <2>1. 0 \in 0..MaxEvents /\ (env = conv) \in BOOLEAN
    BY ReporterAssumption
  <2>2. Signal("SessionEnd", 0, 0, env = conv, FALSE) \in Signals
    BY <2>1, SignalTyped DEF Parents
  <2>3. Write(Signal("SessionEnd", 0, 0, env = conv, FALSE))
    BY <1>1 DEF Hook
  <2> HIDE DEF Signals
  <2> QED
    BY <2>2, <2>3
<1>8. s.event = "SessionEnd" /\ s.run = 0 /\ ~s.again /\ s.file = "writing"
  BY <1>7 DEF Signal
<1>9. RunsExtend /\ conv' \in Nat /\ conv <= conv'
  BY <1>0, <1>1, <1>3 DEF RunsExtend
<1>10. SignalsSound'
  <2>1. SignalSound(s)' /\ s.event # "TurnComplete"
    BY <1>8 DEF SignalSound
  <2> QED
    BY <1>7, <1>9, <2>1, AppendedSignals DEF Reports
<1>11. StartsFirst'
  <2>1. s.event # "SubagentStart" /\ s.file = "writing" /\ \A m \in DOMAIN runs : ~IsEnd(s, m)
    BY <1>8 DEF IsEnd
  <2> QED
    BY <1>7, <1>9, <2>1, AppendedStarts DEF Reports
<1>12. RetrySound'
  <2>1. ~s.again
    BY <1>8
  <2>2. ASSUME retry # None, NEW m, m = retry.run
        PROVE  m \in DOMAIN runs /\ runs[m].closing = "over"
    BY <2>2 DEF Reports, RetrySound
  <2>3. RetrySound
    BY DEF Reports
  <2> QED
    BY <1>1, <1>3, <1>7, <2>1, <2>2, <2>3, AppendedRetry DEF RetrySound
<1> QED
  BY <1>5, <1>6, <1>10, <1>11, <1>12 DEF Reports

\* A conversation starts: the records of another one are dropped.
LEMMA BeginsReports ==
    ASSUME TypeOK, TypeOK', Bounded, Reports, ConversationStarts
    PROVE  Reports'
<1>0. conv \in Nat \ {0} /\ identity \in Nat /\ clock \in BOOLEAN /\ lost \in Nat
  BY Shapes DEF TypeOK, ReporterTypeOK
<1>1. UNCHANGED <<conv, runs, retry, files>>
  BY DEF ConversationStarts, claude
<1>2. SignalsSound' /\ StartsFirst'
  BY <1>1 DEF Reports, SignalsSound, SignalSound, StartsFirst, Newer, Carried, IsStart, IsEnd
<1>3. CASE Activate(conv) /\ UNCHANGED lost
  <2>1. /\ identity' = conv /\ (clock' => clock)
        /\ IF identity = conv THEN records' = records ELSE records' = [a \in Agent |-> None]
    BY <1>0, <1>3, ActivateFacts
  <2>2. identity # conv => \A m \in DOMAIN runs : ~Carried(m)
    BY DEF Reports, RunsSound
  <2>3. RunsSound'
    BY <1>0, <1>1, <2>1 DEF Reports, RunsSound, Newer, Carried
  <2>4. RecordsSound'
    <3>1. CASE identity = conv
      BY <1>1, <1>3, <2>1, <3>1 DEF Reports, RecordsSound, Newer, Carried
    <3>2. CASE identity # conv
      <4>1. records' = [a \in Agent |-> None]
        BY <2>1, <3>2
      <4> QED
        BY <1>1, <2>2, <3>2, <4>1 DEF RecordsSound, Carried
    <3> QED
      BY <3>1, <3>2
  <2>5. RetrySound'
    <3>1. ASSUME retry # None, NEW m, m = retry.run
          PROVE  /\ m \in DOMAIN runs /\ runs[m].closing = "over"
                 /\ clock' /\ Carried(m) /\ Newer(m) = {} => IsKept(m)'
      <4>1. m \in DOMAIN runs /\ runs[m].closing = "over" /\ (clock /\ Carried(m) /\ Newer(m) = {} => IsKept(m))
        BY <3>1 DEF Reports, RetrySound
      <4>2. Carried(m) => identity = conv
        BY <2>2, <4>1
      <4> QED
        BY <1>1, <2>1, <4>1, <4>2 DEF IsKept
    <3>2. RetrySound
      BY DEF Reports
    <3> QED
      BY <1>1, <3>1, <3>2 DEF RetrySound, Newer, Carried, IsKept
  <2> QED
    BY <1>2, <2>3, <2>4, <2>5 DEF Reports
<1>4. CASE lost' = lost + 1 /\ UNCHANGED <<identity, records, clock>>
  <2>1. RunsSound'
    BY <1>1, <1>4 DEF Reports, RunsSound, Newer, Carried
  <2>2. \A a \in Agent : records[a] # None => records[a].attempts <= lost'
    <3>1. SUFFICES ASSUME NEW a \in Agent, records[a] # None PROVE records[a].attempts <= lost'
      OBVIOUS
    <3>2. records[a].attempts <= lost /\ records[a].attempts \in Nat
      BY <3>1, Shapes DEF Reports, RecordsSound, Record
    <3> QED
      BY <1>0, <1>4, <3>2
  <2>3. RecordsSound'
    BY <1>1, <1>4, <2>2, RecordsStep DEF Reports
  <2>4. RetrySound'
    BY <1>1, <1>4 DEF Reports, RetrySound, Newer, Carried, IsKept
  <2> QED
    BY <1>2, <2>1, <2>3, <2>4 DEF Reports
<1> QED
  <2>1. \/ Activate(conv) /\ UNCHANGED lost
        \/ lost' = lost + 1 /\ UNCHANGED <<identity, records, clock>>
    BY DEF ConversationStarts
  <2> QED
    BY <1>3, <1>4, <2>1

\* A signal of Claude's own turn.
LEMMA TellsReports ==
    ASSUME TypeOK, TypeOK', Reports, NEW event \in Parents, ParentTells(event)
    PROVE  Reports'
<1>1. UNCHANGED <<conv, runs, identity, records, retry, clock, lost>>
  BY DEF ParentTells, reporter
<1>2. ASSUME NEW b \in BOOLEAN
      PROVE  Signal(event, 0, 0, b, FALSE) \in Signals
  <2>1. 0 \in 0..MaxEvents /\ FALSE \in BOOLEAN /\ event \in Parents \cup {"SubagentStart"}
    BY ReporterAssumption
  <2> QED
    BY <2>1, SignalTyped
<1>3. PICK b \in BOOLEAN : Write(Signal(event, 0, 0, b, FALSE))
  <2>1. CASE event = "TurnComplete"
    BY <2>1 DEF ParentTells, Report
  <2>2. CASE event # "TurnComplete"
    <3>1. Write(Signal(event, 0, 0, env = conv, FALSE)) /\ (env = conv) \in BOOLEAN
      BY <2>2 DEF ParentTells, Hook
    <3> QED
      BY <3>1
  <2> QED
    BY <2>1, <2>2
<1>4. PICK s \in Signals : s = Signal(event, 0, 0, b, FALSE) /\ Write(s)
  <2> HIDE DEF Signals
  <2> QED
    BY <1>2, <1>3
<1>5. s.event = event /\ s.run = 0 /\ ~s.again /\ s.file = "writing"
  BY <1>4 DEF Signal
<1>6. s.event # "SubagentStart"
  BY <1>5 DEF Parents
<1> QED
  BY <1>1, <1>4, <1>5, <1>6, HookReports

\* No step of the reporter breaks what its state and its signals say.
LEMMA ReporterReports ==
    ASSUME TypeOK, TypeOK', Bounded, Reports, ReporterNext
    PROVE  Reports'
<1>1. ASSUME NEW a \in Agent, AgentStarts(a) PROVE Reports'
  BY <1>1, StartReports
<1>2. ASSUME NEW a \in Agent, RetryFires(a) PROVE Reports'
  BY <1>2, FiresReports
<1>3. ASSUME NEW n \in DOMAIN runs, AgentCompletes(n) PROVE Reports'
  BY <1>3, CompletesReports
<1>4. ASSUME NEW n \in DOMAIN runs, CompletionConfirmed(n) PROVE Reports'
  BY <1>4, ConfirmedReports
<1>5. ASSUME NEW n \in DOMAIN runs, AgentVanishes(n) PROVE Reports'
  BY <1>5, VanishesReports
<1>6. ASSUME NEW i \in DOMAIN files, Loses(i) PROVE Reports'
  BY <1>6, LosesReports
<1>7. ASSUME NEW event \in Parents, ParentTells(event) PROVE Reports'
  BY <1>7, TellsReports
<1>8. ASSUME ReadyWritten PROVE Reports'
  <2>1. UNCHANGED <<conv, runs, identity, records, retry, clock, lost, files>>
    BY <1>8 DEF ReadyWritten, claude
  <2> QED
    BY <2>1, SameMoves, BeforeFacts, QuietReports
<1> QED
  BY <1>1, <1>2, <1>3, <1>4, <1>5, <1>6, <1>7, <1>8,
     IdentifiedReports, UnidentifiedReports, EndsReports, BeginsReports DEF ReporterNext

\* Nor does a step of the watcher, of the user or of the session.
LEMMA ReportsStep ==
    ASSUME TypeOK, TypeOK', Bounded, Reports, [Next]_vars
    PROVE  Reports'
<1>1. CASE running /\ ReporterNext /\ HostIdle
  BY <1>1, ReporterReports
<1>2. CASE FileAppears
  <2>1. PICK i \in DOMAIN files : Shows(i)
    BY <1>2 DEF FileAppears
  <2> QED
    BY <2>1, ShowsReports
<1>3. CASE UserEnters \/ SessionRemoved \/ UNCHANGED vars
  <2>1. UNCHANGED <<conv, runs, identity, records, retry, clock, lost, files>>
    BY <1>3 DEF UserEnters, SessionRemoved, vars, reporterVars, reporter, claude
  <2> QED
    BY <2>1, SameMoves, BeforeFacts, QuietReports
<1>4. CASE Ingest
  <2>1. /\ UNCHANGED <<conv, runs, identity, records, retry, clock, lost>>
        /\ Taken = {} /\ files' = Marked(Shown, "taken")
    BY <1>4 DEF Ingest, claude, reporter
  <2>2. Moved(Len(files) + 1)
    <3>1. \A i \in Shown \cap DOMAIN files : files[i].file # "writing"
      BY DEF Shown
    <3> HIDE DEF Shown
    <3> QED
      BY <2>1, <3>1, MarkedMoves
  <2> QED
    BY <2>1, <2>2, BeforeFacts, QuietReports
<1>5. CASE ProcessNext
  <2>1. PICK i \in Taken : files' = RemoveAt(files, i)
    BY <1>5 DEF ProcessNext
  <2>2. UNCHANGED <<conv, runs, identity, records, retry, clock, lost>> /\ i \in DOMAIN files /\ i \in Nat
    BY <1>5, Shapes DEF ProcessNext, Taken, claude, reporter
  <2> QED
    BY <2>1, <2>2, RemovedMoves, QuietReports
<1>6. CASE ProcessStuck
  <2>1. files' = Marked(Taken, "shown") /\ UNCHANGED <<conv, runs, identity, records, retry, clock, lost>>
    BY <1>6 DEF ProcessStuck, claude, reporter
  <2>2. Moved(Len(files) + 1)
    <3>1. \A i \in Taken \cap DOMAIN files : files[i].file # "writing"
      BY DEF Taken
    <3> HIDE DEF Taken
    <3> QED
      BY <2>1, <3>1, MarkedMoves
  <2> QED
    BY <2>1, <2>2, BeforeFacts, QuietReports
<1> QED
  BY <1>1, <1>2, <1>3, <1>4, <1>5, <1>6 DEF Next

----------------------------------------------------------------------------
(* What the panel shows: every step *)

\* Runs are never taken back, nor what they are changed.
LEMMA RunsStay ==
    ASSUME TypeOK, Bounded, SignalsSound, [Next]_vars
    PROVE  /\ DOMAIN runs \subseteq DOMAIN runs'
           /\ \A n \in DOMAIN runs : /\ runs'[n].agent = runs[n].agent /\ runs'[n].conv = runs[n].conv
                                     /\ runs'[n].owner = runs[n].owner
<1> DEFINE Stay == /\ DOMAIN runs \subseteq DOMAIN runs'
                   /\ \A n \in DOMAIN runs :
                        /\ runs'[n].agent = runs[n].agent /\ runs'[n].conv = runs[n].conv
                        /\ runs'[n].owner = runs[n].owner
<1>0. \A n \in DOMAIN runs : runs[n] \in Run
  BY Shapes
<1>1. ASSUME NEW n \in DOMAIN runs, NEW r, runs' = [runs EXCEPT ![n] = r],
             r.agent = runs[n].agent, r.conv = runs[n].conv, r.owner = runs[n].owner
      PROVE  Stay
  BY <1>1
<1>2. ASSUME NEW i \in DOMAIN files, NEW ok \in BOOLEAN, Continue(files[i], ok) PROVE Stay
  <2>1. PICK n : n = files[i].run
    OBVIOUS
  <2>2. \/ runs' = runs
        \/ n \in DOMAIN runs /\ runs' = [runs EXCEPT ![n] = [runs[n] EXCEPT !.opening = "over"]]
        \/ n \in DOMAIN runs /\ runs' = [runs EXCEPT ![n] = [runs[n] EXCEPT !.closing = "over"]]
    BY <1>2, <2>1, ContinueFacts
  <2>3. CASE n \in DOMAIN runs /\ runs' = [runs EXCEPT ![n] = [runs[n] EXCEPT !.opening = "over"]]
    <3> DEFINE r == [runs[n] EXCEPT !.opening = "over"]
    <3>1. r.agent = runs[n].agent /\ r.conv = runs[n].conv /\ r.owner = runs[n].owner
      BY <1>0, <2>3 DEF Run
    <3> HIDE DEF r, Stay
    <3>2. runs' = [runs EXCEPT ![n] = r]
      BY <2>3 DEF r
    <3> QED
      BY <1>1, <2>3, <3>1, <3>2
  <2>4. CASE n \in DOMAIN runs /\ runs' = [runs EXCEPT ![n] = [runs[n] EXCEPT !.closing = "over"]]
    <3> DEFINE r == [runs[n] EXCEPT !.closing = "over"]
    <3>1. r.agent = runs[n].agent /\ r.conv = runs[n].conv /\ r.owner = runs[n].owner
      BY <1>0, <2>4 DEF Run
    <3> HIDE DEF r, Stay
    <3>2. runs' = [runs EXCEPT ![n] = r]
      BY <2>4 DEF r
    <3> QED
      BY <1>1, <2>4, <3>1, <3>2
  <2> QED
    BY <2>2, <2>3, <2>4
<1>3. ASSUME NEW n \in DOMAIN runs, AgentCompletes(n) PROVE Stay
  <2> DEFINE r == [[runs[n] EXCEPT !.closing = "next"] EXCEPT !.held = GenerationOf(runs[n].agent)]
  <2>1. r.agent = runs[n].agent /\ r.conv = runs[n].conv /\ r.owner = runs[n].owner
    BY <1>0 DEF Run
  <2>2. runs' = [runs EXCEPT ![n] = r]
    BY <1>3 DEF AgentCompletes
  <2> HIDE DEF r, Stay
  <2> QED
    BY <1>1, <2>1, <2>2
<1>4. ASSUME NEW n \in DOMAIN runs, CompletionConfirmed(n) PROVE Stay
  <2> DEFINE r == [runs[n] EXCEPT !.closing = "publishing"]
  <2>1. r.agent = runs[n].agent /\ r.conv = runs[n].conv /\ r.owner = runs[n].owner
    BY <1>0 DEF Run
  <2>2. runs' = [runs EXCEPT ![n] = r]
    BY <1>4 DEF CompletionConfirmed
  <2> HIDE DEF r, Stay
  <2> QED
    BY <1>1, <2>1, <2>2
<1>5. ASSUME NEW n \in DOMAIN runs, AgentVanishes(n) PROVE Stay
  <2> DEFINE r == [runs[n] EXCEPT !.closing = "over"]
  <2>1. r.agent = runs[n].agent /\ r.conv = runs[n].conv /\ r.owner = runs[n].owner
    BY <1>0 DEF Run
  <2>2. runs' = [runs EXCEPT ![n] = r]
    BY <1>5 DEF AgentVanishes
  <2> HIDE DEF r, Stay
  <2> QED
    BY <1>1, <2>1, <2>2
<1>6. ASSUME NEW a \in Agent, AgentStarts(a) PROVE Stay
  BY <1>6, StartFacts
<1>7. ASSUME runs' = runs PROVE Stay
  BY <1>7
<1>8. ASSUME NEW i \in DOMAIN files, Loses(i) PROVE Stay
  BY <1>2, <1>8 DEF Loses
<1>9. ASSUME NEW a \in Agent, RetryFires(a) PROVE Stay
  BY <1>7, <1>9 DEF RetryFires
<1>10. ASSUME RetryIdentified \/ RetryUnidentified \/ ConversationEnds \/ ConversationStarts \/ ReadyWritten
       PROVE  Stay
  BY <1>7, <1>10 DEF RetryIdentified, RetryUnidentified, ConversationEnds, ConversationStarts, ReadyWritten
<1>11. ASSUME NEW event \in Parents, ParentTells(event) PROVE Stay
  BY <1>7, <1>11 DEF ParentTells
<1>12. ASSUME NEW i \in DOMAIN files, Shows(i) PROVE Stay
  <2>1. PICK ok \in BOOLEAN : Continue(files[i], ok)
    BY <1>12, ShowsFacts, Zenon
  <2> QED
    BY <1>2, <2>1
<1>13. CASE running /\ ReporterNext /\ HostIdle
  BY <1>3, <1>4, <1>5, <1>6, <1>8, <1>9, <1>10, <1>11, <1>13 DEF ReporterNext
<1>14. CASE FileAppears
  BY <1>12, <1>14 DEF FileAppears
<1>15. CASE UserEnters \/ SessionRemoved \/ Ingest \/ ProcessNext \/ ProcessStuck \/ UNCHANGED vars
  BY <1>7, <1>15 DEF UserEnters, SessionRemoved, Ingest, ProcessNext, ProcessStuck, vars, reporterVars
<1>16. Stay
  BY <1>13, <1>14, <1>15 DEF Next
<1> QED
  BY <1>16 DEF Stay

\* An agent is shown for a run of its own that began.
LEMMA AgentsStep ==
    ASSUME TypeOK, TypeOK', Bounded, SignalsSound, AgentsSound, [Next]_vars
    PROVE  AgentsSound'
<1>0. \A n \in DOMAIN runs : runs[n] \in Run
  BY Shapes
<1>1. /\ DOMAIN runs \subseteq DOMAIN runs'
      /\ \A n \in DOMAIN runs : runs'[n].agent = runs[n].agent /\ runs'[n].conv = runs[n].conv
  BY RunsStay
<1>2. ASSUME \A a \in Agent : agents'[a] \in {None, agents[a]} PROVE AgentsSound'
  BY <1>1, <1>2 DEF AgentsSound
<1>3. ASSUME NEW i \in DOMAIN files, Process(files[i]), runs' = runs PROVE AgentsSound'
  <2>1. PICK n : n = files[i].run
    OBVIOUS
  <2>2. CASE UNCHANGED <<stage, own, agents, activity, unread, count>>
    BY <1>2, <2>2
  <2>3. CASE ~Foreign(files[i]) /\ n \in DOMAIN runs /\ AgentSignal(files[i])
    <3>1. agents' = [agents EXCEPT ![runs[n].agent] =
                        IF files[i].event = "SubagentStart" THEN files[i].gen ELSE None]
      BY <2>1, <2>3, AgentSignalFacts
    <3>2. /\ files[i].gen \in {0, n}
          /\ files[i].event = "SubagentStart" => files[i].conv = runs[n].conv
      BY <2>1, <2>3, Shapes DEF SignalsSound, SignalSound
    <3>3. Known => files[i].conv = 1
      BY <2>3 DEF Foreign
    <3>4. agents \in [Agent -> 0..MaxEvents \cup {None}]
      BY DEF TypeOK
    <3>5. ASSUME NEW a \in Agent, agents'[a] # None
          PROVE  /\ \E m \in DOMAIN runs : runs[m].agent = a
                 /\ agents'[a] # 0 =>
                      /\ agents'[a] \in DOMAIN runs /\ runs[agents'[a]].agent = a
                      /\ Known => runs[agents'[a]].conv = 1
      <4>1. CASE a = runs[n].agent
        <5>1. files[i].event = "SubagentStart" /\ agents'[a] = files[i].gen
          BY <3>1, <3>4, <3>5, <4>1
        <5> QED
          BY <2>3, <3>2, <3>3, <4>1, <5>1
      <4>2. CASE a # runs[n].agent
        <5>1. agents'[a] = agents[a]
          BY <3>1, <3>4, <4>2
        <5> QED
          BY <3>5, <5>1 DEF AgentsSound
      <4> QED
        BY <4>1, <4>2
    <3> QED
      BY <1>3, <3>5 DEF AgentsSound
  <2>4. CASE n = 0 /\ \E viewed, answered \in BOOLEAN : OwnSignal(files[i], viewed, answered)
    <3>1. \A a \in Agent : agents'[a] \in {None, agents[a]}
      BY <2>1, <2>4, OwnSignalFacts
    <3> QED
      BY <1>2, <3>1
  <2> QED
    BY <1>3, <2>1, <2>2, <2>3, <2>4, ProcessFacts
<1>4. CASE running /\ ReporterNext /\ HostIdle
  BY <1>2, <1>4 DEF HostIdle, processor
<1>5. CASE FileAppears
  BY <1>2, <1>5 DEF FileAppears, processor
<1>6. CASE UserEnters \/ Ingest \/ UNCHANGED vars
  BY <1>2, <1>6 DEF UserEnters, Ingest, vars, processor
<1>7. CASE SessionRemoved
  <2>1. agents' = agents \/ agents' = [a \in Agent |-> None]
    BY <1>7 DEF SessionRemoved
  <2> QED
    BY <1>2, <2>1
<1>8. CASE ProcessNext
  <2>1. PICK i \in Taken : Process(files[i])
    BY <1>8 DEF ProcessNext
  <2> QED
    BY <1>3, <1>8, <2>1 DEF ProcessNext, Taken
<1>9. CASE ProcessStuck
  <2>1. PICK i \in Taken : Process(files[i])
    BY <1>9 DEF ProcessStuck
  <2> QED
    BY <1>3, <1>9, <2>1 DEF ProcessStuck, Taken
<1> QED
  BY <1>4, <1>5, <1>6, <1>7, <1>8, <1>9 DEF Next

\* What is shown follows from its parts after every step.
LEMMA ActivityStep ==
    ASSUME TypeOK, Bounded, SignalsSound, RetrySound, AgentsSound, ActivityShown, [Next]_vars
    PROVE  ActivityShown'
<1>1. CASE running /\ ReporterNext /\ HostIdle
  BY <1>1 DEF HostIdle, session, processor, ActivityShown, Busy
<1>2. CASE FileAppears
  BY <1>2 DEF FileAppears, session, processor, ActivityShown, Busy
<1>3. CASE UserEnters
  <2>1. /\ stage' = FALSE /\ own' = "working" /\ activity' = "working"
        /\ count' = Cardinality(Busy(agents)) /\ agents' = agents
    BY <1>3 DEF UserEnters
  <2> QED
    BY <2>1 DEF ActivityShown, Busy
<1>4. CASE SessionRemoved
  BY <1>4 DEF SessionRemoved, ActivityShown
<1>5. CASE Ingest \/ UNCHANGED vars
  BY <1>5 DEF Ingest, vars, session, processor, ActivityShown, Busy
<1>6. CASE ProcessNext
  <2>1. PICK i \in Taken : Process(files[i])
    BY <1>6 DEF ProcessNext
  <2> QED
    BY <1>6, <2>1, ProcessType DEF ProcessNext, Taken
<1>7. CASE ProcessStuck
  <2>1. PICK i \in Taken : Process(files[i])
    BY <1>7 DEF ProcessStuck
  <2> QED
    BY <1>7, <2>1, ProcessType DEF ProcessStuck, Taken
<1> QED
  BY <1>1, <1>2, <1>3, <1>4, <1>5, <1>6, <1>7 DEF Next

----------------------------------------------------------------------------
(* An agent that is over leaves the panel: every step *)

\* What comes for run n still comes, or what comes for it is in its place.
LEMMA StillRecovers ==
    ASSUME TypeOK, Recovery, running, clock, NEW n \in DOMAIN runs,
           Carried(n), runs[n].closing # "running", Appears(n),
           EndComes(n) => EndComes(n)', NewerComes(n) => NewerComes(n)',
           Newer(n)' = {} => Newer(n) = {},
           Newer(n)' # {} /\ Newer(n) = {} => NewerComes(n)',
           IsKept(n) /\ Newer(n)' = {} => IsKept(n)' \/ EndComes(n)',
           lost' \in {lost, lost + 1}
    PROVE  Recovers(n)'
<1>1. /\ lost = 0 => EndComes(n) /\ (Newer(n) # {} => NewerComes(n))
      /\ lost = 1 => EndComes(n) \/ (IF Newer(n) = {} THEN IsKept(n) ELSE NewerComes(n))
  BY DEF Recovery, Recovers
<1>2. lost \in Nat
  BY Shapes
<1>3. lost' = 0 => EndComes(n)' /\ (Newer(n)' # {} => NewerComes(n)')
  BY <1>1, <1>2
<1>4. lost' = 1 => EndComes(n)' \/ (IF Newer(n)' = {} THEN IsKept(n)' ELSE NewerComes(n)')
  <2>1. CASE lost = 0
    BY <1>1, <2>1
  <2>2. CASE lost = 1
    BY <1>1, <2>2
  <2> QED
    BY <1>2, <2>1, <2>2
<1> QED
  BY <1>3, <1>4 DEF Recovers

\* Every signal stays in the directory, and none of a start is written.
FilesStay ==
    /\ \A i \in DOMAIN files : \E j \in DOMAIN files' : SameSignal(files'[j], files[i])
    /\ \A j \in DOMAIN files' : files'[j].event = "SubagentStart" =>
         \E i \in DOMAIN files : SameSignal(files'[j], files[i])

\* Files that are moved on stay.
LEMMA MovedStay ==
    ASSUME TypeOK, Moved(Len(files) + 1)
    PROVE  FilesStay
<1>1. /\ Len(files) + 1 \notin DOMAIN files
      /\ \A j \in DOMAIN files : Before(Len(files) + 1, j) = j
  BY BeforeFacts
<1>2. ASSUME NEW i \in DOMAIN files
      PROVE  \E j \in DOMAIN files' : SameSignal(files'[j], files[i])
  <2>1. i # Len(files) + 1
    BY <1>1
  <2>2. PICK m \in DOMAIN files' : Before(Len(files) + 1, m) = i
    BY <2>1 DEF Moved
  <2>3. SameSignal(files'[m], files[Before(Len(files) + 1, m)])
    BY DEF Moved
  <2> QED
    BY <2>2, <2>3
<1>3. ASSUME NEW j \in DOMAIN files'
      PROVE  \E i \in DOMAIN files : SameSignal(files'[j], files[i])
  BY DEF Moved
<1> QED
  BY <1>2, <1>3 DEF FilesStay

\* Files stay when a signal is written that is not of a start.
LEMMA AppendedStay ==
    ASSUME TypeOK, NEW s \in Signals, Write(s), s.event # "SubagentStart"
    PROVE  FilesStay
<1>1. /\ DOMAIN files' = DOMAIN files \cup {Len(files) + 1}
      /\ \A i \in DOMAIN files : files'[i] = files[i]
      /\ files'[Len(files) + 1] = s
  BY WriteFacts
<1> QED
  BY <1>1 DEF FilesStay, SameSignal

\* As long as the signals stay, a run that is over still leaves the panel.
LEMMA StaysRecovering ==
    ASSUME TypeOK, Recovery, running, clock, SameRuns, conv' = conv, FilesStay,
           NEW n \in DOMAIN runs, Carried(n)', Appears(n)', runs[n].closing # "running",
           runs[n].closing = "next" => EndComes(n)',
           agents'[runs[n].agent] = n => Appears(n),
           IsKept(n) => IsKept(n)' \/ EndComes(n)',
           lost' \in {lost, lost + 1}
    PROVE  Recovers(n)'
<1>1. Newer(n)' = Newer(n) /\ Carried(n) /\ runs'[n].agent = runs[n].agent
  BY SameRunsFacts DEF SameRuns
<1>2. Appears(n)
  <2>1. CASE agents'[runs[n].agent] = n
    BY <2>1
  <2>2. CASE \E j \in DOMAIN files' : IsStart(files[j], n)'
    BY <2>2 DEF FilesStay, SameSignal, IsStart, Appears
  <2> QED
    BY <1>1, <2>1, <2>2 DEF Appears
<1>3. ASSUME EndComes(n) PROVE EndComes(n)'
  <2>1. CASE runs[n].closing = "next"
    BY <2>1
  <2>2. CASE \E i \in DOMAIN files : IsEnd(files[i], n)
    BY <2>2 DEF FilesStay, SameSignal, IsEnd, EndComes
  <2> QED
    BY <1>3, <2>1, <2>2 DEF EndComes
<1>4. ASSUME NewerComes(n) PROVE NewerComes(n)'
  <2>1. PICK i \in DOMAIN files, m \in Newer(n) : IsStart(files[i], m)
    BY <1>4 DEF NewerComes
  <2>2. PICK j \in DOMAIN files' : SameSignal(files'[j], files[i])
    BY DEF FilesStay
  <2>3. IsStart(files[j], m)'
    BY <2>1, <2>2 DEF SameSignal, IsStart
  <2> QED
    BY <1>1, <2>3 DEF NewerComes
<1> QED
  BY <1>1, <1>2, <1>3, <1>4, StillRecovers

\* ... which is all there is to a step that leaves the runs alone.
LEMMA FrameRecovery ==
    ASSUME TypeOK, Recovery, running' => running, clock' => clock, FilesStay,
           UNCHANGED <<runs, conv>>,
           \A n \in DOMAIN runs : agents'[runs[n].agent] = n => Appears(n),
           clock' => records' = records,
           lost' \in {lost, lost + 1}
    PROVE  Recovery'
<1>1. SUFFICES ASSUME running', clock', NEW n \in DOMAIN runs', Carried(n)',
                      runs'[n].closing # "running", Appears(n)'
               PROVE  Recovers(n)'
  BY DEF Recovery, Recovers
<1>2. SameRuns
  BY DEF SameRuns
<1>3. n \in DOMAIN runs /\ runs[n].closing # "running"
  BY <1>1
<1>4. runs[n].closing = "next" => EndComes(n)'
  BY DEF EndComes
<1>5. IsKept(n) => IsKept(n)'
  BY <1>1 DEF IsKept
<1> QED
  BY <1>1, <1>2, <1>3, <1>4, <1>5, StaysRecovering

\* An agent starts: its runs before leave the panel for the start, too.
LEMMA StartRecovery ==
    ASSUME TypeOK, Reports, Recovery, NEW a \in Agent, AgentStarts(a), running' = running, agents' = agents
    PROVE  Recovery'
<1>n. PICK n \in Nat : n = Len(runs) + 1
  BY Shapes
<1>0. /\ DOMAIN runs = 1..Len(runs) /\ Len(runs) \in Nat /\ \A m \in DOMAIN runs : runs[m] \in Run
  BY Shapes
<1>1. PICK s \in Signals :
        /\ s = Signal("SubagentStart", n, IF Versioned(a) THEN n ELSE 0, TRUE, FALSE)
        /\ Write(s)
  BY <1>n, StartFacts
<1>2. s.event = "SubagentStart" /\ s.run = n
  BY <1>1 DEF Signal
<1>3. /\ DOMAIN runs' = DOMAIN runs \cup {n} /\ n \notin DOMAIN runs
      /\ \A m \in DOMAIN runs : runs'[m] = runs[m] /\ m < n
      /\ runs'[n] = Begun(a)
  BY <1>n, StartFacts
<1>4. \A b \in Agent \ {a} : clock' => records'[b] = records[b]
  BY StartFacts
<1>5. UNCHANGED <<conv, lost>>
  BY DEF AgentStarts, claude
<1>6. clock' => clock
  BY StartFacts
<1>7. /\ DOMAIN files' = DOMAIN files \cup {Len(files) + 1}
      /\ \A i \in DOMAIN files : files'[i] = files[i]
      /\ files'[Len(files) + 1] = s
  BY <1>1, WriteFacts
<1>8. runs'[n].closing = "running" /\ runs'[n].agent = a
  BY <1>3 DEF Begun
<1>9. SUFFICES ASSUME running', clock', NEW m \in DOMAIN runs', Carried(m)',
                      runs'[m].closing # "running", Appears(m)'
               PROVE  Recovers(m)'
  BY DEF Recovery, Recovers
<1>10. m \in DOMAIN runs /\ m # n /\ runs'[m] = runs[m]
  BY <1>3, <1>8, <1>9
<1>11. Carried(m) /\ runs[m].closing # "running"
  BY <1>5, <1>9, <1>10 DEF Carried
<1>12. Appears(m)
  BY <1>2, <1>7, <1>9, <1>10 DEF Appears, IsStart
<1>13. /\ runs[m].agent # a => Newer(m)' = Newer(m)
       /\ runs[m].agent = a => Newer(m)' = Newer(m) \cup {n}
  BY <1>3, <1>8, <1>10 DEF Newer
<1>14. EndComes(m) => EndComes(m)'
  BY <1>7, <1>10 DEF EndComes, IsEnd
<1>15. NewerComes(m) => NewerComes(m)'
  BY <1>7, <1>13 DEF NewerComes, IsStart
<1>16. Newer(m)' # {} /\ Newer(m) = {} => NewerComes(m)'
  <2>1. SUFFICES ASSUME Newer(m)' # {}, Newer(m) = {} PROVE NewerComes(m)'
    OBVIOUS
  <2>2. n \in Newer(m)'
    BY <1>13, <2>1
  <2>3. PICK i \in DOMAIN files' : i = Len(files) + 1
    BY <1>7
  <2>4. IsStart(files[i], n)'
    BY <1>2, <1>7, <2>3 DEF IsStart
  <2> QED
    BY <2>2, <2>4 DEF NewerComes
<1>17. IsKept(m) /\ Newer(m)' = {} => IsKept(m)'
  <2>1. SUFFICES ASSUME IsKept(m), Newer(m)' = {} PROVE IsKept(m)'
    OBVIOUS
  <2>2. runs[m].agent # a /\ runs[m].agent \in Agent
    BY <1>0, <1>10, <1>13, <2>1 DEF Run
  <2>3. records'[runs[m].agent] = records[runs[m].agent]
    BY <1>4, <1>9, <2>2
  <2> QED
    BY <1>10, <2>1, <2>3 DEF IsKept
<1> QED
  BY <1>5, <1>6, <1>9, <1>10, <1>11, <1>12, <1>13, <1>14, <1>15, <1>16, <1>17, StillRecovers

\* The handlers of the end of run n go on.
LEMMA ClosingRecovery ==
    ASSUME TypeOK, Reports, Recovery, running' = running, agents' = agents,
           UNCHANGED <<conv, records, clock, lost>>, SameRuns, FilesStay, NEW n \in DOMAIN runs,
           \A m \in DOMAIN runs : m # n => runs'[m] = runs[m],
           Carried(n) => EndComes(n)' /\ (runs[n].closing = "running" => Newer(n) = {})
    PROVE  Recovery'
<1>1. SUFFICES ASSUME running', clock', NEW m \in DOMAIN runs', Carried(m)',
                      runs'[m].closing # "running", Appears(m)'
               PROVE  Recovers(m)'
  BY DEF Recovery, Recovers
<1>2. /\ m \in DOMAIN runs /\ Newer(m)' = Newer(m) /\ Carried(m)
      /\ runs'[m].agent = runs[m].agent
  BY <1>1, SameRunsFacts DEF SameRuns
<1>3. agents'[runs[m].agent] = m => Appears(m)
  BY DEF Appears
<1>4. IsKept(m) => IsKept(m)'
  BY <1>2 DEF IsKept
<1>5. CASE m = n /\ runs[n].closing = "running"
  <2>1. EndComes(m)' /\ Newer(m)' = {}
    BY <1>2, <1>5
  <2> QED
    BY <2>1 DEF Recovers
<1>6. CASE m = n /\ runs[n].closing # "running"
  BY <1>1, <1>2, <1>3, <1>4, <1>6, StaysRecovering
<1>7. CASE m # n
  <2>1. runs'[m] = runs[m]
    BY <1>2, <1>7
  <2>2. runs[m].closing = "next" => EndComes(m)'
    BY <2>1 DEF EndComes
  <2>3. runs[m].closing # "running"
    BY <1>1, <2>1
  <2> QED
    BY <1>1, <1>2, <1>3, <1>4, <2>2, <2>3, StaysRecovering
<1> QED
  BY <1>5, <1>6, <1>7

\* An agent completes, is confirmed or vanishes.
LEMMA CompletesRecovery ==
    ASSUME TypeOK, Bounded, Reports, Recovery, running' = running, agents' = agents,
           NEW n \in DOMAIN runs,
           AgentCompletes(n) \/ CompletionConfirmed(n) \/ AgentVanishes(n)
    PROVE  Recovery'
<1>0. runs[n] \in Run /\ n \in Nat \ {0} /\ conv \in Nat
  BY Shapes
<1>s. RunsSound
  BY DEF Reports
<1>1. CASE AgentCompletes(n)
  <2> DEFINE new == [[runs[n] EXCEPT !.closing = "next"] EXCEPT !.held = GenerationOf(runs[n].agent)]
  <2>1. /\ UNCHANGED <<conv, records, clock, lost, files>> /\ runs[n].closing = "running"
        /\ runs' = [runs EXCEPT ![n] = new]
    BY <1>1 DEF AgentCompletes, claude, reporter
  <2>2. new.agent = runs[n].agent /\ new.conv = runs[n].conv /\ new.owner = runs[n].owner /\ new.closing = "next"
    BY <1>0 DEF Run
  <2> HIDE DEF new
  <2>3. /\ SameRuns /\ runs'[n].closing = "next"
        /\ \A m \in DOMAIN runs : m # n => runs'[m] = runs[m]
    BY <2>1, <2>2 DEF SameRuns
  <2>4. EndComes(n)' /\ Newer(n) = {}
    BY <1>s, <2>1, <2>3 DEF EndComes, RunsSound
  <2>5. FilesStay
    BY <2>1, SameMoves, MovedStay
  <2> QED
    BY <2>1, <2>3, <2>4, <2>5, ClosingRecovery
<1>2. CASE CompletionConfirmed(n)
  <2> DEFINE new == [runs[n] EXCEPT !.closing = "publishing"]
  <2>1. /\ UNCHANGED <<conv, records, clock, lost>> /\ runs[n].closing = "next"
        /\ runs' = [runs EXCEPT ![n] = new]
        /\ Write(Signal("TurnComplete", n, runs[n].held, TRUE, FALSE))
    BY <1>2 DEF CompletionConfirmed, claude, reporter, Report
  <2>2. new.agent = runs[n].agent /\ new.conv = runs[n].conv /\ new.owner = runs[n].owner
    BY <1>0 DEF Run
  <2> HIDE DEF new
  <2>3. /\ SameRuns
        /\ \A m \in DOMAIN runs : m # n => runs'[m] = runs[m]
    BY <2>1, <2>2 DEF SameRuns
  <2>4. PICK s \in Signals : s = Signal("TurnComplete", n, runs[n].held, TRUE, FALSE) /\ Write(s)
    <3>1. n \in 0..MaxEvents /\ runs[n].held \in 0..MaxEvents
      <4>1. n \in Runs /\ MaxEvents \in Nat
        BY RunsBounded, ReporterAssumption DEF Bounded
      <4> QED
        BY <1>0, <4>1 DEF Run, Runs
    <3>2. Signal("TurnComplete", n, runs[n].held, TRUE, FALSE) \in Signals
      BY <3>1, SignalTyped DEF Parents
    <3> HIDE DEF Signals
    <3> QED
      BY <2>1, <3>2
  <2>5. s.event = "TurnComplete" /\ s.run = n
    BY <2>4 DEF Signal
  <2>6. FilesStay
    BY <2>4, <2>5, AppendedStay
  <2>7. /\ DOMAIN files' = DOMAIN files \cup {Len(files) + 1}
        /\ files'[Len(files) + 1] = s
    BY <2>4, WriteFacts
  <2>8. EndComes(n)'
    BY <2>5, <2>7 DEF EndComes, IsEnd
  <2> QED
    BY <2>1, <2>3, <2>6, <2>8, ClosingRecovery
<1>3. CASE AgentVanishes(n)
  <2> DEFINE new == [runs[n] EXCEPT !.closing = "over"]
  <2>1. /\ UNCHANGED <<conv, records, clock, lost, files>> /\ runs[n].conv # conv
        /\ runs' = [runs EXCEPT ![n] = new]
    BY <1>3 DEF AgentVanishes, claude, reporter
  <2>2. new.agent = runs[n].agent /\ new.conv = runs[n].conv /\ new.owner = runs[n].owner
    BY <1>0 DEF Run
  <2> HIDE DEF new
  <2>3. /\ SameRuns
        /\ \A m \in DOMAIN runs : m # n => runs'[m] = runs[m]
    BY <2>1, <2>2 DEF SameRuns
  <2>4. ~Carried(n)
    <3>1. runs[n].owner <= runs[n].conv /\ runs[n].conv <= conv
      BY <1>s DEF RunsSound
    <3>2. runs[n].conv \in Nat /\ runs[n].owner \in Nat
      BY <1>0 DEF Run, Conversations
    <3> QED
      BY <1>0, <2>1, <3>1, <3>2 DEF Carried
  <2>5. FilesStay
    BY <2>1, SameMoves, MovedStay
  <2> QED
    BY <2>1, <2>3, <2>4, <2>5, ClosingRecovery
<1> QED
  BY <1>1, <1>2, <1>3

\* The runs after what waited for a writer went on.
LEMMA ContinueRuns ==
    ASSUME TypeOK, Bounded, SignalsSound, NEW i \in DOMAIN files, files[i].file = "writing",
           NEW ok \in BOOLEAN, Continue(files[i], ok)
    PROVE  /\ SameRuns /\ (clock' => clock)
           /\ \A m \in DOMAIN runs :
                /\ runs[m].closing = "next" => runs'[m].closing = "next"
                /\ runs[m].closing = "running" => runs'[m].closing = "running"
<1>0. \A m \in DOMAIN runs : runs[m] \in Run
  BY Shapes
<1>1. PICK n : n = files[i].run
  OBVIOUS
<1>2. \/ n = 0 /\ UNCHANGED <<runs, records, retry, clock>>
      \/ /\ n \in DOMAIN runs /\ files[i].again /\ files[i].event = "TurnComplete"
         /\ RetryOver(n, ok) /\ runs' = runs
      \/ /\ n \in DOMAIN runs /\ ~files[i].again /\ files[i].event = "SubagentStart"
         /\ runs' = [runs EXCEPT ![n] = [runs[n] EXCEPT !.opening = "over"]]
         /\ UNCHANGED <<records, retry, clock>>
      \/ /\ n \in DOMAIN runs /\ ~files[i].again /\ files[i].event = "TurnComplete"
         /\ runs' = [runs EXCEPT ![n] = [runs[n] EXCEPT !.closing = "over"]]
         /\ Completed(n)
  BY <1>1, ContinueFacts
<1>3. CASE runs' = runs
  <2>1. clock' => clock
    BY <1>2, RetryOverFacts, CompletedFacts
  <2> QED
    BY <1>3, <2>1 DEF SameRuns
<1>4. CASE /\ n \in DOMAIN runs
           /\ runs' = [runs EXCEPT ![n] = [runs[n] EXCEPT !.opening = "over"]]
           /\ UNCHANGED <<records, retry, clock>>
  <2> DEFINE new == [runs[n] EXCEPT !.opening = "over"]
  <2>1. new.agent = runs[n].agent /\ new.conv = runs[n].conv /\ new.owner = runs[n].owner
        /\ new.closing = runs[n].closing
    BY <1>0, <1>4 DEF Run
  <2>2. runs' = [runs EXCEPT ![n] = new] /\ clock' = clock
    BY <1>4
  <2> HIDE DEF new
  <2> QED
    BY <2>1, <2>2 DEF SameRuns
<1>5. CASE /\ n \in DOMAIN runs /\ ~files[i].again /\ files[i].event = "TurnComplete"
           /\ runs' = [runs EXCEPT ![n] = [runs[n] EXCEPT !.closing = "over"]]
           /\ Completed(n)
  <2> DEFINE new == [runs[n] EXCEPT !.closing = "over"]
  <2>1. new.agent = runs[n].agent /\ new.conv = runs[n].conv /\ new.owner = runs[n].owner
    BY <1>0, <1>5 DEF Run
  <2>2. runs' = [runs EXCEPT ![n] = new]
    BY <1>5
  <2> HIDE DEF new
  <2>3. runs[n].closing = "publishing"
    <3>1. SignalSound(files[i]) /\ n # 0
      BY <1>5, Shapes DEF SignalsSound
    <3> QED
      BY <1>1, <1>5, <3>1 DEF SignalSound
  <2>4. clock' => clock
    BY <1>5, CompletedFacts
  <2> QED
    BY <2>1, <2>2, <2>3, <2>4 DEF SameRuns
<1> QED
  BY <1>2, <1>3, <1>4, <1>5

\* A kept record stays, unless its retry was successful.
LEMMA ContinueKeeps ==
    ASSUME TypeOK, Bounded, Reports, NEW i \in DOMAIN files, files[i].file = "writing",
           NEW ok \in BOOLEAN, Continue(files[i], ok), NEW m \in DOMAIN runs, IsKept(m),
           ~IsEnd(files[i], m)
    PROVE  clock' => IsKept(m)'
<1>0. runs[m].agent \in Agent /\ m # 0
  BY Shapes DEF Run
<1>s. SignalsSound
  BY DEF Reports
<1>1. PICK n : n = files[i].run
  OBVIOUS
<1>2. \/ n = 0 /\ UNCHANGED <<runs, records, retry, clock>>
      \/ /\ n \in DOMAIN runs /\ files[i].again /\ files[i].event = "TurnComplete"
         /\ RetryOver(n, ok) /\ runs' = runs
      \/ /\ n \in DOMAIN runs /\ ~files[i].again /\ files[i].event = "SubagentStart"
         /\ runs' = [runs EXCEPT ![n] = [runs[n] EXCEPT !.opening = "over"]]
         /\ UNCHANGED <<records, retry, clock>>
      \/ /\ n \in DOMAIN runs /\ ~files[i].again /\ files[i].event = "TurnComplete"
         /\ runs' = [runs EXCEPT ![n] = [runs[n] EXCEPT !.closing = "over"]]
         /\ Completed(n)
  BY <1>1, <1>s, ContinueFacts
<1>3. runs'[m].agent = runs[m].agent
  BY <1>s, ContinueRuns DEF SameRuns
<1>4. PICK a \in Agent : a = runs[m].agent
  BY <1>0
<1>5. records[a] # None /\ records[a].run = m /\ records[a].kept
  BY <1>4 DEF IsKept
<1>k. ASSUME n \in DOMAIN runs, RetryOver(n, ok)
      PROVE  clock' => \A b \in Agent : records[b] # None /\ records[b].run # n => records'[b] # None
  <2>1. clock' => \A b \in Agent :
          records[b] # None /\ (records[b].run # n \/ (~ok /\ records[b].attempts # 2)) => records'[b] # None
    BY <1>k, RetryOverFacts, Zenon
  <2>2. ASSUME clock', NEW b \in Agent, records[b] # None, records[b].run # n
        PROVE  records'[b] # None
    BY <2>1, <2>2, Zenon
  <2> QED
    BY <2>2, Zenon
<1>6. ASSUME clock' PROVE records'[a] # None /\ records'[a].run = m /\ records'[a].kept
  <2>1. CASE UNCHANGED records
    BY <1>5, <2>1
  <2>2. CASE n \in DOMAIN runs /\ files[i].event = "TurnComplete" /\ RetryOver(n, ok)
    <3>1. n # m
      BY <1>1, <2>2 DEF IsEnd
    <3>3. records[a].run # n
      BY <1>5, <3>1
    <3>2. records'[a] # None
      BY <1>5, <1>6, <1>k, <2>2, <3>3, Zenon
    <3> QED
      BY <1>5, <2>2, <3>2, RetryOverFacts
  <2>3. CASE n \in DOMAIN runs /\ Completed(n)
    <3>1. records'[a] # None
      BY <1>5, <1>6, <2>3, CompletedFacts
    <3>2. records'[a] = records[a]
      BY <1>5, <2>3, <3>1, CompletedFacts
    <3> QED
      BY <1>5, <3>1, <3>2
  <2> QED
    BY <1>2, <2>1, <2>2, <2>3
<1> QED
  BY <1>3, <1>4, <1>6 DEF IsKept

\* A file appears.
LEMMA ShowsRecovery ==
    ASSUME TypeOK, Bounded, Reports, Recovery, NEW i \in DOMAIN files, Shows(i),
           running' = running, agents' = agents
    PROVE  Recovery'
<1>1. files[i].file = "writing" /\ files' = [files EXCEPT ![i].file = "shown"] /\ conv' = conv
  BY ShowsFacts
<1>2. PICK ok \in BOOLEAN : Continue(files[i], ok)
  BY ShowsFacts, Zenon
<1>3. lost' \in {lost, lost + 1}
  BY ShowsFacts
<1>4. FilesStay
  BY <1>1, ShownMoves, MovedStay
<1>5. /\ SameRuns /\ (clock' => clock)
      /\ \A m \in DOMAIN runs :
           /\ runs[m].closing = "next" => runs'[m].closing = "next"
           /\ runs[m].closing = "running" => runs'[m].closing = "running"
  BY <1>1, <1>2, ContinueRuns DEF Reports
<1>6. SUFFICES ASSUME running', clock', NEW m \in DOMAIN runs', Carried(m)',
                      runs'[m].closing # "running", Appears(m)'
               PROVE  Recovers(m)'
  BY DEF Recovery, Recovers
<1>7. m \in DOMAIN runs /\ runs[m].closing # "running"
  BY <1>5, <1>6 DEF SameRuns
<1>8. runs[m].closing = "next" => EndComes(m)'
  BY <1>5, <1>7 DEF EndComes
<1>9. agents'[runs[m].agent] = m => Appears(m)
  BY DEF Appears
<1>10. IsKept(m) => IsKept(m)' \/ EndComes(m)'
  <2>1. CASE IsEnd(files[i], m)
    <3>1. PICK j \in DOMAIN files' : SameSignal(files'[j], files[i])
      BY <1>4 DEF FilesStay
    <3>2. IsEnd(files[j], m)'
      BY <2>1, <3>1 DEF SameSignal, IsEnd
    <3> QED
      BY <3>2 DEF EndComes
  <2>2. CASE ~IsEnd(files[i], m)
    BY <1>1, <1>2, <1>6, <1>7, <2>2, ContinueKeeps
  <2> QED
    BY <2>1, <2>2
<1> QED
  BY <1>1, <1>3, <1>4, <1>5, <1>6, <1>7, <1>8, <1>9, <1>10, StaysRecovering

\* A lost end of a run is kept for a retry, and so is a lost retry.
LEMMA LostEndKept ==
    ASSUME TypeOK, Bounded, Reports, NEW i \in DOMAIN files, files[i].file = "writing",
           Continue(files[i], FALSE), clock, clock', lost = 0,
           NEW n \in DOMAIN runs, IsEnd(files[i], n), Carried(n), Newer(n) = {},
           runs[n].closing # "running"
    PROVE  IsKept(n)'
<1>s. SignalsSound
  BY DEF Reports
<1>0. runs[n] \in Run /\ n # 0 /\ files[i].event = "TurnComplete" /\ files[i].run = n
  BY Shapes DEF IsEnd
<1>1. \/ files[i].again /\ RetryOver(n, FALSE)
      \/ ~files[i].again /\ Completed(n)
  BY <1>0, <1>s, ContinueFacts
<1>2. runs'[n].agent = runs[n].agent
  BY <1>s, ContinueRuns DEF SameRuns
<1>3. PICK a \in Agent : a = runs[n].agent
  BY <1>0 DEF Run
<1>4. CASE files[i].again /\ RetryOver(n, FALSE)
  <2>1. retry = [run |-> n, step |-> "publish"]
    BY <1>0, <1>4 DEF Reports, RetrySound
  <2>2. retry # None /\ retry.run = n
    <3>1. n \in Runs
      BY RunsBounded DEF Bounded
    <3>2. retry \in Retry
      BY <2>1, <3>1 DEF Retry
    <3> QED
      BY <2>1, <3>2, NoneIsNoRecord
  <2>3. IsKept(n)
    BY <2>2 DEF Reports, RetrySound
  <2>4. records[a] # None /\ records[a].run = n /\ records[a].kept
    BY <1>3, <2>3 DEF IsKept
  <2>5. records[a].attempts # 2
    <3>1. records[a].attempts <= lost
      BY <2>4 DEF Reports, RecordsSound
    <3> QED
      BY <3>1
  <2>6. records'[a] # None
    BY <1>4, <2>4, <2>5, RetryOverFacts
  <2>7. records'[a].run = n /\ records'[a].kept
    BY <1>4, <2>4, <2>6, RetryOverFacts
  <2> QED
    BY <1>2, <1>3, <2>6, <2>7 DEF IsKept
<1>5. CASE ~files[i].again /\ Completed(n)
  <2>1. runs[n].closing = "publishing" /\ runs[n].held = n
    <3>1. runs[n].closing = "publishing"
      BY <1>0, <1>5, <1>s DEF SignalsSound, SignalSound
    <3>2. runs[n].held = n
      BY <3>1 DEF Reports, RunsSound
    <3> QED
      BY <3>1, <3>2
  <2>2. records[a] # None /\ records[a].run = n /\ ~records[a].kept
    BY <1>3, <2>1 DEF Reports, RecordsSound
  <2>3. records'[a] # None /\ records'[a].kept
    <3>1. \A b \in Agent : records[b] # None =>
            /\ records'[b] # None
            /\ b = runs[n].agent /\ runs[n].held # 0 /\ records[b].run = runs[n].held => records'[b].kept
      BY <1>5, CompletedFacts, Zenon
    <3> QED
      BY <1>0, <1>3, <2>1, <2>2, <3>1
  <2>4. records'[a] = records[a] \/ records'[a] = [run |-> n, kept |-> TRUE, attempts |-> 0]
    BY <1>5, <2>3, CompletedFacts
  <2>5. records'[a].run = n
    BY <2>2, <2>4
  <2> QED
    BY <1>2, <1>3, <2>3, <2>5 DEF IsKept
<1> QED
  BY <1>1, <1>4, <1>5

\* A file is lost: of what comes for a run, at most one is.
LEMMA LosesRecovery ==
    ASSUME TypeOK, Bounded, Reports, Recovery, NEW i \in DOMAIN files, Loses(i),
           running' = running, agents' = agents
    PROVE  Recovery'
<1>1. /\ files[i].file = "writing" /\ files' = RemoveAt(files, i) /\ Continue(files[i], FALSE)
      /\ lost' = lost + 1 /\ conv' = conv
  BY DEF Loses, claude
<1>2. Moved(i) /\ lost \in Nat
  BY <1>1, RemovedMoves, Shapes
<1>3. /\ SameRuns /\ (clock' => clock)
      /\ \A m \in DOMAIN runs :
           /\ runs[m].closing = "next" => runs'[m].closing = "next"
           /\ runs[m].closing = "running" => runs'[m].closing = "running"
  BY <1>1, ContinueRuns DEF Reports
<1>4. /\ \A j \in DOMAIN files : j # i => \E h \in DOMAIN files' : SameSignal(files'[h], files[j])
      /\ \A h \in DOMAIN files' : \E j \in DOMAIN files : SameSignal(files'[h], files[j])
  BY <1>2 DEF Moved
<1>5. SUFFICES ASSUME running', clock', NEW n \in DOMAIN runs', Carried(n)',
                      runs'[n].closing # "running", Appears(n)'
               PROVE  Recovers(n)'
  BY DEF Recovery, Recovers
<1>6. n \in DOMAIN runs /\ runs[n].closing # "running" /\ Carried(n) /\ Newer(n)' = Newer(n)
      /\ runs'[n].agent = runs[n].agent
  BY <1>1, <1>3, <1>5, SameRunsFacts DEF SameRuns
<1>7. Appears(n)
  <2>1. CASE agents'[runs'[n].agent] = n
    BY <1>6, <2>1 DEF Appears
  <2>2. CASE \E h \in DOMAIN files' : IsStart(files[h], n)'
    BY <1>4, <2>2 DEF SameSignal, IsStart, Appears
  <2> QED
    BY <1>5, <2>1, <2>2 DEF Appears
<1>8. CASE lost # 0
  <2>1. lost' # 0 /\ lost' # 1
    BY <1>1, <1>2, <1>8
  <2> QED
    BY <2>1 DEF Recovers
<1>9. CASE lost = 0
  <2>1. lost' = 1
    BY <1>1, <1>9
  <2>2. EndComes(n) /\ (Newer(n) # {} => NewerComes(n))
    BY <1>3, <1>5, <1>6, <1>7, <1>9 DEF Recovery, Recovers
  <2>3. ASSUME NEW j \in DOMAIN files, IsEnd(files[j], n), j # i
        PROVE  EndComes(n)'
    <3>1. PICK h \in DOMAIN files' : SameSignal(files'[h], files[j])
      BY <1>4, <2>3
    <3>2. IsEnd(files[h], n)'
      BY <2>3, <3>1 DEF SameSignal, IsEnd
    <3> QED
      BY <3>2 DEF EndComes
  <2>4. runs[n].closing = "next" => EndComes(n)'
    BY <1>3, <1>6 DEF EndComes
  <2>5. CASE IsEnd(files[i], n)
    <3>1. CASE Newer(n) = {}
      <4>1. IsKept(n)'
        BY <1>1, <1>3, <1>5, <1>6, <1>9, <2>5, <3>1, LostEndKept
      <4> QED
        BY <1>6, <2>1, <3>1, <4>1 DEF Recovers
    <3>2. CASE Newer(n) # {}
      <4>1. PICK j \in DOMAIN files, m \in Newer(n) : IsStart(files[j], m)
        BY <2>2, <3>2 DEF NewerComes
      <4>2. j # i
        BY <2>5, <4>1 DEF IsEnd, IsStart
      <4>3. PICK h \in DOMAIN files' : SameSignal(files'[h], files[j])
        BY <1>4, <4>2
      <4>4. IsStart(files[h], m)'
        BY <4>1, <4>3 DEF SameSignal, IsStart
      <4>5. NewerComes(n)'
        BY <1>6, <4>4 DEF NewerComes
      <4> QED
        BY <1>6, <2>1, <3>2, <4>5 DEF Recovers
    <3> QED
      BY <3>1, <3>2
  <2>6. CASE ~IsEnd(files[i], n)
    <3>1. EndComes(n)'
      <4>1. CASE runs[n].closing = "next"
        BY <2>4, <4>1
      <4>2. CASE \E j \in DOMAIN files : IsEnd(files[j], n)
        BY <2>3, <2>6, <4>2
      <4> QED
        BY <2>2, <4>1, <4>2 DEF EndComes
    <3> QED
      BY <2>1, <3>1 DEF Recovers
  <2> QED
    BY <2>5, <2>6
<1> QED
  BY <1>8, <1>9
\* The session id of a retry arrives.
LEMMA IdentifiedRecovery ==
    ASSUME TypeOK, Bounded, Reports, Recovery, RetryIdentified, running' = running, agents' = agents
    PROVE  Recovery'
<1>0. /\ clock \in BOOLEAN /\ records \in [Agent -> Record \cup {None}]
      /\ \A m \in DOMAIN runs : runs[m] \in Run
  BY Shapes DEF TypeOK, ReporterTypeOK
<1>1. PICK n : n = retry.run
  OBVIOUS
<1>2. /\ retry # None /\ UNCHANGED <<conv, runs, lost>>
      /\ n \in DOMAIN runs /\ n # 0
  <2>1. retry # None /\ UNCHANGED <<conv, runs, lost>>
    BY DEF RetryIdentified, claude
  <2> QED
    BY <1>1, <2>1, Shapes DEF Reports, RetrySound
<1>3. \A m \in DOMAIN runs : agents'[runs[m].agent] = m => Appears(m)
  BY DEF Appears
<1>4. CASE Current(n) /\ conv = identity
  <2>1. Report("TurnComplete", n, n, TRUE) /\ UNCHANGED <<records, clock>>
    BY <1>1, <1>4 DEF RetryIdentified
  <2>2. PICK s \in Signals : s = Signal("TurnComplete", n, n, TRUE, TRUE) /\ Write(s)
    <3>1. n \in 0..MaxEvents
      <4>1. n \in Runs /\ MaxEvents \in Nat
        BY <1>2, RunsBounded, ReporterAssumption DEF Bounded
      <4> QED
        BY <4>1 DEF Runs
    <3>2. Signal("TurnComplete", n, n, TRUE, TRUE) \in Signals
      BY <3>1, SignalTyped DEF Parents
    <3>3. Write(Signal("TurnComplete", n, n, TRUE, TRUE))
      BY <2>1 DEF Report
    <3> HIDE DEF Signals
    <3> QED
      BY <3>2, <3>3
  <2>3. FilesStay
    <3>1. s.event # "SubagentStart"
      BY <2>2 DEF Signal
    <3> QED
      BY <2>2, <3>1, AppendedStay
  <2> QED
    BY <1>2, <1>3, <2>1, <2>3, FrameRecovery
<1>5. CASE Current(n) /\ conv # identity
  <2>1. \A m \in DOMAIN runs' : ~Carried(m)'
    BY <1>2, <1>5 DEF Carried, Reports, RunsSound
  <2> QED
    BY <2>1 DEF Recovery, Recovers
<1>6. CASE ~Current(n)
  <2>1. Schedule(records) /\ files' = files
    BY <1>1, <1>6 DEF RetryIdentified
  <2>2. clock' => clock /\ records' = records
    BY <1>0, <2>1, ScheduleFacts
  <2>3. clock' => clock
    BY <2>2
  <2>4. clock' => records' = records
    BY <2>2
  <2>5. FilesStay
    BY <2>1, SameMoves, MovedStay
  <2> QED
    BY <1>2, <1>3, <2>3, <2>4, <2>5, FrameRecovery
<1> QED
  BY <1>4, <1>5, <1>6

\* It cannot be read: the first attempt to fail leaves the record for another.
LEMMA UnidentifiedRecovery ==
    ASSUME TypeOK, Bounded, Reports, Recovery, RetryUnidentified, running' = running, agents' = agents
    PROVE  Recovery'
<1>1. PICK n : n = retry.run
  OBVIOUS
<1>2. /\ n \in DOMAIN runs /\ lost' = lost + 1 /\ RetryOver(n, FALSE)
      /\ UNCHANGED <<conv, runs, files>>
  BY <1>1 DEF RetryUnidentified, Reports, RetrySound, claude
<1>3. clock' => clock
  BY <1>2, RetryOverFacts
<1>4. FilesStay
  BY <1>2, SameMoves, MovedStay
<1>5. lost \in Nat /\ \A m \in DOMAIN runs : runs[m].agent \in Agent
  BY Shapes DEF Run
<1>6. SUFFICES ASSUME running', clock', NEW m \in DOMAIN runs', Carried(m)',
                      runs'[m].closing # "running", Appears(m)'
               PROVE  Recovers(m)'
  BY DEF Recovery, Recovers
<1>7. CASE lost # 0
  <2>1. lost' # 0 /\ lost' # 1
    BY <1>2, <1>5, <1>7
  <2> QED
    BY <2>1 DEF Recovers
<1>8. CASE lost = 0
  <2>1. SameRuns /\ m \in DOMAIN runs /\ runs[m].closing # "running"
    BY <1>2, <1>6 DEF SameRuns
  <2>2. runs[m].closing = "next" => EndComes(m)'
    BY <1>2 DEF EndComes
  <2>3. agents'[runs[m].agent] = m => Appears(m)
    BY DEF Appears
  <2>4. ASSUME IsKept(m) PROVE IsKept(m)'
    <3>1. PICK a \in Agent : a = runs[m].agent
      BY <1>5, <2>1
    <3>2. records[a] # None /\ records[a].run = m /\ records[a].kept
      BY <2>4, <3>1 DEF IsKept
    <3>3. records[a].attempts # 2
      <4>1. records[a].attempts <= lost
        BY <3>2 DEF Reports, RecordsSound
      <4> QED
        BY <1>8, <4>1
    <3>4. records'[a] # None
      BY <1>2, <1>6, <3>2, <3>3, RetryOverFacts
    <3>5. records'[a].run = m /\ records'[a].kept
      BY <1>2, <3>2, <3>4, RetryOverFacts
    <3> QED
      BY <1>2, <3>1, <3>4, <3>5 DEF IsKept
  <2> QED
    BY <1>2, <1>3, <1>4, <1>6, <2>1, <2>2, <2>3, <2>4, StaysRecovering
<1> QED
  BY <1>7, <1>8

\* The conversation ends: its runs are no longer carried.
LEMMA EndsRecovery ==
    ASSUME TypeOK, Reports, ConversationEnds
    PROVE  Recovery'
<1>0. conv \in Nat /\ \A m \in DOMAIN runs : runs[m] \in Run
  BY Shapes
<1>1. conv' = conv + 1 /\ runs' = runs
  BY DEF ConversationEnds
<1>2. \A m \in DOMAIN runs : /\ runs[m].owner <= runs[m].conv /\ runs[m].conv <= conv
                             /\ runs[m].owner \in Nat /\ runs[m].conv \in Nat
  BY <1>0 DEF Reports, RunsSound, Run, Conversations
<1>3. \A m \in DOMAIN runs : ~Carried(m)'
  BY <1>0, <1>1, <1>2 DEF Carried
<1> QED
  BY <1>1, <1>3 DEF Recovery, Recovers

\* A conversation starts, or its session id cannot be had.
LEMMA BeginsRecovery ==
    ASSUME TypeOK, Reports, Recovery, ConversationStarts, running' = running, agents' = agents
    PROVE  Recovery'
<1>0. clock \in BOOLEAN
  BY DEF TypeOK, ReporterTypeOK
<1>1. UNCHANGED <<conv, runs, files>>
  BY DEF ConversationStarts, claude
<1>2. FilesStay
  BY <1>1, SameMoves, MovedStay
<1>3. \A m \in DOMAIN runs : agents'[runs[m].agent] = m => Appears(m)
  BY DEF Appears
<1>4. CASE Activate(conv) /\ UNCHANGED lost
  <2>1. /\ clock' => clock
        /\ identity = conv => records' = records
    BY <1>0, <1>4, ActivateFacts
  <2>2. CASE identity = conv
    BY <1>1, <1>2, <1>3, <1>4, <2>1, <2>2, FrameRecovery
  <2>3. CASE identity # conv
    <3>1. \A m \in DOMAIN runs' : ~Carried(m)'
      BY <1>1, <2>3 DEF Carried, Reports, RunsSound
    <3> QED
      BY <3>1 DEF Recovery, Recovers
  <2> QED
    BY <2>2, <2>3
<1>5. CASE lost' = lost + 1 /\ UNCHANGED <<identity, records, clock>>
  BY <1>1, <1>2, <1>3, <1>5, FrameRecovery
<1> QED
  <2>1. \/ Activate(conv) /\ UNCHANGED lost
        \/ lost' = lost + 1 /\ UNCHANGED <<identity, records, clock>>
    BY DEF ConversationStarts
  <2> QED
    BY <1>4, <1>5, <2>1

\* Claude tells of its own turn.
LEMMA TellsRecovery ==
    ASSUME TypeOK, Recovery, NEW event \in Parents, ParentTells(event), running' = running, agents' = agents
    PROVE  Recovery'
<1>1. UNCHANGED <<conv, runs, records, clock, lost>>
  BY DEF ParentTells, reporter
<1>2. ASSUME NEW b \in BOOLEAN
      PROVE  Signal(event, 0, 0, b, FALSE) \in Signals
  <2>1. 0 \in 0..MaxEvents /\ FALSE \in BOOLEAN /\ event \in Parents \cup {"SubagentStart"}
    BY ReporterAssumption
  <2> QED
    BY <2>1, SignalTyped
<1>3. PICK b \in BOOLEAN : Write(Signal(event, 0, 0, b, FALSE))
  <2>1. CASE event = "TurnComplete"
    BY <2>1 DEF ParentTells, Report
  <2>2. CASE event # "TurnComplete"
    <3>1. Write(Signal(event, 0, 0, env = conv, FALSE)) /\ (env = conv) \in BOOLEAN
      BY <2>2 DEF ParentTells, Hook
    <3> QED
      BY <3>1
  <2> QED
    BY <2>1, <2>2
<1>4. PICK s \in Signals : s = Signal(event, 0, 0, b, FALSE) /\ Write(s)
  <2> HIDE DEF Signals
  <2> QED
    BY <1>2, <1>3
<1>5. s.event # "SubagentStart"
  BY <1>4 DEF Signal, Parents
<1>6. FilesStay
  BY <1>4, <1>5, AppendedStay
<1> QED
  BY <1>1, <1>6, FrameRecovery DEF Appears

\* A step of Claude, of its hooks or of the reporter.
LEMMA ReporterRecovery ==
    ASSUME TypeOK, Bounded, Reports, Recovery, ReporterNext, running' = running, agents' = agents
    PROVE  Recovery'
<1>1. ASSUME NEW a \in Agent, AgentStarts(a) PROVE Recovery'
  BY <1>1, StartRecovery
<1>2. ASSUME NEW a \in Agent, RetryFires(a) PROVE Recovery'
  <2>1. UNCHANGED <<conv, runs, records, clock, files, lost>>
    BY <1>2 DEF RetryFires, claude
  <2> QED
    BY <2>1, SameMoves, MovedStay, FrameRecovery DEF Appears
<1>3. ASSUME NEW n \in DOMAIN runs, AgentCompletes(n) \/ CompletionConfirmed(n) \/ AgentVanishes(n)
      PROVE  Recovery'
  BY <1>3, CompletesRecovery
<1>4. ASSUME NEW i \in DOMAIN files, Loses(i) PROVE Recovery'
  BY <1>4, LosesRecovery
<1>5. ASSUME NEW event \in Parents, ParentTells(event) PROVE Recovery'
  BY <1>5, TellsRecovery
<1>6. ASSUME ReadyWritten PROVE Recovery'
  <2>1. UNCHANGED <<conv, runs, records, clock, files, lost>>
    BY <1>6 DEF ReadyWritten, claude
  <2> QED
    BY <2>1, SameMoves, MovedStay, FrameRecovery DEF Appears
<1> QED
  BY <1>1, <1>2, <1>3, <1>4, <1>5, <1>6,
     IdentifiedRecovery, UnidentifiedRecovery, EndsRecovery, BeginsRecovery DEF ReporterNext

\* A run that is shown was so before, unless its start is processed.
LEMMA ShownBefore ==
    ASSUME TypeOK, Bounded, SignalsSound, AgentsSound, NEW i \in DOMAIN files, Process(files[i]),
           NEW n \in DOMAIN runs, agents'[runs[n].agent] = n
    PROVE  agents[runs[n].agent] = n \/ IsStart(files[i], n)
<1>0. /\ n \in Nat \ {0} /\ n # None /\ runs[n].agent \in Agent /\ None # 0
      /\ agents \in [Agent -> 0..MaxEvents \cup {None}]
  BY Shapes, ReporterAssumption DEF Run, TypeOK
<1>1. PICK m : m = files[i].run
  OBVIOUS
<1>2. CASE agents' = agents
  BY <1>2
<1>3. CASE m \in DOMAIN runs /\ AgentSignal(files[i])
  <2>1. agents' = [agents EXCEPT ![runs[m].agent] =
                     IF files[i].event = "SubagentStart" THEN files[i].gen ELSE None]
    BY <1>1, <1>3, AgentSignalFacts
  <2>2. files[i].gen \in {0, m}
    BY <1>1, <1>3, Shapes DEF SignalsSound, SignalSound
  <2>3. CASE runs[m].agent = runs[n].agent
    <3>1. files[i].event = "SubagentStart" /\ files[i].gen = n
      BY <1>0, <2>1, <2>3
    <3> QED
      BY <1>0, <1>1, <2>2, <3>1 DEF IsStart
  <2>4. CASE runs[m].agent # runs[n].agent
    BY <1>0, <2>1, <2>4
  <2> QED
    BY <2>3, <2>4
<1>4. CASE m = 0 /\ \E viewed, answered \in BOOLEAN : OwnSignal(files[i], viewed, answered)
  <2>1. agents'[runs[n].agent] \in {None, agents[runs[n].agent]}
    BY <1>0, <1>1, <1>4, OwnSignalFacts
  <2> QED
    BY <1>0, <2>1
<1> QED
  BY <1>1, <1>2, <1>3, <1>4, ProcessFacts

\* The end of a run that is carried takes it from the panel, and so does the
\* start of a newer run of its agent.
LEMMA ProcessGone ==
    ASSUME TypeOK, Bounded, RunsSound, SignalsSound, AgentsSound, running,
           NEW i \in DOMAIN files, Process(files[i]),
           NEW n \in DOMAIN runs, Carried(n),
           IsEnd(files[i], n) \/ \E m \in Newer(n) : IsStart(files[i], m)
    PROVE  agents'[runs[n].agent] # n
<1>0. /\ n \in Nat \ {0} /\ n # None /\ None # 0 /\ conv \in Nat \ {0}
      /\ DOMAIN runs \subseteq Nat \ {0}
      /\ \A m \in DOMAIN runs : runs[m] \in Run
      /\ agents \in [Agent -> 0..MaxEvents \cup {None}]
  BY Shapes, ReporterAssumption DEF TypeOK
<1>1. PICK m : m = files[i].run
  OBVIOUS
<1>2. /\ m \in DOMAIN runs /\ m # 0 /\ runs[m].agent = runs[n].agent
      /\ files[i].event \in {"SubagentStart", "TurnComplete"}
      /\ files[i].event = "TurnComplete" => m = n
      /\ files[i].event = "SubagentStart" => n < m
  BY <1>0, <1>1 DEF IsEnd, IsStart, Newer
<1>3. /\ files[i].ready /\ files[i].gen \in {0, m}
      /\ runs[m].conv <= files[i].conv /\ files[i].conv <= conv
      /\ files[i].event = "TurnComplete" => files[i].gen = n
  BY <1>1, <1>2 DEF SignalsSound, SignalSound
<1>4. /\ runs[m].conv \in Nat \ {0} /\ runs[n].conv \in Nat \ {0} /\ runs[n].agent \in Agent
      /\ files[i].conv \in Nat
  <2>1. \A c \in Conversations : c \in Nat \ {0}
    BY DEF Conversations
  <2>2. runs[m].conv \in Conversations /\ runs[n].conv \in Conversations /\ runs[n].agent \in Agent
    BY <1>0, <1>2 DEF Run
  <2>3. files[i].conv \in Conversations
    BY Shapes DEF Signals
  <2> QED
    BY <2>1, <2>2, <2>3
<1>5. CASE Foreign(files[i]) /\ agents' = agents
  <2>1. Known /\ files[i].conv # 1
    BY <1>5 DEF Foreign
  <2>2. SUFFICES ASSUME agents[runs[n].agent] = n PROVE FALSE
    BY <1>5
  <2>3. runs[n].conv = 1
    BY <1>0, <1>4, <2>1, <2>2 DEF AgentsSound
  <2>4. runs[n].owner <= 1 /\ runs[n].owner = conv
    BY <2>3 DEF RunsSound, Carried
  <2>5. conv = 1
    BY <1>0, <2>4
  <2> QED
    BY <1>3, <1>4, <2>1, <2>5
<1>6. CASE Disowned(files[i]) /\ agents' = agents
  <2>1. files[i].event = "TurnComplete" /\ agents[runs[m].agent] # files[i].gen
    BY <1>1, <1>2, <1>3, <1>6 DEF Disowned, OfAgent
  <2> QED
    BY <1>2, <1>3, <1>6, <2>1
<1>7. CASE AgentSignal(files[i])
  <2>1. agents'[runs[n].agent] = IF files[i].event = "SubagentStart" THEN files[i].gen ELSE None
    BY <1>0, <1>1, <1>2, <1>4, <1>7, AgentSignalFacts
  <2> QED
    BY <1>0, <1>2, <1>3, <2>1
<1> QED
  BY <1>1, <1>2, <1>5, <1>6, <1>7, ProcessFacts

\* The start of a run that is carried is processed before its end, and before
\* the start of a newer run.
LEMMA StartBehind ==
    ASSUME TypeOK, StartsFirst, NEW i \in Taken, \A j \in Taken : i <= j,
           NEW n \in DOMAIN runs, Carried(n),
           IsEnd(files[i], n) \/ \E m \in Newer(n) : IsStart(files[i], m),
           NEW j \in DOMAIN files, IsStart(files[j], n)
    PROVE  FALSE
<1>1. /\ i \in DOMAIN files /\ files[i].file = "taken" /\ i \in Nat /\ j \in Nat
      /\ n \in Nat /\ DOMAIN runs \subseteq Nat
  BY Shapes DEF Taken
<1>2. files[j].file = "taken"
  BY <1>1 DEF StartsFirst
<1>3. i <= j /\ i # j
  BY <1>1, <1>2 DEF Taken, IsStart, IsEnd, Newer
<1>4. files[i].run < n
  BY <1>1, <1>3 DEF StartsFirst, IsStart
<1>5. files[i].run = n \/ (files[i].run \in Nat /\ n < files[i].run)
  BY <1>1 DEF IsEnd, IsStart, Newer
<1> QED
  BY <1>1, <1>4, <1>5

\* A signal is processed and its file stays: it only shows what it did.
LEMMA StuckRecovery ==
    ASSUME TypeOK, Bounded, Reports, AgentsSound, Recovery, ProcessStuck
    PROVE  Recovery'
<1>1. PICK i \in Taken : Process(files[i]) /\ files' = Marked(Taken, "shown")
  BY DEF ProcessStuck
<1>2. UNCHANGED <<runs, conv, records, clock, lost, running>> /\ i \in DOMAIN files
  BY DEF ProcessStuck, claude, reporter, Taken
<1>3. FilesStay
  <2>1. \A j \in Taken \cap DOMAIN files : files[j].file # "writing"
    BY DEF Taken
  <2>2. Moved(Len(files) + 1)
    <3> HIDE DEF Taken
    <3> QED
      BY <1>1, <2>1, MarkedMoves
  <2> QED
    BY <2>2, MovedStay
<1>4. \A n \in DOMAIN runs : agents'[runs[n].agent] = n => Appears(n)
  BY <1>1, <1>2, ShownBefore DEF Appears, Reports
<1> QED
  BY <1>2, <1>3, <1>4, FrameRecovery

\* A signal is processed and its file removed.
LEMMA NextRecovery ==
    ASSUME TypeOK, Bounded, Reports, AgentsSound, Recovery, ProcessNext
    PROVE  Recovery'
<1>1. PICK i \in Taken : /\ \A j \in Taken : i <= j
                         /\ Process(files[i]) /\ files' = RemoveAt(files, i)
  BY DEF ProcessNext
<1>2. UNCHANGED <<runs, conv, records, clock, lost, running>> /\ i \in DOMAIN files
  BY DEF ProcessNext, claude, reporter, Taken
<1>3. Moved(i)
  BY <1>1, <1>2, RemovedMoves
<1>4. /\ \A j \in DOMAIN files : j # i => \E h \in DOMAIN files' : SameSignal(files'[h], files[j])
      /\ \A h \in DOMAIN files' : \E j \in DOMAIN files : SameSignal(files'[h], files[j])
  BY <1>3 DEF Moved
<1>5. SUFFICES ASSUME running', clock', NEW n \in DOMAIN runs', Carried(n)',
                      runs'[n].closing # "running", Appears(n)'
               PROVE  Recovers(n)'
  BY DEF Recovery, Recovers
<1>6. /\ n \in DOMAIN runs /\ Carried(n) /\ runs[n].closing # "running" /\ Newer(n)' = Newer(n)
      /\ running
  BY <1>2, <1>5 DEF Carried, Newer
<1>7. ASSUME IsEnd(files[i], n) \/ \E m \in Newer(n) : IsStart(files[i], m)
      PROVE  FALSE
  <2>1. agents'[runs[n].agent] # n
    BY <1>1, <1>2, <1>6, <1>7, ProcessGone DEF Reports
  <2>2. PICK h \in DOMAIN files' : IsStart(files[h], n)'
    BY <1>2, <1>5, <2>1 DEF Appears
  <2>3. PICK j \in DOMAIN files : SameSignal(files'[h], files[j])
    BY <1>4
  <2>4. IsStart(files[j], n)
    BY <2>2, <2>3 DEF SameSignal, IsStart
  <2> QED
    BY <1>1, <1>6, <1>7, <2>4, StartBehind DEF Reports
<1>8. Appears(n)
  <2>1. CASE agents'[runs[n].agent] = n
    BY <1>1, <1>2, <1>6, <2>1, ShownBefore DEF Appears, Reports
  <2>2. CASE \E h \in DOMAIN files' : IsStart(files[h], n)'
    BY <1>4, <2>2 DEF SameSignal, IsStart, Appears
  <2> QED
    BY <1>2, <1>5, <2>1, <2>2 DEF Appears
<1>9. EndComes(n) => EndComes(n)'
  <2>1. CASE runs[n].closing = "next"
    BY <1>2, <2>1 DEF EndComes
  <2>2. ASSUME NEW j \in DOMAIN files, IsEnd(files[j], n) PROVE EndComes(n)'
    <3>1. PICK h \in DOMAIN files' : SameSignal(files'[h], files[j])
      BY <1>4, <1>7, <2>2
    <3>2. IsEnd(files[h], n)'
      BY <2>2, <3>1 DEF SameSignal, IsEnd
    <3> QED
      BY <3>2 DEF EndComes
  <2> QED
    BY <2>1, <2>2 DEF EndComes
<1>10. NewerComes(n) => NewerComes(n)'
  <2>1. ASSUME NEW j \in DOMAIN files, NEW m \in Newer(n), IsStart(files[j], m) PROVE NewerComes(n)'
    <3>1. PICK h \in DOMAIN files' : SameSignal(files'[h], files[j])
      BY <1>4, <1>7, <2>1
    <3>2. IsStart(files[h], m)'
      BY <2>1, <3>1 DEF SameSignal, IsStart
    <3> QED
      BY <1>6, <3>2 DEF NewerComes
  <2> QED
    BY <2>1 DEF NewerComes
<1>11. IsKept(n) => IsKept(n)'
  BY <1>2 DEF IsKept
<1>12. clock
  BY <1>2, <1>5
<1> QED
  BY <1>2, <1>6, <1>8, <1>9, <1>10, <1>11, <1>12, StillRecovers

\* No step leaves an agent in the panel for good that does not run.
LEMMA RecoveryStep ==
    ASSUME TypeOK, Bounded, Reports, AgentsSound, Recovery, [Next]_vars
    PROVE  Recovery'
<1>1. CASE running /\ ReporterNext /\ HostIdle
  BY <1>1, ReporterRecovery DEF HostIdle, session, processor
<1>2. CASE FileAppears
  <2>1. PICK i \in DOMAIN files : Shows(i)
    BY <1>2 DEF FileAppears
  <2> QED
    BY <1>2, <2>1, ShowsRecovery DEF FileAppears, session, processor
<1>3. CASE UserEnters \/ UNCHANGED vars
  <2>1. UNCHANGED <<conv, runs, records, clock, lost, files, running, agents>>
    BY <1>3 DEF UserEnters, vars, reporterVars, reporter, claude, session, processor
  <2> QED
    BY <2>1, SameMoves, MovedStay, FrameRecovery DEF Appears
<1>4. CASE SessionRemoved
  BY <1>4 DEF SessionRemoved, Recovery
<1>5. CASE Ingest
  <2>1. /\ UNCHANGED <<conv, runs, records, clock, lost, running, agents>>
        /\ Taken = {} /\ files' = Marked(Shown, "taken")
    BY <1>5 DEF Ingest, claude, reporter, session, processor
  <2>2. FilesStay
    <3>1. \A i \in Shown \cap DOMAIN files : files[i].file # "writing"
      BY DEF Shown
    <3>2. Moved(Len(files) + 1)
      <4> HIDE DEF Shown
      <4> QED
        BY <2>1, <3>1, MarkedMoves
    <3> QED
      BY <3>2, MovedStay
  <2> QED
    BY <2>1, <2>2, FrameRecovery DEF Appears
<1> QED
  BY <1>1, <1>2, <1>3, <1>4, <1>5, NextRecovery, StuckRecovery DEF Next

----------------------------------------------------------------------------
(* The invariant *)

\* Nothing has run, and nothing is shown.
LEMMA InitIInv ==
    ASSUME Init
    PROVE  IInv
<1> USE DEF Init, ReporterInit
<1>0. runs = <<>> /\ files = <<>> /\ DOMAIN runs = {} /\ DOMAIN files = {} /\ Len(runs) = 0
  OBVIOUS
<1>1. TypeOK
  <2>1. {MaxRecords, MaxEvents} \subseteq Nat \ {0} /\ MaxLost \in Nat /\ MaxStuck \in Nat
    BY ReporterAssumption, WatcherAssumption
  <2>2. 1 \in Conversations /\ 0 \in 0..MaxEvents /\ 0 \in 0..MaxLost /\ 0 \in 0..MaxStuck
    BY <2>1 DEF Conversations
  <2>3. runs \in Seq(Run) /\ files \in Seq(Signals)
    <3> HIDE DEF Run, Signals
    <3> QED
      BY <1>0
  <2>4. ReporterTypeOK
    <3> HIDE DEF Run, Signals, Record, Retry, Conversations
    <3> QED
      BY <2>2, <2>3 DEF ReporterTypeOK
  <2> HIDE DEF ReporterTypeOK
  <2> QED
    BY <2>2, <2>4 DEF TypeOK, Activities
<1>2. Bounded
  BY <1>0, ReporterAssumption DEF Bounded, Goes
<1>3. RunsSound /\ RecordsSound /\ RetrySound
  BY <1>0 DEF RunsSound, RecordsSound, RetrySound
<1>4. SignalsSound /\ StartsFirst
  BY <1>0 DEF SignalsSound, StartsFirst
<1>5. AgentsSound
  BY DEF AgentsSound
<1>6. Recovery
  BY <1>0 DEF Recovery
<1>7. ActivityShown
  <2>1. Busy(agents) = {}
    BY DEF Busy
  <2>2. count = Cardinality(Busy(agents))
    BY <2>1, FS_EmptySet
  <2> QED
    BY <2>1, <2>2 DEF ActivityShown
<1> QED
  BY <1>1, <1>2, <1>3, <1>4, <1>5, <1>6, <1>7 DEF IInv

\* Every step keeps the invariant.
LEMMA StepIInv ==
    ASSUME IInv, [Next]_vars
    PROVE  IInv'
<1>1. /\ TypeOK /\ Bounded /\ Reports /\ SignalsSound /\ RetrySound
      /\ AgentsSound /\ Recovery /\ ActivityShown
  BY DEF IInv, Reports
<1>2. TypeOK' /\ Bounded'
  BY <1>1, TypeStep
<1>3. Reports'
  BY <1>1, <1>2, ReportsStep
<1>4. AgentsSound'
  BY <1>1, <1>2, AgentsStep
<1>5. Recovery'
  BY <1>1, RecoveryStep
<1>6. ActivityShown'
  BY <1>1, ActivityStep
<1> QED
  BY <1>2, <1>3, <1>4, <1>5, <1>6 DEF IInv, Reports

\* The invariant holds: what the runs, the records, the signals and the panel
\* say of each other, whatever was lost or could not be removed.
THEOREM Invariance == Spec => []IInv
<1>1. Init => IInv
  BY InitIInv
<1>2. IInv /\ [Next]_vars => IInv'
  BY StepIInv
<1> QED
  BY <1>1, <1>2, PTL DEF Spec

\* Every variable keeps its type, the bounds included.
THEOREM TypeCorrect == Spec => []TypeOK
<1>1. IInv => TypeOK
  BY DEF IInv
<1> QED
  BY <1>1, Invariance, PTL

\* At rest the agents shown under a run of this conversation run.
LEMMA RestShowsRunning ==
    ASSUME IInv, AtRest, running, clock, lost <= 1,
           NEW a \in Agent, agents[a] \notin {None, 0}, runs[agents[a]].owner = conv
    PROVE  runs[agents[a]].closing = "running"
<1>1. PICK n : n = agents[a]
  OBVIOUS
<1>2. n \in DOMAIN runs /\ runs[n].agent = a
  BY <1>1 DEF IInv, AgentsSound
<1>3. Appears(n) /\ Carried(n)
  BY <1>1, <1>2 DEF Appears, Carried
<1>4. Recovers(n)
  BY <1>2 DEF IInv, Recovery
<1>5. SUFFICES ASSUME runs[n].closing # "running" PROVE FALSE
  BY <1>1
<1>6. files = <<>> /\ DOMAIN files = {} /\ runs[n].closing = "over"
  BY <1>2, <1>5 DEF AtRest
<1>7. ~EndComes(n) /\ ~NewerComes(n)
  BY <1>6 DEF EndComes, NewerComes
<1>8. ~IsKept(n)
  BY <1>2 DEF AtRest, Kept, IsKept
<1>9. lost \in {0, 1}
  BY Shapes DEF IInv
<1> QED
  BY <1>3, <1>4, <1>5, <1>7, <1>8, <1>9 DEF Recovers

\* The panel shows of a running session what its parts say; when nothing is
\* under way and one publication at most was lost, the agents it shows for the
\* present conversation run; and a retry reports under the conversation of its
\* run.
THEOREM ActivityAgreesAlways == Spec => []ActivityAgrees
<1>1. IInv => ActivityAgrees
  <2>1. SUFFICES ASSUME IInv PROVE ActivityAgrees
    OBVIOUS
  <2>2. running =>
          /\ count = Cardinality(Busy(agents))
          /\ stage => activity # "working"
          /\ ~stage /\ Busy(agents) # {} => activity = "working"
          /\ ~stage /\ Busy(agents) = {} /\ own # None => activity = own
    BY <2>1 DEF IInv, ActivityShown
  <2>3. AtRest /\ running /\ clock /\ lost <= 1 =>
          \A a \in Agent : agents[a] \notin {None, 0} /\ runs[agents[a]].owner = conv =>
              runs[agents[a]].closing = "running"
    BY <2>1, RestShowsRunning
  <2>4. \A i \in DOMAIN files : files[i].again => files[i].conv = runs[files[i].run].conv
    BY <2>1 DEF IInv, SignalsSound, SignalSound
  <2> QED
    BY <2>2, <2>3, <2>4, Zenon DEF ActivityAgrees
<1> QED
  BY <1>1, Invariance, PTL

----------------------------------------------------------------------------
(* Whose end takes an agent from the panel *)

\* What a signal of an agent does to the processor and the panel.
OwnRunEnds(s) ==
    /\ unread' = unread /\ stage' = stage
    /\ own # None => own' = own
    /\ \A a \in Agent :
         agents[a] \notin {None, 0} /\ agents'[a] # agents[a] =>
             runs[s.run].agent = a
             /\ (s.event = "TurnComplete" => s.run = agents[a])

\* ... and it does just that.
LEMMA ProcessEndsOwn ==
    ASSUME IInv, NEW i \in DOMAIN files, Process(files[i]), ~Foreign(files[i]), OfAgent(files[i])
    PROVE  OwnRunEnds(files[i])
<1>1. PICK n : n = files[i].run
  OBVIOUS
<1>2. CASE UNCHANGED <<stage, own, agents, activity, unread, count>>
  BY <1>2 DEF OwnRunEnds
<1>3. CASE ~Disowned(files[i]) /\ n \in DOMAIN runs /\ AgentSignal(files[i])
  <2>1. /\ agents' = [agents EXCEPT ![runs[n].agent] =
                        IF files[i].event = "SubagentStart" THEN files[i].gen ELSE None]
        /\ UNCHANGED <<stage, unread>> /\ (own # None => own' = own)
    BY <1>1, <1>3, AgentSignalFacts DEF IInv
  <2>2. files[i].gen \in {0, n}
    BY <1>1, <1>3, Shapes DEF IInv, SignalsSound, SignalSound
  <2>3. agents \in [Agent -> 0..MaxEvents \cup {None}]
    BY DEF IInv, TypeOK
  <2>4. ASSUME NEW a \in Agent, agents[a] \notin {None, 0}, agents'[a] # agents[a]
        PROVE  runs[n].agent = a /\ (files[i].event = "TurnComplete" => n = agents[a])
    <3>1. runs[n].agent = a
      BY <2>1, <2>3, <2>4
    <3>2. ASSUME files[i].event = "TurnComplete" PROVE n = agents[a]
      <4>1. agents[a] = files[i].gen
        BY <1>1, <1>3, <3>1, <3>2 DEF Disowned, OfAgent
      <4> QED
        BY <2>2, <2>4, <4>1
    <3> QED
      BY <3>1, <3>2
  <2> QED
    BY <1>1, <2>1, <2>4 DEF OwnRunEnds
<1> QED
  BY <1>1, <1>2, <1>3, ProcessFacts DEF OfAgent, IInv

\* The batch is finite.
LEMMA TakenFinite ==
    ASSUME TypeOK
    PROVE  Cardinality(Taken) \in Nat
<1>1. Taken \subseteq 1..Len(files) /\ Len(files) \in Nat
  BY Shapes DEF Taken
<1>2. IsFiniteSet(1..Len(files))
  BY <1>1, FS_Interval
<1> QED
  BY <1>1, <1>2, FS_Subset, FS_CardinalityType

\* A signal is taken from the batch only when it is processed.
LEMMA BatchStep ==
    ASSUME IInv, [Next]_vars, NEW i \in Taken, Cardinality(Taken') < Cardinality(Taken),
           \A j \in Taken : i <= j, ~Foreign(files[i]), OfAgent(files[i])
    PROVE  OwnRunEnds(files[i])
<1>0. i \in DOMAIN files /\ i \in Nat /\ Taken \subseteq Nat
  BY Shapes DEF IInv, Taken
<1>1. CASE UNCHANGED processor /\ UNCHANGED session
  BY <1>1 DEF OwnRunEnds, processor, session
<1>2. CASE UserEnters \/ SessionRemoved
  <2>1. files' = files
    BY <1>2 DEF UserEnters, SessionRemoved, reporterVars
  <2>2. Taken' = Taken
    BY <2>1 DEF Taken
  <2>3. Cardinality(Taken) \in Nat
    BY TakenFinite DEF IInv
  <2> QED
    BY <2>2, <2>3
<1>3. ASSUME NEW k \in Taken, \A j \in Taken : k <= j, Process(files[k])
      PROVE  OwnRunEnds(files[i])
  <2>1. k = i
    BY <1>0, <1>3
  <2> QED
    BY <1>0, <1>3, <2>1, ProcessEndsOwn
<1>4. CASE ProcessNext
  BY <1>3, <1>4 DEF ProcessNext
<1>5. CASE ProcessStuck
  BY <1>3, <1>5 DEF ProcessStuck
<1> QED
  BY <1>1, <1>2, <1>4, <1>5 DEF Next, HostIdle, FileAppears, Ingest, vars

\* An agent shown under a generation leaves the panel for the end of just that
\* run, and no report of an agent touches the question, the mark or the turn of
\* Claude itself.
THEOREM OnlyOwnRunEndsAlways == Spec => OnlyOwnRunEnds
<1>1. IInv /\ [Next]_vars =>
        [\A i \in Taken :
           /\ Cardinality(Taken') < Cardinality(Taken) /\ \A j \in Taken : i <= j
           /\ ~Foreign(files[i]) /\ OfAgent(files[i])
           => /\ unread' = unread /\ stage' = stage
              /\ own # None => own' = own
              /\ \A a \in Agent :
                   agents[a] \notin {None, 0} /\ agents'[a] # agents[a] =>
                       runs[files[i].run].agent = a
                       /\ (files[i].event = "TurnComplete" => files[i].run = agents[a])]_vars
  BY BatchStep DEF OwnRunEnds
<1> QED
  BY <1>1, Invariance, PTL DEF Spec, OnlyOwnRunEnds
=============================================================================
