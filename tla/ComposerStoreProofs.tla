------------------------- MODULE ComposerStoreProofs -------------------------
(***************************************************************************)
(* Proofs about ComposerStore, for any number of conversations, sessions   *)
(* and edits.  That nothing is kept twice holds whether or not a           *)
(* conversation may be resumed before the save of its ended session is     *)
(* over; that no draft is lost, the second half of the module, where none  *)
(* is.                                                                     *)
(***************************************************************************)
EXTENDS ComposerStore, TLAPS

----------------------------------------------------------------------------
(* The inductive invariant *)

Submitting == {"resave", "record", "clear"}
StepOf(kind) == CASE kind = "resave" -> "saving" [] kind = "record" -> "recording" [] OTHER -> "clearing"

\* A submission that was accepted has one operation in the queue at a time,
\* the one of its step, and is of a text that is not empty.
SubmissionsTracked ==
    /\ \A i \in 1..Len(queue) : queue[i].kind \in Submitting =>
         /\ sending[queue[i].uuid] # None
         /\ sending[queue[i].uuid].step = StepOf(queue[i].kind)
         /\ queue[i].kind # "resave" => queue[i].draft.text # 0
    /\ \A i, j \in 1..Len(queue) :
         {queue[i].kind, queue[j].kind} \subseteq Submitting /\ queue[i].uuid = queue[j].uuid => i = j
    /\ \A u \in Uuid : sending[u] # None => sending[u].draft.text # 0

\* A restore knows its destination, a deletion has its tombstone.
OpsSound ==
    \A i \in 1..Len(queue) :
        /\ queue[i].kind = "transfer" => queue[i].to \in Uuid
        /\ queue[i].kind = "forget" => queue[i].uuid \in forgotten /\ queue[i].draft.text = 0

\* The document under way is the change of the first operation, or what is
\* shown when that is undone.
WriteSound ==
    writing # None =>
        /\ queue # <<>>
        /\ LET op == Head(queue) IN
           /\ op.kind \in {"record", "clear", "transfer"} => shown[op.uuid] # None
           /\ op.kind = "transfer" => shown[op.to] = None
           /\ writing.undo => op.kind \in {"record", "clear", "transfer"} /\ writing.document.sessions = shown
           /\ ~writing.undo =>
                /\ writing.document.sessions = Replaced(op)
                /\ op.kind \in {"forget", "transfer"} => op.uuid \in writing.document.forgotten

\* The conversation u may yet store or show the text t.
Shows(u, t) == shown[u] # None /\ shown[u].draft.text = t
Holds(u, t) ==
    \/ Shows(u, t)
    \/ writing # None /\ Head(queue).uuid = u /\ Head(queue).draft.text = t
    \/ /\ u \notin forgotten
       /\ \/ working[u].text = t
          \/ failed[u] # None /\ failed[u].text = t
          \/ \E i \in 1..Len(queue) : queue[i].uuid = u /\ queue[i].draft.text = t
          \/ sending[u] # None /\ sending[u].draft.text = t
          \/ restoring # None /\ restoring.uuid = u /\ restoring.draft.text = t
OnDisk(u, t) == disk.sessions[u] # None /\ disk.sessions[u].draft.text = t

\* A text has one conversation in the window and one in storage (which differ
\* when a restore was stored and not undone), and is one that was typed.
OneHolder ==
    \A t \in 1..MaxTyped : \A u, v \in Uuid :
        /\ Holds(u, t) /\ Holds(v, t) => u = v
        /\ OnDisk(u, t) /\ OnDisk(v, t) => u = v
        /\ Holds(u, t) \/ OnDisk(u, t) => t <= typed

\* What was erased is in no document, the one under way included.
ErasedGone ==
    \A u \in erased :
        /\ u \in forgotten /\ u \in disk.forgotten
        /\ shown[u] = None /\ disk.sessions[u] = None
        /\ writing # None => u \in writing.document.forgotten /\ writing.document.sessions[u] = None

IInv == TypeOK /\ SubmissionsTracked /\ OpsSound /\ WriteSound /\ OneHolder /\ ErasedGone

----------------------------------------------------------------------------
(* What the operations make of the sessions *)

\* What an operation makes of the shown sessions is sessions again.
LEMMA ReplacedTypes ==
    ASSUME TypeOK, NEW op \in Operations,
           op.kind \in {"record", "clear", "transfer"} => shown[op.uuid] # None,
           op.kind = "transfer" => op.to \in Uuid,
           op.kind = "record" => op.draft.text # 0
    PROVE  Replaced(op) \in [Uuid -> Records \cup {None}]
<1> USE BoundAssumption DEF TypeOK
<1>1. op.uuid \in Uuid /\ op.draft \in Drafts
  BY DEF Operations
<1>2. ASSUME shown[op.uuid] # None
      PROVE  /\ shown[op.uuid].draft.rev \in Nat /\ shown[op.uuid].draft \in Drafts
             /\ shown[op.uuid].recent \in SUBSET (1..MaxTyped) /\ shown[op.uuid] \in Records
  BY <1>1, <1>2 DEF Records, Drafts
<1>3. CASE op.kind \in {"save", "resave"}
  <2>1. [draft |-> op.draft, recent |-> IF shown[op.uuid] = None THEN {} ELSE shown[op.uuid].recent] \in Records
    BY <1>1, <1>2 DEF Records
  <2> QED
    BY <1>1, <1>3, <2>1 DEF Replaced
<1>4. CASE op.kind = "record"
  <2>1. op.draft.text \in 1..MaxTyped
    BY <1>1, <1>4 DEF Drafts
  <2>2. [shown[op.uuid] EXCEPT !.recent = @ \cup {op.draft.text}] \in Records
    BY <1>1, <1>2, <1>4, <2>1 DEF Records
  <2> QED
    BY <1>1, <1>4, <2>2 DEF Replaced
<1>5. CASE op.kind = "clear"
  <2>1. [rev |-> shown[op.uuid].draft.rev + 1, text |-> 0] \in Drafts
    BY <1>1, <1>2, <1>5 DEF Drafts
  <2>2. [shown[op.uuid] EXCEPT !.draft = [rev |-> @.rev + 1, text |-> 0]] \in Records
    BY <1>1, <1>2, <1>5, <2>1 DEF Records
  <2> QED
    BY <1>1, <1>5, <2>2 DEF Replaced
<1>6. CASE op.kind = "forget"
  BY <1>1, <1>6 DEF Replaced
<1>7. CASE op.kind = "transfer"
  <2>1. [draft |-> shown[op.uuid].draft, recent |-> {}] \in Records
    BY <1>1, <1>2, <1>7 DEF Records
  <2> QED
    BY <1>1, <1>7, <2>1 DEF Replaced, Moved
<1> QED
  BY <1>3, <1>4, <1>5, <1>6, <1>7 DEF Operations

\* A text is where it was, or the operation brings it.
LEMMA ReplacedTexts ==
    ASSUME TypeOK, NEW op \in Operations,
           op.kind \in {"record", "clear", "transfer"} => shown[op.uuid] # None,
           op.kind = "transfer" => op.to \in Uuid /\ shown[op.to] = None,
           NEW w \in Uuid, Replaced(op)[w] # None
    PROVE  /\ \/ Replaced(op)[w].draft.text = 0
              \/ Shows(w, Replaced(op)[w].draft.text) /\ (op.kind = "transfer" => w # op.uuid)
              \/ op.kind \in {"save", "resave"} /\ w = op.uuid /\ Replaced(op)[w].draft = op.draft
              \/ op.kind = "transfer" /\ w = op.to /\ Replaced(op)[w].draft = shown[op.uuid].draft
           /\ op.kind \in {"forget", "transfer"} => w # op.uuid
<1> USE DEF TypeOK, Shows
<1>1. op.uuid \in Uuid /\ op.draft \in Drafts
  BY DEF Operations
<1>3. CASE op.kind \in {"save", "resave"}
  BY <1>1, <1>3 DEF Replaced
<1>4. CASE op.kind = "record"
  <2>1. shown[op.uuid] \in Records
    BY <1>1, <1>4
  <2> QED
    BY <1>1, <1>4, <2>1 DEF Replaced, Records
<1>5. CASE op.kind = "clear"
  <2>1. shown[op.uuid] \in Records
    BY <1>1, <1>5
  <2> QED
    BY <1>1, <1>5, <2>1 DEF Replaced, Records
<1>6. CASE op.kind = "forget"
  BY <1>1, <1>6 DEF Replaced
<1>7. CASE op.kind = "transfer"
  BY <1>1, <1>7 DEF Replaced, Moved
<1> QED
  BY <1>3, <1>4, <1>5, <1>6, <1>7 DEF Operations

\* A conversation the store does not show comes by a save of its own or a restore into it.
LEMMA ReplacedGone ==
    ASSUME TypeOK, NEW op \in Operations, NEW u \in Uuid, shown[u] = None,
           op.kind \in {"record", "clear", "transfer"} => shown[op.uuid] # None,
           op.kind \in {"save", "resave"} => op.uuid # u,
           op.kind = "transfer" => op.to # u
    PROVE  Replaced(op)[u] = None
<1> USE DEF TypeOK
<1>1. CASE op.kind \in {"save", "resave"}
  BY <1>1 DEF Replaced
<1>2. CASE op.kind = "record"
  BY <1>2 DEF Replaced
<1>3. CASE op.kind = "clear"
  BY <1>3 DEF Replaced
<1>4. CASE op.kind = "forget"
  BY <1>4 DEF Replaced
<1>5. CASE op.kind = "transfer"
  BY <1>5 DEF Replaced, Moved
<1> QED
  BY <1>1, <1>2, <1>3, <1>4, <1>5 DEF Operations

----------------------------------------------------------------------------
(* What the controller does with an outcome *)

\* The head of the queue is over, or has a follower of its conversation.
LEMMA Queues ==
    ASSUME NEW S, NEW q \in Seq(S), q # <<>>, NEW n \in S
    PROVE  /\ Head(q) \in S /\ Head(q) = q[1] /\ Len(q) >= 1
           /\ Tail(q) \in Seq(S) /\ Append(q, n) \in Seq(S) /\ Append(Tail(q), n) \in Seq(S)
           /\ \A i \in 1..Len(Tail(q)) : i + 1 \in 1..Len(q) /\ Tail(q)[i] = q[i + 1]
           /\ \A i \in 1..Len(Append(Tail(q), n)) :
                \/ i < Len(q) /\ i + 1 \in 1..Len(q) /\ Append(Tail(q), n)[i] = q[i + 1]
                \/ i = Len(q) /\ Append(Tail(q), n)[i] = n
  OBVIOUS

\* A sequence with one more member: its old members, then the new one.
LEMMA Appended ==
    ASSUME NEW S, NEW q \in Seq(S), NEW n \in S
    PROVE  /\ Append(q, n) \in Seq(S) /\ Append(q, n) # <<>>
           /\ \A i \in 1..Len(Append(q, n)) :
                \/ i \in 1..Len(q) /\ Append(q, n)[i] = q[i]
                \/ i = Len(q) + 1 /\ Append(q, n)[i] = n
           /\ q # <<>> => Head(Append(q, n)) = Head(q)
  OBVIOUS

\* The follower of an operation of a submission.
Follower(op) == IF op.kind = "resave" THEN RecordOp(op.uuid) ELSE [op EXCEPT !.kind = "clear"]
NextStep(op) == IF op.kind = "resave" THEN "recording" ELSE "clearing"

\* An operation that returns leaves the queue; a submission's may be followed by
\* the submission's next one, at the queue's end.
LEMMA Returns ==
    ASSUME NEW op \in Operations, NEW outcome, Return(op, outcome)
    PROVE  \/ /\ queue' = Tail(queue)
              /\ sending' = IF op.kind \in Submitting THEN [sending EXCEPT ![op.uuid] = None] ELSE sending
           \/ /\ op.kind \in {"resave", "record"}
              /\ queue' = Append(Tail(queue), Follower(op))
              /\ sending' = [sending EXCEPT ![op.uuid].step = NextStep(op)]
  BY DEF Return, Report, Continue, Adopt, Over, Submitting, Follower, NextStep, Operations

\* What it takes for a draft: the cleared one, or the one that was moved.
LEMMA ReturnDrafts ==
    ASSUME TypeOK, NEW op \in Operations, NEW outcome, Return(op, outcome),
           op.kind = "transfer" => op.to \in Uuid,
           op.kind \in {"clear", "transfer"} /\ outcome = "done" => shown' \in [Uuid -> Records \cup {None}],
           op.kind = "clear" /\ outcome = "done" => shown'[op.uuid] # None,
           op.kind = "transfer" /\ outcome = "done" => shown'[op.to] # None
    PROVE  /\ working' \in [Uuid -> Drafts]
           /\ status' \in [Uuid -> {"none", "unsaved", "saving", "saved", "error"}]
           /\ \A w \in Uuid : \/ working'[w] = working[w] \/ working'[w].text = 0
                              \/ op.kind = "clear" /\ outcome = "done" /\ w = op.uuid /\ working'[w] = shown'[w].draft
                              \/ op.kind = "transfer" /\ outcome = "done" /\ w = op.to /\ working'[w] = shown'[w].draft
<1> USE DEF TypeOK
<1>1. op.uuid \in Uuid /\ op.draft \in Drafts /\ op.to \in Uuid \cup {None}
  BY DEF Operations
<1>2. ASSUME NEW answer \in {"saved", "error"}, Report(op, answer)
      PROVE  working' = working /\ status' \in [Uuid -> {"none", "unsaved", "saving", "saved", "error"}]
  BY <1>1, <1>2 DEF Report
<1>3. ASSUME NEW u, NEW drafts, Adopt(op, u, drafts)
      PROVE  working' = drafts /\ status' \in [Uuid -> {"none", "unsaved", "saving", "saved", "error"}]
  <2>1. \A v : Safety(v)' \in {"none", "unsaved", "saving", "saved", "error"}
    BY DEF Safety
  <2> QED
    BY <1>3, <2>1 DEF Adopt
<1>4. CASE op.kind \in {"save", "resave", "record"}
  BY <1>2, <1>4 DEF Return, Continue
<1>5. CASE op.kind = "clear"
  <2>1. CASE outcome = "failed"
    BY <1>2, <1>5, <2>1 DEF Return
  <2>2. CASE outcome # "failed" /\ Current(op.uuid, op.gen) /\ Get(op.uuid) # None
    <3>1. Adopt(op, op.uuid, IF outcome = "done" THEN [working EXCEPT ![op.uuid] = shown'[op.uuid].draft]
                             ELSE working)
      BY <1>5, <2>2 DEF Return
    <3>2. outcome = "done" => shown'[op.uuid].draft \in Drafts
      BY <1>1, <1>5 DEF Records
    <3>3. working' = IF outcome = "done" THEN [working EXCEPT ![op.uuid] = shown'[op.uuid].draft] ELSE working
      BY <3>1 DEF Adopt
    <3>4. working' \in [Uuid -> Drafts]
      BY <1>1, <3>2, <3>3
    <3>5. \A w \in Uuid : working'[w] = IF outcome = "done" /\ w = op.uuid THEN shown'[w].draft ELSE working[w]
      BY <1>1, <3>3
    <3>6. \A v : Safety(v)' \in {"none", "unsaved", "saving", "saved", "error"}
      BY DEF Safety
    <3>7. status' \in [Uuid -> {"none", "unsaved", "saving", "saved", "error"}]
      BY <3>1, <3>6 DEF Adopt
    <3> QED
      BY <1>5, <3>4, <3>5, <3>7
  <2>3. CASE outcome # "failed" /\ ~(Current(op.uuid, op.gen) /\ Get(op.uuid) # None)
    BY <1>5, <2>3 DEF Return
  <2> QED
    BY <2>1, <2>2, <2>3
<1>6. CASE op.kind = "transfer" /\ outcome = "done"
  <2> DEFINE rest == [working EXCEPT ![op.uuid] = Empty]
  <2>1. rest \in [Uuid -> Drafts] /\ \A w \in Uuid : rest[w] = working[w] \/ rest[w].text = 0
    BY <1>1, BoundAssumption DEF Empty, Drafts
  <2>2. CASE op.to \in live
    <3>1. Adopt(op, op.to, [rest EXCEPT ![op.to] = shown'[op.to].draft])
      BY <1>6, <2>2 DEF Return
    <3>2. op.to \in Uuid /\ shown'[op.to].draft \in Drafts
      BY <1>6 DEF Records
    <3>3. working' = [rest EXCEPT ![op.to] = shown'[op.to].draft]
      BY <1>3, <3>1
    <3>4. working' \in [Uuid -> Drafts] /\ \A w \in Uuid : working'[w] = IF w = op.to THEN shown'[w].draft ELSE rest[w]
      BY <2>1, <3>2, <3>3
    <3> HIDE DEF rest
    <3> QED
      BY <1>3, <1>6, <2>1, <3>1, <3>4
  <2>3. CASE op.to \notin live
    <3>1. working' = rest /\ status' = status
      BY <1>6, <2>3 DEF Return
    <3> QED
      BY <2>1, <3>1
  <2> QED
    BY <2>2, <2>3
<1>7. CASE op.kind = "forget" \/ (op.kind = "transfer" /\ outcome # "done")
  BY <1>7 DEF Return
<1> QED
  BY <1>4, <1>5, <1>6, <1>7 DEF Operations

\* The queue and the submissions an outcome leaves.
LEMMA ReturnTracked ==
    ASSUME TypeOK, SubmissionsTracked, OpsSound, queue # <<>>, NEW outcome, Return(Head(queue), outcome)
    PROVE  /\ queue' \in Seq(Operations) /\ sending' \in [Uuid -> Sendings \cup {None}]
           /\ \A i \in 1..Len(queue') : \/ i + 1 \in 1..Len(queue) /\ queue'[i] = queue[i + 1]
                                        \/ /\ queue'[i].uuid = Head(queue).uuid
                                           /\ queue'[i].draft \in {Head(queue).draft, sending[Head(queue).uuid].draft}
                                           /\ queue'[i].kind \in Submitting
                                           /\ sending[Head(queue).uuid] # None
           /\ \A u \in Uuid : sending'[u] # None => sending[u] # None /\ sending'[u].draft = sending[u].draft
           /\ SubmissionsTracked'
<1> DEFINE op == Head(queue)
<1>0. queue \in Seq(Operations) /\ sending \in [Uuid -> Sendings \cup {None}]
  BY DEF TypeOK
<1>1. op \in Operations /\ op = queue[1] /\ 1 \in 1..Len(queue) /\ Tail(queue) \in Seq(Operations)
      /\ \A i \in 1..Len(Tail(queue)) : i + 1 \in 1..Len(queue) /\ Tail(queue)[i] = queue[i + 1]
  BY <1>0
<1> HIDE DEF op
<1>9. \A i \in 1..Len(queue) : queue[i] \in Operations /\ queue[i].uuid \in Uuid
  <2>1. \A i \in 1..Len(queue) : queue[i] \in Operations
    BY <1>0
  <2> QED
    BY <2>1 DEF Operations
<1>2. op.uuid \in Uuid /\ op.draft \in Drafts /\ op.gen \in 0..MaxOpen
  BY <1>1 DEF Operations
<1>3. CASE /\ queue' = Tail(queue)
           /\ sending' = IF op.kind \in Submitting THEN [sending EXCEPT ![op.uuid] = None] ELSE sending
  <2>1. \A u \in Uuid : sending'[u] = IF op.kind \in Submitting /\ u = op.uuid THEN None ELSE sending[u]
    BY <1>0, <1>2, <1>3
  <2>2. sending' \in [Uuid -> Sendings \cup {None}]
    BY <1>0, <1>2, <1>3
  <2>3. \A i \in 1..Len(queue') : i + 1 \in 1..Len(queue) /\ queue'[i] = queue[i + 1]
    BY <1>1, <1>3
  <2>4. ASSUME NEW i \in 1..Len(queue'), queue'[i].kind \in Submitting, op.kind \in Submitting
        PROVE  queue'[i].uuid # op.uuid
    <3>1. i + 1 # 1 /\ i + 1 \in 1..Len(queue) /\ queue'[i] = queue[i + 1]
      BY <2>3
    <3>2. queue[i + 1].uuid # queue[1].uuid
      BY <1>1, <2>4, <3>1 DEF SubmissionsTracked
    <3> QED
      BY <1>1, <3>1, <3>2
  <2>5. \A i \in 1..Len(queue) : queue[i].uuid \in Uuid
    BY <1>9
  <2>6. SubmissionsTracked'
    <3>1. ASSUME NEW i \in 1..Len(queue'), queue'[i].kind \in Submitting
          PROVE  /\ sending'[queue'[i].uuid] # None
                 /\ sending'[queue'[i].uuid].step = StepOf(queue'[i].kind)
                 /\ queue'[i].kind # "resave" => queue'[i].draft.text # 0
      BY <3>1, <2>1, <2>3, <2>4, <2>5 DEF SubmissionsTracked
    <3>2. ASSUME NEW i \in 1..Len(queue'), NEW j \in 1..Len(queue'),
                 {queue'[i].kind, queue'[j].kind} \subseteq Submitting, queue'[i].uuid = queue'[j].uuid
          PROVE  i = j
      <4>0. /\ i + 1 \in 1..Len(queue) /\ queue'[i] = queue[i + 1]
            /\ j + 1 \in 1..Len(queue) /\ queue'[j] = queue[j + 1]
        BY <2>3
      <4>1. i + 1 = j + 1
        BY <3>2, <4>0 DEF SubmissionsTracked
      <4>2. i \in Nat /\ j \in Nat
        OBVIOUS
      <4> QED
        BY <4>1, <4>2
    <3>3. \A u \in Uuid : sending'[u] # None => sending'[u].draft.text # 0
      BY <2>1 DEF SubmissionsTracked
    <3> QED
      BY <3>1, <3>2, <3>3 DEF SubmissionsTracked, StepOf
  <2> QED
    BY <1>1, <1>3, <2>1, <2>2, <2>3, <2>6 DEF op
<1>4. CASE /\ op.kind \in {"resave", "record"}
           /\ queue' = Append(Tail(queue), Follower(op))
           /\ sending' = [sending EXCEPT ![op.uuid].step = NextStep(op)]
  <2>1. /\ sending[op.uuid] # None /\ sending[op.uuid].draft.text # 0
        /\ op.kind = "record" => op.draft.text # 0
    BY <1>1, <1>2, <1>4 DEF SubmissionsTracked, Submitting
  <2>2. sending[op.uuid] \in Sendings
    BY <1>0, <1>2, <2>1
  <2>3. /\ Follower(op) \in Operations /\ Follower(op).uuid = op.uuid
        /\ Follower(op).kind \in Submitting /\ Follower(op).kind # "resave"
        /\ StepOf(Follower(op).kind) = NextStep(op) /\ Follower(op).draft.text # 0
        /\ Follower(op).draft \in {op.draft, sending[op.uuid].draft}
    BY <1>1, <1>2, <1>4, <2>1, <2>2
    DEF Follower, NextStep, StepOf, RecordOp, Op, Operations, Sendings, Submitting
  <2>4. \A u \in Uuid : sending'[u] = IF u = op.uuid THEN [sending[u] EXCEPT !.step = NextStep(op)] ELSE sending[u]
    BY <1>0, <1>2, <1>4
  <2>5. NextStep(op) \in {"sent", "saving", "recording", "clearing"}
    BY DEF NextStep
  <2>6. [sending[op.uuid] EXCEPT !.step = NextStep(op)] \in Sendings
        /\ [sending[op.uuid] EXCEPT !.step = NextStep(op)].draft = sending[op.uuid].draft
        /\ [sending[op.uuid] EXCEPT !.step = NextStep(op)].step = NextStep(op)
    BY <2>2, <2>5 DEF Sendings
  <2>7. sending' \in [Uuid -> Sendings \cup {None}]
    BY <1>0, <1>2, <1>4, <2>6
  <2>8. sending'[op.uuid] # None
    BY <1>2, <2>1, <2>2, <2>4, <2>6, NoneIsNoRecord
  <2>9. queue' \in Seq(Operations)
        /\ \A i \in 1..Len(queue') : \/ i < Len(queue) /\ i + 1 \in 1..Len(queue) /\ queue'[i] = queue[i + 1]
                                     \/ i = Len(queue) /\ queue'[i] = Follower(op)
    BY <1>0, <1>1, <1>4, <2>3, Queues
  <2>10. \A i \in 1..Len(queue) : queue[i].uuid \in Uuid /\ (i > 1 /\ queue[i].kind \in Submitting => queue[i].uuid # op.uuid)
    <3> SUFFICES ASSUME NEW i \in 1..Len(queue), i > 1, queue[i].kind \in Submitting PROVE queue[i].uuid # queue[1].uuid
      BY <1>1, <1>9
    <3>1. queue[1].kind \in Submitting /\ i # 1
      BY <1>1, <1>4 DEF Submitting
    <3> QED
      BY <1>1, <3>1 DEF SubmissionsTracked
  <2>11. SubmissionsTracked'
    <3>1. ASSUME NEW i \in 1..Len(queue'), queue'[i].kind \in Submitting
          PROVE  /\ sending'[queue'[i].uuid] # None
                 /\ sending'[queue'[i].uuid].step = StepOf(queue'[i].kind)
                 /\ queue'[i].kind # "resave" => queue'[i].draft.text # 0
      <4>1. CASE i < Len(queue) /\ i + 1 \in 1..Len(queue) /\ queue'[i] = queue[i + 1]
        <5>1. i + 1 > 1 /\ queue[i + 1].kind \in Submitting
          BY <3>1, <4>1
        <5>2. /\ sending[queue[i + 1].uuid] # None
              /\ sending[queue[i + 1].uuid].step = StepOf(queue[i + 1].kind)
              /\ queue[i + 1].kind # "resave" => queue[i + 1].draft.text # 0
          BY <4>1, <5>1 DEF SubmissionsTracked
        <5>3. sending'[queue[i + 1].uuid] = sending[queue[i + 1].uuid]
          BY <2>4, <2>10, <4>1, <5>1
        <5> QED
          BY <4>1, <5>2, <5>3
      <4>2. CASE queue'[i] = Follower(op)
        BY <4>2, <1>2, <2>3, <2>4, <2>6, <2>8
      <4> QED
        BY <2>9, <4>1, <4>2
    <3>2. ASSUME NEW i \in 1..Len(queue'), NEW j \in 1..Len(queue'),
                 {queue'[i].kind, queue'[j].kind} \subseteq Submitting, queue'[i].uuid = queue'[j].uuid
          PROVE  i = j
      <4>1. CASE i < Len(queue) /\ j < Len(queue)
        BY <3>2, <2>9, <4>1 DEF SubmissionsTracked
      <4>2. CASE i = Len(queue) /\ j < Len(queue)
        BY <3>2, <2>3, <2>9, <2>10, <4>2
      <4>3. CASE i < Len(queue) /\ j = Len(queue)
        BY <3>2, <2>3, <2>9, <2>10, <4>3
      <4> QED
        BY <2>9, <4>1, <4>2, <4>3
    <3>3. \A u \in Uuid : sending'[u] # None => sending'[u].draft.text # 0
      BY <2>1, <2>4, <2>6 DEF SubmissionsTracked
    <3> QED
      BY <3>1, <3>2, <3>3 DEF SubmissionsTracked, StepOf
  <2> QED
    BY <2>1, <2>3, <2>4, <2>6, <2>7, <2>8, <2>9, <2>11 DEF op
<1> QED
  BY <1>1, <1>3, <1>4, Returns DEF op

----------------------------------------------------------------------------
(* The first operation of the queue *)

\* What is known of the operation that is being written.
LEMMA HeadSound ==
    ASSUME IInv, queue # <<>>
    PROVE  LET op == Head(queue) IN
           /\ op \in Operations /\ op.uuid \in Uuid /\ op.draft \in Drafts /\ op.to \in Uuid \cup {None}
           /\ op = queue[1] /\ 1 \in 1..Len(queue)
           /\ op.kind = "transfer" => op.to \in Uuid
           /\ op.kind = "record" => op.draft.text # 0
           /\ op.kind = "forget" => op.uuid \in forgotten /\ op.draft.text = 0
<1>1. queue \in Seq(Operations)
  BY DEF IInv, TypeOK
<1>2. Head(queue) \in Operations /\ Head(queue) = queue[1] /\ 1 \in 1..Len(queue)
  BY <1>1
<1> QED
  BY <1>2 DEF IInv, SubmissionsTracked, OpsSound, Submitting, Operations

\* What is not wanted is skipped, what is wanted is written.
LEMMA SkipReturns ==
    ASSUME IInv, Skip
    PROVE  /\ queue # <<>> /\ writing = None
           /\ UNCHANGED <<store, writing, disk, session, dirty, restoring, typed, erased>>
           /\ \E outcome : /\ Return(Head(queue), outcome)
                           /\ outcome = "done" => Head(queue).kind \in {"save", "resave"}
  BY DEF Skip

\* A write that fails returns its operation as refused or failed and changes
\* nothing that is shown or stored.
LEMMA FailReturns ==
    ASSUME IInv, WriteFails
    PROVE  /\ queue # <<>> /\ writing # None /\ writing' = None /\ failed' = Retained(Head(queue))
           /\ UNCHANGED <<shown, forgotten, disk, session, dirty, restoring, typed, erased>>
           /\ \E outcome \in {"refused", "failed"} : Return(Head(queue), outcome)
  BY DEF WriteFails, IInv, WriteSound

\* A write that lands makes the shown sessions those of the document, and returns
\* its operation as done unless the document undoes it.
LEMMA LandReturns ==
    ASSUME IInv, WriteLands
    PROVE  LET op == Head(queue)
               gone == IF ~writing.undo /\ op.kind = "transfer" THEN {op.uuid} ELSE {}
           IN
           /\ queue # <<>> /\ writing # None /\ writing' = None
           /\ shown' = IF writing.undo THEN shown ELSE Replaced(op)
           /\ shown' = writing.document.sessions /\ disk' = writing.document
           /\ shown' \in [Uuid -> Records \cup {None}]
           /\ failed' = [v \in Uuid |-> IF Superseded(v, shown') THEN None ELSE failed[v]]
           /\ forgotten' = forgotten \cup gone
           /\ erased' = erased \cup (IF op.kind = "forget" THEN {op.uuid} ELSE gone)
           /\ UNCHANGED <<session, dirty, restoring, typed>>
           /\ \E outcome : /\ Return(op, outcome)
                           /\ outcome = "done" => ~writing.undo
                           /\ op.kind = "clear" /\ outcome = "done" => shown'[op.uuid] # None
                           /\ op.kind = "transfer" /\ outcome = "done" => shown'[op.to] # None
<1> DEFINE op == Head(queue)
<1>1. queue # <<>> /\ writing # None /\ writing' = None
  BY DEF WriteLands, IInv, WriteSound
<1>2. /\ op \in Operations /\ op.uuid \in Uuid
      /\ op.kind = "transfer" => op.to \in Uuid
      /\ op.kind = "record" => op.draft.text # 0
  BY <1>1, HeadSound
<1>3. /\ op.kind \in {"record", "clear", "transfer"} => shown[op.uuid] # None
      /\ op.kind = "transfer" => shown[op.to] = None
      /\ writing.document.sessions = IF writing.undo THEN shown ELSE Replaced(op)
  BY <1>1 DEF IInv, WriteSound
<1>4. shown' = writing.document.sessions /\ disk' = writing.document
  BY DEF WriteLands
<1>5. shown \in [Uuid -> Records \cup {None}] /\ Replaced(op) \in [Uuid -> Records \cup {None}]
  BY <1>2, <1>3, ReplacedTypes DEF IInv, TypeOK
<1>6. Return(op, Landed(op)) /\ (Landed(op) = "done" => ~writing.undo)
  BY DEF WriteLands, Landed
<1>7. ASSUME op.kind = "clear", ~writing.undo PROVE shown'[op.uuid] # None
  <2>1. shown'[op.uuid] = [shown[op.uuid] EXCEPT !.draft = [rev |-> @.rev + 1, text |-> 0]]
    BY <1>2, <1>3, <1>4, <1>5, <1>7 DEF Replaced
  <2>2. shown[op.uuid] \in Records
    BY <1>2, <1>3, <1>5, <1>7
  <2>3. [rev |-> shown[op.uuid].draft.rev + 1, text |-> 0] \in Drafts
    BY <2>2, BoundAssumption DEF Records, Drafts
  <2>4. shown'[op.uuid] \in Records
    BY <2>1, <2>2, <2>3 DEF Records
  <2> QED
    BY <2>4, NoneIsNoRecord
<1>8. ASSUME op.kind = "transfer", ~writing.undo PROVE shown'[op.to] # None
  <2>1. shown'[op.to] = [draft |-> shown[op.uuid].draft, recent |-> {}]
    BY <1>2, <1>3, <1>4, <1>5, <1>8 DEF Replaced, Moved, IInv, TypeOK
  <2>2. shown'[op.to] \in Records
    BY <1>2, <1>3, <1>5, <1>8, <2>1 DEF Records
  <2> QED
    BY <2>2, NoneIsNoRecord
<1>9. /\ UNCHANGED <<session, dirty, restoring, typed>>
      /\ failed' = [v \in Uuid |-> IF Superseded(v, shown') THEN None ELSE failed[v]]
      /\ forgotten' = forgotten \cup (IF ~writing.undo /\ op.kind = "transfer" THEN {op.uuid} ELSE {})
      /\ erased' = erased \cup (IF op.kind = "forget" THEN {op.uuid}
                                ELSE IF ~writing.undo /\ op.kind = "transfer" THEN {op.uuid} ELSE {})
  BY DEF WriteLands
<1> HIDE DEF op
<1>10. \E outcome : /\ Return(op, outcome)
                    /\ outcome = "done" => ~writing.undo
                    /\ op.kind = "clear" /\ outcome = "done" => shown'[op.uuid] # None
                    /\ op.kind = "transfer" /\ outcome = "done" => shown'[op.to] # None
  BY <1>6, <1>7, <1>8
<1>11. shown' = IF writing.undo THEN shown ELSE Replaced(op)
  BY <1>3, <1>4
<1>12. shown' \in [Uuid -> Records \cup {None}]
  BY <1>5, <1>11
<1> QED
  BY <1>1, <1>4, <1>9, <1>10, <1>11, <1>12 DEF op

----------------------------------------------------------------------------
(* The steps keep the types, and the queue and the submissions in step *)

\* An operation put on the queue, by a submission or by another caller, leaves
\* the queue and the submissions in step.
LEMMA AppendSound ==
    ASSUME TypeOK, SubmissionsTracked, OpsSound, NEW n \in Operations, queue' = Append(queue, n),
           forgotten \subseteq forgotten',
           n.kind = "transfer" => n.to \in Uuid,
           n.kind = "forget" => n.uuid \in forgotten' /\ n.draft.text = 0,
           \/ n.kind \notin Submitting /\ sending' = sending
           \/ /\ n.kind \in Submitting /\ sending' = [sending EXCEPT ![n.uuid].step = StepOf(n.kind)]
              /\ sending[n.uuid] # None /\ sending[n.uuid].step = "sent"
              /\ n.kind # "resave" => n.draft.text # 0
    PROVE  /\ queue' \in Seq(Operations) /\ sending' \in [Uuid -> Sendings \cup {None}]
           /\ SubmissionsTracked' /\ OpsSound'
<1>0. queue \in Seq(Operations) /\ sending \in [Uuid -> Sendings \cup {None}]
  BY DEF TypeOK
<1>1. /\ queue' \in Seq(Operations)
      /\ \A i \in 1..Len(queue') : \/ i \in 1..Len(queue) /\ queue'[i] = queue[i]
                                   \/ i = Len(queue) + 1 /\ queue'[i] = n
  BY <1>0, Appended
<1>2. OpsSound'
  <2> SUFFICES ASSUME NEW i \in 1..Len(queue')
               PROVE  /\ queue'[i].kind = "transfer" => queue'[i].to \in Uuid
                      /\ queue'[i].kind = "forget" => queue'[i].uuid \in forgotten' /\ queue'[i].draft.text = 0
    BY DEF OpsSound
  <2> QED
    BY <1>1 DEF OpsSound
<1>3. \A i \in 1..Len(queue) : queue[i].uuid \in Uuid
  <2>1. \A i \in 1..Len(queue) : queue[i] \in Operations
    BY <1>0
  <2> QED
    BY <2>1 DEF Operations
<1>4. n.uuid \in Uuid
  BY DEF Operations
<1>5. StepOf(n.kind) \in {"saving", "recording", "clearing"}
  BY DEF StepOf
<1>6. ASSUME n.kind \in Submitting
      PROVE  /\ sending' = [sending EXCEPT ![n.uuid].step = StepOf(n.kind)]
             /\ sending[n.uuid] \in Sendings
             /\ [sending[n.uuid] EXCEPT !.step = StepOf(n.kind)] \in Sendings
             /\ sending'[n.uuid] = [sending[n.uuid] EXCEPT !.step = StepOf(n.kind)]
             /\ sending'[n.uuid] # None /\ sending'[n.uuid].step = StepOf(n.kind)
             /\ sending'[n.uuid].draft = sending[n.uuid].draft
             /\ \A u \in Uuid : u # n.uuid => sending'[u] = sending[u]
             /\ \A i \in 1..Len(queue) : queue[i].kind \in Submitting => queue[i].uuid # n.uuid
  <2>1. sending' = [sending EXCEPT ![n.uuid].step = StepOf(n.kind)] /\ sending[n.uuid] \in Sendings
    BY <1>0, <1>4, <1>6
  <2>2. [sending[n.uuid] EXCEPT !.step = StepOf(n.kind)] \in Sendings
    BY <1>5, <2>1 DEF Sendings
  <2>3. /\ sending'[n.uuid] = [sending[n.uuid] EXCEPT !.step = StepOf(n.kind)]
        /\ \A u \in Uuid : u # n.uuid => sending'[u] = sending[u]
    BY <1>0, <1>4, <2>1
  <2>4. /\ sending'[n.uuid].step = StepOf(n.kind)
        /\ sending'[n.uuid].draft = sending[n.uuid].draft
    BY <2>1, <2>3 DEF Sendings
  <2>5. \A i \in 1..Len(queue) : queue[i].kind \in Submitting => queue[i].uuid # n.uuid
    BY <1>5, <1>6 DEF SubmissionsTracked, StepOf
  <2> QED
    BY <2>1, <2>2, <2>3, <2>4, <2>5, NoneIsNoRecord
<1>7. sending' \in [Uuid -> Sendings \cup {None}]
  BY <1>0, <1>4, <1>6
<1>8. SubmissionsTracked'
  <2>1. ASSUME NEW i \in 1..Len(queue'), queue'[i].kind \in Submitting
        PROVE  /\ sending'[queue'[i].uuid] # None
               /\ sending'[queue'[i].uuid].step = StepOf(queue'[i].kind)
               /\ queue'[i].kind # "resave" => queue'[i].draft.text # 0
    <3>1. CASE i \in 1..Len(queue) /\ queue'[i] = queue[i]
      <4>1. sending'[queue[i].uuid] = sending[queue[i].uuid]
        BY <1>3, <1>6, <2>1, <3>1
      <4> QED
        BY <2>1, <3>1, <4>1 DEF SubmissionsTracked
    <3>2. CASE queue'[i] = n
      BY <1>6, <2>1, <3>2
    <3> QED
      BY <1>1, <3>1, <3>2
  <2>2. ASSUME NEW i \in 1..Len(queue'), NEW j \in 1..Len(queue'),
               {queue'[i].kind, queue'[j].kind} \subseteq Submitting, queue'[i].uuid = queue'[j].uuid
        PROVE  i = j
    <3>1. CASE i \in 1..Len(queue) /\ j \in 1..Len(queue)
      <4>1. queue'[i] = queue[i] /\ queue'[j] = queue[j]
        BY <1>0, <1>1, <3>1
      <4> QED
        BY <2>2, <3>1, <4>1 DEF SubmissionsTracked
    <3>2. CASE i \in 1..Len(queue) /\ j = Len(queue) + 1
      <4>1. queue'[i] = queue[i] /\ queue'[j] = n
        BY <1>0, <1>1, <3>2
      <4> QED
        BY <1>6, <2>2, <3>2, <4>1
    <3>3. CASE i = Len(queue) + 1 /\ j \in 1..Len(queue)
      <4>1. queue'[i] = n /\ queue'[j] = queue[j]
        BY <1>0, <1>1, <3>3
      <4> QED
        BY <1>6, <2>2, <3>3, <4>1
    <3> QED
      BY <1>1, <3>1, <3>2, <3>3
  <2>3. \A u \in Uuid : sending'[u] # None => sending'[u].draft.text # 0
    BY <1>6 DEF SubmissionsTracked
  <2> QED
    BY <2>1, <2>2, <2>3 DEF SubmissionsTracked, StepOf
<1> QED
  BY <1>1, <1>2, <1>7, <1>8

\* So does a submission that begins or ends while the queue stays as it is.
LEMMA SubmitsSound ==
    ASSUME TypeOK, SubmissionsTracked, OpsSound, UNCHANGED queue, forgotten \subseteq forgotten',
           NEW u \in Uuid,
           \/ sending' = sending
           \/ sending[u] = None /\ \E s \in Sendings : s.draft.text # 0 /\ sending' = [sending EXCEPT ![u] = s]
           \/ sending[u] # None /\ sending[u].step = "sent" /\ sending' = [sending EXCEPT ![u] = None]
    PROVE  sending' \in [Uuid -> Sendings \cup {None}] /\ SubmissionsTracked' /\ OpsSound'
<1>0. sending \in [Uuid -> Sendings \cup {None}]
  BY DEF TypeOK
<1>1. OpsSound'
  BY DEF OpsSound
<1>2. \A i \in 1..Len(queue) : queue[i].uuid \in Uuid
  <2>1. \A i \in 1..Len(queue) : queue[i] \in Operations
    BY DEF TypeOK
  <2> QED
    BY <2>1 DEF Operations
<1>3. CASE sending' = sending
  BY <1>0, <1>1, <1>3 DEF SubmissionsTracked, StepOf
<1>4. CASE \/ sending[u] = None /\ \E s \in Sendings : s.draft.text # 0 /\ sending' = [sending EXCEPT ![u] = s]
           \/ sending[u] # None /\ sending[u].step = "sent" /\ sending' = [sending EXCEPT ![u] = None]
  <2>1. \A i \in 1..Len(queue) : queue[i].kind \in Submitting => queue[i].uuid # u
    BY <1>4 DEF SubmissionsTracked, StepOf
  <2>2. /\ \A v \in Uuid : v # u => sending'[v] = sending[v]
        /\ sending'[u] = None \/ (sending'[u] \in Sendings /\ sending'[u].draft.text # 0)
        /\ sending' \in [Uuid -> Sendings \cup {None}]
    BY <1>0, <1>4
  <2>3. \A i \in 1..Len(queue) : queue[i].kind \in Submitting => sending'[queue[i].uuid] = sending[queue[i].uuid]
    BY <1>2, <2>1, <2>2
  <2>4. SubmissionsTracked'
    BY <2>2, <2>3 DEF SubmissionsTracked, StepOf
  <2> QED
    BY <1>1, <2>2, <2>4
<1> QED
  BY <1>3, <1>4

\* What the operations read are drafts and records.
LEMMA Drafted ==
    ASSUME TypeOK, NEW u \in Uuid
    PROVE  /\ Recoverable(u) # None => Recoverable(u) \in Drafts
           /\ Get(u) # None => Get(u) \in Records /\ Get(u) = shown[u] /\ u \notin forgotten
           /\ working[u] \in Drafts /\ Empty \in Drafts
           /\ \A v : Safety(v)' \in {"none", "unsaved", "saving", "saved", "error"}
<1> USE DEF TypeOK
<1>1. Get(u) # None => Get(u) \in Records /\ Get(u) = shown[u] /\ u \notin forgotten
  BY DEF Get
<1>2. Recoverable(u) # None => Recoverable(u) \in Drafts
  <2>1. shown[u] # None => shown[u].draft \in Drafts
    BY DEF Records
  <2>2. failed[u] \in Drafts \cup {None}
    OBVIOUS
  <2> QED
    BY <2>1, <2>2 DEF Recoverable
<1>3. Empty \in Drafts
  BY BoundAssumption DEF Empty, Drafts
<1>4. \A v : Safety(v)' \in {"none", "unsaved", "saving", "saved", "error"}
  BY DEF Safety
<1> QED
  BY <1>1, <1>2, <1>3, <1>4

\* Every step keeps the types, and the queue and the submissions in step.
LEMMA TypeStep ==
    ASSUME IInv, [Next]_vars
    PROVE  TypeOK' /\ SubmissionsTracked' /\ OpsSound'
<1>0. TypeOK /\ SubmissionsTracked /\ OpsSound
  BY DEF IInv
<1> USE <1>0
<1> USE DEF store, io, editor, session
<1>1. ASSUME NEW u \in Uuid, Open(u)
      PROVE  TypeOK' /\ SubmissionsTracked' /\ OpsSound'
  <2>1. SubmissionsTracked' /\ OpsSound'
    BY <1>1, SubmitsSound DEF Open
  <2>2. working' \in [Uuid -> Drafts] /\ status' \in [Uuid -> {"none", "unsaved", "saving", "saved", "error"}]
    BY <1>1, Drafted DEF Open, TypeOK
  <2>3. opened' \in [Uuid -> 0..MaxOpen] /\ live' \subseteq Uuid /\ dirty' \subseteq live'
    BY <1>1, BoundAssumption DEF Open, TypeOK
  <2> QED
    BY <1>1, <2>1, <2>2, <2>3 DEF Open, TypeOK
<1>2. ASSUME NEW u \in Uuid, Reselect(u)
      PROVE  TypeOK' /\ SubmissionsTracked' /\ OpsSound'
  <2>1. SubmissionsTracked' /\ OpsSound'
    BY <1>2, SubmitsSound DEF Reselect
  <2>2. working' \in [Uuid -> Drafts] /\ status' \in [Uuid -> {"none", "unsaved", "saving", "saved", "error"}]
    BY <1>2, Drafted DEF Reselect, TypeOK, Newer
  <2> QED
    BY <1>2, <2>1, <2>2 DEF Reselect, TypeOK
<1>3. ASSUME NEW u \in Uuid, Type(u)
      PROVE  TypeOK' /\ SubmissionsTracked' /\ OpsSound'
  <2>1. SubmissionsTracked' /\ OpsSound'
    BY <1>3, SubmitsSound DEF Type
  <2>2. typed' \in 0..MaxTyped
    BY <1>3, BoundAssumption DEF Type, TypeOK
  <2>3. [rev |-> working[u].rev + 1, text |-> typed'] \in Drafts
    BY <1>3, <2>2 DEF TypeOK, Drafts
  <2>4. dirty' \subseteq live'
    BY <1>3 DEF Type, TypeOK, Current
  <2> QED
    BY <1>3, <2>1, <2>2, <2>3, <2>4 DEF Type, TypeOK
<1>4. ASSUME NEW u \in Uuid, NEW kind \in {"save", "resave"}
      PROVE  SaveOp(kind, u) \in Operations /\ SaveOp(kind, u).kind = kind /\ SaveOp(kind, u).uuid = u
  BY BoundAssumption DEF SaveOp, Op, Operations, TypeOK
<1>5. ASSUME NEW u \in Uuid, Save(u)
      PROVE  TypeOK' /\ SubmissionsTracked' /\ OpsSound'
  <2>1. queue' \in Seq(Operations) /\ SubmissionsTracked' /\ OpsSound'
    BY <1>4, <1>5, AppendSound DEF Save, Submitting
  <2> QED
    BY <1>5, <2>1 DEF Save, TypeOK
<1>6. ASSUME NEW u \in Uuid, Close(u)
      PROVE  TypeOK' /\ SubmissionsTracked' /\ OpsSound'
  <2>1. queue' \in Seq(Operations) /\ SubmissionsTracked' /\ OpsSound'
    <3>1. CASE u \in dirty
      <4>1. queue' = Append(queue, SaveOp("save", u)) /\ sending' = sending /\ forgotten' = forgotten
        BY <1>6, <3>1 DEF Close
      <4> QED
        BY <1>4, <4>1, AppendSound DEF Submitting
    <3>2. CASE u \notin dirty
      <4>1. queue' = queue /\ sending' = sending /\ forgotten' = forgotten
        BY <1>6, <3>2 DEF Close
      <4> QED
        BY <4>1, SubmitsSound DEF TypeOK
    <3> QED
      BY <3>1, <3>2
  <2> QED
    BY <1>6, <2>1 DEF Close, TypeOK
<1>7. ASSUME NEW u \in Uuid, Closed(u)
      PROVE  TypeOK' /\ SubmissionsTracked' /\ OpsSound'
  <2>1. SubmissionsTracked' /\ OpsSound'
    BY <1>7, SubmitsSound DEF Closed
  <2> QED
    BY <1>7, <2>1, Drafted DEF Closed, TypeOK
<1>8. ASSUME NEW u \in Uuid, Submit(u)
      PROVE  TypeOK' /\ SubmissionsTracked' /\ OpsSound'
  <2>1. sending[u] = None /\ \E s \in Sendings : s.draft.text # 0 /\ sending' = [sending EXCEPT ![u] = s]
    <3>1. [step |-> "sent", draft |-> working[u], gen |-> opened[u]] \in Sendings
      BY DEF TypeOK, Sendings
    <3> QED
      BY <1>8, <3>1 DEF Submit
  <2>2. sending' \in [Uuid -> Sendings \cup {None}] /\ SubmissionsTracked' /\ OpsSound'
    BY <1>8, <2>1, SubmitsSound DEF Submit
  <2> QED
    BY <1>8, <2>2 DEF Submit, TypeOK
<1>9. ASSUME NEW u \in Uuid, NotAccepted(u)
      PROVE  TypeOK' /\ SubmissionsTracked' /\ OpsSound'
  <2>2. sending' \in [Uuid -> Sendings \cup {None}] /\ SubmissionsTracked' /\ OpsSound'
    BY <1>9, SubmitsSound DEF NotAccepted
  <2> QED
    BY <1>9, <2>2 DEF NotAccepted, TypeOK
<1>10. ASSUME NEW u \in Uuid, Accepted(u)
       PROVE  TypeOK' /\ SubmissionsTracked' /\ OpsSound'
  <2>1. queue' \in Seq(Operations) /\ sending' \in [Uuid -> Sendings \cup {None}] /\ SubmissionsTracked' /\ OpsSound'
    <3>0. /\ sending[u] # None /\ sending[u].step = "sent" /\ sending[u] \in Sendings /\ sending[u].draft.text # 0
          /\ forgotten' = forgotten
      BY <1>10 DEF Accepted, TypeOK, SubmissionsTracked
    <3>1. CASE Current(u, sending[u].gen)
      <4> DEFINE unsaved == Get(u) = None \/ Get(u).draft.rev # working[u].rev
                 n == IF unsaved THEN SaveOp("resave", u) ELSE RecordOp(u)
      <4>1. /\ queue' = Append(queue, n)
            /\ sending' = [sending EXCEPT ![u].step = IF unsaved THEN "saving" ELSE "recording"]
        BY <1>10, <3>1 DEF Accepted
      <4>2. RecordOp(u) \in Operations /\ RecordOp(u).kind = "record" /\ RecordOp(u).uuid = u
            /\ RecordOp(u).draft = sending[u].draft
        BY <3>0 DEF RecordOp, Op, Operations, Sendings
      <4>3. /\ n \in Operations /\ n.uuid = u /\ n.kind = (IF unsaved THEN "resave" ELSE "record")
            /\ n.kind # "resave" => n.draft.text # 0
        BY <1>4, <3>0, <4>2
      <4>4. n.kind \in Submitting /\ StepOf(n.kind) = (IF unsaved THEN "saving" ELSE "recording")
            /\ n.kind # "transfer" /\ n.kind # "forget"
        BY <4>3 DEF Submitting, StepOf
      <4>5. sending' = [sending EXCEPT ![n.uuid].step = StepOf(n.kind)]
        BY <4>1, <4>3, <4>4
      <4> HIDE DEF n, unsaved
      <4> QED
        BY <3>0, <4>1, <4>3, <4>4, <4>5, AppendSound
    <3>2. CASE ~Current(u, sending[u].gen)
      <4>1. queue' = queue /\ sending' = [sending EXCEPT ![u] = None]
        BY <1>10, <3>2 DEF Accepted
      <4> QED
        BY <3>0, <4>1, SubmitsSound DEF TypeOK
    <3> QED
      BY <3>1, <3>2
  <2> QED
    BY <1>10, <2>1 DEF Accepted, TypeOK
<1>11. ASSUME NEW u \in Uuid, Forget(u)
       PROVE  TypeOK' /\ SubmissionsTracked' /\ OpsSound'
  <2>1. Op("forget", u, Empty, 0, None) \in Operations
    BY Drafted, BoundAssumption DEF Op, Operations
  <2>2. queue' \in Seq(Operations) /\ SubmissionsTracked' /\ OpsSound'
    BY <1>11, <2>1, AppendSound DEF Forget, Op, Submitting, Empty
  <2> QED
    BY <1>11, <2>2, Drafted DEF Forget, TypeOK
<1>12. ASSUME NEW u \in Uuid, RestoreBegins(u)
       PROVE  TypeOK' /\ SubmissionsTracked' /\ OpsSound'
  <2>1. SubmissionsTracked' /\ OpsSound'
    BY <1>12, SubmitsSound DEF RestoreBegins
  <2>2. Get(u).draft \in Drafts
    BY <1>12, Drafted DEF RestoreBegins, Records
  <2>3. restoring' \in [uuid : Uuid, draft : Drafts, fresh : SUBSET Uuid]
    BY <1>12, <2>2 DEF RestoreBegins
  <2> QED
    BY <1>12, <2>1, <2>3 DEF RestoreBegins, TypeOK
<1>13. ASSUME NEW v \in Uuid, RestoreMoves(v)
       PROVE  TypeOK' /\ SubmissionsTracked' /\ OpsSound'
  <2>1. Op("transfer", restoring.uuid, restoring.draft, opened[v], v) \in Operations
    BY <1>13 DEF RestoreMoves, TypeOK, Op, Operations
  <2>2. queue' \in Seq(Operations) /\ SubmissionsTracked' /\ OpsSound'
    BY <1>13, <2>1, AppendSound DEF RestoreMoves, Op, Submitting
  <2> QED
    BY <1>13, <2>2 DEF RestoreMoves, TypeOK
<1>14. CASE RestoreFails
  BY <1>14 DEF RestoreFails, TypeOK, SubmissionsTracked, OpsSound, StepOf
<1>15. CASE Skip
  <2>1. PICK outcome : /\ Return(Head(queue), outcome)
                       /\ outcome = "done" => Head(queue).kind \in {"save", "resave"}
    BY <1>15, SkipReturns
  <2>2. /\ queue # <<>>
        /\ UNCHANGED <<store, writing, disk, session, dirty, restoring, typed, erased>>
    BY <1>15, SkipReturns
  <2>3. /\ queue' \in Seq(Operations) /\ sending' \in [Uuid -> Sendings \cup {None}] /\ SubmissionsTracked'
        /\ \A i \in 1..Len(queue') : \/ i + 1 \in 1..Len(queue) /\ queue'[i] = queue[i + 1]
                                     \/ queue'[i].kind \in Submitting
    BY <2>1, <2>2, ReturnTracked
  <2>4. /\ working' \in [Uuid -> Drafts]
        /\ status' \in [Uuid -> {"none", "unsaved", "saving", "saved", "error"}]
    BY <2>1, <2>2, ReturnDrafts, HeadSound
  <2>5. OpsSound'
    BY <2>2, <2>3 DEF OpsSound, Submitting
  <2> QED
    BY <2>2, <2>3, <2>4, <2>5 DEF TypeOK
<1>16. CASE Write
  <2>1. queue # <<>> /\ Wanted(Head(queue))
    BY <1>16 DEF Write
  <2> DEFINE op == Head(queue)
  <2>2. /\ op \in Operations /\ op.uuid \in Uuid
        /\ op.kind = "transfer" => op.to \in Uuid
        /\ op.kind = "record" => op.draft.text # 0
    BY <2>1, HeadSound
  <2>3. op.kind \in {"record", "clear", "transfer"} => shown[op.uuid] # None
    BY <2>1, <2>2 DEF Wanted, Get
  <2>4. Replaced(op) \in [Uuid -> Records \cup {None}] /\ Tombstones(op) \subseteq Uuid
    BY <2>2, <2>3, ReplacedTypes DEF Tombstones, TypeOK
  <2>5. writing' \in [document : Documents, undo : BOOLEAN] \cup {None}
    BY <1>16, <2>4 DEF Write, Documents
  <2>6. SubmissionsTracked' /\ OpsSound'
    BY <1>16 DEF Write, SubmissionsTracked, OpsSound, StepOf
  <2> QED
    BY <1>16, <2>5, <2>6 DEF Write, TypeOK
<1>17. CASE WriteFails
  <2>1. PICK outcome : Return(Head(queue), outcome) /\ outcome # "done"
    BY <1>17, FailReturns
  <2>2. /\ queue # <<>> /\ writing' = None /\ failed' = Retained(Head(queue))
        /\ UNCHANGED <<shown, forgotten, disk, session, dirty, restoring, typed, erased>>
    BY <1>17, FailReturns
  <2>3. /\ queue' \in Seq(Operations) /\ sending' \in [Uuid -> Sendings \cup {None}] /\ SubmissionsTracked'
        /\ \A i \in 1..Len(queue') : \/ i + 1 \in 1..Len(queue) /\ queue'[i] = queue[i + 1]
                                     \/ queue'[i].kind \in Submitting
    BY <2>1, <2>2, ReturnTracked
  <2>4. /\ working' \in [Uuid -> Drafts]
        /\ status' \in [Uuid -> {"none", "unsaved", "saving", "saved", "error"}]
    BY <2>1, <2>2, ReturnDrafts, HeadSound
  <2>5. OpsSound'
    BY <2>2, <2>3 DEF OpsSound, Submitting
  <2>6. failed' \in [Uuid -> Drafts \cup {None}]
    BY <2>2, HeadSound DEF Retained, TypeOK
  <2> QED
    BY <2>2, <2>3, <2>4, <2>5, <2>6 DEF TypeOK
<1>18. CASE WriteUndone
  <2>1. writing' \in [document : Documents, undo : BOOLEAN] /\ disk' \in Documents
    BY <1>18 DEF WriteUndone, Documents, TypeOK
  <2>2. SubmissionsTracked' /\ OpsSound'
    BY <1>18 DEF WriteUndone, SubmissionsTracked, OpsSound, StepOf
  <2> QED
    BY <1>18, <2>1, <2>2 DEF WriteUndone, TypeOK
<1>19. CASE WriteLands
  <2>1. PICK outcome : /\ Return(Head(queue), outcome)
                       /\ Head(queue).kind = "clear" /\ outcome = "done" => shown'[Head(queue).uuid] # None
                       /\ Head(queue).kind = "transfer" /\ outcome = "done" => shown'[Head(queue).to] # None
    BY <1>19, LandReturns
  <2>2. /\ queue # <<>> /\ writing # None /\ writing' = None /\ disk' = writing.document
        /\ shown' \in [Uuid -> Records \cup {None}]
        /\ failed' = [v \in Uuid |-> IF Superseded(v, shown') THEN None ELSE failed[v]]
        /\ forgotten \subseteq forgotten'
        /\ forgotten' \subseteq forgotten \cup {Head(queue).uuid} /\ erased' \subseteq erased \cup {Head(queue).uuid}
        /\ UNCHANGED <<session, dirty, restoring, typed>>
    BY <1>19, LandReturns
  <2>3. /\ queue' \in Seq(Operations) /\ sending' \in [Uuid -> Sendings \cup {None}] /\ SubmissionsTracked'
        /\ \A i \in 1..Len(queue') : \/ i + 1 \in 1..Len(queue) /\ queue'[i] = queue[i + 1]
                                     \/ queue'[i].kind \in Submitting
    BY <2>1, <2>2, ReturnTracked
  <2>4. /\ working' \in [Uuid -> Drafts]
        /\ status' \in [Uuid -> {"none", "unsaved", "saving", "saved", "error"}]
    BY <2>1, <2>2, ReturnDrafts, HeadSound
  <2>5. OpsSound'
    BY <2>2, <2>3 DEF OpsSound, Submitting
  <2>6. failed' \in [Uuid -> Drafts \cup {None}] /\ disk' \in Documents
    BY <2>2 DEF TypeOK
  <2>7. forgotten' \subseteq Uuid /\ erased' \subseteq Uuid
    BY <2>2, HeadSound DEF TypeOK
  <2> QED
    BY <2>2, <2>3, <2>4, <2>5, <2>6, <2>7 DEF TypeOK
<1>20. CASE Reload
  <2>1. /\ disk.sessions \in [Uuid -> Records \cup {None}] /\ disk.forgotten \subseteq Uuid
    BY DEF TypeOK, Documents
  <2>2. Empty \in Drafts
    BY BoundAssumption DEF Empty, Drafts
  <2> QED
    BY <1>20, <2>1, <2>2 DEF Reload, TypeOK, SubmissionsTracked, OpsSound
<1>21. CASE UNCHANGED vars
  BY <1>21 DEF vars, TypeOK, SubmissionsTracked, OpsSound, StepOf
<1> QED
  BY <1>1, <1>2, <1>3, <1>5, <1>6, <1>7, <1>8, <1>9, <1>10, <1>11, <1>12, <1>13, <1>14, <1>15,
     <1>16, <1>17, <1>18,
     <1>19, <1>20, <1>21 DEF Next, Store

----------------------------------------------------------------------------
(* What is under way *)

\* The steps of the controller leave the store's write alone.
LEMMA Elsewhere ==
    ASSUME IInv,
           \/ \E u \in Uuid : \/ Open(u) \/ Reselect(u) \/ Type(u) \/ Save(u) \/ Close(u) \/ Closed(u)
                              \/ Submit(u) \/ NotAccepted(u) \/ Accepted(u) \/ Forget(u)
                              \/ RestoreBegins(u) \/ RestoreMoves(u)
           \/ RestoreFails
    PROVE  /\ UNCHANGED <<shown, writing, disk, erased>>
           /\ queue' = queue \/ \E n \in Operations : queue' = Append(queue, n)
           /\ forgotten \subseteq forgotten'
<1> USE DEF store, io, editor, session
<1>1. ASSUME NEW u \in Uuid, \/ Open(u) \/ Reselect(u) \/ Type(u) \/ Closed(u) \/ Submit(u) \/ NotAccepted(u)
                             \/ RestoreBegins(u) \/ RestoreFails
      PROVE  UNCHANGED <<shown, forgotten, writing, disk, erased, queue>>
  BY <1>1 DEF Open, Reselect, Type, Closed, Submit, NotAccepted, RestoreBegins, RestoreFails
<1>2. ASSUME NEW u \in Uuid, Save(u) \/ Close(u) \/ Accepted(u) \/ Forget(u) \/ RestoreMoves(u)
      PROVE  /\ UNCHANGED <<shown, writing, disk, erased>>
             /\ queue' = queue \/ \E n : queue' = Append(queue, n)
             /\ forgotten \subseteq forgotten'
  <2>1. CASE Save(u)
    BY <2>1 DEF Save
  <2>2. CASE Close(u)
    BY <2>2 DEF Close
  <2>3. CASE Accepted(u)
    BY <2>3 DEF Accepted
  <2>4. CASE Forget(u)
    BY <2>4 DEF Forget
  <2>5. CASE RestoreMoves(u)
    BY <2>5 DEF RestoreMoves
  <2> QED
    BY <1>2, <2>1, <2>2, <2>3, <2>4, <2>5
<1>3. TypeOK'
  <2>1. [Next]_vars
    BY DEF Next
  <2> QED
    BY <2>1, TypeStep
<1>4. ASSUME NEW n, queue' = Append(queue, n) PROVE n \in Operations
  <2>1. queue \in Seq(Operations) /\ Append(queue, n) \in Seq(Operations)
    BY <1>3, <1>4 DEF IInv, TypeOK
  <2>2. Append(queue, n)[Len(queue) + 1] = n /\ Len(queue) + 1 \in 1..Len(Append(queue, n))
    BY <2>1
  <2> QED
    BY <2>1, <2>2
<1> QED
  BY <1>1, <1>2, <1>4 DEF RestoreFails

\* The document of a write under way is what the first operation made of the
\* sessions, through every step.
LEMMA WriteStep ==
    ASSUME IInv, [Next]_vars
    PROVE  WriteSound'
<1>0. queue \in Seq(Operations) /\ WriteSound
  BY DEF IInv, TypeOK
<1>1. ASSUME UNCHANGED <<shown, writing>>, queue' = queue \/ \E n \in Operations : queue' = Append(queue, n)
      PROVE  WriteSound'
  <2>1. queue # <<>> => queue' # <<>> /\ Head(queue') = Head(queue)
    BY <1>0, <1>1, Appended
  <2>2. \A op : Replaced(op)' = Replaced(op)
    BY <1>1 DEF Replaced, Moved
  <2> QED
    BY <1>0, <1>1, <2>1, <2>2 DEF WriteSound
<1>2. CASE Write
  <2> DEFINE op == Head(queue)
  <2>1. queue # <<>> /\ Wanted(op) /\ UNCHANGED <<shown, queue>>
        /\ writing' = [document |-> [sessions |-> Replaced(op), forgotten |-> Tombstones(op)], undo |-> FALSE]
    BY <1>2 DEF Write, store
  <2>2. op \in Operations /\ op.uuid \in Uuid /\ (op.kind = "forget" => op.uuid \in forgotten)
    BY <2>1, HeadSound
  <2>3. op.kind \in {"record", "clear", "transfer"} => shown[op.uuid] # None
    BY <2>1, <2>2 DEF Wanted, Get
  <2>4. op.kind = "transfer" => shown[op.to] = None
    BY <2>1, <2>2 DEF Wanted, Available
  <2>5. op.kind \in {"forget", "transfer"} => op.uuid \in Tombstones(op)
    BY <2>2 DEF Tombstones
  <2>6. Replaced(op)' = Replaced(op)
    BY <2>1 DEF Replaced, Moved
  <2> HIDE DEF op
  <2> QED
    BY <2>1, <2>3, <2>4, <2>5, <2>6 DEF WriteSound, op
<1>3. CASE WriteUndone
  <2>1. writing # None /\ ~writing.undo /\ ~StillValid(Head(queue)) /\ UNCHANGED <<shown, queue>>
        /\ writing' = [document |-> [sessions |-> shown, forgotten |-> forgotten], undo |-> TRUE]
    BY <1>3 DEF WriteUndone, store
  <2>2. Head(queue).kind \in {"record", "clear", "transfer"}
    BY <2>1 DEF StillValid
  <2> QED
    BY <1>0, <2>1, <2>2 DEF WriteSound
<1>4. CASE Skip
  BY <1>4, SkipReturns DEF WriteSound
<1>5. CASE WriteFails
  BY <1>5, FailReturns DEF WriteSound
<1>6. CASE WriteLands
  BY <1>6, LandReturns DEF WriteSound
<1>7. CASE Reload
  BY <1>7 DEF Reload, WriteSound
<1>8. CASE UNCHANGED vars
  BY <1>1, <1>8 DEF vars, store, io
<1> QED
  BY <1>1, <1>2, <1>3, <1>4, <1>5, <1>6, <1>7, <1>8, Elsewhere DEF Next, Store

----------------------------------------------------------------------------
(* Nothing comes back *)

\* No step writes, shows or queues a draft of a conversation that was erased.
LEMMA EraseStep ==
    ASSUME IInv, [Next]_vars
    PROVE  ErasedGone'
<1>0. TypeOK /\ ErasedGone /\ WriteSound
  BY DEF IInv
<1>1. ASSUME UNCHANGED <<shown, writing, disk, erased>>, forgotten \subseteq forgotten'
      PROVE  ErasedGone'
  BY <1>0, <1>1 DEF ErasedGone
<1>2. CASE Write
  <2> DEFINE op == Head(queue)
  <2>1. queue # <<>> /\ Wanted(op) /\ UNCHANGED <<shown, forgotten, disk, erased>>
        /\ writing' = [document |-> [sessions |-> Replaced(op), forgotten |-> Tombstones(op)], undo |-> FALSE]
    BY <1>2 DEF Write, store
  <2>2. /\ op \in Operations /\ op.uuid \in Uuid /\ (op.kind = "transfer" => op.to \in Uuid)
    BY <2>1, HeadSound
  <2>3. /\ op.kind \in {"record", "clear", "transfer"} => shown[op.uuid] # None
        /\ op.kind = "transfer" => shown[op.to] = None /\ op.to \notin forgotten
        /\ op.kind \in {"save", "resave"} => op.uuid \notin forgotten
    BY <2>1, <2>2 DEF Wanted, Available, Get
  <2>4. ASSUME NEW u \in erased PROVE Replaced(op)[u] = None /\ u \in Tombstones(op)
    <3>1. u \in Uuid /\ shown[u] = None /\ u \in forgotten
      BY <1>0 DEF ErasedGone, TypeOK
    <3>2. Replaced(op)[u] = None
      BY <1>0, <2>2, <2>3, <3>1, ReplacedGone
    <3> QED
      BY <3>1, <3>2 DEF Tombstones
  <2> HIDE DEF op
  <2> QED
    BY <1>0, <2>1, <2>4 DEF ErasedGone
<1>3. CASE WriteUndone
  BY <1>0, <1>3 DEF WriteUndone, store, ErasedGone
<1>4. CASE Skip
  BY <1>1, <1>4, SkipReturns DEF store
<1>5. CASE WriteFails
  BY <1>0, <1>5, FailReturns DEF ErasedGone
<1>6. CASE WriteLands
  <2> DEFINE op == Head(queue)
  <2>1. /\ queue # <<>> /\ writing # None /\ writing' = None
        /\ shown' = IF writing.undo THEN shown ELSE Replaced(op)
        /\ shown' = writing.document.sessions /\ disk' = writing.document
        /\ forgotten' = forgotten \cup (IF ~writing.undo /\ op.kind = "transfer" THEN {op.uuid} ELSE {})
        /\ erased' = erased \cup (IF op.kind = "forget" THEN {op.uuid}
                                  ELSE IF ~writing.undo /\ op.kind = "transfer" THEN {op.uuid} ELSE {})
    BY <1>6, LandReturns
  <2>2. /\ op \in Operations /\ op.uuid \in Uuid /\ (op.kind = "transfer" => op.to \in Uuid)
        /\ op.kind = "forget" => op.uuid \in forgotten
    BY <2>1, HeadSound
  <2>3. /\ op.kind \in {"record", "clear", "transfer"} => shown[op.uuid] # None
        /\ op.kind = "transfer" => shown[op.to] = None
        /\ writing.undo => op.kind \notin {"forget"}
        /\ ~writing.undo /\ op.kind \in {"forget", "transfer"} => op.uuid \in writing.document.forgotten
    BY <1>0, <2>1 DEF WriteSound
  <2>4. ASSUME ~writing.undo, op.kind \in {"forget", "transfer"} PROVE shown'[op.uuid] = None
    BY <2>1, <2>2, <2>3, <2>4, <1>0, ReplacedTexts
  <2>5. ASSUME NEW u \in erased
        PROVE  /\ u \in forgotten' /\ u \in disk'.forgotten
               /\ shown'[u] = None /\ disk'.sessions[u] = None
    BY <1>0, <2>1 DEF ErasedGone
  <2>6. ASSUME NEW u \in erased', u \notin erased
        PROVE  /\ u \in forgotten' /\ u \in disk'.forgotten
               /\ shown'[u] = None /\ disk'.sessions[u] = None
    <3>1. u = op.uuid /\ ~writing.undo /\ op.kind \in {"forget", "transfer"}
      BY <2>1, <2>3, <2>6
    <3> QED
      BY <2>1, <2>2, <2>3, <2>4, <3>1
  <2> QED
    BY <2>1, <2>5, <2>6 DEF ErasedGone
<1>7. CASE Reload
  <2>1. \A u \in erased : u \in Uuid
    BY <1>0 DEF TypeOK
  <2> QED
    BY <1>0, <1>7, <2>1 DEF Reload, ErasedGone
<1>8. CASE UNCHANGED vars
  BY <1>1, <1>8 DEF vars, store, io
<1> QED
  BY <1>1, <1>2, <1>3, <1>4, <1>5, <1>6, <1>7, <1>8, Elsewhere DEF Next, Store

----------------------------------------------------------------------------
(* A text has one conversation *)

\* What the queue holds with one more operation it held before, or the new one
\* brought it.
LEMMA HeldAppended ==
    ASSUME TypeOK, NEW w \in Uuid, NEW t \in 1..MaxTyped, NEW n \in Operations, queue' = Append(queue, n),
           NEW i \in 1..Len(queue'), queue'[i].uuid = w, queue'[i].draft.text = t
    PROVE  \/ \E j \in 1..Len(queue) : queue[j].uuid = w /\ queue[j].draft.text = t
           \/ n.uuid = w /\ n.draft.text = t
<1>1. queue \in Seq(Operations)
  BY DEF TypeOK
<1> QED
  BY <1>1, Appended

\* A step of the controller takes a text from the conversation itself.
LEMMA HeldByController ==
    ASSUME IInv, TypeOK', NEW u \in Uuid, NEW w \in Uuid, NEW t \in 1..MaxTyped, Holds(w, t)',
           \/ Open(u) \/ Reselect(u) \/ Save(u) \/ Close(u) \/ Closed(u)
           \/ Submit(u) \/ NotAccepted(u) \/ Accepted(u) \/ Forget(u) \/ RestoreBegins(u) \/ RestoreMoves(u)
           \/ RestoreFails
    PROVE  Holds(w, t)
<1>0. TypeOK
  BY DEF IInv
<1>q. queue \in Seq(Operations) /\ (writing # None => queue # <<>>)
  BY DEF IInv, TypeOK, WriteSound
<1> USE DEF store, io, editor, session
<1>s. /\ shown[w] # None /\ shown[w].draft.text = t => Holds(w, t)
      /\ w \notin forgotten /\ working[w].text = t => Holds(w, t)
      /\ w \notin forgotten /\ failed[w] # None /\ failed[w].text = t => Holds(w, t)
  BY DEF Holds, Shows
<1>e. Empty.text # t
  BY DEF Empty
<1>1. ASSUME w \notin forgotten, Recoverable(w) # None, Recoverable(w).text = t PROVE Holds(w, t)
  BY <1>s, <1>1 DEF Recoverable
<1>2. ASSUME UNCHANGED <<shown, forgotten, failed, queue, writing, sending, restoring>>,
             w \notin forgotten /\ working'[w].text = t => Holds(w, t)
      PROVE  Holds(w, t)
  BY <1>2 DEF Holds, Shows
<1>3. CASE Open(u)
  <2>1. working'[w].text = t /\ w \notin forgotten => Holds(w, t)
    BY <1>0, <1>1, <1>3, <1>s, <1>e DEF Open, TypeOK
  <2> QED
    BY <1>2, <1>3, <2>1 DEF Open
<1>4. CASE Reselect(u)
  <2>1. working'[w].text = t /\ w \notin forgotten => Holds(w, t)
    BY <1>0, <1>1, <1>4, <1>s, <1>e DEF Reselect, TypeOK, Newer
  <2> QED
    BY <1>2, <1>4, <2>1 DEF Reselect
<1>5. ASSUME UNCHANGED <<shown, writing>>, forgotten \subseteq forgotten',
             NEW n \in Operations, queue' = Append(queue, n),
             w \notin forgotten' /\ n.uuid = w /\ n.draft.text = t => Holds(w, t),
             failed'[w] = None \/ failed'[w] = failed[w],
             working'[w] \in {working[w], Empty},
             sending'[w] # None => sending[w] # None /\ sending'[w].draft = sending[w].draft,
             restoring' \in {restoring, None}
      PROVE  Holds(w, t)
  <2>1. writing # None => Head(queue') = Head(queue)
    BY <1>q, <1>5, Appended
  <2>2. CASE w \notin forgotten' /\ \E i \in 1..Len(queue') : queue'[i].uuid = w /\ queue'[i].draft.text = t
    BY <1>0, <1>5, <2>2, HeldAppended DEF Holds
  <2>3. CASE ~(w \notin forgotten' /\ \E i \in 1..Len(queue') : queue'[i].uuid = w /\ queue'[i].draft.text = t)
    BY <1>5, <1>e, <2>1, <2>3 DEF Holds, Shows
  <2> QED
    BY <2>2, <2>3
<1>6. ASSUME NEW kind \in {"save", "resave"}, NEW v \in Uuid
      PROVE  /\ SaveOp(kind, v) \in Operations /\ SaveOp(kind, v).uuid = v /\ SaveOp(kind, v).draft = working[v]
             /\ w \notin forgotten /\ SaveOp(kind, v).uuid = w /\ SaveOp(kind, v).draft.text = t => Holds(w, t)
  BY <1>0, <1>s, BoundAssumption DEF SaveOp, Op, Operations, TypeOK
<1>7. CASE Save(u)
  <2>1. queue' = Append(queue, SaveOp("save", u)) /\ UNCHANGED <<store, writing, working, sending, restoring>>
    BY <1>7 DEF Save
  <2> QED
    BY <1>5, <1>6, <2>1
<1>8. CASE Close(u)
  <2>1. UNCHANGED <<store, writing, working, sending, restoring>>
    BY <1>8 DEF Close
  <2>2. CASE u \in dirty
    <3>1. queue' = Append(queue, SaveOp("save", u))
      BY <1>8, <2>2 DEF Close
    <3> QED
      BY <1>5, <1>6, <2>1, <3>1
  <2>3. CASE u \notin dirty
    <3>1. queue' = queue
      BY <1>8, <2>3 DEF Close
    <3> QED
      BY <1>2, <1>s, <2>1, <3>1
  <2> QED
    BY <2>2, <2>3
<1>9. CASE Closed(u)
  <2>1. working'[w].text = t /\ w \notin forgotten => Holds(w, t)
    BY <1>0, <1>9, <1>s, <1>e DEF Closed, TypeOK
  <2> QED
    BY <1>2, <1>9, <2>1 DEF Closed
<1>10. ASSUME UNCHANGED <<shown, forgotten, failed, queue, writing, working, restoring>>,
             w \notin forgotten /\ sending'[w] # None /\ sending'[w].draft.text = t => Holds(w, t)
      PROVE  Holds(w, t)
  BY <1>10 DEF Holds, Shows
<1>11. CASE Submit(u)
  <2>1. w \notin forgotten /\ sending'[w] # None /\ sending'[w].draft.text = t => Holds(w, t)
    <3>1. CASE w = u
      <4>1. sending'[w].draft = working[w]
        BY <1>0, <1>11, <3>1 DEF Submit, TypeOK
      <4> QED
        BY <1>s, <4>1
    <3>2. CASE w # u
      <4>1. sending'[w] = sending[w]
        BY <1>0, <1>11, <3>2 DEF Submit, TypeOK
      <4> QED
        BY <4>1 DEF Holds
    <3> QED
      BY <3>1, <3>2
  <2> QED
    BY <1>10, <1>11, <2>1 DEF Submit
<1>12. CASE NotAccepted(u)
  <2>1. sending'[w] # None => sending'[w] = sending[w]
    BY <1>0, <1>12 DEF NotAccepted, TypeOK
  <2>2. w \notin forgotten /\ sending'[w] # None /\ sending'[w].draft.text = t => Holds(w, t)
    BY <2>1 DEF Holds
  <2> QED
    BY <1>10, <1>12, <2>2 DEF NotAccepted
<1>13. CASE Accepted(u)
  <2>1. sending[u] # None /\ sending[u] \in Sendings /\ UNCHANGED <<store, writing, working, restoring>>
    BY <1>0, <1>13 DEF Accepted, TypeOK
  <2>2. CASE Current(u, sending[u].gen)
    <3>1. \/ queue' = Append(queue, SaveOp("resave", u))
          \/ queue' = Append(queue, RecordOp(u))
      BY <1>13, <2>2 DEF Accepted
    <3>2. sending'[w] # None => sending[w] # None /\ sending'[w].draft = sending[w].draft
      <4>1. \E s : sending' = [sending EXCEPT ![u].step = s]
        BY <1>13, <2>2 DEF Accepted
      <4>2. PICK s : sending' = [sending EXCEPT ![u].step = s]
        BY <4>1
      <4>3. [sending[u] EXCEPT !.step = s].draft = sending[u].draft
        BY <2>1 DEF Sendings
      <4> QED
        BY <1>0, <2>1, <4>2, <4>3 DEF TypeOK
    <3>3. RecordOp(u) \in Operations /\ RecordOp(u).uuid = u /\ RecordOp(u).draft = sending[u].draft
      BY <2>1 DEF RecordOp, Op, Operations, Sendings
    <3>4. w \notin forgotten /\ RecordOp(u).uuid = w /\ RecordOp(u).draft.text = t => Holds(w, t)
      BY <2>1, <3>3 DEF Holds
    <3> QED
      BY <1>5, <1>6, <2>1, <3>1, <3>2, <3>3, <3>4
  <2>3. CASE ~Current(u, sending[u].gen)
    <3>1. queue' = queue /\ sending' = [sending EXCEPT ![u] = None]
      BY <1>13, <2>3 DEF Accepted
    <3>2. sending'[w] # None => sending'[w] = sending[w]
      BY <1>0, <3>1 DEF TypeOK
    <3>3. w \notin forgotten /\ sending'[w] # None /\ sending'[w].draft.text = t => Holds(w, t)
      BY <3>2 DEF Holds
    <3> QED
      BY <1>10, <2>1, <3>1, <3>3
  <2> QED
    BY <2>2, <2>3
<1>14. CASE Forget(u)
  <2> DEFINE n == Op("forget", u, Empty, 0, None)
  <2>1. n \in Operations /\ n.draft.text # t
    BY <1>0, Drafted, BoundAssumption DEF Op, Operations, Empty
  <2>2. /\ queue' = Append(queue, n) /\ forgotten \subseteq forgotten'
        /\ UNCHANGED <<shown, writing, sending, restoring>>
    BY <1>14 DEF Forget
  <2>3. (failed'[w] = None \/ failed'[w] = failed[w]) /\ working'[w] \in {working[w], Empty}
    BY <1>0, <1>14 DEF Forget, TypeOK
  <2> HIDE DEF n
  <2> QED
    BY <1>5, <2>1, <2>2, <2>3
<1>15. CASE RestoreBegins(u)
  <2>1. Get(u) # None /\ UNCHANGED <<store, queue, writing, working, sending>>
        /\ restoring'.uuid = u /\ restoring'.draft = Get(u).draft
    BY <1>15 DEF RestoreBegins
  <2>2. restoring'.uuid = w /\ restoring'.draft.text = t => Holds(w, t)
    BY <1>0, <1>s, <2>1, Drafted
  <2> QED
    BY <2>1, <2>2 DEF Holds, Shows
<1>16. CASE RestoreMoves(u)
  <2> DEFINE n == Op("transfer", restoring.uuid, restoring.draft, opened[u], u)
  <2>1. n \in Operations /\ n.uuid = restoring.uuid /\ n.draft = restoring.draft /\ restoring # None
    BY <1>0, <1>16 DEF RestoreMoves, TypeOK, Op, Operations
  <2>2. /\ queue' = Append(queue, n) /\ restoring' = None
        /\ UNCHANGED <<store, writing, working, sending>>
    BY <1>16 DEF RestoreMoves
  <2> HIDE DEF n
  <2>3. w \notin forgotten /\ n.uuid = w /\ n.draft.text = t => Holds(w, t)
    BY <2>1 DEF Holds
  <2> QED
    BY <1>5, <2>1, <2>2, <2>3
<1>17. CASE RestoreFails
  BY <1>17 DEF RestoreFails, Holds, Shows
<1> QED
  BY <1>3, <1>4, <1>7, <1>8, <1>9, <1>11, <1>12, <1>13, <1>14, <1>15, <1>16, <1>17

\* An operation that returns puts no text into the hands of a conversation that
\* did not have it: what it holds afterwards it held or showed.
LEMMA HeldReturned ==
    ASSUME IInv, queue # <<>>, NEW outcome, Return(Head(queue), outcome),
           shown' \in [Uuid -> Records \cup {None}],
           Head(queue).kind = "clear" /\ outcome = "done" => shown'[Head(queue).uuid] # None,
           Head(queue).kind = "transfer" /\ outcome = "done" => shown'[Head(queue).to] # None,
           writing' = None, UNCHANGED restoring, forgotten \subseteq forgotten',
           NEW w \in Uuid, NEW t \in 1..MaxTyped, Holds(w, t)',
           w \notin forgotten' /\ failed'[w] # None =>
             failed'[w] = failed[w] \/ (failed'[w] = Head(queue).draft /\ w = Head(queue).uuid)
    PROVE  (Holds(w, t) /\ w \notin forgotten') \/ Shows(w, t)'
<1> DEFINE op == Head(queue)
<1>0. TypeOK /\ SubmissionsTracked /\ OpsSound
  BY DEF IInv
<1>1. op \in Operations /\ op = queue[1] /\ 1 \in 1..Len(queue) /\ (op.kind = "transfer" => op.to \in Uuid)
  BY HeadSound
<1> SUFFICES ASSUME ~Shows(w, t)' PROVE Holds(w, t) /\ w \notin forgotten'
  OBVIOUS
<1>2. /\ w \notin forgotten'
      /\ \/ working'[w].text = t
         \/ failed'[w] # None /\ failed'[w].text = t
         \/ \E i \in 1..Len(queue') : queue'[i].uuid = w /\ queue'[i].draft.text = t
         \/ sending'[w] # None /\ sending'[w].draft.text = t
         \/ restoring # None /\ restoring.uuid = w /\ restoring.draft.text = t
  BY DEF Holds
<1>3. w \notin forgotten
  BY <1>2
<1>4. CASE working'[w].text = t
  <2>1. \/ working'[w] = working[w] \/ working'[w].text = 0
        \/ op.kind = "clear" /\ outcome = "done" /\ w = op.uuid /\ working'[w] = shown'[w].draft
        \/ op.kind = "transfer" /\ outcome = "done" /\ w = op.to /\ working'[w] = shown'[w].draft
    BY <1>0, <1>1, ReturnDrafts
  <2>2. working'[w] = working[w]
    BY <1>4, <2>1 DEF Shows
  <2> QED
    BY <1>2, <1>3, <1>4, <2>2 DEF Holds
<1>5. CASE failed'[w] # None /\ failed'[w].text = t
  BY <1>1, <1>2, <1>3, <1>5 DEF Holds
<1>6. CASE \E i \in 1..Len(queue') : queue'[i].uuid = w /\ queue'[i].draft.text = t
  <2>1. PICK i \in 1..Len(queue') : queue'[i].uuid = w /\ queue'[i].draft.text = t
    BY <1>6
  <2>2. \/ i + 1 \in 1..Len(queue) /\ queue'[i] = queue[i + 1]
        \/ /\ queue'[i].uuid = op.uuid
           /\ queue'[i].draft \in {op.draft, sending[op.uuid].draft}
           /\ sending[op.uuid] # None
    BY <1>0, ReturnTracked
  <2> QED
    BY <1>1, <1>2, <1>3, <2>1, <2>2 DEF Holds
<1>7. CASE sending'[w] # None /\ sending'[w].draft.text = t
  <2>1. sending[w] # None /\ sending'[w].draft = sending[w].draft
    BY <1>0, <1>7, ReturnTracked
  <2> QED
    BY <1>2, <1>3, <1>7, <2>1 DEF Holds
<1> QED
  BY <1>2, <1>3, <1>4, <1>5, <1>6, <1>7 DEF Holds

\* Where a text comes from when the change of an operation is stored.
LEMMA DocumentTexts ==
    ASSUME IInv, writing # None, NEW w \in Uuid, NEW t \in 1..MaxTyped,
           writing.document.sessions[w] # None, writing.document.sessions[w].draft.text = t
    PROVE  LET op == Head(queue) IN
           \/ Holds(w, t) /\ (~writing.undo /\ op.kind = "transfer" => w # op.uuid)
           \/ ~writing.undo /\ op.kind = "transfer" /\ w = op.to /\ Holds(op.uuid, t)
<1> DEFINE op == Head(queue)
<1>1. /\ queue # <<>>
      /\ op.kind \in {"record", "clear", "transfer"} => shown[op.uuid] # None
      /\ op.kind = "transfer" => shown[op.to] = None
      /\ writing.document.sessions = IF writing.undo THEN shown ELSE Replaced(op)
  BY DEF IInv, WriteSound
<1>2. op \in Operations /\ op.uuid \in Uuid /\ (op.kind = "transfer" => op.to \in Uuid)
  BY <1>1, HeadSound
<1>3. CASE writing.undo
  BY <1>1, <1>3 DEF Holds, Shows
<1>4. CASE ~writing.undo
  <2>1. /\ \/ Replaced(op)[w].draft.text = 0
           \/ Shows(w, Replaced(op)[w].draft.text) /\ (op.kind = "transfer" => w # op.uuid)
           \/ op.kind \in {"save", "resave"} /\ w = op.uuid /\ Replaced(op)[w].draft = op.draft
           \/ op.kind = "transfer" /\ w = op.to /\ Replaced(op)[w].draft = shown[op.uuid].draft
    BY <1>1, <1>2, <1>4, ReplacedTexts DEF IInv
  <2>2. Replaced(op)[w].draft.text = t /\ t # 0
    BY <1>1, <1>4
  <2>3. CASE Shows(w, t) /\ (op.kind = "transfer" => w # op.uuid)
    BY <2>3 DEF Holds
  <2>4. CASE op.kind \in {"save", "resave"} /\ w = op.uuid /\ op.draft.text = t
    BY <2>4 DEF Holds
  <2>5. CASE op.kind = "transfer" /\ w = op.to /\ shown[op.uuid].draft.text = t
    BY <1>1, <1>4, <2>5 DEF Holds, Shows
  <2> QED
    BY <2>1, <2>2, <2>3, <2>4, <2>5
<1> QED
  BY <1>3, <1>4

\* A text is in the document of a write under way once, and was typed.
LEMMA DocumentSingle ==
    ASSUME IInv, writing # None, NEW t \in 1..MaxTyped, NEW v \in Uuid, NEW w \in Uuid,
           writing.document.sessions[v] # None, writing.document.sessions[v].draft.text = t,
           writing.document.sessions[w] # None, writing.document.sessions[w].draft.text = t
    PROVE  v = w /\ t <= typed
<1> DEFINE op == Head(queue)
<1>1. op.uuid \in Uuid
  BY HeadSound DEF IInv, WriteSound
<1> HIDE DEF op
<1>2. ASSUME NEW x \in Uuid, writing.document.sessions[x] # None, writing.document.sessions[x].draft.text = t
      PROVE  \/ Holds(x, t) /\ (~writing.undo /\ op.kind = "transfer" => x # op.uuid)
             \/ ~writing.undo /\ op.kind = "transfer" /\ x = op.to /\ Holds(op.uuid, t)
  BY <1>2, DocumentTexts DEF op
<1>3. \A x, y \in Uuid : (Holds(x, t) /\ Holds(y, t) => x = y) /\ (Holds(x, t) => t <= typed)
  BY DEF IInv, OneHolder
<1>4. t <= typed
  BY <1>1, <1>2, <1>3
<1>5. CASE Holds(v, t) /\ Holds(w, t)
  BY <1>3, <1>4, <1>5
<1>6. CASE ~(Holds(v, t) /\ Holds(w, t))
  <2>1. ~writing.undo /\ op.kind = "transfer" /\ Holds(op.uuid, t)
    BY <1>2, <1>6
  <2>2. v = op.to /\ w = op.to
    BY <1>1, <1>2, <1>3, <2>1
  <2> QED
    BY <1>4, <2>2
<1> QED
  BY <1>5, <1>6

\* No step gives a text to a second conversation.
LEMMA HoldStep ==
    ASSUME IInv, [Next]_vars
    PROVE  OneHolder'
<1>0. TypeOK /\ OneHolder /\ TypeOK' /\ WriteSound
  BY TypeStep DEF IInv
<1>t. typed \in Nat /\ MaxTyped \in Nat
  BY <1>0, BoundAssumption DEF TypeOK
<1>1. ASSUME \A w \in Uuid, t \in 1..MaxTyped : Holds(w, t)' => Holds(w, t),
             \A w \in Uuid, t \in 1..MaxTyped : OnDisk(w, t)' => OnDisk(w, t), typed' = typed
      PROVE  OneHolder'
  BY <1>0, <1>1 DEF OneHolder
<1>2. ASSUME NEW u \in Uuid,
             \/ Open(u) \/ Reselect(u) \/ Save(u) \/ Close(u) \/ Closed(u)
             \/ Submit(u) \/ NotAccepted(u) \/ Accepted(u) \/ Forget(u)
             \/ RestoreBegins(u) \/ RestoreMoves(u) \/ RestoreFails
      PROVE  OneHolder'
  <2>1. \A w \in Uuid, t \in 1..MaxTyped : Holds(w, t)' => Holds(w, t)
    BY <1>0, <1>2, HeldByController
  <2>2. typed' = typed
    BY <1>2
       DEF Open, Reselect, Save, Close, Closed, Submit, NotAccepted, Accepted, Forget,
           RestoreBegins,
                RestoreMoves, RestoreFails
  <2>3. disk' = disk
    BY <1>2, Elsewhere
  <2> QED
    BY <1>1, <2>1, <2>2, <2>3 DEF OnDisk
<1>3. ASSUME NEW u \in Uuid, Type(u) PROVE OneHolder'
  <2>1. ASSUME NEW w \in Uuid, NEW t \in 1..MaxTyped, Holds(w, t)'
        PROVE  Holds(w, t) \/ (w = u /\ t = typed + 1)
    <3>1. UNCHANGED <<shown, forgotten, failed, queue, writing, sending, restoring>> /\ typed' = typed + 1
      BY <1>3 DEF Type, store, io
    <3>2. working'[w] = working[w] \/ (w = u /\ working'[w].text = typed + 1)
      BY <1>0, <1>3, <3>1 DEF Type, TypeOK
    <3> QED
      BY <2>1, <3>1, <3>2 DEF Holds, Shows
  <2>2. \A w \in Uuid, t \in 1..MaxTyped : OnDisk(w, t)' => OnDisk(w, t)
    BY <1>3 DEF Type, io, OnDisk
  <2>3. typed' = typed + 1
    BY <1>3 DEF Type
  <2>4. \A w \in Uuid, t \in 1..MaxTyped : Holds(w, t) \/ OnDisk(w, t) => t <= typed
    BY <1>0 DEF OneHolder
  <2> SUFFICES ASSUME NEW t \in 1..MaxTyped, NEW v \in Uuid, NEW w \in Uuid
               PROVE  /\ Holds(v, t)' /\ Holds(w, t)' => v = w
                      /\ OnDisk(v, t)' /\ OnDisk(w, t)' => v = w
                      /\ Holds(v, t)' \/ OnDisk(v, t)' => t <= typed'
    BY DEF OneHolder
  <2>5. CASE t = typed + 1
    <3>1. ~Holds(v, t) /\ ~Holds(w, t) /\ ~OnDisk(v, t)
      BY <1>t, <2>4, <2>5
    <3> QED
      BY <1>t, <2>1, <2>2, <2>3, <2>5, <3>1
  <2>6. CASE t # typed + 1
    <3>1. (Holds(v, t)' => Holds(v, t)) /\ (Holds(w, t)' => Holds(w, t))
      BY <2>1, <2>6
    <3>2. /\ Holds(v, t) /\ Holds(w, t) => v = w
          /\ OnDisk(v, t) /\ OnDisk(w, t) => v = w
          /\ Holds(v, t) \/ OnDisk(v, t) => t <= typed
      BY <1>0 DEF OneHolder
    <3>3. t <= typed => t <= typed'
      <4> typed' \in Nat /\ t \in Nat
        BY <1>t, <2>3
      <4> QED
        BY <1>t, <2>3
    <3> QED
      BY <2>2, <3>1, <3>2, <3>3
  <2> QED
    BY <2>5, <2>6
<1>4. CASE Skip
  <2>1. /\ queue # <<>> /\ writing = None
        /\ UNCHANGED <<store, writing, disk, session, dirty, restoring, typed, erased>>
        /\ \E outcome : /\ Return(Head(queue), outcome)
                        /\ outcome = "done" => Head(queue).kind \in {"save", "resave"}
    BY <1>4, SkipReturns
  <2>2. \A w \in Uuid, t \in 1..MaxTyped : Holds(w, t)' => Holds(w, t)
    <3> SUFFICES ASSUME NEW w \in Uuid, NEW t \in 1..MaxTyped, Holds(w, t)' PROVE Holds(w, t)
      OBVIOUS
    <3>1. PICK outcome : /\ Return(Head(queue), outcome)
                         /\ outcome = "done" => Head(queue).kind \in {"save", "resave"}
      BY <2>1
    <3>2. /\ shown' = shown /\ forgotten' = forgotten /\ failed' = failed /\ writing' = None
          /\ UNCHANGED restoring /\ shown' \in [Uuid -> Records \cup {None}]
      BY <1>0, <2>1 DEF store, TypeOK
    <3>3. (Holds(w, t) /\ w \notin forgotten') \/ Shows(w, t)'
      BY <2>1, <3>1, <3>2, HeldReturned, SMTT(30)
    <3> QED
      BY <3>2, <3>3 DEF Holds, Shows
  <2> QED
    BY <1>1, <2>1, <2>2 DEF OnDisk
<1>5. CASE WriteFails
  <2>1. /\ queue # <<>> /\ writing # None /\ writing' = None /\ failed' = Retained(Head(queue))
        /\ UNCHANGED <<shown, forgotten, disk, session, dirty, restoring, typed, erased>>
        /\ \E outcome \in {"refused", "failed"} : Return(Head(queue), outcome)
    BY <1>5, FailReturns
  <2>2. \A w \in Uuid : failed'[w] = failed[w] \/ (failed'[w] = Head(queue).draft /\ w = Head(queue).uuid)
    BY <1>0, <2>1 DEF Retained, TypeOK
  <2>3. ASSUME NEW w \in Uuid, NEW t \in 1..MaxTyped, Holds(w, t)' PROVE Holds(w, t)
    <3>1. PICK outcome \in {"refused", "failed"} : Return(Head(queue), outcome)
      BY <2>1
    <3>2. shown' \in [Uuid -> Records \cup {None}] /\ forgotten \subseteq forgotten' /\ restoring' = restoring
      BY <1>0, <2>1 DEF TypeOK
    <3>3. Holds(w, t) \/ Shows(w, t)'
      BY <2>1, <2>2, <2>3, <3>1, <3>2, HeldReturned
    <3> QED
      BY <2>1, <3>3 DEF Holds, Shows
  <2> QED
    BY <1>1, <2>1, <2>3 DEF OnDisk
<1>6. CASE Write
  <2>1. /\ queue # <<>> /\ UNCHANGED <<store, queue, disk, session, editor, sending, restoring, typed, erased>>
        /\ Wanted(Head(queue))
    BY <1>6 DEF Write
  <2>2. /\ Head(queue) \in Operations /\ Head(queue) = queue[1] /\ 1 \in 1..Len(queue)
        /\ Head(queue).kind = "forget" => Head(queue).draft.text = 0
    BY <2>1, HeadSound
  <2>3. Head(queue).kind = "forget" \/ Head(queue).uuid \notin forgotten
    BY <2>1, <2>2 DEF Wanted, Get, Operations
  <2>4. ASSUME NEW w \in Uuid, NEW t \in 1..MaxTyped, Holds(w, t)' PROVE Holds(w, t)
    <3>1. UNCHANGED <<shown, forgotten, failed, queue, working, sending, restoring>>
      BY <2>1 DEF store, editor
    <3>2. Head(queue).uuid = w /\ Head(queue).draft.text = t => Holds(w, t)
      BY <2>2, <2>3 DEF Holds
    <3> QED
      BY <2>4, <3>1, <3>2 DEF Holds, Shows
  <2> QED
    BY <1>1, <2>1, <2>4 DEF OnDisk
<1>8. CASE WriteUndone
  <2>1. /\ writing # None /\ disk' = writing.document /\ typed' = typed
        /\ UNCHANGED <<shown, forgotten, failed, queue, working, sending, restoring>>
    BY <1>8 DEF WriteUndone, store, editor
  <2>2. \A w \in Uuid, t \in 1..MaxTyped : Holds(w, t)' => Holds(w, t)
    BY <2>1 DEF Holds, Shows
  <2> SUFFICES ASSUME NEW t \in 1..MaxTyped, NEW v \in Uuid, NEW w \in Uuid
               PROVE  /\ Holds(v, t)' /\ Holds(w, t)' => v = w
                      /\ OnDisk(v, t)' /\ OnDisk(w, t)' => v = w
                      /\ Holds(v, t)' \/ OnDisk(v, t)' => t <= typed'
    BY DEF OneHolder
  <2>3. /\ OnDisk(v, t)' /\ OnDisk(w, t)' => v = w
        /\ OnDisk(v, t)' => t <= typed
    BY <2>1, DocumentSingle DEF OnDisk
  <2> QED
    BY <1>0, <2>1, <2>2, <2>3 DEF OneHolder
<1>9. CASE WriteLands
  <2> DEFINE op == Head(queue)
  <2>1. /\ queue # <<>> /\ writing # None /\ writing' = None
        /\ shown' = writing.document.sessions /\ disk' = writing.document
        /\ shown' \in [Uuid -> Records \cup {None}]
        /\ failed' = [v \in Uuid |-> IF Superseded(v, shown') THEN None ELSE failed[v]]
        /\ forgotten' = forgotten \cup (IF ~writing.undo /\ op.kind = "transfer" THEN {op.uuid} ELSE {})
        /\ UNCHANGED <<restoring, typed>>
        /\ \E outcome : /\ Return(op, outcome)
                        /\ op.kind = "clear" /\ outcome = "done" => shown'[op.uuid] # None
                        /\ op.kind = "transfer" /\ outcome = "done" => shown'[op.to] # None
    BY <1>9, LandReturns
  <2>2. \A w \in Uuid : failed'[w] # None => failed'[w] = failed[w]
    BY <2>1
  <2>3. ASSUME NEW w \in Uuid, NEW t \in 1..MaxTyped, Holds(w, t)'
        PROVE  (Holds(w, t) /\ w \notin forgotten') \/ Shows(w, t)'
    BY <2>1, <2>2, <2>3, HeldReturned
  <2>4. ASSUME NEW w \in Uuid, NEW t \in 1..MaxTyped, Shows(w, t)' \/ OnDisk(w, t)'
        PROVE  writing.document.sessions[w] # None /\ writing.document.sessions[w].draft.text = t
    BY <2>1, <2>4 DEF Shows, OnDisk
  <2> HIDE DEF op
  <2> SUFFICES ASSUME NEW t \in 1..MaxTyped, NEW v \in Uuid, NEW w \in Uuid
               PROVE  /\ Holds(v, t)' /\ Holds(w, t)' => v = w
                      /\ OnDisk(v, t)' /\ OnDisk(w, t)' => v = w
                      /\ Holds(v, t)' \/ OnDisk(v, t)' => t <= typed'
    BY DEF OneHolder
  <2>5. ASSUME Shows(v, t)' \/ OnDisk(v, t)', Shows(w, t)' \/ OnDisk(w, t)' PROVE v = w
    BY <2>1, <2>4, <2>5, DocumentSingle
  <2>6. ASSUME NEW x \in Uuid, Shows(x, t)' \/ OnDisk(x, t)' PROVE t <= typed
    BY <2>1, <2>4, <2>6, DocumentSingle
  <2>7. ASSUME NEW x \in Uuid, NEW y \in Uuid, Shows(x, t)', Holds(y, t), y \notin forgotten' PROVE x = y
    <3>1. \/ Holds(x, t)
          \/ ~writing.undo /\ op.kind = "transfer" /\ Holds(op.uuid, t)
      BY <2>1, <2>4, <2>7, DocumentTexts DEF op
    <3>2. CASE Holds(x, t)
      BY <1>0, <2>7, <3>2 DEF OneHolder
    <3>3. CASE ~writing.undo /\ op.kind = "transfer" /\ Holds(op.uuid, t)
      <4>1. op.uuid \in Uuid
        BY <2>1, HeadSound DEF op
      <4>2. y = op.uuid
        BY <1>0, <2>7, <3>3, <4>1 DEF OneHolder
      <4> QED
        BY <2>1, <2>7, <3>3, <4>2 DEF op
    <3> QED
      BY <3>1, <3>2, <3>3
  <2>8. Holds(v, t)' /\ Holds(w, t)' => v = w
    <3>1. Holds(v, t) /\ Holds(w, t) => v = w
      BY <1>0 DEF OneHolder
    <3> QED
      BY <2>3, <2>5, <2>7, <3>1
  <2>9. Holds(v, t)' => t <= typed
    <3>1. Holds(v, t) => t <= typed
      BY <1>0 DEF OneHolder
    <3> QED
      BY <2>3, <2>6, <3>1
  <2> QED
    BY <2>1, <2>5, <2>6, <2>8, <2>9
<1>10. CASE Reload
  <2>1. /\ \A w \in Uuid : shown'[w] = IF w \in disk.forgotten THEN None ELSE disk.sessions[w]
        /\ queue' = <<>> /\ writing' = None /\ restoring' = None /\ UNCHANGED <<disk, typed>>
        /\ \A w \in Uuid : failed'[w] = None /\ sending'[w] = None /\ working'[w] = Empty
    BY <1>10 DEF Reload
  <2>2. \A w \in Uuid, t \in 1..MaxTyped : Holds(w, t)' => OnDisk(w, t)
    BY <2>1 DEF Holds, Shows, OnDisk, Empty
  <2>3. \A w \in Uuid, t \in 1..MaxTyped : OnDisk(w, t)' => OnDisk(w, t)
    BY <2>1 DEF OnDisk
  <2> QED
    BY <1>0, <2>1, <2>2, <2>3 DEF OneHolder
<1>11. CASE UNCHANGED vars
  <2>1. UNCHANGED <<shown, forgotten, failed, queue, writing, disk, working, sending, restoring, typed>>
    BY <1>11 DEF vars, store, io, editor
  <2>2. \A w \in Uuid, t \in 1..MaxTyped : Holds(w, t)' => Holds(w, t)
    BY <2>1 DEF Holds, Shows
  <2> QED
    BY <1>1, <2>1, <2>2 DEF OnDisk
<1>12. CASE RestoreFails
  <2>1. CASE \E u \in Uuid : TRUE
    BY <1>2, <1>12, <2>1
  <2>2. CASE ~\E u \in Uuid : TRUE
    BY <2>2 DEF OneHolder
  <2> QED
    BY <2>1, <2>2
<1> QED
  BY <1>2, <1>3, <1>4, <1>5, <1>6, <1>8, <1>9, <1>10, <1>11, <1>12 DEF Next, Store

----------------------------------------------------------------------------
(* The theorems *)

\* The invariant holds of a store that has just been read.
LEMMA InitIInv == Init => IInv
<1> SUFFICES ASSUME Init PROVE IInv
  OBVIOUS
<1> USE DEF Init
<1>1. Empty \in Drafts /\ Empty.text = 0
  BY BoundAssumption DEF Empty, Drafts
<1>2. TypeOK
  BY <1>1, BoundAssumption DEF TypeOK, Documents
<1>3. SubmissionsTracked /\ OpsSound /\ WriteSound /\ ErasedGone
  BY DEF SubmissionsTracked, OpsSound, WriteSound, ErasedGone
<1>4. OneHolder
  BY <1>1 DEF OneHolder, Holds, Shows, OnDisk
<1> QED
  BY <1>2, <1>3, <1>4 DEF IInv

\* The types, the tracked submissions, the sound document and the single holder
\* of every text hold in every state.
THEOREM Invariance == Spec => []IInv
<1>1. IInv /\ [Next]_vars => IInv'
  BY TypeStep, WriteStep, HoldStep, EraseStep DEF IInv
<1> QED
  BY InitIInv, <1>1, PTL DEF Spec

\* Every variable keeps its type, for any number of conversations and edits
\* (composerStore.ts, composerController.ts).
THEOREM TypeCorrect == Spec => []TypeOK
  BY Invariance, PTL DEF IInv

\* A transferred draft is never in two conversations, and nothing of a forgotten
\* one comes back (transferDraft, forget, persist and load of composerStore.ts):
\* whatever write fails or is undone, whenever the window reloads, and even when
\* a conversation is resumed before the save of its ended session is over.
THEOREM NothingTwice == Spec => []NoSecondCopy
<1>1. IInv => NoSecondCopy
  <2> SUFFICES ASSUME IInv PROVE NoSecondCopy
    OBVIOUS
  <2>1. TypeOK /\ OneHolder /\ ErasedGone
    BY DEF IInv
  <2>2. ASSUME NEW sessions \in {disk.sessions, shown}, NEW u \in Uuid, NEW v \in Uuid,
               u # v, sessions[u] # None, sessions[v] # None, sessions[u].draft.text # 0
        PROVE  sessions[u].draft.text # sessions[v].draft.text
    <3>1. sessions[u] \in Records
      BY <2>1, <2>2 DEF TypeOK, Documents
    <3>2. sessions[u].draft.text \in 1..MaxTyped
      BY <2>2, <3>1, BoundAssumption DEF Records, Drafts
    <3> QED
      BY <2>1, <2>2, <3>2 DEF OneHolder, OnDisk, Holds, Shows
  <2>3. \A u \in erased : /\ u \in forgotten /\ u \in disk.forgotten
                          /\ shown[u] = None /\ disk.sessions[u] = None
    BY <2>1 DEF ErasedGone
  <2> QED
    BY <2>2, <2>3 DEF NoSecondCopy
<1> QED
  BY Invariance, <1>1, PTL

----------------------------------------------------------------------------
(* No draft is lost: the inductive invariant *)

Saves == {"save", "resave"}

\* The drafts of u that the store shows or may yet show: the published one, the
\* one whose write failed, and those on their way to it.
Queued(u, d) == \E i \in 1..Len(queue) : queue[i].uuid = u /\ queue[i].kind \in Saves /\ queue[i].draft = d
InPlay(u, d) ==
    \/ shown[u] # None /\ shown[u].draft = d
    \/ failed[u] # None /\ failed[u] = d
    \/ Queued(u, d)

\* A later revision has a later text, unless it has none.
Below(a, b) == a.rev < b.rev /\ (b.text = 0 \/ a.text < b.text)
AtMost(a, b) == a = b \/ Below(a, b)

\* There is nothing of a conversation before its first session.
Opened ==
    /\ \A u \in Uuid : opened[u] = 0 =>
         /\ u \notin live
         /\ shown[u] = None /\ failed[u] = None /\ working[u] = Empty /\ disk.sessions[u] = None
         /\ writing # None => writing.document.sessions[u] = None
    /\ \A i \in 1..Len(queue) : /\ opened[queue[i].uuid] > 0
                                /\ queue[i].kind = "transfer" => opened[queue[i].to] > 0
    /\ restoring # None => opened[restoring.uuid] > 0
    /\ \A u \in Uuid : sending[u] # None => sending[u].gen <= opened[u]

\* What is saved, or waits for it, has a text.
Texts ==
    /\ \A u \in Uuid : failed[u] # None => failed[u].text # 0
    /\ \A i \in 1..Len(queue) :
         queue[i].kind \in Saves /\ queue[i].uuid \notin forgotten => queue[i].draft.text # 0
    /\ \A u \in dirty \ forgotten : working[u].text # 0

\* The drafts in play of a conversation are revisions of one draft, the working
\* copy of its session the last of them; and a draft whose write failed is ahead
\* of the published one.
OrderedAt(u) ==
    /\ \A a, b \in Drafts : InPlay(u, a) /\ InPlay(u, b) => AtMost(a, b) \/ AtMost(b, a)
    /\ u \in live => \A a \in Drafts : InPlay(u, a) => AtMost(a, working[u])
    /\ shown[u] # None /\ failed[u] # None => Below(shown[u].draft, failed[u])
    /\ u \notin live => \A d \in Drafts : Queued(u, d) => working[u] # Empty
Ordered == \A u \in Uuid \ forgotten : OrderedAt(u)

\* A submission is of the working copy or of one before it; and what it clears
\* it has recorded.
SentAt(u) ==
    sending[u] # None /\ opened[u] = sending[u].gen =>
        /\ working[u].text # 0 /\ sending[u].draft.rev <= working[u].rev
        /\ u \in dirty => sending[u].draft.rev < working[u].rev
RecordedBy(op) ==
    op.kind \in {"record", "clear"} =>
        /\ op.draft = sending[op.uuid].draft /\ op.gen = sending[op.uuid].gen
        /\ Current(op.uuid, op.gen) =>
             /\ shown[op.uuid] # None
             /\ op.kind = "clear" => op.draft.text \in shown[op.uuid].recent
InQueue(op) == \E i \in 1..Len(queue) : queue[i] = op
Sent ==
    /\ \A u \in live \ forgotten : SentAt(u)
    /\ \A op \in Operations : InQueue(op) => RecordedBy(op)

\* A draft d that is being moved from u to v was the published one of u, and is
\* older than every text of v.
Movable(u, v, d) ==
    /\ u \notin forgotten => shown[u] # None /\ (shown[u].draft = d \/ d.rev < shown[u].draft.rev)
    /\ \A a \in Drafts : (InPlay(v, a) \/ a = working[v]) /\ a.text # 0 => d.text < a.text
MovesTo(u, v, d) ==
    \/ restoring # None /\ restoring.uuid = u /\ restoring.draft = d /\ v \in restoring.fresh
    \/ \E i \in 1..Len(queue) : /\ queue[i].kind = "transfer"
                                /\ queue[i].uuid = u /\ queue[i].to = v /\ queue[i].draft = d
Moves ==
    /\ \A u, v \in Uuid : \A d \in Drafts : MovesTo(u, v, d) => Movable(u, v, d) /\ d.text <= typed
    /\ \A i \in 1..Len(queue) : queue[i].kind = "transfer" =>
         /\ restoring # None => queue[i].to \notin restoring.fresh
         /\ \A j \in 1..Len(queue) : queue[j].kind = "transfer" /\ queue[j].to = queue[i].to => i = j

\* The reasons for a write under way that nothing can take away.
UnderWay ==
    writing # None =>
        LET op == Head(queue) IN
        /\ op.kind \in Saves /\ op.uuid \notin forgotten /\ shown[op.uuid] # None =>
             Below(shown[op.uuid].draft, op.draft)
        /\ writing.undo => writing.document.forgotten \subseteq forgotten
        /\ ~writing.undo =>
             /\ op.kind \in {"clear", "transfer"} => shown[op.uuid].draft = op.draft
             /\ op.kind = "clear" => op.draft.text \in shown[op.uuid].recent
             /\ op.kind = "transfer" => op.to \notin writing.document.forgotten
             /\ writing.document.forgotten \subseteq
                  forgotten \cup (IF op.kind = "transfer" THEN {op.uuid} ELSE {})

\* A reload finds the text of every draft that is published.
AfterReload == [u \in Uuid |-> IF u \in disk.forgotten THEN None ELSE disk.sessions[u]]
DiskKeeps ==
    \A u \in Uuid \ forgotten : shown[u] # None /\ shown[u].draft.text # 0 =>
        /\ Has(AfterReload, u, shown[u].draft.text)
        /\ disk.sessions[u] = None => u \in disk.forgotten

\* "Saved" is said of the published draft; and what is in the view is published,
\* or its write failed, or it is being saved or will be.
SavedTrue ==
    \A u \in live \ forgotten : status[u] = "saved" => shown[u] # None /\ shown[u].draft = working[u]
Secured ==
    \A u \in live \ forgotten :
        working[u].text # 0 => u \in dirty \/ InPlay(u, working[u])

IDrafts ==
    /\ Opened /\ Texts /\ Ordered /\ Sent /\ Moves
    /\ UnderWay /\ DiskKeeps /\ SavedTrue /\ Secured

----------------------------------------------------------------------------
(* What the controller does with an outcome *)

\* The operations left in the queue are those that were there but the first, and
\* perhaps the next one of the submission.
LEMMA ReturnQueue ==
    ASSUME TypeOK, SubmissionsTracked, OpsSound, queue # <<>>, NEW outcome, Return(Head(queue), outcome)
    PROVE  LET op == Head(queue) IN
           /\ \A i \in 1..Len(queue') :
                \/ i + 1 \in 1..Len(queue) /\ queue'[i] = queue[i + 1]
                \/ /\ queue'[i] = Follower(op)
                   /\ \/ op.kind = "resave" /\ outcome = "done"
                      \/ op.kind = "record" /\ outcome # "failed"
           /\ \A u \in Uuid : sending'[u] # None => /\ sending[u] # None
                                                    /\ sending'[u].draft = sending[u].draft
                                                    /\ sending'[u].gen = sending[u].gen
           /\ op.kind = "clear" => sending'[op.uuid] = None
<1> DEFINE op == Head(queue)
<1>0. queue \in Seq(Operations) /\ sending \in [Uuid -> Sendings \cup {None}]
  BY DEF TypeOK
<1>1. op \in Operations /\ op = queue[1] /\ 1 \in 1..Len(queue) /\ Tail(queue) \in Seq(Operations)
      /\ \A i \in 1..Len(Tail(queue)) : i + 1 \in 1..Len(queue) /\ Tail(queue)[i] = queue[i + 1]
  BY <1>0
<1> HIDE DEF op
<1>2. op.uuid \in Uuid
  BY <1>1 DEF Operations
<1>3. \/ queue' = Tail(queue) /\ sending' = IF op.kind \in Submitting THEN [sending EXCEPT ![op.uuid] = None] ELSE sending
      \/ /\ (op.kind = "resave" /\ outcome = "done") \/ (op.kind = "record" /\ outcome # "failed")
         /\ queue' = Append(Tail(queue), Follower(op))
         /\ sending' = [sending EXCEPT ![op.uuid].step = NextStep(op)]
  BY <1>1 DEF Return, Report, Continue, Adopt, Over, Submitting, Follower, NextStep, Operations, op
<1>4. CASE queue' = Tail(queue) /\ sending' = IF op.kind \in Submitting THEN [sending EXCEPT ![op.uuid] = None] ELSE sending
  <2>1. \A u \in Uuid : sending'[u] # None => sending'[u] = sending[u]
    BY <1>0, <1>2, <1>4
  <2>2. op.kind = "clear" => sending'[op.uuid] = None
    BY <1>0, <1>2, <1>4 DEF Submitting
  <2> QED
    BY <1>1, <1>4, <2>1, <2>2 DEF op
<1>5. CASE /\ (op.kind = "resave" /\ outcome = "done") \/ (op.kind = "record" /\ outcome # "failed")
           /\ queue' = Append(Tail(queue), Follower(op))
           /\ sending' = [sending EXCEPT ![op.uuid].step = NextStep(op)]
  <2>1. op.kind \in Submitting /\ sending[op.uuid] # None
    BY <1>1, <1>5 DEF SubmissionsTracked, Submitting
  <2>2. sending[op.uuid] \in Sendings
    BY <1>0, <1>2, <2>1
  <2>3. \A i \in 1..Len(queue') : \/ i + 1 \in 1..Len(queue) /\ queue'[i] = queue[i + 1]
                                  \/ queue'[i] = Follower(op)
    BY <1>0, <1>1, <1>5
  <2>4. \A u \in Uuid : sending'[u] = IF u = op.uuid THEN [sending[u] EXCEPT !.step = NextStep(op)] ELSE sending[u]
    BY <1>0, <1>2, <1>5
  <2>5. /\ [sending[op.uuid] EXCEPT !.step = NextStep(op)].draft = sending[op.uuid].draft
        /\ [sending[op.uuid] EXCEPT !.step = NextStep(op)].gen = sending[op.uuid].gen
    BY <2>2 DEF Sendings
  <2> QED
    BY <1>5, <2>1, <2>3, <2>4, <2>5 DEF op
<1> QED
  BY <1>3, <1>4, <1>5 DEF op

\* The drafts it takes, and what it takes to call one saved.
LEMMA ReturnView ==
    ASSUME TypeOK, NEW op \in Operations, NEW outcome, Return(op, outcome),
           op.kind = "transfer" => op.to \in Uuid
    PROVE  /\ \A w \in Uuid :
                \/ working'[w] = working[w]
                \/ op.kind = "clear" /\ outcome = "done" /\ w = op.uuid /\ working'[w] = shown'[w].draft
                \/ op.kind = "transfer" /\ outcome = "done" /\ w = op.uuid /\ working'[w] = Empty
                \/ op.kind = "transfer" /\ outcome = "done" /\ w = op.to /\ working'[w] = shown'[w].draft
           /\ op.kind = "clear" /\ outcome = "done" /\ Current(op.uuid, op.gen) /\ Get(op.uuid) # None =>
                working'[op.uuid] = shown'[op.uuid].draft
           /\ op.kind = "transfer" /\ outcome = "done" /\ op.to \in live =>
                working'[op.to] = shown'[op.to].draft
           /\ \A w \in Uuid : status'[w] = "saved" =>
                \/ /\ status[w] = "saved"
                   /\ working'[w] = working[w] \/ (op.kind = "transfer" /\ outcome = "done" /\ w = op.uuid)
                \/ /\ op.kind = "save" /\ outcome = "done" /\ w = op.uuid
                   /\ w \in live /\ working' = working /\ working[w].rev = op.draft.rev
                \/ Get(w)' # None /\ Get(w)'.draft = working'[w]
<1> USE DEF TypeOK
<1>1. op.uuid \in Uuid /\ op.draft \in Drafts /\ op.to \in Uuid \cup {None}
  BY DEF Operations
<1>s. ASSUME NEW w, Safety(w)' = "saved" PROVE Get(w)' # None /\ Get(w)'.draft = working'[w]
  BY <1>s DEF Safety
<1>2. ASSUME NEW answer, Report(op, answer)
      PROVE  /\ working' = working
             /\ \A w \in Uuid : status'[w] # status[w] =>
                  w = op.uuid /\ w \in live /\ working[w].rev = op.draft.rev /\ status'[w] = answer
  BY <1>1, <1>2 DEF Report, Current
<1>3. ASSUME NEW u, NEW drafts, Adopt(op, u, drafts)
      PROVE  /\ working' = drafts
             /\ \A w \in Uuid : status'[w] = IF w = u THEN Safety(w)' ELSE status[w]
  BY <1>3 DEF Adopt
<1>4. CASE op.kind = "save"
  BY <1>2, <1>4 DEF Return
<1>5. CASE op.kind \in {"resave", "record"}
  BY <1>2, <1>5 DEF Return, Continue
<1>6. CASE op.kind = "clear"
  <2>1. CASE outcome = "failed"
    BY <1>2, <1>6, <2>1 DEF Return
  <2>2. CASE outcome # "failed" /\ Current(op.uuid, op.gen) /\ Get(op.uuid) # None
    <3>1. Adopt(op, op.uuid, IF outcome = "done" THEN [working EXCEPT ![op.uuid] = shown'[op.uuid].draft]
                             ELSE working)
      BY <1>6, <2>2 DEF Return
    <3>2. working' = IF outcome = "done" THEN [working EXCEPT ![op.uuid] = shown'[op.uuid].draft] ELSE working
      BY <3>1 DEF Adopt
    <3>3. \A w \in Uuid : working'[w] = IF outcome = "done" /\ w = op.uuid THEN shown'[w].draft ELSE working[w]
      BY <1>1, <3>2
    <3>4. \A w \in Uuid : status'[w] = IF w = op.uuid THEN Safety(w)' ELSE status[w]
      BY <1>3, <3>1
    <3> QED
      BY <1>1, <1>6, <1>s, <2>2, <3>3, <3>4
  <2>3. CASE outcome # "failed" /\ ~(Current(op.uuid, op.gen) /\ Get(op.uuid) # None)
    BY <1>6, <2>3 DEF Return
  <2> QED
    BY <2>1, <2>2, <2>3
<1>7. CASE op.kind = "transfer" /\ outcome = "done"
  <2> DEFINE rest == [working EXCEPT ![op.uuid] = Empty]
  <2>1. \A w \in Uuid : rest[w] = IF w = op.uuid THEN Empty ELSE working[w]
    BY <1>1
  <2>2. CASE op.to \in live
    <3>1. Adopt(op, op.to, [rest EXCEPT ![op.to] = shown'[op.to].draft])
      BY <1>7, <2>2 DEF Return
    <3>0. working' = [rest EXCEPT ![op.to] = shown'[op.to].draft]
      BY <3>1 DEF Adopt
    <3>2. \A w \in Uuid : working'[w] = IF w = op.to THEN shown'[w].draft ELSE rest[w]
      BY <1>1, <1>7, <3>0
    <3> HIDE DEF rest
    <3>3. \A w \in Uuid : status'[w] = IF w = op.to THEN Safety(w)' ELSE status[w]
      BY <1>3, <3>1
    <3> QED
      BY <1>7, <1>s, <2>1, <2>2, <3>2, <3>3
  <2>3. CASE op.to \notin live
    <3>1. working' = rest /\ status' = status
      BY <1>7, <2>3 DEF Return
    <3> QED
      BY <1>7, <2>1, <2>3, <3>1
  <2> QED
    BY <2>2, <2>3
<1>8. CASE op.kind = "forget" \/ (op.kind = "transfer" /\ outcome # "done")
  BY <1>8 DEF Return
<1> QED
  BY <1>4, <1>5, <1>6, <1>7, <1>8 DEF Operations

\* How each operation of the store ends.
LEMMA SkipEffect ==
    ASSUME IInv, Skip
    PROVE  LET op == Head(queue) IN
           /\ queue # <<>> /\ writing = None /\ ~Wanted(op)
           /\ UNCHANGED <<store, writing, disk, session, dirty, restoring, typed, erased>>
           /\ \E outcome \in {"done", "refused"} :
                /\ Return(op, outcome)
                /\ outcome = "done" => /\ op.kind \in Saves /\ op.uuid \notin forgotten
                                       /\ shown[op.uuid] # None /\ shown[op.uuid].draft = op.draft
  BY DEF Skip, Saves

\* A write that fails changes no more than the drafts whose write failed.
LEMMA FailEffect ==
    ASSUME IInv, WriteFails
    PROVE  LET op == Head(queue) IN
           /\ queue # <<>> /\ writing # None /\ writing' = None /\ failed' = Retained(op)
           /\ UNCHANGED <<shown, forgotten, disk, session, dirty, restoring, typed, erased>>
           /\ \E outcome \in {"refused", "failed"} :
                Return(op, outcome) /\ (outcome = "refused" => op.kind = "clear")
  BY DEF WriteFails, IInv, WriteSound

\* A write that lands publishes what was written, or what it undoes.
LEMMA LandEffect ==
    ASSUME IInv, WriteLands
    PROVE  LET op == Head(queue)
               gone == IF ~writing.undo /\ op.kind = "transfer" THEN {op.uuid} ELSE {}
           IN
           /\ queue # <<>> /\ writing # None /\ writing' = None
           /\ shown' = IF writing.undo THEN shown ELSE Replaced(op)
           /\ shown' = writing.document.sessions /\ disk' = writing.document
           /\ failed' = [v \in Uuid |-> IF Superseded(v, shown') THEN None ELSE failed[v]]
           /\ forgotten' = forgotten \cup gone
           /\ UNCHANGED <<session, dirty, restoring, typed>>
           /\ writing.undo => op.kind \in {"record", "clear", "transfer"}
           /\ ~writing.undo => StillValid(op)
           /\ \E outcome :
                /\ Return(op, outcome)
                /\ writing.undo => outcome # "done" /\ (op.kind # "clear" => outcome = "failed")
                /\ ~writing.undo => outcome = IF op.kind \in Saves /\ op.uuid \in forgotten THEN "refused" ELSE "done"
<1> DEFINE op == Head(queue)
<1>1. writing.undo => op.kind \in {"record", "clear", "transfer"}
  BY LandReturns DEF IInv, WriteSound
<1>2. /\ writing.undo => Landed(op) # "done" /\ (op.kind # "clear" => Landed(op) = "failed")
      /\ ~writing.undo => Landed(op) = IF op.kind \in Saves /\ op.uuid \in forgotten THEN "refused" ELSE "done"
  <2>1. CASE writing.undo
    BY <1>1, <2>1 DEF Landed
  <2>2. CASE ~writing.undo
    BY <2>2 DEF Landed, Saves
  <2> QED
    BY <2>1, <2>2
<1>3. Return(op, Landed(op)) /\ (~writing.undo => StillValid(op))
  BY DEF WriteLands
<1> QED
  BY <1>1, <1>2, <1>3, LandReturns

\* What an operation makes of each session.
LEMMA ReplacedAt ==
    ASSUME TypeOK, NEW op \in Operations,
           op.kind \in {"record", "clear", "transfer"} => shown[op.uuid] # None,
           op.kind = "transfer" => op.to \in Uuid /\ shown[op.to] = None,
           op.kind = "record" => op.draft.text # 0
    PROVE  LET u == op.uuid
               new == Replaced(op)
           IN
           /\ \A w \in Uuid : w # u /\ ~(op.kind = "transfer" /\ w = op.to) => new[w] = shown[w]
           /\ op.kind \in Saves => /\ new[u] # None /\ new[u].draft = op.draft
                                   /\ shown[u] # None => new[u].recent = shown[u].recent
           /\ op.kind = "record" => /\ new[u] # None /\ new[u].draft = shown[u].draft
                                    /\ new[u].recent = shown[u].recent \cup {op.draft.text}
           /\ op.kind = "clear" => /\ new[u] # None /\ new[u].recent = shown[u].recent
                                   /\ new[u].draft = [rev |-> shown[u].draft.rev + 1, text |-> 0]
           /\ op.kind \in {"forget", "transfer"} => new[u] = None
           /\ op.kind = "transfer" => /\ new[op.to] # None /\ op.to # u
                                      /\ new[op.to].draft = shown[u].draft
<1> DEFINE u == op.uuid
           new == Replaced(op)
<1>0. shown \in [Uuid -> Records \cup {None}] /\ u \in Uuid /\ op.draft \in Drafts
  BY DEF TypeOK, Operations
<1>1. ASSUME shown[u] # None PROVE shown[u] \in Records
  BY <1>0, <1>1
<1>n. \A w \in Uuid : new[w] \in Records => new[w] # None
  BY NoneIsNoRecord
<1>t. new \in [Uuid -> Records \cup {None}]
  BY ReplacedTypes
<1>3. CASE op.kind \in Saves
  <2>1. new = [shown EXCEPT ![u] = [draft |-> op.draft, recent |-> IF @ = None THEN {} ELSE @.recent]]
    BY <1>3 DEF Replaced, Saves
  <2>2. new[u] = [draft |-> op.draft, recent |-> IF shown[u] = None THEN {} ELSE shown[u].recent]
    BY <1>0, <2>1
  <2>3. \A w \in Uuid : w # u => new[w] = shown[w]
    BY <1>0, <2>1
  <2>4. [draft |-> op.draft, recent |-> IF shown[u] = None THEN {} ELSE shown[u].recent] \in Records
    BY <1>0, <1>1 DEF Records
  <2>5. new[u] # None
    BY <2>2, <2>4, NoneIsNoRecord
  <2> HIDE DEF u, new
  <2> QED
    BY <1>3, <2>2, <2>3, <2>5 DEF Saves, u, new
<1>4. CASE op.kind = "record"
  <2>1. new = [shown EXCEPT ![u].recent = @ \cup {op.draft.text}]
    BY <1>4 DEF Replaced
  <2>2. new[u] = [shown[u] EXCEPT !.recent = @ \cup {op.draft.text}]
    BY <1>0, <2>1
  <2>3. \A w \in Uuid : w # u => new[w] = shown[w]
    BY <1>0, <2>1
  <2>4. /\ new[u].draft = shown[u].draft /\ new[u].recent = shown[u].recent \cup {op.draft.text}
        /\ new[u] \in [draft : Drafts, recent : SUBSET Nat]
    <3>1. shown[u] \in Records
      BY <1>1, <1>4
    <3>2. op.draft.text \in Nat
      BY <1>0, BoundAssumption DEF Drafts
    <3> HIDE DEF u, new
    <3> QED
      BY <2>2, <3>1, <3>2 DEF Records
  <2>5. new[u] # None
    <3>1. op.draft.text \in 1..MaxTyped /\ shown[u] \in Records
      BY <1>0, <1>1, <1>4, BoundAssumption DEF Drafts
    <3>2. [shown[u] EXCEPT !.recent = @ \cup {op.draft.text}] \in Records
      BY <3>1 DEF Records
    <3> QED
      BY <2>2, <3>2, NoneIsNoRecord
  <2> HIDE DEF u, new
  <2> QED
    BY <1>4, <2>3, <2>4, <2>5 DEF Saves, u, new
<1>5. CASE op.kind = "clear"
  <2>1. new = [shown EXCEPT ![u].draft = [rev |-> @.rev + 1, text |-> 0]]
    BY <1>5 DEF Replaced
  <2>2. new[u] = [shown[u] EXCEPT !.draft = [rev |-> @.rev + 1, text |-> 0]]
    BY <1>0, <2>1
  <2>3. \A w \in Uuid : w # u => new[w] = shown[w]
    BY <1>0, <2>1
  <2>4. shown[u] \in Records /\ [rev |-> shown[u].draft.rev + 1, text |-> 0] \in Drafts
    BY <1>1, <1>5, BoundAssumption DEF Records, Drafts
  <2>5. /\ new[u].draft = [rev |-> shown[u].draft.rev + 1, text |-> 0] /\ new[u].recent = shown[u].recent
        /\ new[u] \in Records
    <3> HIDE DEF u, new
    <3> QED
      BY <2>2, <2>4 DEF Records
  <2>6. new[u] # None
    BY <2>5, NoneIsNoRecord
  <2> HIDE DEF u, new
  <2> QED
    BY <1>5, <2>3, <2>5, <2>6 DEF Saves, u, new
<1>6. CASE op.kind = "forget"
  BY <1>0, <1>6 DEF Replaced, Saves
<1>7. CASE op.kind = "transfer"
  <2>1. new = [shown EXCEPT ![u] = None, ![op.to] = [draft |-> shown[u].draft, recent |-> {}]] /\ op.to # u
    BY <1>7 DEF Replaced, Moved
  <2>2. new[op.to] = [draft |-> shown[u].draft, recent |-> {}] /\ new[u] = None
    BY <1>0, <1>7, <2>1
  <2>3. \A w \in Uuid : w # u /\ w # op.to => new[w] = shown[w]
    BY <1>0, <1>7, <2>1
  <2>4. [draft |-> shown[u].draft, recent |-> {}] \in Records
    BY <1>1, <1>7 DEF Records
  <2>5. new[op.to] # None
    BY <2>2, <2>4, NoneIsNoRecord
  <2>6. new[op.to].draft = shown[u].draft /\ op.to # u
    BY <2>1, <2>2
  <2> HIDE DEF u, new
  <2> QED
    BY <1>7, <2>2, <2>3, <2>5, <2>6 DEF Saves, u, new
<1> QED
  BY <1>3, <1>4, <1>5, <1>6, <1>7 DEF Operations, Saves

\* The drafts on their way to the store: an operation more, or one less.
LEMMA QueuedAppended ==
    ASSUME TypeOK, NEW n \in Operations, queue' = Append(queue, n), NEW w, NEW d, Queued(w, d)'
    PROVE  Queued(w, d) \/ (n.uuid = w /\ n.kind \in Saves /\ n.draft = d)
<1>1. queue \in Seq(Operations)
  BY DEF TypeOK
<1>2. \A i \in 1..Len(queue') : \/ i \in 1..Len(queue) /\ queue'[i] = queue[i]
                                \/ queue'[i] = n
  BY <1>1, Appended
<1> QED
  BY <1>2 DEF Queued

\* An operation that returns queues no draft for saving.
LEMMA QueuedReturned ==
    ASSUME IInv, queue # <<>>, NEW outcome, Return(Head(queue), outcome), NEW w, NEW d, Queued(w, d)'
    PROVE  Queued(w, d)
<1>1. PICK i \in 1..Len(queue') : queue'[i].uuid = w /\ queue'[i].kind \in Saves /\ queue'[i].draft = d
  BY DEF Queued
<1>2. Head(queue) \in Operations
  BY HeadSound
<1>3. \/ i + 1 \in 1..Len(queue) /\ queue'[i] = queue[i + 1]
      \/ queue'[i] = Follower(Head(queue)) /\ Head(queue).kind \in {"resave", "record"}
  BY <1>1, ReturnQueue DEF IInv
<1>4. Follower(Head(queue)).kind \in {"record", "clear"}
  BY <1>2 DEF Follower, RecordOp, Op, Operations
<1> QED
  BY <1>1, <1>3, <1>4 DEF Queued, Saves

----------------------------------------------------------------------------
(* Nothing before the first session, and texts to save *)

\* The operations of the queue, with one more, are of conversations that had a session.
LEMMA OpenedAppended ==
    ASSUME TypeOK, Opened, UNCHANGED opened, NEW n \in Operations, queue' = Append(queue, n),
           opened[n.uuid] > 0, n.kind = "transfer" => opened[n.to] > 0
    PROVE  \A i \in 1..Len(queue') : /\ opened'[queue'[i].uuid] > 0
                                     /\ queue'[i].kind = "transfer" => opened'[queue'[i].to] > 0
<1>1. queue \in Seq(Operations)
  BY DEF TypeOK
<1>2. \A i \in 1..Len(queue') : \/ i \in 1..Len(queue) /\ queue'[i] = queue[i]
                                \/ queue'[i] = n
  BY <1>1, Appended
<1> QED
  BY <1>2 DEF Opened

\* The operations that save, record, forget and move are operations of the store.
LEMMA SaveOps ==
    ASSUME TypeOK, NEW u \in Uuid, NEW kind \in Saves
    PROVE  /\ SaveOp(kind, u) \in Operations /\ SaveOp(kind, u).kind = kind /\ SaveOp(kind, u).uuid = u
           /\ SaveOp(kind, u).draft = working[u]
  BY BoundAssumption DEF SaveOp, Op, Operations, TypeOK, Saves

\* A record is of the draft that was submitted.
LEMMA RecordOps ==
    ASSUME TypeOK, NEW u \in Uuid, sending[u] # None
    PROVE  /\ RecordOp(u) \in Operations /\ RecordOp(u).kind = "record" /\ RecordOp(u).uuid = u
           /\ RecordOp(u).draft = sending[u].draft /\ RecordOp(u).gen = sending[u].gen
<1>1. sending[u] \in Sendings
  BY DEF TypeOK
<1> QED
  BY <1>1 DEF RecordOp, Op, Operations, Sendings

\* A forget is of its conversation, a transfer of the draft being restored.
LEMMA OtherOps ==
    ASSUME TypeOK, NEW u \in Uuid
    PROVE  /\ Op("forget", u, Empty, 0, None) \in Operations
           /\ Op("forget", u, Empty, 0, None).kind = "forget" /\ Op("forget", u, Empty, 0, None).uuid = u
           /\ LET move == Op("transfer", restoring.uuid, restoring.draft, opened[u], u)
              IN  restoring # None => /\ move \in Operations /\ move.kind = "transfer" /\ move.to = u
                                      /\ move.uuid = restoring.uuid /\ move.draft = restoring.draft
  BY Drafted, BoundAssumption DEF Op, Operations, TypeOK

\* An accepted submission goes on with a save or a record of its own draft, or
\* is over, its session being gone.
LEMMA AcceptedEffect ==
    ASSUME TypeOK, NEW u \in Uuid, Accepted(u)
    PROVE  /\ sending[u] # None /\ sending[u].step = "sent"
           /\ UNCHANGED <<store, writing, disk, session, editor, restoring, typed, erased>>
           /\ \/ /\ Current(u, sending[u].gen)
                 /\ \/ queue' = Append(queue, SaveOp("resave", u))
                    \/ queue' = Append(queue, RecordOp(u)) /\ shown[u] # None
              \/ queue' = queue
           /\ \A w \in Uuid : sending'[w] # None => /\ sending[w] # None
                                                    /\ sending'[w].draft = sending[w].draft
                                                    /\ sending'[w].gen = sending[w].gen
<1>1. /\ sending[u] # None /\ sending[u] \in Sendings /\ sending[u].step = "sent"
      /\ UNCHANGED <<store, writing, disk, session, editor, restoring, typed, erased>>
  BY DEF Accepted, TypeOK
<1>2. CASE Current(u, sending[u].gen)
  <2>1. \/ queue' = Append(queue, SaveOp("resave", u))
        \/ queue' = Append(queue, RecordOp(u)) /\ Get(u) # None
    BY <1>2 DEF Accepted
  <2>2. Get(u) # None => shown[u] # None
    BY DEF Get
  <2>3. \E s : sending' = [sending EXCEPT ![u].step = s]
    BY <1>2 DEF Accepted
  <2>4. PICK s : sending' = [sending EXCEPT ![u].step = s]
    BY <2>3
  <2>5. /\ [sending[u] EXCEPT !.step = s].draft = sending[u].draft
        /\ [sending[u] EXCEPT !.step = s].gen = sending[u].gen
    BY <1>1 DEF Sendings
  <2>6. \A w \in Uuid : sending'[w] = IF w = u THEN [sending[u] EXCEPT !.step = s] ELSE sending[w]
    BY <2>4 DEF TypeOK
  <2>7. \A w \in Uuid : sending'[w] # None => /\ sending[w] # None
                                              /\ sending'[w].draft = sending[w].draft
                                              /\ sending'[w].gen = sending[w].gen
    BY <1>1, <2>5, <2>6
  <2> QED
    BY <1>1, <1>2, <2>1, <2>2, <2>7
<1>3. CASE ~Current(u, sending[u].gen)
  <2>1. queue' = queue /\ sending' = [sending EXCEPT ![u] = None]
    BY <1>3 DEF Accepted
  <2>2. \A w \in Uuid : sending'[w] # None => sending'[w] = sending[w]
    BY <2>1 DEF TypeOK
  <2> QED
    BY <1>1, <2>1, <2>2
<1> QED
  BY <1>2, <1>3

\* No step gives anything to a conversation before its first session.
LEMMA OpenedStep ==
    ASSUME IInv, Opened, [Next]_vars
    PROVE  Opened'
<1> DEFINE op == Head(queue)
           Nothing(u) == /\ u \notin live
                         /\ shown[u] = None /\ failed[u] = None /\ working[u] = Empty /\ disk.sessions[u] = None
                         /\ writing # None => writing.document.sessions[u] = None
           QueueOpened == \A i \in 1..Len(queue) : /\ opened[queue[i].uuid] > 0
                                                   /\ queue[i].kind = "transfer" => opened[queue[i].to] > 0
<1>0. TypeOK /\ TypeOK' /\ SubmissionsTracked /\ OpsSound
  BY TypeStep DEF IInv
<1>o. \A u \in Uuid : opened[u] \in Nat /\ (opened[u] = 0 => Nothing(u)) /\ (opened[u] > 0 <=> opened[u] # 0)
  BY <1>0, BoundAssumption DEF Opened, TypeOK
<1>p. QueueOpened
  BY DEF Opened
<1> USE DEF store, io, editor, session
<1>1. ASSUME NEW u \in Uuid, Open(u) PROVE Opened'
  <2>1. \A w \in Uuid : opened'[w] = IF w = u THEN opened[w] + 1 ELSE opened[w]
    BY <1>0, <1>1 DEF Open, TypeOK
  <2>2. \A w \in Uuid : opened'[w] >= opened[w] /\ opened'[w] \in Nat /\ (opened'[w] = 0 => w # u)
    BY <1>o, <2>1
  <2>3. \A w \in Uuid : w # u => working'[w] = working[w]
    BY <1>0, <1>1 DEF Open, TypeOK
  <2>4. \A w \in Uuid : opened'[w] = 0 => Nothing(w)'
    BY <1>1, <1>o, <2>1, <2>2, <2>3 DEF Open
  <2>5. QueueOpened'
    <3>1. \A i \in 1..Len(queue) : queue[i].uuid \in Uuid /\ (queue[i].kind = "transfer" => queue[i].to \in Uuid)
      <4>1. \A i \in 1..Len(queue) : queue[i] \in Operations
        BY <1>0 DEF TypeOK
      <4> QED
        BY <1>0, <4>1 DEF Operations, OpsSound
    <3>2. queue' = queue
      BY <1>1 DEF Open
    <3> QED
      BY <1>o, <1>p, <2>2, <3>1, <3>2
  <2>6. restoring' # None => opened'[restoring'.uuid] > 0
    <3>1. restoring' = restoring /\ (restoring # None => restoring.uuid \in Uuid /\ opened[restoring.uuid] > 0)
      BY <1>0, <1>1 DEF Open, TypeOK, Opened
    <3> QED
      BY <1>o, <2>2, <3>1
  <2>7. \A w \in Uuid : sending'[w] # None => sending'[w].gen <= opened'[w]
    <3> SUFFICES ASSUME NEW w \in Uuid, sending'[w] # None PROVE sending'[w].gen <= opened'[w]
      OBVIOUS
    <3>1. sending'[w] = sending[w] /\ sending[w] \in Sendings /\ sending[w].gen <= opened[w]
      BY <1>0, <1>1 DEF Open, TypeOK, Opened
    <3>2. sending[w].gen \in Nat
      BY <3>1, BoundAssumption DEF Sendings
    <3> QED
      BY <1>o, <2>2, <3>1, <3>2
  <2> QED
    BY <2>4, <2>5, <2>6, <2>7 DEF Opened
<1>2. ASSUME UNCHANGED <<opened, shown, disk, writing>>, live' \subseteq live, UNCHANGED restoring \/ restoring' = None,
             \A w \in Uuid : opened[w] = 0 => failed'[w] = None /\ working'[w] = Empty,
             \A w \in Uuid : sending'[w] # None => sending[w] # None /\ sending'[w].gen = sending[w].gen,
             QueueOpened'
      PROVE  Opened'
  <2>1. \A w \in Uuid : opened'[w] = 0 => Nothing(w)'
    BY <1>2, <1>o
  <2> QED
    BY <1>2, <2>1 DEF Opened
<1>3. ASSUME UNCHANGED <<opened, queue>> PROVE QueueOpened'
  BY <1>3, <1>p
<1>4. ASSUME UNCHANGED opened, NEW n \in Operations, queue' = Append(queue, n),
             opened[n.uuid] > 0, n.kind = "transfer" => opened[n.to] > 0
      PROVE  QueueOpened'
  BY <1>0, <1>4, OpenedAppended
<1>5. ASSUME NEW u \in Uuid, Reselect(u) \/ Type(u) PROVE Opened'
  <2>1. u \in live
    BY <1>5 DEF Reselect, Type, Current
  <2>2. \A w \in Uuid : opened[w] = 0 => working'[w] = Empty
    BY <1>0, <1>5, <1>o, <2>1 DEF Reselect, Type, TypeOK
  <2> QED
    BY <1>2, <1>3, <1>5, <1>o, <2>2 DEF Reselect, Type
<1>6. ASSUME NEW u \in Uuid, Save(u) PROVE Opened'
  <2>1. u \in live /\ queue' = Append(queue, SaveOp("save", u)) /\ opened' = opened
    BY <1>0, <1>6 DEF Save, TypeOK
  <2>2. QueueOpened'
    BY <1>0, <1>4, <1>o, <2>1, SaveOps DEF Saves
  <2> QED
    BY <1>2, <1>6, <1>o, <2>2 DEF Save
<1>7. ASSUME NEW u \in Uuid, Close(u) PROVE Opened'
  <2>1. u \in live /\ opened' = opened /\ queue' \in {queue, Append(queue, SaveOp("save", u))}
    BY <1>7 DEF Close
  <2>2. QueueOpened'
    BY <1>0, <1>3, <1>4, <1>o, <2>1, SaveOps DEF Saves
  <2> QED
    BY <1>2, <1>7, <1>o, <2>2 DEF Close
<1>8. ASSUME NEW u \in Uuid, Closed(u) PROVE Opened'
  <2>1. \A w \in Uuid : opened[w] = 0 => working'[w] = Empty
    BY <1>0, <1>8, <1>o DEF Closed, TypeOK
  <2> QED
    BY <1>2, <1>3, <1>8, <1>o, <2>1 DEF Closed
<1>9. ASSUME NEW u \in Uuid, Submit(u) PROVE Opened'
  <2>1. \A w \in Uuid : sending'[w] # None => sending'[w].gen <= opened'[w]
    <3>1. \A w \in Uuid : IF w = u THEN sending'[w].gen = opened[w] ELSE sending'[w] = sending[w]
      BY <1>0, <1>9 DEF Submit, TypeOK
    <3>2. opened' = opened
      BY <1>9 DEF Submit
    <3> QED
      BY <1>o, <3>1, <3>2 DEF Opened
  <2>2. \A w \in Uuid : opened'[w] = 0 => Nothing(w)'
    BY <1>9, <1>o DEF Submit
  <2> QED
    BY <1>3, <1>9, <2>1, <2>2 DEF Submit, Opened
<1>10. ASSUME NEW u \in Uuid, NotAccepted(u) PROVE Opened'
  <2>1. \A w \in Uuid : sending'[w] # None => sending'[w] = sending[w]
    BY <1>0, <1>10 DEF NotAccepted, TypeOK
  <2> QED
    BY <1>2, <1>3, <1>10, <1>o, <2>1 DEF NotAccepted
<1>11. ASSUME NEW u \in Uuid, Accepted(u) PROVE Opened'
  <2>1. /\ UNCHANGED <<store, writing, disk, session, editor, restoring>>
        /\ \/ queue' = Append(queue, SaveOp("resave", u)) /\ u \in live
           \/ queue' = Append(queue, RecordOp(u)) /\ u \in live /\ sending[u] # None
           \/ queue' = queue
        /\ \A w \in Uuid : sending'[w] # None => sending[w] # None /\ sending'[w].gen = sending[w].gen
    BY <1>0, <1>11, AcceptedEffect DEF Current
  <2>2. QueueOpened'
    BY <1>0, <1>3, <1>4, <1>o, <2>1, SaveOps, RecordOps DEF Saves
  <2> QED
    BY <1>2, <1>o, <2>1, <2>2
<1>12. ASSUME NEW u \in Uuid, Forget(u) PROVE Opened'
  <2>1. QueueOpened'
    BY <1>0, <1>4, <1>12, OtherOps DEF Forget
  <2>2. \A w \in Uuid : opened[w] = 0 => failed'[w] = None /\ working'[w] = Empty
    BY <1>0, <1>12, <1>o DEF Forget, TypeOK
  <2> QED
    BY <1>2, <1>12, <2>1, <2>2 DEF Forget
<1>13. ASSUME NEW u \in Uuid, RestoreBegins(u) PROVE Opened'
  <2>1. shown[u] # None /\ restoring'.uuid = u /\ UNCHANGED <<store, io, session, editor, sending>>
    BY <1>13 DEF RestoreBegins, Get
  <2>2. opened[u] > 0
    BY <1>o, <2>1
  <2>3. \A w \in Uuid : opened'[w] = 0 => Nothing(w)'
    BY <1>o, <2>1
  <2> QED
    BY <1>3, <2>1, <2>2, <2>3 DEF Opened
<1>14. ASSUME NEW u \in Uuid, RestoreMoves(u) PROVE Opened'
  <2>1. /\ restoring # None /\ restoring' = None /\ opened[u] > 0
        /\ queue' = Append(queue, Op("transfer", restoring.uuid, restoring.draft, opened[u], u))
        /\ UNCHANGED <<store, writing, disk, session, editor, sending>>
    BY <1>14 DEF RestoreMoves
  <2>2. QueueOpened'
    BY <1>0, <1>4, <1>o, <2>1, OtherOps DEF Opened
  <2> QED
    BY <1>2, <1>o, <2>1, <2>2
<1>15. CASE RestoreFails
  BY <1>2, <1>3, <1>15, <1>o DEF RestoreFails
<1>16. ASSUME queue # <<>>, NEW outcome, Return(op, outcome), UNCHANGED opened PROVE QueueOpened'
  <2>1. \A i \in 1..Len(queue') : \/ i + 1 \in 1..Len(queue) /\ queue'[i] = queue[i + 1]
                                  \/ queue'[i] = Follower(op) /\ op.kind \in {"resave", "record"}
    BY <1>0, <1>16, ReturnQueue
  <2>2. op \in Operations /\ op = queue[1] /\ 1 \in 1..Len(queue)
    BY <1>16, HeadSound
  <2>3. Follower(op).uuid = op.uuid /\ (op.kind \in {"resave", "record"} => Follower(op).kind \in {"record", "clear"})
    BY <2>2 DEF Follower, RecordOp, Op, Operations
  <2> HIDE DEF op
  <2> QED
    BY <1>16, <1>p, <2>1, <2>2, <2>3
<1>17. ASSUME queue # <<>>, NEW outcome, Return(op, outcome), UNCHANGED opened
       PROVE  /\ \A w \in Uuid : opened[w] = 0 => working'[w] = Empty
              /\ \A w \in Uuid : sending'[w] # None => sending[w] # None /\ sending'[w].gen = sending[w].gen
              /\ op.uuid \in Uuid /\ opened[op.uuid] > 0 /\ (op.kind = "transfer" => op.to \in Uuid /\ opened[op.to] > 0)
  <2>1. op \in Operations /\ op = queue[1] /\ 1 \in 1..Len(queue) /\ op.uuid \in Uuid
        /\ (op.kind = "transfer" => op.to \in Uuid)
    BY <1>17, HeadSound
  <2>2. opened[op.uuid] > 0 /\ (op.kind = "transfer" => opened[op.to] > 0)
    BY <1>p, <2>1
  <2>3. \A w \in Uuid : opened[w] = 0 => working'[w] = working[w]
    BY <1>0, <1>o, <1>17, <2>1, <2>2, ReturnView
  <2> HIDE DEF op
  <2> QED
    BY <1>0, <1>17, <1>o, <2>1, <2>2, <2>3, ReturnQueue DEF op
<1>18. CASE Skip
  <2>1. PICK outcome \in {"done", "refused"} : Return(op, outcome)
    BY <1>18, SkipEffect
  <2>2. queue # <<>> /\ UNCHANGED <<store, writing, disk, session, restoring>>
    BY <1>18, SkipEffect
  <2> QED
    BY <1>2, <1>16, <1>17, <1>o, <2>1, <2>2
<1>19. CASE WriteFails
  <2>1. PICK outcome \in {"refused", "failed"} : Return(op, outcome)
    BY <1>19, FailEffect
  <2>2. /\ queue # <<>> /\ writing' = None /\ failed' = Retained(op)
        /\ UNCHANGED <<shown, forgotten, disk, session, dirty, restoring>>
    BY <1>19, FailEffect
  <2>3. \A w \in Uuid : failed'[w] # failed[w] => w = op.uuid
    BY <1>0, <2>2 DEF Retained, TypeOK
  <2>4. \A w \in Uuid : opened'[w] = 0 => Nothing(w)'
    BY <1>17, <1>o, <2>1, <2>2, <2>3
  <2> QED
    BY <1>16, <1>17, <2>1, <2>2, <2>4 DEF Opened
<1>20. CASE WriteLands
  <2>1. PICK outcome : Return(op, outcome)
    BY <1>20, LandEffect
  <2>2. /\ queue # <<>> /\ writing # None /\ writing' = None
        /\ shown' = writing.document.sessions /\ disk' = writing.document
        /\ \A w \in Uuid : failed[w] = None => failed'[w] = None
        /\ UNCHANGED <<session, restoring>>
    BY <1>20, LandEffect
  <2>4. \A w \in Uuid : opened'[w] = 0 => Nothing(w)'
    BY <1>17, <1>o, <2>1, <2>2
  <2> QED
    BY <1>16, <1>17, <2>1, <2>2, <2>4 DEF Opened
<1>21. CASE Write
  <2>1. /\ queue # <<>> /\ UNCHANGED <<store, queue, disk, session, editor, sending, restoring>>
        /\ writing'.document.sessions = Replaced(op) /\ Wanted(op)
    BY <1>21 DEF Write
  <2>2. op \in Operations /\ op = queue[1] /\ 1 \in 1..Len(queue) /\ op.uuid \in Uuid
        /\ (op.kind = "transfer" => op.to \in Uuid)
    BY <2>1, HeadSound
  <2>3. opened[op.uuid] > 0 /\ (op.kind = "transfer" => opened[op.to] > 0)
    BY <1>p, <2>2
  <2>4. op.kind \in {"record", "clear", "transfer"} => shown[op.uuid] # None
    BY <2>1, <2>2 DEF Wanted, Get
  <2>5. \A w \in Uuid : opened[w] = 0 => Replaced(op)[w] = None
    BY <1>0, <1>o, <2>2, <2>3, <2>4, ReplacedGone
  <2>6. \A w \in Uuid : opened'[w] = 0 => Nothing(w)'
    BY <1>o, <2>1, <2>5
  <2> QED
    BY <1>3, <2>1, <2>6 DEF Opened
<1>22. CASE WriteUndone
  <2>1. /\ writing # None /\ UNCHANGED <<store, queue, session, editor, sending, restoring>>
        /\ disk' = writing.document /\ writing'.document.sessions = shown
    BY <1>22 DEF WriteUndone
  <2>2. \A w \in Uuid : opened'[w] = 0 => Nothing(w)'
    BY <1>o, <2>1
  <2> QED
    BY <1>3, <2>1, <2>2 DEF Opened
<1>23. CASE Reload
  <2>1. /\ \A w \in Uuid : shown'[w] \in {None, disk.sessions[w]}
        /\ queue' = <<>> /\ writing' = None /\ restoring' = None /\ live' = {} /\ UNCHANGED <<disk, opened>>
        /\ \A w \in Uuid : failed'[w] = None /\ sending'[w] = None /\ working'[w] = Empty
    BY <1>23 DEF Reload
  <2>2. \A w \in Uuid : opened'[w] = 0 => Nothing(w)'
    BY <1>o, <2>1
  <2> QED
    BY <2>1, <2>2 DEF Opened
<1>24. CASE UNCHANGED vars
  BY <1>2, <1>3, <1>24, <1>o DEF vars
<1> QED
  BY <1>1, <1>5, <1>6, <1>7, <1>8, <1>9, <1>10, <1>11, <1>12, <1>13, <1>14, <1>15, <1>18, <1>19, <1>20,
     <1>21, <1>22, <1>23, <1>24 DEF Next, Store

----------------------------------------------------------------------------
(* What the view shows *)

\* Selecting an open session again finds nothing newer than its working copy.
LEMMA ReselectKeeps ==
    ASSUME IInv, Ordered, NEW u \in Uuid, Reselect(u)
    PROVE  working' = working
<1>0. TypeOK /\ u \in live /\ u \notin forgotten /\ OrderedAt(u) /\ working[u] \in Drafts
  BY DEF IInv, Reselect, Current, Ordered, TypeOK
<1>1. Recoverable(u) # None => Recoverable(u) \in Drafts /\ InPlay(u, Recoverable(u))
  BY <1>0, Drafted DEF Recoverable, InPlay
<1>2. Recoverable(u) # None => AtMost(Recoverable(u), working[u])
  BY <1>0, <1>1 DEF OrderedAt
<1>3. ~Newer(Recoverable(u), working[u])
  BY <1>0, <1>1, <1>2 DEF Newer, AtMost, Below, Drafts
<1> QED
  BY <1>0, <1>3 DEF Reselect, TypeOK

\* Only what is stored and published changes what an open session shows.
LEMMA ViewKept ==
    ASSUME IInv, Skip \/ WriteFails
    PROVE  working' = working
<1> DEFINE op == Head(queue)
<1>1. queue # <<>> /\ \E outcome : Return(op, outcome) /\ (outcome = "done" => op.kind \in Saves)
  BY SkipEffect, FailEffect
<1>2. op \in Operations /\ (op.kind = "transfer" => op.to \in Uuid) /\ TypeOK
  BY <1>1, HeadSound DEF IInv
<1>3. working \in [Uuid -> Drafts] /\ working' \in [Uuid -> Drafts]
  <2>1. [Next]_vars
    BY DEF Next, Store
  <2> QED
    BY <2>1, TypeStep DEF IInv, TypeOK
<1>4. \A w \in Uuid : working'[w] = working[w]
  BY <1>1, <1>2, ReturnView DEF Saves
<1> QED
  BY <1>3, <1>4

\* The clear of a submission finds the view as it was submitted, with nothing
\* typed since; a restore finds nothing typed in its destination.
LEMMA LandView ==
    ASSUME IInv, IDrafts, WriteLands
    PROVE  LET op == Head(queue) IN
           /\ \A w \in Uuid \ forgotten' :
                \/ working'[w] = working[w]
                \/ /\ ~writing.undo /\ working'[w] = shown'[w].draft
                   /\ (op.kind = "clear" /\ w = op.uuid) \/ (op.kind = "transfer" /\ w = op.to)
           /\ op.kind = "clear" /\ ~writing.undo =>
                /\ Current(op.uuid, op.gen) /\ shown[op.uuid] # None
                /\ working[op.uuid] = op.draft /\ shown[op.uuid].draft = op.draft
                /\ op.uuid \notin dirty /\ working'[op.uuid] = shown'[op.uuid].draft
           /\ op.kind = "transfer" /\ ~writing.undo =>
                /\ op.uuid \notin forgotten /\ op.to \notin forgotten
                /\ shown[op.uuid] # None /\ shown[op.uuid].draft = op.draft
                /\ working[op.to] = Empty /\ op.to \notin dirty
                /\ op.to \in live => working'[op.to] = shown'[op.to].draft
           /\ op.kind \notin {"clear", "transfer"} \/ writing.undo => working' = working
<1> DEFINE op == Head(queue)
<1>0. queue # <<>> /\ writing # None /\ TypeOK /\ SubmissionsTracked
  BY LandEffect DEF IInv
<1>1. /\ op \in Operations /\ op.uuid \in Uuid /\ (op.kind = "transfer" => op.to \in Uuid)
      /\ op = queue[1] /\ 1 \in 1..Len(queue) /\ op.draft \in Drafts
  BY <1>0, HeadSound
<1>2. op.kind \in {"record", "clear", "transfer"} => shown[op.uuid] # None
  BY <1>0 DEF IInv, WriteSound
<1>3. PICK outcome : /\ Return(op, outcome)
                     /\ writing.undo => outcome # "done"
                     /\ ~writing.undo /\ op.kind \in {"clear", "transfer"} => outcome = "done"
  BY LandEffect DEF Saves
<1>4. /\ ~writing.undo => StillValid(op)
      /\ op.kind = "transfer" /\ ~writing.undo => op.uuid \in forgotten'
  BY LandEffect
<1>5. \A w \in Uuid :
        \/ working'[w] = working[w]
        \/ op.kind = "clear" /\ outcome = "done" /\ w = op.uuid /\ working'[w] = shown'[w].draft
        \/ op.kind = "transfer" /\ outcome = "done" /\ w = op.uuid /\ working'[w] = Empty
        \/ op.kind = "transfer" /\ outcome = "done" /\ w = op.to /\ working'[w] = shown'[w].draft
  BY <1>0, <1>1, <1>3, ReturnView
<1>6. ASSUME op.kind = "clear", ~writing.undo
      PROVE  /\ Current(op.uuid, op.gen) /\ shown[op.uuid] # None
             /\ working[op.uuid] = op.draft /\ shown[op.uuid].draft = op.draft
             /\ op.uuid \notin dirty /\ working'[op.uuid] = shown'[op.uuid].draft
  <2>1. Current(op.uuid, op.gen) /\ working[op.uuid] = op.draft
    BY <1>4, <1>6 DEF StillValid, Unchanged
  <2>2. shown[op.uuid].draft = op.draft
    BY <1>0, <1>6 DEF IDrafts, UnderWay
  <2>3. working'[op.uuid] = shown'[op.uuid].draft
    <3>1. Get(op.uuid) # None
      BY <1>2, <1>6, <2>1 DEF Get, Current
    <3> QED
      BY <1>0, <1>1, <1>3, <1>6, <2>1, <3>1, ReturnView
  <2>4. op.uuid \notin dirty
    <3>1. sending[op.uuid] # None /\ op.draft = sending[op.uuid].draft /\ op.gen = sending[op.uuid].gen
      <4>1. sending[op.uuid] # None /\ InQueue(op)
        BY <1>0, <1>1, <1>6 DEF SubmissionsTracked, Submitting, InQueue
      <4>2. RecordedBy(op)
        BY <1>1, <4>1 DEF IDrafts, Sent
      <4> QED
        BY <1>6, <4>1, <4>2 DEF RecordedBy
    <3>2. SentAt(op.uuid)
      BY <1>1, <2>1 DEF IDrafts, Sent, Current
    <3>3. op.uuid \in dirty => op.draft.rev < op.draft.rev
      BY <2>1, <3>1, <3>2 DEF SentAt, Current
    <3> QED
      BY <1>1, <3>3 DEF Drafts
  <2> QED
    BY <1>2, <1>6, <2>1, <2>2, <2>3, <2>4
<1>7. ASSUME op.kind = "transfer", ~writing.undo
      PROVE  /\ op.uuid \notin forgotten /\ op.to \notin forgotten
             /\ shown[op.uuid] # None /\ shown[op.uuid].draft = op.draft
             /\ working[op.to] = Empty /\ op.to \notin dirty
             /\ op.to \in live => working'[op.to] = shown'[op.to].draft
  <2>1. op.uuid \notin forgotten /\ op.to \notin forgotten /\ working[op.to] = Empty
    BY <1>4, <1>7 DEF StillValid, DestinationUnchanged
  <2>2. shown[op.uuid].draft = op.draft
    BY <1>0, <1>7 DEF IDrafts, UnderWay
  <2>3. op.to \notin dirty
    BY <1>1, <1>7, <2>1 DEF IDrafts, Texts, Empty
  <2>4. op.to \in live => working'[op.to] = shown'[op.to].draft
    BY <1>0, <1>1, <1>3, <1>7, ReturnView
  <2> QED
    BY <1>2, <1>7, <2>1, <2>2, <2>3, <2>4
<1>8. ASSUME op.kind \notin {"clear", "transfer"} \/ writing.undo PROVE working' = working
  <2>1. \A w \in Uuid : working'[w] = working[w]
    BY <1>3, <1>5, <1>8
  <2>2. [Next]_vars
    BY DEF Next, Store
  <2>3. working \in [Uuid -> Drafts] /\ working' \in [Uuid -> Drafts]
    BY <2>2, TypeStep DEF IInv, TypeOK
  <2> QED
    BY <2>1, <2>3
<1> HIDE DEF op
<1>9. \A w \in Uuid \ forgotten' :
        \/ working'[w] = working[w]
        \/ /\ ~writing.undo /\ working'[w] = shown'[w].draft
           /\ (op.kind = "clear" /\ w = op.uuid) \/ (op.kind = "transfer" /\ w = op.to)
  BY <1>3, <1>4, <1>5
<1> QED
  BY <1>6, <1>7, <1>8, <1>9 DEF op

\* What is queued for saving has a text, and so has what is typed.
LEMMA TextsStep ==
    ASSUME IInv, IDrafts, [Next]_vars
    PROVE  Texts'
<1> DEFINE op == Head(queue)
           QueueTexts == \A i \in 1..Len(queue) :
             queue[i].kind \in Saves /\ queue[i].uuid \notin forgotten => queue[i].draft.text # 0
           Typed == \A u \in dirty \ forgotten : working[u].text # 0
<1>0. TypeOK /\ TypeOK' /\ SubmissionsTracked /\ OpsSound /\ queue \in Seq(Operations)
  BY TypeStep DEF IInv, TypeOK
<1>t. Texts /\ Ordered /\ Sent /\ QueueTexts /\ Typed
  BY DEF IDrafts, Texts
<1> USE DEF store, io, editor, session
<1>1. ASSUME forgotten \subseteq forgotten', \A u \in Uuid : failed'[u] = failed[u] \/ failed'[u] = None,
             dirty' \subseteq dirty, \A u \in dirty' \ forgotten' : working'[u] = working[u],
             \/ queue' = queue
             \/ \E n \in Operations : /\ queue' = Append(queue, n)
                                      /\ n.kind \in Saves /\ n.uuid \notin forgotten' => n.draft.text # 0
      PROVE  Texts'
  <2>1. CASE queue' = queue
    BY <1>1, <1>t, <2>1 DEF Texts
  <2>2. ASSUME NEW n \in Operations, queue' = Append(queue, n),
               n.kind \in Saves /\ n.uuid \notin forgotten' => n.draft.text # 0
        PROVE  Texts'
    <3>1. \A i \in 1..Len(queue') : \/ i \in 1..Len(queue) /\ queue'[i] = queue[i]
                                    \/ queue'[i] = n
      BY <1>0, <2>2, Appended
    <3> QED
      BY <1>1, <1>t, <2>2, <3>1 DEF Texts
  <2> QED
    BY <1>1, <2>1, <2>2
<1>2. ASSUME NEW u \in Uuid, \/ Open(u) \/ Reselect(u) \/ Closed(u) \/ Submit(u)
                             \/ NotAccepted(u) \/ RestoreBegins(u)
      PROVE  Texts'
  <2>1. UNCHANGED <<store, queue, dirty>> /\ \A w \in dirty : working'[w] = working[w]
    BY <1>0, <1>2, <1>t, ReselectKeeps DEF Open, Closed, Submit, NotAccepted, RestoreBegins, Reselect, TypeOK
  <2> QED
    BY <1>1, <2>1
<1>3. ASSUME NEW u \in Uuid, Type(u) PROVE Texts'
  <2>1. \A w \in dirty' : (w \in dirty /\ working'[w] = working[w]) \/ working'[w].text = typed + 1
    BY <1>0, <1>3 DEF Type, TypeOK
  <2>2. typed + 1 # 0
    BY <1>0, BoundAssumption DEF TypeOK
  <2> QED
    BY <1>3, <1>t, <2>1, <2>2 DEF Type, Texts
<1>4. ASSUME NEW u \in Uuid, Save(u) PROVE Texts'
  <2>1. u \in dirty /\ UNCHANGED <<store, working>> /\ dirty' \subseteq dirty /\ queue' = Append(queue, SaveOp("save", u))
    BY <1>4 DEF Save
  <2> QED
    BY <1>0, <1>1, <1>t, <2>1, SaveOps DEF Saves
<1>5. ASSUME NEW u \in Uuid, Close(u) PROVE Texts'
  <2>1. /\ UNCHANGED <<store, working>> /\ dirty' \subseteq dirty
        /\ queue' = queue \/ (u \in dirty /\ queue' = Append(queue, SaveOp("save", u)))
    BY <1>5 DEF Close
  <2> QED
    BY <1>0, <1>1, <1>t, <2>1, SaveOps DEF Saves
<1>6. ASSUME NEW u \in Uuid, Accepted(u) PROVE Texts'
  <2>1. /\ sending[u] # None /\ UNCHANGED <<store, editor>>
        /\ \/ /\ Current(u, sending[u].gen)
              /\ queue' = Append(queue, SaveOp("resave", u)) \/ queue' = Append(queue, RecordOp(u))
           \/ queue' = queue
    BY <1>0, <1>6, AcceptedEffect
  <2>2. Current(u, sending[u].gen) => working[u].text # 0
    BY <1>t, <2>1 DEF Sent, SentAt, Current
  <2>3. SaveOp("resave", u) \in Operations /\ SaveOp("resave", u).draft = working[u]
    BY <1>0, SaveOps DEF Saves
  <2>4. RecordOp(u) \in Operations /\ RecordOp(u).kind \notin Saves
    BY <1>0, <2>1, RecordOps DEF Saves
  <2> QED
    BY <1>1, <2>1, <2>2, <2>3, <2>4
<1>7. ASSUME NEW u \in Uuid, Forget(u) PROVE Texts'
  <2>1. /\ forgotten' = forgotten \cup {u} /\ dirty' \subseteq dirty
        /\ queue' = Append(queue, Op("forget", u, Empty, 0, None))
        /\ \A w \in Uuid : failed'[w] = failed[w] \/ failed'[w] = None
        /\ \A w \in Uuid : w # u => working'[w] = working[w]
    BY <1>0, <1>7 DEF Forget, TypeOK
  <2>2. \A w \in dirty' \ forgotten' : working'[w] = working[w]
    BY <1>0, <2>1 DEF TypeOK
  <2> QED
    BY <1>0, <1>1, <2>1, <2>2, OtherOps DEF Saves
<1>8. ASSUME NEW u \in Uuid, RestoreMoves(u) PROVE Texts'
  <2>1. /\ restoring # None /\ UNCHANGED <<store, editor>>
        /\ queue' = Append(queue, Op("transfer", restoring.uuid, restoring.draft, opened[u], u))
    BY <1>8 DEF RestoreMoves
  <2> QED
    BY <1>0, <1>1, <2>1, OtherOps DEF Saves
<1>9. CASE RestoreFails \/ Write \/ WriteUndone \/ UNCHANGED vars
  BY <1>1, <1>9 DEF RestoreFails, Write, WriteUndone, vars
<1>10. ASSUME queue # <<>>, NEW outcome, Return(op, outcome), forgotten \subseteq forgotten' PROVE QueueTexts'
  <2>1. \A i \in 1..Len(queue') : \/ i + 1 \in 1..Len(queue) /\ queue'[i] = queue[i + 1]
                                  \/ queue'[i] = Follower(op) /\ op.kind \in {"resave", "record"}
    BY <1>0, <1>10, ReturnQueue
  <2>2. op \in Operations
    BY <1>10, HeadSound
  <2>3. op.kind \in {"resave", "record"} => Follower(op).kind \in {"record", "clear"}
    BY <2>2 DEF Follower, RecordOp, Op, Operations
  <2> HIDE DEF op
  <2> QED
    BY <1>10, <1>t, <2>1, <2>3 DEF Saves
<1>11. CASE Skip
  <2>1. queue # <<>> /\ UNCHANGED <<store, dirty>> /\ working' = working /\ \E outcome : Return(op, outcome)
    BY <1>11, SkipEffect, ViewKept
  <2>2. QueueTexts'
    BY <1>10, <2>1
  <2> QED
    BY <1>t, <2>1, <2>2 DEF Texts
<1>12. CASE WriteFails
  <2>1. /\ queue # <<>> /\ UNCHANGED <<forgotten, dirty>> /\ working' = working /\ failed' = Retained(op)
        /\ \E outcome : Return(op, outcome)
    BY <1>12, FailEffect, ViewKept
  <2>2. QueueTexts'
    BY <1>10, <2>1
  <2>3. op = queue[1] /\ 1 \in 1..Len(queue)
    BY <2>1, HeadSound
  <2>4. \A w \in Uuid : failed'[w] = failed[w] \/ (failed'[w] = op.draft /\ op.kind \in Saves /\ op.uuid \notin forgotten)
    BY <1>0, <2>1 DEF Retained, TypeOK, Saves
  <2>5. op.kind \in Saves /\ op.uuid \notin forgotten => op.draft.text # 0
    BY <1>t, <2>3
  <2> QED
    BY <1>t, <2>1, <2>2, <2>4, <2>5 DEF Texts
<1>13. CASE WriteLands
  <2>1. /\ queue # <<>> /\ dirty' = dirty /\ forgotten \subseteq forgotten' /\ \E outcome : Return(op, outcome)
        /\ \A w \in Uuid : failed'[w] = failed[w] \/ failed'[w] = None
    BY <1>13, LandEffect
  <2>2. QueueTexts'
    BY <1>10, <2>1
  <2>3. \A w \in Uuid \ forgotten' : w \in dirty => working'[w] = working[w]
    BY <1>13, LandView
  <2>4. dirty \subseteq Uuid
    BY <1>0 DEF TypeOK
  <2> QED
    BY <1>t, <2>1, <2>2, <2>3, <2>4 DEF Texts
<1>14. CASE Reload
  BY <1>14 DEF Reload, Texts
<1> QED
  BY <1>2, <1>3, <1>4, <1>5, <1>6, <1>7, <1>8, <1>9, <1>11, <1>12, <1>13, <1>14 DEF Next, Store

----------------------------------------------------------------------------
(* The drafts of a conversation are in order *)

\* The drafts in play are drafts, with texts that were typed.
LEMMA PlayTyped ==
    ASSUME TypeOK, NEW u \in Uuid
    PROVE  /\ \A d : InPlay(u, d) => d \in Drafts
           /\ \A d : Queued(u, d) => d \in Drafts
<1>1. \A d : Queued(u, d) => d \in Drafts
  <2>1. \A i \in 1..Len(queue) : queue[i] \in Operations
    BY DEF TypeOK
  <2> QED
    BY <2>1 DEF Queued, Operations
<1>2. shown[u] # None => shown[u].draft \in Drafts
  BY DEF TypeOK, Records
<1>3. failed[u] # None => failed[u] \in Drafts
  BY DEF TypeOK
<1> QED
  BY <1>1, <1>2, <1>3 DEF InPlay

\* The texts of the drafts in play were typed.
LEMMA PlayHeld ==
    ASSUME IInv, NEW u \in Uuid \ forgotten, NEW d, InPlay(u, d) \/ d = working[u]
    PROVE  d.text <= typed
<1>1. d \in Drafts
  BY PlayTyped DEF IInv, TypeOK
<1>2. d.text # 0 => Holds(u, d.text)
  BY DEF InPlay, Queued, Holds, Shows
<1>3. typed \in Nat /\ d.text \in 0..MaxTyped
  BY <1>1, BoundAssumption DEF IInv, TypeOK, Drafts
<1>4. CASE d.text = 0
  BY <1>3, <1>4
<1>5. CASE d.text # 0
  <2>1. d.text \in 1..MaxTyped
    BY <1>3, <1>5, BoundAssumption
  <2> QED
    BY <1>2, <1>5, <2>1 DEF IInv, OneHolder
<1> QED
  BY <1>4, <1>5

\* How the order of drafts and that of their revisions agree.
LEMMA Comparisons ==
    ASSUME NEW a \in Drafts, NEW b \in Drafts
    PROVE  /\ AtMost(a, b) /\ a.rev = b.rev => a = b
           /\ AtMost(a, b) => a.rev <= b.rev
           /\ AtMost(a, b) /\ a.rev > b.rev => FALSE
           /\ (AtMost(a, b) \/ AtMost(b, a)) /\ a.rev < b.rev => Below(a, b)
           /\ (AtMost(a, b) \/ AtMost(b, a)) /\ a.rev = b.rev => a = b
           /\ AtMost(a, Empty) => a = Empty
           /\ AtMost(a, b) => Below(a, [rev |-> b.rev + 1, text |-> 0])
           /\ Below(a, b) => ~AtMost(b, a) /\ ~Below(b, a)
  BY BoundAssumption DEF Drafts, AtMost, Below, Empty

\* A draft queued for saving has a working copy, which is its session's.
LEMMA QueuedWorking ==
    ASSUME IInv, IDrafts, NEW u \in Uuid \ forgotten, NEW d, Queued(u, d)
    PROVE  working[u] # Empty
<1>1. d \in Drafts /\ d.text # 0
  BY PlayTyped DEF Queued, IInv, IDrafts, Texts
<1>2. CASE u \in live
  <2>1. AtMost(d, working[u])
    BY <1>1, <1>2 DEF IDrafts, Ordered, OrderedAt, InPlay
  <2>2. AtMost(d, Empty) => d = Empty
    BY <1>1, Comparisons
  <2>3. d # Empty
    BY <1>1 DEF Empty
  <2> QED
    BY <2>1, <2>2, <2>3
<1>3. CASE u \notin live
  BY <1>1, <1>3 DEF IDrafts, Ordered, OrderedAt
<1> QED
  BY <1>2, <1>3

\* Order is kept where only the queue changes, and by no more than the working copy.
LEMMA OrderedFrame ==
    ASSUME TypeOK, NEW w \in Uuid, OrderedAt(w),
           shown'[w] = shown[w], failed'[w] = failed[w] \/ failed'[w] = None,
           working'[w] = working[w], live' \subseteq live,
           \A d \in Drafts : Queued(w, d)' => Queued(w, d) \/ (d = working[w] /\ w \in live),
           w \notin live \/ w \in live' \/ \A d \in Drafts : Queued(w, d)' => working[w] # Empty
    PROVE  OrderedAt(w)'
<1>1. \A d \in Drafts : InPlay(w, d)' => InPlay(w, d) \/ (d = working[w] /\ w \in live)
  BY DEF InPlay
<1>2. working[w] \in Drafts
  BY DEF TypeOK
<1>3. \A a, b \in Drafts : InPlay(w, a)' /\ InPlay(w, b)' => AtMost(a, b) \/ AtMost(b, a)
  BY <1>1 DEF OrderedAt, AtMost
<1>4. w \in live' => \A a \in Drafts : InPlay(w, a)' => AtMost(a, working'[w])
  BY <1>1 DEF OrderedAt, AtMost
<1>5. shown'[w] # None /\ failed'[w] # None => Below(shown'[w].draft, failed'[w])
  BY DEF OrderedAt
<1>6. w \notin live' => \A d \in Drafts : Queued(w, d)' => working'[w] # Empty
  BY DEF OrderedAt
<1> QED
  BY <1>3, <1>4, <1>5, <1>6 DEF OrderedAt, AtMost, Below

\* Every step keeps the drafts in play in order.
LEMMA OrderedController ==
    ASSUME IInv, IDrafts, NEW u \in Uuid,
           \/ Reselect(u) \/ Type(u) \/ Save(u) \/ Close(u) \/ Closed(u)
           \/ Submit(u) \/ NotAccepted(u) \/ Accepted(u) \/ Forget(u)
           \/ RestoreBegins(u) \/ RestoreMoves(u)
    PROVE  Ordered'
<1>0. TypeOK /\ Ordered /\ Opened /\ Texts
  BY DEF IInv, IDrafts
<1>w. \A w \in Uuid : working[w] \in Drafts /\ working[w].rev \in Nat
  BY <1>0 DEF TypeOK, Drafts
<1> USE DEF store, io, editor, session
<1>1. ASSUME NEW w \in Uuid, w \notin forgotten,
             shown'[w] = shown[w], failed'[w] = failed[w],
             working'[w] = working[w], live' \subseteq live, w \in live => w \in live',
             \A d \in Drafts : Queued(w, d)' => Queued(w, d) \/ (d = working[w] /\ w \in live)
      PROVE  OrderedAt(w)'
  BY <1>0, <1>1, OrderedFrame DEF Ordered
<1>2. ASSUME NEW w, NEW d, queue' = queue PROVE Queued(w, d)' <=> Queued(w, d)
  BY <1>2 DEF Queued
<1>3. ASSUME Submit(u) \/ NotAccepted(u) \/ RestoreBegins(u) \/ Reselect(u)
      PROVE  Ordered'
  <2>1. UNCHANGED <<store, queue, live>>
    BY <1>3 DEF Submit, NotAccepted, RestoreBegins, Reselect
  <2>2. working' = working
    BY <1>0, <1>3, ReselectKeeps DEF Submit, NotAccepted, RestoreBegins
  <2> QED
    BY <1>1, <1>2, <2>1, <2>2 DEF Ordered
<1>4. ASSUME NEW n \in Operations, queue' = Append(queue, n), n.kind \notin Saves,
             UNCHANGED <<shown, live>>, forgotten \subseteq forgotten',
             \A w \in Uuid \ forgotten' : failed'[w] = failed[w] /\ working'[w] = working[w]
      PROVE  Ordered'
  <2>1. \A w \in Uuid, d \in Drafts : Queued(w, d)' => Queued(w, d)
    BY <1>0, <1>4, QueuedAppended
  <2> QED
    BY <1>1, <1>4, <2>1 DEF Ordered
<1>5. CASE Forget(u)
  <2>1. /\ queue' = Append(queue, Op("forget", u, Empty, 0, None)) /\ forgotten' = forgotten \cup {u}
        /\ UNCHANGED <<shown, live>>
        /\ \A w \in Uuid \ forgotten' : failed'[w] = failed[w] /\ working'[w] = working[w]
    BY <1>0, <1>5 DEF Forget, TypeOK
  <2> QED
    BY <1>0, <1>4, <2>1, OtherOps DEF Saves
<1>6. CASE RestoreMoves(u)
  <2>1. /\ restoring # None /\ UNCHANGED <<store, editor, live>>
        /\ queue' = Append(queue, Op("transfer", restoring.uuid, restoring.draft, opened[u], u))
    BY <1>6 DEF RestoreMoves
  <2> QED
    BY <1>0, <1>4, <2>1, OtherOps DEF Saves
<1>7. ASSUME u \in live, NEW kind \in Saves, queue' = Append(queue, SaveOp(kind, u)), UNCHANGED <<store, working, live>>
      PROVE  Ordered'
  <2>1. \A w \in Uuid, d \in Drafts : Queued(w, d)' => Queued(w, d) \/ (d = working[w] /\ w \in live)
    BY <1>0, <1>7, QueuedAppended, SaveOps
  <2> QED
    BY <1>1, <1>7, <2>1 DEF Ordered
<1>8. CASE Save(u)
  <2>1. u \in live
    BY <1>0, <1>8 DEF Save, TypeOK
  <2> QED
    BY <1>7, <1>8, <2>1 DEF Save, Saves
<1>9. CASE Accepted(u)
  <2>1. /\ sending[u] # None /\ UNCHANGED <<store, editor, live>>
        /\ \/ u \in live /\ queue' = Append(queue, SaveOp("resave", u))
           \/ queue' = Append(queue, RecordOp(u))
           \/ queue' = queue
    BY <1>0, <1>9, AcceptedEffect DEF Current
  <2>2. CASE queue' = queue
    BY <1>1, <1>2, <2>1, <2>2 DEF Ordered
  <2>3. CASE queue' = Append(queue, RecordOp(u))
    BY <1>0, <1>4, <2>1, <2>3, RecordOps DEF Saves
  <2> QED
    BY <1>7, <2>1, <2>2, <2>3 DEF Saves
<1>10. CASE Close(u)
  <2>1. /\ UNCHANGED <<store, working>> /\ live' = live \ {u} /\ u \in live
        /\ queue' = queue \/ (u \in dirty /\ queue' = Append(queue, SaveOp("save", u)))
    BY <1>10 DEF Close
  <2>2. ASSUME NEW w \in Uuid, NEW d \in Drafts, Queued(w, d)'
        PROVE  Queued(w, d) \/ (d = working[w] /\ w \in dirty /\ w = u)
    BY <1>0, <1>2, <2>1, <2>2, QueuedAppended, SaveOps DEF Saves
  <2>3. ASSUME u \notin forgotten, NEW d \in Drafts, Queued(u, d)' PROVE working[u] # Empty
    BY <1>0, <2>2, <2>3, QueuedWorking DEF Texts, Empty
  <2>4. ASSUME NEW w \in Uuid \ forgotten PROVE OrderedAt(w)'
    <3>1. /\ OrderedAt(w) /\ shown'[w] = shown[w] /\ failed'[w] = failed[w]
          /\ working'[w] = working[w] /\ live' \subseteq live
          /\ w # u => (w \in live => w \in live')
      BY <1>0, <2>1 DEF Ordered
    <3>2. \A d \in Drafts : Queued(w, d)' => Queued(w, d) \/ (d = working[w] /\ w \in live)
      BY <2>1, <2>2
    <3>3. w \notin live \/ w \in live' \/ \A d \in Drafts : Queued(w, d)' => working[w] # Empty
      BY <2>3, <2>4, <3>1
    <3> QED
      BY <1>0, <3>1, <3>2, <3>3, OrderedFrame
  <2> QED
    BY <2>1, <2>4 DEF Ordered
<1>11. CASE Closed(u)
  <2>1. /\ UNCHANGED <<store, queue, live>> /\ u \notin live
        /\ \A i \in 1..Len(queue) : queue[i].uuid # u
        /\ \A w \in Uuid : w # u => working'[w] = working[w]
    BY <1>0, <1>11 DEF Closed, TypeOK
  <2>2. \A d : ~Queued(u, d)
    BY <2>1 DEF Queued
  <2>3. ASSUME u \notin forgotten PROVE OrderedAt(u)'
    <3>1. OrderedAt(u) /\ shown'[u] = shown[u] /\ failed'[u] = failed[u]
      BY <1>0, <2>1, <2>3 DEF Ordered
    <3>2. \A d : InPlay(u, d)' <=> InPlay(u, d)
      BY <1>2, <2>1 DEF InPlay
    <3>3. \A d : ~Queued(u, d)'
      BY <1>2, <2>1, <2>2
    <3> QED
      BY <2>1, <3>1, <3>2, <3>3 DEF OrderedAt, AtMost, Below
  <2> QED
    BY <1>1, <1>2, <2>1, <2>3 DEF Ordered
<1>12. CASE Type(u)
  <2>1. /\ UNCHANGED <<store, queue, live>> /\ u \in live \ forgotten
        /\ working'[u] = [rev |-> working[u].rev + 1, text |-> typed + 1]
        /\ \A w \in Uuid : w # u => working'[w] = working[w]
    BY <1>0, <1>12 DEF Type, TypeOK, Current
  <2>2. \A a \in Drafts : InPlay(u, a) => AtMost(a, working[u]) /\ a.text <= typed
    BY <1>0, <2>1, PlayHeld DEF Ordered, OrderedAt
  <2>3. typed \in Nat
    BY <1>0, BoundAssumption DEF TypeOK
  <2>4. ASSUME NEW a \in Drafts, InPlay(u, a) PROVE Below(a, working'[u])
    <3>0. a.rev \in Nat /\ a.text \in Nat
      BY BoundAssumption DEF Drafts
    <3>1. a.rev <= working[u].rev /\ a.text <= typed
      <4>1. AtMost(a, working[u]) /\ a.text <= typed
        BY <2>2, <2>4
      <4> QED
        BY <1>w, <4>1, Comparisons
    <3>2. working'[u].rev = working[u].rev + 1 /\ working'[u].text = typed + 1
      BY <2>1
    <3>3. a.rev < working[u].rev + 1 /\ a.text < typed + 1
      BY <1>w, <2>3, <3>0, <3>1
    <3> QED
      BY <3>2, <3>3 DEF Below
  <2>5. OrderedAt(u)'
    <3>1. \A d : InPlay(u, d)' <=> InPlay(u, d)
      BY <1>2, <2>1 DEF InPlay
    <3>2. OrderedAt(u) /\ shown'[u] = shown[u] /\ failed'[u] = failed[u] /\ u \in live'
      BY <1>0, <2>1 DEF Ordered
    <3> QED
      BY <2>4, <3>1, <3>2 DEF OrderedAt, AtMost, Below
  <2> QED
    BY <1>1, <1>2, <2>1, <2>5 DEF Ordered
<1> QED
  BY <1>3, <1>5, <1>6, <1>8, <1>9, <1>10, <1>11, <1>12

\* So does a new session, whose working copy is the draft that can be recovered.
LEMMA OrderedOpen ==
    ASSUME IInv, IDrafts, ~LateSaves, NEW u \in Uuid, Open(u)
    PROVE  Ordered'
<1>0. TypeOK /\ Ordered
  BY DEF IInv, IDrafts
<1>1. /\ UNCHANGED <<store, queue>> /\ u \notin live /\ live' = live \cup {u}
      /\ \A i \in 1..Len(queue) : queue[i].uuid # u
      /\ working'[u] = IF Recoverable(u) = None THEN Empty ELSE Recoverable(u)
      /\ \A w \in Uuid : w # u => working'[w] = working[w]
  <2>1. DOMAIN queue = 1..Len(queue)
    BY <1>0 DEF TypeOK
  <2> QED
    BY <1>0, <2>1 DEF Open, TypeOK, io
<1>2. \A w, d : Queued(w, d)' <=> Queued(w, d)
  BY <1>1 DEF Queued
<1>3. \A w, d : InPlay(w, d)' <=> InPlay(w, d)
  BY <1>1, <1>2 DEF InPlay, store
<1>4. \A d : ~Queued(u, d)
  BY <1>1 DEF Queued
<1>5. ASSUME NEW w \in Uuid \ forgotten, w # u PROVE OrderedAt(w)'
  <2>1. OrderedAt(w) /\ working'[w] = working[w] /\ (w \in live' <=> w \in live)
        /\ shown'[w] = shown[w] /\ failed'[w] = failed[w]
    BY <1>0, <1>1, <1>5 DEF Ordered, store
  <2> QED
    BY <1>2, <1>3, <2>1 DEF OrderedAt, AtMost, Below
<1>6. ASSUME u \notin forgotten PROVE OrderedAt(u)'
  <2>1. OrderedAt(u) /\ shown'[u] = shown[u] /\ failed'[u] = failed[u] /\ u \in live'
    BY <1>0, <1>1, <1>6 DEF Ordered, store
  <2>2. ASSUME NEW a \in Drafts, InPlay(u, a) PROVE AtMost(a, working'[u])
    <3>1. CASE failed[u] # None
      <4>1. working'[u] = failed[u]
        BY <1>1, <1>6, <3>1 DEF Recoverable
      <4> QED
        BY <1>4, <2>1, <2>2, <3>1, <4>1 DEF OrderedAt, InPlay, AtMost
    <3>2. CASE failed[u] = None
      <4>1. shown[u] # None /\ shown[u].draft = a
        BY <1>4, <2>2, <3>2 DEF InPlay
      <4>2. Recoverable(u) = a /\ a # None
        BY <1>6, <3>2, <4>1, NoneIsNoRecord DEF Recoverable
      <4> QED
        BY <1>1, <4>2 DEF AtMost
    <3> QED
      BY <3>1, <3>2
  <2> QED
    BY <1>3, <2>1, <2>2 DEF OrderedAt, AtMost, Below
<1> QED
  BY <1>1, <1>5, <1>6 DEF Ordered, store

\* What the store publishes follows what it published, and what failed is ahead.
LEMMA OrderedStore ==
    ASSUME IInv, IDrafts, Skip \/ WriteFails \/ WriteLands
    PROVE  Ordered'
<1> DEFINE op == Head(queue)
<1>0. TypeOK /\ TypeOK' /\ Ordered /\ queue # <<>>
  <2>1. [Next]_vars
    BY DEF Next, Store
  <2> QED
    BY <2>1, TypeStep, SkipEffect, FailEffect, LandEffect DEF IInv, IDrafts
<1>1. /\ op \in Operations /\ op.uuid \in Uuid /\ (op.kind = "transfer" => op.to \in Uuid)
      /\ op = queue[1] /\ 1 \in 1..Len(queue) /\ op.draft \in Drafts
  BY <1>0, HeadSound
<1>2. \A w, d : Queued(w, d)' => Queued(w, d)
  BY <1>0, SkipEffect, FailEffect, LandEffect, QueuedReturned
<1>3. op.kind \in Saves => Queued(op.uuid, op.draft)
  BY <1>1 DEF Queued
<1>4. live' = live
  BY SkipEffect, FailEffect, LandEffect DEF session
<1>5. ASSUME NEW w \in Uuid, OrderedAt(w), working'[w] = working[w],
             \A d \in Drafts : InPlay(w, d)' => InPlay(w, d),
             shown'[w] # None /\ failed'[w] # None => Below(shown'[w].draft, failed'[w])
      PROVE  OrderedAt(w)'
  BY <1>2, <1>4, <1>5 DEF OrderedAt, AtMost, Below
<1>6. CASE Skip
  <2>1. UNCHANGED <<shown, failed, forgotten>> /\ working' = working
    BY <1>6, SkipEffect, ViewKept DEF store
  <2>2. \A w, d : InPlay(w, d)' => InPlay(w, d)
    BY <1>2, <2>1 DEF InPlay
  <2>3. \A w \in Uuid : OrderedAt(w) /\ shown'[w] # None /\ failed'[w] # None => Below(shown'[w].draft, failed'[w])
    BY <2>1 DEF OrderedAt
  <2> QED
    BY <1>0, <1>5, <2>1, <2>2, <2>3 DEF Ordered
<1>7. CASE WriteFails
  <2>1. UNCHANGED <<shown, forgotten>> /\ working' = working /\ failed' = Retained(op) /\ writing # None
    BY <1>7, FailEffect, ViewKept
  <2>2. \A w \in Uuid : \/ failed'[w] = failed[w]
                        \/ /\ w = op.uuid /\ op.kind \in Saves /\ op.uuid \notin forgotten
                           /\ failed'[w] = op.draft
    BY <1>0, <2>1 DEF Retained, TypeOK, Saves
  <2>3. \A w \in Uuid : \A d : InPlay(w, d)' => InPlay(w, d)
    BY <1>2, <1>3, <2>1, <2>2 DEF InPlay
  <2>4. op.kind \in Saves /\ op.uuid \notin forgotten /\ shown[op.uuid] # None => Below(shown[op.uuid].draft, op.draft)
    BY <2>1 DEF IDrafts, UnderWay
  <2>5. \A w \in Uuid : OrderedAt(w) /\ shown'[w] # None /\ failed'[w] # None => Below(shown'[w].draft, failed'[w])
    BY <2>1, <2>2, <2>4 DEF OrderedAt
  <2> QED
    BY <1>0, <1>5, <2>1, <2>3, <2>5 DEF Ordered
<1>8. CASE WriteLands
  <2>1. /\ writing # None /\ shown' = IF writing.undo THEN shown ELSE Replaced(op)
        /\ failed' = [v \in Uuid |-> IF Superseded(v, shown') THEN None ELSE failed[v]]
        /\ forgotten' = forgotten \cup (IF ~writing.undo /\ op.kind = "transfer" THEN {op.uuid} ELSE {})
    BY <1>8, LandEffect
  <2>2. \A w \in Uuid : failed'[w] # None => /\ failed'[w] = failed[w] /\ w \notin forgotten
                                             /\ shown'[w] # None => ~(shown'[w].draft.rev >= failed[w].rev)
    BY <2>1 DEF Superseded
  <2>3. /\ op.kind \in {"record", "clear", "transfer"} => shown[op.uuid] # None
        /\ op.kind = "transfer" => shown[op.to] = None
        /\ op.kind = "record" => op.draft.text # 0
        /\ op.kind = "forget" => op.uuid \in forgotten
    BY <1>0, <2>1, HeadSound DEF IInv, WriteSound
  <2>4. ASSUME NEW w \in Uuid \ forgotten', working'[w] = working[w],
               shown'[w] = shown[w] \/ (shown'[w] # None /\ shown[w] # None /\ shown'[w].draft = shown[w].draft)
        PROVE  OrderedAt(w)'
    <3>1. OrderedAt(w)
      BY <1>0, <2>1, <2>4 DEF Ordered
    <3>2. \A d : InPlay(w, d)' => InPlay(w, d)
      BY <1>2, <2>2, <2>4 DEF InPlay
    <3>3. shown'[w] # None /\ failed'[w] # None => Below(shown'[w].draft, failed'[w])
      BY <2>2, <2>4, <3>1 DEF OrderedAt
    <3> QED
      BY <1>5, <2>4, <3>1, <3>2, <3>3
  <2>5. ASSUME NEW w \in Uuid \ forgotten', shown'[w] # shown[w]
        PROVE  /\ ~writing.undo
               /\ \/ w = op.uuid /\ op.kind \in Saves \cup {"record", "clear"}
                  \/ w = op.to /\ op.kind = "transfer"
    <3>1. ~writing.undo /\ shown' = Replaced(op)
      BY <2>1, <2>5
    <3>2. w = op.uuid \/ (op.kind = "transfer" /\ w = op.to)
      BY <1>0, <1>1, <2>3, <2>5, <3>1, ReplacedAt
    <3>3. op.kind = "transfer" => w # op.uuid
      BY <2>1, <2>5, <3>1
    <3>4. op.kind = "forget" => w # op.uuid
      BY <2>1, <2>3, <2>5
    <3> QED
      BY <1>1, <3>1, <3>2, <3>3, <3>4 DEF Operations, Saves
  <2>6. ASSUME NEW w \in Uuid \ forgotten', ~writing.undo, w = op.uuid, op.kind \in Saves PROVE OrderedAt(w)'
    <3>1. shown'[w] # None /\ shown'[w].draft = op.draft
      BY <1>0, <1>1, <2>1, <2>3, <2>6, ReplacedAt
    <3>2. \A d : InPlay(w, d)' => InPlay(w, d)
      BY <1>2, <1>3, <2>2, <2>6, <3>1 DEF InPlay
    <3>3. OrderedAt(w) /\ working' = working
      BY <1>0, <1>8, <2>1, <2>6, LandView DEF Ordered, Saves
    <3>4. ASSUME failed'[w] # None PROVE Below(op.draft, failed[w])
      <4>1. failed[w] \in Drafts /\ InPlay(w, failed[w]) /\ InPlay(w, op.draft) /\ op.draft \in Drafts
        BY <1>0, <1>1, <1>3, <2>2, <2>6, <3>4 DEF InPlay, TypeOK
      <4>2. op.draft.rev < failed[w].rev
        BY <2>2, <3>1, <3>4, <4>1 DEF Drafts
      <4> QED
        BY <3>3, <4>1, <4>2, Comparisons DEF OrderedAt
    <3> QED
      BY <1>5, <2>2, <3>1, <3>2, <3>3, <3>4
  <2>7. ASSUME NEW w \in Uuid \ forgotten', ~writing.undo, w = op.uuid, op.kind = "record" PROVE OrderedAt(w)'
    <3>1. shown'[w] # None /\ shown[w] # None /\ shown'[w].draft = shown[w].draft
      BY <1>0, <1>1, <2>1, <2>3, <2>7, ReplacedAt
    <3>2. working' = working
      BY <1>8, <2>7, LandView
    <3> QED
      BY <2>4, <3>1, <3>2
  <2>8. ASSUME NEW w \in Uuid \ forgotten', ~writing.undo, w = op.uuid, op.kind = "clear" PROVE OrderedAt(w)'
    <3>1. /\ shown'[w] # None /\ shown'[w].draft = [rev |-> op.draft.rev + 1, text |-> 0]
          /\ shown[w] # None /\ shown[w].draft = op.draft /\ working[w] = op.draft
          /\ working'[w] = shown'[w].draft /\ w \in live \ forgotten
      <4>1. /\ shown'[w] # None
            /\ shown'[w].draft = [rev |-> shown[w].draft.rev + 1, text |-> 0]
        BY <1>0, <1>1, <2>1, <2>3, <2>8, ReplacedAt
      <4> QED
        BY <1>8, <2>8, <4>1, LandView DEF Current
    <3>2. OrderedAt(w)
      BY <1>0, <3>1 DEF Ordered
    <3>3. failed'[w] = None
      <4>1. SUFFICES ASSUME failed'[w] # None PROVE FALSE
        OBVIOUS
      <4>2. failed[w] # None /\ failed[w] \in Drafts /\ Below(op.draft, failed[w])
        BY <1>0, <2>2, <3>1, <3>2, <4>1 DEF OrderedAt, TypeOK
      <4>3. AtMost(failed[w], op.draft)
        BY <3>1, <3>2, <4>2 DEF OrderedAt, InPlay
      <4> QED
        BY <1>1, <4>2, <4>3, Comparisons
    <3>4. ASSUME NEW d \in Drafts, InPlay(w, d)' PROVE d = shown'[w].draft \/ (Queued(w, d) /\ Below(d, shown'[w].draft))
      <4>1. d = shown'[w].draft \/ Queued(w, d)
        BY <1>2, <3>3, <3>4 DEF InPlay
      <4>2. Queued(w, d) => AtMost(d, op.draft)
        BY <3>1, <3>2 DEF OrderedAt, InPlay
      <4> QED
        BY <1>1, <3>1, <4>1, <4>2, Comparisons
    <3>5. \A a, b \in Drafts : InPlay(w, a)' /\ InPlay(w, b)' => AtMost(a, b) \/ AtMost(b, a)
      BY <3>2, <3>4 DEF OrderedAt, InPlay, AtMost
    <3>6. \A a \in Drafts : InPlay(w, a)' => AtMost(a, working'[w])
      BY <3>1, <3>4 DEF AtMost
    <3> QED
      BY <1>4, <3>1, <3>3, <3>5, <3>6 DEF OrderedAt, AtMost, Below
  <2>9. ASSUME NEW w \in Uuid \ forgotten', ~writing.undo, w = op.to, op.kind = "transfer" PROVE OrderedAt(w)'
    <3>1. /\ shown'[w] # None /\ shown'[w].draft = op.draft
          /\ working[w] = Empty /\ w \notin forgotten
          /\ w \in live => working'[w] = op.draft
      <4>1. shown'[w] # None /\ shown'[w].draft = shown[op.uuid].draft
        BY <1>0, <1>1, <2>1, <2>3, <2>9, ReplacedAt
      <4> QED
        BY <1>8, <2>9, <4>1, LandView
    <3>2. OrderedAt(w) /\ shown[w] = None
      BY <1>0, <2>3, <2>9, <3>1 DEF Ordered
    <3>3. \A d : ~Queued(w, d)'
      BY <1>2, <3>1, QueuedWorking
    <3>4. ASSUME failed'[w] # None PROVE Below(op.draft, failed[w])
      <4>1. failed[w] \in Drafts /\ failed'[w] = failed[w] /\ failed[w] # None /\ InPlay(w, failed[w])
        BY <1>0, <2>2, <3>4 DEF TypeOK, InPlay
      <4>2. op.draft.rev < failed[w].rev
        BY <1>1, <2>2, <3>1, <3>4, <4>1 DEF Drafts
      <4>3. failed[w].text # 0 /\ Movable(op.uuid, op.to, op.draft)
        BY <1>1, <2>9, <4>1 DEF IDrafts, Texts, Moves, MovesTo
      <4> QED
        BY <2>9, <4>1, <4>2, <4>3 DEF Below, Movable
    <3>5. ASSUME w \in live PROVE failed'[w] = None
      <4>1. ASSUME failed[w] # None PROVE FALSE
        <5>1. failed[w] \in Drafts /\ AtMost(failed[w], Empty) /\ failed[w].text # 0
          BY <1>0, <3>1, <3>2, <3>5, <4>1 DEF OrderedAt, InPlay, TypeOK, IDrafts, Texts
        <5>2. failed[w] = Empty
          BY <5>1, Comparisons
        <5> QED
          BY <5>1, <5>2 DEF Empty
      <4> QED
        BY <2>2, <4>1
    <3>6. \A d : InPlay(w, d)' => d = op.draft \/ (failed'[w] # None /\ d = failed[w])
      BY <2>2, <3>1, <3>3 DEF InPlay
    <3>7. \A a, b \in Drafts : InPlay(w, a)' /\ InPlay(w, b)' => AtMost(a, b) \/ AtMost(b, a)
      BY <3>4, <3>6 DEF AtMost
    <3>8. w \in live => \A a \in Drafts : InPlay(w, a)' => AtMost(a, working'[w])
      BY <3>1, <3>5, <3>6 DEF AtMost
    <3>9. shown'[w] # None /\ failed'[w] # None => Below(shown'[w].draft, failed'[w])
      BY <2>2, <3>1, <3>4
    <3> QED
      BY <1>4, <3>3, <3>7, <3>8, <3>9 DEF OrderedAt, AtMost, Below
  <2>10. ASSUME NEW w \in Uuid \ forgotten' PROVE OrderedAt(w)'
    <3>1. CASE shown'[w] # shown[w]
      BY <2>5, <2>6, <2>7, <2>8, <2>9, <2>10, <3>1
    <3>2. CASE shown'[w] = shown[w] /\ working'[w] = working[w]
      BY <2>4, <2>10, <3>2
    <3>3. CASE shown'[w] = shown[w] /\ working'[w] # working[w]
      <4>1. /\ ~writing.undo
            /\ (op.kind = "clear" /\ w = op.uuid) \/ (op.kind = "transfer" /\ w = op.to)
        BY <1>8, <2>10, <3>3, LandView
      <4> QED
        BY <2>8, <2>9, <2>10, <4>1
    <3> QED
      BY <3>1, <3>2, <3>3
  <2> QED
    BY <2>10 DEF Ordered
<1> QED
  BY <1>6, <1>7, <1>8

\* No step brings two drafts into play of which neither follows from the other.
LEMMA OrderedStep ==
    ASSUME IInv, IDrafts, ~LateSaves, [Next]_vars
    PROVE  Ordered'
<1>1. CASE Skip \/ WriteFails \/ WriteLands
  BY <1>1, OrderedStore
<1>2. ASSUME UNCHANGED <<store, queue, live, working>> PROVE Ordered'
  <2>1. \A w, d : (Queued(w, d)' <=> Queued(w, d)) /\ (InPlay(w, d)' <=> InPlay(w, d))
    BY <1>2 DEF Queued, InPlay, store
  <2> QED
    BY <1>2, <2>1 DEF IDrafts, Ordered, OrderedAt, AtMost, Below, store
<1>3. CASE Write \/ WriteUndone \/ RestoreFails \/ UNCHANGED vars
  BY <1>2, <1>3 DEF Write, WriteUndone, RestoreFails, vars, io, session, editor
<1>4. CASE Reload
  <2>1. queue' = <<>> /\ live' = {} /\ \A w \in Uuid : failed'[w] = None
    BY <1>4 DEF Reload
  <2>2. \A w, d : ~Queued(w, d)'
    BY <2>1 DEF Queued
  <2>3. ASSUME NEW w \in Uuid PROVE OrderedAt(w)'
    BY <2>1, <2>2 DEF OrderedAt, InPlay, AtMost
  <2> QED
    BY <2>3 DEF Ordered
<1> QED
  BY <1>1, <1>3, <1>4, OrderedController, OrderedOpen DEF Next, Store

----------------------------------------------------------------------------
(* What a submission clears it has recorded *)

\* A record or clear that stays in the queue is still of a recorded submission
\* where its session is the same and nothing recorded goes.
LEMMA RecordedKept ==
    ASSUME TypeOK, SubmissionsTracked, SubmissionsTracked', Sent,
           NEW op \in Operations, InQueue(op), InQueue(op)',
           \A u \in Uuid : sending'[u] # None => sending'[u].draft = sending[u].draft /\ sending'[u].gen = sending[u].gen,
           op.gen = sending[op.uuid].gen /\ Current(op.uuid, op.gen)' =>
             /\ Current(op.uuid, op.gen)
             /\ shown[op.uuid] # None =>
                  shown'[op.uuid] # None /\ shown[op.uuid].recent \subseteq shown'[op.uuid].recent
    PROVE  RecordedBy(op)'
<1>1. op.uuid \in Uuid
  BY DEF Operations
<1>2. SUFFICES ASSUME op.kind \in {"record", "clear"} PROVE RecordedBy(op)'
  BY DEF RecordedBy
<1>3. sending[op.uuid] # None /\ sending'[op.uuid] # None
  BY <1>2 DEF SubmissionsTracked, Submitting, InQueue
<1>4. RecordedBy(op)
  BY DEF Sent
<1>5. op.draft = sending[op.uuid].draft /\ op.gen = sending[op.uuid].gen
  BY <1>2, <1>4 DEF RecordedBy
<1>6. op.draft = sending'[op.uuid].draft /\ op.gen = sending'[op.uuid].gen
  BY <1>1, <1>3, <1>5
<1>7. ASSUME Current(op.uuid, op.gen)'
      PROVE  shown'[op.uuid] # None /\ (op.kind = "clear" => op.draft.text \in shown'[op.uuid].recent)
  BY <1>2, <1>4, <1>5, <1>7 DEF RecordedBy
<1> QED
  BY <1>6, <1>7 DEF RecordedBy

\* The operations in a queue that has one more.
LEMMA InQueueAppended ==
    ASSUME TypeOK, NEW n \in Operations, queue' = Append(queue, n)
    PROVE  /\ InQueue(n)'
           /\ \A op : InQueue(op)' => InQueue(op) \/ op = n
<1>1. queue \in Seq(Operations)
  BY DEF TypeOK
<1>2. \A i \in 1..Len(queue') : \/ i \in 1..Len(queue) /\ queue'[i] = queue[i]
                                \/ queue'[i] = n
  BY <1>1, Appended
<1>3. queue'[Len(queue) + 1] = n /\ Len(queue) + 1 \in 1..Len(queue')
  BY <1>1
<1> QED
  BY <1>2, <1>3 DEF InQueue

\* No step submits another draft than the working copy, nor clears one that it
\* has not recorded.
LEMMA SentController ==
    ASSUME IInv, IDrafts, NEW u \in Uuid,
           \/ Open(u) \/ Reselect(u) \/ Type(u) \/ Save(u) \/ Close(u) \/ Closed(u)
           \/ Submit(u) \/ NotAccepted(u) \/ Accepted(u) \/ Forget(u)
           \/ RestoreBegins(u) \/ RestoreMoves(u)
    PROVE  Sent'
<1>0. TypeOK /\ TypeOK' /\ SubmissionsTracked /\ SubmissionsTracked' /\ Sent /\ Opened /\ Ordered
      /\ queue \in Seq(Operations)
  <2>1. [Next]_vars
    BY DEF Next
  <2> QED
    BY <2>1, TypeStep DEF IInv, IDrafts, TypeOK
<1> USE DEF store, io, editor, session
<1>1. ASSUME UNCHANGED <<opened, shown>>, live' \subseteq live, forgotten \subseteq forgotten',
             \A w \in Uuid : sending'[w] # None => sending'[w].draft = sending[w].draft /\ sending'[w].gen = sending[w].gen,
             NEW op \in Operations, InQueue(op), InQueue(op)'
      PROVE  RecordedBy(op)'
  <2>1. Current(op.uuid, op.gen)' => Current(op.uuid, op.gen)
    BY <1>1 DEF Current
  <2> QED
    BY <1>0, <1>1, <2>1, RecordedKept
<1>q. ASSUME NEW op, UNCHANGED queue PROVE InQueue(op)' <=> InQueue(op)
  BY <1>q DEF InQueue
<1>2. ASSUME UNCHANGED <<opened, working>>, live' \subseteq live, forgotten \subseteq forgotten', dirty' \subseteq dirty,
             \A w \in Uuid : sending'[w] # None => /\ sending[w] # None /\ sending'[w].draft = sending[w].draft
                                                   /\ sending'[w].gen = sending[w].gen
      PROVE  \A w \in live' \ forgotten' : SentAt(w)'
  BY <1>0, <1>2 DEF Sent, SentAt, TypeOK
<1>3. ASSUME UNCHANGED <<opened, shown>>, live' \subseteq live, forgotten \subseteq forgotten',
             \A w \in Uuid : sending'[w] # None => sending'[w].draft = sending[w].draft /\ sending'[w].gen = sending[w].gen,
             NEW n \in Operations, n.kind \notin {"record", "clear"}, queue' = queue \/ queue' = Append(queue, n)
      PROVE  \A op \in Operations : InQueue(op)' => RecordedBy(op)'
  <2> SUFFICES ASSUME NEW op \in Operations, InQueue(op)' PROVE RecordedBy(op)'
    OBVIOUS
  <2>1. InQueue(op) \/ op = n
    BY <1>0, <1>3, <1>q, InQueueAppended
  <2>2. CASE op = n
    BY <1>3, <2>2 DEF RecordedBy
  <2> QED
    BY <1>1, <1>3, <2>1, <2>2
<1>k. ASSUME UNCHANGED <<opened, shown, queue>>, live' \subseteq live, forgotten \subseteq forgotten',
             \A w \in Uuid : sending'[w] # None => sending'[w].draft = sending[w].draft /\ sending'[w].gen = sending[w].gen
      PROVE  \A op \in Operations : InQueue(op)' => RecordedBy(op)'
  <2> SUFFICES ASSUME NEW op \in Operations, InQueue(op)' PROVE RecordedBy(op)'
    OBVIOUS
  <2> QED
    BY <1>1, <1>k, <1>q
<1>4. CASE Open(u)
  <2>1. /\ UNCHANGED <<shown, forgotten, queue, sending, dirty>> /\ live' = live \cup {u}
        /\ \A w \in Uuid : w # u => working'[w] = working[w] /\ opened'[w] = opened[w]
        /\ opened'[u] = opened[u] + 1
    BY <1>0, <1>4 DEF Open, TypeOK
  <2>2. sending[u] # None => sending[u].gen # opened'[u]
    <3>1. ASSUME sending[u] # None PROVE sending[u].gen \in Nat /\ opened[u] \in Nat /\ sending[u].gen <= opened[u]
      BY <1>0, <3>1, BoundAssumption DEF TypeOK, Sendings, Opened
    <3> QED
      BY <2>1, <3>1
  <2>3. \A w \in live' \ forgotten' : SentAt(w)'
    <3>1. ASSUME NEW w \in Uuid, w # u, w \in live, w \notin forgotten PROVE SentAt(w)'
      BY <1>0, <2>1, <3>1 DEF Sent, SentAt
    <3>2. SentAt(u)'
      BY <2>1, <2>2 DEF SentAt
    <3> QED
      BY <1>0, <2>1, <3>1, <3>2 DEF TypeOK
  <2>5. ASSUME NEW op \in Operations, InQueue(op)' PROVE RecordedBy(op)'
    <3>1. InQueue(op) /\ op.uuid \in Uuid
      BY <1>q, <2>1, <2>5 DEF Operations
    <3>2. op.kind \in {"record", "clear"} => sending[op.uuid] # None
      BY <1>0, <3>1 DEF InQueue, SubmissionsTracked, Submitting
    <3>3. CASE op.kind \in {"record", "clear"}
      <4>1. op.gen = sending[op.uuid].gen /\ Current(op.uuid, op.gen)' => Current(op.uuid, op.gen)
        BY <2>1, <2>2, <3>1, <3>2, <3>3 DEF Current
      <4> QED
        BY <1>0, <2>1, <2>5, <3>1, <4>1, RecordedKept
    <3> QED
      BY <3>3 DEF RecordedBy
  <2> QED
    BY <2>3, <2>5 DEF Sent
<1>5. CASE Reselect(u)
  <2>1. UNCHANGED <<store, queue, session, working, dirty, sending>>
    BY <1>0, <1>5, ReselectKeeps DEF Reselect
  <2> QED
    BY <1>k, <1>2, <2>1 DEF Sent
<1>6. CASE Type(u)
  <2>1. /\ UNCHANGED <<store, queue, session, sending>>
        /\ working'[u] = [rev |-> working[u].rev + 1, text |-> typed + 1]
        /\ \A w \in Uuid : w # u => working'[w] = working[w] /\ (w \in dirty' <=> w \in dirty)
    BY <1>0, <1>6 DEF Type, TypeOK
  <2>2. typed + 1 # 0 /\ working[u].rev \in Nat
    BY <1>0, BoundAssumption DEF TypeOK, Drafts
  <2>3. ASSUME u \in live \ forgotten PROVE SentAt(u)'
    <3>1. SUFFICES ASSUME sending[u] # None, opened[u] = sending[u].gen
                   PROVE  working'[u].text # 0 /\ sending[u].draft.rev < working'[u].rev
                          /\ sending[u].draft.rev <= working'[u].rev
      BY <2>1 DEF SentAt
    <3>2. sending[u].draft.rev \in Nat /\ sending[u].draft.rev <= working[u].rev
      BY <1>0, <2>3, <3>1 DEF Sent, SentAt, TypeOK, Sendings, Drafts
    <3> QED
      BY <2>1, <2>2, <3>2
  <2>4. ASSUME NEW w \in live \ forgotten, w # u PROVE SentAt(w)'
    BY <1>0, <2>1, <2>4 DEF Sent, SentAt, TypeOK
  <2> QED
    BY <1>k, <2>1, <2>3, <2>4 DEF Sent
<1>7. CASE Save(u) \/ Close(u)
  <2>1. /\ UNCHANGED <<store, opened, working, sending>> /\ live' \subseteq live /\ dirty' \subseteq dirty
        /\ queue' = queue \/ queue' = Append(queue, SaveOp("save", u))
    BY <1>7 DEF Save, Close
  <2>2. SaveOp("save", u) \in Operations /\ SaveOp("save", u).kind = "save"
    BY <1>0, SaveOps DEF Saves
  <2> QED
    BY <1>3, <1>2, <2>1, <2>2 DEF Sent
<1>8. CASE Closed(u)
  <2>1. /\ UNCHANGED <<store, queue, session, sending, dirty>> /\ u \notin live
        /\ \A w \in Uuid : w # u => working'[w] = working[w]
    BY <1>0, <1>8 DEF Closed, TypeOK
  <2>2. \A w \in live' \ forgotten' : SentAt(w)'
    BY <1>0, <2>1 DEF Sent, SentAt, TypeOK
  <2> QED
    BY <1>k, <2>1, <2>2 DEF Sent
<1>9. CASE Submit(u)
  <2>1. /\ UNCHANGED <<store, queue, session, working, dirty>> /\ sending[u] = None
        /\ working[u].text # 0 /\ u \notin dirty
        /\ sending'[u].draft = working[u]
        /\ \A w \in Uuid : w # u => sending'[w] = sending[w]
    BY <1>0, <1>9 DEF Submit, TypeOK
  <2>2. SentAt(u)'
    BY <1>0, <2>1 DEF SentAt, TypeOK, Drafts
  <2>3. ASSUME NEW w \in live \ forgotten, w # u PROVE SentAt(w)'
    <3>1. w \in Uuid /\ SentAt(w)
      BY <1>0, <2>3 DEF Sent, TypeOK
    <3> QED
      BY <2>1, <2>3, <3>1 DEF SentAt
  <2>4. ASSUME NEW op \in Operations, InQueue(op)' PROVE RecordedBy(op)'
    <3>1. op.uuid \in Uuid /\ RecordedBy(op) /\ InQueue(op)
      BY <1>0, <1>q, <2>1, <2>4 DEF Operations, Sent
    <3>2. op.kind \in {"record", "clear"} => op.uuid # u
      BY <1>0, <2>1, <3>1 DEF SubmissionsTracked, Submitting, InQueue
    <3>3. op.kind \in {"record", "clear"} => sending'[op.uuid] = sending[op.uuid]
      BY <2>1, <3>1, <3>2
    <3> QED
      BY <2>1, <3>1, <3>3 DEF RecordedBy, Current
  <2> QED
    BY <2>1, <2>2, <2>3, <2>4 DEF Sent
<1>10. CASE NotAccepted(u)
  <2>1. /\ UNCHANGED <<store, queue, session, working, dirty>>
        /\ \A w \in Uuid : sending'[w] # None => sending'[w] = sending[w]
    BY <1>0, <1>10 DEF NotAccepted, TypeOK
  <2> QED
    BY <1>k, <1>2, <2>1 DEF Sent
<1>11. CASE Accepted(u)
  <2>1. /\ sending[u] # None /\ UNCHANGED <<store, editor, session>>
        /\ \/ /\ Current(u, sending[u].gen)
              /\ \/ queue' = Append(queue, SaveOp("resave", u))
                 \/ queue' = Append(queue, RecordOp(u)) /\ shown[u] # None
           \/ queue' = queue
        /\ \A w \in Uuid : sending'[w] # None => /\ sending[w] # None
                                                 /\ sending'[w].draft = sending[w].draft
                                                 /\ sending'[w].gen = sending[w].gen
    BY <1>0, <1>11, AcceptedEffect
  <2>2. CASE queue' = queue
    BY <1>k, <1>2, <2>1, <2>2 DEF Sent
  <2>3. CASE queue' = Append(queue, SaveOp("resave", u))
    <3>1. SaveOp("resave", u) \in Operations /\ SaveOp("resave", u).kind = "resave"
      BY <1>0, SaveOps DEF Saves
    <3> QED
      BY <1>3, <1>2, <2>1, <2>3, <3>1 DEF Sent
  <2>4. CASE queue' = Append(queue, RecordOp(u)) /\ shown[u] # None
    <3>1. /\ RecordOp(u) \in Operations /\ RecordOp(u).kind = "record" /\ RecordOp(u).uuid = u
          /\ RecordOp(u).draft = sending[u].draft /\ RecordOp(u).gen = sending[u].gen
      BY <1>0, <2>1, RecordOps
    <3>2. sending'[u] # None
      <4>1. queue'[Len(queue) + 1] = RecordOp(u) /\ Len(queue) + 1 \in 1..Len(queue')
        BY <1>0, <2>4, <3>1
      <4> QED
        BY <1>0, <3>1, <4>1 DEF SubmissionsTracked, Submitting
    <3>3. ASSUME NEW op \in Operations, op = RecordOp(u) PROVE RecordedBy(op)'
      BY <2>1, <2>4, <3>1, <3>2, <3>3 DEF RecordedBy
    <3>4. ASSUME NEW op \in Operations, InQueue(op)' PROVE RecordedBy(op)'
      <4>1. InQueue(op) \/ op = RecordOp(u)
        BY <1>0, <2>4, <3>1, <3>4, InQueueAppended
      <4> QED
        BY <1>1, <2>1, <3>3, <3>4, <4>1
    <3> QED
      BY <1>2, <2>1, <3>4 DEF Sent
  <2> QED
    BY <2>1, <2>2, <2>3, <2>4
<1>12. CASE Forget(u)
  <2> DEFINE n == Op("forget", u, Empty, 0, None)
  <2>1. /\ queue' = Append(queue, n) /\ forgotten' = forgotten \cup {u}
        /\ UNCHANGED <<shown, session, sending>> /\ dirty' \subseteq dirty
        /\ \A w \in Uuid : w # u => working'[w] = working[w]
    BY <1>0, <1>12 DEF Forget, TypeOK
  <2>2. n \in Operations /\ n.kind = "forget"
    BY <1>0, OtherOps
  <2>3. \A w \in live' \ forgotten' : SentAt(w)'
    BY <1>0, <2>1 DEF Sent, SentAt, TypeOK
  <2> HIDE DEF n
  <2> QED
    BY <1>3, <2>1, <2>2, <2>3 DEF Sent
<1>13. CASE RestoreBegins(u)
  <2>1. UNCHANGED <<store, queue, session, working, dirty, sending>>
    BY <1>13 DEF RestoreBegins
  <2> QED
    BY <1>k, <1>2, <2>1 DEF Sent
<1>14. CASE RestoreMoves(u)
  <2> DEFINE n == Op("transfer", restoring.uuid, restoring.draft, opened[u], u)
  <2>1. /\ restoring # None /\ UNCHANGED <<store, session, working, dirty, sending>> /\ queue' = Append(queue, n)
    BY <1>14 DEF RestoreMoves
  <2>2. n \in Operations /\ n.kind = "transfer"
    BY <1>0, <2>1, OtherOps
  <2> HIDE DEF n
  <2> QED
    BY <1>3, <1>2, <2>1, <2>2 DEF Sent
<1> QED
  BY <1>4, <1>5, <1>6, <1>7, <1>8, <1>9, <1>10, <1>11, <1>12, <1>13, <1>14


\* The next operation of a submission is of the same submission, and clears only
\* what was recorded.
LEMMA SentFollower ==
    ASSUME IInv, IDrafts, SubmissionsTracked', Skip \/ WriteFails \/ WriteLands,
           NEW outcome, Return(Head(queue), outcome),
           NEW n \in Operations, n = Follower(Head(queue)), InQueue(n)',
           \/ /\ Head(queue).kind = "resave" /\ outcome = "done"
              /\ shown'[Head(queue).uuid] # None
           \/ /\ Head(queue).kind = "record"
              /\ Current(Head(queue).uuid, Head(queue).gen) =>
                   shown'[Head(queue).uuid] # None /\ Head(queue).draft.text \in shown'[Head(queue).uuid].recent,
           queue # <<>>, UNCHANGED <<live, opened>>, forgotten \subseteq forgotten'
    PROVE  RecordedBy(n)'
<1> DEFINE op == Head(queue)
<1>0. TypeOK /\ SubmissionsTracked /\ OpsSound
  BY DEF IInv
<1>1. op \in Operations /\ op.uuid \in Uuid /\ op = queue[1] /\ 1 \in 1..Len(queue)
  BY HeadSound
<1>2. sending[op.uuid] # None /\ InQueue(op)
  BY <1>0, <1>1 DEF SubmissionsTracked, Submitting, InQueue
<1>3. /\ n.uuid = op.uuid
      /\ op.kind = "resave" => n.kind = "record" /\ n.draft = sending[op.uuid].draft /\ n.gen = sending[op.uuid].gen
      /\ op.kind = "record" => n.kind = "clear" /\ n.draft = op.draft /\ n.gen = op.gen
  BY <1>0, <1>1, <1>2, RecordOps DEF Follower, Operations
<1>4. op.kind = "record" => op.draft = sending[op.uuid].draft /\ op.gen = sending[op.uuid].gen
  BY <1>1, <1>2 DEF IDrafts, Sent, RecordedBy
<1>5. sending'[n.uuid] # None
  BY <1>3 DEF SubmissionsTracked, Submitting, InQueue
<1>6. sending'[op.uuid].draft = sending[op.uuid].draft /\ sending'[op.uuid].gen = sending[op.uuid].gen
  BY <1>0, <1>1, <1>3, <1>5, ReturnQueue
<1>7. Current(n.uuid, n.gen)' => Current(n.uuid, n.gen)
  BY DEF Current
<1> QED
  BY <1>3, <1>4, <1>6, <1>7 DEF RecordedBy

\* So is what else is in the queue, where no record of a prompt goes.
LEMMA SentReturned ==
    ASSUME IInv, IDrafts, Skip \/ WriteFails \/ WriteLands,
           NEW outcome, Return(Head(queue), outcome),
           \A w \in Uuid \ forgotten' : shown[w] # None =>
             shown'[w] # None /\ shown[w].recent \subseteq shown'[w].recent,
           Head(queue).kind = "resave" /\ outcome = "done" => shown'[Head(queue).uuid] # None,
           Head(queue).kind = "record" /\ outcome # "failed" /\ Current(Head(queue).uuid, Head(queue).gen) =>
             shown'[Head(queue).uuid] # None /\ Head(queue).draft.text \in shown'[Head(queue).uuid].recent
    PROVE  Sent'
<1> DEFINE op == Head(queue)
<1>0. /\ TypeOK /\ TypeOK' /\ SubmissionsTracked /\ SubmissionsTracked' /\ OpsSound /\ queue # <<>>
      /\ Sent
  <2>1. [Next]_vars
    BY DEF Next, Store
  <2> QED
    BY <2>1, TypeStep, SkipEffect, FailEffect, LandEffect DEF IInv, IDrafts
<1>1. /\ op \in Operations /\ op.uuid \in Uuid /\ (op.kind = "transfer" => op.to \in Uuid)
      /\ op = queue[1] /\ 1 \in 1..Len(queue)
  BY <1>0, HeadSound
<1>2. UNCHANGED <<opened, live, dirty>> /\ forgotten \subseteq forgotten'
  BY SkipEffect, FailEffect, LandEffect DEF store, session
<1>3. /\ \A u \in Uuid : sending'[u] # None => /\ sending[u] # None
                                               /\ sending'[u].draft = sending[u].draft
                                               /\ sending'[u].gen = sending[u].gen
      /\ op.kind = "clear" => sending'[op.uuid] = None
      /\ \A i \in 1..Len(queue') :
           \/ i + 1 \in 1..Len(queue) /\ queue'[i] = queue[i + 1]
           \/ /\ queue'[i] = Follower(op)
              /\ \/ op.kind = "resave" /\ outcome = "done"
                 \/ op.kind = "record" /\ outcome # "failed"
  BY <1>0, ReturnQueue
<1>4. \A w \in Uuid \ forgotten' : \/ working'[w] = working[w]
                                   \/ op.kind = "clear" /\ w = op.uuid
                                   \/ op.kind = "transfer" /\ w = op.to /\ working[w] = Empty
  BY ViewKept, LandView
<1> HIDE DEF op
<1>5. ASSUME NEW w \in live' \ forgotten' PROVE SentAt(w)'
  <2>1. w \in Uuid /\ SentAt(w)
    BY <1>0, <1>2, <1>5 DEF Sent, TypeOK
  <2>2. CASE working'[w] = working[w]
    BY <1>2, <1>3, <2>1, <2>2 DEF SentAt
  <2>3. CASE op.kind = "clear" /\ w = op.uuid
    BY <1>3, <2>3 DEF SentAt
  <2>4. CASE working[w] = Empty
    BY <1>2, <1>3, <2>1, <2>4 DEF SentAt, Empty
  <2> QED
    BY <1>4, <1>5, <2>1, <2>2, <2>3, <2>4
<1>6. ASSUME NEW n \in Operations, InQueue(n)' PROVE RecordedBy(n)'
  <2>1. CASE InQueue(n)
    <3>1. n.uuid \in Uuid
      BY DEF Operations
    <3>2. Current(n.uuid, n.gen)' => Current(n.uuid, n.gen) /\ n.uuid \in Uuid \ forgotten'
      BY <1>2, <3>1 DEF Current
    <3> QED
      BY <1>0, <1>3, <1>6, <2>1, <3>2, RecordedKept
  <2>2. CASE /\ n = Follower(op)
             /\ \/ op.kind = "resave" /\ outcome = "done"
                \/ op.kind = "record" /\ outcome # "failed"
    <3> USE DEF op
    <3>1. CASE op.kind = "resave" /\ outcome = "done"
      BY <1>0, <1>2, <1>6, <2>2, <3>1, SentFollower
    <3>2. CASE op.kind = "record" /\ outcome # "failed"
      BY <1>0, <1>2, <1>6, <2>2, <3>2, SentFollower
    <3> QED
      BY <2>2, <3>1, <3>2
  <2>3. PICK i \in 1..Len(queue') : queue'[i] = n
    BY <1>6 DEF InQueue
  <2> QED
    BY <1>3, <2>1, <2>2, <2>3 DEF InQueue
<1> QED
  BY <1>5, <1>6 DEF Sent

\* Nothing that the store does lets a submission clear what it has not recorded.
LEMMA SentStore ==
    ASSUME IInv, IDrafts, Skip \/ WriteFails \/ WriteLands
    PROVE  Sent'
<1> DEFINE op == Head(queue)
<1>0. TypeOK /\ SubmissionsTracked /\ queue # <<>> /\ Sent
  BY SkipEffect, FailEffect, LandEffect DEF IInv, IDrafts
<1>1. /\ op \in Operations /\ op.uuid \in Uuid /\ (op.kind = "transfer" => op.to \in Uuid)
      /\ InQueue(op) /\ (op.kind = "record" => op.draft.text # 0) /\ (op.kind = "forget" => op.uuid \in forgotten)
  BY <1>0, HeadSound DEF InQueue
<1>2. op.kind = "record" /\ Current(op.uuid, op.gen) => shown[op.uuid] # None
  BY <1>0, <1>1 DEF Sent, RecordedBy
<1>3. CASE Skip
  <2>1. /\ UNCHANGED <<shown, forgotten, live, opened>> /\ ~Wanted(op)
        /\ \E outcome \in {"done", "refused"} :
             Return(op, outcome) /\ (outcome = "done" => op.kind \in Saves /\ shown[op.uuid] # None)
    BY <1>3, SkipEffect DEF store, session
  <2>2. op.kind = "record" => ~Current(op.uuid, op.gen)
    <3>1. SUFFICES ASSUME op.kind = "record", Current(op.uuid, op.gen) PROVE FALSE
      OBVIOUS
    <3>2. Get(op.uuid) # None
      BY <1>2, <3>1 DEF Get, Current
    <3> QED
      BY <2>1, <3>1, <3>2 DEF Wanted
  <2> QED
    BY <1>3, <2>1, <2>2, SentReturned DEF Saves
<1>4. CASE WriteFails
  <2>1. UNCHANGED <<shown, forgotten>>
        /\ \E outcome \in {"refused", "failed"} : Return(op, outcome) /\ (outcome = "refused" => op.kind = "clear")
    BY <1>4, FailEffect
  <2> QED
    BY <1>4, <2>1, SentReturned
<1>5. CASE WriteLands
  <2>1. /\ writing # None /\ shown' = IF writing.undo THEN shown ELSE Replaced(op)
        /\ forgotten' = forgotten \cup (IF ~writing.undo /\ op.kind = "transfer" THEN {op.uuid} ELSE {})
        /\ writing.undo => op.kind \in {"record", "clear", "transfer"}
    BY <1>5, LandEffect
  <2>2. PICK outcome : Return(op, outcome) /\ (writing.undo => outcome # "done" /\ (op.kind # "clear" => outcome = "failed"))
    BY <1>5, LandEffect
  <2>3. /\ op.kind \in {"record", "clear", "transfer"} => shown[op.uuid] # None
        /\ op.kind = "transfer" => shown[op.to] = None
    BY <2>1 DEF IInv, WriteSound
  <2>4. ~writing.undo => 
          /\ op.kind \in Saves \cup {"record"} => shown'[op.uuid] # None
          /\ op.kind = "record" => op.draft.text \in shown'[op.uuid].recent
    BY <1>0, <1>1, <2>1, <2>3, ReplacedAt
  <2>5. ASSUME NEW w \in Uuid \ forgotten', shown[w] # None
        PROVE  shown'[w] # None /\ shown[w].recent \subseteq shown'[w].recent
    <3>1. CASE writing.undo
      BY <2>1, <2>5, <3>1
    <3>2. CASE ~writing.undo
      <4>1. shown' = Replaced(op) /\ ~(op.kind = "transfer" /\ w = op.to)
        BY <2>1, <2>3, <2>5, <3>2
      <4>2. CASE w # op.uuid
        BY <1>0, <1>1, <2>3, <2>5, <4>1, <4>2, ReplacedAt
      <4>3. CASE w = op.uuid
        <5>1. op.kind \notin {"forget", "transfer"}
          BY <1>1, <2>1, <2>5, <3>2, <4>3
        <5>2. op.kind \in Saves \cup {"record", "clear"}
          BY <1>1, <5>1 DEF Operations, Saves
        <5> QED
          BY <1>0, <1>1, <2>3, <2>5, <4>1, <4>3, <5>2, ReplacedAt
      <4> QED
        BY <4>2, <4>3
    <3> QED
      BY <3>1, <3>2
  <2> HIDE DEF op
  <2>6. op.kind = "resave" /\ outcome = "done" => shown'[op.uuid] # None
    BY <2>2, <2>4 DEF Saves
  <2>7. op.kind = "record" /\ outcome # "failed" =>
          shown'[op.uuid] # None /\ op.draft.text \in shown'[op.uuid].recent
    BY <2>2, <2>4
  <2> QED
    BY <1>5, <2>2, <2>5, <2>6, <2>7, SentReturned DEF op
<1> QED
  BY <1>3, <1>4, <1>5

\* No step clears what was not recorded.
LEMMA SentStep ==
    ASSUME IInv, IDrafts, [Next]_vars
    PROVE  Sent'
<1>1. TypeOK /\ Sent
  BY DEF IInv, IDrafts
<1>2. CASE RestoreFails \/ Write \/ WriteUndone \/ UNCHANGED vars
  <2>1. UNCHANGED <<shown, forgotten, queue, opened, live, working, dirty, sending>>
    BY <1>2 DEF RestoreFails, Write, WriteUndone, vars, store, session, editor, io
  <2>2. \A w \in live' \ forgotten' : SentAt(w)'
    BY <1>1, <2>1 DEF Sent, SentAt
  <2>3. \A op \in Operations : InQueue(op)' => RecordedBy(op)'
    BY <1>1, <2>1 DEF Sent, RecordedBy, InQueue, Current
  <2> QED
    BY <2>2, <2>3 DEF Sent
<1>3. CASE Reload
  <2>1. live' = {} /\ queue' = <<>>
    BY <1>3 DEF Reload
  <2> QED
    BY <2>1 DEF Sent, InQueue
<1> QED
  BY <1>2, <1>3, SentController, SentStore DEF Next, Store

----------------------------------------------------------------------------
(* What is moved is older than what it is moved to *)

\* A draft comes into play, or into the view, of a conversation from the same
\* conversation, by a new edit or by a restore into it.
LEMMA PlayController ==
    ASSUME IInv, IDrafts, NEW u \in Uuid,
           \/ Open(u) \/ Reselect(u) \/ Type(u) \/ Save(u) \/ Close(u) \/ Closed(u)
           \/ Submit(u) \/ NotAccepted(u) \/ Accepted(u) \/ Forget(u)
           \/ RestoreBegins(u) \/ RestoreMoves(u),
           NEW v \in Uuid, NEW a \in Drafts, InPlay(v, a)' \/ a = working'[v], a.text # 0
    PROVE  InPlay(v, a) \/ a = working[v] \/ (a.text = typed + 1 /\ typed' = typed + 1)
<1>0. TypeOK /\ Ordered /\ Empty.text = 0
  BY DEF IInv, IDrafts, Empty
<1> USE DEF store, io, editor, session
<1>1. ASSUME UNCHANGED shown, \A w \in Uuid : failed'[w] = failed[w] \/ failed'[w] = None,
             \A w \in Uuid : working'[w] = working[w] \/ working'[w] = Empty,
             \/ queue' = queue
             \/ \E n \in Operations : /\ queue' = Append(queue, n)
                                      /\ n.kind \in Saves => n.draft = working[n.uuid]
      PROVE  InPlay(v, a) \/ a = working[v]
  <2>1. CASE a = working'[v]
    BY <1>0, <1>1, <2>1
  <2>2. CASE InPlay(v, a)'
    <3>1. Queued(v, a)' => Queued(v, a) \/ a = working[v]
      <4>1. CASE queue' = queue
        BY <4>1 DEF Queued
      <4>2. ASSUME NEW n \in Operations, queue' = Append(queue, n), n.kind \in Saves => n.draft = working[n.uuid]
            PROVE  Queued(v, a)' => Queued(v, a) \/ a = working[v]
        BY <1>0, <4>2, QueuedAppended
      <4> QED
        BY <1>1, <4>1, <4>2
    <3> QED
      BY <1>1, <2>2, <3>1 DEF InPlay
  <2> QED
    BY <2>1, <2>2
<1>2. CASE Open(u)
  <2>1. /\ UNCHANGED <<shown, failed, queue>>
        /\ \A w \in Uuid : w # u => working'[w] = working[w]
        /\ working'[u] = IF Recoverable(u) = None THEN Empty ELSE Recoverable(u)
    BY <1>0, <1>2 DEF Open, TypeOK
  <2>2. InPlay(v, a)' => InPlay(v, a)
    BY <2>1 DEF InPlay, Queued
  <2>3. Recoverable(u) # None => InPlay(u, Recoverable(u))
    BY DEF Recoverable, InPlay
  <2> QED
    BY <1>0, <2>1, <2>2, <2>3
<1>3. CASE Reselect(u) \/ Submit(u) \/ NotAccepted(u) \/ RestoreBegins(u)
  BY <1>0, <1>1, <1>3, ReselectKeeps DEF Reselect, Submit, NotAccepted, RestoreBegins
<1>4. CASE Type(u)
  <2>1. /\ UNCHANGED <<shown, failed, queue>> /\ typed' = typed + 1
        /\ \A w \in Uuid : w # u => working'[w] = working[w]
        /\ working'[u].text = typed + 1
    BY <1>0, <1>4 DEF Type, TypeOK
  <2>2. InPlay(v, a)' => InPlay(v, a)
    BY <2>1 DEF InPlay, Queued
  <2> QED
    BY <2>1, <2>2
<1>5. CASE Save(u) \/ Close(u)
  <2>1. UNCHANGED <<shown, failed, working>> /\ (queue' = queue \/ queue' = Append(queue, SaveOp("save", u)))
    BY <1>5 DEF Save, Close
  <2> QED
    BY <1>0, <1>1, <2>1, SaveOps DEF Saves
<1>6. CASE Closed(u)
  <2>1. UNCHANGED <<shown, failed, queue>> /\ \A w \in Uuid : working'[w] = working[w] \/ working'[w] = Empty
    BY <1>0, <1>6 DEF Closed, TypeOK
  <2> QED
    BY <1>1, <2>1
<1>7. CASE Accepted(u)
  <2>1. /\ sending[u] # None /\ UNCHANGED <<shown, failed, working>>
        /\ \/ queue' = Append(queue, SaveOp("resave", u))
           \/ queue' = Append(queue, RecordOp(u))
           \/ queue' = queue
    BY <1>0, <1>7, AcceptedEffect
  <2> QED
    BY <1>0, <1>1, <2>1, SaveOps, RecordOps DEF Saves
<1>8. CASE Forget(u)
  <2>1. /\ UNCHANGED shown /\ queue' = Append(queue, Op("forget", u, Empty, 0, None))
        /\ \A w \in Uuid : failed'[w] = failed[w] \/ failed'[w] = None
        /\ \A w \in Uuid : working'[w] = working[w] \/ working'[w] = Empty
    BY <1>0, <1>8 DEF Forget, TypeOK
  <2> QED
    BY <1>0, <1>1, <2>1, OtherOps DEF Saves
<1>9. CASE RestoreMoves(u)
  <2>1. /\ restoring # None /\ UNCHANGED <<shown, failed, working>>
        /\ queue' = Append(queue, Op("transfer", restoring.uuid, restoring.draft, opened[u], u))
    BY <1>9 DEF RestoreMoves
  <2> QED
    BY <1>0, <1>1, <2>1, OtherOps DEF Saves
<1> QED
  BY <1>2, <1>3, <1>4, <1>5, <1>6, <1>7, <1>8, <1>9

\* The store puts into play only what was, and what it moves into its destination.
LEMMA PlayStore ==
    ASSUME IInv, IDrafts, Skip \/ WriteFails \/ WriteLands,
           NEW v \in Uuid, NEW a \in Drafts, InPlay(v, a)' \/ a = working'[v], a.text # 0,
           WriteLands /\ Head(queue).kind = "transfer" => writing.undo \/ v # Head(queue).to
    PROVE  InPlay(v, a) \/ a = working[v]
<1> DEFINE op == Head(queue)
<1>0. TypeOK /\ queue # <<>>
  BY SkipEffect, FailEffect, LandEffect DEF IInv
<1>1. /\ op \in Operations /\ op.uuid \in Uuid /\ (op.kind = "transfer" => op.to \in Uuid)
      /\ op = queue[1] /\ 1 \in 1..Len(queue) /\ op.draft \in Drafts
  BY <1>0, HeadSound
<1>2. Queued(v, a)' => Queued(v, a)
  BY <1>0, SkipEffect, FailEffect, LandEffect, QueuedReturned
<1>3. op.kind \in Saves => Queued(op.uuid, op.draft)
  BY <1>1 DEF Queued
<1>4. CASE Skip
  <2>1. UNCHANGED <<shown, failed>> /\ working' = working
    BY <1>4, SkipEffect, ViewKept DEF store
  <2> QED
    BY <1>2, <2>1 DEF InPlay
<1>5. CASE WriteFails
  <2>1. UNCHANGED shown /\ working' = working /\ failed' = Retained(op)
    BY <1>5, FailEffect, ViewKept
  <2>2. failed'[v] = failed[v] \/ (v = op.uuid /\ op.kind \in Saves /\ failed'[v] = op.draft)
    BY <1>0, <2>1 DEF Retained, TypeOK, Saves
  <2> QED
    BY <1>2, <1>3, <2>1, <2>2 DEF InPlay
<1>6. CASE WriteLands
  <2>1. /\ writing # None /\ shown' = IF writing.undo THEN shown ELSE Replaced(op)
        /\ failed'[v] = failed[v] \/ failed'[v] = None
        /\ \E outcome : Return(op, outcome) /\ (writing.undo => outcome # "done")
    BY <1>6, LandEffect
  <2>2. /\ op.kind \in {"record", "clear", "transfer"} => shown[op.uuid] # None
        /\ op.kind = "transfer" => shown[op.to] = None
        /\ op.kind = "record" => op.draft.text # 0
    BY <1>0, <2>1, HeadSound DEF IInv, WriteSound
  <2>3. shown'[v] # None /\ shown'[v].draft = a => InPlay(v, a)
    <3>1. CASE writing.undo
      BY <2>1, <3>1 DEF InPlay
    <3>2. CASE ~writing.undo /\ v # op.uuid
      <4>1. shown'[v] = shown[v]
        BY <1>0, <1>1, <1>6, <2>1, <2>2, <3>2, ReplacedAt
      <4> QED
        BY <4>1 DEF InPlay
    <3>3. CASE ~writing.undo /\ v = op.uuid
      <4>1. CASE op.kind \in Saves
        <5>1. shown'[v] # None /\ shown'[v].draft = op.draft
          BY <1>0, <1>1, <2>1, <2>2, <3>3, <4>1, ReplacedAt
        <5> QED
          BY <1>3, <3>3, <4>1, <5>1 DEF InPlay
      <4>2. CASE op.kind = "record"
        <5>1. shown[v] # None /\ shown'[v].draft = shown[v].draft
          BY <1>0, <1>1, <2>1, <2>2, <3>3, <4>2, ReplacedAt
        <5> QED
          BY <5>1 DEF InPlay
      <4>3. CASE op.kind = "clear"
        <5>1. shown'[v].draft = [rev |-> shown[v].draft.rev + 1, text |-> 0]
          BY <1>0, <1>1, <2>1, <2>2, <3>3, <4>3, ReplacedAt
        <5>2. shown'[v].draft.text = 0
          BY <5>1
        <5> QED
          BY <5>2
      <4>4. CASE op.kind \in {"forget", "transfer"}
        BY <1>0, <1>1, <2>1, <2>2, <3>3, <4>4, ReplacedAt
      <4> QED
        BY <1>1, <4>1, <4>2, <4>3, <4>4 DEF Operations, Saves
    <3> QED
      BY <3>1, <3>2, <3>3
  <2>4. InPlay(v, a)' => InPlay(v, a)
    BY <1>2, <2>1, <2>3 DEF InPlay
  <2>5. ASSUME a = working'[v] PROVE InPlay(v, a) \/ a = working[v]
    <3>1. \/ working'[v] = working[v] \/ working'[v] = Empty
          \/ op.kind = "clear" /\ ~writing.undo /\ v = op.uuid /\ working'[v] = shown'[v].draft
      BY <1>0, <1>1, <1>6, <2>1, ReturnView
    <3>2. CASE op.kind = "clear" /\ ~writing.undo /\ v = op.uuid /\ working'[v] = shown'[v].draft
      <4>1. shown'[v].draft = [rev |-> shown[v].draft.rev + 1, text |-> 0]
        BY <1>0, <1>1, <2>1, <2>2, <3>2, ReplacedAt
      <4>2. shown'[v].draft.text = 0
        BY <4>1
      <4> QED
        BY <2>5, <3>2, <4>2
    <3> QED
      BY <2>5, <3>1, <3>2 DEF Empty
  <2> QED
    BY <2>4, <2>5
<1> QED
  BY <1>4, <1>5, <1>6

\* The draft that is published for a conversation has no older revision than before.
LEMMA PublishedGrows ==
    ASSUME IInv, IDrafts, WriteLands, NEW u \in Uuid \ forgotten', shown[u] # None
    PROVE  shown'[u] # None /\ (shown'[u].draft = shown[u].draft \/ shown[u].draft.rev < shown'[u].draft.rev)
<1> DEFINE op == Head(queue)
<1>0. TypeOK /\ queue # <<>>
  BY LandEffect DEF IInv
<1>1. /\ op \in Operations /\ op.uuid \in Uuid /\ (op.kind = "transfer" => op.to \in Uuid)
      /\ op.kind = "record" => op.draft.text # 0
      /\ op.kind = "forget" => op.uuid \in forgotten
  BY <1>0, HeadSound
<1>2. /\ writing # None /\ shown' = IF writing.undo THEN shown ELSE Replaced(op)
      /\ forgotten' = forgotten \cup (IF ~writing.undo /\ op.kind = "transfer" THEN {op.uuid} ELSE {})
  BY LandEffect
<1>3. /\ op.kind \in {"record", "clear", "transfer"} => shown[op.uuid] # None
      /\ op.kind = "transfer" => shown[op.to] = None
  BY <1>0, <1>2 DEF IInv, WriteSound
<1>4. CASE writing.undo
  BY <1>2, <1>4
<1>5. CASE ~writing.undo /\ u # op.uuid
  <2>1. ~(op.kind = "transfer" /\ u = op.to)
    BY <1>3
  <2> QED
    BY <1>0, <1>1, <1>2, <1>3, <1>5, <2>1, ReplacedAt
<1>6. CASE ~writing.undo /\ u = op.uuid
  <2>1. CASE op.kind \in Saves
    <3>1. shown'[u] # None /\ shown'[u].draft = op.draft
      BY <1>0, <1>1, <1>2, <1>3, <1>6, <2>1, ReplacedAt
    <3>2. Below(shown[u].draft, op.draft)
      BY <1>2, <1>6, <2>1 DEF IDrafts, UnderWay
    <3> QED
      BY <3>1, <3>2 DEF Below
  <2>2. CASE op.kind = "record"
    BY <1>0, <1>1, <1>2, <1>3, <1>6, <2>2, ReplacedAt
  <2>3. CASE op.kind = "clear"
    <3>1. shown'[u] # None /\ shown'[u].draft = [rev |-> shown[u].draft.rev + 1, text |-> 0]
      BY <1>0, <1>1, <1>2, <1>3, <1>6, <2>3, ReplacedAt
    <3>2. shown[u].draft.rev \in Nat
      BY <1>0 DEF TypeOK, Records, Drafts
    <3> QED
      BY <3>1, <3>2
  <2>4. op.kind \notin {"forget", "transfer"}
    BY <1>1, <1>2, <1>6
  <2> QED
    BY <1>1, <2>1, <2>2, <2>3, <2>4 DEF Operations, Saves
<1> QED
  BY <1>4, <1>5, <1>6

\* What can be moved can be moved still, until it is.
LEMMA MovableKept ==
    ASSUME IInv, IDrafts, TypeOK', [Next]_vars, ~Reload,
           NEW u \in Uuid, NEW v \in Uuid, NEW d \in Drafts, Movable(u, v, d), d.text <= typed,
           WriteLands /\ Head(queue).kind = "transfer" => writing.undo \/ v # Head(queue).to
    PROVE  Movable(u, v, d)' /\ d.text <= typed'
<1>0. TypeOK /\ typed \in Nat /\ typed' \in Nat
  BY BoundAssumption DEF IInv, TypeOK
<1>1. ASSUME u \notin forgotten' PROVE shown'[u] # None /\ (shown'[u].draft = d \/ d.rev < shown'[u].draft.rev)
  <2>1. forgotten \subseteq forgotten' /\ (WriteLands \/ shown' = shown)
    BY SkipEffect, FailEffect, LandEffect
       DEF Next, Store, vars, store, Open, Reselect, Type, Save, Close, Closed, Submit, NotAccepted, Accepted, Forget,
           RestoreBegins, RestoreMoves, RestoreFails, Write, WriteUndone
  <2>2. shown[u] # None /\ (shown[u].draft = d \/ d.rev < shown[u].draft.rev)
    BY <1>1, <2>1 DEF Movable
  <2>3. CASE shown' = shown
    BY <2>2, <2>3
  <2>4. CASE WriteLands
    <3>1. shown'[u] # None /\ (shown'[u].draft = shown[u].draft \/ shown[u].draft.rev < shown'[u].draft.rev)
      BY <1>1, <2>2, <2>4, PublishedGrows
    <3>2. d.rev \in Nat /\ shown[u].draft.rev \in Nat /\ shown'[u].draft.rev \in Nat
      BY <1>0, <2>2, <3>1 DEF TypeOK, Records, Drafts
    <3> QED
      BY <2>2, <3>1, <3>2
  <2> QED
    BY <2>1, <2>3, <2>4
<1>2. ASSUME NEW a \in Drafts, InPlay(v, a)' \/ a = working'[v], a.text # 0 PROVE d.text < a.text
  <2>1. InPlay(v, a) \/ a = working[v] \/ a.text = typed + 1
    <3>1. CASE \E w \in Uuid : \/ Open(w) \/ Reselect(w) \/ Type(w) \/ Save(w) \/ Close(w) \/ Closed(w)
                               \/ Submit(w) \/ NotAccepted(w) \/ Accepted(w) \/ Forget(w)
                               \/ RestoreBegins(w) \/ RestoreMoves(w)
      BY <1>2, <3>1, PlayController
    <3>2. CASE RestoreFails \/ Write \/ WriteUndone \/ UNCHANGED vars
      <4>1. UNCHANGED <<shown, failed, queue, working>>
        BY <3>2 DEF RestoreFails, Write, WriteUndone, vars, store, io, editor
      <4> QED
        BY <1>2, <4>1 DEF InPlay, Queued
    <3>3. CASE Skip \/ WriteFails \/ WriteLands
      BY <1>2, <3>3, PlayStore
    <3> QED
      BY <3>1, <3>2, <3>3 DEF Next, Store
  <2>2. d.text \in Nat /\ a.text \in Nat
    BY BoundAssumption DEF Drafts
  <2> QED
    BY <1>0, <1>2, <2>1, <2>2 DEF Movable
<1>3. typed <= typed'
  <2>1. typed' = typed \/ typed' = typed + 1
    BY SkipEffect, FailEffect, LandEffect
       DEF Next, Store, vars, store, Open, Reselect, Type, Save, Close, Closed, Submit, NotAccepted, Accepted, Forget,
           RestoreBegins, RestoreMoves, RestoreFails, Write, WriteUndone
  <2> QED
    BY <1>0, <2>1
<1>4. d.text \in Nat
  BY BoundAssumption DEF Drafts
<1> QED
  BY <1>0, <1>1, <1>2, <1>3, <1>4 DEF Movable

\* No two restores go to one conversation, and none to one that has a later text.
LEMMA MovesStep ==
    ASSUME IInv, IDrafts, [Next]_vars
    PROVE  Moves'
<1> DEFINE op == Head(queue)
           Sound(u, v, d) == Movable(u, v, d) /\ d.text <= typed
           Single == \A i \in 1..Len(queue) : queue[i].kind = "transfer" =>
                       /\ restoring # None => queue[i].to \notin restoring.fresh
                       /\ \A j \in 1..Len(queue) : queue[j].kind = "transfer" /\ queue[j].to = queue[i].to => i = j
<1>0. TypeOK /\ TypeOK' /\ SubmissionsTracked /\ OpsSound /\ queue \in Seq(Operations) /\ Opened
      /\ Moves /\ Single /\ \A u, v \in Uuid : \A d \in Drafts : MovesTo(u, v, d) => Sound(u, v, d)
  BY TypeStep DEF IInv, IDrafts, TypeOK, Moves
<1>r. restoring # None => restoring.uuid \in Uuid /\ restoring.draft \in Drafts /\ restoring.fresh \subseteq Uuid
  BY <1>0 DEF TypeOK
<1>s. ASSUME NEW u \in Uuid, NEW v \in Uuid, NEW d \in Drafts, MovesTo(u, v, d), ~Reload,
             WriteLands /\ op.kind = "transfer" => writing.undo \/ v # op.to
      PROVE  Sound(u, v, d)'
  BY <1>0, <1>s, MovableKept
<1>m. ASSUME Single', \A u, v \in Uuid : \A d \in Drafts : MovesTo(u, v, d)' => Sound(u, v, d)'
      PROVE  Moves'
  BY <1>m DEF Moves
<1> HIDE DEF Sound, Single
<1>1. ASSUME ~Reload, ~WriteLands, UNCHANGED queue, UNCHANGED restoring \/ restoring' = None PROVE Moves'
  <2>1. \A u, v, d : MovesTo(u, v, d)' => MovesTo(u, v, d)
    BY <1>1 DEF MovesTo
  <2>2. Single'
    BY <1>0, <1>1 DEF Single
  <2> QED
    BY <1>1, <1>m, <1>s, <2>1, <2>2
<1>2. ASSUME ~Reload, ~WriteLands, NEW n \in Operations, queue' = Append(queue, n), n.kind # "transfer",
             UNCHANGED restoring
      PROVE  Moves'
  <2>1. \A i \in 1..Len(queue') : \/ i \in 1..Len(queue) /\ queue'[i] = queue[i]
                                  \/ queue'[i] = n
    BY <1>0, <1>2, Appended
  <2>2. \A u, v, d : MovesTo(u, v, d)' => MovesTo(u, v, d)
    BY <1>2, <2>1 DEF MovesTo
  <2>3. Single'
    BY <1>0, <1>2, <2>1 DEF Single
  <2> QED
    BY <1>2, <1>m, <1>s, <2>2, <2>3
<1>3. ASSUME ~Reload, NEW outcome, queue # <<>>, Return(op, outcome), UNCHANGED restoring
      PROVE  Moves'
  <2>1. /\ op \in Operations /\ op = queue[1] /\ 1 \in 1..Len(queue)
    BY <1>3, HeadSound
  <2>2. \A i \in 1..Len(queue') : \/ i + 1 \in 1..Len(queue) /\ queue'[i] = queue[i + 1]
                                  \/ queue'[i] = Follower(op) /\ op.kind \in {"resave", "record"}
    BY <1>0, <1>3, ReturnQueue
  <2>3. op.kind \in {"resave", "record"} => Follower(op).kind # "transfer"
    BY <2>1 DEF Follower, RecordOp, Op, Operations
  <2>4. \A i \in 1..Len(queue') : queue'[i].kind = "transfer" => i + 1 \in 1..Len(queue) /\ queue'[i] = queue[i + 1]
    BY <2>2, <2>3
  <2> HIDE DEF op
  <2>5. \A i \in 1..Len(queue') : queue'[i].kind = "transfer" /\ op.kind = "transfer" => queue'[i].to # op.to
    <3>1. \A i \in 1..Len(queue') : i + 1 # 1
      OBVIOUS
    <3> QED
      BY <1>0, <2>1, <2>4, <3>1 DEF Single
  <2>6. op.kind = "transfer" /\ restoring # None => op.to \notin restoring.fresh
    BY <1>0, <2>1 DEF Single
  <2>7. \A u, v, d : MovesTo(u, v, d)' => MovesTo(u, v, d) /\ (op.kind = "transfer" => v # op.to)
    BY <1>3, <2>4, <2>5, <2>6 DEF MovesTo
  <2>8. Single'
    BY <1>0, <1>3, <2>4 DEF Single
  <2> QED
    BY <1>3, <1>m, <1>s, <2>7, <2>8
<1>4. CASE Reload
  BY <1>4 DEF Reload, Moves, MovesTo
<1>5. CASE ~Reload /\ WriteLands
  BY <1>3, <1>5, LandEffect
<1>6. CASE ~Reload /\ ~WriteLands
  <2>1. CASE \E u \in Uuid : Open(u) \/ Reselect(u) \/ Type(u) \/ Closed(u) \/ Submit(u) \/ NotAccepted(u)
    BY <1>1, <1>6, <2>1 DEF Open, Reselect, Type, Closed, Submit, NotAccepted, io
  <2>2. CASE RestoreFails \/ Write \/ WriteUndone \/ UNCHANGED vars
    BY <1>1, <1>6, <2>2 DEF RestoreFails, Write, WriteUndone, vars, io
  <2>3. CASE Skip \/ WriteFails
    BY <1>3, <1>6, <2>3, SkipEffect, FailEffect
  <2>4. ASSUME NEW u \in Uuid, Save(u) \/ Close(u) PROVE Moves'
    <3>1. UNCHANGED restoring /\ (queue' = queue \/ queue' = Append(queue, SaveOp("save", u)))
      BY <2>4 DEF Save, Close
    <3> QED
      BY <1>0, <1>1, <1>2, <1>6, <3>1, SaveOps DEF Saves
  <2>5. ASSUME NEW u \in Uuid, Accepted(u) PROVE Moves'
    <3>1. /\ sending[u] # None /\ UNCHANGED restoring
          /\ \/ queue' = Append(queue, SaveOp("resave", u))
             \/ queue' = Append(queue, RecordOp(u))
             \/ queue' = queue
      BY <1>0, <2>5, AcceptedEffect
    <3> QED
      BY <1>0, <1>1, <1>2, <1>6, <3>1, SaveOps, RecordOps DEF Saves
  <2>6. ASSUME NEW u \in Uuid, Forget(u) PROVE Moves'
    <3>1. UNCHANGED restoring /\ queue' = Append(queue, Op("forget", u, Empty, 0, None))
      BY <2>6 DEF Forget
    <3> QED
      BY <1>0, <1>2, <1>6, <3>1, OtherOps
  <2>7. ASSUME NEW u \in Uuid, RestoreBegins(u) PROVE Moves'
    <3> DEFINE fresh == {v \in Uuid : opened[v] = 0}
    <3>1. /\ UNCHANGED <<shown, failed, forgotten, queue, working, typed>>
          /\ u \notin forgotten /\ shown[u] # None
          /\ restoring' = [uuid |-> u, draft |-> shown[u].draft, fresh |-> fresh]
      BY <2>7 DEF RestoreBegins, Get, store, io, editor
    <3>2. \A i \in 1..Len(queue) : queue[i].kind = "transfer" => queue[i].to \notin fresh
      BY <1>0 DEF Opened
    <3>3. Single'
      BY <1>0, <3>1, <3>2 DEF Single
    <3>4. ASSUME NEW w \in Uuid, NEW v \in Uuid, NEW d \in Drafts, MovesTo(w, v, d)' PROVE Sound(w, v, d)'
      <4>1. CASE MovesTo(w, v, d)
        BY <1>6, <1>s, <4>1
      <4>2. CASE w = u /\ d = shown[u].draft /\ v \in fresh
        <5>1. d.text <= typed
          BY <3>1, <4>2, PlayHeld DEF InPlay
        <5>2. ASSUME NEW a, InPlay(v, a) \/ a = working[v] PROVE a.text = 0
          BY <1>0, <4>2, <5>2 DEF InPlay, Queued, Opened, Empty
        <5>3. \A a : InPlay(v, a)' \/ a = working'[v] => a.text = 0
          BY <3>1, <5>2 DEF InPlay, Queued
        <5>4. Movable(w, v, d)'
          BY <3>1, <4>2, <5>3 DEF Movable
        <5> QED
          BY <3>1, <5>1, <5>4 DEF Sound
      <4> QED
        BY <3>1, <3>4, <4>1, <4>2 DEF MovesTo
    <3> QED
      BY <1>m, <3>3, <3>4
  <2>8. ASSUME NEW u \in Uuid, RestoreMoves(u) PROVE Moves'
    <3> DEFINE n == Op("transfer", restoring.uuid, restoring.draft, opened[u], u)
    <3>1. /\ restoring # None /\ u \in restoring.fresh /\ restoring' = None
          /\ queue' = Append(queue, n)
      BY <2>8 DEF RestoreMoves
    <3>2. n \in Operations /\ n.uuid = restoring.uuid /\ n.draft = restoring.draft /\ n.to = u /\ n.kind = "transfer"
      BY <1>0, <3>1, OtherOps
    <3> HIDE DEF n
    <3>3. \A i \in 1..Len(queue') : \/ i \in 1..Len(queue) /\ queue'[i] = queue[i]
                                    \/ i = Len(queue) + 1 /\ queue'[i] = n
      BY <1>0, <3>1, <3>2, Appended
    <3>4. \A w, v, d : MovesTo(w, v, d)' => MovesTo(w, v, d)
      BY <3>1, <3>2, <3>3 DEF MovesTo
    <3>5. \A i \in 1..Len(queue) : queue[i].kind = "transfer" => queue[i].to # u
      BY <1>0, <3>1 DEF Single
    <3>6. Single'
      BY <1>0, <3>1, <3>2, <3>3, <3>5 DEF Single
    <3> QED
      BY <1>6, <1>m, <1>s, <3>4, <3>6
  <2> QED
    BY <1>6, <2>1, <2>2, <2>3, <2>4, <2>5, <2>6, <2>7, <2>8 DEF Next, Store
<1> QED
  BY <1>4, <1>5, <1>6

----------------------------------------------------------------------------
(* What is written and what is stored *)

\* The reasons for a write hold when it begins and are not lost while it lasts.
LEMMA UnderWayStep ==
    ASSUME IInv, IDrafts, [Next]_vars
    PROVE  UnderWay'
<1> DEFINE op == Head(queue)
<1>0. TypeOK /\ UnderWay /\ Ordered /\ Sent /\ Moves
  BY DEF IInv, IDrafts
<1> USE DEF store, io, editor, session
<1>1. ASSUME UNCHANGED <<shown, writing>>, forgotten \subseteq forgotten',
             writing # None => Head(queue') = Head(queue)
      PROVE  UnderWay'
  BY <1>0, <1>1 DEF UnderWay, Below
<1>2. CASE \/ \E u \in Uuid : \/ Open(u) \/ Reselect(u) \/ Type(u) \/ Save(u) \/ Close(u) \/ Closed(u)
                              \/ Submit(u) \/ NotAccepted(u) \/ Accepted(u) \/ Forget(u)
                              \/ RestoreBegins(u) \/ RestoreMoves(u)
           \/ RestoreFails
  <2>1. /\ UNCHANGED <<shown, writing>> /\ forgotten \subseteq forgotten'
        /\ queue' = queue \/ \E n \in Operations : queue' = Append(queue, n)
    BY <1>2, Elsewhere
  <2>2. writing # None => queue # <<>> /\ queue \in Seq(Operations)
    BY <1>0 DEF IInv, WriteSound, TypeOK
  <2>3. writing # None => Head(queue') = Head(queue)
    BY <2>1, <2>2, Appended
  <2> QED
    BY <1>1, <2>1, <2>3
<1>3. CASE Write
  <2>1. /\ queue # <<>> /\ Wanted(op) /\ UNCHANGED <<shown, forgotten, queue>>
        /\ writing'.document.forgotten = Tombstones(op) /\ writing'.undo = FALSE
    BY <1>3 DEF Write
  <2>2. /\ op \in Operations /\ op.uuid \in Uuid /\ op.draft \in Drafts /\ (op.kind = "transfer" => op.to \in Uuid)
        /\ op = queue[1] /\ 1 \in 1..Len(queue)
    BY <2>1, HeadSound
  <2>3. ASSUME op.kind \in Saves, op.uuid \notin forgotten, shown[op.uuid] # None
        PROVE  Below(shown[op.uuid].draft, op.draft)
    <3>1. InPlay(op.uuid, op.draft) /\ InPlay(op.uuid, shown[op.uuid].draft)
      BY <2>2, <2>3 DEF InPlay, Queued
    <3>2. shown[op.uuid].draft \in Drafts
      BY <1>0, <2>2, <2>3 DEF TypeOK, Records
    <3>3. op.draft.rev > shown[op.uuid].draft.rev
      BY <2>1, <2>3 DEF Wanted, Saves
    <3>4. AtMost(shown[op.uuid].draft, op.draft) \/ AtMost(op.draft, shown[op.uuid].draft)
      BY <1>0, <2>2, <2>3, <3>1, <3>2 DEF Ordered, OrderedAt
    <3>5. shown[op.uuid].draft.rev < op.draft.rev
      BY <2>2, <3>2, <3>3 DEF Drafts
    <3> QED
      BY <2>2, <3>2, <3>4, <3>5, Comparisons
  <2>4. ASSUME op.kind = "clear"
        PROVE  shown[op.uuid].draft = op.draft /\ op.draft.text \in shown[op.uuid].recent
    <3>1. /\ shown[op.uuid] # None /\ shown[op.uuid].draft.rev = op.draft.rev
          /\ Current(op.uuid, op.gen) /\ working[op.uuid] = op.draft
      BY <2>1, <2>4 DEF Wanted, Get, Unchanged
    <3>2. AtMost(shown[op.uuid].draft, op.draft) /\ shown[op.uuid].draft \in Drafts
      BY <1>0, <2>2, <3>1 DEF Ordered, OrderedAt, InPlay, Current, TypeOK, Records
    <3>3. RecordedBy(op)
      BY <1>0, <2>2 DEF Sent, InQueue
    <3> QED
      BY <2>2, <2>4, <3>1, <3>2, <3>3, Comparisons DEF RecordedBy
  <2>5. ASSUME op.kind = "transfer"
        PROVE  shown[op.uuid].draft = op.draft /\ op.to # op.uuid /\ op.to \notin forgotten
    <3>1. /\ shown[op.uuid] # None /\ shown[op.uuid].draft.rev = op.draft.rev /\ op.uuid \notin forgotten
          /\ op.to \notin forgotten /\ shown[op.to] = None
      BY <2>1, <2>5 DEF Wanted, Get, Available
    <3>2. Movable(op.uuid, op.to, op.draft)
      BY <1>0, <2>2, <2>5 DEF Moves, MovesTo
    <3>3. op.draft.rev \in Nat
      BY <2>2 DEF Drafts
    <3> QED
      BY <3>1, <3>2, <3>3 DEF Movable
  <2> HIDE DEF op
  <2>6. ASSUME op.kind \in Saves /\ op.uuid \notin forgotten /\ shown[op.uuid] # None =>
                 Below(shown[op.uuid].draft, op.draft),
               op.kind \in {"clear", "transfer"} => shown[op.uuid].draft = op.draft,
               op.kind = "clear" => op.draft.text \in shown[op.uuid].recent,
               op.kind = "transfer" => op.to \notin Tombstones(op),
               Tombstones(op) \subseteq forgotten \cup (IF op.kind = "transfer" THEN {op.uuid} ELSE {})
        PROVE  UnderWay'
    BY <2>1, <2>6 DEF UnderWay, Below, op
  <2> QED
    BY <2>3, <2>4, <2>5, <2>6 DEF Tombstones
<1>4. CASE WriteUndone
  <2>1. /\ UNCHANGED <<shown, forgotten, queue>> /\ writing # None
        /\ writing'.document.forgotten = forgotten /\ writing'.undo = TRUE
    BY <1>4 DEF WriteUndone
  <2> QED
    BY <1>0, <2>1 DEF UnderWay, Below
<1>5. CASE Skip \/ WriteFails \/ WriteLands \/ Reload
  <2>1. writing' = None
    BY <1>5, SkipEffect, FailEffect, LandEffect DEF Reload
  <2> QED
    BY <2>1 DEF UnderWay
<1>6. CASE UNCHANGED vars
  BY <1>1, <1>6 DEF vars
<1> QED
  BY <1>2, <1>3, <1>4, <1>5, <1>6 DEF Next, Store

\* What the document under way keeps of a published text that is not forgotten.
LEMMA DocumentKeeps ==
    ASSUME IInv, IDrafts, writing # None,
           NEW u \in Uuid \ forgotten, shown[u] # None, shown[u].draft.text # 0
    PROVE  LET document == writing.document
               reload == [w \in Uuid |-> IF w \in document.forgotten THEN None ELSE document.sessions[w]]
           IN
           /\ Has(reload, u, shown[u].draft.text) \/
              (~writing.undo /\ Head(queue).kind \in Saves /\ Head(queue).uuid = u)
           /\ document.sessions[u] = None => u \in document.forgotten
           /\ \/ Has(document.sessions, u, shown[u].draft.text)
              \/ document.sessions[u] # None /\ document.sessions[u].draft.text > shown[u].draft.text
<1> DEFINE op == Head(queue)
           document == writing.document
           reload == [w \in Uuid |-> IF w \in document.forgotten THEN None ELSE document.sessions[w]]
           text == shown[u].draft.text
<1>0. TypeOK /\ UnderWay /\ Texts /\ WriteSound /\ queue # <<>>
  BY DEF IInv, IDrafts, WriteSound
<1>1. /\ op \in Operations /\ op.uuid \in Uuid /\ op.draft \in Drafts /\ (op.kind = "transfer" => op.to \in Uuid)
      /\ op = queue[1] /\ 1 \in 1..Len(queue) /\ (op.kind = "record" => op.draft.text # 0)
      /\ op.kind = "forget" => op.uuid \in forgotten
  BY <1>0, HeadSound
<1>2. /\ op.kind \in {"record", "clear", "transfer"} => shown[op.uuid] # None
      /\ op.kind = "transfer" => shown[op.to] = None
  BY <1>0 DEF WriteSound
<1>k. ASSUME u \notin document.forgotten, document.sessions[u] # None,
             document.sessions[u].draft.text = text \/ text \in document.sessions[u].recent
      PROVE  Has(reload, u, text) /\ Has(document.sessions, u, text)
  BY <1>k DEF Has
<1>3. CASE writing.undo
  <2>1. document.sessions = shown /\ u \notin document.forgotten
    BY <1>0, <1>3 DEF WriteSound, UnderWay
  <2> QED
    BY <1>k, <2>1
<1>4. CASE ~writing.undo /\ u # op.uuid
  <2>1. document.sessions = Replaced(op) /\ u \notin document.forgotten
    BY <1>0, <1>4 DEF WriteSound, UnderWay
  <2>2. Replaced(op)[u] = shown[u]
    BY <1>0, <1>1, <1>2, <1>4, ReplacedAt
  <2> QED
    BY <1>k, <2>1, <2>2
<1>5. CASE ~writing.undo /\ u = op.uuid
  <2>1. document.sessions = Replaced(op) /\ (op.kind # "transfer" => u \notin document.forgotten)
    BY <1>0, <1>5 DEF WriteSound, UnderWay
  <2>2. CASE op.kind \in Saves
    <3>1. Replaced(op)[u] # None /\ Replaced(op)[u].draft = op.draft
      BY <1>0, <1>1, <1>2, <1>5, <2>2, ReplacedAt
    <3>2. Below(shown[u].draft, op.draft) /\ op.draft.text # 0
      BY <1>0, <1>1, <1>5, <2>2 DEF UnderWay, Texts
    <3>3. op.draft.text > text
      <4>1. op.draft.text \in Nat /\ text \in Nat
        BY <1>0, <1>1, BoundAssumption DEF TypeOK, Records, Drafts
      <4> QED
        BY <3>2, <4>1 DEF Below
    <3> QED
      BY <1>5, <2>1, <2>2, <3>1, <3>3
  <2>3. CASE op.kind = "record"
    <3>1. Replaced(op)[u] # None /\ Replaced(op)[u].draft = shown[u].draft
      BY <1>0, <1>1, <1>2, <1>5, <2>3, ReplacedAt
    <3> QED
      BY <1>k, <2>1, <2>3, <3>1
  <2>4. CASE op.kind = "clear"
    <3>1. Replaced(op)[u] # None /\ Replaced(op)[u].recent = shown[u].recent
      BY <1>0, <1>1, <1>2, <1>5, <2>4, ReplacedAt
    <3>2. text \in shown[u].recent
      BY <1>0, <1>5, <2>4 DEF UnderWay
    <3> QED
      BY <1>k, <2>1, <2>4, <3>1, <3>2
  <2>5. CASE op.kind = "transfer"
    <3>1. Replaced(op)[op.to] # None /\ Replaced(op)[op.to].draft = shown[u].draft
      BY <1>0, <1>1, <1>2, <1>5, <2>5, ReplacedAt
    <3>2. op.to \notin document.forgotten /\ u \in document.forgotten
      BY <1>0, <1>5, <2>5 DEF UnderWay, WriteSound
    <3> QED
      BY <1>1, <2>1, <2>5, <3>1, <3>2 DEF Has
  <2> QED
    BY <1>1, <1>5, <2>2, <2>3, <2>4, <2>5 DEF Operations, Saves
<1> QED
  BY <1>3, <1>4, <1>5

\* Whatever is stored, undone or not stored, a reload finds every published text.
LEMMA DiskStep ==
    ASSUME IInv, IDrafts, [Next]_vars
    PROVE  DiskKeeps'
<1> DEFINE op == Head(queue)
<1>0. TypeOK /\ DiskKeeps /\ UnderWay
  BY DEF IInv, IDrafts
<1> USE DEF store, io, editor, session
<1>1. ASSUME UNCHANGED <<shown, disk>>, forgotten \subseteq forgotten' PROVE DiskKeeps'
  BY <1>0, <1>1 DEF DiskKeeps, AfterReload, Has
<1>2. CASE \/ \E u \in Uuid : \/ Open(u) \/ Reselect(u) \/ Type(u) \/ Save(u) \/ Close(u) \/ Closed(u)
                              \/ Submit(u) \/ NotAccepted(u) \/ Accepted(u) \/ Forget(u)
                              \/ RestoreBegins(u) \/ RestoreMoves(u)
           \/ RestoreFails
  BY <1>1, <1>2, Elsewhere
<1>3. CASE Skip \/ WriteFails \/ Write \/ UNCHANGED vars
  BY <1>1, <1>3, SkipEffect, FailEffect DEF Write, vars
<1>4. CASE WriteUndone
  <2>1. /\ UNCHANGED <<shown, forgotten>> /\ disk' = writing.document /\ writing # None
        /\ ~StillValid(op)
    BY <1>4 DEF WriteUndone
  <2>2. op.kind \notin Saves
    BY <2>1 DEF StillValid, Saves
  <2> QED
    BY <2>1, <2>2, DocumentKeeps DEF DiskKeeps, AfterReload
<1>5. CASE WriteLands
  <2>1. /\ writing # None /\ shown' = writing.document.sessions /\ disk' = writing.document
        /\ forgotten' = forgotten \cup (IF ~writing.undo /\ op.kind = "transfer" THEN {op.uuid} ELSE {})
    BY <1>5, LandEffect
  <2>2. disk'.forgotten \subseteq forgotten'
    BY <1>0, <2>1 DEF UnderWay
  <2> QED
    BY <2>1, <2>2 DEF DiskKeeps, AfterReload, Has
<1>6. CASE Reload
  <2>1. UNCHANGED disk /\ shown' = AfterReload /\ forgotten' = disk.forgotten
    BY <1>6 DEF Reload, AfterReload
  <2> QED
    BY <2>1 DEF DiskKeeps, AfterReload, Has
<1> QED
  BY <1>2, <1>3, <1>4, <1>5, <1>6 DEF Next, Store

----------------------------------------------------------------------------
(* What the view says and shows *)

\* A draft queued for saving is the first one's, or stays in the queue.
LEMMA QueuedLeft ==
    ASSUME IInv, queue # <<>>, NEW outcome, Return(Head(queue), outcome), NEW w, NEW d, Queued(w, d)
    PROVE  \/ Queued(w, d)'
           \/ Head(queue).kind \in Saves /\ Head(queue).uuid = w /\ Head(queue).draft = d
<1> DEFINE op == Head(queue)
<1>1. /\ op \in Operations /\ op = queue[1] /\ queue \in Seq(Operations)
      /\ Tail(queue) \in Seq(Operations) /\ Len(Tail(queue)) = Len(queue) - 1 /\ Len(queue) >= 1
      /\ \A i \in 1..Len(Tail(queue)) : Tail(queue)[i] = queue[i + 1]
  BY HeadSound DEF IInv, TypeOK
<1>2. PICK i \in 1..Len(queue) : queue[i].uuid = w /\ queue[i].kind \in Saves /\ queue[i].draft = d
  BY DEF Queued
<1>3. \/ queue' = Tail(queue)
      \/ queue' = Append(Tail(queue), Follower(op))
  BY <1>1, Returns
<1>4. CASE i = 1
  BY <1>1, <1>2, <1>4
<1>5. CASE i # 1
  <2>1. i - 1 \in 1..Len(Tail(queue)) /\ Tail(queue)[i - 1] = queue[i]
    BY <1>1, <1>5
  <2>2. i - 1 \in 1..Len(queue') /\ queue'[i - 1] = Tail(queue)[i - 1]
    <3> HIDE DEF op
    <3> QED
      BY <1>1, <1>3, <2>1
  <2> QED
    BY <1>2, <2>1, <2>2 DEF Queued
<1> QED
  BY <1>4, <1>5

\* What is published when a write lands is no later than the working copy.
LEMMA PublishedBelow ==
    ASSUME IInv, IDrafts, WriteLands, NEW w \in live \ forgotten', working'[w] = working[w], shown'[w] # None
    PROVE  /\ shown'[w].draft \in Drafts /\ working[w] \in Drafts
           /\ AtMost(shown'[w].draft, working[w])
<1>1. TypeOK /\ TypeOK' /\ Ordered'
  <2>1. [Next]_vars
    BY DEF Next, Store
  <2> QED
    BY <2>1, TypeStep, OrderedStore DEF IInv
<1>2. w \in Uuid /\ live' = live
  BY <1>1, LandEffect DEF TypeOK, session
<1>3. shown'[w].draft \in Drafts /\ working[w] \in Drafts
  BY <1>1, <1>2 DEF TypeOK, Records
<1>4. PICK d \in Drafts : d = shown'[w].draft
  BY <1>3
<1>5. InPlay(w, d)'
  BY <1>4 DEF InPlay
<1>6. OrderedAt(w)'
  BY <1>1, <1>2 DEF Ordered
<1>7. AtMost(d, working[w])'
  BY <1>2, <1>5, <1>6 DEF OrderedAt
<1>8. AtMost(d, working[w])
  BY <1>7 DEF AtMost, Below
<1> QED
  BY <1>3, <1>4, <1>8

\* A published working copy stays published.
LEMMA PublishedStays ==
    ASSUME IInv, IDrafts, WriteLands, NEW w \in live \ forgotten', working'[w] = working[w],
           shown[w] # None, shown[w].draft = working[w]
    PROVE  shown'[w] # None /\ shown'[w].draft = working'[w]
<1>1. w \in Uuid
  BY DEF IInv, TypeOK
<1>2. shown'[w] # None /\ (shown'[w].draft = shown[w].draft \/ shown[w].draft.rev < shown'[w].draft.rev)
  BY <1>1, PublishedGrows
<1>3. /\ shown'[w].draft \in Drafts /\ working[w] \in Drafts
      /\ AtMost(shown'[w].draft, working[w])
  BY <1>2, PublishedBelow
<1>4. shown'[w].draft.rev <= working[w].rev
  BY <1>3, Comparisons
<1> QED
  BY <1>2, <1>3, <1>4 DEF Drafts

\* The status "saved" is set for the draft that is published, and goes with it.
LEMMA SavedStep ==
    ASSUME IInv, IDrafts, [Next]_vars
    PROVE  SavedTrue'
<1> DEFINE op == Head(queue)
<1>0. TypeOK /\ SavedTrue /\ Ordered /\ live \subseteq Uuid
  BY DEF IInv, IDrafts, TypeOK
<1> USE DEF store, io, editor, session
<1>1. ASSUME UNCHANGED shown, live' \subseteq live, forgotten \subseteq forgotten',
             \A w \in live' \ forgotten' : working'[w] = working[w] /\ (status'[w] = "saved" => status[w] = "saved")
      PROVE  SavedTrue'
  BY <1>0, <1>1 DEF SavedTrue
<1>2. ASSUME NEW u \in Uuid, Open(u) PROVE SavedTrue'
  <2>1. /\ UNCHANGED <<shown, forgotten>> /\ live' = live \cup {u} /\ status'[u] = Safety(u)'
        /\ \A w \in Uuid : w # u => working'[w] = working[w] /\ status'[w] = status[w]
    BY <1>0, <1>2 DEF Open, TypeOK
  <2>2. status'[u] = "saved" => shown'[u] # None /\ shown'[u].draft = working'[u]
    BY <2>1 DEF Safety, Get
  <2> QED
    BY <1>0, <2>1, <2>2 DEF SavedTrue
<1>3. ASSUME NEW u \in Uuid, Reselect(u) PROVE SavedTrue'
  <2>1. /\ UNCHANGED <<shown, forgotten, live>> /\ status'[u] = Safety(u)' /\ working' = working
        /\ \A w \in Uuid : w # u => status'[w] = status[w]
    BY <1>0, <1>3, ReselectKeeps DEF Reselect, TypeOK
  <2>2. status'[u] = "saved" => shown'[u] # None /\ shown'[u].draft = working'[u]
    BY <2>1 DEF Safety, Get
  <2> QED
    BY <1>0, <2>1, <2>2 DEF SavedTrue
<1>4. ASSUME NEW u \in Uuid, Type(u) PROVE SavedTrue'
  <2>1. /\ UNCHANGED <<shown, forgotten, live>> /\ status'[u] # "saved"
        /\ \A w \in Uuid : w # u => working'[w] = working[w] /\ status'[w] = status[w]
    BY <1>0, <1>4 DEF Type, TypeOK
  <2> QED
    BY <1>0, <2>1 DEF SavedTrue
<1>5. ASSUME NEW u \in Uuid, Save(u) \/ Submit(u) \/ NotAccepted(u) \/ Accepted(u) \/ RestoreBegins(u) \/ RestoreMoves(u)
      PROVE  SavedTrue'
  BY <1>1, <1>5 DEF Save, Submit, NotAccepted, Accepted, RestoreBegins, RestoreMoves
<1>6. ASSUME NEW u \in Uuid, Close(u) PROVE SavedTrue'
  <2>1. /\ UNCHANGED <<shown, forgotten, working>> /\ live' = live \ {u}
        /\ \A w \in Uuid : w # u => status'[w] = status[w]
    BY <1>0, <1>6 DEF Close, TypeOK
  <2> QED
    BY <1>0, <1>1, <2>1
<1>7. ASSUME NEW u \in Uuid, Closed(u) PROVE SavedTrue'
  <2>1. /\ UNCHANGED <<shown, forgotten, live, status>> /\ u \notin live
        /\ \A w \in Uuid : w # u => working'[w] = working[w]
    BY <1>0, <1>7 DEF Closed, TypeOK
  <2> QED
    BY <1>0, <1>1, <2>1
<1>8. ASSUME NEW u \in Uuid, Forget(u) PROVE SavedTrue'
  <2>1. /\ UNCHANGED <<shown, live>> /\ forgotten' = forgotten \cup {u}
        /\ \A w \in Uuid : w # u => working'[w] = working[w] /\ status'[w] = status[w]
    BY <1>0, <1>8 DEF Forget, TypeOK
  <2> QED
    BY <1>0, <1>1, <2>1
<1>9. CASE RestoreFails \/ Write \/ WriteUndone \/ UNCHANGED vars
  BY <1>1, <1>9 DEF RestoreFails, Write, WriteUndone, vars
<1>10. CASE Reload
  BY <1>10 DEF Reload, SavedTrue
<1>11. ASSUME queue # <<>>, UNCHANGED live, forgotten \subseteq forgotten',
              NEW outcome, Return(op, outcome),
              op.kind = "transfer" /\ outcome = "done" => op.uuid \in forgotten',
              \A w \in live \ forgotten' :
                /\ shown[w] # None /\ shown[w].draft = working[w] /\ working'[w] = working[w] =>
                     shown'[w] # None /\ shown'[w].draft = working'[w]
                /\ op.kind = "save" /\ outcome = "done" /\ w = op.uuid =>
                     shown'[w] # None /\ shown'[w].draft = op.draft
       PROVE  SavedTrue'
  <2>1. /\ op \in Operations /\ op.uuid \in Uuid /\ op.draft \in Drafts /\ (op.kind = "transfer" => op.to \in Uuid)
        /\ op = queue[1] /\ 1 \in 1..Len(queue)
    BY <1>11, HeadSound
  <2> SUFFICES ASSUME NEW w \in live \ forgotten', status'[w] = "saved"
               PROVE  shown'[w] # None /\ shown'[w].draft = working'[w]
    BY <1>11 DEF SavedTrue
  <2>2. \/ /\ status[w] = "saved"
           /\ working'[w] = working[w] \/ (op.kind = "transfer" /\ outcome = "done" /\ w = op.uuid)
        \/ /\ op.kind = "save" /\ outcome = "done" /\ w = op.uuid
           /\ w \in live /\ working' = working /\ working[w].rev = op.draft.rev
        \/ Get(w)' # None /\ Get(w)'.draft = working'[w]
    BY <1>0, <1>11, <2>1, ReturnView
  <2>3. CASE status[w] = "saved" /\ working'[w] = working[w]
    BY <1>0, <1>11, <2>3 DEF SavedTrue
  <2>4. CASE /\ op.kind = "save" /\ outcome = "done" /\ w = op.uuid
             /\ working' = working /\ working[w].rev = op.draft.rev
    <3>1. AtMost(op.draft, working[w]) /\ working[w] \in Drafts
      BY <1>0, <1>11, <2>1, <2>4 DEF Ordered, OrderedAt, InPlay, Queued, Saves, TypeOK
    <3>2. op.draft = working[w]
      BY <2>1, <2>4, <3>1, Comparisons
    <3> QED
      BY <1>11, <2>4, <3>2
  <2>5. CASE Get(w)' # None /\ Get(w)'.draft = working'[w]
    BY <2>5 DEF Get
  <2> QED
    BY <1>11, <2>2, <2>3, <2>4, <2>5
<1>12. CASE Skip
  <2>1. /\ queue # <<>> /\ UNCHANGED <<shown, forgotten, live>>
        /\ \E outcome : /\ Return(op, outcome)
                        /\ outcome = "done" => op.kind \in Saves /\ shown[op.uuid] # None /\ shown[op.uuid].draft = op.draft
    BY <1>12, SkipEffect
  <2> HIDE DEF op
  <2> QED
    BY <1>11, <2>1 DEF Saves
<1>13. CASE WriteFails
  <2>1. /\ queue # <<>> /\ UNCHANGED <<shown, forgotten, live>>
        /\ \E outcome : Return(op, outcome) /\ outcome # "done"
    BY <1>13, FailEffect
  <2> HIDE DEF op
  <2> QED
    BY <1>11, <2>1
<1>14. CASE WriteLands
  <2>1. /\ queue # <<>> /\ UNCHANGED live /\ writing # None /\ shown' = IF writing.undo THEN shown ELSE Replaced(op)
        /\ forgotten' = forgotten \cup (IF ~writing.undo /\ op.kind = "transfer" THEN {op.uuid} ELSE {})
    BY <1>14, LandEffect
  <2>2. PICK outcome : /\ Return(op, outcome)
                       /\ writing.undo => outcome # "done"
                       /\ ~writing.undo => outcome = IF op.kind \in Saves /\ op.uuid \in forgotten THEN "refused" ELSE "done"
    BY <1>14, LandEffect
  <2>3. /\ op \in Operations /\ op.uuid \in Uuid /\ op.draft \in Drafts /\ (op.kind = "transfer" => op.to \in Uuid)
        /\ op.kind = "record" => op.draft.text # 0
    BY <2>1, HeadSound
  <2>4. /\ op.kind \in {"record", "clear", "transfer"} => shown[op.uuid] # None
        /\ op.kind = "transfer" => shown[op.to] = None
    BY <2>1 DEF IInv, WriteSound
  <2>5. ASSUME NEW w \in live \ forgotten', shown[w] # None, shown[w].draft = working[w], working'[w] = working[w]
        PROVE  shown'[w] # None /\ shown'[w].draft = working'[w]
    BY <1>14, <2>5, PublishedStays
  <2>6. ASSUME op.kind = "save", outcome = "done" PROVE shown'[op.uuid] # None /\ shown'[op.uuid].draft = op.draft
    BY <1>0, <2>1, <2>2, <2>3, <2>4, <2>6, ReplacedAt DEF Saves
  <2>7. op.kind = "transfer" /\ outcome = "done" => op.uuid \in forgotten'
    BY <2>1, <2>2
  <2> HIDE DEF op
  <2> QED
    BY <1>11, <2>1, <2>2, <2>5, <2>6, <2>7
<1> QED
  BY <1>2, <1>3, <1>4, <1>5, <1>6, <1>7, <1>8, <1>9, <1>10, <1>12, <1>13, <1>14 DEF Next, Store

\* What is in the view and not published is to be saved or is not lost.
LEMMA SecuredController ==
    ASSUME IInv, IDrafts, NEW u \in Uuid,
           \/ Open(u) \/ Reselect(u) \/ Type(u) \/ Save(u) \/ Close(u) \/ Closed(u)
           \/ Submit(u) \/ NotAccepted(u) \/ Accepted(u) \/ Forget(u)
           \/ RestoreBegins(u) \/ RestoreMoves(u)
    PROVE  Secured'
<1>0. TypeOK /\ Secured /\ Ordered /\ live \subseteq Uuid /\ queue \in Seq(Operations)
  BY DEF IInv, IDrafts, TypeOK
<1> USE DEF store, io, editor, session
<1>1. ASSUME UNCHANGED shown, forgotten \subseteq forgotten',
             queue' = queue \/ (\E n \in Operations : queue' = Append(queue, n)),
             NEW w \in live' \ forgotten', w \in live, working'[w] = working[w], failed'[w] = failed[w],
             w \in dirty => w \in dirty' \/ Queued(w, working[w])', working'[w].text # 0
      PROVE  w \in dirty' \/ InPlay(w, working[w])'
  <2>1. \A d : Queued(w, d) => Queued(w, d)'
    <3>1. \A i \in 1..Len(queue) : i \in 1..Len(queue') /\ queue'[i] = queue[i]
      BY <1>0, <1>1
    <3> QED
      BY <3>1 DEF Queued
  <2>2. w \in dirty \/ InPlay(w, working[w])
    BY <1>0, <1>1 DEF Secured
  <2> QED
    BY <1>1, <2>1, <2>2 DEF InPlay, Queued
<1>2. CASE Open(u)
  <2>1. /\ UNCHANGED <<shown, failed, forgotten, queue, dirty>> /\ live' = live \cup {u}
        /\ working'[u] = IF Recoverable(u) = None THEN Empty ELSE Recoverable(u)
        /\ \A w \in Uuid : w # u => working'[w] = working[w]
    BY <1>0, <1>2 DEF Open, TypeOK
  <2>2. ASSUME u \notin forgotten', working'[u].text # 0 PROVE InPlay(u, working[u])'
    BY <2>1, <2>2 DEF Recoverable, InPlay, Empty
  <2> QED
    BY <1>0, <1>1, <2>1, <2>2 DEF Secured
<1>3. CASE Reselect(u) \/ Submit(u) \/ NotAccepted(u) \/ RestoreBegins(u)
  <2>1. UNCHANGED <<shown, failed, forgotten, queue, dirty, live, working>>
    BY <1>0, <1>3, ReselectKeeps DEF Reselect, Submit, NotAccepted, RestoreBegins
  <2> QED
    BY <1>0, <1>1, <2>1 DEF Secured
<1>4. CASE Type(u)
  <2>1. /\ UNCHANGED <<shown, failed, forgotten, queue, live>> /\ dirty' = dirty \cup {u}
        /\ \A w \in Uuid : w # u => working'[w] = working[w]
    BY <1>0, <1>4 DEF Type, TypeOK
  <2> QED
    BY <1>0, <1>1, <2>1 DEF Secured
<1>5. CASE Save(u) \/ Close(u)
  <2>1. /\ UNCHANGED <<shown, failed, forgotten, working>> /\ live' \subseteq live /\ dirty' = dirty \ {u}
        /\ queue' = queue \/ queue' = Append(queue, SaveOp("save", u))
        /\ u \in live' /\ u \in dirty => queue' = Append(queue, SaveOp("save", u))
    BY <1>5 DEF Save, Close
  <2>2. /\ SaveOp("save", u) \in Operations /\ SaveOp("save", u).kind \in Saves
        /\ SaveOp("save", u).uuid = u /\ SaveOp("save", u).draft = working[u]
    BY <1>0, SaveOps DEF Saves
  <2>3. ASSUME u \in live', u \in dirty PROVE Queued(u, working[u])'
    <3>1. Len(queue) + 1 \in 1..Len(queue') /\ queue'[Len(queue) + 1] = SaveOp("save", u)
      BY <1>0, <2>1, <2>2, <2>3
    <3> QED
      BY <2>1, <2>2, <3>1 DEF Queued
  <2> QED
    BY <1>0, <1>1, <2>1, <2>2, <2>3 DEF Secured
<1>6. CASE Closed(u)
  <2>1. /\ UNCHANGED <<shown, failed, forgotten, queue, dirty, live>> /\ u \notin live
        /\ \A w \in Uuid : w # u => working'[w] = working[w]
    BY <1>0, <1>6 DEF Closed, TypeOK
  <2> QED
    BY <1>0, <1>1, <2>1 DEF Secured
<1>7. CASE Accepted(u)
  <2>1. /\ sending[u] # None /\ UNCHANGED <<shown, failed, forgotten, dirty, live, working>>
        /\ \/ queue' = Append(queue, SaveOp("resave", u))
           \/ queue' = Append(queue, RecordOp(u))
           \/ queue' = queue
    BY <1>0, <1>7, AcceptedEffect
  <2>2. SaveOp("resave", u) \in Operations /\ RecordOp(u) \in Operations
    BY <1>0, <2>1, SaveOps, RecordOps DEF Saves
  <2> QED
    BY <1>0, <1>1, <2>1, <2>2 DEF Secured
<1>8. CASE Forget(u)
  <2> DEFINE n == Op("forget", u, Empty, 0, None)
  <2>1. /\ UNCHANGED <<shown, live>> /\ forgotten' = forgotten \cup {u} /\ dirty' = dirty \ {u}
        /\ queue' = Append(queue, n) /\ n \in Operations
        /\ \A w \in Uuid : w # u => failed'[w] = failed[w] /\ working'[w] = working[w]
    BY <1>0, <1>8, OtherOps DEF Forget, TypeOK
  <2> HIDE DEF n
  <2>2. ASSUME NEW w \in live' \ forgotten', working'[w].text # 0 PROVE w \in dirty' \/ InPlay(w, working[w])'
    <3>1. w # u /\ w \in Uuid /\ w \in live /\ (w \in dirty => w \in dirty')
      BY <1>0, <2>1, <2>2
    <3> QED
      BY <1>1, <2>1, <2>2, <3>1
  <2> QED
    BY <2>2 DEF Secured
<1>9. CASE RestoreMoves(u)
  <2> DEFINE n == Op("transfer", restoring.uuid, restoring.draft, opened[u], u)
  <2>1. /\ restoring # None /\ UNCHANGED <<shown, failed, forgotten, dirty, live, working>>
        /\ queue' = Append(queue, n)
    BY <1>9 DEF RestoreMoves
  <2>2. n \in Operations
    BY <1>0, <2>1, OtherOps
  <2> HIDE DEF n
  <2> QED
    BY <1>0, <1>1, <2>1, <2>2 DEF Secured
<1> QED
  BY <1>2, <1>3, <1>4, <1>5, <1>6, <1>7, <1>8, <1>9

\* What the store does with a save that is the working copy of an open session:
\* it was published already, is published now, or its write failed.
LEMMA SecuredStore ==
    ASSUME IInv, IDrafts, Skip \/ WriteFails \/ WriteLands
    PROVE  Secured'
<1> DEFINE op == Head(queue)
<1>0. TypeOK /\ Secured /\ Ordered /\ Texts /\ live \subseteq Uuid /\ queue # <<>>
  BY SkipEffect, FailEffect, LandEffect DEF IInv, IDrafts, TypeOK
<1>1. /\ op \in Operations /\ op.uuid \in Uuid /\ op.draft \in Drafts /\ (op.kind = "transfer" => op.to \in Uuid)
      /\ op.kind = "record" => op.draft.text # 0
      /\ op.kind = "forget" => op.uuid \in forgotten
  BY <1>0, HeadSound
<1>2. live' = live /\ dirty' = dirty /\ forgotten \subseteq forgotten'
  BY SkipEffect, FailEffect, LandEffect DEF session, store
<1>3. \A w, d : Queued(w, d) => Queued(w, d)' \/ (op.kind \in Saves /\ op.uuid = w /\ op.draft = d)
  BY <1>0, SkipEffect, FailEffect, LandEffect, QueuedLeft
<1> SUFFICES ASSUME NEW w \in live \ forgotten', working'[w].text # 0, w \notin dirty
             PROVE  InPlay(w, working[w])'
  BY <1>2 DEF Secured
<1>w. w \in Uuid \ forgotten /\ OrderedAt(w) /\ working[w] \in Drafts
  BY <1>0, <1>2 DEF Ordered, TypeOK
<1>o. /\ failed[w] # None => failed[w] \in Drafts /\ AtMost(failed[w], working[w])
      /\ shown[w] # None => shown[w].draft \in Drafts /\ AtMost(shown[w].draft, working[w])
      /\ op.kind \in Saves /\ op.uuid = w => AtMost(op.draft, working[w])
  <2>1. op.kind \in Saves /\ op.uuid = w => InPlay(w, op.draft)
    BY <1>0, HeadSound DEF InPlay, Queued
  <2> QED
    BY <1>0, <1>1, <1>w, <2>1 DEF OrderedAt, InPlay, TypeOK, Records
<1>t. ASSUME working'[w] = working[w]
      PROVE  InPlay(w, working[w])
  BY <1>0, <1>2, <1>t DEF Secured
<1>q. ASSUME working'[w] = working[w], Queued(w, working[w])
      PROVE  Queued(w, working[w])' \/ (op.kind \in Saves /\ op.uuid = w /\ op.draft = working[w])
  <2> HIDE DEF op
  <2>1. PICK d \in Drafts : d = working[w]
    BY <1>w
  <2>2. Queued(w, d)' \/ (op.kind \in Saves /\ op.uuid = w /\ op.draft = d)
    BY <1>3, <1>q, <2>1
  <2>3. Queued(w, d)' => Queued(w, working[w])'
    BY <1>q, <2>1 DEF Queued
  <2> QED
    BY <2>1, <2>2, <2>3
<1>4. CASE Skip
  <2>1. UNCHANGED <<shown, failed>> /\ working' = working /\ ~Wanted(op)
    BY <1>4, SkipEffect, ViewKept DEF store
  <2>2. ASSUME op.kind \in Saves, op.uuid = w, op.draft = working[w] PROVE shown[w] # None /\ shown[w].draft = working[w]
    <3>1. ~Newer(failed[w], op.draft)
      <4>1. failed[w] # None => failed[w].rev <= working[w].rev
        BY <1>o, <1>w, Comparisons
      <4> QED
        BY <1>o, <1>w, <2>2, <4>1 DEF Newer, Drafts
    <3>2. shown[w] # None /\ ~(op.draft.rev > shown[w].draft.rev)
      BY <1>w, <2>1, <2>2, <3>1 DEF Wanted, Saves
    <3>3. shown[w].draft.rev = working[w].rev
      <4>1. shown[w].draft.rev <= working[w].rev
        BY <1>o, <1>w, <3>2, Comparisons
      <4> QED
        BY <1>o, <1>w, <2>2, <3>2, <4>1 DEF Drafts
    <3> QED
      BY <1>o, <1>w, <3>2, <3>3, Comparisons
  <2> HIDE DEF op
  <2>3. CASE Queued(w, working[w])
    <3>1. Queued(w, working[w])' \/ (shown[w] # None /\ shown[w].draft = working[w])
      BY <1>q, <2>1, <2>2, <2>3
    <3> QED
      BY <2>1, <3>1 DEF InPlay
  <2> QED
    BY <1>t, <2>1, <2>3 DEF InPlay
<1>5. CASE WriteFails
  <2>1. UNCHANGED <<shown, forgotten>> /\ working' = working /\ failed' = Retained(op)
    BY <1>5, FailEffect, ViewKept
  <2>2. \/ failed'[w] = failed[w]
        \/ op.kind \in Saves /\ op.uuid = w /\ failed'[w] = op.draft /\ ~Newer(Recoverable(w), op.draft)
    BY <1>0, <1>w, <2>1 DEF Retained, TypeOK, Saves
  <2>3. ASSUME op.kind \in Saves, op.uuid = w, op.draft = working[w] PROVE failed'[w] = working[w]
    <3>1. ~Newer(Recoverable(w), op.draft)
      <4>1. Recoverable(w) # None => Recoverable(w) \in Drafts /\ AtMost(Recoverable(w), working[w])
        BY <1>o, <1>w DEF Recoverable
      <4>2. Recoverable(w) # None => Recoverable(w).rev <= working[w].rev
        BY <1>w, <4>1, Comparisons
      <4> QED
        BY <1>w, <2>3, <4>1, <4>2 DEF Newer, Drafts
    <3> QED
      BY <1>0, <1>w, <2>1, <2>3, <3>1 DEF Retained, TypeOK, Saves
  <2>4. ASSUME failed[w] # None, failed[w] = working[w] PROVE failed'[w] = working[w]
    <3>1. CASE op.kind \in Saves /\ op.uuid = w /\ failed'[w] = op.draft /\ ~Newer(Recoverable(w), op.draft)
      <4>1. Recoverable(w) = failed[w]
        BY <1>w, <2>4 DEF Recoverable
      <4>2. ~(working[w].rev > op.draft.rev)
        BY <2>4, <3>1, <4>1 DEF Newer
      <4>3. AtMost(op.draft, working[w]) /\ op.draft.rev <= working[w].rev
        BY <1>1, <1>o, <1>w, <3>1, Comparisons
      <4>4. op.draft.rev = working[w].rev
        BY <1>1, <1>w, <4>2, <4>3 DEF Drafts
      <4> QED
        BY <1>1, <1>w, <3>1, <4>3, <4>4, Comparisons
    <3> QED
      BY <2>2, <2>4, <3>1
  <2>5. failed'[w] = working[w] => InPlay(w, working[w])'
    BY <1>w, <2>1, NoneIsNoRecord DEF InPlay
  <2> HIDE DEF op
  <2>6. CASE Queued(w, working[w])
    <3>1. Queued(w, working[w])' \/ failed'[w] = working[w]
      BY <1>q, <2>1, <2>3, <2>6
    <3> QED
      BY <2>1, <2>5, <3>1 DEF InPlay
  <2> QED
    BY <1>t, <2>1, <2>4, <2>5, <2>6 DEF InPlay
<1>6. CASE WriteLands
  <2>1. /\ writing # None /\ shown' = IF writing.undo THEN shown ELSE Replaced(op)
        /\ failed' = [v \in Uuid |-> IF Superseded(v, shown') THEN None ELSE failed[v]]
        /\ writing.undo => op.kind \in {"record", "clear", "transfer"}
        /\ op.kind = "transfer" => writing.undo \/ op.uuid \in forgotten'
    BY <1>6, LandEffect
  <2>2. /\ op.kind \in {"record", "clear", "transfer"} => shown[op.uuid] # None
        /\ op.kind = "transfer" => shown[op.to] = None
    BY <1>0, <2>1 DEF IInv, WriteSound
  <2>3. \/ working'[w] = working[w]
        \/ /\ ~writing.undo /\ working'[w] = shown'[w].draft
           /\ (op.kind = "clear" /\ w = op.uuid) \/ (op.kind = "transfer" /\ w = op.to)
    BY <1>6, <1>w, LandView
  <2>4. CASE /\ ~writing.undo /\ working'[w] = shown'[w].draft
             /\ (op.kind = "clear" /\ w = op.uuid) \/ (op.kind = "transfer" /\ w = op.to)
    <3>1. shown'[w] # None
      BY <1>0, <1>1, <2>1, <2>2, <2>4, ReplacedAt
    <3> QED
      BY <2>4, <3>1 DEF InPlay
  <2>5. CASE working'[w] = working[w]
    <3>1. CASE shown[w] # None /\ shown[w].draft = working[w]
      <4>1. shown'[w] # None /\ shown'[w].draft = working'[w]
        BY <1>6, <2>5, <3>1, PublishedStays
      <4> QED
        BY <4>1 DEF InPlay
    <3>2. CASE failed[w] # None /\ failed[w] = working[w]
      <4>1. CASE failed'[w] = failed[w]
        BY <2>5, <3>2, <4>1 DEF InPlay
      <4>2. CASE failed'[w] # failed[w]
        <5>1. shown'[w] # None /\ shown'[w].draft.rev >= working[w].rev
          BY <1>w, <2>1, <3>2, <4>2 DEF Superseded
        <5>2. shown'[w].draft \in Drafts /\ AtMost(shown'[w].draft, working[w])
          BY <1>6, <2>5, <5>1, PublishedBelow
        <5>3. shown'[w].draft.rev <= working[w].rev
          BY <1>w, <5>2, Comparisons
        <5>4. shown'[w].draft.rev = working[w].rev
          BY <1>w, <5>1, <5>2, <5>3 DEF Drafts
        <5>5. shown'[w].draft = working[w]
          BY <1>w, <5>2, <5>4, Comparisons
        <5> QED
          BY <2>5, <5>1, <5>5 DEF InPlay
      <4> QED
        BY <4>1, <4>2
    <3>3. CASE Queued(w, working[w])
      <4>1. CASE op.kind \in Saves /\ op.uuid = w /\ op.draft = working[w]
        <5>1. shown'[w] # None /\ shown'[w].draft = op.draft
          BY <1>0, <1>1, <2>1, <2>2, <4>1, ReplacedAt DEF Saves
        <5> QED
          BY <2>5, <4>1, <5>1 DEF InPlay
      <4> HIDE DEF op
      <4>2. Queued(w, working[w])' \/ (op.kind \in Saves /\ op.uuid = w /\ op.draft = working[w])
        BY <1>q, <2>5, <3>3
      <4> QED
        BY <4>1, <4>2 DEF InPlay
    <3> QED
      BY <1>t, <2>5, <3>1, <3>2, <3>3 DEF InPlay
  <2> QED
    BY <2>3, <2>4, <2>5
<1> QED
  BY <1>4, <1>5, <1>6

\* No step leaves a draft in the view only.
LEMMA SecuredStep ==
    ASSUME IInv, IDrafts, [Next]_vars
    PROVE  Secured'
<1>1. CASE RestoreFails \/ Write \/ WriteUndone \/ UNCHANGED vars
  <2>1. UNCHANGED <<shown, failed, forgotten, queue, live, working, dirty>>
    BY <1>1 DEF RestoreFails, Write, WriteUndone, vars, store, session, editor, io
  <2> QED
    BY <2>1 DEF IDrafts, Secured, InPlay, Queued
<1>2. CASE Reload
  BY <1>2 DEF Reload, Secured
<1> QED
  BY <1>1, <1>2, SecuredController, SecuredStore DEF Next, Store

----------------------------------------------------------------------------
(* The theorems *)

\* The invariant holds of a store that has just been read.
LEMMA InitIDrafts == Init => IDrafts
<1> SUFFICES ASSUME Init PROVE IDrafts
  OBVIOUS
<1> USE DEF Init
<1>1. queue = <<>> /\ \A i \in 1..Len(queue) : FALSE
  OBVIOUS
<1>2. Opened /\ Texts
  BY <1>1 DEF Opened, Texts
<1>3. Ordered
  <2>1. \A u \in Uuid : \A d : ~InPlay(u, d) /\ ~Queued(u, d)
    BY <1>1 DEF InPlay, Queued
  <2> QED
    BY <2>1 DEF Ordered, OrderedAt
<1>4. Sent /\ Moves
  BY <1>1 DEF Sent, InQueue, Moves, MovesTo
<1>5. UnderWay /\ DiskKeeps /\ SavedTrue /\ Secured
  BY DEF UnderWay, DiskKeeps, SavedTrue, Secured
<1> QED
  BY <1>2, <1>3, <1>4, <1>5 DEF IDrafts

\* No step gives up a draft.
LEMMA DraftsStep ==
    ASSUME ~LateSaves, IInv, IDrafts, [Next]_vars
    PROVE  IDrafts'
  BY OpenedStep, TextsStep, OrderedStep, SentStep, MovesStep, UnderWayStep, DiskStep, SavedStep, SecuredStep
     DEF IDrafts

\* In every state the drafts in play of a conversation are revisions of one draft,
\* and a reload finds the text of every published one.
THEOREM DraftsInvariance ==
    ASSUME ~LateSaves
    PROVE  Spec => [](IInv /\ IDrafts)
<1>1. IInv /\ [Next]_vars => IInv'
  BY TypeStep, WriteStep, HoldStep, EraseStep DEF IInv
<1>2. IInv /\ IDrafts /\ [Next]_vars => IDrafts'
  BY DraftsStep
<1> QED
  BY InitIInv, InitIDrafts, <1>1, <1>2, PTL DEF Spec

\* "Saved" is true of the disk, and the text of an open draft is never only in
\* the view (saveDraft, persist and retainFailed of composerStore.ts; hydrate,
\* updateDraft and save of composerController.ts): whatever write fails or is
\* undone, whatever is sent, forgotten or restored meanwhile, for any number of
\* conversations, edits and sessions.
THEOREM DraftsSurvive ==
    ASSUME ~LateSaves
    PROVE  Spec => []SavedSurvives
<1>1. ASSUME IInv, IDrafts PROVE SavedSurvives
  <2>1. TypeOK /\ Ordered /\ DiskKeeps /\ SavedTrue /\ Secured
    BY <1>1 DEF IInv, IDrafts
  <2>2. \A u \in live \ forgotten : status[u] = "saved" => shown[u] # None /\ shown[u].draft = working[u]
    BY <2>1 DEF SavedTrue
  <2>3. ASSUME NEW u \in Uuid \ forgotten, shown[u] # None, shown[u].draft.text # 0
        PROVE  /\ Has(disk.sessions, u, shown[u].draft.text)
               /\ disk.sessions[u] = None => u \in disk.forgotten
    <3>1. /\ Has(AfterReload, u, shown[u].draft.text)
          /\ disk.sessions[u] = None => u \in disk.forgotten
      BY <2>1, <2>3 DEF DiskKeeps
    <3> QED
      BY <3>1 DEF Has, AfterReload
  <2>4. ASSUME NEW u \in live \ forgotten, queue = <<>>, u \notin dirty, working[u].text # 0
        PROVE  Recoverable(u) = working[u]
    <3>1. u \in Uuid /\ OrderedAt(u) /\ working[u] \in Drafts
      BY <2>1, <2>4 DEF Ordered, TypeOK
    <3>2. ~Queued(u, working[u])
      BY <2>4 DEF Queued
    <3>3. InPlay(u, working[u])
      BY <2>1, <2>4 DEF Secured
    <3>4. CASE failed[u] # None /\ failed[u] = working[u]
      BY <2>4, <3>4 DEF Recoverable
    <3>5. CASE shown[u] # None /\ shown[u].draft = working[u]
      <4>1. SUFFICES ASSUME failed[u] # None PROVE FALSE
        BY <2>4, <3>5 DEF Recoverable
      <4>2. failed[u] \in Drafts /\ Below(working[u], failed[u])
        BY <2>1, <3>1, <3>5, <4>1 DEF OrderedAt, TypeOK
      <4>3. AtMost(failed[u], working[u])
        BY <2>4, <3>1, <4>1, <4>2 DEF OrderedAt, InPlay
      <4> QED
        BY <3>1, <4>2, <4>3, Comparisons
    <3> QED
      BY <3>2, <3>3, <3>4, <3>5 DEF InPlay
  <2> QED
    BY <2>2, <2>3, <2>4 DEF SavedSurvives
<1> QED
  BY DraftsInvariance, <1>1, PTL

\* A published text goes only for a newer one, into the recent prompts, with a
\* conversation it is restored to, or with the one that the user forgot (persist,
\* recordAccepted, clearDraft, transferDraft, forget and load of composerStore.ts).
THEOREM DraftsNotLost ==
    ASSUME ~LateSaves
    PROVE  Spec => DraftsKept
<1> DEFINE Kept == \A u \in Uuid : (shown[u] # None /\ shown[u].draft.text # 0 /\ u \notin forgotten) =>
                     LET text == shown[u].draft.text
                     IN  \/ Has(shown', u, text)
                         \/ shown'[u] # None /\ shown'[u].draft.text > text
<1>1. ASSUME IInv, IDrafts, [Next]_vars PROVE [Kept]_vars
  <2>1. TypeOK /\ DiskKeeps
    BY <1>1 DEF IInv, IDrafts
  <2>2. CASE UNCHANGED shown
    BY <2>2 DEF Has
  <2>3. CASE WriteLands
    <3>1. writing # None /\ shown' = writing.document.sessions
      BY <1>1, <2>3, LandEffect
    <3> QED
      BY <1>1, <3>1, DocumentKeeps
  <2>4. CASE Reload
    <3>1. shown' = AfterReload
      BY <2>4 DEF Reload, AfterReload
    <3> QED
      BY <2>1, <3>1 DEF DiskKeeps
  <2>5. CASE \/ \E u \in Uuid : \/ Open(u) \/ Reselect(u) \/ Type(u) \/ Save(u) \/ Close(u) \/ Closed(u)
                                \/ Submit(u) \/ NotAccepted(u) \/ Accepted(u) \/ Forget(u)
                                \/ RestoreBegins(u) \/ RestoreMoves(u)
             \/ RestoreFails
    BY <1>1, <2>2, <2>5, Elsewhere
  <2>6. CASE Skip \/ Write \/ WriteFails \/ WriteUndone \/ UNCHANGED vars
    BY <1>1, <2>2, <2>6, SkipEffect, FailEffect DEF Write, WriteUndone, vars, store
  <2> QED
    BY <1>1, <2>3, <2>4, <2>5, <2>6 DEF Next, Store
<1> QED
  BY DraftsInvariance, <1>1, PTL DEF Spec, DraftsKept
=============================================================================
