--------------------------- MODULE PromptDelivery ----------------------------
(***************************************************************************)
(* How a prompt reaches Claude and how the answer comes back: the broker   *)
(* (composerBroker.ts), its file transport (claudeComposerAdapter.ts) and  *)
(* the hook inside Claude (media/attention/hooks/composer.js), for one     *)
(* session.                                                                *)
(*                                                                         *)
(* The broker puts a request into request.json and polls response.json;    *)
(* the hook polls request.json, fills Claude's input box with the draft    *)
(* and answers "prepared"; the broker then types the queue keys into the   *)
(* terminal; Claude offers the text to the hook, which lets it pass and    *)
(* answers "accepted".  Each of the three waits for the others for five    *)
(* seconds, a new conversation may begin in the middle, and the user shares *)
(* the input box.  Every submission carries the same draft, as those of a  *)
(* user do who sends again what did not get through.                       *)
(***************************************************************************)
EXTENDS Naturals, Sequences, FiniteSets

CONSTANTS
    Req,          \* submission ids
    Aux,          \* requests of the broker's other operations (a catalog, a read)
    None,         \* undefined
    MaxEpoch,     \* bound: starts of the hook, the first one included
    MaxTyped,     \* bound: edits of the input box by the user
    LateKeys      \* keys may reach Claude after their request has expired

ASSUME IdAssumption == Req \cap Aux = {} /\ None \notin Req \cup Aux /\ "other" \notin Req
ASSUME BoundAssumption == MaxEpoch \in Nat \ {0} /\ MaxTyped \in Nat /\ LateKeys \in BOOLEAN

VARIABLES
    bound,        \* broker: the session has a binding
    result,       \* broker: the outcome of each submission
    sending,      \* broker: the submission in progress (binding.pending)
    reading,      \* broker: the other operation in progress (catalog, draftOperation)
    exchange,     \* broker: the exchange of each request
    dispatched,   \* broker: the queue keys were written, or may have been
    chain,        \* transport: the requests waiting for the slot; the head owns it
    stage,        \* transport: where the head stands
    frame,        \* transport: the frame that ends the head's exchange
    request,      \* request.json
    response,     \* response.json
    keys,         \* queue keys on their way through the terminal
    box,          \* Claude's input box: empty, the draft of a submission, other text
    current,      \* Claude runs the conversation the hook was started for
    epoch,        \* hook: the latest start
    scope,        \* hook: the start whose binding is in force (0: none)
    rebinding,    \* hook: the start that is reading its binding (0: none)
    poll,         \* hook: the poll of each start
    pending,      \* hook: the submission that was prepared
    retired,      \* hook: the submission given up last
    seen,         \* hook: the requests read
    earlier,      \* hook: the submissions read before each request
    completed,    \* hook: the requests answered for good
    expired,      \* hook: the requests read more than five seconds ago
    event,        \* hook: the prompt.submit event being handled
    vouched,      \* taken while the hook waited for it (history)
    taken,        \* how often Claude took each submission (history)
    byKeys,       \* taken on the keys typed for it (history)
    overtaken,    \* a new start of the hook came while Claude took it (history)
    foreign,      \* submissions whose keys sent other text than a draft (history)
    crossed,      \* submissions whose keys something else came before (history)
    typed         \* edits by the user

broker == <<bound, result, sending, reading, exchange, dispatched>>
transport == <<chain, stage, frame>>
hook == <<epoch, scope, rebinding, poll, pending, retired, seen, earlier, completed, expired>>
history == <<vouched, taken, byKeys, overtaken, foreign, crossed>>
vars == <<broker, transport, request, response, keys, box, current, hook, event, history, typed>>

Ids == Req \cup Aux
Outcomes == {"accepted", "rejected", "unconfirmed"}
Texts == Req \cup {"other"}
Frames == [id : Ids, kind : Outcomes \cup {"prepared", "data"}]
Quiet == [text |-> None, owner |-> None, keys |-> None, step |-> "idle"]

ASSUME NoneAssumption == None \notin Outcomes \cup Texts \cup {"data"} /\ None \notin Frames

\* The submissions whose keys are on their way.
Coming(ks) == {ks[i] : i \in DOMAIN ks}

TypeOK ==
    /\ bound \in BOOLEAN /\ current \in BOOLEAN
    /\ result \in [Req -> {"none", "waiting"} \cup Outcomes]
    /\ sending \in Req \cup {None} /\ reading \in Aux \cup {None}
    /\ exchange \in [Ids -> {"none", "queued", "open", "over"}]
    /\ dispatched \subseteq Req
    /\ chain \in Seq(Ids)
    /\ stage \in {"start", "written", "cleared", "polling", "closing"}
    /\ frame \in Outcomes \cup {"data", None}
    /\ request \in Ids \cup {None}
    /\ response \in Frames \cup {None}
    /\ keys \in Seq(Req)
    /\ box \in Texts \cup {None}
    /\ epoch \in 1..MaxEpoch /\ scope \in 0..MaxEpoch /\ rebinding \in 0..MaxEpoch
    /\ poll \in [1..MaxEpoch -> [step : {"idle", "checking", "inspecting", "filling", "filled"},
                                 id : Ids \cup {None}]]
    /\ pending \in Req \cup {None} /\ retired \in Req \cup {None}
    /\ seen \subseteq Ids /\ completed \subseteq Ids /\ expired \subseteq Req
    /\ earlier \in [Ids -> SUBSET Req]
    /\ event \in {Quiet} \cup [text : Texts, owner : Req \cup {None}, keys : Req \cup {None},
                               step : {"checking", "accepting", "cancelling"}]
    /\ taken \in [Req -> 0..2]
    /\ vouched \subseteq Req /\ byKeys \subseteq Req /\ overtaken \subseteq Req
    /\ foreign \subseteq Req /\ crossed \subseteq Req
    /\ typed \in 0..MaxTyped

\* Claude has started, the hook has read its binding and nothing was sent yet.
Init ==
    /\ bound = TRUE
    /\ result = [q \in Req |-> "none"]
    /\ sending = None /\ reading = None
    /\ exchange = [id \in Ids |-> "none"]
    /\ dispatched = {}
    /\ chain = <<>> /\ stage = "start" /\ frame = None
    /\ request = None /\ response = None
    /\ keys = <<>>
    /\ box \in {None, "other"}
    /\ current = TRUE
    /\ epoch = 1 /\ scope = 1 /\ rebinding = 0
    /\ poll = [e \in 1..MaxEpoch |-> [step |-> "idle", id |-> None]]
    /\ pending = None /\ retired = None
    /\ seen = {} /\ completed = {} /\ expired = {}
    /\ earlier = [id \in Ids |-> {}]
    /\ event = Quiet
    /\ taken = [q \in Req |-> 0]
    /\ vouched = {} /\ byKeys = {} /\ overtaken = {} /\ foreign = {} /\ crossed = {}
    /\ typed = 0

----------------------------------------------------------------------------
(* The broker *)

\* exchange: the request joins the transport's chain, under a deadline.
Open(id) ==
    /\ exchange' = [exchange EXCEPT ![id] = "open"]
    /\ chain' = Append(chain, id)

\* submit: reserve, and wait for another operation if there is one.
Submit(q) ==
    /\ bound /\ sending = None
    /\ result[q] = "none"
    /\ sending' = q
    /\ result' = [result EXCEPT ![q] = "waiting"]
    /\ IF reading = None
       THEN Open(q)
       ELSE exchange' = [exchange EXCEPT ![q] = "queued"] /\ UNCHANGED chain
    /\ UNCHANGED <<bound, reading, dispatched, stage, frame, request, response, keys, box, current,
                   hook, event, history, typed>>

\* The end of a submission.
Conclude(q, outcome) ==
    /\ result' = [result EXCEPT ![q] = outcome]
    /\ sending' = None

\* The operation a submission waited for is over; its binding may be, too.
SubmitContinues(q) ==
    /\ exchange[q] = "queued"
    /\ reading = None
    /\ IF bound
       THEN Open(q) /\ UNCHANGED <<result, sending>>
       ELSE /\ Conclude(q, "rejected")
            /\ exchange' = [exchange EXCEPT ![q] = "over"]
            /\ UNCHANGED chain
    /\ UNCHANGED <<bound, reading, dispatched, stage, frame, request, response, keys, box, current,
                   hook, event, history, typed>>

\* listCommands, readDraft: not beside a submission or one another.
Inquire(a) ==
    /\ bound /\ sending = None /\ reading = None
    /\ exchange[a] = "none"
    /\ reading' = a
    /\ Open(a)
    /\ UNCHANGED <<bound, result, sending, dispatched, stage, frame, request, response, keys, box,
                   current, hook, event, history, typed>>

\* Mutation: an inquiry that failed keeps its place.
FailKeepingPlace(id) ==
    /\ exchange' = [exchange EXCEPT ![id] = "over"]
    /\ UNCHANGED reading
    /\ IF id \in Req
       THEN Conclude(id, IF id \in dispatched THEN "unconfirmed" ELSE "rejected")
       ELSE UNCHANGED <<result, sending>>

\* An exchange that ends without a valid frame: once the keys were written
\* nobody knows what became of the prompt (deliver's catch).
Fail(id) ==
    /\ exchange' = [exchange EXCEPT ![id] = "over"]
    /\ reading' = IF id \in Aux THEN None ELSE reading
    /\ IF id \in Req
       THEN Conclude(id, IF id \in dispatched THEN "unconfirmed" ELSE "rejected")
       ELSE UNCHANGED <<result, sending>>

\* An exchange whose frame has arrived (deliver, listCommands).
Settle(id) ==
    /\ exchange' = [exchange EXCEPT ![id] = "over"]
    /\ reading' = IF id \in Aux THEN None ELSE reading
    /\ IF id \in Req THEN Conclude(id, frame) ELSE UNCHANGED <<result, sending>>

\* The deadline passes: the broker gives up at once, the transport notices
\* when it looks at the signal again.
Timeout(id) ==
    /\ exchange[id] = "open"
    /\ Fail(id)
    /\ UNCHANGED <<bound, dispatched, transport, request, response, keys, box, current, hook, event,
                   history, typed>>

\* disposeSession: the exchange in progress is aborted, the transport closed.
Dispose ==
    /\ bound
    /\ bound' = FALSE
    /\ IF \E id \in Ids : exchange[id] = "open"
       THEN \E id \in Ids : exchange[id] = "open" /\ Fail(id)
       ELSE UNCHANGED <<exchange, reading, result, sending>>
    /\ UNCHANGED <<dispatched, transport, request, response, keys, box, current, hook, event,
                   history, typed>>

----------------------------------------------------------------------------
(* The file transport *)

\* The signal is aborted or the transport closed.
Abandoned(id) == exchange[id] # "open" \/ ~bound

\* perform, up to the temporary file.  A file operation that fails ends the
\* exchange, here and below.
PerformStart ==
    /\ chain # <<>> /\ stage = "start"
    /\ stage' \in {"closing"} \cup (IF Abandoned(Head(chain)) THEN {} ELSE {"written"})
    /\ UNCHANGED <<broker, chain, frame, request, response, keys, box, current, hook, event, history,
                   typed>>

\* The response of whoever had the slot before is removed.
PerformClear ==
    /\ stage = "written"
    /\ \/ stage' = "closing" /\ UNCHANGED response
       \/ ~Abandoned(Head(chain)) /\ stage' = "cleared" /\ response' = None
    /\ UNCHANGED <<broker, chain, frame, request, keys, box, current, hook, event, history, typed>>

\* The temporary file becomes request.json.
PerformPublish ==
    /\ stage = "cleared"
    /\ \/ request' = Head(chain) /\ stage' = "polling"
       \/ UNCHANGED request /\ stage' = "closing"
    /\ UNCHANGED <<broker, chain, frame, response, keys, box, current, hook, event, history, typed>>

\* The prepared frame of a submission: type the queue keys, once.  The session
\* may have stopped, in which case the write does nothing or fails.
PerformPrepared(q) ==
    /\ stage = "polling" /\ chain # <<>> /\ q = Head(chain)
    /\ ~Abandoned(q)
    /\ response = [id |-> q, kind |-> "prepared"]
    /\ q \notin dispatched
    /\ dispatched' = dispatched \cup {q}
    /\ keys' \in {keys, Append(keys, q)}
    /\ stage' \in {"polling", "closing"}
    /\ UNCHANGED <<bound, result, sending, reading, exchange, chain, frame, request, response, box,
                   current, hook, event, history, typed>>

\* Mutation: a frame is taken for the answer whoever it belongs to.
AnswersAny(id) == response # None /\ response.kind # "prepared"

\* Mutation: a prepared frame that was handled is taken for the answer.
AnswersPrepared(id) == response # None /\ response.id = id

\* Any other frame ends the exchange; those of other requests are skipped.
Answers(id) == response # None /\ response.id = id /\ response.kind # "prepared"

PerformAnswered ==
    /\ stage = "polling"
    /\ ~Abandoned(Head(chain))
    /\ Answers(Head(chain))
    /\ frame' = response.kind
    /\ stage' = "closing"
    /\ UNCHANGED <<broker, chain, request, response, keys, box, current, hook, event, history, typed>>

\* The exchange was given up, or reading the response failed.
PerformAbandoned ==
    /\ stage = "polling"
    /\ stage' = "closing"
    /\ UNCHANGED <<broker, chain, frame, request, response, keys, box, current, hook, event, history,
                   typed>>

\* perform's finally: both files are removed, if that works, then the
\* exchange's promise settles, unless the broker has long given up.
PerformEnd ==
    /\ stage = "closing"
    /\ LET id == Head(chain) IN
       /\ IF request = id
          THEN request' \in {request, None} /\ response' \in {response, None}
          ELSE UNCHANGED <<request, response>>
       /\ IF exchange[id] # "open"
          THEN UNCHANGED <<exchange, reading, result, sending>>
          ELSE IF frame # None /\ bound THEN Settle(id) ELSE Fail(id)
    /\ chain' = Tail(chain)
    /\ stage' = "start"
    /\ frame' = None
    /\ UNCHANGED <<bound, dispatched, keys, box, current, hook, event, history, typed>>

----------------------------------------------------------------------------
(* The hook: reading requests *)

\* reply: the last frame written is the one there is; a write that fails is
\* not tried again.
Reply(id, kind) == response' \in {response, [id |-> id, kind |-> kind]}

\* finish: the first outcome of a request is its only one.
Finish(id, outcome) ==
    /\ completed' = completed \cup {id}
    /\ pending' = IF id \notin completed /\ pending = id THEN None ELSE pending
    /\ IF id \in completed THEN UNCHANGED response ELSE Reply(id, outcome)

\* A submission that is over five seconds old is retired, and a retired one
\* that is over five seconds old is let go (guard).
GuardRetired ==
    LET last == IF pending # None /\ pending \in expired THEN pending ELSE retired
    IN  IF last \in expired THEN None ELSE last

GuardPending == IF pending \in expired THEN None ELSE pending

PollAt(e, step, id) == poll' = [poll EXCEPT ![e] = [step |-> step, id |-> id]]

PollEnd(e) == PollAt(e, "idle", None)

\* isCurrent, and no new start of the hook since.
StillCurrent(e) == current /\ epoch = e

\* Mutation: a request that is still in its file is read again.
PollRereads(e) ==
    /\ scope = e /\ epoch = e
    /\ poll[e].step = "idle"
    /\ pending = None
    /\ request # None
    /\ seen' = seen \cup {request}
    /\ earlier' = [earlier EXCEPT ![request] = (seen \cap Req) \ {request}]
    /\ completed' = completed \ {request}
    /\ retired' = GuardRetired
    /\ PollAt(e, "checking", request)
    /\ UNCHANGED <<broker, transport, request, response, keys, box, current, epoch, scope, rebinding,
                   pending, expired, event, history, typed>>

\* The request was read.  One submission at a time is prepared, and no
\* request is read twice.
PollRead(e) ==
    /\ scope = e /\ epoch = e
    /\ poll[e].step = "idle"
    /\ pending = None
    /\ request # None /\ request \notin seen
    /\ seen' = seen \cup {request}
    /\ earlier' = [earlier EXCEPT ![request] = seen \cap Req]
    /\ retired' = GuardRetired
    /\ PollAt(e, "checking", request)
    /\ UNCHANGED <<broker, transport, request, response, keys, box, current, epoch, scope, rebinding,
                   pending, completed, expired, event, history, typed>>

PollRejects(e) ==
    /\ Finish(poll[e].id, "rejected")
    /\ PollEnd(e)

\* Whose conversation it is; for a submission also the key bindings, which may
\* not be the ones the queue keys need.  A call that throws ends the poll
\* without an answer, here and below, and so does a catalog come too late.
PollCheck(e) ==
    /\ poll[e].step = "checking"
    /\ \/ PollRejects(e)
       \/ PollEnd(e) /\ UNCHANGED <<response, pending, completed>>
       \/ /\ StillCurrent(e)
          /\ poll[e].id \in Aux
          /\ Reply(poll[e].id, "data")
          /\ PollEnd(e)
          /\ UNCHANGED <<pending, completed>>
       \/ /\ StillCurrent(e)
          /\ poll[e].id \in Req
          /\ PollAt(e, "inspecting", poll[e].id)
          /\ UNCHANGED <<response, pending, completed>>
    /\ UNCHANGED <<broker, transport, request, keys, box, current, epoch, scope, rebinding, retired,
                   seen, earlier, expired, event, history, typed>>

\* The input box must be empty, and the conversation still the same.
PollInspect(e) ==
    /\ poll[e].step = "inspecting"
    /\ \/ /\ PollEnd(e)
          /\ UNCHANGED <<response, pending, completed>>
       \/ IF box # None \/ ~StillCurrent(e)
          THEN PollRejects(e)
          ELSE PollAt(e, "filling", poll[e].id) /\ UNCHANGED <<response, pending, completed>>
    /\ UNCHANGED <<broker, transport, request, keys, box, current, epoch, scope, rebinding, retired,
                   seen, earlier, expired, event, history, typed>>

\* Mutation: the box is filled without appending.
PollFillReplaces(e) ==
    /\ poll[e].step = "filling"
    /\ box' = poll[e].id
    /\ PollAt(e, "filled", poll[e].id)
    /\ UNCHANGED <<broker, transport, request, response, keys, current, epoch, scope, rebinding,
                   pending, retired, seen, earlier, completed, expired, event, history, typed>>

\* The draft is appended to whatever is in the box by now; a dialog refuses.
PollFill(e) ==
    /\ poll[e].step = "filling"
    /\ \/ PollRejects(e) /\ UNCHANGED box
       \/ /\ PollEnd(e)
          /\ box' \in {box} \cup (IF box = None THEN {poll[e].id} ELSE {"other"})
          /\ UNCHANGED <<response, pending, completed>>
       \/ box # None /\ box' = "other" /\ PollRejects(e)
       \/ /\ box = None
          /\ box' = poll[e].id
          /\ PollAt(e, "filled", poll[e].id)
          /\ UNCHANGED <<response, pending, completed>>
    /\ UNCHANGED <<broker, transport, request, keys, current, epoch, scope, rebinding, retired,
                   seen, earlier, expired, event, history, typed>>

\* Those that the retired one no longer answers for when another takes its place.
Displaced == IF retired = None THEN {} ELSE {retired} \cup Coming(keys)

\* The box holds the draft: the broker may type the keys.
PollPrepare(e) ==
    /\ poll[e].step = "filled"
    /\ IF StillCurrent(e)
       THEN /\ pending' = poll[e].id
            /\ Reply(poll[e].id, "prepared")
            /\ PollEnd(e)
            /\ UNCHANGED <<retired, completed, crossed>>
       ELSE /\ retired' = poll[e].id
            /\ crossed' = crossed \cup Displaced
            /\ PollRejects(e)
    /\ UNCHANGED <<broker, transport, request, keys, box, current, epoch, scope, rebinding, seen,
                   earlier, expired, event, vouched, taken, byKeys, overtaken, foreign, typed>>

\* Five seconds after a request was read.  The broker's deadline began before
\* and is over; its keys are in Claude by then unless the terminal was slow.
Expire(q) ==
    /\ q \in seen \ expired
    /\ earlier[q] \subseteq expired
    /\ exchange[q] # "open"
    /\ LateKeys \/ q \notin Coming(keys)
    /\ expired' = expired \cup {q}
    /\ UNCHANGED <<broker, transport, request, response, keys, box, current, epoch, scope, rebinding,
                   poll, pending, retired, seen, earlier, completed, event, history, typed>>

\* The timer set when the submission was prepared.
PrepareTimer ==
    /\ pending \in expired
    /\ retired' = pending
    /\ Finish(pending, "unconfirmed")
    /\ UNCHANGED <<broker, transport, request, keys, box, current, epoch, scope, rebinding, poll,
                   seen, earlier, expired, event, history, typed>>

----------------------------------------------------------------------------
(* The hook: another conversation *)

\* /clear, /resume and their like change the conversation, then start the hook.
Switch ==
    /\ epoch < MaxEpoch
    /\ current' = ~current
    /\ UNCHANGED <<broker, transport, request, response, keys, box, hook, event, history, typed>>

\* reset: the submission in progress is retired and rejected; after the end of
\* the session nothing is bound again.
Reset(ended) ==
    /\ epoch < MaxEpoch
    /\ epoch' = epoch + 1
    /\ scope' = 0
    /\ rebinding' = IF ended THEN 0 ELSE epoch'
    /\ overtaken' = IF event.step \in {"checking", "accepting"} /\ event.owner # None
                    THEN overtaken \cup {event.owner} ELSE overtaken
    /\ IF pending # None
       THEN retired' = pending /\ Finish(pending, "rejected")
       ELSE UNCHANGED <<retired, pending, completed, response>>
    /\ UNCHANGED <<broker, transport, request, keys, box, current, poll, seen, earlier, expired, event,
                   vouched, taken, byKeys, foreign, crossed, typed>>

\* The environment was read: bind, if this is still the session's conversation.
Rebind ==
    /\ rebinding # 0
    /\ scope' = IF current THEN rebinding ELSE 0
    /\ rebinding' = 0
    /\ UNCHANGED <<broker, transport, request, response, keys, box, current, epoch, poll, pending,
                   retired, seen, earlier, completed, expired, event, history, typed>>

----------------------------------------------------------------------------
(* The hook: what Claude submits *)

\* Claude takes what is in the box and asks the hook (prompt.submit): without
\* an owner the text passes; an owner that is not pending any more cancels.
PromptSubmit(whose) ==
    LET owner == IF GuardPending # None THEN GuardPending ELSE GuardRetired
        step == IF owner = None THEN "accepting"
                ELSE IF owner = GuardPending THEN "checking" ELSE "cancelling"
    IN  /\ box # None
        /\ event = Quiet
        /\ event' = [text |-> box, owner |-> owner, keys |-> whose, step |-> step]
        /\ box' = None
        /\ pending' = GuardPending
        /\ retired' = GuardRetired

\* The submissions whose keys are late now that the box is sent without them.
Overdue == ({pending, box} \cup Coming(keys')) \cap Req

\* The queue keys arrive; an empty box submits nothing.
KeysArrive ==
    /\ keys # <<>>
    /\ keys' = Tail(keys)
    /\ \/ /\ PromptSubmit(Head(keys))
          /\ crossed' = IF box = Head(keys) /\ Head(keys) \notin crossed THEN crossed
                        ELSE crossed \cup Overdue
       \/ box = None /\ UNCHANGED <<event, box, pending, retired, crossed>>
    /\ UNCHANGED <<broker, transport, request, response, current, epoch, scope, rebinding, poll,
                   seen, earlier, completed, expired, vouched, taken, byKeys, overtaken, foreign,
                   typed>>

\* The user presses Enter in the terminal.
Enter ==
    /\ PromptSubmit(None)
    /\ UNCHANGED keys
    /\ crossed' = crossed \cup Overdue
    /\ UNCHANGED <<broker, transport, request, response, current, epoch, scope, rebinding, poll,
                   seen, earlier, completed, expired, vouched, taken, byKeys, overtaken, foreign,
                   typed>>

\* The text is the draft of a submission.
IsDraft(text) == text \in Req

\* isCurrent has answered.
PromptChecked ==
    /\ event.step = "checking"
    /\ event' = [event EXCEPT !.step = IF current /\ IsDraft(event.text)
                                       THEN "accepting" ELSE "cancelling"]
    /\ UNCHANGED <<broker, transport, request, response, keys, box, current, hook, history, typed>>

\* The text goes back into the box, unless something or a dialog is there.
PromptCancelled ==
    /\ event.step = "cancelling"
    /\ box' \in {box} \cup (IF box = None THEN {event.text} ELSE {})
    /\ Finish(event.owner, "rejected")
    /\ event' = Quiet
    /\ UNCHANGED <<broker, transport, request, keys, current, epoch, scope, rebinding, poll, retired,
                   seen, earlier, expired, history, typed>>

\* next has returned the text: it is in Claude's queue.
PromptAccepted ==
    /\ event.step = "accepting"
    /\ IF event.text \in Req
       THEN /\ taken' = [taken EXCEPT ![event.text] = IF @ = 2 THEN 2 ELSE @ + 1]
            /\ byKeys' = IF event.keys = event.text THEN byKeys \cup {event.text} ELSE byKeys
            /\ vouched' = vouched \cup ({event.owner} \ {None})
            /\ UNCHANGED foreign
       ELSE /\ foreign' = foreign \cup ({event.keys} \ {None})
            /\ UNCHANGED <<vouched, taken, byKeys>>
    /\ IF event.owner # None
       THEN Finish(event.owner, "accepted")
       ELSE UNCHANGED <<pending, completed, response>>
    /\ event' = Quiet
    /\ UNCHANGED <<broker, transport, request, keys, box, current, epoch, scope, rebinding, poll,
                   retired, seen, earlier, expired, overtaken, crossed, typed>>

\* Another plugin drops the prompt, or fails on it.
PromptDropped ==
    /\ event.step = "accepting"
    /\ \/ event.owner # None /\ Finish(event.owner, "rejected")
       \/ UNCHANGED <<pending, completed, response>>
    /\ event' = Quiet
    /\ UNCHANGED <<broker, transport, request, keys, box, current, epoch, scope, rebinding, poll,
                   retired, seen, earlier, expired, history, typed>>

\* The user edits the input box, or empties it.
Edit ==
    /\ typed < MaxTyped
    /\ typed' = typed + 1
    /\ box' \in {None, "other"}
    /\ UNCHANGED <<broker, transport, request, response, keys, current, hook, event, history>>

----------------------------------------------------------------------------
PerformStep ==
    \/ PerformStart \/ PerformClear \/ PerformPublish \/ PerformAnswered \/ PerformAbandoned
    \/ PerformEnd
    \/ \E q \in Req : PerformPrepared(q)

PollStep(e) == PollRead(e) \/ PollCheck(e) \/ PollInspect(e) \/ PollFill(e) \/ PollPrepare(e)

PromptStep == PromptChecked \/ PromptCancelled \/ PromptAccepted \/ PromptDropped

Next ==
    \/ \E q \in Req : Submit(q) \/ SubmitContinues(q) \/ Expire(q)
    \/ \E a \in Aux : Inquire(a)
    \/ \E id \in Ids : Timeout(id)
    \/ Dispose
    \/ PerformStep
    \/ \E e \in 1..MaxEpoch : PollStep(e)
    \/ PrepareTimer
    \/ Switch \/ Rebind \/ \E ended \in BOOLEAN : Reset(ended)
    \/ KeysArrive \/ Enter \/ PromptStep
    \/ Edit

Spec == Init /\ [][Next]_vars

\* Deadlines pass and continuations run.  Nothing is assumed of the files, of
\* the hook or of Claude, which need never answer, nor of the user.
FairSpec ==
    /\ Spec
    /\ \A id \in Ids : WF_vars(Timeout(id))
    /\ \A q \in Req : WF_vars(SubmitContinues(q))

----------------------------------------------------------------------------
(* Safety *)

\* What the composer says of a submission is true.  Called accepted, and then
\* cleared from the draft, is only what Claude took on its behalf: no late
\* answer to another submission is read as this one's.  Called not sent is
\* nothing that the keys typed for it have sent, unless the hook was started anew
\* while Claude was taking it or something came before its keys (crossed): the
\* user's own Enter, another submission's keys, or the end of the poll of an
\* earlier start, which takes the place of the submission they belong to.
OutcomesTrue ==
    \A q \in Req :
        /\ result[q] = "accepted" => q \in vouched
        /\ q \in byKeys /\ result[q] = "rejected" => q \in overtaken \cup crossed

\* However polls, deadlines, late frames, new conversations and the user's own
\* Enter overlap, what the composer sends is its draft, once: Claude takes a
\* submission at most once (seen, completed), and text the user was typing into
\* the terminal is never sent by the composer's keys, unless something came
\* before them (crossed).
OnlyDraftsOnce ==
    /\ \A q \in Req : taken[q] <= 1
    /\ foreign \subseteq crossed

\* The composer never erases text of the user's: what was in the box stays
\* until the user edits it or it is submitted ("keep it").
NativeTextKept ==
    [][box = "other" /\ box' # "other" => typed' # typed \/ event'.text = "other"]_vars

----------------------------------------------------------------------------
(* Liveness *)

\* A submission gets an outcome, whatever became of the operation it waits
\* for, the slot, or Claude.
SubmissionSettles == \A q \in Req : result[q] = "waiting" ~> result[q] # "waiting"
=============================================================================
