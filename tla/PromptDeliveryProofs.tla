------------------------ MODULE PromptDeliveryProofs ------------------------
(***************************************************************************)
(* Proofs about PromptDelivery, for any submissions, starts of the hook    *)
(* and edits by the user: that Claude takes a submission at most once and  *)
(* what the composer says of it is true.  What concerns the queue keys     *)
(* assumes that they reach Claude within five seconds.                     *)
(***************************************************************************)
EXTENDS PromptDelivery, TLAPS

Starts == 1..MaxEpoch

----------------------------------------------------------------------------
(* The inductive invariant *)

\* The transport: who has the slot, and whose its files are.  A request that
\* was read and may still be answered is the one that has the slot.
Opened(id) == exchange[id] \in {"open", "over"}

Slot ==
    /\ stage # "start" => chain # <<>>
    /\ frame # None => stage = "closing"
    /\ frame = "data" => Head(chain) \in Aux
    /\ \A i \in DOMAIN chain : Opened(chain[i])
    /\ request # None => Opened(request)
    /\ request # None /\ exchange[request] = "open" =>
          Head(chain) = request /\ stage \in {"polling", "closing"}
    /\ \A id \in seen : Opened(id) /\ (exchange[id] = "open" => request = id)

Results ==
    /\ \A q \in Req : result[q] = "none" <=> exchange[q] = "none"
    /\ \A q \in Req : result[q] \in Outcomes => exchange[q] = "over"
    /\ \A a \in Aux : exchange[a] # "queued"

Replies ==
    response # None =>
        /\ response.id \in seen
        /\ response.kind = "data" => response.id \in Aux
        /\ response.kind = "prepared" => response.id \in Req

\* The draft of a submission is in one place: with the poll that has read the
\* request, in the box, in the event, or taken.
Drafting(e, q) == poll[e].step \in {"checking", "inspecting", "filling"} /\ poll[e].id = q

Drafts ==
    \A q \in Req :
        /\ taken[q] <= 1
        /\ taken[q] = 1 => event.text # q /\ box # q /\ \A e \in Starts : ~Drafting(e, q)
        /\ event.text = q => box # q /\ \A e \in Starts : ~Drafting(e, q)
        /\ box = q => \A e \in Starts : ~Drafting(e, q)
        /\ q \notin seen => taken[q] = 0 /\ event.text # q /\ box # q

\* A request is read by one poll, and before anything else is done with it.
Fresh(id) ==
    /\ id \in seen \ dispatched /\ id \notin completed
    /\ pending # id /\ retired # id /\ event.owner # id
    /\ response # [id |-> id, kind |-> "prepared"]

Polls ==
    /\ \A e \in Starts :
        /\ poll[e].step = "idle" <=> poll[e].id = None
        /\ poll[e].id \in Aux => poll[e].step = "checking"
        /\ e > epoch => poll[e].id = None
        /\ poll[e].id # None => Fresh(poll[e].id)
    /\ \A e, f \in Starts : poll[e].id # None /\ poll[e].id = poll[f].id => e = f

\* Nothing is done with a request that was not read.
Read ==
    /\ pending # None => pending \in seen \ completed
    /\ retired # None => retired \in seen
    /\ event.owner # None => event.owner \in seen
    /\ completed \subseteq seen /\ dispatched \subseteq seen /\ expired \subseteq seen
    /\ Coming(keys) \subseteq dispatched
    /\ event.keys # None => event.keys \in dispatched \ Coming(keys)
    /\ event.step \in {"checking", "cancelling"} => event.owner # None

\* The order in which requests are read is one, and they expire in it.
Order ==
    /\ \A q \in expired : exchange[q] # "open" /\ earlier[q] \subseteq expired
    /\ \A id \in Ids : earlier[id] \subseteq seen \ {id}
    /\ \A p, q \in Req : q \in earlier[p] => p \notin earlier[q]

\* The keys of a submission may be typed any time.
Ready(q) ==
    /\ q \notin dispatched /\ exchange[q] = "open"
    /\ response = [id |-> q, kind |-> "prepared"]

NotBefore(o, q) == o \in Req /\ (o = q \/ q \in earlier[o])

\* Keys are typed in the order of their requests, and whoever is ready was
\* read last.
Queue ==
    /\ \A i, j \in DOMAIN keys : i < j => keys[i] \in earlier[keys[j]]
    /\ \A k \in Coming(keys) :
        /\ poll[epoch].id # None => k \in earlier[poll[epoch].id]
        /\ pending # None => NotBefore(pending, k)
    /\ \A q \in Req : Ready(q) =>
        /\ poll[epoch].id = None /\ pending \in {None, q}
        /\ Coming(keys) \subseteq earlier[q]

\* A submission that nothing came before keeps its turn: what Claude is taking is
\* done with; what is in the box with its keys on their way is nobody else's; and
\* an owner that is pending has its keys behind it.
TurnTaken ==
    \A q \in Req \ crossed : event.text = q =>
        q \notin Coming(keys) /\ ~Ready(q) /\ \A e \in Starts : poll[e].id # q

TurnHeld ==
    \A k \in Coming(keys) \ crossed :
        box = k => pending \in {None, k} /\ poll[epoch].step # "filled"

TurnOwned ==
    event.owner # None /\ event.owner = pending =>
        Coming(keys) \subseteq crossed /\ pending \in dispatched \cup crossed

Turns == TurnTaken /\ TurnHeld /\ TurnOwned

\* What the hook and the broker have said.
Denied(q) ==
    \/ result[q] = "rejected" /\ q \in dispatched
    \/ response = [id |-> q, kind |-> "rejected"]
    \/ frame = "rejected" /\ Head(chain) = q

Accepted ==
    /\ response # None /\ response.kind = "accepted" => response.id \in vouched
    /\ frame = "accepted" => Head(chain) \in vouched
    /\ \A q \in Req : result[q] = "accepted" => q \in vouched

Accepting == event.step = "accepting" /\ event.owner # None => event.text \in Req

Rejected == \A q \in Req : Denied(q) => q \in completed

KeysSent == \A q \in byKeys : q \in dispatched /\ taken[q] # 0

Said == Accepted /\ Accepting /\ Rejected /\ KeysSent

IInv ==
    /\ TypeOK /\ Slot /\ Results /\ Replies /\ Drafts /\ Polls /\ Read /\ Order /\ Queue /\ Turns
    /\ Said

\* With keys that are in time: those on their way find a submission that owns
\* them, and none of the user's text, nor a draft that was called not sent, is
\* about to be taken on them.
Unexpired == Coming(keys) \cap expired = {}

Known == \A q \in Req \ crossed : Ready(q) => q \in {pending, retired}

Owned == \A k \in Coming(keys) \ crossed : NotBefore(pending, k) \/ NotBefore(retired, k)

NotForeign ==
    /\ foreign \subseteq crossed
    /\ event.step = "accepting" /\ event.text \notin Req /\ event.keys # None =>
          event.keys \in crossed

OwnKeys ==
    \A q \in Req \ (crossed \cup overtaken) :
        event.step \in {"checking", "accepting"} /\ event.keys = q /\ event.text = q =>
            event.owner = q /\ ~Denied(q)

NotDenied ==
    \A q \in byKeys : q \in crossed \cup overtaken \/ (q \in completed /\ ~Denied(q))

InTime == Unexpired /\ Known /\ Owned /\ NotForeign /\ OwnKeys /\ NotDenied

----------------------------------------------------------------------------
(* Keys on their way *)

\* No keys are on their way through an empty line.
LEMMA NoneComing == Coming(<<>>) = {}
BY DEF Coming

\* What is on its way are submissions.
LEMMA ComingType ==
    ASSUME NEW S, NEW ks \in Seq(S)
    PROVE  Coming(ks) \subseteq S
BY DEF Coming

\* Keys sent after the others are on their way with them.
LEMMA ComingMore ==
    ASSUME NEW S, NEW ks \in Seq(S), NEW k \in S
    PROVE  Coming(Append(ks, k)) = Coming(ks) \cup {k}
<1>1. Append(ks, k) \in Seq(S) /\ Len(Append(ks, k)) = Len(ks) + 1
  OBVIOUS
<1>2. \A i \in 1..Len(ks) : Append(ks, k)[i] = ks[i]
  OBVIOUS
<1>3. Append(ks, k)[Len(ks) + 1] = k
  OBVIOUS
<1>4. DOMAIN Append(ks, k) = 1..(Len(ks) + 1) /\ DOMAIN ks = 1..Len(ks) /\ Len(ks) \in Nat
  OBVIOUS
<1>5. ASSUME NEW x \in Coming(Append(ks, k))
      PROVE  x \in Coming(ks) \cup {k}
  BY <1>2, <1>3, <1>4 DEF Coming
<1>6. ASSUME NEW x \in Coming(ks) \cup {k}
      PROVE  x \in Coming(Append(ks, k))
  <2>1. CASE x = k
    <3>1. Len(ks) + 1 \in DOMAIN Append(ks, k)
      BY <1>4
    <3> QED
      BY <2>1, <3>1, <1>3 DEF Coming
  <2>2. CASE x \in Coming(ks)
    <3>1. PICK i \in DOMAIN ks : x = ks[i]
      BY <2>2 DEF Coming
    <3>2. i \in DOMAIN Append(ks, k) /\ Append(ks, k)[i] = x
      BY <3>1, <1>2, <1>4
    <3> QED
      BY <3>2 DEF Coming
  <2> QED
    BY <1>6, <2>1, <2>2
<1> QED
  BY <1>5, <1>6

\* The first keys of the line come first; the rest keep their places.
LEMMA ComingLess ==
    ASSUME NEW S, NEW ks \in Seq(S), ks # <<>>
    PROVE  /\ Coming(ks) = {Head(ks)} \cup Coming(Tail(ks))
           /\ Tail(ks) \in Seq(S) /\ Head(ks) \in S
           /\ Head(ks) = ks[1] /\ 1 \in DOMAIN ks
           /\ \A i \in DOMAIN Tail(ks) : i + 1 \in DOMAIN ks /\ Tail(ks)[i] = ks[i + 1]
<1>1. /\ Tail(ks) \in Seq(S) /\ Head(ks) \in S /\ Head(ks) = ks[1]
      /\ Len(ks) \in Nat \ {0} /\ Len(Tail(ks)) = Len(ks) - 1
      /\ DOMAIN ks = 1..Len(ks) /\ DOMAIN Tail(ks) = 1..(Len(ks) - 1)
  OBVIOUS
<1>2. \A i \in 1..(Len(ks) - 1) : Tail(ks)[i] = ks[i + 1]
  OBVIOUS
<1>3. ASSUME NEW x \in Coming(ks)
      PROVE  x \in {Head(ks)} \cup Coming(Tail(ks))
  <2>1. PICK i \in DOMAIN ks : x = ks[i]
    BY DEF Coming
  <2>2. CASE i = 1
    BY <2>1, <2>2, <1>1
  <2>3. CASE i # 1
    <3>1. i - 1 \in DOMAIN Tail(ks) /\ Tail(ks)[i - 1] = x
      BY <2>1, <2>3, <1>1, <1>2
    <3> QED
      BY <3>1 DEF Coming
  <2> QED
    BY <2>2, <2>3
<1>4. ASSUME NEW x \in Coming(Tail(ks))
      PROVE  x \in Coming(ks)
  <2>1. PICK i \in DOMAIN Tail(ks) : x = Tail(ks)[i]
    BY DEF Coming
  <2>2. i + 1 \in DOMAIN ks /\ ks[i + 1] = x
    BY <2>1, <1>1, <1>2
  <2> QED
    BY <2>2 DEF Coming
<1>5. Head(ks) \in Coming(ks)
  BY <1>1 DEF Coming
<1> QED
  BY <1>1, <1>2, <1>3, <1>4, <1>5

\* An event is quiet or is about a text.
LEMMA EventType ==
    ASSUME TypeOK
    PROVE  /\ event.text \in Texts \cup {None} /\ event.owner \in Req \cup {None}
           /\ event.keys \in Req \cup {None}
           /\ event.step \in {"idle", "checking", "accepting", "cancelling"}
           /\ event.step = "idle" <=> event = Quiet
           /\ event.step = "idle" => event.text = None /\ event.owner = None /\ event.keys = None
           /\ event.step # "idle" => event.text # None
BY NoneAssumption DEF TypeOK, Quiet

----------------------------------------------------------------------------
(* Types, part by part *)

BrokerType ==
    /\ bound \in BOOLEAN
    /\ result \in [Req -> {"none", "waiting"} \cup Outcomes]
    /\ sending \in Req \cup {None} /\ reading \in Aux \cup {None}
    /\ exchange \in [Ids -> {"none", "queued", "open", "over"}]
    /\ dispatched \subseteq Req

SlotType ==
    /\ chain \in Seq(Ids)
    /\ stage \in {"start", "written", "cleared", "polling", "closing"}
    /\ frame \in Outcomes \cup {"data", None}
    /\ request \in Ids \cup {None}

PollType ==
    /\ epoch \in 1..MaxEpoch /\ scope \in 0..MaxEpoch /\ rebinding \in 0..MaxEpoch
    /\ poll \in [1..MaxEpoch -> [step : {"idle", "checking", "inspecting", "filling", "filled"},
                                 id : Ids \cup {None}]]
    /\ seen \subseteq Ids /\ expired \subseteq Req
    /\ earlier \in [Ids -> SUBSET Req]

OwnerType ==
    /\ response \in Frames \cup {None}
    /\ pending \in Req \cup {None} /\ retired \in Req \cup {None}
    /\ completed \subseteq Ids

BoxType ==
    /\ current \in BOOLEAN
    /\ keys \in Seq(Req)
    /\ box \in Texts \cup {None}
    /\ event \in {Quiet} \cup [text : Texts, owner : Req \cup {None}, keys : Req \cup {None},
                               step : {"checking", "accepting", "cancelling"}]
    /\ typed \in 0..MaxTyped

HistoryType ==
    /\ taken \in [Req -> 0..2]
    /\ vouched \subseteq Req /\ byKeys \subseteq Req /\ overtaken \subseteq Req
    /\ foreign \subseteq Req /\ crossed \subseteq Req

\* The types, by the part of the system whose state they are of.
LEMMA Parts ==
    TypeOK <=> /\ BrokerType /\ SlotType /\ PollType /\ OwnerType /\ BoxType /\ HistoryType
BY DEF TypeOK, BrokerType, SlotType, PollType, OwnerType, BoxType, HistoryType

\* The same of the next state.
LEMMA PartsNext ==
    /\ BrokerType' /\ SlotType' /\ PollType' /\ OwnerType' /\ BoxType' /\ HistoryType'
    => TypeOK'
BY DEF TypeOK, BrokerType, SlotType, PollType, OwnerType, BoxType, HistoryType

\* What the hook's operations may write.
LEMMA FinishType ==
    ASSUME OwnerType, NEW id \in Ids, NEW o \in Outcomes, Finish(id, o)
    PROVE  /\ response' \in Frames \cup {None}
           /\ pending' \in {pending, None} /\ completed' = completed \cup {id}
<1>1. [id |-> id, kind |-> o] \in Frames
  BY DEF Frames
<1> QED
  BY <1>1 DEF OwnerType, Finish, Reply

\* A reply is a frame.
LEMMA ReplyType ==
    ASSUME OwnerType, NEW id \in Ids, NEW kind \in Outcomes \cup {"prepared", "data"},
           Reply(id, kind)
    PROVE  response' \in Frames \cup {None}
<1>1. [id |-> id, kind |-> kind] \in Frames
  BY DEF Frames
<1> QED
  BY <1>1 DEF OwnerType, Reply

\* A poll that is not idle has an id; one that inspects or fills the box, a request.
LEMMA PollIds ==
    ASSUME PollType, Polls, NEW e \in Starts
    PROVE  /\ poll[e].id \in Ids \cup {None}
           /\ poll[e].step # "idle" => poll[e].id \in Ids
           /\ poll[e].step \in {"inspecting", "filling", "filled"} => poll[e].id \in Req
BY DEF PollType, Polls, Starts, Ids

\* The broker's.
LEMMA BrokerTypes ==
    ASSUME TypeOK, Slot, Results, Replies, Polls, Read, [Next]_vars
    PROVE  BrokerType'
<1> USE Parts, IdAssumption, BoundAssumption, NoneAssumption DEF Ids, Starts
<1>0. ASSUME UNCHANGED <<bound, result, sending, reading, exchange, dispatched>>
      PROVE  BrokerType'
  BY <1>0 DEF BrokerType
<1>1. CASE \/ \E q \in Req : Expire(q)
           \/ PerformStart \/ PerformClear \/ PerformPublish \/ PerformAnswered
           \/ PerformAbandoned
           \/ \E e \in Starts : PollRead(e) \/ PollCheck(e)
  BY <1>1, <1>0
     DEF Expire, PerformStart, PerformClear, PerformPublish, PerformAnswered, PerformAbandoned,
         PollRead, PollCheck, broker, transport, hook, history
<1>2. CASE \/ \E e \in Starts : PollInspect(e) \/ PollFill(e) \/ PollPrepare(e)
           \/ PrepareTimer \/ Switch \/ Rebind \/ KeysArrive
           \/ \E ended \in BOOLEAN : Reset(ended)
  BY <1>2, <1>0
     DEF PollInspect, PollFill, PollPrepare, PrepareTimer, Switch, Rebind, Reset, KeysArrive,
         broker, transport, hook, history
<1>3. CASE \/ Enter \/ PromptChecked \/ PromptCancelled \/ PromptAccepted
           \/ PromptDropped \/ Edit
  BY <1>3, <1>0
     DEF Enter, PromptChecked, PromptCancelled, PromptAccepted, PromptDropped, Edit, broker,
         transport, hook, history
<1>4. ASSUME NEW q \in Req, Submit(q)
      PROVE  BrokerType'
  BY <1>4 DEF Submit, Open, BrokerType
<1>5. ASSUME NEW q \in Req, SubmitContinues(q)
      PROVE  BrokerType'
  <2>1. CASE bound
    BY <1>5, <2>1 DEF SubmitContinues, Open, BrokerType
  <2>2. CASE ~bound
    BY <1>5, <2>2 DEF SubmitContinues, Conclude, BrokerType, Outcomes
  <2> QED
    BY <2>1, <2>2
<1>6. ASSUME NEW a \in Aux, Inquire(a)
      PROVE  BrokerType'
  BY <1>6 DEF Inquire, Open, hook, history, BrokerType
<1>7. ASSUME NEW id \in Ids, Timeout(id)
      PROVE  BrokerType'
  BY <1>7 DEF Timeout, Fail, Conclude, BrokerType, Outcomes
<1>8. CASE Dispose
  BY <1>8 DEF Dispose, Fail, Conclude, BrokerType, Outcomes
<1>9. ASSUME NEW q \in Req, PerformPrepared(q)
      PROVE  BrokerType'
  BY <1>9 DEF PerformPrepared, Abandoned, hook, history, BrokerType
<1>10. CASE PerformEnd
  <2> DEFINE id == Head(chain)
  <2>1. id \in Ids
    BY <1>10 DEF PerformEnd, Slot, SlotType
  <2>2. CASE exchange[id] # "open"
    BY <1>10, <2>2 DEF PerformEnd, BrokerType
  <2>3. CASE exchange[id] = "open" /\ frame # None /\ bound
    <3>1. id \in Req => frame \in Outcomes
      BY <2>3 DEF Slot, SlotType
    <3>2. Settle(id) /\ UNCHANGED <<bound, dispatched>>
      BY <1>10, <2>3 DEF PerformEnd
    <3> HIDE DEF id
    <3> QED
      BY <2>1, <3>1, <3>2 DEF Settle, Conclude, BrokerType
  <2>4. CASE exchange[id] = "open" /\ ~(frame # None /\ bound)
    <3>1. Fail(id) /\ UNCHANGED <<bound, dispatched>>
      BY <1>10, <2>4 DEF PerformEnd
    <3> HIDE DEF id
    <3> QED
      BY <2>1, <3>1 DEF Fail, Conclude, BrokerType, Outcomes
  <2> QED
    BY <2>2, <2>3, <2>4
<1>11. CASE UNCHANGED vars
  BY <1>11, <1>0 DEF vars, broker, transport, hook, history
<1> QED
  BY <1>1, <1>2, <1>3, <1>4, <1>5, <1>6, <1>7, <1>8, <1>9, <1>10, <1>11
     DEF Next, PerformStep, PollStep, PromptStep, Starts

\* The slot's.
LEMMA SlotTypes ==
    ASSUME TypeOK, Slot, Results, Replies, Polls, Read, [Next]_vars
    PROVE  SlotType'
<1> USE Parts, IdAssumption, BoundAssumption, NoneAssumption DEF Ids, Starts
<1>0. ASSUME UNCHANGED <<chain, stage, frame, request>>
      PROVE  SlotType'
  BY <1>0 DEF SlotType
<1>1. CASE \/ \E q \in Req : Expire(q)
           \/ \E id \in Ids : Timeout(id)
           \/ Dispose
           \/ \E e \in Starts : PollRead(e) \/ PollCheck(e) \/ PollInspect(e)
              \/ PollFill(e) \/ PollPrepare(e)
  BY <1>1, <1>0
     DEF Expire, Timeout, Dispose, PollRead, PollCheck, PollInspect, PollFill, PollPrepare,
         broker, transport, hook, history
<1>2. CASE \/ PrepareTimer \/ Switch \/ Rebind \/ KeysArrive \/ Enter \/ PromptChecked
           \/ PromptCancelled
           \/ \E ended \in BOOLEAN : Reset(ended)
  BY <1>2, <1>0
     DEF PrepareTimer, Switch, Rebind, Reset, KeysArrive, Enter, PromptChecked, PromptCancelled,
         broker, transport, hook, history
<1>3. CASE \/ PromptAccepted \/ PromptDropped \/ Edit
  BY <1>3, <1>0 DEF PromptAccepted, PromptDropped, Edit, broker, transport, hook, history
<1>4. ASSUME NEW q \in Req, Submit(q)
      PROVE  SlotType'
  BY <1>4 DEF Submit, Open, hook, history, SlotType
<1>5. ASSUME NEW q \in Req, SubmitContinues(q)
      PROVE  SlotType'
  BY <1>5 DEF SubmitContinues, Open, Conclude, hook, history, SlotType
<1>6. ASSUME NEW a \in Aux, Inquire(a)
      PROVE  SlotType'
  BY <1>6 DEF Inquire, Open, hook, history, SlotType
<1>7. CASE PerformStart
  BY <1>7 DEF PerformStart, Abandoned, broker, hook, history, SlotType
<1>8. CASE PerformClear
  BY <1>8 DEF PerformClear, Abandoned, broker, hook, history, SlotType
<1>9. CASE PerformPublish
  <2>1. Head(chain) \in Ids
    BY <1>9 DEF PerformPublish, Slot, SlotType
  <2> QED
    BY <1>9, <2>1 DEF PerformPublish, SlotType, broker
<1>10. ASSUME NEW q \in Req, PerformPrepared(q)
      PROVE  SlotType'
  BY <1>10 DEF PerformPrepared, Abandoned, hook, history, SlotType
<1>11. CASE PerformAnswered
  <2>1. response.kind \in Outcomes \cup {"data"}
    BY <1>11 DEF PerformAnswered, Answers, OwnerType, Frames
  <2> QED
    BY <1>11, <2>1 DEF PerformAnswered, SlotType, broker
<1>12. CASE PerformAbandoned
  BY <1>12 DEF PerformAbandoned, broker, hook, history, SlotType
<1>13. CASE PerformEnd
  <2>1. chain # <<>> /\ Tail(chain) \in Seq(Ids)
    BY <1>13 DEF PerformEnd, Slot, SlotType
  <2> QED
    BY <1>13, <2>1 DEF PerformEnd, SlotType
<1>14. CASE UNCHANGED vars
  BY <1>14, <1>0 DEF vars, broker, transport, hook, history
<1> QED
  BY <1>1, <1>2, <1>3, <1>4, <1>5, <1>6, <1>7, <1>8, <1>9, <1>10, <1>11, <1>12, <1>13, <1>14
     DEF Next, PerformStep, PollStep, PromptStep, Starts

\* The polls'.
LEMMA PollTypes ==
    ASSUME TypeOK, Slot, Results, Replies, Polls, Read, [Next]_vars
    PROVE  PollType'
<1> USE Parts, IdAssumption, BoundAssumption, NoneAssumption DEF Ids, Starts
<1>0. ASSUME UNCHANGED <<epoch, scope, rebinding, poll, seen, expired, earlier>>
      PROVE  PollType'
  BY <1>0 DEF PollType
<1>1. CASE \/ \E q \in Req : Submit(q) \/ SubmitContinues(q)
           \/ \E a \in Aux : Inquire(a)
           \/ \E id \in Ids : Timeout(id)
           \/ Dispose \/ PerformStart \/ PerformClear \/ PerformPublish
  BY <1>1, <1>0
     DEF Submit, SubmitContinues, Inquire, Timeout, Dispose, PerformStart, PerformClear,
         PerformPublish, broker, transport, hook, history
<1>2. CASE \/ \E q \in Req : PerformPrepared(q)
           \/ PerformAnswered \/ PerformAbandoned \/ PerformEnd \/ PrepareTimer \/ Switch
           \/ KeysArrive \/ Enter
  BY <1>2, <1>0
     DEF PerformPrepared, PerformAnswered, PerformAbandoned, PerformEnd, PrepareTimer, Switch,
         KeysArrive, Enter, broker, transport, hook, history
<1>3. CASE \/ PromptChecked \/ PromptCancelled \/ PromptAccepted \/ PromptDropped \/ Edit
  BY <1>3, <1>0
     DEF PromptChecked, PromptCancelled, PromptAccepted, PromptDropped, Edit, broker, transport,
         hook, history
<1>4. ASSUME NEW q \in Req, Expire(q)
      PROVE  PollType'
  BY <1>4 DEF Expire, broker, transport, history, PollType
<1>5. ASSUME NEW e \in Starts, PollRead(e)
      PROVE  PollType'
  BY <1>5 DEF PollRead, PollAt, SlotType, PollType
<1>6. ASSUME NEW e \in Starts, PollCheck(e)
      PROVE  PollType'
  BY <1>6
     DEF PollCheck, PollRejects, PollEnd, PollAt, Finish, Reply, StillCurrent, broker, transport,
         history, PollType
<1>7. ASSUME NEW e \in Starts, PollInspect(e)
      PROVE  PollType'
  BY <1>7
     DEF PollInspect, PollRejects, PollEnd, PollAt, Finish, Reply, StillCurrent, broker,
         transport, history, PollType
<1>8. ASSUME NEW e \in Starts, PollFill(e)
      PROVE  PollType'
  <2>1. poll[e].id \in Ids
    BY <1>8, PollIds DEF PollFill
  <2>2. poll' = [poll EXCEPT ![e] = [step |-> "idle", id |-> None]]
        \/ poll' = [poll EXCEPT ![e] = [step |-> "filled", id |-> poll[e].id]]
    BY <1>8 DEF PollFill, PollRejects, PollEnd, PollAt
  <2> QED
    BY <1>8, <2>1, <2>2, SMTT(30) DEF PollFill, PollType
<1>9. ASSUME NEW e \in Starts, PollPrepare(e)
      PROVE  PollType'
  BY <1>9
     DEF PollPrepare, PollRejects, PollEnd, PollAt, Finish, Reply, StillCurrent, Displaced,
         broker, transport, PollType
<1>10. CASE Rebind
  BY <1>10 DEF Rebind, broker, transport, history, PollType
<1>11. ASSUME NEW ended \in BOOLEAN, Reset(ended)
      PROVE  PollType'
  BY <1>11 DEF Reset, Finish, Reply, broker, transport, PollType
<1>12. CASE UNCHANGED vars
  BY <1>12, <1>0 DEF vars, broker, transport, hook, history
<1> QED
  BY <1>1, <1>2, <1>3, <1>4, <1>5, <1>6, <1>7, <1>8, <1>9, <1>10, <1>11, <1>12
     DEF Next, PerformStep, PollStep, PromptStep, Starts

\* The owners'.
LEMMA OwnerTypes ==
    ASSUME TypeOK, Slot, Results, Replies, Polls, Read, [Next]_vars
    PROVE  OwnerType'
<1> USE Parts, IdAssumption, BoundAssumption, NoneAssumption DEF Ids, Starts
<1>0. ASSUME UNCHANGED <<response, pending, retired, completed>>
      PROVE  OwnerType'
  BY <1>0 DEF OwnerType
<1>1. CASE \/ \E q \in Req : Submit(q) \/ SubmitContinues(q) \/ Expire(q)
           \/ \E a \in Aux : Inquire(a)
           \/ \E id \in Ids : Timeout(id)
           \/ Dispose \/ PerformStart \/ PerformPublish
  BY <1>1, <1>0
     DEF Submit, SubmitContinues, Expire, Inquire, Timeout, Dispose, PerformStart, PerformPublish,
         broker, transport, hook, history
<1>2. CASE \/ \E q \in Req : PerformPrepared(q)
           \/ PerformAnswered \/ PerformAbandoned \/ Switch \/ Rebind \/ PromptChecked
           \/ Edit
  BY <1>2, <1>0
     DEF PerformPrepared, PerformAnswered, PerformAbandoned, Switch, Rebind, PromptChecked, Edit,
         broker, transport, hook, history
<1>3. CASE PerformClear
  BY <1>3 DEF PerformClear, Abandoned, broker, hook, history, OwnerType
<1>4. CASE PerformEnd
  BY <1>4 DEF PerformEnd, OwnerType, hook
<1>5. ASSUME NEW e \in Starts, PollRead(e)
      PROVE  OwnerType'
  BY <1>5 DEF PollRead, PollAt, GuardRetired, broker, transport, history, OwnerType
<1>6. ASSUME NEW e \in Starts, PollCheck(e)
      PROVE  OwnerType'
  <2>1. poll[e].id \in Ids
    BY <1>6, PollIds DEF PollCheck
  <2>2. CASE PollRejects(e)
    BY <1>6, <2>1, <2>2, FinishType DEF PollCheck, PollRejects, OwnerType, Outcomes
  <2>3. CASE UNCHANGED <<response, pending, completed>>
    BY <1>6, <2>3 DEF PollCheck, OwnerType
  <2>4. CASE Reply(poll[e].id, "data") /\ UNCHANGED <<pending, completed>>
    BY <1>6, <2>1, <2>4, ReplyType DEF PollCheck, OwnerType
  <2> QED
    BY <1>6, <2>2, <2>3, <2>4 DEF PollCheck
<1>7. ASSUME NEW e \in Starts, PollInspect(e)
      PROVE  OwnerType'
  <2>1. poll[e].id \in Ids
    BY <1>7, PollIds DEF PollInspect
  <2>2. CASE PollRejects(e)
    BY <1>7, <2>1, <2>2, FinishType DEF PollInspect, PollRejects, OwnerType, Outcomes
  <2>3. CASE UNCHANGED <<response, pending, completed>>
    BY <1>7, <2>3 DEF PollInspect, OwnerType
  <2> QED
    BY <1>7, <2>2, <2>3 DEF PollInspect
<1>8. ASSUME NEW e \in Starts, PollFill(e)
      PROVE  OwnerType'
  <2>1. poll[e].id \in Ids
    BY <1>8, PollIds DEF PollFill
  <2>2. CASE PollRejects(e)
    BY <1>8, <2>1, <2>2, FinishType DEF PollFill, PollRejects, OwnerType, Outcomes
  <2>3. CASE UNCHANGED <<response, pending, completed>>
    BY <1>8, <2>3 DEF PollFill, OwnerType
  <2> QED
    BY <1>8, <2>2, <2>3 DEF PollFill
<1>9. ASSUME NEW e \in Starts, PollPrepare(e)
      PROVE  OwnerType'
  <2>1. poll[e].id \in Req /\ poll[e].id \in Ids
    BY <1>9, PollIds DEF PollPrepare
  <2>2. CASE StillCurrent(e)
    BY <1>9, <2>1, <2>2, ReplyType DEF PollPrepare, OwnerType
  <2>3. CASE ~StillCurrent(e)
    BY <1>9, <2>1, <2>3, FinishType DEF PollPrepare, PollRejects, OwnerType, Outcomes
  <2> QED
    BY <2>2, <2>3
<1>10. CASE PrepareTimer
  <2>1. pending \in Req
    BY <1>10 DEF PrepareTimer, PollType
  <2> QED
    BY <1>10, <2>1, FinishType DEF PrepareTimer, OwnerType, Outcomes
<1>11. ASSUME NEW ended \in BOOLEAN, Reset(ended)
      PROVE  OwnerType'
  <2>1. CASE pending # None
    <3>1. pending \in Req /\ retired' = pending /\ Finish(pending, "rejected")
      BY <1>11, <2>1 DEF Reset, OwnerType
    <3> QED
      BY <3>1, FinishType DEF OwnerType, Outcomes
  <2>2. CASE pending = None
    BY <1>11, <2>2 DEF Reset, OwnerType
  <2> QED
    BY <2>1, <2>2
<1>12. CASE KeysArrive
  BY <1>12 DEF KeysArrive, PromptSubmit, GuardPending, GuardRetired, broker, transport, OwnerType
<1>13. CASE Enter
  BY <1>13 DEF Enter, PromptSubmit, GuardPending, GuardRetired, broker, transport, OwnerType
<1>14. CASE PromptCancelled
  <2>1. event.owner \in Req
    BY <1>14, Parts, EventType DEF PromptCancelled, Read
  <2> QED
    BY <1>14, <2>1, FinishType DEF PromptCancelled, OwnerType, Outcomes
<1>15. CASE PromptAccepted
  <2>1. CASE event.owner = None
    BY <1>15, <2>1 DEF PromptAccepted, OwnerType
  <2>2. CASE event.owner # None
    <3>1. event.owner \in Req /\ Finish(event.owner, "accepted") /\ UNCHANGED retired
      BY <1>15, <2>2, Parts, EventType DEF PromptAccepted
    <3> QED
      BY <3>1, FinishType DEF OwnerType, Outcomes
  <2> QED
    BY <2>1, <2>2
<1>16. CASE PromptDropped
  <2>1. CASE event.owner # None /\ Finish(event.owner, "rejected")
    <3>1. event.owner \in Req /\ UNCHANGED retired
      BY <1>16, <2>1, Parts, EventType DEF PromptDropped
    <3> QED
      BY <2>1, <3>1, FinishType DEF OwnerType, Outcomes
  <2>2. CASE UNCHANGED <<response, pending, completed>>
    BY <1>16, <2>2 DEF PromptDropped, OwnerType
  <2> QED
    BY <1>16, <2>1, <2>2 DEF PromptDropped
<1>17. CASE UNCHANGED vars
  BY <1>17, <1>0 DEF vars, broker, transport, hook, history
<1> QED
  BY <1>1, <1>2, <1>3, <1>4, <1>5, <1>6, <1>7, <1>8, <1>9, <1>10, <1>11, <1>12, <1>13, <1>14,
     <1>15, <1>16, <1>17
     DEF Next, PerformStep, PollStep, PromptStep, Starts

\* The box's.
LEMMA BoxTypes ==
    ASSUME TypeOK, Slot, Results, Replies, Polls, Read, [Next]_vars
    PROVE  BoxType'
<1> USE Parts, IdAssumption, BoundAssumption, NoneAssumption DEF Ids, Starts
<1>0. ASSUME UNCHANGED <<current, keys, box, event, typed>>
      PROVE  BoxType'
  BY <1>0 DEF BoxType
<1>1. CASE \/ \E q \in Req : Submit(q) \/ SubmitContinues(q) \/ Expire(q)
           \/ \E a \in Aux : Inquire(a)
           \/ \E id \in Ids : Timeout(id)
           \/ Dispose \/ PerformStart \/ PerformClear
  BY <1>1, <1>0
     DEF Submit, SubmitContinues, Expire, Inquire, Timeout, Dispose, PerformStart, PerformClear,
         broker, transport, hook, history
<1>2. CASE \/ PerformPublish \/ PerformAnswered \/ PerformAbandoned \/ PerformEnd
           \/ \E e \in Starts : PollRead(e) \/ PollCheck(e) \/ PollInspect(e)
              \/ PollPrepare(e)
  BY <1>2, <1>0
     DEF PerformPublish, PerformAnswered, PerformAbandoned, PerformEnd, PollRead, PollCheck,
         PollInspect, PollPrepare, broker, transport, hook, history
<1>3. CASE \/ PrepareTimer \/ Rebind
           \/ \E ended \in BOOLEAN : Reset(ended)
  BY <1>3, <1>0 DEF PrepareTimer, Rebind, Reset, broker, transport, history
<1>4. ASSUME NEW q \in Req, PerformPrepared(q)
      PROVE  BoxType'
  <2>1. Append(keys, q) \in Seq(Req)
    BY <1>4 DEF BoxType
  <2> QED
    BY <1>4, <2>1 DEF PerformPrepared, BoxType, hook, history
<1>5. ASSUME NEW e \in Starts, PollFill(e)
      PROVE  BoxType'
  <2>1. poll[e].id \in Req
    BY <1>5, PollIds DEF PollFill
  <2>2. box' \in Texts \cup {None}
    BY <1>5, <2>1 DEF PollFill, BoxType, Texts
  <2> QED
    BY <1>5, <2>2 DEF PollFill, BoxType, broker, transport, hook, history
<1>6. CASE Switch
  BY <1>6 DEF Switch, broker, transport, hook, history, BoxType
<1>7. CASE KeysArrive
  <2>0. Tail(keys) \in Seq(Req) /\ Head(keys) \in Req
    BY <1>7, ComingLess DEF KeysArrive, BoxType
  <2>1. CASE PromptSubmit(Head(keys))
    BY <1>7, <2>0, <2>1
       DEF KeysArrive, PromptSubmit, GuardPending, GuardRetired, BoxType, OwnerType, Texts
  <2>2. CASE UNCHANGED <<event, box>>
    BY <1>7, <2>0, <2>2 DEF KeysArrive, BoxType
  <2> QED
    BY <1>7, <2>1, <2>2 DEF KeysArrive
<1>8. CASE Enter
  BY <1>8 DEF Enter, PromptSubmit, GuardPending, GuardRetired, BoxType, OwnerType, Texts
<1>9. CASE PromptChecked
  <2>1. event \in [text : Texts, owner : Req \cup {None}, keys : Req \cup {None},
                   step : {"checking", "accepting", "cancelling"}]
    BY <1>9 DEF PromptChecked, BoxType, Quiet
  <2>2. event' \in [text : Texts, owner : Req \cup {None}, keys : Req \cup {None},
                    step : {"checking", "accepting", "cancelling"}]
    BY <1>9, <2>1 DEF PromptChecked
  <2> QED
    BY <1>9, <2>2 DEF PromptChecked, BoxType
<1>10. CASE PromptCancelled
  <2>1. event.text \in Texts
    BY <1>10 DEF PromptCancelled, BoxType, Quiet
  <2> QED
    BY <1>10, <2>1 DEF PromptCancelled, BoxType
<1>11. CASE PromptAccepted
  BY <1>11 DEF PromptAccepted, Finish, Reply, broker, transport, BoxType
<1>12. CASE PromptDropped
  BY <1>12 DEF PromptDropped, Finish, Reply, broker, transport, history, BoxType
<1>13. CASE Edit
  BY <1>13 DEF Edit, BoxType, Texts
<1>14. CASE UNCHANGED vars
  BY <1>14, <1>0 DEF vars, broker, transport, hook, history
<1> QED
  BY <1>1, <1>2, <1>3, <1>4, <1>5, <1>6, <1>7, <1>8, <1>9, <1>10, <1>11, <1>12, <1>13, <1>14
     DEF Next, PerformStep, PollStep, PromptStep, Starts

\* The history's.
LEMMA HistoryTypes ==
    ASSUME TypeOK, Slot, Results, Replies, Polls, Read, [Next]_vars
    PROVE  HistoryType'
<1> USE Parts, IdAssumption, BoundAssumption, NoneAssumption DEF Ids, Starts
<1>0. ASSUME UNCHANGED <<taken, vouched, byKeys, overtaken, foreign, crossed>>
      PROVE  HistoryType'
  BY <1>0 DEF HistoryType
<1>1. CASE \/ \E q \in Req : Submit(q) \/ SubmitContinues(q) \/ Expire(q)
           \/ \E a \in Aux : Inquire(a)
           \/ \E id \in Ids : Timeout(id)
           \/ Dispose \/ PerformStart \/ PerformClear
  BY <1>1, <1>0
     DEF Submit, SubmitContinues, Expire, Inquire, Timeout, Dispose, PerformStart, PerformClear,
         broker, transport, hook, history
<1>2. CASE \/ PerformPublish \/ PerformAnswered \/ PerformAbandoned \/ PerformEnd
           \/ \E q \in Req : PerformPrepared(q)
           \/ \E e \in Starts : PollRead(e) \/ PollCheck(e) \/ PollInspect(e)
  BY <1>2, <1>0
     DEF PerformPublish, PerformPrepared, PerformAnswered, PerformAbandoned, PerformEnd, PollRead,
         PollCheck, PollInspect, broker, transport, hook, history
<1>3. CASE \/ \E e \in Starts : PollFill(e)
           \/ PrepareTimer \/ Switch \/ Rebind \/ PromptChecked \/ PromptCancelled
           \/ PromptDropped \/ Edit
  BY <1>3, <1>0
     DEF PollFill, PrepareTimer, Switch, Rebind, PromptChecked, PromptCancelled, PromptDropped,
         Edit, broker, transport, hook, history
<1>4. ASSUME NEW e \in Starts, PollPrepare(e)
      PROVE  HistoryType'
  <2>1. Coming(keys) \subseteq Req
    BY ComingType DEF BoxType
  <2> QED
    BY <1>4, <2>1 DEF PollPrepare, Displaced, HistoryType, OwnerType
<1>5. ASSUME NEW ended \in BOOLEAN, Reset(ended)
      PROVE  HistoryType'
  <2>1. event.owner \in Req \cup {None}
    BY Parts, EventType
  <2> QED
    BY <1>5, <2>1 DEF Reset, HistoryType
<1>6. CASE KeysArrive
  BY <1>6 DEF KeysArrive, Overdue, HistoryType
<1>7. CASE Enter
  BY <1>7 DEF Enter, Overdue, HistoryType
<1>8. CASE PromptAccepted
  <2>1. event.owner \in Req \cup {None} /\ event.keys \in Req \cup {None}
    BY Parts, EventType
  <2> QED
    BY <1>8, <2>1 DEF PromptAccepted, HistoryType
<1>9. CASE UNCHANGED vars
  BY <1>9, <1>0 DEF vars, broker, transport, hook, history
<1> QED
  BY <1>1, <1>2, <1>3, <1>4, <1>5, <1>6, <1>7, <1>8, <1>9
     DEF Next, PerformStep, PollStep, PromptStep, Starts

\* No step leaves the types.
LEMMA TypeStep ==
    ASSUME TypeOK, Slot, Results, Replies, Polls, Read, [Next]_vars
    PROVE  TypeOK'
BY BrokerTypes, SlotTypes, PollTypes, OwnerTypes, BoxTypes, HistoryTypes, PartsNext

----------------------------------------------------------------------------
(* The slot *)

\* The exchange at the head of the transport's line has been opened.
LEMMA HeadOpened ==
    ASSUME TypeOK, Slot, chain # <<>>
    PROVE  Head(chain) \in Ids /\ Opened(Head(chain))
BY ComingLess DEF TypeOK, Slot

\* A request that nobody knows yet enters the chain.
LEMMA OpenSlot ==
    ASSUME TypeOK, Slot, NEW id \in Ids, exchange[id] \in {"none", "queued"}, Open(id),
           UNCHANGED <<stage, frame, request, seen>>
    PROVE  Slot'
<1> USE Parts
<1>1. exchange' = [exchange EXCEPT ![id] = "open"] /\ chain' = Append(chain, id)
  BY DEF Open
<1>2. chain # <<>> => Head(chain') = Head(chain)
  BY <1>1 DEF SlotType
<1>3. chain' # <<>>
  BY <1>1 DEF SlotType
<1>4. \A i \in DOMAIN chain' : (i \in DOMAIN chain /\ chain'[i] = chain[i]) \/ chain'[i] = id
  BY <1>1 DEF SlotType
<1>5. \A i \in DOMAIN chain : chain[i] \in Ids /\ chain[i] # id
  BY DEF SlotType, Slot, Opened
<1>6. \A i \in DOMAIN chain' : exchange'[chain'[i]] \in {"open", "over"}
  BY <1>1, <1>4, <1>5 DEF Slot, Opened, BrokerType
<1>7. \A i \in seen : i # id /\ i \in Ids
  BY DEF Slot, Opened, PollType
<1>8. request # None => request # id /\ request \in Ids
  BY DEF Slot, Opened, SlotType
<1>9. stage # "start" => Head(chain') = Head(chain)
  BY <1>2 DEF Slot
<1>10. request # None /\ exchange[request] = "open" => Head(chain') = Head(chain)
  BY <1>9 DEF Slot
<1>11. frame = "data" => Head(chain') = Head(chain)
  BY <1>9, NoneAssumption DEF Slot
<1> QED
  BY <1>1, <1>3, <1>6, <1>7, <1>8, <1>10, <1>11 DEF Slot, Opened, BrokerType

\* An exchange ends before its request is let go.
LEMMA OverSlot ==
    ASSUME TypeOK, Slot, NEW id \in Ids, exchange[id] = "open",
           exchange' = [exchange EXCEPT ![id] = "over"],
           UNCHANGED <<chain, stage, frame, request, seen>>
    PROVE  Slot'
<1> USE Parts
<1>1. \A i \in DOMAIN chain : chain[i] \in Ids
  BY DEF SlotType
<1>2. \A i \in DOMAIN chain' : exchange'[chain'[i]] \in {"open", "over"}
  BY <1>1 DEF Slot, Opened, BrokerType
<1> QED
  BY <1>2 DEF Slot, Opened, BrokerType, SlotType, PollType

\* A submission has its result when its exchange is over.
LEMMA ResultStep ==
    ASSUME TypeOK, Slot, Results, [Next]_vars
    PROVE  Results'
<1> USE Parts, IdAssumption DEF Ids, Starts
<1>0. ASSUME UNCHANGED <<result, exchange>>
      PROVE  Results'
  BY <1>0 DEF Results, BrokerType, Outcomes
<1>1. CASE \/ \E q \in Req : Expire(q) \/ PerformPrepared(q)
           \/ PerformStart \/ PerformClear \/ PerformPublish \/ PerformAnswered
           \/ PerformAbandoned
           \/ \E e \in Starts : PollRead(e)
  BY <1>1, <1>0
     DEF Expire, PerformStart, PerformClear, PerformPublish, PerformPrepared, PerformAnswered,
         PerformAbandoned, PollRead, broker, transport, hook, history
<1>2. CASE \/ \E e \in Starts : PollCheck(e) \/ PollInspect(e) \/ PollFill(e)
              \/ PollPrepare(e)
           \/ PrepareTimer \/ Switch \/ Rebind
           \/ \E ended \in BOOLEAN : Reset(ended)
  BY <1>2, <1>0
     DEF PollCheck, PollInspect, PollFill, PollPrepare, PrepareTimer, Switch, Rebind, Reset,
         broker, transport, hook, history
<1>3. CASE \/ KeysArrive \/ Enter \/ PromptChecked \/ PromptCancelled \/ PromptAccepted
           \/ PromptDropped \/ Edit
  BY <1>3, <1>0
     DEF KeysArrive, Enter, PromptChecked, PromptCancelled, PromptAccepted, PromptDropped, Edit,
         broker, transport, hook, history
<1>4. ASSUME NEW q \in Req, Submit(q)
      PROVE  Results'
  BY <1>4 DEF Submit, Open, hook, history, Results, BrokerType, Outcomes
<1>5. ASSUME NEW q \in Req, SubmitContinues(q)
      PROVE  Results'
  BY <1>5 DEF SubmitContinues, Open, Conclude, hook, history, Results, BrokerType, Outcomes
<1>6. ASSUME NEW a \in Aux, Inquire(a)
      PROVE  Results'
  BY <1>6 DEF Inquire, Open, hook, history, Results, BrokerType, Outcomes
<1>7. ASSUME NEW id \in Ids, Timeout(id)
      PROVE  Results'
  BY <1>7 DEF Timeout, Fail, Conclude, transport, hook, history, Results, BrokerType, Outcomes
<1>8. CASE Dispose
  BY <1>8 DEF Dispose, Fail, Conclude, transport, hook, history, Results, BrokerType, Outcomes
<1>9. CASE PerformEnd
  <2> DEFINE id == Head(chain)
  <2>1. id \in Ids
    BY <1>9 DEF PerformEnd, Slot, SlotType
  <2>2. CASE exchange[id] # "open"
    BY <1>9, <2>2 DEF PerformEnd, Results
  <2>3. CASE exchange[id] = "open" /\ ((frame # None /\ Settle(id)) \/ Fail(id))
    <3>1. id \in Req /\ frame # None => frame \in Outcomes
      BY DEF Slot, SlotType
    <3> HIDE DEF id
    <3>2. CASE Fail(id)
      BY <2>1, <3>2 DEF Fail, Conclude, Results, BrokerType, Outcomes
    <3>3. CASE frame # None /\ Settle(id)
      BY <2>1, <3>1, <3>3 DEF Settle, Conclude, Results, BrokerType, Outcomes
    <3> QED
      BY <2>3, <3>2, <3>3
  <2> QED
    BY <1>9, <2>2, <2>3 DEF PerformEnd
<1>10. CASE UNCHANGED vars
  BY <1>10, <1>0 DEF vars, broker, transport, hook, history
<1> QED
  BY <1>1, <1>2, <1>3, <1>4, <1>5, <1>6, <1>7, <1>8, <1>9, <1>10
     DEF Next, PerformStep, PollStep, PromptStep, Starts

\* The slot has one owner.
LEMMA SlotStep ==
    ASSUME TypeOK, Slot, Results, Replies, [Next]_vars
    PROVE  Slot'
<1> USE Parts, IdAssumption DEF Ids, Starts
<1>0. ASSUME UNCHANGED <<chain, stage, frame, request, exchange, seen>>
      PROVE  Slot'
  BY <1>0 DEF Slot, Opened
<1>1. CASE \/ \E q \in Req : Expire(q)
           \/ \E e \in Starts : PollCheck(e) \/ PollInspect(e) \/ PollFill(e)
              \/ PollPrepare(e)
           \/ PrepareTimer \/ Switch \/ Rebind
  BY <1>1, <1>0
     DEF Expire, PollCheck, PollInspect, PollFill, PollPrepare, PrepareTimer, Switch, Rebind,
         broker, transport, hook, history
<1>2. CASE \/ \E ended \in BOOLEAN : Reset(ended)
           \/ KeysArrive \/ Enter \/ PromptChecked \/ PromptCancelled \/ PromptAccepted
           \/ PromptDropped \/ Edit
  BY <1>2, <1>0
     DEF Reset, KeysArrive, Enter, PromptChecked, PromptCancelled, PromptAccepted, PromptDropped,
         Edit, broker, transport, hook, history
<1>3. ASSUME NEW q \in Req, Submit(q)
      PROVE  Slot'
  <2>1. CASE reading = None
    <3>1. Open(q) /\ exchange[q] = "none"
      BY <1>3, <2>1 DEF Submit, Results
    <3>2. UNCHANGED <<stage, frame, request, seen>>
      BY <1>3 DEF Submit, hook
    <3> QED
      BY <3>1, <3>2, OpenSlot
  <2>2. CASE reading # None
    <3>1. UNCHANGED <<chain, stage, frame, request, seen>> /\ exchange[q] = "none"
          /\ exchange' = [exchange EXCEPT ![q] = "queued"]
      BY <1>3, <2>2 DEF Submit, Results, hook
    <3> QED
      BY <3>1 DEF Slot, Opened, SlotType, BrokerType
  <2> QED
    BY <2>1, <2>2
<1>4. ASSUME NEW q \in Req, SubmitContinues(q)
      PROVE  Slot'
  <2>1. UNCHANGED <<stage, frame, request, seen>> /\ exchange[q] = "queued"
    BY <1>4 DEF SubmitContinues, hook
  <2>2. CASE bound
    <3>1. Open(q)
      BY <1>4, <2>2 DEF SubmitContinues
    <3> QED
      BY <3>1, <2>1, OpenSlot
  <2>3. CASE ~bound
    <3>1. exchange' = [exchange EXCEPT ![q] = "over"] /\ UNCHANGED chain
      BY <1>4, <2>3 DEF SubmitContinues
    <3> QED
      BY <3>1, <2>1 DEF Slot, Opened, SlotType, BrokerType
  <2> QED
    BY <2>2, <2>3
<1>5. ASSUME NEW a \in Aux, Inquire(a)
      PROVE  Slot'
  <2>1. UNCHANGED <<stage, frame, request, seen>> /\ exchange[a] = "none" /\ Open(a)
    BY <1>5 DEF Inquire, hook
  <2> QED
    BY <2>1, OpenSlot
<1>6. ASSUME NEW id \in Ids, Timeout(id)
      PROVE  Slot'
  <2>1. /\ UNCHANGED <<chain, stage, frame, request, seen>> /\ exchange[id] = "open"
        /\ exchange' = [exchange EXCEPT ![id] = "over"]
    BY <1>6 DEF Timeout, Fail, transport, hook
  <2> QED
    BY <2>1, OverSlot
<1>7. CASE Dispose
  <2>1. CASE UNCHANGED exchange
    BY <1>7, <2>1 DEF Dispose, transport, hook, Slot, Opened
  <2>2. ASSUME NEW id \in Ids, exchange[id] = "open", Fail(id)
        PROVE  Slot'
    <3>1. /\ UNCHANGED <<chain, stage, frame, request, seen>>
          /\ exchange' = [exchange EXCEPT ![id] = "over"]
      BY <1>7, <2>2 DEF Dispose, Fail, transport, hook
    <3> QED
      BY <2>2, <3>1, OverSlot
  <2> QED
    BY <1>7, <2>1, <2>2 DEF Dispose
<1>8. CASE PerformStart
  BY <1>8 DEF PerformStart, broker, hook, Slot, Opened
<1>9. CASE PerformClear
  BY <1>9 DEF PerformClear, Abandoned, broker, hook, history, Slot, Opened
<1>10. CASE PerformPublish
  <2>1. CASE UNCHANGED request /\ stage' = "closing"
    BY <1>10, <2>1 DEF PerformPublish, broker, hook, Slot, Opened
  <2>2. CASE request' = Head(chain) /\ stage' = "polling"
    <3> DEFINE id == Head(chain)
    <3>0. chain # <<>>
      BY <1>10 DEF PerformPublish, Slot
    <3>1. id \in Ids /\ Opened(id)
      BY <3>0, HeadOpened
    <3>2. \A i \in seen : exchange[i] = "open" => FALSE
      BY <1>10 DEF PerformPublish, Slot, PollType
    <3>3. UNCHANGED <<chain, frame, exchange, seen>> /\ stage = "cleared"
      BY <1>10 DEF PerformPublish, broker, hook
    <3> HIDE DEF id
    <3> QED
      BY <2>2, <3>0, <3>1, <3>2, <3>3 DEF Slot, Opened, id
  <2> QED
    BY <1>10, <2>1, <2>2 DEF PerformPublish
<1>11. ASSUME NEW q \in Req, PerformPrepared(q)
      PROVE  Slot'
  BY <1>11 DEF PerformPrepared, Abandoned, hook, history, Slot, Opened
<1>12. CASE PerformAnswered
  <2>1. response.kind = "data" => Head(chain) \in Aux
    BY <1>12 DEF PerformAnswered, Answers, Replies
  <2>2. UNCHANGED <<chain, exchange, request, seen>> /\ frame' = response.kind /\ stage' = "closing"
    BY <1>12 DEF PerformAnswered, broker, hook
  <2>3. chain # <<>>
    BY <1>12 DEF PerformAnswered, Slot
  <2> QED
    BY <2>1, <2>2, <2>3 DEF Slot, Opened
<1>13. CASE PerformAbandoned
  BY <1>13 DEF PerformAbandoned, broker, hook, history, Slot, Opened
<1>14. CASE PerformEnd
  <2> DEFINE id == Head(chain)
  <2>0. chain # <<>>
    BY <1>14 DEF PerformEnd, Slot
  <2>1. id \in Ids /\ Opened(id)
    BY <2>0, HeadOpened
  <2>2. exchange' = [exchange EXCEPT ![id] = "over"]
    <3>1. CASE exchange[id] # "open"
      BY <1>14, <3>1, <2>1 DEF PerformEnd, Opened, BrokerType
    <3>2. CASE exchange[id] = "open"
      BY <1>14, <3>2 DEF PerformEnd, Settle, Fail
    <3> QED
      BY <3>1, <3>2
  <2>3. /\ UNCHANGED seen /\ chain' = Tail(chain) /\ stage' = "start" /\ frame' = None
        /\ request' \in {request, None}
    BY <1>14 DEF PerformEnd, hook
  <2>4. request # None /\ exchange[request] = "open" => request = id
    BY <2>3 DEF Slot
  <2>5. request = id \/ UNCHANGED request
    BY <1>14 DEF PerformEnd
  <2>6. \A i \in DOMAIN chain' : i + 1 \in DOMAIN chain /\ chain'[i] = chain[i + 1]
    BY <2>0, <2>3, ComingLess DEF SlotType
  <2>7. \A i \in DOMAIN chain : chain[i] \in Ids
    BY DEF SlotType
  <2>8. \A i \in DOMAIN chain' : exchange'[chain'[i]] \in {"open", "over"}
    BY <2>1, <2>2, <2>6, <2>7 DEF Slot, Opened, BrokerType
  <2> HIDE DEF id
  <2>9. request' # None => exchange'[request'] = "over"
    BY <2>1, <2>2, <2>3, <2>4 DEF Slot, Opened, BrokerType, SlotType
  <2>10. \A i \in seen' : Opened(i)' /\ (exchange'[i] = "open" => request' = i)
    BY <2>1, <2>2, <2>3, <2>4, <2>5 DEF Slot, Opened, BrokerType, PollType
  <2> QED
    BY <2>3, <2>8, <2>9, <2>10, NoneAssumption DEF Slot, Opened
<1>15. ASSUME NEW e \in Starts, PollRead(e)
      PROVE  Slot'
  <2>1. request \in Ids /\ seen' = seen \cup {request}
        /\ UNCHANGED <<chain, stage, frame, exchange, request>>
    BY <1>15 DEF PollRead, transport, broker, SlotType
  <2> QED
    BY <2>1 DEF Slot, Opened
<1>16. CASE UNCHANGED vars
  BY <1>16, <1>0 DEF vars, broker, transport, hook, history
<1> QED
  BY <1>1, <1>2, <1>3, <1>4, <1>5, <1>6, <1>7, <1>8, <1>9, <1>10, <1>11, <1>12, <1>13, <1>14,
     <1>15, <1>16
     DEF Next, PerformStep, PollStep, PromptStep, Starts

----------------------------------------------------------------------------
(* Requests that are read, and their polls *)

\* What becomes of a request that gets its outcome.
LEMMA Finished ==
    ASSUME TypeOK, Read, NEW id \in seen, NEW o, Finish(id, o)
    PROVE  /\ completed' = completed \cup {id}
           /\ pending' = IF pending = id THEN None ELSE pending
           /\ response' \in {response, [id |-> id, kind |-> o]}
           /\ id \in completed => response' = response
BY IdAssumption DEF TypeOK, Read, Finish, Reply, Ids

\* A frame is not undefined.
LEMMA FrameThere ==
    ASSUME NEW id \in Ids, NEW kind \in Outcomes \cup {"prepared", "data"}
    PROVE  [id |-> id, kind |-> kind] # None
<1>1. [id |-> id, kind |-> kind] \in Frames
  BY DEF Frames
<1> QED
  BY <1>1, NoneAssumption

\* A poll has read the command it works on.
LEMMA PollRead1 ==
    ASSUME TypeOK, Polls, NEW e \in Starts, poll[e].step # "idle"
    PROVE  poll[e].id \in seen /\ poll[e].id \in Ids /\ Fresh(poll[e].id)
BY DEF TypeOK, Polls, Starts, Fresh

\* The keys of a submission are typed once.
LEMMA HeadOnce ==
    ASSUME TypeOK, Read, Order, Queue, keys # <<>>
    PROVE  /\ Coming(keys) = Coming(Tail(keys)) \cup {Head(keys)}
           /\ Head(keys) \in Req /\ Head(keys) \in dispatched
           /\ \A k \in Coming(Tail(keys)) : Head(keys) \in earlier[k] /\ k # Head(keys)
<1> DEFINE h == Head(keys)
<1>1. /\ Coming(keys) = Coming(Tail(keys)) \cup {h}
      /\ h \in Req /\ h = keys[1] /\ 1 \in DOMAIN keys
      /\ \A i \in DOMAIN Tail(keys) : i + 1 \in DOMAIN keys /\ Tail(keys)[i] = keys[i + 1]
  BY ComingLess DEF TypeOK
<1>2. DOMAIN Tail(keys) \subseteq Nat \ {0}
  BY DEF TypeOK
<1>3. ASSUME NEW k \in Coming(Tail(keys))
      PROVE  h \in earlier[k] /\ k # h
  <2>1. PICK i \in DOMAIN Tail(keys) : k = Tail(keys)[i]
    BY DEF Coming
  <2>2. k = keys[i + 1] /\ i + 1 \in DOMAIN keys /\ 1 < i + 1
    BY <2>1, <1>1, <1>2
  <2>3. h \in earlier[k]
    BY <1>1, <2>2 DEF Queue
  <2>4. k \in Ids
    BY <1>1, ComingType DEF TypeOK, Ids
  <2> QED
    BY <2>3, <2>4 DEF Order
<1> QED
  BY <1>1, <1>3 DEF Read

\* Answers are to requests that were read.
LEMMA ReplyStep ==
    ASSUME TypeOK, Replies, Polls, Read, [Next]_vars
    PROVE  Replies'
<1> USE Parts, IdAssumption DEF Ids, Starts
<1>0. ASSUME UNCHANGED <<response, seen>>
      PROVE  Replies'
  BY <1>0 DEF Replies
<1>1. CASE \/ \E q \in Req : Submit(q) \/ SubmitContinues(q) \/ Expire(q)
           \/ \E a \in Aux : Inquire(a)
           \/ \E id \in Ids : Timeout(id)
           \/ Dispose \/ PerformStart \/ PerformPublish
  BY <1>1, <1>0
     DEF Submit, SubmitContinues, Expire, Inquire, Timeout, Dispose, PerformStart, PerformPublish,
         broker, transport, hook, history
<1>2. CASE \/ \E q \in Req : PerformPrepared(q)
           \/ PerformAnswered \/ PerformAbandoned \/ Switch \/ Rebind \/ KeysArrive
           \/ Enter \/ PromptChecked
  BY <1>2, <1>0
     DEF PerformPrepared, PerformAnswered, PerformAbandoned, Switch, Rebind, KeysArrive, Enter,
         PromptChecked, broker, transport, hook, history
<1>3. CASE \/ Edit
  BY <1>3, <1>0 DEF Edit, broker, transport, hook, history
<1>4. CASE PerformClear
  BY <1>4 DEF PerformClear, Abandoned, broker, hook, history, Replies
<1>5. CASE PerformEnd
  BY <1>5 DEF PerformEnd, Settle, Fail, Conclude, hook, history, Replies
<1>6. ASSUME NEW e \in Starts, PollRead(e)
      PROVE  Replies'
  BY <1>6 DEF PollRead, Replies
<1>7. ASSUME NEW e \in Starts, PollCheck(e)
      PROVE  Replies'
  <2>1. poll[e].id \in seen /\ UNCHANGED seen
    BY <1>7, PollRead1 DEF PollCheck, hook
  <2>2. CASE PollRejects(e)
    BY <2>1, <2>2, Finished DEF PollRejects, Replies
  <2>3. CASE UNCHANGED response
    BY <2>1, <2>3 DEF Replies
  <2>4. CASE poll[e].id \in Aux /\ Reply(poll[e].id, "data")
    BY <2>1, <2>4 DEF Reply, Replies
  <2> QED
    BY <1>7, <2>2, <2>3, <2>4 DEF PollCheck
<1>8. ASSUME NEW e \in Starts, PollInspect(e)
      PROVE  Replies'
  <2>1. poll[e].id \in seen /\ UNCHANGED seen
    BY <1>8, PollRead1 DEF PollInspect, hook
  <2>2. CASE PollRejects(e)
    BY <2>1, <2>2, Finished DEF PollRejects, Replies
  <2>3. CASE UNCHANGED response
    BY <2>1, <2>3 DEF Replies
  <2> QED
    BY <1>8, <2>2, <2>3 DEF PollInspect
<1>9. ASSUME NEW e \in Starts, PollFill(e)
      PROVE  Replies'
  <2>1. poll[e].id \in seen /\ UNCHANGED seen
    BY <1>9, PollRead1 DEF PollFill, hook
  <2>2. CASE PollRejects(e)
    BY <2>1, <2>2, Finished DEF PollRejects, Replies
  <2>3. CASE UNCHANGED response
    BY <2>1, <2>3 DEF Replies
  <2> QED
    BY <1>9, <2>2, <2>3 DEF PollFill
<1>10. ASSUME NEW e \in Starts, PollPrepare(e)
      PROVE  Replies'
  <2>1. poll[e].id \in seen /\ UNCHANGED seen
    BY <1>10, PollRead1 DEF PollPrepare, hook
  <2>2. CASE PollRejects(e)
    BY <2>1, <2>2, Finished DEF PollRejects, Replies
  <2>3. CASE Reply(poll[e].id, "prepared")
    <3>1. poll[e].id \in Req
      BY <1>10, PollIds DEF PollPrepare
    <3> QED
      BY <2>1, <2>3, <3>1 DEF Reply, Replies
  <2> QED
    BY <1>10, <2>2, <2>3 DEF PollPrepare
<1>11. CASE PrepareTimer
  <2>1. pending \in seen /\ UNCHANGED seen
    BY <1>11 DEF PrepareTimer, Read, PollType
  <2> QED
    BY <1>11, <2>1, Finished DEF PrepareTimer, Replies
<1>12. ASSUME NEW ended \in BOOLEAN, Reset(ended)
      PROVE  Replies'
  <2>1. CASE pending # None
    BY <1>12, <2>1, Finished DEF Reset, Replies, Read
  <2>2. CASE pending = None
    BY <1>12, <2>2 DEF Reset, Replies
  <2> QED
    BY <2>1, <2>2
<1>13. CASE PromptCancelled
  <2>1. event.owner \in seen
    BY <1>13 DEF PromptCancelled, Read
  <2> QED
    BY <1>13, <2>1, Finished DEF PromptCancelled, Replies
<1>14. CASE PromptAccepted
  <2>1. CASE event.owner = None
    BY <1>14, <2>1 DEF PromptAccepted, Replies
  <2>2. CASE event.owner # None
    BY <1>14, <2>2, Finished DEF PromptAccepted, Replies, Read
  <2> QED
    BY <2>1, <2>2
<1>15. CASE PromptDropped
  <2>1. CASE UNCHANGED response
    BY <1>15, <2>1 DEF PromptDropped, Replies
  <2>2. CASE event.owner # None /\ Finish(event.owner, "rejected")
    BY <1>15, <2>2, Finished DEF PromptDropped, Replies, Read
  <2> QED
    BY <1>15, <2>1, <2>2 DEF PromptDropped
<1>16. CASE UNCHANGED vars
  BY <1>16, <1>0 DEF vars, broker, transport, hook, history
<1> QED
  BY <1>1, <1>2, <1>3, <1>4, <1>5, <1>6, <1>7, <1>8, <1>9, <1>10, <1>11, <1>12, <1>13, <1>14,
     <1>15, <1>16
     DEF Next, PerformStep, PollStep, PromptStep, Starts

\* What was not read is not known.
LEMMA ReadStep ==
    ASSUME TypeOK, Replies, Polls, Read, Order, Queue, [Next]_vars
    PROVE  Read'
<1> USE Parts, IdAssumption DEF Ids, Starts
<1>0. ASSUME UNCHANGED <<pending, retired, event, completed, dispatched, expired, seen, keys>>
      PROVE  Read'
  BY <1>0 DEF Read
<1>1. CASE \/ \E q \in Req : Submit(q) \/ SubmitContinues(q)
           \/ \E a \in Aux : Inquire(a)
           \/ \E id \in Ids : Timeout(id)
           \/ Dispose \/ PerformStart \/ PerformClear \/ PerformPublish
  BY <1>1, <1>0
     DEF Submit, SubmitContinues, Inquire, Timeout, Dispose, PerformStart, PerformClear,
         PerformPublish, broker, transport, hook, history
<1>2. CASE \/ PerformAnswered \/ PerformAbandoned \/ PerformEnd \/ Switch \/ Rebind \/ Edit
  BY <1>2, <1>0
     DEF PerformAnswered, PerformAbandoned, PerformEnd, Switch, Rebind, Edit, broker, transport,
         hook, history
<1>3. ASSUME NEW q \in Req, Expire(q)
      PROVE  Read'
  BY <1>3 DEF Expire, broker, transport, history, Read
<1>4. ASSUME NEW q \in Req, PerformPrepared(q)
      PROVE  Read'
  <2>0. response = [id |-> q, kind |-> "prepared"] /\ keys' \in {keys, Append(keys, q)}
    BY <1>4 DEF PerformPrepared
  <2>1. q \in seen
    BY <2>0, FrameThere DEF Replies
  <2>2. Coming(keys') \subseteq Coming(keys) \cup {q}
    <3>1. Coming(Append(keys, q)) = Coming(keys) \cup {q}
      BY ComingMore DEF BoxType
    <3> QED
      BY <2>0, <3>1
  <2>3. event.keys # q
    BY <1>4 DEF PerformPrepared, Read
  <2> QED
    BY <1>4, <2>1, <2>2, <2>3 DEF PerformPrepared, Read, hook
<1>5. ASSUME NEW e \in Starts, PollRead(e)
      PROVE  Read'
  BY <1>5 DEF PollRead, GuardRetired, Read, broker, transport
<1>6. ASSUME NEW e \in Starts, PollCheck(e)
      PROVE  Read'
  <2>1. poll[e].id \in seen /\ UNCHANGED <<retired, event, seen, dispatched, expired, keys>>
    BY <1>6, PollRead1 DEF PollCheck, broker
  <2>2. CASE PollRejects(e)
    BY <2>1, <2>2, Finished DEF PollRejects, Read
  <2>3. CASE UNCHANGED <<pending, completed>>
    BY <2>1, <2>3 DEF Read
  <2> QED
    BY <1>6, <2>2, <2>3 DEF PollCheck
<1>7. ASSUME NEW e \in Starts, PollInspect(e)
      PROVE  Read'
  <2>1. poll[e].id \in seen /\ UNCHANGED <<retired, event, seen, dispatched, expired, keys>>
    BY <1>7, PollRead1 DEF PollInspect, broker
  <2>2. CASE PollRejects(e)
    BY <2>1, <2>2, Finished DEF PollRejects, Read
  <2>3. CASE UNCHANGED <<pending, completed>>
    BY <2>1, <2>3 DEF Read
  <2> QED
    BY <1>7, <2>2, <2>3 DEF PollInspect
<1>8. ASSUME NEW e \in Starts, PollFill(e)
      PROVE  Read'
  <2>1. poll[e].id \in seen /\ UNCHANGED <<retired, event, seen, dispatched, expired, keys>>
    BY <1>8, PollRead1 DEF PollFill, broker
  <2>2. CASE PollRejects(e)
    BY <2>1, <2>2, Finished DEF PollRejects, Read
  <2>3. CASE UNCHANGED <<pending, completed>>
    BY <2>1, <2>3 DEF Read
  <2> QED
    BY <1>8, <2>2, <2>3 DEF PollFill
<1>9. ASSUME NEW e \in Starts, PollPrepare(e)
      PROVE  Read'
  <2>1. /\ poll[e].id \in seen /\ poll[e].id \notin completed
        /\ UNCHANGED <<event, seen, dispatched, expired, keys>>
    BY <1>9, PollRead1 DEF PollPrepare, broker, Fresh
  <2>2. CASE ~StillCurrent(e)
    BY <1>9, <2>1, <2>2, Finished DEF PollPrepare, PollRejects, Read
  <2>3. CASE StillCurrent(e)
    BY <1>9, <2>1, <2>3 DEF PollPrepare, Read
  <2> QED
    BY <2>2, <2>3
<1>10. CASE PrepareTimer
  <2>1. pending \in seen /\ UNCHANGED <<event, seen, dispatched, expired, keys>>
    BY <1>10 DEF PrepareTimer, Read, PollType, broker
  <2> QED
    BY <1>10, <2>1, Finished DEF PrepareTimer, Read
<1>11. ASSUME NEW ended \in BOOLEAN, Reset(ended)
      PROVE  Read'
  <2>0. UNCHANGED <<event, seen, dispatched, expired, keys>>
    BY <1>11 DEF Reset, broker
  <2>1. CASE pending # None
    BY <1>11, <2>0, <2>1, Finished DEF Reset, Read
  <2>2. CASE pending = None
    BY <1>11, <2>0, <2>2 DEF Reset, Read
  <2> QED
    BY <2>1, <2>2
<1>12. CASE KeysArrive
  <2>0. /\ Coming(keys') \subseteq Coming(keys) /\ Head(keys) \in Coming(keys) /\ Head(keys) \in Req
        /\ Head(keys) \notin Coming(keys')
    BY <1>12, HeadOnce DEF KeysArrive
  <2>1. UNCHANGED <<seen, dispatched, expired, completed>>
    BY <1>12 DEF KeysArrive, broker
  <2>2. CASE PromptSubmit(Head(keys))
    BY <2>0, <2>1, <2>2 DEF PromptSubmit, GuardPending, GuardRetired, Read, Quiet
  <2>3. CASE UNCHANGED <<event, pending, retired>>
    BY <2>0, <2>1, <2>3 DEF Read
  <2> QED
    BY <1>12, <2>2, <2>3 DEF KeysArrive
<1>13. CASE Enter
  BY <1>13 DEF Enter, PromptSubmit, GuardPending, GuardRetired, Read, broker, Quiet
<1>14. CASE PromptChecked
  BY <1>14, EventType DEF PromptChecked, Read, broker, hook
<1>15. CASE PromptCancelled
  <2>1. /\ event.owner \in seen /\ event' = Quiet
        /\ UNCHANGED <<retired, seen, dispatched, expired, keys>>
    BY <1>15 DEF PromptCancelled, Read, broker
  <2> QED
    BY <1>15, <2>1, Finished DEF PromptCancelled, Read, Quiet
<1>16. CASE PromptAccepted
  <2>0. event' = Quiet /\ UNCHANGED <<retired, seen, dispatched, expired, keys>>
    BY <1>16 DEF PromptAccepted, broker
  <2>1. CASE event.owner = None
    BY <1>16, <2>0, <2>1 DEF PromptAccepted, Read, Quiet
  <2>2. CASE event.owner # None
    <3>1. event.owner \in seen /\ Finish(event.owner, "accepted")
      BY <1>16, <2>2 DEF PromptAccepted, Read
    <3> QED
      BY <2>0, <3>1, Finished DEF Read, Quiet
  <2> QED
    BY <2>1, <2>2
<1>17. CASE PromptDropped
  <2>0. event' = Quiet /\ UNCHANGED <<retired, seen, dispatched, expired, keys>>
    BY <1>17 DEF PromptDropped, broker
  <2>1. CASE UNCHANGED <<pending, completed>>
    BY <2>0, <2>1 DEF Read, Quiet
  <2>2. CASE event.owner # None /\ Finish(event.owner, "rejected")
    <3>1. event.owner \in seen
      BY <2>2 DEF Read
    <3> QED
      BY <2>0, <2>2, <3>1, Finished DEF Read, Quiet
  <2> QED
    BY <1>17, <2>1, <2>2 DEF PromptDropped
<1>18. CASE UNCHANGED vars
  BY <1>18, <1>0 DEF vars, broker, transport, hook, history
<1> QED
  BY <1>1, <1>2, <1>3, <1>4, <1>5, <1>6, <1>7, <1>8, <1>9, <1>10, <1>11, <1>12, <1>13, <1>14,
     <1>15, <1>16, <1>17, <1>18
     DEF Next, PerformStep, PollStep, PromptStep, Starts

\* Where the polls stay as they are, so does what is known of them.
LEMMA PollsKept ==
    ASSUME TypeOK, Polls, UNCHANGED poll, epoch' \in Starts, epoch' >= epoch,
           \A id \in Ids : Fresh(id) => Fresh(id)'
    PROVE  Polls'
BY IdAssumption DEF TypeOK, Polls, Starts, Ids

\* So it does where one poll ends,
LEMMA PollEnded ==
    ASSUME TypeOK, Polls, NEW e \in Starts, PollEnd(e), UNCHANGED epoch,
           \A id \in Ids : Fresh(id) /\ id # poll[e].id => Fresh(id)'
    PROVE  Polls'
<1>1. poll' = [poll EXCEPT ![e] = [step |-> "idle", id |-> None]]
  BY DEF PollEnd, PollAt
<1>2. poll'[e] = [step |-> "idle", id |-> None] /\ \A f \in Starts \ {e} : poll'[f] = poll[f]
  BY <1>1 DEF TypeOK, Starts
<1>3. \A f \in Starts : poll[f].id \in Ids \cup {None}
  BY DEF TypeOK, Starts
<1>4. \A f \in Starts \ {e} : poll[f].id # None => poll[f].id # poll[e].id
  BY DEF Polls
<1>5. \A f \in Starts : poll'[f].id # None => poll'[f].id \in Ids /\ Fresh(poll[f].id) /\ f # e
  BY <1>2, <1>3 DEF Polls
<1>6. ASSUME NEW f \in Starts, poll'[f].id # None
      PROVE  \E id \in Ids : id = poll'[f].id /\ Fresh(id)'
  BY <1>2, <1>4, <1>5, <1>6
<1> QED
  BY <1>2, <1>3, <1>6, IdAssumption DEF Polls, Ids

\* and where one moves on.
LEMMA PollMoved ==
    ASSUME TypeOK, Polls, NEW e \in Starts, NEW step \in {"inspecting", "filling", "filled"},
           poll[e].id \in Req, PollAt(e, step, poll[e].id), UNCHANGED epoch,
           \A id \in Ids : Fresh(id) => Fresh(id)'
    PROVE  Polls'
<1>1. /\ poll'[e] = [step |-> step, id |-> poll[e].id]
      /\ \A f \in Starts \ {e} : poll'[f] = poll[f]
  BY DEF TypeOK, Starts, PollAt
<1>2. \A f \in Starts : poll'[f].id = poll[f].id
  BY <1>1
<1>3. \A f \in Starts : poll[f].id \in Ids \cup {None}
  BY DEF TypeOK, Starts
<1>4. ASSUME NEW f \in Starts, poll'[f].id # None
      PROVE  \E id \in Ids : id = poll'[f].id /\ Fresh(id)'
  BY <1>2, <1>3, <1>4 DEF Polls
<1>5. \A f \in Starts : poll'[f].step = "idle" <=> poll'[f].id = None
  BY <1>1, IdAssumption DEF Polls, Ids
<1> QED
  BY <1>1, <1>2, <1>4, <1>5, IdAssumption DEF Polls

\* The outcome of another request leaves it alone.
LEMMA FreshBeside ==
    ASSUME TypeOK, Read, NEW id \in Ids, Fresh(id), NEW x \in seen \ {id}, NEW o, Finish(x, o),
           o # "prepared", retired' \in {retired, x}, event'.owner \in {event.owner, None},
           UNCHANGED <<seen, dispatched>>
    PROVE  Fresh(id)'
<1>1. /\ completed' = completed \cup {x} /\ pending' \in {pending, None}
      /\ response' \in {response, [id |-> x, kind |-> o]}
  BY Finished
<1> QED
  BY <1>1, IdAssumption DEF Fresh, Ids

\* Claude's asking the hook makes nobody an owner who was not.
LEMMA Guarded ==
    ASSUME TypeOK, NEW whose, PromptSubmit(whose)
    PROVE  /\ pending' \in {pending, None} /\ retired' \in {retired, None}
           /\ event'.owner \in {pending, retired, None}
BY DEF PromptSubmit, GuardPending, GuardRetired

\* A check ends with the text and the owner it began with.
LEMMA EventOwner ==
    ASSUME TypeOK, PromptChecked
    PROVE  /\ event'.text = event.text /\ event'.owner = event.owner /\ event'.keys = event.keys
           /\ event'.step = IF current /\ IsDraft(event.text) THEN "accepting" ELSE "cancelling"
BY DEF TypeOK, PromptChecked, Quiet

\* A poll is the only one to know its request.
LEMMA PollsStep ==
    ASSUME TypeOK, Replies, Polls, Read, [Next]_vars
    PROVE  Polls'
<1> USE Parts, IdAssumption DEF Ids, Starts
<1>0. ASSUME UNCHANGED <<poll, epoch, seen, dispatched, completed, pending, retired, event,
                         response>>
      PROVE  Polls'
  BY <1>0 DEF Polls, Fresh
<1>1. CASE \/ \E q \in Req : Submit(q) \/ SubmitContinues(q) \/ Expire(q)
           \/ \E a \in Aux : Inquire(a)
           \/ \E id \in Ids : Timeout(id)
           \/ Dispose \/ PerformStart \/ PerformPublish
  BY <1>1, <1>0
     DEF Submit, SubmitContinues, Expire, Inquire, Timeout, Dispose, PerformStart, PerformPublish,
         broker, transport, hook, history
<1>2. CASE \/ PerformAnswered \/ PerformAbandoned \/ Switch \/ Rebind \/ Edit
  BY <1>2, <1>0
     DEF PerformAnswered, PerformAbandoned, Switch, Rebind, Edit, broker, transport, hook, history
<1>3. CASE PerformClear
  <2>1. \A id \in Ids : Fresh(id) => Fresh(id)'
    BY <1>3, FrameThere DEF PerformClear, Fresh, hook, broker
  <2> QED
    BY <1>3, <2>1, PollsKept DEF PerformClear, hook, PollType
<1>4. ASSUME NEW q \in Req, PerformPrepared(q)
      PROVE  Polls'
  <2>1. \A id \in Ids : Fresh(id) => Fresh(id)'
    BY <1>4 DEF PerformPrepared, Fresh, hook
  <2> QED
    BY <1>4, <2>1, PollsKept DEF PerformPrepared, hook, PollType
<1>5. CASE PerformEnd
  <2>1. \A id \in Ids : Fresh(id) => Fresh(id)'
    BY <1>5, FrameThere DEF PerformEnd, Fresh, hook
  <2> QED
    BY <1>5, <2>1, PollsKept DEF PerformEnd, hook, PollType
<1>6. ASSUME NEW e \in Starts, PollRead(e)
      PROVE  Polls'
  <2>1. /\ request \in Ids \ seen /\ seen' = seen \cup {request} /\ pending = None /\ e = epoch
        /\ retired' \in {retired, None}
        /\ UNCHANGED <<epoch, dispatched, completed, pending, event, response>>
        /\ poll' = [poll EXCEPT ![e] = [step |-> "checking", id |-> request]]
    BY <1>6 DEF PollRead, PollAt, GuardRetired, SlotType, broker
  <2>2. \A id \in Ids : Fresh(id) => Fresh(id)'
    BY <2>1 DEF Fresh
  <2>3. response # [id |-> request, kind |-> "prepared"]
    BY <2>1, FrameThere DEF Replies
  <2>8. request' = request
    BY <1>6 DEF PollRead
  <2>4. Fresh(request)'
    BY <2>1, <2>3, <2>8 DEF Fresh, Read
  <2>5. /\ poll'[e] = [step |-> "checking", id |-> request]
        /\ \A f \in Starts \ {e} : poll'[f] = poll[f]
    BY <2>1 DEF PollType
  <2>6. \A f \in Starts : poll[f].id # request
    BY <2>1 DEF Polls, Fresh
  <2>7. \A f \in Starts : poll[f].id # None => poll[f].id \in Ids
    BY DEF PollType
  <2>9. \A f \in Starts : poll'[f].id # None => \E id \in Ids : id = poll'[f].id /\ Fresh(id)'
    BY <2>1, <2>2, <2>4, <2>5, <2>7, <2>8 DEF Polls
  <2> QED
    BY <2>1, <2>5, <2>6, <2>7, <2>9 DEF Polls
<1>7. ASSUME NEW e \in Starts, PollCheck(e)
      PROVE  Polls'
  <2>0. UNCHANGED <<epoch, seen, dispatched, event>>
    BY <1>7 DEF PollCheck, broker
  <2>1. poll[e].id \in seen /\ poll[e].id \in Ids
    BY <1>7, PollRead1 DEF PollCheck
  <2>2. CASE PollRejects(e) /\ retired' \in {retired, poll[e].id}
    <3>1. Finish(poll[e].id, "rejected") /\ PollEnd(e)
      BY <2>2 DEF PollRejects
    <3>2. \A id \in Ids : Fresh(id) /\ id # poll[e].id => Fresh(id)'
      BY <2>0, <2>1, <2>2, <3>1, FreshBeside
    <3> QED
      BY <2>0, <3>1, <3>2, PollEnded
  <2>3. CASE PollEnd(e) /\ UNCHANGED <<response, pending, completed, retired>>
    <3>1. \A id \in Ids : Fresh(id) => Fresh(id)'
      BY <2>0, <2>3 DEF Fresh
    <3> QED
      BY <2>0, <2>3, <3>1, PollEnded
  <2>4. CASE /\ PollEnd(e) /\ Reply(poll[e].id, "data")
             /\ UNCHANGED <<pending, completed, retired>>
    <3>1. \A id \in Ids : Fresh(id) => Fresh(id)'
      BY <2>0, <2>4 DEF Fresh, Reply
    <3> QED
      BY <2>0, <2>4, <3>1, PollEnded
  <2>5. CASE /\ poll[e].id \in Req /\ PollAt(e, "inspecting", poll[e].id)
             /\ UNCHANGED <<response, pending, completed, retired>>
    <3>1. \A id \in Ids : Fresh(id) => Fresh(id)'
      BY <2>0, <2>5 DEF Fresh
    <3> QED
      BY <2>0, <2>5, <3>1, PollMoved
  <2> QED
    BY <1>7, <2>2, <2>3, <2>4, <2>5 DEF PollCheck
<1>8. ASSUME NEW e \in Starts, PollInspect(e)
      PROVE  Polls'
  <2>0. UNCHANGED <<epoch, seen, dispatched, event>>
    BY <1>8 DEF PollInspect, broker
  <2>1. poll[e].id \in seen /\ poll[e].id \in Ids
    BY <1>8, PollRead1 DEF PollInspect
  <2>2. CASE PollRejects(e) /\ retired' \in {retired, poll[e].id}
    <3>1. Finish(poll[e].id, "rejected") /\ PollEnd(e)
      BY <2>2 DEF PollRejects
    <3>2. \A id \in Ids : Fresh(id) /\ id # poll[e].id => Fresh(id)'
      BY <2>0, <2>1, <2>2, <3>1, FreshBeside
    <3> QED
      BY <2>0, <3>1, <3>2, PollEnded
  <2>3. CASE PollEnd(e) /\ UNCHANGED <<response, pending, completed, retired>>
    <3>1. \A id \in Ids : Fresh(id) => Fresh(id)'
      BY <2>0, <2>3 DEF Fresh
    <3> QED
      BY <2>0, <2>3, <3>1, PollEnded
  <2>4. CASE PollAt(e, "filling", poll[e].id) /\ UNCHANGED <<response, pending, completed, retired>>
    <3>1. \A id \in Ids : Fresh(id) => Fresh(id)'
      BY <2>0, <2>4 DEF Fresh
    <3>2. poll[e].id \in Req
      BY <1>8, PollIds DEF PollInspect
    <3> QED
      BY <2>0, <2>4, <3>1, <3>2, PollMoved
  <2> QED
    BY <1>8, <2>2, <2>3, <2>4 DEF PollInspect
<1>9. ASSUME NEW e \in Starts, PollFill(e)
      PROVE  Polls'
  <2>0. UNCHANGED <<epoch, seen, dispatched, event>>
    BY <1>9 DEF PollFill, broker
  <2>1. poll[e].id \in seen /\ poll[e].id \in Ids
    BY <1>9, PollRead1 DEF PollFill
  <2>2. CASE PollRejects(e) /\ retired' \in {retired, poll[e].id}
    <3>1. Finish(poll[e].id, "rejected") /\ PollEnd(e)
      BY <2>2 DEF PollRejects
    <3>2. \A id \in Ids : Fresh(id) /\ id # poll[e].id => Fresh(id)'
      BY <2>0, <2>1, <2>2, <3>1, FreshBeside
    <3> QED
      BY <2>0, <3>1, <3>2, PollEnded
  <2>3. CASE PollEnd(e) /\ UNCHANGED <<response, pending, completed, retired>>
    <3>1. \A id \in Ids : Fresh(id) => Fresh(id)'
      BY <2>0, <2>3 DEF Fresh
    <3> QED
      BY <2>0, <2>3, <3>1, PollEnded
  <2>4. CASE PollAt(e, "filled", poll[e].id) /\ UNCHANGED <<response, pending, completed, retired>>
    <3>1. \A id \in Ids : Fresh(id) => Fresh(id)'
      BY <2>0, <2>4 DEF Fresh
    <3>2. poll[e].id \in Req
      BY <1>9, PollIds DEF PollFill
    <3> QED
      BY <2>0, <2>4, <3>1, <3>2, PollMoved
  <2> QED
    BY <1>9, <2>2, <2>3, <2>4 DEF PollFill
<1>10. ASSUME NEW e \in Starts, PollPrepare(e)
      PROVE  Polls'
  <2>0. UNCHANGED <<epoch, seen, dispatched, event>>
    BY <1>10 DEF PollPrepare, broker
  <2>1. poll[e].id \in seen /\ poll[e].id \in Ids
    BY <1>10, PollRead1 DEF PollPrepare
  <2>2. CASE PollRejects(e) /\ retired' \in {retired, poll[e].id}
    <3>1. Finish(poll[e].id, "rejected") /\ PollEnd(e)
      BY <2>2 DEF PollRejects
    <3>2. \A id \in Ids : Fresh(id) /\ id # poll[e].id => Fresh(id)'
      BY <2>0, <2>1, <2>2, <3>1, FreshBeside
    <3> QED
      BY <2>0, <3>1, <3>2, PollEnded
  <2>3. CASE /\ PollEnd(e) /\ Reply(poll[e].id, "prepared") /\ pending' = poll[e].id
             /\ UNCHANGED <<retired, completed>>
    <3>1. \A id \in Ids : Fresh(id) /\ id # poll[e].id => Fresh(id)'
      BY <2>0, <2>3 DEF Fresh, Reply
    <3> QED
      BY <2>0, <2>3, <3>1, PollEnded
  <2> QED
    BY <1>10, <2>2, <2>3 DEF PollPrepare
<1>11. CASE PrepareTimer
  <2>1. /\ pending \in seen /\ pending # None /\ retired' = pending
        /\ Finish(pending, "unconfirmed")
        /\ UNCHANGED <<poll, epoch, event, seen, dispatched>>
    BY <1>11 DEF PrepareTimer, Read, PollType, broker
  <2>2. ASSUME NEW id \in Ids, Fresh(id)
        PROVE  Fresh(id)'
    <3>1. pending # id
      BY <2>2 DEF Fresh
    <3> QED
      BY <2>1, <2>2, <3>1, Finished DEF Fresh
  <2> QED
    BY <2>1, <2>2, PollsKept DEF PollType
<1>12. ASSUME NEW ended \in BOOLEAN, Reset(ended)
      PROVE  Polls'
  <2>0. /\ epoch' = epoch + 1 /\ epoch' \in Starts /\ epoch' >= epoch
        /\ UNCHANGED <<poll, event, seen, dispatched>>
    BY <1>12, BoundAssumption DEF Reset, PollType, broker
  <2>1. CASE pending # None
    <3>1. pending \in seen /\ retired' = pending /\ Finish(pending, "rejected")
      BY <1>12, <2>1 DEF Reset, Read
    <3>2. ASSUME NEW id \in Ids, Fresh(id)
          PROVE  Fresh(id)'
      <4>1. pending # id
        BY <3>2 DEF Fresh
      <4> QED
        BY <2>0, <3>1, <3>2, <4>1, Finished DEF Fresh
    <3> QED
      BY <2>0, <3>2, PollsKept
  <2>2. CASE pending = None
    <3>1. \A id \in Ids : Fresh(id) => Fresh(id)'
      BY <1>12, <2>0, <2>2 DEF Reset, Fresh
    <3> QED
      BY <2>0, <3>1, PollsKept
  <2> QED
    BY <2>1, <2>2
<1>13. CASE KeysArrive
  <2>1. UNCHANGED <<poll, epoch, seen, dispatched, completed, response>>
    BY <1>13 DEF KeysArrive, broker
  <2>2. CASE PromptSubmit(Head(keys))
    <3>1. \A id \in Ids : Fresh(id) => Fresh(id)'
      BY <2>1, <2>2, Guarded DEF Fresh
    <3> QED
      BY <2>1, <3>1, PollsKept DEF PollType
  <2>3. CASE UNCHANGED <<event, pending, retired>>
    BY <2>1, <2>3, <1>0
  <2> QED
    BY <1>13, <2>2, <2>3 DEF KeysArrive
<1>14. CASE Enter
  <2>1. UNCHANGED <<poll, epoch, seen, dispatched, completed, response>>
    BY <1>14 DEF Enter, broker
  <2>2. \A id \in Ids : Fresh(id) => Fresh(id)'
    BY <1>14, <2>1, Guarded DEF Enter, Fresh
  <2> QED
    BY <2>1, <2>2, PollsKept DEF PollType
<1>15. CASE PromptChecked
  <2>1. event'.owner = event.owner
    BY <1>15, EventOwner DEF PromptChecked
  <2>2. UNCHANGED <<poll, epoch, seen, dispatched, completed, response, pending, retired>>
    BY <1>15 DEF PromptChecked, broker, hook
  <2>3. \A id \in Ids : Fresh(id) => Fresh(id)'
    BY <2>1, <2>2 DEF Fresh
  <2> QED
    BY <2>2, <2>3, PollsKept DEF PollType
<1>16. CASE PromptCancelled
  <2>1. event'.owner = None /\ UNCHANGED <<poll, epoch, seen, dispatched, retired>>
    BY <1>16 DEF PromptCancelled, broker, Quiet
  <2>2. CASE event.owner # None /\ Finish(event.owner, "rejected")
    <3>1. event.owner \in seen
      BY <2>2 DEF Read
    <3>2. \A id \in Ids : Fresh(id) => event.owner # id
      BY DEF Fresh
    <3>3. \A id \in Ids : Fresh(id) => Fresh(id)'
      BY <2>1, <2>2, <3>1, <3>2, FreshBeside
    <3> QED
      BY <2>1, <3>3, PollsKept DEF PollType
  <2>3. CASE UNCHANGED <<pending, completed, response>>
    <3>1. \A id \in Ids : Fresh(id) => Fresh(id)'
      BY <2>1, <2>3, IdAssumption DEF Fresh, Ids
    <3> QED
      BY <2>1, <3>1, PollsKept DEF PollType
  <2> QED
    BY <1>16, <2>2, <2>3 DEF PromptCancelled, Read
<1>17. CASE PromptAccepted
  <2>1. event'.owner = None /\ UNCHANGED <<poll, epoch, seen, dispatched, retired>>
    BY <1>17 DEF PromptAccepted, broker, Quiet
  <2>2. CASE event.owner # None /\ Finish(event.owner, "accepted")
    <3>1. event.owner \in seen
      BY <2>2 DEF Read
    <3>2. \A id \in Ids : Fresh(id) => event.owner # id
      BY DEF Fresh
    <3>3. \A id \in Ids : Fresh(id) => Fresh(id)'
      BY <2>1, <2>2, <3>1, <3>2, FreshBeside
    <3> QED
      BY <2>1, <3>3, PollsKept DEF PollType
  <2>3. CASE UNCHANGED <<pending, completed, response>>
    <3>1. \A id \in Ids : Fresh(id) => Fresh(id)'
      BY <2>1, <2>3, IdAssumption DEF Fresh, Ids
    <3> QED
      BY <2>1, <3>1, PollsKept DEF PollType
  <2> QED
    BY <1>17, <2>2, <2>3 DEF PromptAccepted, Read
<1>18. CASE PromptDropped
  <2>1. event'.owner = None /\ UNCHANGED <<poll, epoch, seen, dispatched, retired>>
    BY <1>18 DEF PromptDropped, broker, Quiet
  <2>2. CASE event.owner # None /\ Finish(event.owner, "rejected")
    <3>1. event.owner \in seen
      BY <2>2 DEF Read
    <3>2. \A id \in Ids : Fresh(id) => event.owner # id
      BY DEF Fresh
    <3>3. \A id \in Ids : Fresh(id) => Fresh(id)'
      BY <2>1, <2>2, <3>1, <3>2, FreshBeside
    <3> QED
      BY <2>1, <3>3, PollsKept DEF PollType
  <2>3. CASE UNCHANGED <<pending, completed, response>>
    <3>1. \A id \in Ids : Fresh(id) => Fresh(id)'
      BY <2>1, <2>3, IdAssumption DEF Fresh, Ids
    <3> QED
      BY <2>1, <3>1, PollsKept DEF PollType
  <2> QED
    BY <1>18, <2>2, <2>3 DEF PromptDropped, Read
<1>19. CASE UNCHANGED vars
  BY <1>19, <1>0 DEF vars, broker, transport, hook, history
<1> QED
  BY <1>1, <1>2, <1>3, <1>4, <1>5, <1>6, <1>7, <1>8, <1>9, <1>10, <1>11, <1>12, <1>13, <1>14,
     <1>15, <1>16, <1>17, <1>18, <1>19
     DEF Next, PerformStep, PollStep, PromptStep, Starts

----------------------------------------------------------------------------
(* Drafts *)

\* The end of a poll leaves the other polls' drafts at work.
LEMMA DraftingEnds ==
    ASSUME TypeOK, NEW e \in Starts, PollEnd(e)
    PROVE  \A f \in Starts, q \in Req : Drafting(f, q)' => Drafting(f, q) /\ f # e
BY DEF TypeOK, Starts, PollEnd, PollAt, Drafting

\* A poll that moves on works on the draft it worked on, until it is filled.
LEMMA DraftingMoves ==
    ASSUME TypeOK, Polls, NEW e \in Starts, NEW step \in {"inspecting", "filling", "filled"},
           poll[e].step # "idle", PollAt(e, step, poll[e].id)
    PROVE  \A f \in Starts, q \in Req : poll[e].step \in {"checking", "inspecting", "filling"}
             /\ Drafting(f, q)' => Drafting(f, q) /\ (step = "filled" => f # e)
BY DEF TypeOK, Polls, Starts, PollAt, Drafting

\* Where no draft is taken up and the box stays, the drafts are where they were.
LEMMA DraftsLess ==
    ASSUME TypeOK, Drafts, UNCHANGED <<taken, event, box>>, seen \subseteq seen',
           \A f \in Starts, q \in Req : Drafting(f, q)' => Drafting(f, q)
    PROVE  Drafts'
BY DEF Drafts

\* A draft is in one place.
LEMMA DraftStep ==
    ASSUME TypeOK, Polls, Drafts, [Next]_vars
    PROVE  Drafts'
<1> USE Parts, IdAssumption DEF Ids, Starts
<1>0. ASSUME UNCHANGED <<taken, event, box, poll, seen>>
      PROVE  Drafts'
  BY <1>0 DEF Drafts, Drafting
<1>1. CASE \/ \E q \in Req : Submit(q) \/ SubmitContinues(q) \/ Expire(q)
           \/ \E a \in Aux : Inquire(a)
           \/ \E id \in Ids : Timeout(id)
           \/ Dispose \/ PerformStart \/ PerformClear
  BY <1>1, <1>0
     DEF Submit, SubmitContinues, Expire, Inquire, Timeout, Dispose, PerformStart, PerformClear,
         broker, transport, hook, history
<1>2. CASE \/ PerformPublish \/ PerformAnswered \/ PerformAbandoned \/ PerformEnd
           \/ PrepareTimer \/ Switch \/ Rebind
           \/ \E q \in Req : PerformPrepared(q)
  BY <1>2, <1>0
     DEF PerformPublish, PerformPrepared, PerformAnswered, PerformAbandoned, PerformEnd,
         PrepareTimer, Switch, Rebind, broker, transport, hook, history
<1>3. CASE \/ \E ended \in BOOLEAN : Reset(ended)
  BY <1>3, <1>0 DEF Reset, broker, transport
<1>4. ASSUME NEW e \in Starts, PollRead(e)
      PROVE  Drafts'
  <2>1. /\ request \in Ids \ seen /\ seen' = seen \cup {request}
        /\ UNCHANGED <<taken, event, box>>
        /\ poll' = [poll EXCEPT ![e] = [step |-> "checking", id |-> request]]
    BY <1>4 DEF PollRead, PollAt, SlotType, history
  <2>2. \A f \in Starts, q \in Req : Drafting(f, q)' => Drafting(f, q) \/ q = request
    BY <2>1 DEF Drafting, PollType
  <2> QED
    BY <2>1, <2>2 DEF Drafts
<1>5. ASSUME NEW e \in Starts, PollCheck(e)
      PROVE  Drafts'
  <2>1. UNCHANGED <<taken, event, box, seen>>
    BY <1>5 DEF PollCheck, history
  <2>2. PollEnd(e) \/ PollAt(e, "inspecting", poll[e].id)
    BY <1>5 DEF PollCheck, PollRejects
  <2>3. poll[e].step = "checking"
    BY <1>5 DEF PollCheck
  <2> QED
    BY <2>1, <2>2, <2>3, DraftingEnds, DraftingMoves, DraftsLess
<1>6. ASSUME NEW e \in Starts, PollInspect(e)
      PROVE  Drafts'
  <2>1. UNCHANGED <<taken, event, box, seen>>
    BY <1>6 DEF PollInspect, history
  <2>2. PollEnd(e) \/ PollAt(e, "filling", poll[e].id)
    BY <1>6 DEF PollInspect, PollRejects
  <2>3. poll[e].step = "inspecting"
    BY <1>6 DEF PollInspect
  <2> QED
    BY <2>1, <2>2, <2>3, DraftingEnds, DraftingMoves, DraftsLess
<1>7. ASSUME NEW e \in Starts, PollFill(e)
      PROVE  Drafts'
  <2> DEFINE id == poll[e].id
  <2>1. UNCHANGED <<taken, event, seen>> /\ poll[e].step = "filling"
    BY <1>7 DEF PollFill, history
  <2>2. id \in Req /\ id \in seen
    BY <2>1, PollIds, PollRead1
  <2>3. box' \in {box, None, "other", id}
    BY <1>7 DEF PollFill
  <2>4. PollEnd(e) \/ PollAt(e, "filled", id)
    BY <1>7 DEF PollFill, PollRejects
  <2>5. \A f \in Starts, q \in Req : Drafting(f, q)' => Drafting(f, q) /\ f # e
    BY <2>1, <2>4, DraftingEnds, DraftingMoves
  <2>6. Drafting(e, id)
    BY <2>1 DEF Drafting
  <2>7. \A f \in Starts : Drafting(f, id) => f = e
    BY <2>2 DEF Drafting, Polls
  <2>8. taken[id] = 0 /\ event.text # id
    BY <2>2, <2>6 DEF Drafts, HistoryType
  <2>9. \A q \in Req : q # None /\ q # "other"
    OBVIOUS
  <2> HIDE DEF id
  <2> QED
    BY <2>1, <2>2, <2>3, <2>5, <2>7, <2>8, <2>9 DEF Drafts
<1>8. ASSUME NEW e \in Starts, PollPrepare(e)
      PROVE  Drafts'
  <2>1. UNCHANGED <<taken, event, box, seen>> /\ PollEnd(e)
    BY <1>8 DEF PollPrepare, PollRejects
  <2> QED
    BY <2>1, DraftingEnds, DraftsLess
<1>9. CASE KeysArrive
  <2>1. UNCHANGED <<taken, seen, poll>>
    BY <1>9 DEF KeysArrive
  <2>2. (event'.text = box /\ box' = None) \/ UNCHANGED <<event, box>>
    BY <1>9 DEF KeysArrive, PromptSubmit
  <2>3. \A f \in Starts, q \in Req : Drafting(f, q)' <=> Drafting(f, q)
    BY <2>1 DEF Drafting
  <2> QED
    BY <2>1, <2>2, <2>3 DEF Drafts
<1>10. CASE Enter
  <2>1. UNCHANGED <<taken, seen, poll>>
    BY <1>10 DEF Enter
  <2>2. event'.text = box /\ box' = None
    BY <1>10 DEF Enter, PromptSubmit
  <2>3. \A f \in Starts, q \in Req : Drafting(f, q)' <=> Drafting(f, q)
    BY <2>1 DEF Drafting
  <2> QED
    BY <2>1, <2>2, <2>3 DEF Drafts
<1>11. CASE PromptChecked
  <2>1. UNCHANGED <<taken, box, seen, poll>> /\ event'.text = event.text
    BY <1>11, EventOwner DEF PromptChecked, history, hook
  <2>2. \A f \in Starts, q \in Req : Drafting(f, q)' <=> Drafting(f, q)
    BY <2>1 DEF Drafting
  <2> QED
    BY <2>1, <2>2 DEF Drafts
<1>12. CASE PromptCancelled
  <2>1. /\ UNCHANGED <<taken, seen, poll>> /\ event'.text = None
        /\ box' \in {box, event.text}
    BY <1>12 DEF PromptCancelled, history, Quiet
  <2>2. \A f \in Starts, q \in Req : Drafting(f, q)' <=> Drafting(f, q)
    BY <2>1 DEF Drafting
  <2> QED
    BY <2>1, <2>2 DEF Drafts
<1>13. CASE PromptAccepted
  <2>1. UNCHANGED <<box, seen, poll>> /\ event'.text = None
    BY <1>13 DEF PromptAccepted, Quiet
  <2>2. \A f \in Starts, q \in Req : Drafting(f, q)' <=> Drafting(f, q)
    BY <2>1 DEF Drafting
  <2>3. CASE event.text \in Req
    <3>1. taken[event.text] = 0
      BY <2>3 DEF Drafts, HistoryType
    <3>2. taken' = [taken EXCEPT ![event.text] = 1]
      BY <1>13, <2>3, <3>1 DEF PromptAccepted, HistoryType
    <3>3. taken'[event.text] = 1 /\ \A q \in Req \ {event.text} : taken'[q] = taken[q]
      BY <2>3, <3>2 DEF HistoryType
    <3> QED
      BY <2>1, <2>2, <2>3, <3>1, <3>3 DEF Drafts
  <2>4. CASE event.text \notin Req
    BY <1>13, <2>1, <2>2, <2>4 DEF PromptAccepted, Drafts
  <2> QED
    BY <2>3, <2>4
<1>14. CASE PromptDropped
  <2>1. UNCHANGED <<taken, box, seen, poll>> /\ event'.text = None
    BY <1>14 DEF PromptDropped, history, Quiet
  <2>2. \A f \in Starts, q \in Req : Drafting(f, q)' <=> Drafting(f, q)
    BY <2>1 DEF Drafting
  <2> QED
    BY <2>1, <2>2 DEF Drafts
<1>15. CASE Edit
  <2>1. UNCHANGED <<taken, event, seen, poll>> /\ box' \in {None, "other"}
    BY <1>15 DEF Edit, history, hook
  <2>2. \A f \in Starts, q \in Req : Drafting(f, q)' <=> Drafting(f, q)
    BY <2>1 DEF Drafting
  <2> QED
    BY <2>1, <2>2 DEF Drafts
<1>16. CASE UNCHANGED vars
  BY <1>16, <1>0 DEF vars, broker, transport, hook, history
<1> QED
  BY <1>1, <1>2, <1>3, <1>4, <1>5, <1>6, <1>7, <1>8, <1>9, <1>10, <1>11, <1>12, <1>13, <1>14,
     <1>15, <1>16
     DEF Next, PerformStep, PollStep, PromptStep, Starts

\* Requests expire in the order in which they were read.
LEMMA OrderStep ==
    ASSUME TypeOK, Slot, Results, Read, Order, [Next]_vars
    PROVE  Order'
<1> USE Parts, IdAssumption DEF Ids, Starts
<1>0. ASSUME UNCHANGED <<expired, exchange, earlier, seen>>
      PROVE  Order'
  BY <1>0 DEF Order, BrokerType, PollType
<1>1. CASE \/ PerformStart \/ PerformClear \/ PerformPublish \/ PerformAnswered
           \/ PerformAbandoned
           \/ \E q \in Req : PerformPrepared(q)
           \/ \E e \in Starts : PollCheck(e) \/ PollInspect(e)
  BY <1>1, <1>0
     DEF PerformStart, PerformClear, PerformPublish, PerformPrepared, PerformAnswered,
         PerformAbandoned, PollCheck, PollInspect, broker, transport, hook, history
<1>2. CASE \/ \E e \in Starts : PollFill(e) \/ PollPrepare(e)
           \/ PrepareTimer \/ Switch \/ Rebind \/ KeysArrive \/ Enter
           \/ \E ended \in BOOLEAN : Reset(ended)
  BY <1>2, <1>0
     DEF PollFill, PollPrepare, PrepareTimer, Switch, Rebind, Reset, KeysArrive, Enter, broker,
         transport, hook, history
<1>3. CASE \/ PromptChecked \/ PromptCancelled \/ PromptAccepted \/ PromptDropped \/ Edit
  BY <1>3, <1>0
     DEF PromptChecked, PromptCancelled, PromptAccepted, PromptDropped, Edit, broker, transport,
         hook, history
<1>4. ASSUME NEW q \in Req, Submit(q)
      PROVE  Order'
  <2>1. exchange[q] = "none" /\ exchange' \in {[exchange EXCEPT ![q] = "open"],
                                              [exchange EXCEPT ![q] = "queued"]}
        /\ UNCHANGED <<expired, earlier, seen>>
    BY <1>4 DEF Submit, Open, Results, hook
  <2>2. q \notin expired
    BY <2>1 DEF Read, Slot, Opened
  <2> QED
    BY <2>1, <2>2 DEF Order, BrokerType, PollType
<1>5. ASSUME NEW q \in Req, SubmitContinues(q)
      PROVE  Order'
  <2>1. exchange[q] = "queued" /\ exchange' \in {[exchange EXCEPT ![q] = "open"],
                                                [exchange EXCEPT ![q] = "over"]}
        /\ UNCHANGED <<expired, earlier, seen>>
    BY <1>5 DEF SubmitContinues, Open, hook
  <2>2. q \notin expired
    BY <2>1 DEF Read, Slot, Opened
  <2> QED
    BY <2>1, <2>2 DEF Order, BrokerType, PollType
<1>6. ASSUME NEW q \in Req, Expire(q)
      PROVE  Order'
  <2>1. /\ expired' = expired \cup {q} /\ earlier[q] \subseteq expired /\ exchange[q] # "open"
        /\ UNCHANGED <<exchange, earlier, seen>>
    BY <1>6 DEF Expire, broker
  <2> QED
    BY <2>1 DEF Order
<1>7. ASSUME NEW a \in Aux, Inquire(a)
      PROVE  Order'
  BY <1>7 DEF Inquire, Open, hook, history, Order, BrokerType, PollType
<1>8. ASSUME NEW id \in Ids, Timeout(id)
      PROVE  Order'
  BY <1>8 DEF Timeout, Fail, Conclude, transport, hook, history, Order, BrokerType, PollType
<1>9. CASE Dispose
  BY <1>9 DEF Dispose, Fail, Conclude, transport, hook, history, Order, BrokerType, PollType
<1>10. CASE PerformEnd
  <2>1. UNCHANGED <<earlier, expired, seen>> /\ \A i \in Ids : exchange'[i] = "open" => exchange[i] = "open"
    <3> DEFINE id == Head(chain)
    <3>1. id \in Ids
      BY <1>10, HeadOpened DEF PerformEnd, Slot
    <3>2. exchange' \in {exchange, [exchange EXCEPT ![id] = "over"]}
      BY <1>10 DEF PerformEnd, Settle, Fail
    <3> HIDE DEF id
    <3>3. \A i \in Ids : exchange'[i] = "open" => exchange[i] = "open"
      BY <3>1, <3>2 DEF BrokerType
    <3> QED
      BY <1>10, <3>3 DEF PerformEnd, hook
  <2> QED
    BY <2>1 DEF Order, PollType
<1>11. ASSUME NEW e \in Starts, PollRead(e)
      PROVE  Order'
  <2>1. /\ request \in Ids \ seen /\ seen' = seen \cup {request}
        /\ earlier' = [earlier EXCEPT ![request] = seen \cap Req]
        /\ UNCHANGED <<exchange, expired>>
    BY <1>11 DEF PollRead, SlotType, broker
  <2>2. earlier'[request] = seen \cap Req /\ \A id \in Ids \ {request} : earlier'[id] = earlier[id]
    BY <2>1 DEF PollType
  <2>3. \A id \in Ids \ {request} : request \notin earlier[id] /\ request \notin expired
    BY <2>1 DEF Order, Read
  <2>4. \A q \in expired : q \in Ids \ {request}
    BY <2>1 DEF Read, PollType
  <2> QED
    BY <2>1, <2>2, <2>3, <2>4 DEF Order
<1>12. CASE UNCHANGED vars
  BY <1>12, <1>0 DEF vars, broker, transport, hook, history
<1> QED
  BY <1>1, <1>2, <1>3, <1>4, <1>5, <1>6, <1>7, <1>8, <1>9, <1>10, <1>11, <1>12
     DEF Next, PerformStep, PollStep, PromptStep, Starts

----------------------------------------------------------------------------
(* The queue of keys *)

\* A line of keys that grows no longer keeps its order.
LEMMA QueueLess ==
    ASSUME TypeOK, Queue, UNCHANGED earlier, keys' = keys \/ (keys # <<>> /\ keys' = Tail(keys)),
           poll'[epoch'].id \in {None, poll[epoch].id}, pending' \in {pending, None},
           \A q \in Req : Ready(q)' => Ready(q) /\ poll'[epoch'].id = None
    PROVE  Queue'
<1>1. Coming(keys') \subseteq Coming(keys)
  BY ComingLess DEF TypeOK
<1>2. \A i, j \in DOMAIN keys' : i < j => keys'[i] \in earlier[keys'[j]]
  <2>1. CASE keys' = keys
    BY <2>1 DEF Queue
  <2>2. CASE keys # <<>> /\ keys' = Tail(keys)
    <3>1. \A i \in DOMAIN keys' : i + 1 \in DOMAIN keys /\ keys'[i] = keys[i + 1] /\ i \in Nat
      BY <2>2, ComingLess DEF TypeOK
    <3>2. \A i, j \in DOMAIN keys' : i < j => i + 1 < j + 1
      BY <3>1
    <3> QED
      BY <3>1, <3>2 DEF Queue
  <2> QED
    BY <2>1, <2>2
<1>3. \A o, k : NotBefore(o, k)' <=> NotBefore(o, k)
  BY DEF NotBefore
<1> QED
  BY <1>1, <1>2, <1>3 DEF Queue

\* Nobody becomes ready by an outcome.
LEMMA ReadyBeside ==
    ASSUME NEW x, NEW o, o # "prepared", response' \in {response, [id |-> x, kind |-> o]},
           UNCHANGED <<exchange, dispatched>>
    PROVE  \A q \in Req : Ready(q)' => Ready(q)
BY DEF Ready

\* Whoever is ready is the request in the slot, and was read.
LEMMA ReadyRead ==
    ASSUME TypeOK, Slot, Replies, NEW q \in Req, Ready(q)
    PROVE  q \in seen /\ request = q
<1>1. response = [id |-> q, kind |-> "prepared"] /\ response # None
  BY FrameThere DEF Ready, Ids
<1>2. q \in seen
  BY <1>1 DEF Replies
<1> QED
  BY <1>2 DEF Slot, Ready

\* An exchange that begins is nobody's who is ready.
LEMMA ReadyBegins ==
    ASSUME TypeOK, Slot, Replies, NEW x \in Ids, exchange[x] \in {"none", "queued"},
           NEW state, exchange' = [exchange EXCEPT ![x] = state],
           UNCHANGED <<dispatched, response>>
    PROVE  \A q \in Req : Ready(q)' => Ready(q)
<1>1. ASSUME NEW q \in Req, Ready(q)'
      PROVE  Ready(q)
  <2>1. response = [id |-> q, kind |-> "prepared"] /\ response # None
    BY <1>1, FrameThere DEF Ready, Ids
  <2>2. Opened(q)
    BY <2>1 DEF Replies, Slot
  <2>3. exchange'[q] = exchange[q]
    BY <2>2 DEF Opened, TypeOK, Ids
  <2> QED
    BY <1>1, <2>3 DEF Ready
<1> QED
  BY <1>1

\* The end of an exchange makes no other ready.
LEMMA ReadyEnds ==
    ASSUME TypeOK, NEW x \in Ids, exchange' = [exchange EXCEPT ![x] = "over"],
           UNCHANGED dispatched, response' \in {response, None}
    PROVE  \A q \in Req : Ready(q)' => Ready(q)
<1>1. \A q \in Req : exchange'[q] = "open" => exchange[q] = "open"
  BY DEF TypeOK, Ids
<1>2. \A q \in Req : [id |-> q, kind |-> "prepared"] # None
  BY FrameThere DEF Ids
<1> QED
  BY <1>1, <1>2 DEF Ready

\* A poll that ends.
LEMMA QueueEnded ==
    ASSUME TypeOK, Queue, NEW e \in Starts, PollEnd(e) \/ (\E s : PollAt(e, s, poll[e].id)),
           UNCHANGED <<earlier, keys, epoch>>, pending' \in {pending, None},
           \A q \in Req : Ready(q)' => Ready(q)
    PROVE  Queue'
<1>1. PICK p : p.id \in {None, poll[e].id} /\ poll' = [poll EXCEPT ![e] = p]
  BY DEF PollEnd, PollAt
<1>2. poll'[epoch].id \in {None, poll[epoch].id}
  BY <1>1 DEF TypeOK, Starts
<1> QED
  BY <1>2, QueueLess DEF Queue

\* The keys of a submission may be typed once the box was found to hold its draft.
LEMMA ReadyStep ==
    ASSUME TypeOK, Slot, Results, Replies, Polls, Read, [Next]_vars
    PROVE  \A q \in Req : Ready(q)' =>
             Ready(q) \/ (poll[epoch].step = "filled" /\ poll[epoch].id = q /\ pending' = q)
<1> USE Parts, IdAssumption DEF Ids, Starts
<1> DEFINE Later ==
      \A q \in Req : Ready(q)' =>
         Ready(q) \/ (poll[epoch].step = "filled" /\ poll[epoch].id = q /\ pending' = q)
<1>0. ASSUME UNCHANGED <<exchange, dispatched, response>>
      PROVE  Later
  BY <1>0 DEF Ready
<1>1. CASE \/ \E q \in Req : Expire(q)
           \/ PerformStart \/ PerformPublish \/ PerformAnswered \/ PerformAbandoned
           \/ Switch \/ Rebind
           \/ \E e \in Starts : PollRead(e)
  BY <1>1, <1>0
     DEF Expire, PerformStart, PerformPublish, PerformAnswered, PerformAbandoned, PollRead,
         Switch, Rebind, broker, transport, hook, history
<1>2. CASE \/ KeysArrive \/ Enter \/ PromptChecked \/ Edit
  BY <1>2, <1>0 DEF KeysArrive, Enter, PromptChecked, Edit, broker, transport, hook, history
<1>3. ASSUME NEW q \in Req, Submit(q)
      PROVE  Later
  <2>1. exchange[q] \in {"none", "queued"} /\ UNCHANGED <<dispatched, response>>
    BY <1>3 DEF Submit, Results
  <2>2. PICK state : exchange' = [exchange EXCEPT ![q] = state]
    BY <1>3 DEF Submit, Open
  <2> QED
    BY <2>1, <2>2, ReadyBegins
<1>4. ASSUME NEW q \in Req, SubmitContinues(q)
      PROVE  Later
  <2>1. exchange[q] \in {"none", "queued"} /\ UNCHANGED <<dispatched, response>>
    BY <1>4 DEF SubmitContinues, Results
  <2>2. PICK state : exchange' = [exchange EXCEPT ![q] = state]
    BY <1>4 DEF SubmitContinues, Open
  <2> QED
    BY <2>1, <2>2, ReadyBegins
<1>5. ASSUME NEW a \in Aux, Inquire(a)
      PROVE  Later
  <2>1. exchange[a] \in {"none", "queued"} /\ UNCHANGED <<dispatched, response>>
    BY <1>5 DEF Inquire, Results
  <2>2. PICK state : exchange' = [exchange EXCEPT ![a] = state]
    BY <1>5 DEF Inquire, Open
  <2> QED
    BY <2>1, <2>2, ReadyBegins
<1>6. ASSUME NEW id \in Ids, Timeout(id)
      PROVE  Later
  <2>1. exchange' = [exchange EXCEPT ![id] = "over"] /\ UNCHANGED <<dispatched, response>>
    BY <1>6 DEF Timeout, Fail
  <2> QED
    BY <2>1, ReadyEnds
<1>7. CASE Dispose
  <2>1. UNCHANGED <<dispatched, response>>
    BY <1>7 DEF Dispose
  <2>2. CASE UNCHANGED exchange
    BY <2>1, <2>2, <1>0
  <2>3. ASSUME NEW id \in Ids, Fail(id)
        PROVE  Later
    BY <2>1, <2>3, ReadyEnds DEF Fail
  <2> QED
    BY <1>7, <2>2, <2>3 DEF Dispose
<1>8. CASE PerformClear
  <2>1. response' \in {response, None} /\ UNCHANGED <<exchange, dispatched>>
    BY <1>8 DEF PerformClear, broker
  <2>2. \A q \in Req : [id |-> q, kind |-> "prepared"] # None
    BY FrameThere
  <2> QED
    BY <2>1, <2>2 DEF Ready
<1>9. ASSUME NEW q \in Req, PerformPrepared(q)
      PROVE  Later
  <2>1. /\ dispatched \subseteq dispatched'
        /\ UNCHANGED <<response, exchange>>
    BY <1>9 DEF PerformPrepared
  <2> QED
    BY <2>1 DEF Ready
<1>10. CASE PerformEnd
  <2> DEFINE id == Head(chain)
  <2>1. id \in Ids
    BY <1>10, HeadOpened DEF PerformEnd, Slot
  <2>2. response' \in {response, None} /\ UNCHANGED dispatched
    BY <1>10 DEF PerformEnd
  <2>3. exchange' \in {exchange, [exchange EXCEPT ![id] = "over"]}
    BY <1>10 DEF PerformEnd, Settle, Fail
  <2>4. \A q \in Req : [id |-> q, kind |-> "prepared"] # None
    BY FrameThere
  <2> HIDE DEF id
  <2> QED
    BY <2>1, <2>2, <2>3, <2>4 DEF Ready, BrokerType
<1>11. ASSUME NEW e \in Starts, PollCheck(e)
      PROVE  Later
  <2>1. UNCHANGED <<exchange, dispatched>>
    BY <1>11 DEF PollCheck, broker
  <2>2. CASE PollRejects(e)
    <3>1. Finish(poll[e].id, "rejected") /\ poll[e].id \in seen
      BY <1>11, <2>2, PollRead1 DEF PollCheck, PollRejects
    <3> QED
      BY <2>1, <3>1, Finished, ReadyBeside
  <2>3. CASE UNCHANGED response \/ Reply(poll[e].id, "data")
    BY <2>1, <2>3, ReadyBeside DEF Reply
  <2> QED
    BY <1>11, <2>2, <2>3 DEF PollCheck
<1>12. ASSUME NEW e \in Starts, PollInspect(e)
      PROVE  Later
  <2>1. UNCHANGED <<exchange, dispatched>>
    BY <1>12 DEF PollInspect, broker
  <2>2. CASE PollRejects(e)
    <3>1. Finish(poll[e].id, "rejected") /\ poll[e].id \in seen
      BY <1>12, <2>2, PollRead1 DEF PollInspect, PollRejects
    <3> QED
      BY <2>1, <3>1, Finished, ReadyBeside
  <2>3. CASE UNCHANGED response
    BY <2>1, <2>3, <1>0
  <2> QED
    BY <1>12, <2>2, <2>3 DEF PollInspect
<1>13. ASSUME NEW e \in Starts, PollFill(e)
      PROVE  Later
  <2>1. UNCHANGED <<exchange, dispatched>>
    BY <1>13 DEF PollFill, broker
  <2>2. CASE PollRejects(e)
    <3>1. Finish(poll[e].id, "rejected") /\ poll[e].id \in seen
      BY <1>13, <2>2, PollRead1 DEF PollFill, PollRejects
    <3> QED
      BY <2>1, <3>1, Finished, ReadyBeside
  <2>3. CASE UNCHANGED response
    BY <2>1, <2>3, <1>0
  <2> QED
    BY <1>13, <2>2, <2>3 DEF PollFill
<1>14. ASSUME NEW e \in Starts, PollPrepare(e)
      PROVE  Later
  <2>1. UNCHANGED <<exchange, dispatched>>
    BY <1>14 DEF PollPrepare, broker
  <2>2. CASE PollRejects(e)
    <3>1. Finish(poll[e].id, "rejected") /\ poll[e].id \in seen
      BY <1>14, <2>2, PollRead1 DEF PollPrepare, PollRejects
    <3> QED
      BY <2>1, <3>1, Finished, ReadyBeside
  <2>3. CASE StillCurrent(e)
    <3>1. response' \in {response, [id |-> poll[e].id, kind |-> "prepared"]} /\ e = epoch
      BY <1>14, <2>3 DEF PollPrepare, Reply, StillCurrent
    <3>2. pending' = poll[e].id /\ poll[e].step = "filled"
      BY <1>14, <2>3 DEF PollPrepare
    <3>3. \A q \in Req : Ready(q)' => Ready(q) \/ poll[e].id = q
      BY <2>1, <3>1 DEF Ready
    <3> QED
      BY <3>1, <3>2, <3>3
  <2> QED
    BY <1>14, <2>2, <2>3 DEF PollPrepare
<1>15. CASE PrepareTimer
  <2>1. pending \in seen /\ Finish(pending, "unconfirmed") /\ UNCHANGED <<exchange, dispatched>>
    BY <1>15 DEF PrepareTimer, Read, PollType, broker
  <2> QED
    BY <2>1, Finished, ReadyBeside
<1>16. ASSUME NEW ended \in BOOLEAN, Reset(ended)
      PROVE  Later
  <2>1. UNCHANGED <<exchange, dispatched>>
    BY <1>16 DEF Reset, broker
  <2>2. CASE pending # None
    <3>1. pending \in seen /\ Finish(pending, "rejected")
      BY <1>16, <2>2 DEF Reset, Read
    <3> QED
      BY <2>1, <3>1, Finished, ReadyBeside
  <2>3. CASE pending = None
    BY <1>16, <2>1, <2>3, <1>0 DEF Reset
  <2> QED
    BY <2>2, <2>3
<1>17. CASE PromptCancelled
  <2>1. UNCHANGED <<exchange, dispatched>>
    BY <1>17 DEF PromptCancelled, broker
  <2>2. event.owner \in seen /\ Finish(event.owner, "rejected")
    BY <1>17 DEF PromptCancelled, Read
  <2> QED
    BY <2>1, <2>2, Finished, ReadyBeside
<1>18. CASE PromptAccepted
  <2>1. UNCHANGED <<exchange, dispatched>>
    BY <1>18 DEF PromptAccepted, broker
  <2>2. CASE event.owner # None
    <3>1. event.owner \in seen /\ Finish(event.owner, "accepted")
      BY <1>18, <2>2 DEF PromptAccepted, Read
    <3> QED
      BY <2>1, <3>1, Finished, ReadyBeside
  <2>3. CASE event.owner = None
    BY <1>18, <2>1, <2>3, <1>0 DEF PromptAccepted
  <2> QED
    BY <2>2, <2>3
<1>19. CASE PromptDropped
  <2>1. UNCHANGED <<exchange, dispatched>>
    BY <1>19 DEF PromptDropped, broker
  <2>2. CASE event.owner # None /\ Finish(event.owner, "rejected")
    <3>1. event.owner \in seen
      BY <2>2 DEF Read
    <3> QED
      BY <2>1, <2>2, <3>1, Finished, ReadyBeside
  <2>3. CASE UNCHANGED response
    BY <2>1, <2>3, <1>0
  <2> QED
    BY <1>19, <2>2, <2>3 DEF PromptDropped
<1>20. CASE UNCHANGED vars
  BY <1>20, <1>0 DEF vars, broker, transport, hook, history
<1> QED
  BY <1>1, <1>2, <1>3, <1>4, <1>5, <1>6, <1>7, <1>8, <1>9, <1>10, <1>11, <1>12, <1>13, <1>14,
     <1>15, <1>16, <1>17, <1>18, <1>19, <1>20
     DEF Next, PerformStep, PollStep, PromptStep, Starts

\* It may not, as long as the hook prepares nothing else.
LEMMA ReadyKept ==
    ASSUME TypeOK, Slot, Results, Replies, Polls, Read, [Next]_vars, pending' \in {pending, None}
    PROVE  \A q \in Req : Ready(q)' => Ready(q)
<1>1. \A q \in Req : poll[epoch].id = q => pending # q /\ q # None
  BY IdAssumption DEF Polls, Fresh, TypeOK, Starts
<1> QED
  BY <1>1, ReadyStep

\* Keys are typed in the order in which their requests were read.
LEMMA QueueStep ==
    ASSUME TypeOK, Slot, Results, Replies, Polls, Read, Queue, [Next]_vars
    PROVE  Queue'
<1> USE Parts, IdAssumption DEF Ids, Starts
<1>0. ASSUME UNCHANGED <<keys, earlier, poll, epoch, pending>>
      PROVE  Queue'
  BY <1>0, ReadyKept, QueueLess DEF Queue
<1>1. CASE \/ \E q \in Req : Submit(q) \/ SubmitContinues(q) \/ Expire(q)
           \/ \E a \in Aux : Inquire(a)
           \/ \E id \in Ids : Timeout(id)
           \/ Dispose \/ PerformStart \/ PerformClear
  BY <1>1, <1>0
     DEF Submit, SubmitContinues, Expire, Inquire, Timeout, Dispose, PerformStart, PerformClear,
         broker, transport, hook, history
<1>2. CASE \/ PerformPublish \/ PerformAnswered \/ PerformAbandoned \/ PerformEnd
           \/ Switch \/ Rebind \/ PromptChecked \/ Edit
  BY <1>2, <1>0
     DEF PerformPublish, PerformAnswered, PerformAbandoned, PerformEnd, Switch, Rebind,
         PromptChecked, Edit, broker, transport, hook, history
<1>3. ASSUME NEW q \in Req, PerformPrepared(q)
      PROVE  Queue'
  <2>1. /\ Ready(q) /\ dispatched' = dispatched \cup {q} /\ keys' \in {keys, Append(keys, q)}
        /\ UNCHANGED <<response, exchange, earlier, poll, epoch, pending>>
    BY <1>3 DEF PerformPrepared, Abandoned, Ready, hook
  <2>2. \A p \in Req : ~Ready(p)'
    BY <2>1 DEF Ready
  <2>3. CASE keys' = keys
    BY <2>1, <2>2, <2>3, QueueLess
  <2>4. CASE keys' = Append(keys, q)
    <3>1. Coming(keys') = Coming(keys) \cup {q}
      BY <2>4, ComingMore DEF BoxType
    <3>2. \A i \in DOMAIN keys : keys[i] \in earlier[q]
      BY <2>1 DEF Queue, Coming
    <3>3. /\ DOMAIN keys' = 1..(Len(keys) + 1) /\ DOMAIN keys = 1..Len(keys) /\ Len(keys) \in Nat
          /\ keys'[Len(keys) + 1] = q /\ \A i \in DOMAIN keys : keys'[i] = keys[i]
      BY <2>4 DEF BoxType
    <3>4. \A i, j \in DOMAIN keys : i < j => keys[i] \in earlier[keys[j]]
      BY DEF Queue
    <3>5. \A i, j \in DOMAIN keys' : i < j =>
            i \in DOMAIN keys /\ (j \in DOMAIN keys \/ j = Len(keys) + 1)
      BY <3>3
    <3>6. \A i, j \in DOMAIN keys' : i < j => keys'[i] \in earlier[keys'[j]]
      BY <3>2, <3>3, <3>4, <3>5
    <3>7. poll[epoch].id = None /\ pending \in {None, q}
      BY <2>1 DEF Queue
    <3>8. \A k \in Coming(keys') : pending # None => NotBefore(pending, k)'
      BY <2>1, <3>1, <3>7 DEF NotBefore, Queue
    <3> QED
      BY <2>1, <2>2, <3>6, <3>7, <3>8 DEF Queue
  <2> QED
    BY <2>1, <2>3, <2>4
<1>4. ASSUME NEW e \in Starts, PollRead(e)
      PROVE  Queue'
  <2>1. /\ request \in Ids \ seen /\ pending = None /\ e = epoch
        /\ earlier' = [earlier EXCEPT ![request] = seen \cap Req]
        /\ UNCHANGED <<keys, epoch, pending, exchange, response, dispatched>>
        /\ poll' = [poll EXCEPT ![e] = [step |-> "checking", id |-> request]]
    BY <1>4 DEF PollRead, PollAt, SlotType, broker
  <2>2. /\ earlier'[request] = seen \cap Req
        /\ \A id \in Ids \ {request} : earlier'[id] = earlier[id]
    BY <2>1 DEF PollType
  <2>3. poll'[epoch].id = request
    BY <2>1 DEF PollType
  <2>4. Coming(keys) \subseteq (seen \cap Req) \ {request}
    BY <2>1, ComingType DEF Read, BoxType
  <2>5. \A i \in DOMAIN keys : keys[i] \in Coming(keys)
    BY DEF Coming
  <2>6. \A i, j \in DOMAIN keys : i < j => keys[i] \in earlier'[keys[j]]
    BY <2>2, <2>4, <2>5 DEF Queue
  <2>7. \A q \in Req : ~Ready(q)'
    BY <2>1, ReadyRead DEF Ready
  <2> QED
    BY <2>1, <2>2, <2>3, <2>4, <2>6, <2>7 DEF Queue
<1>5. ASSUME NEW e \in Starts, PollCheck(e)
      PROVE  Queue'
  <2>1. /\ PollEnd(e) \/ PollAt(e, "inspecting", poll[e].id)
        /\ UNCHANGED <<earlier, keys, epoch>>
    BY <1>5 DEF PollCheck, PollRejects
  <2>2. pending' \in {pending, None}
    BY <1>5 DEF PollCheck, PollRejects, Finish
  <2> QED
    BY <2>1, <2>2, ReadyKept, QueueEnded
<1>6. ASSUME NEW e \in Starts, PollInspect(e)
      PROVE  Queue'
  <2>1. /\ PollEnd(e) \/ PollAt(e, "filling", poll[e].id)
        /\ UNCHANGED <<earlier, keys, epoch>>
    BY <1>6 DEF PollInspect, PollRejects
  <2>2. pending' \in {pending, None}
    BY <1>6 DEF PollInspect, PollRejects, Finish
  <2> QED
    BY <2>1, <2>2, ReadyKept, QueueEnded
<1>7. ASSUME NEW e \in Starts, PollFill(e)
      PROVE  Queue'
  <2>1. /\ PollEnd(e) \/ PollAt(e, "filled", poll[e].id)
        /\ UNCHANGED <<earlier, keys, epoch>>
    BY <1>7 DEF PollFill, PollRejects
  <2>2. pending' \in {pending, None}
    BY <1>7 DEF PollFill, PollRejects, Finish
  <2> QED
    BY <2>1, <2>2, ReadyKept, QueueEnded
<1>8. ASSUME NEW e \in Starts, PollPrepare(e)
      PROVE  Queue'
  <2>1. UNCHANGED <<earlier, keys, epoch, dispatched>> /\ PollEnd(e)
    BY <1>8 DEF PollPrepare, PollRejects, broker
  <2>2. CASE PollRejects(e)
    <3>1. pending' \in {pending, None}
      BY <2>2 DEF PollRejects, Finish
    <3> QED
      BY <2>1, <3>1, ReadyKept, QueueEnded
  <2>3. CASE StillCurrent(e)
    <3> DEFINE q == poll[e].id
    <3>1. e = epoch /\ pending' = q
      BY <1>8, <2>3 DEF PollPrepare, StillCurrent
    <3>2. q \in Req /\ q # None
      BY <1>8, PollIds DEF PollPrepare
    <3>3. poll'[epoch].id = None
      BY <2>1, <3>1 DEF PollEnd, PollAt, PollType
    <3>4. Coming(keys) \subseteq earlier[q]
      BY <3>1, <3>2 DEF Queue
    <3>5. \A p \in Req : Ready(p)' => p = q
      BY <2>1, <3>1, <3>2, ReadyStep DEF Queue
    <3> HIDE DEF q
    <3> QED
      BY <2>1, <3>1, <3>2, <3>3, <3>4, <3>5 DEF Queue, NotBefore
  <2> QED
    BY <1>8, <2>2, <2>3 DEF PollPrepare
<1>9. CASE PrepareTimer
  <2>1. UNCHANGED <<earlier, keys, poll, epoch>>
    BY <1>9 DEF PrepareTimer
  <2>2. pending' \in {pending, None}
    BY <1>9 DEF PrepareTimer, Finish
  <2> QED
    BY <2>1, <2>2, ReadyKept, QueueLess DEF Queue
<1>10. ASSUME NEW ended \in BOOLEAN, Reset(ended)
      PROVE  Queue'
  <2>1. /\ epoch' \in Starts /\ epoch' > epoch
        /\ UNCHANGED <<earlier, keys, poll>>
    BY <1>10, BoundAssumption DEF Reset, PollType
  <2>2. poll'[epoch'].id = None
    BY <2>1 DEF Polls
  <2>3. pending' \in {pending, None}
    BY <1>10 DEF Reset, Finish
  <2> QED
    BY <2>1, <2>2, <2>3, ReadyKept, QueueLess
<1>11. CASE KeysArrive
  <2>1. keys # <<>> /\ keys' = Tail(keys) /\ UNCHANGED <<earlier, poll, epoch>>
    BY <1>11 DEF KeysArrive
  <2>2. pending' \in {pending, None}
    BY <1>11, Guarded DEF KeysArrive
  <2> QED
    BY <2>1, <2>2, ReadyKept, QueueLess DEF Queue
<1>12. CASE Enter
  <2>1. UNCHANGED <<earlier, keys, poll, epoch>>
    BY <1>12 DEF Enter
  <2>2. pending' \in {pending, None}
    BY <1>12, Guarded DEF Enter
  <2> QED
    BY <2>1, <2>2, ReadyKept, QueueLess DEF Queue
<1>13. CASE PromptCancelled
  <2>1. UNCHANGED <<earlier, keys, poll, epoch>>
    BY <1>13 DEF PromptCancelled
  <2>2. pending' \in {pending, None}
    BY <1>13 DEF PromptCancelled, Finish
  <2> QED
    BY <2>1, <2>2, ReadyKept, QueueLess DEF Queue
<1>14. CASE PromptAccepted
  <2>1. UNCHANGED <<earlier, keys, poll, epoch>>
    BY <1>14 DEF PromptAccepted
  <2>2. pending' \in {pending, None}
    BY <1>14 DEF PromptAccepted, Finish
  <2> QED
    BY <2>1, <2>2, ReadyKept, QueueLess DEF Queue
<1>15. CASE PromptDropped
  <2>1. UNCHANGED <<earlier, keys, poll, epoch>>
    BY <1>15 DEF PromptDropped
  <2>2. pending' \in {pending, None}
    BY <1>15 DEF PromptDropped, Finish
  <2> QED
    BY <2>1, <2>2, ReadyKept, QueueLess DEF Queue
<1>16. CASE UNCHANGED vars
  BY <1>16, <1>0 DEF vars, broker, transport, hook, history
<1> QED
  BY <1>1, <1>2, <1>3, <1>4, <1>5, <1>6, <1>7, <1>8, <1>9, <1>10, <1>11, <1>12, <1>13, <1>14,
     <1>15, <1>16
     DEF Next, PerformStep, PollStep, PromptStep, Starts

----------------------------------------------------------------------------
(* Turns *)

\* Where no keys are sent and none taken, what was taken stays accounted for;
LEMMA TakenLess ==
    ASSUME TypeOK, TurnTaken, crossed \subseteq crossed', event'.text \in {event.text, None},
           Coming(keys') \subseteq Coming(keys), \A q \in Req : Ready(q)' => Ready(q),
           \A e \in Starts : poll'[e].id \in {poll[e].id, None}
    PROVE  TurnTaken'
BY IdAssumption DEF TurnTaken, Ids

\* so does what is in the box,
LEMMA HeldLess ==
    ASSUME TypeOK, TurnHeld, crossed \subseteq crossed', box' \notin Req \ {box},
           Coming(keys') \subseteq Coming(keys), pending' \in {pending, None},
           poll'[epoch'].step = "filled" => poll[epoch].step = "filled"
    PROVE  TurnHeld'
BY ComingType DEF TurnHeld, TypeOK

\* and the submission Claude is taking.
LEMMA OwnedLess ==
    ASSUME TurnOwned, crossed \subseteq crossed', dispatched \subseteq dispatched',
           event'.owner \in {event.owner, None}, Coming(keys') \subseteq Coming(keys),
           pending' \in {pending, None}
    PROVE  TurnOwned'
BY DEF TurnOwned

\* The polls after one of them moved or ended.
LEMMA PollsAfter ==
    ASSUME TypeOK, NEW e \in Starts,
           PollEnd(e) \/ (\E s \in {"inspecting", "filling"} : PollAt(e, s, poll[e].id))
    PROVE  /\ \A f \in Starts : poll'[f].id \in {poll[f].id, None}
           /\ poll'[epoch].step = "filled" => poll[epoch].step = "filled"
<1>1. PICK p : /\ p.id \in {poll[e].id, None} /\ p.step # "filled"
               /\ poll' = [poll EXCEPT ![e] = p]
  BY DEF PollEnd, PollAt
<1> QED
  BY <1>1 DEF TypeOK, Starts

\* A draft that Claude is taking is prepared no more.
LEMMA TakenStep ==
    ASSUME TypeOK, Slot, Results, Replies, Drafts, Polls, Read, Order, Queue, TurnTaken, [Next]_vars
    PROVE  TurnTaken'
<1> USE Parts, IdAssumption DEF Ids, Starts
<1>0. ASSUME UNCHANGED <<event, keys, poll, pending, crossed>>
      PROVE  TurnTaken'
  BY <1>0, ReadyKept DEF TurnTaken
<1>1. CASE \/ \E q \in Req : Submit(q) \/ SubmitContinues(q) \/ Expire(q)
           \/ \E a \in Aux : Inquire(a)
           \/ \E id \in Ids : Timeout(id)
           \/ Dispose \/ PerformStart \/ PerformClear
  BY <1>1, <1>0
     DEF Submit, SubmitContinues, Expire, Inquire, Timeout, Dispose, PerformStart, PerformClear,
         broker, transport, hook, history
<1>2. CASE \/ PerformPublish \/ PerformAnswered \/ PerformAbandoned \/ PerformEnd
           \/ Switch \/ Rebind \/ Edit
  BY <1>2, <1>0
     DEF PerformPublish, PerformAnswered, PerformAbandoned, PerformEnd, Switch, Rebind, Edit,
         broker, transport, hook, history
<1>3. ASSUME NEW q \in Req, PerformPrepared(q)
      PROVE  TurnTaken'
  <2>1. /\ Ready(q) /\ dispatched' = dispatched \cup {q} /\ keys' \in {keys, Append(keys, q)}
        /\ UNCHANGED <<event, poll, pending, crossed>>
    BY <1>3 DEF PerformPrepared, Abandoned, Ready, hook, history
  <2>2. Coming(Append(keys, q)) = Coming(keys) \cup {q}
    BY ComingMore DEF BoxType
  <2> QED
    BY <2>1, <2>2, ReadyKept DEF TurnTaken
<1>4. ASSUME NEW e \in Starts, PollRead(e)
      PROVE  TurnTaken'
  <2>1. /\ UNCHANGED <<event, keys, pending, crossed>> /\ request \in Ids \ seen
        /\ poll' = [poll EXCEPT ![e] = [step |-> "checking", id |-> request]]
    BY <1>4 DEF PollRead, PollAt, SlotType, history
  <2>2. \A f \in Starts : poll'[f].id \in {poll[f].id, request}
    BY <2>1 DEF PollType
  <2>3. \A q \in Req : event.text = q => q # request
    BY <2>1 DEF Drafts
  <2> QED
    BY <2>1, <2>2, <2>3, ReadyKept DEF TurnTaken
<1>5. ASSUME NEW e \in Starts, PollCheck(e)
      PROVE  TurnTaken'
  <2>1. /\ PollEnd(e) \/ PollAt(e, "inspecting", poll[e].id)
        /\ UNCHANGED <<event, keys, crossed>>
    BY <1>5 DEF PollCheck, PollRejects, history
  <2>2. pending' \in {pending, None}
    BY <1>5 DEF PollCheck, PollRejects, Finish
  <2> QED
    BY <2>1, <2>2, PollsAfter, ReadyKept, TakenLess
<1>6. ASSUME NEW e \in Starts, PollInspect(e)
      PROVE  TurnTaken'
  <2>1. /\ PollEnd(e) \/ PollAt(e, "filling", poll[e].id)
        /\ UNCHANGED <<event, keys, crossed>>
    BY <1>6 DEF PollInspect, PollRejects, history
  <2>2. pending' \in {pending, None}
    BY <1>6 DEF PollInspect, PollRejects, Finish
  <2> QED
    BY <2>1, <2>2, PollsAfter, ReadyKept, TakenLess
<1>7. ASSUME NEW e \in Starts, PollFill(e)
      PROVE  TurnTaken'
  <2>1. /\ PollEnd(e) \/ PollAt(e, "filled", poll[e].id)
        /\ UNCHANGED <<event, keys, crossed>>
    BY <1>7 DEF PollFill, PollRejects, history
  <2>2. pending' \in {pending, None}
    BY <1>7 DEF PollFill, PollRejects, Finish
  <2>3. PICK p : p.id \in {poll[e].id, None} /\ poll' = [poll EXCEPT ![e] = p]
    BY <2>1 DEF PollEnd, PollAt
  <2>4. \A f \in Starts : poll'[f].id \in {poll[f].id, None}
    BY <2>3 DEF PollType
  <2> QED
    BY <2>1, <2>2, <2>4, ReadyKept, TakenLess
<1>8. ASSUME NEW e \in Starts, PollPrepare(e)
      PROVE  TurnTaken'
  <2>1. /\ PollEnd(e) /\ UNCHANGED <<event, keys>> /\ crossed \subseteq crossed'
    BY <1>8 DEF PollPrepare, PollRejects
  <2>2. \A f \in Starts : poll'[f].id \in {poll[f].id, None}
    BY <2>1, PollsAfter
  <2>3. \A q \in Req : Ready(q)' => Ready(q) \/ poll[epoch].id = q
    BY ReadyStep
  <2> QED
    BY <2>1, <2>2, <2>3 DEF TurnTaken, PollType
<1>9. CASE PrepareTimer
  <2>1. UNCHANGED <<event, keys, poll, crossed>>
    BY <1>9 DEF PrepareTimer, history
  <2>2. pending' \in {pending, None}
    BY <1>9 DEF PrepareTimer, Finish
  <2> QED
    BY <2>1, <2>2, ReadyKept, TakenLess
<1>10. ASSUME NEW ended \in BOOLEAN, Reset(ended)
      PROVE  TurnTaken'
  <2>1. UNCHANGED <<event, keys, poll, crossed>>
    BY <1>10 DEF Reset
  <2>2. pending' \in {pending, None}
    BY <1>10 DEF Reset, Finish
  <2> QED
    BY <2>1, <2>2, ReadyKept, TakenLess
<1>11. CASE KeysArrive
  <2>1. keys # <<>> /\ keys' = Tail(keys) /\ UNCHANGED <<poll, dispatched>>
    BY <1>11 DEF KeysArrive, broker
  <2>2. \A q \in Req : Ready(q)' => Ready(q)
    BY <1>11, Guarded, ReadyKept DEF KeysArrive
  <2>3. Coming(keys') \subseteq Coming(keys)
    BY <2>1, HeadOnce
  <2>4. CASE UNCHANGED <<event, crossed>>
    BY <2>1, <2>2, <2>3, <2>4, TakenLess
  <2>5. ASSUME NEW q \in Req \ crossed', PromptSubmit(Head(keys)), event'.text = q,
               crossed' = IF box = Head(keys) /\ Head(keys) \notin crossed THEN crossed
                          ELSE crossed \cup Overdue
        PROVE  q \notin Coming(keys') /\ ~Ready(q)' /\ \A e \in Starts : poll'[e].id # q
    <3>1. q = box
      BY <2>5 DEF PromptSubmit
    <3>2. q = Head(keys)
      BY <2>5, <3>1 DEF Overdue
    <3>3. q \in dispatched /\ q \notin Coming(keys')
      BY <2>1, <3>2, HeadOnce
    <3>4. ~Ready(q)
      BY <3>3 DEF Ready
    <3>5. \A e \in Starts : poll[e].id # q
      BY <3>3 DEF Polls, Fresh
    <3> QED
      BY <2>1, <2>2, <3>3, <3>4, <3>5
  <2> QED
    BY <1>11, <2>4, <2>5 DEF KeysArrive, TurnTaken
<1>12. CASE Enter
  <2>1. event'.text = box /\ crossed' = crossed \cup Overdue
    BY <1>12 DEF Enter, PromptSubmit
  <2> QED
    BY <2>1 DEF TurnTaken, Overdue
<1>13. CASE PromptChecked
  <2>1. event'.text = event.text /\ UNCHANGED <<keys, poll, pending, crossed>>
    BY <1>13, EventOwner DEF PromptChecked, hook, history
  <2> QED
    BY <2>1, ReadyKept, TakenLess
<1>14. CASE PromptCancelled
  <2>1. event'.text = None /\ UNCHANGED <<keys, poll, crossed>>
    BY <1>14 DEF PromptCancelled, Quiet, history
  <2> QED
    BY <2>1 DEF TurnTaken
<1>15. CASE PromptAccepted
  <2>1. event'.text = None /\ UNCHANGED <<keys, poll, crossed>>
    BY <1>15 DEF PromptAccepted, Quiet
  <2> QED
    BY <2>1 DEF TurnTaken
<1>16. CASE PromptDropped
  <2>1. event'.text = None /\ UNCHANGED <<keys, poll, crossed>>
    BY <1>16 DEF PromptDropped, Quiet, history
  <2> QED
    BY <2>1 DEF TurnTaken
<1>17. CASE UNCHANGED vars
  BY <1>17, <1>0 DEF vars, broker, transport, hook, history
<1> QED
  BY <1>1, <1>2, <1>3, <1>4, <1>5, <1>6, <1>7, <1>8, <1>9, <1>10, <1>11, <1>12, <1>13, <1>14,
     <1>15, <1>16, <1>17
     DEF Next, PerformStep, PollStep, PromptStep, Starts

\* A draft in the box that is about to be sent is the one that was prepared last.
LEMMA HeldStep ==
    ASSUME TypeOK, Polls, Read, Order, Queue, TurnTaken, TurnHeld, [Next]_vars
    PROVE  TurnHeld'
<1> USE Parts, IdAssumption DEF Ids, Starts
<1>0. ASSUME UNCHANGED <<box, keys, pending, poll, epoch, crossed>>
      PROVE  TurnHeld'
  BY <1>0 DEF TurnHeld
<1>1. CASE \/ \E q \in Req : Submit(q) \/ SubmitContinues(q) \/ Expire(q)
           \/ \E a \in Aux : Inquire(a)
           \/ \E id \in Ids : Timeout(id)
           \/ Dispose \/ PerformStart \/ PerformClear
  BY <1>1, <1>0
     DEF Submit, SubmitContinues, Expire, Inquire, Timeout, Dispose, PerformStart, PerformClear,
         broker, transport, hook, history
<1>2. CASE \/ PerformPublish \/ PerformAnswered \/ PerformAbandoned \/ PerformEnd
           \/ Switch \/ Rebind \/ PromptChecked
  BY <1>2, <1>0
     DEF PerformPublish, PerformAnswered, PerformAbandoned, PerformEnd, Switch, Rebind,
         PromptChecked, broker, transport, hook, history
<1>3. ASSUME NEW q \in Req, PerformPrepared(q)
      PROVE  TurnHeld'
  <2>1. /\ Ready(q) /\ keys' \in {keys, Append(keys, q)}
        /\ UNCHANGED <<box, pending, poll, epoch, crossed>>
    BY <1>3 DEF PerformPrepared, Abandoned, Ready, hook, history
  <2>2. Coming(Append(keys, q)) = Coming(keys) \cup {q}
    BY ComingMore DEF BoxType
  <2>3. pending \in {None, q} /\ poll[epoch].step # "filled"
    BY <2>1 DEF Queue, Polls, PollType
  <2> QED
    BY <2>1, <2>2, <2>3 DEF TurnHeld
<1>4. ASSUME NEW e \in Starts, PollRead(e)
      PROVE  TurnHeld'
  <2>1. /\ UNCHANGED <<box, keys, pending, epoch, crossed>>
        /\ poll' = [poll EXCEPT ![e] = [step |-> "checking", id |-> request]]
    BY <1>4 DEF PollRead, PollAt, history
  <2>2. poll'[epoch].step = "filled" => poll[epoch].step = "filled"
    BY <2>1 DEF PollType
  <2> QED
    BY <2>1, <2>2, HeldLess
<1>5. ASSUME NEW e \in Starts, PollCheck(e)
      PROVE  TurnHeld'
  <2>1. /\ PollEnd(e) \/ PollAt(e, "inspecting", poll[e].id)
        /\ UNCHANGED <<box, keys, epoch, crossed>>
    BY <1>5 DEF PollCheck, PollRejects, history
  <2>2. pending' \in {pending, None}
    BY <1>5 DEF PollCheck, PollRejects, Finish
  <2> QED
    BY <2>1, <2>2, PollsAfter, HeldLess
<1>6. ASSUME NEW e \in Starts, PollInspect(e)
      PROVE  TurnHeld'
  <2>1. /\ PollEnd(e) \/ PollAt(e, "filling", poll[e].id)
        /\ UNCHANGED <<box, keys, epoch, crossed>>
    BY <1>6 DEF PollInspect, PollRejects, history
  <2>2. pending' \in {pending, None}
    BY <1>6 DEF PollInspect, PollRejects, Finish
  <2> QED
    BY <2>1, <2>2, PollsAfter, HeldLess
<1>7. ASSUME NEW e \in Starts, PollFill(e)
      PROVE  TurnHeld'
  <2> DEFINE id == poll[e].id
  <2>1. UNCHANGED <<keys, epoch, crossed>> /\ poll[e].step = "filling"
    BY <1>7 DEF PollFill, history
  <2>2. pending' \in {pending, None}
    BY <1>7 DEF PollFill, PollRejects, Finish
  <2>3. CASE PollAt(e, "filled", id) /\ box' = id
    <3>1. id \notin Coming(keys)
      BY <2>1, PollRead1 DEF Fresh, Read
    <3> QED
      BY <2>1, <2>3, <3>1 DEF TurnHeld
  <2>4. CASE PollEnd(e) /\ box' \in {box, "other", id}
    <3>1. box' = box \/ box' \notin Coming(keys)
      BY <2>1, <2>4, PollRead1, ComingType DEF Fresh, Read, BoxType
    <3>2. poll'[epoch].step = "filled" => poll[epoch].step = "filled"
      BY <2>4, PollsAfter
    <3> QED
      BY <2>1, <2>2, <3>1, <3>2 DEF TurnHeld
  <2> QED
    BY <1>7, <2>3, <2>4 DEF PollFill, PollRejects
<1>8. ASSUME NEW e \in Starts, PollPrepare(e)
      PROVE  TurnHeld'
  <2>1. /\ PollEnd(e) /\ UNCHANGED <<box, keys, epoch>> /\ crossed \subseteq crossed'
    BY <1>8 DEF PollPrepare, PollRejects
  <2>2. CASE pending' \in {pending, None}
    BY <2>1, <2>2, PollsAfter, HeldLess
  <2>3. CASE StillCurrent(e)
    <3>1. e = epoch /\ poll[e].step = "filled" /\ UNCHANGED crossed
      BY <1>8, <2>3 DEF PollPrepare, StillCurrent
    <3> QED
      BY <2>1, <3>1 DEF TurnHeld
  <2> QED
    BY <1>8, <2>2, <2>3 DEF PollPrepare, PollRejects, Finish
<1>9. CASE PrepareTimer
  <2>1. UNCHANGED <<box, keys, poll, epoch, crossed>>
    BY <1>9 DEF PrepareTimer, history
  <2>2. pending' \in {pending, None}
    BY <1>9 DEF PrepareTimer, Finish
  <2> QED
    BY <2>1, <2>2, HeldLess
<1>10. ASSUME NEW ended \in BOOLEAN, Reset(ended)
      PROVE  TurnHeld'
  <2>1. UNCHANGED <<box, keys, poll, crossed>> /\ epoch' \in Starts /\ epoch' > epoch
    BY <1>10, BoundAssumption DEF Reset, PollType
  <2>2. poll'[epoch'].step # "filled"
    BY <2>1 DEF Polls
  <2>3. pending' \in {pending, None}
    BY <1>10 DEF Reset, Finish
  <2> QED
    BY <2>1, <2>2, <2>3, HeldLess
<1>11. CASE KeysArrive
  <2>1. keys # <<>> /\ keys' = Tail(keys) /\ UNCHANGED <<poll, epoch>>
    BY <1>11 DEF KeysArrive
  <2>2. Coming(keys') \subseteq Coming(keys)
    BY <2>1, HeadOnce
  <2>3. CASE UNCHANGED <<box, pending, crossed>>
    BY <2>1, <2>2, <2>3, HeldLess
  <2>4. CASE box' = None
    BY <2>4, <2>2, ComingType DEF TurnHeld, BoxType
  <2> QED
    BY <1>11, <2>3, <2>4 DEF KeysArrive, PromptSubmit
<1>12. CASE Enter
  <2>1. box' = None /\ UNCHANGED keys
    BY <1>12 DEF Enter, PromptSubmit
  <2> QED
    BY <2>1, ComingType DEF TurnHeld, BoxType
<1>13. CASE PromptCancelled
  <2>1. box' \in {box, event.text} /\ UNCHANGED <<keys, poll, epoch, crossed>>
    BY <1>13 DEF PromptCancelled, history
  <2>2. pending' \in {pending, None}
    BY <1>13 DEF PromptCancelled, Finish
  <2>3. CASE box' = box
    BY <2>1, <2>2, <2>3, HeldLess
  <2>4. CASE box' = event.text
    BY <2>1, <2>4, ComingType DEF TurnHeld, TurnTaken, BoxType
  <2> QED
    BY <2>1, <2>3, <2>4
<1>14. CASE PromptAccepted
  <2>1. UNCHANGED <<box, keys, poll, epoch, crossed>>
    BY <1>14 DEF PromptAccepted
  <2>2. pending' \in {pending, None}
    BY <1>14 DEF PromptAccepted, Finish
  <2> QED
    BY <2>1, <2>2, HeldLess
<1>15. CASE PromptDropped
  <2>1. UNCHANGED <<box, keys, poll, epoch, crossed>>
    BY <1>15 DEF PromptDropped, history
  <2>2. pending' \in {pending, None}
    BY <1>15 DEF PromptDropped, Finish
  <2> QED
    BY <2>1, <2>2, HeldLess
<1>16. CASE Edit
  <2>1. box' \notin Req /\ UNCHANGED keys
    BY <1>16 DEF Edit
  <2> QED
    BY <2>1, ComingType DEF TurnHeld, BoxType
<1>17. CASE UNCHANGED vars
  BY <1>17, <1>0 DEF vars, broker, transport, hook, history
<1> QED
  BY <1>1, <1>2, <1>3, <1>4, <1>5, <1>6, <1>7, <1>8, <1>9, <1>10, <1>11, <1>12, <1>13, <1>14,
     <1>15, <1>16, <1>17
     DEF Next, PerformStep, PollStep, PromptStep, Starts

\* Keys that make Claude take a draft have none behind them.
LEMMA OwnedStep ==
    ASSUME TypeOK, Polls, Read, Order, Queue, TurnHeld, TurnOwned, [Next]_vars
    PROVE  TurnOwned'
<1> USE Parts, IdAssumption DEF Ids, Starts
<1>0. ASSUME UNCHANGED <<event, pending, keys, crossed, dispatched>>
      PROVE  TurnOwned'
  BY <1>0 DEF TurnOwned
<1>1. CASE \/ \E q \in Req : Submit(q) \/ SubmitContinues(q) \/ Expire(q)
           \/ \E a \in Aux : Inquire(a)
           \/ \E id \in Ids : Timeout(id)
           \/ Dispose \/ PerformStart \/ PerformClear
  BY <1>1, <1>0
     DEF Submit, SubmitContinues, Expire, Inquire, Timeout, Dispose, PerformStart, PerformClear,
         broker, transport, hook, history
<1>2. CASE \/ PerformPublish \/ PerformAnswered \/ PerformAbandoned \/ PerformEnd
           \/ Switch \/ Rebind \/ Edit
           \/ \E e \in Starts : PollRead(e)
  BY <1>2, <1>0
     DEF PerformPublish, PerformAnswered, PerformAbandoned, PerformEnd, PollRead, Switch, Rebind,
         Edit, broker, transport, hook, history
<1>3. ASSUME NEW q \in Req, PerformPrepared(q)
      PROVE  TurnOwned'
  <2>1. /\ Ready(q) /\ dispatched' = dispatched \cup {q} /\ keys' \in {keys, Append(keys, q)}
        /\ UNCHANGED <<event, pending, crossed>>
    BY <1>3 DEF PerformPrepared, Abandoned, Ready, hook, history
  <2>2. Coming(Append(keys, q)) = Coming(keys) \cup {q}
    BY ComingMore DEF BoxType
  <2>3. pending \in {None, q} /\ q \notin dispatched
    BY <2>1 DEF Queue, Ready
  <2> QED
    BY <2>1, <2>2, <2>3 DEF TurnOwned
<1>4. ASSUME NEW e \in Starts, PollCheck(e)
      PROVE  TurnOwned'
  <2>1. UNCHANGED <<event, keys, crossed, dispatched>>
    BY <1>4 DEF PollCheck, broker, history
  <2>2. pending' \in {pending, None}
    BY <1>4 DEF PollCheck, PollRejects, Finish
  <2> QED
    BY <2>1, <2>2, OwnedLess
<1>5. ASSUME NEW e \in Starts, PollInspect(e)
      PROVE  TurnOwned'
  <2>1. UNCHANGED <<event, keys, crossed, dispatched>>
    BY <1>5 DEF PollInspect, broker, history
  <2>2. pending' \in {pending, None}
    BY <1>5 DEF PollInspect, PollRejects, Finish
  <2> QED
    BY <2>1, <2>2, OwnedLess
<1>6. ASSUME NEW e \in Starts, PollFill(e)
      PROVE  TurnOwned'
  <2>1. UNCHANGED <<event, keys, crossed, dispatched>>
    BY <1>6 DEF PollFill, broker, history
  <2>2. pending' \in {pending, None}
    BY <1>6 DEF PollFill, PollRejects, Finish
  <2> QED
    BY <2>1, <2>2, OwnedLess
<1>7. ASSUME NEW e \in Starts, PollPrepare(e)
      PROVE  TurnOwned'
  <2>1. UNCHANGED <<event, keys, dispatched>> /\ crossed \subseteq crossed'
    BY <1>7 DEF PollPrepare, broker
  <2>2. CASE pending' \in {pending, None}
    BY <2>1, <2>2, OwnedLess
  <2>3. CASE pending' = poll[e].id
    <3>1. event.owner # poll[e].id
      BY <1>7, PollRead1 DEF PollPrepare, Fresh
    <3> QED
      BY <2>1, <2>3, <3>1 DEF TurnOwned
  <2> QED
    BY <1>7, <2>2, <2>3 DEF PollPrepare, PollRejects, Finish
<1>8. CASE PrepareTimer
  <2>1. UNCHANGED <<event, keys, crossed, dispatched>>
    BY <1>8 DEF PrepareTimer, broker, history
  <2>2. pending' \in {pending, None}
    BY <1>8 DEF PrepareTimer, Finish
  <2> QED
    BY <2>1, <2>2, OwnedLess
<1>9. ASSUME NEW ended \in BOOLEAN, Reset(ended)
      PROVE  TurnOwned'
  <2>1. UNCHANGED <<event, keys, crossed, dispatched>>
    BY <1>9 DEF Reset, broker
  <2>2. pending' \in {pending, None}
    BY <1>9 DEF Reset, Finish
  <2> QED
    BY <2>1, <2>2, OwnedLess
<1>10. CASE KeysArrive
  <2>1. keys # <<>> /\ keys' = Tail(keys) /\ UNCHANGED dispatched
    BY <1>10 DEF KeysArrive, broker
  <2>2. Coming(keys') \subseteq Coming(keys) /\ Coming(keys') \subseteq Req
    BY <2>1, HeadOnce, ComingType DEF BoxType
  <2>3. CASE UNCHANGED <<event, pending, crossed>>
    BY <2>1, <2>2, <2>3, OwnedLess
  <2>4. pending' \in {pending, None}
    BY <1>10, Guarded DEF KeysArrive
  <2>5. CASE crossed' = crossed \cup Overdue
    BY <2>2, <2>4, <2>5 DEF TurnOwned, Overdue, OwnerType
  <2>6. ASSUME box = Head(keys), Head(keys) \notin crossed, crossed' = crossed,
               pending' # None
        PROVE  Coming(keys') = {} /\ pending' \in dispatched
    <3> DEFINE h == Head(keys)
    <3>1. h \in Coming(keys) /\ h \in dispatched
      BY <2>1, HeadOnce
    <3>2. pending = h /\ pending' = h
      BY <2>4, <2>6, <3>1 DEF TurnHeld
    <3>3. ASSUME NEW k \in Coming(keys')
          PROVE  FALSE
      <4>1. h \in earlier[k] /\ k # h /\ k \in Req /\ h \in Req
        BY <2>1, <2>2, <3>3, HeadOnce
      <4>2. NotBefore(pending, k)
        BY <2>2, <2>6, <3>2, <3>3 DEF Queue
      <4>3. k = h \/ k \in earlier[h]
        BY <3>2, <4>2 DEF NotBefore
      <4> HIDE DEF h
      <4> QED
        BY <4>1, <4>3 DEF Order
    <3> QED
      BY <3>1, <3>2, <3>3
  <2>7. TurnOwned' \/ UNCHANGED <<event, pending, crossed>> \/ crossed' = crossed \cup Overdue
    BY <1>10, <2>1, <2>6 DEF KeysArrive, TurnOwned
  <2> QED
    BY <2>3, <2>5, <2>7
<1>11. CASE Enter
  <2>1. UNCHANGED <<keys, dispatched>> /\ crossed' = crossed \cup Overdue
    BY <1>11 DEF Enter, broker
  <2>2. pending' \in {pending, None}
    BY <1>11, Guarded DEF Enter
  <2> QED
    BY <2>1, <2>2, ComingType DEF TurnOwned, Overdue, OwnerType, BoxType
<1>12. CASE PromptChecked
  <2>1. event'.owner = event.owner /\ UNCHANGED <<keys, pending, crossed, dispatched>>
    BY <1>12, EventOwner DEF PromptChecked, hook, history, broker
  <2> QED
    BY <2>1, OwnedLess
<1>13. CASE PromptCancelled
  <2>1. event'.owner = None
    BY <1>13 DEF PromptCancelled, Quiet
  <2> QED
    BY <2>1 DEF TurnOwned
<1>14. CASE PromptAccepted
  <2>1. event'.owner = None
    BY <1>14 DEF PromptAccepted, Quiet
  <2> QED
    BY <2>1 DEF TurnOwned
<1>15. CASE PromptDropped
  <2>1. event'.owner = None
    BY <1>15 DEF PromptDropped, Quiet
  <2> QED
    BY <2>1 DEF TurnOwned
<1>16. CASE UNCHANGED vars
  BY <1>16, <1>0 DEF vars, broker, transport, hook, history
<1> QED
  BY <1>1, <1>2, <1>3, <1>4, <1>5, <1>6, <1>7, <1>8, <1>9, <1>10, <1>11, <1>12, <1>13, <1>14,
     <1>15, <1>16
     DEF Next, PerformStep, PollStep, PromptStep, Starts

----------------------------------------------------------------------------
(* What the composer says *)

\* The exchange that has ended stays at the head of the chain.
LEMMA HeadStays ==
    ASSUME TypeOK, Slot, NEW id \in Ids, chain' \in {chain, Append(chain, id)}
    PROVE  frame # None => Head(chain') = Head(chain)
<1>1. frame # None => chain # <<>>
  BY DEF Slot
<1>2. chain # <<>> => Head(Append(chain, id)) = Head(chain)
  BY DEF TypeOK
<1> QED
  BY <1>1, <1>2

\* A failed exchange leaves its request unconfirmed, or rejected if it was never
\* sent to the hook.
LEMMA FailType ==
    ASSUME TypeOK, NEW id \in Ids, Fail(id)
    PROVE  \A q \in Req : \/ result'[q] = result[q]
                          \/ result'[q] = "unconfirmed"
                          \/ result'[q] = "rejected" /\ q \notin dispatched
BY DEF TypeOK, Fail, Conclude

\* Nothing is accepted by what is no acceptance, nor rejected by what is no rejection.
LEMMA AcceptedLess ==
    ASSUME Accepted, vouched \subseteq vouched', frame' \in {frame, None},
           frame' = frame /\ frame # None => Head(chain') = Head(chain),
           response' \in {response, None} \/ response'.kind # "accepted",
           \A q \in Req : result'[q] = "accepted" => result[q] = "accepted"
    PROVE  Accepted'
BY NoneAssumption DEF Accepted, Outcomes

\* Where nothing is newly called rejected, each rejection has its completion still.
LEMMA RejectedLess ==
    ASSUME Rejected, completed \subseteq completed', frame' \in {frame, None},
           frame' = frame /\ frame # None => Head(chain') = Head(chain),
           \A q \in Req : response' = [id |-> q, kind |-> "rejected"] =>
               response' = response \/ q \in completed',
           \A q \in Req : result'[q] = "rejected" /\ q \in dispatched' =>
               result[q] = "rejected" /\ q \in dispatched
    PROVE  Rejected'
BY NoneAssumption DEF Rejected, Denied, Outcomes

\* What is called accepted was taken while the hook waited for it.
LEMMA AcceptedStep ==
    ASSUME TypeOK, Slot, Accepted, Accepting, [Next]_vars
    PROVE  Accepted'
<1> USE Parts, IdAssumption DEF Ids, Starts
<1>0. ASSUME UNCHANGED <<response, frame, chain, result, vouched>>
      PROVE  Accepted'
  BY <1>0 DEF Accepted
<1>1. CASE \/ \E q \in Req : Expire(q) \/ PerformPrepared(q)
           \/ PerformStart \/ PerformPublish \/ PerformAbandoned \/ Switch \/ Rebind
           \/ \E e \in Starts : PollRead(e)
  BY <1>1, <1>0
     DEF Expire, PerformStart, PerformPublish, PerformPrepared, PerformAbandoned, PollRead,
         Switch, Rebind, broker, transport, hook, history
<1>2. CASE \/ KeysArrive \/ Enter \/ PromptChecked \/ Edit
  BY <1>2, <1>0 DEF KeysArrive, Enter, PromptChecked, Edit, broker, transport, hook, history
<1>3. ASSUME NEW q \in Req, Submit(q)
      PROVE  Accepted'
  <2>1. chain' \in {chain, Append(chain, q)} /\ UNCHANGED <<response, frame, vouched>>
    BY <1>3 DEF Submit, Open, history
  <2>2. result' = [result EXCEPT ![q] = "waiting"]
    BY <1>3 DEF Submit
  <2> QED
    BY <2>1, <2>2, HeadStays, AcceptedLess DEF BrokerType
<1>4. ASSUME NEW q \in Req, SubmitContinues(q)
      PROVE  Accepted'
  <2>1. chain' \in {chain, Append(chain, q)} /\ UNCHANGED <<response, frame, vouched>>
    BY <1>4 DEF SubmitContinues, Open, history
  <2>2. result' \in {result, [result EXCEPT ![q] = "rejected"]}
    BY <1>4 DEF SubmitContinues, Conclude
  <2> QED
    BY <2>1, <2>2, HeadStays, AcceptedLess DEF BrokerType
<1>5. ASSUME NEW a \in Aux, Inquire(a)
      PROVE  Accepted'
  <2>1. chain' \in {chain, Append(chain, a)} /\ UNCHANGED <<result, response, frame, vouched>>
    BY <1>5 DEF Inquire, Open, history
  <2> QED
    BY <2>1, HeadStays, AcceptedLess
<1>6. ASSUME NEW id \in Ids, Timeout(id)
      PROVE  Accepted'
  <2>1. UNCHANGED <<response, frame, chain, vouched>>
    BY <1>6 DEF Timeout, transport, history
  <2> QED
    BY <1>6, <2>1, FailType, AcceptedLess DEF Timeout
<1>7. CASE Dispose
  <2>1. UNCHANGED <<response, frame, chain, vouched>>
    BY <1>7 DEF Dispose, transport, history
  <2> QED
    BY <1>7, <2>1, FailType, AcceptedLess DEF Dispose
<1>8. CASE PerformClear
  <2>1. response' \in {response, None} /\ UNCHANGED <<result, frame, chain, vouched>>
    BY <1>8 DEF PerformClear, broker, history
  <2> QED
    BY <2>1, AcceptedLess
<1>9. CASE PerformAnswered
  <2>1. /\ response # None /\ response.id = Head(chain) /\ frame' = response.kind
        /\ UNCHANGED <<response, result, chain, vouched>>
    BY <1>9 DEF PerformAnswered, Answers, broker, history
  <2> QED
    BY <2>1 DEF Accepted
<1>10. CASE PerformEnd
  <2> DEFINE id == Head(chain)
  <2>1. id \in Ids
    BY <1>10, HeadOpened DEF PerformEnd, Slot
  <2>2. response' \in {response, None} /\ frame' = None /\ UNCHANGED vouched
    BY <1>10 DEF PerformEnd, history
  <2>3. \A q \in Req : result'[q] = "accepted" => q \in vouched
    <3>1. CASE UNCHANGED result
      BY <3>1 DEF Accepted
    <3>2. CASE Settle(id)
      BY <3>2 DEF Settle, Conclude, Accepted, BrokerType
    <3>3. CASE Fail(id)
      BY <2>1, <3>3, FailType DEF Accepted
    <3> QED
      BY <1>10, <3>1, <3>2, <3>3 DEF PerformEnd
  <2> QED
    BY <2>2, <2>3, NoneAssumption DEF Accepted, Outcomes
<1>11. ASSUME NEW e \in Starts, PollCheck(e)
      PROVE  Accepted'
  <2>1. UNCHANGED <<result, frame, chain, vouched>>
    BY <1>11 DEF PollCheck, broker, transport, history
  <2>2. response' = response \/ response'.kind # "accepted"
    BY <1>11 DEF PollCheck, PollRejects, Finish, Reply
  <2> QED
    BY <2>1, <2>2, AcceptedLess
<1>12. ASSUME NEW e \in Starts, PollInspect(e)
      PROVE  Accepted'
  <2>1. UNCHANGED <<result, frame, chain, vouched>>
    BY <1>12 DEF PollInspect, broker, transport, history
  <2>2. response' = response \/ response'.kind # "accepted"
    BY <1>12 DEF PollInspect, PollRejects, Finish, Reply
  <2> QED
    BY <2>1, <2>2, AcceptedLess
<1>13. ASSUME NEW e \in Starts, PollFill(e)
      PROVE  Accepted'
  <2>1. UNCHANGED <<result, frame, chain, vouched>>
    BY <1>13 DEF PollFill, broker, transport, history
  <2>2. response' = response \/ response'.kind # "accepted"
    BY <1>13 DEF PollFill, PollRejects, Finish, Reply
  <2> QED
    BY <2>1, <2>2, AcceptedLess
<1>14. ASSUME NEW e \in Starts, PollPrepare(e)
      PROVE  Accepted'
  <2>1. UNCHANGED <<result, frame, chain, vouched>>
    BY <1>14 DEF PollPrepare, broker, transport
  <2>2. response' = response \/ response'.kind # "accepted"
    BY <1>14 DEF PollPrepare, PollRejects, Finish, Reply
  <2> QED
    BY <2>1, <2>2, AcceptedLess
<1>15. CASE PrepareTimer
  <2>1. UNCHANGED <<result, frame, chain, vouched>>
    BY <1>15 DEF PrepareTimer, broker, transport, history
  <2>2. response' = response \/ response'.kind # "accepted"
    BY <1>15 DEF PrepareTimer, Finish, Reply
  <2> QED
    BY <2>1, <2>2, AcceptedLess
<1>16. ASSUME NEW ended \in BOOLEAN, Reset(ended)
      PROVE  Accepted'
  <2>1. UNCHANGED <<result, frame, chain, vouched>>
    BY <1>16 DEF Reset, broker, transport
  <2>2. response' = response \/ response'.kind # "accepted"
    BY <1>16 DEF Reset, Finish, Reply
  <2> QED
    BY <2>1, <2>2, AcceptedLess
<1>17. CASE PromptCancelled
  <2>1. UNCHANGED <<result, frame, chain, vouched>>
    BY <1>17 DEF PromptCancelled, broker, transport, history
  <2>2. response' = response \/ response'.kind # "accepted"
    BY <1>17 DEF PromptCancelled, Finish, Reply
  <2> QED
    BY <2>1, <2>2, AcceptedLess
<1>18. CASE PromptAccepted
  <2>1. UNCHANGED <<result, frame, chain>> /\ vouched \subseteq vouched'
    BY <1>18 DEF PromptAccepted, broker, transport
  <2>2. CASE event.owner # None
    <3>1. event.owner \in vouched'
      BY <1>18, <2>2 DEF PromptAccepted, Accepting
    <3>2. response' \in {response, [id |-> event.owner, kind |-> "accepted"]}
      BY <1>18, <2>2 DEF PromptAccepted, Finish, Reply
    <3> QED
      BY <2>1, <3>1, <3>2 DEF Accepted
  <2>3. CASE event.owner = None
    BY <1>18, <2>1, <2>3, AcceptedLess DEF PromptAccepted
  <2> QED
    BY <2>2, <2>3
<1>19. CASE PromptDropped
  <2>1. UNCHANGED <<result, frame, chain, vouched>>
    BY <1>19 DEF PromptDropped, broker, transport, history
  <2>2. response' = response \/ response'.kind # "accepted"
    BY <1>19 DEF PromptDropped, Finish, Reply
  <2> QED
    BY <2>1, <2>2, AcceptedLess
<1>20. CASE UNCHANGED vars
  BY <1>20, <1>0 DEF vars, broker, transport, hook, history
<1> QED
  BY <1>1, <1>2, <1>3, <1>4, <1>5, <1>6, <1>7, <1>8, <1>9, <1>10, <1>11, <1>12, <1>13, <1>14,
     <1>15, <1>16, <1>17, <1>18, <1>19, <1>20
     DEF Next, PerformStep, PollStep, PromptStep, Starts

\* A submission that has an owner is a draft.
LEMMA AcceptingStep ==
    ASSUME TypeOK, Accepting, [Next]_vars
    PROVE  Accepting'
<1> USE Parts, IdAssumption DEF Ids, Starts
<1>0. ASSUME UNCHANGED <<event>>
      PROVE  Accepting'
  BY <1>0 DEF Accepting
<1>1. CASE \/ \E q \in Req : Submit(q) \/ SubmitContinues(q) \/ Expire(q)
           \/ \E a \in Aux : Inquire(a)
           \/ \E id \in Ids : Timeout(id)
           \/ Dispose \/ PerformStart \/ PerformClear
  BY <1>1, <1>0
     DEF Submit, SubmitContinues, Expire, Inquire, Timeout, Dispose, PerformStart, PerformClear,
         broker, transport, hook, history
<1>2. CASE \/ PerformPublish \/ PerformAnswered \/ PerformAbandoned \/ PerformEnd
           \/ \E q \in Req : PerformPrepared(q)
           \/ \E e \in Starts : PollRead(e) \/ PollCheck(e) \/ PollInspect(e)
  BY <1>2, <1>0
     DEF PerformPublish, PerformPrepared, PerformAnswered, PerformAbandoned, PerformEnd, PollRead,
         PollCheck, PollInspect, broker, transport, hook, history
<1>3. CASE \/ \E e \in Starts : PollFill(e) \/ PollPrepare(e)
           \/ PrepareTimer \/ Switch \/ Rebind \/ Edit
           \/ \E ended \in BOOLEAN : Reset(ended)
  BY <1>3, <1>0
     DEF PollFill, PollPrepare, PrepareTimer, Switch, Rebind, Reset, Edit, broker, transport,
         hook, history
<1>4. CASE KeysArrive
  <2>1. event' = event \/ PromptSubmit(Head(keys))
    BY <1>4 DEF KeysArrive
  <2> QED
    BY <2>1 DEF Accepting, PromptSubmit
<1>5. CASE Enter
  BY <1>5 DEF Enter, Accepting, PromptSubmit
<1>6. CASE PromptChecked
  BY <1>6, EventOwner DEF PromptChecked, Accepting, IsDraft
<1>7. CASE PromptCancelled
  BY <1>7 DEF PromptCancelled, Accepting, Quiet
<1>8. CASE PromptAccepted
  BY <1>8 DEF PromptAccepted, Accepting, Quiet
<1>9. CASE PromptDropped
  BY <1>9 DEF PromptDropped, Accepting, Quiet
<1>10. CASE UNCHANGED vars
  BY <1>10, <1>0 DEF vars, broker, transport, hook, history
<1> QED
  BY <1>1, <1>2, <1>3, <1>4, <1>5, <1>6, <1>7, <1>8, <1>9, <1>10
     DEF Next, PerformStep, PollStep, PromptStep, Starts

\* What is called not sent after its keys were typed was rejected by the hook.
LEMMA RejectedStep ==
    ASSUME TypeOK, Slot, Results, Read, Rejected, [Next]_vars
    PROVE  Rejected'
<1> USE Parts, IdAssumption DEF Ids, Starts
<1>0. ASSUME UNCHANGED <<response, frame, chain, result, dispatched, completed>>
      PROVE  Rejected'
  BY <1>0 DEF Rejected, Denied
<1>1. CASE \/ \E q \in Req : Expire(q)
           \/ PerformStart \/ PerformPublish \/ PerformAbandoned \/ Switch \/ Rebind
           \/ KeysArrive
           \/ \E e \in Starts : PollRead(e)
  BY <1>1, <1>0
     DEF Expire, PerformStart, PerformPublish, PerformAbandoned, PollRead, Switch, Rebind,
         KeysArrive, broker, transport, hook, history
<1>2. CASE \/ Enter \/ PromptChecked \/ Edit
  BY <1>2, <1>0 DEF Enter, PromptChecked, Edit, broker, transport, hook, history
<1>3. ASSUME NEW q \in Req, Submit(q)
      PROVE  Rejected'
  <2>1. /\ chain' \in {chain, Append(chain, q)}
        /\ UNCHANGED <<response, frame, completed, dispatched>>
    BY <1>3 DEF Submit, Open, hook
  <2>2. result' = [result EXCEPT ![q] = "waiting"]
    BY <1>3 DEF Submit
  <2> QED
    BY <2>1, <2>2, HeadStays, RejectedLess DEF BrokerType
<1>4. ASSUME NEW q \in Req, SubmitContinues(q)
      PROVE  Rejected'
  <2>1. /\ chain' \in {chain, Append(chain, q)}
        /\ UNCHANGED <<response, frame, completed, dispatched>>
    BY <1>4 DEF SubmitContinues, Open, hook
  <2>2. result' \in {result, [result EXCEPT ![q] = "rejected"]}
    BY <1>4 DEF SubmitContinues, Conclude
  <2>3. q \notin dispatched
    BY <1>4 DEF SubmitContinues, Read, Slot, Opened
  <2> QED
    BY <2>1, <2>2, <2>3, HeadStays, RejectedLess DEF BrokerType
<1>5. ASSUME NEW a \in Aux, Inquire(a)
      PROVE  Rejected'
  <2>1. /\ chain' \in {chain, Append(chain, a)}
        /\ UNCHANGED <<result, response, frame, completed, dispatched>>
    BY <1>5 DEF Inquire, Open, hook
  <2> QED
    BY <2>1, HeadStays, RejectedLess
<1>6. ASSUME NEW id \in Ids, Timeout(id)
      PROVE  Rejected'
  <2>1. UNCHANGED <<response, frame, chain, completed, dispatched>>
    BY <1>6 DEF Timeout, transport, hook
  <2> QED
    BY <1>6, <2>1, FailType, RejectedLess DEF Timeout
<1>7. CASE Dispose
  <2>1. UNCHANGED <<response, frame, chain, completed, dispatched>>
    BY <1>7 DEF Dispose, transport, hook
  <2> QED
    BY <1>7, <2>1, FailType, RejectedLess DEF Dispose
<1>8. CASE PerformClear
  <2>1. response' \in {response, None} /\ UNCHANGED <<result, frame, chain, completed, dispatched>>
    BY <1>8 DEF PerformClear, broker, hook
  <2>2. \A q \in Req : [id |-> q, kind |-> "rejected"] # None
    BY FrameThere DEF Outcomes
  <2> QED
    BY <2>1, <2>2, RejectedLess
<1>9. ASSUME NEW q \in Req, PerformPrepared(q)
      PROVE  Rejected'
  <2>1. /\ dispatched' = dispatched \cup {q} /\ exchange[q] = "open"
        /\ UNCHANGED <<result, response, frame, chain, completed>>
    BY <1>9 DEF PerformPrepared, Abandoned, hook
  <2>2. result[q] # "rejected"
    BY <2>1 DEF Results, Outcomes
  <2> QED
    BY <2>1, <2>2, RejectedLess
<1>10. CASE PerformAnswered
  <2>1. /\ response # None /\ response.id = Head(chain) /\ frame' = response.kind
        /\ UNCHANGED <<response, result, chain, completed, dispatched>>
    BY <1>10 DEF PerformAnswered, Answers, broker, hook
  <2>2. response = [id |-> response.id, kind |-> response.kind]
    BY <2>1 DEF OwnerType, Frames
  <2> QED
    BY <2>1, <2>2 DEF Rejected, Denied
<1>11. CASE PerformEnd
  <2> DEFINE id == Head(chain)
  <2>1. id \in Ids
    BY <1>11, HeadOpened DEF PerformEnd, Slot
  <2>2. response' \in {response, None} /\ frame' = None /\ UNCHANGED <<completed, dispatched>>
    BY <1>11 DEF PerformEnd, hook
  <2>3. \A q \in Req : result'[q] = "rejected" /\ q \in dispatched => q \in completed
    <3>1. CASE UNCHANGED result
      BY <3>1 DEF Rejected, Denied
    <3>2. CASE Settle(id)
      BY <3>2 DEF Settle, Conclude, Rejected, Denied, BrokerType
    <3>3. CASE Fail(id)
      BY <2>1, <3>3, FailType DEF Rejected, Denied
    <3> QED
      BY <1>11, <3>1, <3>2, <3>3 DEF PerformEnd
  <2>4. \A q \in Req : [id |-> q, kind |-> "rejected"] # None
    BY FrameThere DEF Outcomes
  <2> QED
    BY <2>2, <2>3, <2>4, NoneAssumption DEF Rejected, Denied, Outcomes
<1>12. ASSUME NEW e \in Starts, PollCheck(e)
      PROVE  Rejected'
  <2>1. UNCHANGED <<result, frame, chain, dispatched>>
    BY <1>12 DEF PollCheck, broker, transport
  <2>2. /\ completed \subseteq completed'
        /\ \A q \in Req : response' = [id |-> q, kind |-> "rejected"] =>
              response' = response \/ q \in completed'
    BY <1>12 DEF PollCheck, PollRejects, Finish, Reply
  <2> QED
    BY <2>1, <2>2, RejectedLess
<1>13. ASSUME NEW e \in Starts, PollInspect(e)
      PROVE  Rejected'
  <2>1. UNCHANGED <<result, frame, chain, dispatched>>
    BY <1>13 DEF PollInspect, broker, transport
  <2>2. /\ completed \subseteq completed'
        /\ \A q \in Req : response' = [id |-> q, kind |-> "rejected"] =>
              response' = response \/ q \in completed'
    BY <1>13 DEF PollInspect, PollRejects, Finish, Reply
  <2> QED
    BY <2>1, <2>2, RejectedLess
<1>14. ASSUME NEW e \in Starts, PollFill(e)
      PROVE  Rejected'
  <2>1. UNCHANGED <<result, frame, chain, dispatched>>
    BY <1>14 DEF PollFill, broker, transport
  <2>2. /\ completed \subseteq completed'
        /\ \A q \in Req : response' = [id |-> q, kind |-> "rejected"] =>
              response' = response \/ q \in completed'
    BY <1>14 DEF PollFill, PollRejects, Finish, Reply
  <2> QED
    BY <2>1, <2>2, RejectedLess
<1>15. ASSUME NEW e \in Starts, PollPrepare(e)
      PROVE  Rejected'
  <2>1. UNCHANGED <<result, frame, chain, dispatched>>
    BY <1>15 DEF PollPrepare, broker, transport
  <2>2. /\ completed \subseteq completed'
        /\ \A q \in Req : response' = [id |-> q, kind |-> "rejected"] =>
              response' = response \/ q \in completed'
    BY <1>15 DEF PollPrepare, PollRejects, Finish, Reply
  <2> QED
    BY <2>1, <2>2, RejectedLess
<1>16. CASE PrepareTimer
  <2>1. UNCHANGED <<result, frame, chain, dispatched>>
    BY <1>16 DEF PrepareTimer, broker, transport
  <2>2. /\ completed \subseteq completed'
        /\ \A q \in Req : response' = [id |-> q, kind |-> "rejected"] =>
              response' = response \/ q \in completed'
    BY <1>16 DEF PrepareTimer, Finish, Reply
  <2> QED
    BY <2>1, <2>2, RejectedLess
<1>17. ASSUME NEW ended \in BOOLEAN, Reset(ended)
      PROVE  Rejected'
  <2>1. UNCHANGED <<result, frame, chain, dispatched>>
    BY <1>17 DEF Reset, broker, transport
  <2>2. /\ completed \subseteq completed'
        /\ \A q \in Req : response' = [id |-> q, kind |-> "rejected"] =>
              response' = response \/ q \in completed'
    BY <1>17 DEF Reset, Finish, Reply
  <2> QED
    BY <2>1, <2>2, RejectedLess
<1>18. CASE PromptCancelled
  <2>1. UNCHANGED <<result, frame, chain, dispatched>>
    BY <1>18 DEF PromptCancelled, broker, transport
  <2>2. /\ completed \subseteq completed'
        /\ \A q \in Req : response' = [id |-> q, kind |-> "rejected"] =>
              response' = response \/ q \in completed'
    BY <1>18 DEF PromptCancelled, Finish, Reply
  <2> QED
    BY <2>1, <2>2, RejectedLess
<1>19. CASE PromptAccepted
  <2>1. UNCHANGED <<result, frame, chain, dispatched>>
    BY <1>19 DEF PromptAccepted, broker, transport
  <2>2. /\ completed \subseteq completed'
        /\ \A q \in Req : response' = [id |-> q, kind |-> "rejected"] =>
              response' = response \/ q \in completed'
    BY <1>19 DEF PromptAccepted, Finish, Reply
  <2> QED
    BY <2>1, <2>2, RejectedLess
<1>20. CASE PromptDropped
  <2>1. UNCHANGED <<result, frame, chain, dispatched>>
    BY <1>20 DEF PromptDropped, broker, transport
  <2>2. /\ completed \subseteq completed'
        /\ \A q \in Req : response' = [id |-> q, kind |-> "rejected"] =>
              response' = response \/ q \in completed'
    BY <1>20 DEF PromptDropped, Finish, Reply
  <2> QED
    BY <2>1, <2>2, RejectedLess
<1>21. CASE UNCHANGED vars
  BY <1>21, <1>0 DEF vars, broker, transport, hook, history
<1> QED
  BY <1>1, <1>2, <1>3, <1>4, <1>5, <1>6, <1>7, <1>8, <1>9, <1>10, <1>11, <1>12, <1>13, <1>14,
     <1>15, <1>16, <1>17, <1>18, <1>19, <1>20, <1>21
     DEF Next, PerformStep, PollStep, PromptStep, Starts

\* Keys that have sent a draft were typed.
LEMMA KeysSentStep ==
    ASSUME TypeOK, Read, KeysSent, [Next]_vars
    PROVE  KeysSent'
<1> USE Parts, IdAssumption DEF Ids, Starts
<1>0. ASSUME UNCHANGED <<byKeys, dispatched, taken>>
      PROVE  KeysSent'
  BY <1>0 DEF KeysSent
<1>1. CASE \/ \E q \in Req : Submit(q) \/ SubmitContinues(q) \/ Expire(q)
           \/ \E a \in Aux : Inquire(a)
           \/ \E id \in Ids : Timeout(id)
           \/ Dispose \/ PerformStart \/ PerformClear
  BY <1>1, <1>0
     DEF Submit, SubmitContinues, Expire, Inquire, Timeout, Dispose, PerformStart, PerformClear,
         broker, transport, hook, history
<1>2. CASE \/ PerformPublish \/ PerformAnswered \/ PerformAbandoned \/ PerformEnd
           \/ \E e \in Starts : PollRead(e) \/ PollCheck(e) \/ PollInspect(e) \/ PollFill(e)
  BY <1>2, <1>0
     DEF PerformPublish, PerformAnswered, PerformAbandoned, PerformEnd, PollRead, PollCheck,
         PollInspect, PollFill, broker, transport, hook, history
<1>3. CASE \/ \E e \in Starts : PollPrepare(e)
           \/ PrepareTimer \/ Switch \/ Rebind \/ KeysArrive \/ Enter \/ PromptChecked
           \/ \E ended \in BOOLEAN : Reset(ended)
  BY <1>3, <1>0
     DEF PollPrepare, PrepareTimer, Switch, Rebind, Reset, KeysArrive, Enter, PromptChecked,
         broker, transport, hook, history
<1>4. CASE \/ PromptCancelled \/ PromptDropped \/ Edit
  BY <1>4, <1>0 DEF PromptCancelled, PromptDropped, Edit, broker, transport, hook, history
<1>5. ASSUME NEW q \in Req, PerformPrepared(q)
      PROVE  KeysSent'
  BY <1>5 DEF PerformPrepared, KeysSent, history
<1>6. CASE PromptAccepted
  <2>1. UNCHANGED dispatched
    BY <1>6 DEF PromptAccepted, broker
  <2>2. CASE event.text \in Req
    <3>1. /\ taken' = [taken EXCEPT ![event.text] = IF taken[event.text] = 2 THEN 2
                                                         ELSE taken[event.text] + 1]
          /\ byKeys' \subseteq byKeys \cup ({event.text} \cap {event.keys})
      BY <1>6, <2>2 DEF PromptAccepted
    <3>2. \A q \in Req : taken'[q] = taken[q] \/ taken'[q] # 0
      BY <3>1 DEF HistoryType
    <3>3. taken'[event.text] # 0
      BY <2>2, <3>1 DEF HistoryType
    <3> QED
      BY <2>1, <2>2, <3>1, <3>2, <3>3 DEF KeysSent, Read, HistoryType
  <2>3. CASE event.text \notin Req
    BY <1>6, <2>1, <2>3 DEF PromptAccepted, KeysSent
  <2> QED
    BY <2>2, <2>3
<1>7. CASE UNCHANGED vars
  BY <1>7, <1>0 DEF vars, broker, transport, hook, history
<1> QED
  BY <1>1, <1>2, <1>3, <1>4, <1>5, <1>6, <1>7
     DEF Next, PerformStep, PollStep, PromptStep, Starts

----------------------------------------------------------------------------
(* Keys that are in time *)

\* A poll that rejects its command leaves the pending submission alone.
LEMMA RejectedPending ==
    ASSUME TypeOK, Polls, NEW e \in Starts, poll[e].step # "idle", PollRejects(e)
    PROVE  UNCHANGED pending
BY PollRead1 DEF PollRejects, Finish, Fresh

\* Whoever owns keys that are not expired is not expired.
LEMMA OwnerLive ==
    ASSUME Order, Unexpired, NEW k \in Coming(keys), NEW o, NotBefore(o, k)
    PROVE  o \notin expired
BY DEF Order, Unexpired, NotBefore

\* For keys on their way, the pending and the retired submission are in time.
LEMMA GuardsOwner ==
    ASSUME TypeOK, Order, Queue, Unexpired, NEW k \in Coming(keys)
    PROVE  /\ GuardPending = pending
           /\ NotBefore(retired, k) => GuardRetired = retired /\ retired # None
<1>1. pending \notin expired
  BY OwnerLive, IdAssumption DEF Queue, TypeOK
<1>2. NotBefore(retired, k) => retired \notin expired /\ retired # None
  BY OwnerLive, IdAssumption DEF NotBefore
<1> QED
  BY <1>1, <1>2 DEF GuardPending, GuardRetired

\* So they are for a request whose keys are about to be sent.
LEMMA GuardsReady ==
    ASSUME TypeOK, Order, Queue, NEW q \in Req, Ready(q)
    PROVE  GuardPending = pending /\ (retired = q => GuardRetired = q)
<1>1. q \notin expired /\ pending \in {None, q}
  BY DEF Ready, Order, Queue
<1>2. None \notin expired
  BY IdAssumption DEF TypeOK
<1> QED
  BY <1>1, <1>2 DEF GuardPending, GuardRetired

\* Somebody who is pending is done with when it is the owner of what Claude took.
LEMMA OwnerPending ==
    ASSUME TypeOK, Read, TurnOwned, event.owner # None, NEW o, Finish(event.owner, o)
    PROVE  \/ UNCHANGED pending
           \/ Coming(keys) \subseteq crossed /\ \A q \in Req \ crossed : q = pending => ~Ready(q)
BY DEF Finish, TurnOwned, Ready

\* Keys that reach Claude within five seconds are not expired.
LEMMA UnexpiredStep ==
    ASSUME TypeOK, Read, Order, Queue, Unexpired, LateKeys = FALSE, [Next]_vars
    PROVE  Unexpired'
<1> USE Parts, IdAssumption DEF Ids, Starts
<1>0. ASSUME UNCHANGED <<keys, expired>>
      PROVE  Unexpired'
  BY <1>0 DEF Unexpired
<1>1. CASE \/ \E q \in Req : Submit(q) \/ SubmitContinues(q)
           \/ \E a \in Aux : Inquire(a)
           \/ \E id \in Ids : Timeout(id)
           \/ Dispose \/ PerformStart \/ PerformClear \/ PerformPublish
  BY <1>1, <1>0
     DEF Submit, SubmitContinues, Inquire, Timeout, Dispose, PerformStart, PerformClear,
         PerformPublish, broker, transport, hook, history
<1>2. CASE \/ PerformAnswered \/ PerformAbandoned \/ PerformEnd
           \/ \E e \in Starts : PollRead(e) \/ PollCheck(e) \/ PollInspect(e)
              \/ PollFill(e) \/ PollPrepare(e)
  BY <1>2, <1>0
     DEF PerformAnswered, PerformAbandoned, PerformEnd, PollRead, PollCheck, PollInspect,
         PollFill, PollPrepare, broker, transport, hook, history
<1>3. CASE \/ PrepareTimer \/ Switch \/ Rebind \/ PromptChecked \/ PromptCancelled
           \/ PromptAccepted \/ PromptDropped
           \/ \E ended \in BOOLEAN : Reset(ended)
  BY <1>3, <1>0
     DEF PrepareTimer, Switch, Rebind, Reset, PromptChecked, PromptCancelled, PromptAccepted,
         PromptDropped, broker, transport, hook, history
<1>4. CASE \/ Edit
  BY <1>4, <1>0 DEF Edit, broker, transport, hook, history
<1>5. ASSUME NEW q \in Req, Expire(q)
      PROVE  Unexpired'
  <2>1. q \notin Coming(keys) /\ expired' = expired \cup {q} /\ UNCHANGED keys
    BY <1>5 DEF Expire
  <2> QED
    BY <2>1 DEF Unexpired
<1>6. ASSUME NEW q \in Req, PerformPrepared(q)
      PROVE  Unexpired'
  <2>1. Ready(q) /\ keys' \in {keys, Append(keys, q)} /\ UNCHANGED expired
    BY <1>6 DEF PerformPrepared, Abandoned, Ready, hook
  <2>2. Coming(keys') \subseteq Coming(keys) \cup {q}
    <3>1. Coming(Append(keys, q)) = Coming(keys) \cup {q}
      BY ComingMore DEF BoxType
    <3> QED
      BY <2>1, <3>1
  <2>3. q \notin expired
    BY <2>1 DEF Ready, Order
  <2> QED
    BY <2>1, <2>2, <2>3 DEF Unexpired
<1>7. CASE KeysArrive
  <2>1. keys # <<>> /\ keys' = Tail(keys) /\ UNCHANGED expired
    BY <1>7 DEF KeysArrive
  <2>2. Coming(keys') \subseteq Coming(keys)
    BY <2>1, HeadOnce
  <2> QED
    BY <2>1, <2>2 DEF Unexpired
<1>8. CASE Enter
  BY <1>8 DEF Enter, PromptSubmit, GuardPending, GuardRetired, broker, transport, Unexpired
<1>9. CASE UNCHANGED vars
  BY <1>9, <1>0 DEF vars, broker, transport, hook, history
<1> QED
  BY <1>1, <1>2, <1>3, <1>4, <1>5, <1>6, <1>7, <1>8, <1>9
     DEF Next, PerformStep, PollStep, PromptStep, Starts

\* Whoever may have the keys is known to the hook.
LEMMA KnownStep ==
    ASSUME TypeOK, Slot, Results, Replies, Polls, Read, Order, Queue, TurnOwned, Known, [Next]_vars
    PROVE  Known'
<1> USE Parts, IdAssumption DEF Ids, Starts
<1>0. ASSUME UNCHANGED <<pending, retired, crossed>>
      PROVE  Known'
  BY <1>0, ReadyKept DEF Known
<1>1. CASE \/ \E q \in Req : Submit(q) \/ SubmitContinues(q) \/ Expire(q)
           \/ \E a \in Aux : Inquire(a)
           \/ \E id \in Ids : Timeout(id)
           \/ Dispose \/ PerformStart \/ PerformClear
  BY <1>1, <1>0
     DEF Submit, SubmitContinues, Expire, Inquire, Timeout, Dispose, PerformStart, PerformClear,
         broker, transport, hook, history
<1>2. CASE \/ PerformPublish \/ PerformAnswered \/ PerformAbandoned \/ PerformEnd
           \/ Switch \/ Rebind \/ PromptChecked
           \/ \E q \in Req : PerformPrepared(q)
  BY <1>2, <1>0
     DEF PerformPublish, PerformPrepared, PerformAnswered, PerformAbandoned, PerformEnd, Switch,
         Rebind, PromptChecked, broker, transport, hook, history
<1>3. CASE \/ Edit
  BY <1>3, <1>0 DEF Edit, broker, transport, hook, history
<1>4. ASSUME NEW e \in Starts, PollRead(e)
      PROVE  Known'
  <2>1. pending = None /\ retired' = GuardRetired /\ UNCHANGED <<pending, crossed>>
    BY <1>4 DEF PollRead, history
  <2> QED
    BY <2>1, ReadyKept, GuardsReady DEF Known
<1>5. ASSUME NEW e \in Starts, PollCheck(e)
      PROVE  Known'
  <2>1. UNCHANGED <<retired, crossed>>
    BY <1>5 DEF PollCheck, history
  <2>2. UNCHANGED pending
    BY <1>5, RejectedPending DEF PollCheck
  <2> QED
    BY <2>1, <2>2, ReadyKept DEF Known
<1>6. ASSUME NEW e \in Starts, PollInspect(e)
      PROVE  Known'
  <2>1. UNCHANGED <<retired, crossed>>
    BY <1>6 DEF PollInspect, history
  <2>2. UNCHANGED pending
    BY <1>6, RejectedPending DEF PollInspect
  <2> QED
    BY <2>1, <2>2, ReadyKept DEF Known
<1>7. ASSUME NEW e \in Starts, PollFill(e)
      PROVE  Known'
  <2>1. UNCHANGED <<retired, crossed>>
    BY <1>7 DEF PollFill, history
  <2>2. UNCHANGED pending
    BY <1>7, RejectedPending DEF PollFill
  <2> QED
    BY <2>1, <2>2, ReadyKept DEF Known
<1>8. ASSUME NEW e \in Starts, PollPrepare(e)
      PROVE  Known'
  <2>1. CASE StillCurrent(e)
    <3>1. e = epoch /\ pending' = poll[e].id /\ UNCHANGED <<retired, crossed>>
      BY <1>8, <2>1 DEF PollPrepare, StillCurrent
    <3>2. poll[epoch].id # None
      BY <1>8, <3>1 DEF PollPrepare, Polls
    <3>3. \A q \in Req : ~Ready(q)
      BY <3>2 DEF Queue
    <3> QED
      BY <3>1, <3>3, ReadyStep DEF Known
  <2>2. CASE PollRejects(e)
    <3>1. UNCHANGED pending
      BY <1>8, <2>2, RejectedPending DEF PollPrepare
    <3>2. UNCHANGED <<retired, crossed>> \/ crossed' = crossed \cup Displaced
      BY <1>8 DEF PollPrepare
    <3> QED
      BY <3>1, <3>2, ReadyKept DEF Known, Displaced
  <2> QED
    BY <1>8, <2>1, <2>2 DEF PollPrepare
<1>9. CASE PrepareTimer
  <2>1. pending \in Req /\ retired' = pending /\ UNCHANGED crossed
    BY <1>9 DEF PrepareTimer, PollType, history
  <2>2. pending' \in {pending, None}
    BY <1>9 DEF PrepareTimer, Finish
  <2>3. \A q \in Req : Ready(q) => pending = q
    BY <2>1 DEF Queue
  <2> QED
    BY <2>1, <2>2, <2>3, ReadyKept DEF Known
<1>10. ASSUME NEW ended \in BOOLEAN, Reset(ended)
      PROVE  Known'
  <2>1. pending' \in {pending, None} /\ UNCHANGED crossed
    BY <1>10 DEF Reset, Finish
  <2>2. CASE pending # None
    <3>1. \A q \in Req : Ready(q) => pending = q
      BY <2>2 DEF Queue
    <3> QED
      BY <1>10, <2>1, <2>2, <3>1, ReadyKept DEF Known, Reset
  <2>3. CASE pending = None
    BY <1>10, <2>1, <2>3, ReadyKept DEF Known, Reset
  <2> QED
    BY <2>2, <2>3
<1>11. CASE KeysArrive
  <2>1. pending' \in {pending, None} /\ crossed \subseteq crossed'
    BY <1>11, Guarded DEF KeysArrive
  <2>2. UNCHANGED <<pending, retired>> \/ (pending' = GuardPending /\ retired' = GuardRetired)
    BY <1>11 DEF KeysArrive, PromptSubmit
  <2> QED
    BY <2>1, <2>2, ReadyKept, GuardsReady DEF Known
<1>12. CASE Enter
  <2>1. pending' \in {pending, None} /\ crossed \subseteq crossed'
    BY <1>12, Guarded DEF Enter
  <2>2. pending' = GuardPending /\ retired' = GuardRetired
    BY <1>12 DEF Enter, PromptSubmit
  <2> QED
    BY <2>1, <2>2, ReadyKept, GuardsReady DEF Known
<1>13. CASE PromptCancelled
  <2>1. event.owner # None /\ Finish(event.owner, "rejected") /\ UNCHANGED <<retired, crossed>>
    BY <1>13 DEF PromptCancelled, Read, history
  <2>2. pending' \in {pending, None}
    BY <2>1 DEF Finish
  <2> QED
    BY <2>1, <2>2, OwnerPending, ReadyKept DEF Known
<1>14. CASE PromptAccepted
  <2>1. UNCHANGED <<retired, crossed>>
    BY <1>14 DEF PromptAccepted
  <2>2. CASE event.owner # None /\ Finish(event.owner, "accepted")
    <3>1. pending' \in {pending, None}
      BY <2>2 DEF Finish
    <3> QED
      BY <2>1, <2>2, <3>1, OwnerPending, ReadyKept DEF Known
  <2>3. CASE UNCHANGED pending
    BY <2>1, <2>3, ReadyKept DEF Known
  <2> QED
    BY <1>14, <2>2, <2>3 DEF PromptAccepted
<1>15. CASE PromptDropped
  <2>1. UNCHANGED <<retired, crossed>>
    BY <1>15 DEF PromptDropped, history
  <2>2. CASE event.owner # None /\ Finish(event.owner, "rejected")
    <3>1. pending' \in {pending, None}
      BY <2>2 DEF Finish
    <3> QED
      BY <2>1, <2>2, <3>1, OwnerPending, ReadyKept DEF Known
  <2>3. CASE UNCHANGED pending
    BY <2>1, <2>3, ReadyKept DEF Known
  <2> QED
    BY <1>15, <2>2, <2>3 DEF PromptDropped
<1>16. CASE UNCHANGED vars
  BY <1>16, <1>0 DEF vars, broker, transport, hook, history
<1> QED
  BY <1>1, <1>2, <1>3, <1>4, <1>5, <1>6, <1>7, <1>8, <1>9, <1>10, <1>11, <1>12, <1>13, <1>14,
     <1>15, <1>16
     DEF Next, PerformStep, PollStep, PromptStep, Starts

\* Keys on their way have an owner.
LEMMA KeysOwnedStep ==
    ASSUME TypeOK, Polls, Read, Order, Queue, TurnOwned, Unexpired, Known, Owned, [Next]_vars
    PROVE  Owned'
<1> USE Parts, IdAssumption DEF Ids, Starts
<1>0. ASSUME UNCHANGED <<keys, pending, retired, crossed, earlier>>
      PROVE  Owned'
  BY <1>0 DEF Owned, NotBefore
<1>1. CASE \/ \E q \in Req : Submit(q) \/ SubmitContinues(q) \/ Expire(q)
           \/ \E a \in Aux : Inquire(a)
           \/ \E id \in Ids : Timeout(id)
           \/ Dispose \/ PerformStart \/ PerformClear
  BY <1>1, <1>0
     DEF Submit, SubmitContinues, Expire, Inquire, Timeout, Dispose, PerformStart, PerformClear,
         broker, transport, hook, history
<1>2. CASE \/ PerformPublish \/ PerformAnswered \/ PerformAbandoned \/ PerformEnd
           \/ Switch \/ Rebind \/ PromptChecked \/ Edit
  BY <1>2, <1>0
     DEF PerformPublish, PerformAnswered, PerformAbandoned, PerformEnd, Switch, Rebind,
         PromptChecked, Edit, broker, transport, hook, history
<1>3. ASSUME NEW q \in Req, PerformPrepared(q)
      PROVE  Owned'
  <2>1. /\ Ready(q) /\ keys' \in {keys, Append(keys, q)}
        /\ UNCHANGED <<pending, retired, crossed, earlier>>
    BY <1>3 DEF PerformPrepared, Abandoned, Ready, hook, history
  <2>2. Coming(keys') \subseteq Coming(keys) \cup {q}
    <3>1. Coming(Append(keys, q)) = Coming(keys) \cup {q}
      BY ComingMore DEF BoxType
    <3> QED
      BY <2>1, <3>1
  <2>3. q \in crossed \cup {pending, retired}
    BY <2>1 DEF Known
  <2> QED
    BY <2>1, <2>2, <2>3 DEF Owned, NotBefore
<1>4. ASSUME NEW e \in Starts, PollRead(e)
      PROVE  Owned'
  <2>1. /\ pending = None /\ retired' = GuardRetired /\ UNCHANGED <<keys, pending, crossed>>
        /\ request \notin seen /\ earlier' = [earlier EXCEPT ![request] = seen \cap Req]
    BY <1>4 DEF PollRead, history
  <2>2. \A k \in Coming(keys) : NotBefore(retired, k) => retired' = retired
    BY <2>1, GuardsOwner
  <2>3. retired \in Req => retired # None /\ retired \in Ids
    OBVIOUS
  <2>4. retired \in Req => earlier'[retired] = earlier[retired]
    BY <2>1, <2>3 DEF Read, PollType
  <2> QED
    BY <2>1, <2>2, <2>4 DEF Owned, NotBefore
<1>5. ASSUME NEW e \in Starts, PollCheck(e)
      PROVE  Owned'
  <2>1. UNCHANGED <<keys, retired, crossed, earlier>>
    BY <1>5 DEF PollCheck, history
  <2>2. UNCHANGED pending
    BY <1>5, RejectedPending DEF PollCheck
  <2> QED
    BY <2>1, <2>2, <1>0
<1>6. ASSUME NEW e \in Starts, PollInspect(e)
      PROVE  Owned'
  <2>1. UNCHANGED <<keys, retired, crossed, earlier>>
    BY <1>6 DEF PollInspect, history
  <2>2. UNCHANGED pending
    BY <1>6, RejectedPending DEF PollInspect
  <2> QED
    BY <2>1, <2>2, <1>0
<1>7. ASSUME NEW e \in Starts, PollFill(e)
      PROVE  Owned'
  <2>1. UNCHANGED <<keys, retired, crossed, earlier>>
    BY <1>7 DEF PollFill, history
  <2>2. UNCHANGED pending
    BY <1>7, RejectedPending DEF PollFill
  <2> QED
    BY <2>1, <2>2, <1>0
<1>8. ASSUME NEW e \in Starts, PollPrepare(e)
      PROVE  Owned'
  <2>1. UNCHANGED <<keys, earlier>>
    BY <1>8 DEF PollPrepare
  <2>2. CASE StillCurrent(e)
    <3>1. e = epoch /\ pending' = poll[e].id /\ poll[e].id \in Req /\ crossed' = crossed
      BY <1>8, <2>2, PollIds DEF PollPrepare, StillCurrent
    <3>2. \A k \in Coming(keys) : k \in earlier[pending']
      BY <3>1 DEF Queue
    <3> QED
      BY <2>1, <3>1, <3>2 DEF Owned, NotBefore
  <2>3. CASE PollRejects(e)
    <3>1. UNCHANGED pending
      BY <1>8, <2>3, RejectedPending DEF PollPrepare
    <3>2. UNCHANGED <<retired, crossed>> \/ crossed' = crossed \cup Displaced
      BY <1>8 DEF PollPrepare
    <3> QED
      BY <2>1, <3>1, <3>2 DEF Owned, NotBefore, Displaced
  <2> QED
    BY <1>8, <2>2, <2>3 DEF PollPrepare
<1>9. CASE PrepareTimer
  <2>1. pending # None /\ retired' = pending /\ UNCHANGED <<keys, earlier, crossed>>
    BY <1>9 DEF PrepareTimer, PollType, history
  <2>2. \A k \in Coming(keys) : NotBefore(pending, k)
    BY <2>1 DEF Queue
  <2> QED
    BY <2>1, <2>2 DEF Owned, NotBefore
<1>10. ASSUME NEW ended \in BOOLEAN, Reset(ended)
      PROVE  Owned'
  <2>1. UNCHANGED <<keys, earlier, crossed>>
    BY <1>10 DEF Reset
  <2>2. CASE pending # None
    <3>1. \A k \in Coming(keys) : NotBefore(pending, k)
      BY <2>2 DEF Queue
    <3> QED
      BY <1>10, <2>1, <2>2, <3>1 DEF Owned, NotBefore, Reset
  <2>3. CASE pending = None
    BY <1>10, <2>1, <2>3 DEF Owned, NotBefore, Reset
  <2> QED
    BY <2>2, <2>3
<1>11. CASE KeysArrive
  <2>1. /\ keys # <<>> /\ keys' = Tail(keys) /\ UNCHANGED earlier
        /\ crossed \subseteq crossed'
    BY <1>11 DEF KeysArrive
  <2>2. UNCHANGED <<pending, retired>> \/ (pending' = GuardPending /\ retired' = GuardRetired)
    BY <1>11 DEF KeysArrive, PromptSubmit
  <2>3. Coming(keys') \subseteq Coming(keys)
    BY <2>1, HeadOnce
  <2> QED
    BY <2>1, <2>2, <2>3, GuardsOwner DEF Owned, NotBefore
<1>12. CASE Enter
  <2>1. UNCHANGED <<keys, earlier>> /\ crossed \subseteq crossed'
    BY <1>12 DEF Enter
  <2>2. pending' = GuardPending /\ retired' = GuardRetired
    BY <1>12 DEF Enter, PromptSubmit
  <2> QED
    BY <2>1, <2>2, GuardsOwner DEF Owned, NotBefore
<1>13. CASE PromptCancelled
  <2>1. /\ event.owner # None /\ Finish(event.owner, "rejected")
        /\ UNCHANGED <<retired, crossed, keys, earlier>>
    BY <1>13 DEF PromptCancelled, Read, history
  <2> QED
    BY <2>1, OwnerPending DEF Owned, NotBefore
<1>14. CASE PromptAccepted
  <2>1. UNCHANGED <<retired, crossed, keys, earlier>>
    BY <1>14 DEF PromptAccepted
  <2>2. CASE event.owner # None /\ Finish(event.owner, "accepted")
    BY <2>1, <2>2, OwnerPending DEF Owned, NotBefore
  <2>3. CASE UNCHANGED pending
    BY <2>1, <2>3, <1>0
  <2> QED
    BY <1>14, <2>2, <2>3 DEF PromptAccepted
<1>15. CASE PromptDropped
  <2>1. UNCHANGED <<retired, crossed, keys, earlier>>
    BY <1>15 DEF PromptDropped, history
  <2>2. CASE event.owner # None /\ Finish(event.owner, "rejected")
    BY <2>1, <2>2, OwnerPending DEF Owned, NotBefore
  <2>3. CASE UNCHANGED pending
    BY <2>1, <2>3, <1>0
  <2> QED
    BY <1>15, <2>2, <2>3 DEF PromptDropped
<1>16. CASE UNCHANGED vars
  BY <1>16, <1>0 DEF vars, broker, transport, hook, history
<1> QED
  BY <1>1, <1>2, <1>3, <1>4, <1>5, <1>6, <1>7, <1>8, <1>9, <1>10, <1>11, <1>12, <1>13, <1>14,
     <1>15, <1>16
     DEF Next, PerformStep, PollStep, PromptStep, Starts

----------------------------------------------------------------------------
(* Drafts that were called not sent *)

\* Where nothing is newly said of a dispatched request, it is denied only if it was.
LEMMA DeniedLess ==
    ASSUME NEW q \in dispatched, frame' \in {frame, None},
           frame' = frame /\ frame # None => Head(chain') = Head(chain),
           response' = [id |-> q, kind |-> "rejected"] => response' = response,
           result'[q] = "rejected" => result[q] = "rejected",
           Denied(q)'
    PROVE  Denied(q)
BY NoneAssumption DEF Denied, Outcomes

\* A submission whose keys were typed is denied by the end of its event or a new start.
LEMMA DeniedStep ==
    ASSUME TypeOK, Slot, Polls, Read, [Next]_vars
    PROVE  \A q \in dispatched : Denied(q)' =>
             Denied(q) \/ (q \notin completed /\ (event' = Quiet \/ epoch' # epoch))
<1> USE Parts, IdAssumption DEF Ids, Starts
<1> DEFINE Later ==
      \A q \in dispatched : Denied(q)' =>
        Denied(q) \/ (q \notin completed /\ (event' = Quiet \/ epoch' # epoch))
<1>0. ASSUME UNCHANGED <<response, frame, chain, result, dispatched>>
      PROVE  Later
  BY <1>0 DEF Denied
<1>1. CASE \/ \E q \in Req : Expire(q)
           \/ PerformStart \/ PerformPublish \/ PerformAbandoned \/ Switch \/ Rebind
           \/ KeysArrive
           \/ \E e \in Starts : PollRead(e)
  BY <1>1, <1>0
     DEF Expire, PerformStart, PerformPublish, PerformAbandoned, PollRead, Switch, Rebind,
         KeysArrive, broker, transport, hook, history
<1>2. CASE \/ Enter \/ PromptChecked \/ Edit
  BY <1>2, <1>0 DEF Enter, PromptChecked, Edit, broker, transport, hook, history
<1>3. ASSUME NEW q \in Req, Submit(q)
      PROVE  Later
  <2>1. chain' \in {chain, Append(chain, q)} /\ UNCHANGED <<response, frame>>
    BY <1>3 DEF Submit, Open
  <2>2. result' = [result EXCEPT ![q] = "waiting"]
    BY <1>3 DEF Submit
  <2> QED
    BY <2>1, <2>2, HeadStays, DeniedLess DEF BrokerType
<1>4. ASSUME NEW q \in Req, SubmitContinues(q)
      PROVE  Later
  <2>1. chain' \in {chain, Append(chain, q)} /\ UNCHANGED <<response, frame>>
    BY <1>4 DEF SubmitContinues, Open
  <2>2. result' \in {result, [result EXCEPT ![q] = "rejected"]}
    BY <1>4 DEF SubmitContinues, Conclude
  <2>3. q \notin dispatched
    BY <1>4 DEF SubmitContinues, Read, Slot, Opened
  <2> QED
    BY <2>1, <2>2, <2>3, HeadStays, DeniedLess DEF BrokerType
<1>5. ASSUME NEW a \in Aux, Inquire(a)
      PROVE  Later
  <2>1. chain' \in {chain, Append(chain, a)} /\ UNCHANGED <<result, response, frame>>
    BY <1>5 DEF Inquire, Open
  <2> QED
    BY <2>1, HeadStays, DeniedLess
<1>6. ASSUME NEW id \in Ids, Timeout(id)
      PROVE  Later
  <2>1. UNCHANGED <<response, frame, chain>>
    BY <1>6 DEF Timeout, transport
  <2> QED
    BY <1>6, <2>1, FailType, DeniedLess DEF Timeout, BrokerType
<1>7. CASE Dispose
  <2>1. UNCHANGED <<response, frame, chain>>
    BY <1>7 DEF Dispose, transport
  <2> QED
    BY <1>7, <2>1, FailType, DeniedLess DEF Dispose, BrokerType
<1>8. CASE PerformClear
  <2>1. response' \in {response, None} /\ UNCHANGED <<result, frame, chain>>
    BY <1>8 DEF PerformClear, broker
  <2>2. \A q \in Req : [id |-> q, kind |-> "rejected"] # None
    BY FrameThere DEF Outcomes
  <2> QED
    BY <2>1, <2>2, DeniedLess DEF BrokerType
<1>9. ASSUME NEW q \in Req, PerformPrepared(q)
      PROVE  Later
  <2>1. UNCHANGED <<result, response, frame, chain>> /\ dispatched \subseteq dispatched'
    BY <1>9 DEF PerformPrepared
  <2> QED
    BY <2>1 DEF Denied
<1>10. CASE PerformAnswered
  <2>1. /\ response # None /\ response.id = Head(chain) /\ frame' = response.kind
        /\ UNCHANGED <<response, result, chain>>
    BY <1>10 DEF PerformAnswered, Answers, broker
  <2>2. response = [id |-> response.id, kind |-> response.kind]
    BY <2>1 DEF OwnerType, Frames
  <2> QED
    BY <2>1, <2>2 DEF Denied
<1>11. CASE PerformEnd
  <2> DEFINE id == Head(chain)
  <2>1. id \in Ids
    BY <1>11, HeadOpened DEF PerformEnd, Slot
  <2>2. response' \in {response, None} /\ frame' = None
    BY <1>11 DEF PerformEnd
  <2>3. \A q \in dispatched : result'[q] = "rejected" => Denied(q)
    <3>1. CASE UNCHANGED result
      BY <3>1 DEF Denied
    <3>2. CASE Settle(id)
      BY <3>2 DEF Settle, Conclude, Denied, BrokerType
    <3>3. CASE Fail(id)
      BY <2>1, <3>3, FailType DEF Denied, BrokerType
    <3> QED
      BY <1>11, <3>1, <3>2, <3>3 DEF PerformEnd
  <2>4. \A q \in Req : [id |-> q, kind |-> "rejected"] # None
    BY FrameThere DEF Outcomes
  <2> QED
    BY <2>2, <2>3, <2>4, NoneAssumption DEF Denied, Outcomes, BrokerType
<1>12. ASSUME NEW e \in Starts, PollCheck(e)
      PROVE  Later
  <2>1. UNCHANGED <<result, frame, chain>>
    BY <1>12 DEF PollCheck, broker, transport
  <2>2. response' = response \/ response'.kind # "rejected" \/ response'.id = poll[e].id
    BY <1>12 DEF PollCheck, PollRejects, Finish, Reply
  <2>3. poll[e].id \notin dispatched
    BY <1>12, PollRead1 DEF PollCheck, Fresh
  <2> QED
    BY <2>1, <2>2, <2>3, DeniedLess
<1>13. ASSUME NEW e \in Starts, PollInspect(e)
      PROVE  Later
  <2>1. UNCHANGED <<result, frame, chain>>
    BY <1>13 DEF PollInspect, broker, transport
  <2>2. response' = response \/ response'.id = poll[e].id
    BY <1>13 DEF PollInspect, PollRejects, Finish, Reply
  <2>3. poll[e].id \notin dispatched
    BY <1>13, PollRead1 DEF PollInspect, Fresh
  <2> QED
    BY <2>1, <2>2, <2>3, DeniedLess
<1>14. ASSUME NEW e \in Starts, PollFill(e)
      PROVE  Later
  <2>1. UNCHANGED <<result, frame, chain>>
    BY <1>14 DEF PollFill, broker, transport
  <2>2. response' = response \/ response'.id = poll[e].id
    BY <1>14 DEF PollFill, PollRejects, Finish, Reply
  <2>3. poll[e].id \notin dispatched
    BY <1>14, PollRead1 DEF PollFill, Fresh
  <2> QED
    BY <2>1, <2>2, <2>3, DeniedLess
<1>15. ASSUME NEW e \in Starts, PollPrepare(e)
      PROVE  Later
  <2>1. UNCHANGED <<result, frame, chain>>
    BY <1>15 DEF PollPrepare, broker, transport
  <2>2. response' = response \/ response'.id = poll[e].id
    BY <1>15 DEF PollPrepare, PollRejects, Finish, Reply
  <2>3. poll[e].id \notin dispatched
    BY <1>15, PollRead1 DEF PollPrepare, Fresh
  <2> QED
    BY <2>1, <2>2, <2>3, DeniedLess
<1>16. CASE PrepareTimer
  <2>1. UNCHANGED <<result, frame, chain>>
    BY <1>16 DEF PrepareTimer, broker, transport
  <2>2. response' = response \/ response'.kind = "unconfirmed"
    BY <1>16 DEF PrepareTimer, Finish, Reply
  <2> QED
    BY <2>1, <2>2, DeniedLess
<1>17. ASSUME NEW ended \in BOOLEAN, Reset(ended)
      PROVE  Later
  <2>1. UNCHANGED <<result, frame, chain>> /\ epoch' # epoch
    BY <1>17 DEF Reset, broker, transport, PollType
  <2>2. response' = response \/ (response'.id = pending /\ pending \notin completed)
    BY <1>17 DEF Reset, Finish, Reply
  <2> QED
    BY <2>1, <2>2, DeniedLess
<1>18. CASE PromptCancelled
  <2>1. UNCHANGED <<result, frame, chain>> /\ event' = Quiet
    BY <1>18 DEF PromptCancelled, broker, transport
  <2>2. response' = response \/ (response'.id = event.owner /\ event.owner \notin completed)
    BY <1>18 DEF PromptCancelled, Finish, Reply
  <2> QED
    BY <2>1, <2>2, DeniedLess
<1>19. CASE PromptAccepted
  <2>1. UNCHANGED <<result, frame, chain>>
    BY <1>19 DEF PromptAccepted, broker, transport
  <2>2. response' = response \/ response'.kind = "accepted"
    BY <1>19 DEF PromptAccepted, Finish, Reply
  <2> QED
    BY <2>1, <2>2, DeniedLess
<1>20. CASE PromptDropped
  <2>1. UNCHANGED <<result, frame, chain>> /\ event' = Quiet
    BY <1>20 DEF PromptDropped, broker, transport
  <2>2. response' = response \/ (response'.id = event.owner /\ event.owner \notin completed)
    BY <1>20 DEF PromptDropped, Finish, Reply
  <2> QED
    BY <2>1, <2>2, DeniedLess
<1>21. CASE UNCHANGED vars
  BY <1>21, <1>0 DEF vars, broker, transport, hook, history
<1> QED
  BY <1>1, <1>2, <1>3, <1>4, <1>5, <1>6, <1>7, <1>8, <1>9, <1>10, <1>11, <1>12, <1>13, <1>14,
     <1>15, <1>16, <1>17, <1>18, <1>19, <1>20, <1>21
     DEF Next, PerformStep, PollStep, PromptStep, Starts

\* Keys that find no draft are stopped.
LEMMA ForeignStep ==
    ASSUME TypeOK, Read, Order, Queue, Unexpired, Owned, NotForeign, [Next]_vars
    PROVE  NotForeign'
<1> USE Parts, IdAssumption DEF Ids, Starts
<1>0. ASSUME UNCHANGED <<event, crossed, foreign>>
      PROVE  NotForeign'
  BY <1>0 DEF NotForeign
<1>1. CASE \/ \E q \in Req : Submit(q) \/ SubmitContinues(q) \/ Expire(q)
           \/ \E a \in Aux : Inquire(a)
           \/ \E id \in Ids : Timeout(id)
           \/ Dispose \/ PerformStart \/ PerformClear
  BY <1>1, <1>0
     DEF Submit, SubmitContinues, Expire, Inquire, Timeout, Dispose, PerformStart, PerformClear,
         broker, transport, hook, history
<1>2. CASE \/ PerformPublish \/ PerformAnswered \/ PerformAbandoned \/ PerformEnd
           \/ \E q \in Req : PerformPrepared(q)
           \/ \E e \in Starts : PollRead(e) \/ PollCheck(e) \/ PollInspect(e)
  BY <1>2, <1>0
     DEF PerformPublish, PerformPrepared, PerformAnswered, PerformAbandoned, PerformEnd, PollRead,
         PollCheck, PollInspect, broker, transport, hook, history
<1>3. CASE \/ \E e \in Starts : PollFill(e)
           \/ PrepareTimer \/ Switch \/ Rebind \/ Edit
           \/ \E ended \in BOOLEAN : Reset(ended)
  BY <1>3, <1>0
     DEF PollFill, PrepareTimer, Switch, Rebind, Reset, Edit, broker, transport, hook, history
<1>4. ASSUME NEW e \in Starts, PollPrepare(e)
      PROVE  NotForeign'
  <2>1. UNCHANGED <<event, foreign>> /\ crossed \subseteq crossed'
    BY <1>4 DEF PollPrepare
  <2> QED
    BY <2>1 DEF NotForeign
<1>5. CASE KeysArrive
  <2> DEFINE h == Head(keys)
  <2>1. crossed \subseteq crossed' /\ UNCHANGED foreign
    BY <1>5 DEF KeysArrive
  <2>2. CASE UNCHANGED event
    BY <2>1, <2>2 DEF NotForeign
  <2>3. CASE PromptSubmit(h) /\ h \in crossed
    BY <2>1, <2>3 DEF NotForeign, PromptSubmit
  <2>4. CASE PromptSubmit(h) /\ h \notin crossed
    <3>1. h \in Coming(keys)
      BY <1>5, HeadOnce DEF KeysArrive
    <3>2. GuardPending # None \/ GuardRetired # None
      BY <2>4, <3>1, GuardsOwner, IdAssumption DEF Owned, NotBefore
    <3>3. event'.step # "accepting"
      BY <2>4, <3>2 DEF PromptSubmit
    <3> QED
      BY <2>1, <3>3 DEF NotForeign
  <2> QED
    BY <1>5, <2>2, <2>3, <2>4 DEF KeysArrive
<1>6. CASE Enter
  <2>1. event'.keys = None /\ crossed \subseteq crossed' /\ UNCHANGED foreign
    BY <1>6 DEF Enter, PromptSubmit
  <2> QED
    BY <2>1 DEF NotForeign
<1>7. CASE PromptChecked
  BY <1>7, EventOwner DEF PromptChecked, NotForeign, IsDraft, history
<1>8. CASE PromptCancelled
  BY <1>8 DEF PromptCancelled, NotForeign, Quiet, history
<1>9. CASE PromptAccepted
  BY <1>9 DEF PromptAccepted, NotForeign, Quiet
<1>10. CASE PromptDropped
  BY <1>10 DEF PromptDropped, NotForeign, Quiet, history
<1>11. CASE UNCHANGED vars
  BY <1>11, <1>0 DEF vars, broker, transport, hook, history
<1> QED
  BY <1>1, <1>2, <1>3, <1>4, <1>5, <1>6, <1>7, <1>8, <1>9, <1>10, <1>11
     DEF Next, PerformStep, PollStep, PromptStep, Starts

\* A submission whose draft is being taken is not denied meanwhile.
LEMMA OwnKeysLess ==
    ASSUME TypeOK, Slot, Results, Replies, Polls, Read, OwnKeys, [Next]_vars,
           UNCHANGED <<event, epoch>>, crossed \subseteq crossed', overtaken \subseteq overtaken'
    PROVE  OwnKeys'
<1>1. ASSUME NEW q \in Req \ (crossed' \cup overtaken'),
             event.step \in {"checking", "accepting"}, event.keys = q, event.text = q
      PROVE  event.owner = q /\ ~Denied(q)'
  <2>1. event # Quiet
    BY <1>1 DEF Quiet
  <2>2. event.owner = q /\ ~Denied(q) /\ q \in dispatched
    BY <1>1, IdAssumption DEF OwnKeys, Read, Ids
  <2> QED
    BY <2>1, <2>2, DeniedStep
<1> QED
  BY <1>1 DEF OwnKeys

\* Keys that find their draft find its submission pending.
LEMMA OwnKeysStep ==
    ASSUME TypeOK, Slot, Results, Replies, Polls, Read, Order, Queue, TurnHeld, Rejected,
           Unexpired, Owned, OwnKeys, [Next]_vars
    PROVE  OwnKeys'
<1> USE Parts, IdAssumption DEF Ids, Starts
<1>0. ASSUME UNCHANGED <<event, crossed, overtaken, epoch>>
      PROVE  OwnKeys'
  BY <1>0, OwnKeysLess DEF OwnKeys
<1>1. CASE \/ \E q \in Req : Submit(q) \/ SubmitContinues(q) \/ Expire(q)
           \/ \E a \in Aux : Inquire(a)
           \/ \E id \in Ids : Timeout(id)
           \/ Dispose \/ PerformStart \/ PerformClear
  BY <1>1, <1>0
     DEF Submit, SubmitContinues, Expire, Inquire, Timeout, Dispose, PerformStart, PerformClear,
         broker, transport, hook, history
<1>2. CASE \/ PerformPublish \/ PerformAnswered \/ PerformAbandoned \/ PerformEnd
           \/ \E q \in Req : PerformPrepared(q)
           \/ \E e \in Starts : PollRead(e) \/ PollCheck(e) \/ PollInspect(e)
  BY <1>2, <1>0
     DEF PerformPublish, PerformPrepared, PerformAnswered, PerformAbandoned, PerformEnd, PollRead,
         PollCheck, PollInspect, broker, transport, hook, history
<1>3. CASE \/ \E e \in Starts : PollFill(e)
           \/ PrepareTimer \/ Switch \/ Rebind \/ Edit
  BY <1>3, <1>0 DEF PollFill, PrepareTimer, Switch, Rebind, Edit, broker, transport, hook, history
<1>4. ASSUME NEW e \in Starts, PollPrepare(e)
      PROVE  OwnKeys'
  <2>1. UNCHANGED <<event, overtaken, epoch>> /\ crossed \subseteq crossed'
    BY <1>4 DEF PollPrepare
  <2> QED
    BY <2>1, OwnKeysLess
<1>5. ASSUME NEW ended \in BOOLEAN, Reset(ended)
      PROVE  OwnKeys'
  <2>1. /\ UNCHANGED <<event, crossed>>
        /\ overtaken' = IF event.step \in {"checking", "accepting"} /\ event.owner # None
                        THEN overtaken \cup {event.owner} ELSE overtaken
    BY <1>5 DEF Reset
  <2> QED
    BY <2>1 DEF OwnKeys
<1>6. CASE KeysArrive
  <2>1. /\ keys # <<>> /\ keys' = Tail(keys)
        /\ UNCHANGED <<overtaken, completed, response, result, frame, chain, dispatched>>
    BY <1>6 DEF KeysArrive, broker, transport
  <2>2. CASE UNCHANGED <<event, crossed>>
    BY <2>1, <2>2 DEF OwnKeys, Denied
  <2>3. ASSUME NEW q \in Req \ (crossed' \cup overtaken'), PromptSubmit(Head(keys)),
               crossed' = IF box = Head(keys) /\ Head(keys) \notin crossed THEN crossed
                          ELSE crossed \cup Overdue,
               event'.step \in {"checking", "accepting"}, event'.keys = q, event'.text = q
        PROVE  event'.owner = q /\ ~Denied(q)'
    <3>1. q = Head(keys) /\ box = q /\ q \in Coming(keys)
      BY <2>1, <2>3, HeadOnce DEF PromptSubmit
    <3>2. q \notin crossed /\ pending \in {None, q}
      BY <2>3, <3>1 DEF TurnHeld
    <3>3. GuardPending = pending
      BY <3>1, GuardsOwner
    <3>4. pending = None => GuardRetired # None
      BY <3>1, <3>2, GuardsOwner, IdAssumption DEF Owned, NotBefore
    <3>5. pending = q /\ event'.owner = q
      BY <2>3, <3>2, <3>3, <3>4 DEF PromptSubmit
    <3>6. ~Denied(q)
      BY <3>5, IdAssumption DEF Read, Rejected
    <3> QED
      BY <2>1, <3>5, <3>6 DEF Denied
  <2> QED
    BY <1>6, <2>2, <2>3 DEF KeysArrive, OwnKeys
<1>7. CASE Enter
  <2>1. event'.keys = None
    BY <1>7 DEF Enter, PromptSubmit
  <2> QED
    BY <2>1 DEF OwnKeys
<1>8. CASE PromptChecked
  <2>1. UNCHANGED <<completed, response, result, frame, chain, dispatched>>
    BY <1>8 DEF PromptChecked, broker, transport, hook
  <2>2. /\ event.step = "checking" /\ event'.text = event.text /\ event'.owner = event.owner
        /\ event'.keys = event.keys /\ UNCHANGED <<crossed, overtaken>>
    BY <1>8, EventOwner DEF PromptChecked, history
  <2> QED
    BY <2>1, <2>2 DEF OwnKeys, Denied
<1>9. CASE PromptCancelled
  BY <1>9 DEF PromptCancelled, OwnKeys, Quiet
<1>10. CASE PromptAccepted
  BY <1>10 DEF PromptAccepted, OwnKeys, Quiet
<1>11. CASE PromptDropped
  BY <1>11 DEF PromptDropped, OwnKeys, Quiet
<1>12. CASE UNCHANGED vars
  BY <1>12, <1>0 DEF vars, broker, transport, hook, history
<1> QED
  BY <1>1, <1>2, <1>3, <1>4, <1>5, <1>6, <1>7, <1>8, <1>9, <1>10, <1>11, <1>12
     DEF Next, PerformStep, PollStep, PromptStep, Starts

\* What has happened to a submission is not forgotten.
LEMMA Grows ==
    ASSUME [Next]_vars
    PROVE  /\ crossed \subseteq crossed' /\ overtaken \subseteq overtaken'
           /\ completed \subseteq completed'
<1> DEFINE Later ==
      crossed \subseteq crossed' /\ overtaken \subseteq overtaken' /\ completed \subseteq completed'
<1>0. ASSUME UNCHANGED <<crossed, overtaken, completed>>
      PROVE  Later
  BY <1>0 DEF Finish
<1>1. CASE \/ \E q \in Req : Submit(q) \/ SubmitContinues(q) \/ Expire(q)
           \/ \E a \in Aux : Inquire(a)
           \/ \E id \in Ids : Timeout(id)
           \/ Dispose \/ PerformStart \/ PerformClear
  BY <1>1, <1>0
     DEF Submit, SubmitContinues, Expire, Inquire, Timeout, Dispose, PerformStart, PerformClear,
         broker, transport, hook, history
<1>2. CASE \/ PerformPublish \/ PerformAnswered \/ PerformAbandoned \/ PerformEnd
           \/ Switch \/ Rebind
           \/ \E q \in Req : PerformPrepared(q)
           \/ \E e \in Starts : PollRead(e)
  BY <1>2, <1>0
     DEF PerformPublish, PerformPrepared, PerformAnswered, PerformAbandoned, PerformEnd, PollRead,
         Switch, Rebind, broker, transport, hook, history
<1>3. CASE \/ PromptChecked \/ Edit
  BY <1>3, <1>0 DEF PromptChecked, Edit, broker, transport, hook, history
<1>4. ASSUME NEW e \in Starts, PollCheck(e)
      PROVE  Later
  BY <1>4
     DEF PollCheck, PollRejects, PollEnd, PollAt, Finish, Reply, StillCurrent, broker, transport,
         history, Finish
<1>5. ASSUME NEW e \in Starts, PollInspect(e)
      PROVE  Later
  BY <1>5
     DEF PollInspect, PollRejects, PollEnd, PollAt, Finish, Reply, StillCurrent, broker,
         transport, history, Finish
<1>6. ASSUME NEW e \in Starts, PollFill(e)
      PROVE  Later
  BY <1>6
     DEF PollFill, PollRejects, PollEnd, PollAt, Finish, Reply, broker, transport, history, Finish
<1>7. ASSUME NEW e \in Starts, PollPrepare(e)
      PROVE  Later
  BY <1>7
     DEF PollPrepare, PollRejects, PollEnd, PollAt, Finish, Reply, StillCurrent, Displaced,
         broker, transport, Finish
<1>8. CASE PrepareTimer
  BY <1>8 DEF PrepareTimer, Finish, Reply, broker, transport, history, Finish
<1>9. ASSUME NEW ended \in BOOLEAN, Reset(ended)
      PROVE  Later
  BY <1>9 DEF Reset, Finish, Reply, broker, transport, Finish
<1>10. CASE KeysArrive
  BY <1>10 DEF KeysArrive, PromptSubmit, GuardPending, GuardRetired, broker, transport, Finish
<1>11. CASE Enter
  BY <1>11 DEF Enter, PromptSubmit, GuardPending, GuardRetired, broker, transport, Finish
<1>12. CASE PromptCancelled
  BY <1>12 DEF PromptCancelled, Finish, Reply, broker, transport, history, Finish
<1>13. CASE PromptAccepted
  BY <1>13 DEF PromptAccepted, Finish, Reply, broker, transport, Finish
<1>14. CASE PromptDropped
  BY <1>14 DEF PromptDropped, Finish, Reply, broker, transport, history, Finish
<1>15. CASE UNCHANGED vars
  BY <1>15, <1>0 DEF vars, broker, transport, hook, history
<1> QED
  BY <1>1, <1>2, <1>3, <1>4, <1>5, <1>6, <1>7, <1>8, <1>9, <1>10, <1>11, <1>12, <1>13, <1>14,
     <1>15
     DEF Next, PerformStep, PollStep, PromptStep, Starts

\* A draft that its keys have sent is not called not sent.
LEMMA DenialStep ==
    ASSUME TypeOK, Slot, Polls, Read, KeysSent, OwnKeys, NotDenied, [Next]_vars
    PROVE  NotDenied'
<1> USE Parts, IdAssumption DEF Ids, Starts
<1>0. ASSUME UNCHANGED <<byKeys>>
      PROVE  NotDenied'
  BY <1>0, Grows, DeniedStep DEF NotDenied, KeysSent
<1>1. CASE \/ \E q \in Req : Submit(q) \/ SubmitContinues(q) \/ Expire(q)
           \/ \E a \in Aux : Inquire(a)
           \/ \E id \in Ids : Timeout(id)
           \/ Dispose \/ PerformStart \/ PerformClear
  BY <1>1, <1>0
     DEF Submit, SubmitContinues, Expire, Inquire, Timeout, Dispose, PerformStart, PerformClear,
         broker, transport, hook, history
<1>2. CASE \/ PerformPublish \/ PerformAnswered \/ PerformAbandoned \/ PerformEnd
           \/ \E q \in Req : PerformPrepared(q)
           \/ \E e \in Starts : PollRead(e) \/ PollCheck(e) \/ PollInspect(e)
  BY <1>2, <1>0
     DEF PerformPublish, PerformPrepared, PerformAnswered, PerformAbandoned, PerformEnd, PollRead,
         PollCheck, PollInspect, broker, transport, hook, history
<1>3. CASE \/ \E e \in Starts : PollFill(e) \/ PollPrepare(e)
           \/ PrepareTimer \/ Switch \/ Rebind \/ KeysArrive \/ Enter
           \/ \E ended \in BOOLEAN : Reset(ended)
  BY <1>3, <1>0
     DEF PollFill, PollPrepare, PrepareTimer, Switch, Rebind, Reset, KeysArrive, Enter, broker,
         transport, hook, history
<1>4. CASE \/ PromptChecked \/ PromptCancelled \/ PromptDropped \/ Edit
  BY <1>4, <1>0
     DEF PromptChecked, PromptCancelled, PromptDropped, Edit, broker, transport, hook, history
<1>5. CASE PromptAccepted
  <2>1. UNCHANGED <<crossed, overtaken, dispatched>> /\ completed \subseteq completed'
    BY <1>5 DEF PromptAccepted, Finish, broker
  <2>2. ASSUME NEW q \in byKeys
        PROVE  q \in crossed \cup overtaken \/ (q \in completed' /\ ~Denied(q)')
    BY <2>1, DeniedStep DEF NotDenied, KeysSent
  <2>3. ASSUME NEW q \in Req, event.keys = q, event.text = q
        PROVE  q \in crossed \cup overtaken \/ (q \in completed' /\ ~Denied(q)')
    <3>1. SUFFICES ASSUME q \notin crossed \cup overtaken
                   PROVE  q \in completed' /\ ~Denied(q)'
      OBVIOUS
    <3>2. event.owner = q /\ q # None /\ ~Denied(q)
      BY <1>5, <2>3, <3>1 DEF PromptAccepted, OwnKeys
    <3>3. UNCHANGED <<result, frame, chain>> /\ Finish(q, "accepted")
      BY <1>5, <3>2 DEF PromptAccepted, broker, transport
    <3>4. q \in completed' /\ response' \in {response, [id |-> q, kind |-> "accepted"]}
      BY <3>3 DEF Finish, Reply
    <3> QED
      BY <2>1, <3>2, <3>3, <3>4 DEF Denied
  <2>4. byKeys' \subseteq byKeys \cup {q \in Req : q = event.text /\ event.keys = event.text}
    BY <1>5 DEF PromptAccepted
  <2> QED
    BY <2>1, <2>2, <2>3, <2>4 DEF NotDenied
<1>6. CASE UNCHANGED vars
  BY <1>6, <1>0 DEF vars, broker, transport, hook, history
<1> QED
  BY <1>1, <1>2, <1>3, <1>4, <1>5, <1>6
     DEF Next, PerformStep, PollStep, PromptStep, Starts

\* The user's text leaves the box by an edit or into an event.
LEMMA TextStep ==
    ASSUME TypeOK, [Next]_vars
    PROVE  box = "other" /\ box' # "other" => typed' # typed \/ event'.text = "other"
<1> USE Parts, IdAssumption DEF Ids, Starts
<1> DEFINE Kept ==
      box = "other" /\ box' # "other" => typed' # typed \/ event'.text = "other"
<1>0. ASSUME UNCHANGED <<box>>
      PROVE  Kept
  BY <1>0
<1>1. CASE \/ \E q \in Req : Submit(q) \/ SubmitContinues(q) \/ Expire(q)
           \/ \E a \in Aux : Inquire(a)
           \/ \E id \in Ids : Timeout(id)
           \/ Dispose \/ PerformStart \/ PerformClear
  BY <1>1, <1>0
     DEF Submit, SubmitContinues, Expire, Inquire, Timeout, Dispose, PerformStart, PerformClear,
         broker, transport, hook, history
<1>2. CASE \/ PerformPublish \/ PerformAnswered \/ PerformAbandoned \/ PerformEnd
           \/ \E q \in Req : PerformPrepared(q)
           \/ \E e \in Starts : PollRead(e) \/ PollCheck(e) \/ PollInspect(e)
  BY <1>2, <1>0
     DEF PerformPublish, PerformPrepared, PerformAnswered, PerformAbandoned, PerformEnd, PollRead,
         PollCheck, PollInspect, broker, transport, hook, history
<1>3. CASE \/ \E e \in Starts : PollPrepare(e)
           \/ PrepareTimer \/ Switch \/ Rebind \/ PromptChecked \/ PromptAccepted
           \/ PromptDropped
           \/ \E ended \in BOOLEAN : Reset(ended)
  BY <1>3, <1>0
     DEF PollPrepare, PrepareTimer, Switch, Rebind, Reset, PromptChecked, PromptAccepted,
         PromptDropped, broker, transport, hook, history
<1>4. ASSUME NEW e \in Starts, PollFill(e)
      PROVE  Kept
  BY <1>4, NoneAssumption DEF PollFill, Texts
<1>5. CASE KeysArrive
  BY <1>5 DEF KeysArrive, PromptSubmit
<1>6. CASE Enter
  BY <1>6 DEF Enter, PromptSubmit
<1>7. CASE PromptCancelled
  BY <1>7, NoneAssumption DEF PromptCancelled, Texts
<1>8. CASE Edit
  BY <1>8, BoundAssumption DEF Edit, BoxType
<1>9. CASE UNCHANGED vars
  BY <1>9, <1>0 DEF vars, broker, transport, hook, history
<1> QED
  BY <1>1, <1>2, <1>3, <1>4, <1>5, <1>6, <1>7, <1>8, <1>9
     DEF Next, PerformStep, PollStep, PromptStep, Starts

----------------------------------------------------------------------------
(* Theorems *)

\* The invariant holds of a system that has just started.
LEMMA Start == Init => IInv
<1> SUFFICES ASSUME Init
             PROVE  IInv
  OBVIOUS
<1> USE DEF Init, Starts
<1>1. Coming(keys) = {} /\ DOMAIN keys = {}
  BY NoneComing
<1>2. TypeOK
  <2>1. BrokerType /\ SlotType
    BY DEF BrokerType, SlotType, Outcomes
  <2>2. PollType /\ OwnerType
    BY BoundAssumption DEF PollType, OwnerType
  <2>3. BoxType /\ HistoryType
    BY BoundAssumption DEF BoxType, HistoryType, Texts
  <2> QED
    BY <2>1, <2>2, <2>3, Parts
<1>3. Slot /\ Results /\ Replies
  <2>1. Slot
    BY NoneAssumption DEF Slot
  <2>2. Results /\ Replies
    BY DEF Results, Replies, Outcomes, Ids
  <2> QED
    BY <2>1, <2>2
<1>4. Drafts
  BY IdAssumption DEF Drafts, Drafting, Quiet
<1>5. Polls
  BY IdAssumption, BoundAssumption DEF Polls, Ids
<1>6. Read /\ Order
  <2>1. Read
    BY <1>1 DEF Read, Quiet
  <2>2. Order
    BY DEF Order, Ids
  <2> QED
    BY <2>1, <2>2
<1>7. Queue
  BY <1>1 DEF Queue, Ready, Ids
<1>8. Turns
  BY <1>1, IdAssumption DEF Turns, TurnTaken, TurnHeld, TurnOwned, Quiet
<1>9. Said
  <2>1. \A q \in Req : [id |-> q, kind |-> "rejected"] # None
    BY FrameThere DEF Outcomes, Ids
  <2> QED
    BY <2>1, NoneAssumption
       DEF Said, Accepted, Accepting, Rejected, Denied, KeysSent, Quiet, Outcomes
<1> QED
  BY <1>2, <1>3, <1>4, <1>5, <1>6, <1>7, <1>8, <1>9 DEF IInv

\* Every step keeps the order of requests, keys and answers.
THEOREM Invariance == Spec => []IInv
<1>1. IInv /\ [Next]_vars => IInv'
  <2> SUFFICES ASSUME IInv, [Next]_vars
               PROVE  IInv'
    OBVIOUS
  <2> USE DEF IInv, Turns, Said
  <2>1. TypeOK' /\ Slot' /\ Results' /\ Replies'
    BY TypeStep, SlotStep, ResultStep, ReplyStep
  <2>2. Drafts' /\ Polls' /\ Read' /\ Order' /\ Queue'
    BY DraftStep, PollsStep, ReadStep, OrderStep, QueueStep
  <2>3. TurnTaken' /\ TurnHeld' /\ TurnOwned'
    BY TakenStep, HeldStep, OwnedStep
  <2>4. Accepted' /\ Accepting' /\ Rejected' /\ KeysSent'
    BY AcceptedStep, AcceptingStep, RejectedStep, KeysSentStep
  <2> QED
    BY <2>1, <2>2, <2>3, <2>4
<1> QED
  BY Start, <1>1, PTL DEF Spec

\* The broker, the transport and the hook keep their state in shape; no request
\* is answered with a frame that is only meant to have its keys typed.
THEOREM TypeCorrect == Spec => []TypeOK
<1>1. IInv => TypeOK
  BY DEF IInv
<1> QED
  BY <1>1, Invariance, PTL

\* A submission is taken at most once, and accepted means that it was.
Once == \A q \in Req : taken[q] <= 1 /\ (result[q] = "accepted" => q \in vouched)

\* Claude takes a submission at most once and nothing is called accepted but what
\* it took while the hook waited for it, however late keys are.
THEOREM TakenOnce == Spec => []Once
<1>1. IInv => Once
  BY DEF IInv, Once, Drafts, Said, Accepted
<1> QED
  BY <1>1, Invariance, PTL

\* The composer never erases text of the user's that is in Claude's input box.
THEOREM TextKept == Spec => NativeTextKept
<1>1. IInv /\ [Next]_vars =>
        [box = "other" /\ box' # "other" => typed' # typed \/ event'.text = "other"]_vars
  BY TextStep DEF IInv
<1> QED
  BY <1>1, Invariance, PTL DEF Spec, NativeTextKept

\* Keys that reach Claude within five seconds find the submission they belong to.
THEOREM KeysInTime ==
    ASSUME LateKeys = FALSE
    PROVE  Spec => []InTime
<1>1. Init => InTime
  <2> SUFFICES ASSUME Init
               PROVE  InTime
    OBVIOUS
  <2> USE DEF Init
  <2>1. Coming(keys) = {}
    BY NoneComing
  <2>2. Unexpired /\ Known /\ Owned
    BY <2>1 DEF Unexpired, Known, Owned, Ready, Ids
  <2>3. NotForeign /\ OwnKeys /\ NotDenied
    BY DEF NotForeign, OwnKeys, NotDenied, Quiet
  <2> QED
    BY <2>2, <2>3 DEF InTime
<1>2. IInv /\ InTime /\ [Next]_vars => InTime'
  <2> SUFFICES ASSUME IInv, InTime, [Next]_vars
               PROVE  InTime'
    OBVIOUS
  <2> USE DEF IInv, InTime, Turns, Said
  <2>1. Unexpired' /\ Known' /\ Owned'
    BY LateKeys = FALSE, UnexpiredStep, KnownStep, KeysOwnedStep
  <2>2. NotForeign' /\ OwnKeys' /\ NotDenied'
    BY ForeignStep, OwnKeysStep, DenialStep
  <2> QED
    BY <2>1, <2>2
<1> QED
  BY <1>1, <1>2, Invariance, PTL DEF Spec

\* What the composer sends is its draft, once: the user's text is never sent by
\* its keys, unless something came before them.
THEOREM DraftsOnce ==
    ASSUME LateKeys = FALSE
    PROVE  Spec => []OnlyDraftsOnce
<1>1. IInv /\ InTime => OnlyDraftsOnce
  BY DEF IInv, InTime, Drafts, NotForeign, OnlyDraftsOnce
<1> QED
  BY <1>1, Invariance, KeysInTime, PTL

\* What the composer says of a submission is true: accepted is what Claude took on
\* its behalf, and nothing that its keys have sent is called not sent.
THEOREM OutcomesAreTrue ==
    ASSUME LateKeys = FALSE
    PROVE  Spec => []OutcomesTrue
<1>1. IInv /\ InTime => OutcomesTrue
  <2> SUFFICES ASSUME IInv, InTime, NEW q \in Req
               PROVE  /\ result[q] = "accepted" => q \in vouched
                      /\ q \in byKeys /\ result[q] = "rejected" => q \in overtaken \cup crossed
    BY DEF OutcomesTrue
  <2>1. result[q] = "accepted" => q \in vouched
    BY DEF IInv, Said, Accepted
  <2>2. q \in byKeys /\ result[q] = "rejected" => Denied(q)
    BY DEF IInv, Said, KeysSent, Denied
  <2> QED
    BY <2>1, <2>2 DEF InTime, NotDenied
<1> QED
  BY <1>1, Invariance, KeysInTime, PTL
=============================================================================
