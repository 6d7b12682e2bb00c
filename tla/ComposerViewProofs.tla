------------------------- MODULE ComposerViewProofs -------------------------
(***************************************************************************)
(* Proofs about ComposerView, for any number of conversations, pieces,     *)
(* events and messages under way: that no text is lost between the editor  *)
(* and the host, and that once everything has arrived both have the same.  *)
(***************************************************************************)
EXTENDS ComposerView, TLAPS

--------------------
(* The queues *)

Labels == {"unsaved", "saving", "saved"}
Sendings == [id : Id, draft : Draft, uncertainty : Nat, step : {"queued", "delivering", "clearing"}]
ViewMessages ==
    [kind : {"ready"}] \cup [kind : {"activate"}, conv : Conv] \cup [kind : {"visible"}, value : BOOLEAN]
        \cup [kind : {"edit"}, conv : Conv, draft : Draft]
        \cup [kind : {"recall"}, conv : Conv, append : BOOLEAN, rev : Nat]
        \cup [kind : {"send"}, conv : Conv, id : Id, draft : Draft]
HostMessages ==
    [kind : {"hydrate"}, conv : Conv, draft : Draft, visible : BOOLEAN, label : Labels]
        \cup [kind : {"status"}, conv : Conv, rev : Nat, label : Labels]
        \cup [kind : {"result"}, conv : Conv, id : Id, status : Outcomes]

\* The types, those of what is in the queues included.
TypesSound ==
    /\ TypeOK
    /\ sends \in [Conv -> Seq(Sendings)]
    /\ up \in Seq(ViewMessages) /\ down \in Seq(HostMessages)

IsEdit(m, c) == m.kind = "edit" /\ m.conv = c
IsHydration(m, c) == m.kind = "hydrate" /\ m.conv = c

\* The edits of a conversation that are on their way, each later than those before it.
Edits(q, c) == {q[i].draft : i \in {j \in DOMAIN q : IsEdit(q[j], c)}}
Increasing(q, c) ==
    \A i, j \in DOMAIN q :
        i < j /\ IsEdit(q[i], c) /\ IsEdit(q[j], c) => q[i].draft.rev < q[j].draft.rev

\* No hydration makes the view turn to another session than c, up to the i-th message ...
StaysUntil(q, i, c) == \A j \in DOMAIN q : j <= i /\ q[j].kind = "hydrate" => q[j].conv = c

\* ... or at all.
Stays(q, c) == \A j \in DOMAIN q : q[j].kind = "hydrate" => q[j].conv = c

\* The drafts that a view showing c is told before it turns to another session.
Told(q, c) ==
    {q[i].draft : i \in {j \in DOMAIN q : q[j].kind = "hydrate" /\ StaysUntil(q, j, c)}}

\* Hydrations of a conversation come in the order of its drafts.
Sorted(q) ==
    \A i, j \in DOMAIN q :
        i < j /\ q[i].kind = "hydrate" /\ q[j].kind = "hydrate" /\ q[i].conv = q[j].conv =>
          /\ q[i].draft.rev <= q[j].draft.rev
          /\ q[i].draft.rev = q[j].draft.rev => q[i].draft = q[j].draft

\* Some message of the queue is one of these.
Has(q, good) == \E j \in DOMAIN q : q[j] \in good

\* Whatever a bad message does, a good one behind it mends.
Mended(q, bad, good) ==
    \A i \in DOMAIN q : q[i] \in bad => \E j \in DOMAIN q : j > i /\ q[j] \in good

--------------------
(* The inductive invariant *)

\* A draft that the host has or has had.
Past(c, draft) == draft.rev <= drafts[c].rev /\ (draft.rev = drafts[c].rev => draft = drafts[c])

\* What the view and the host have of one conversation: the view draft x, the host d;
\* edits are on their way to the host, and the view will be told of drafts; stays says
\* that it will then still show the conversation.  In words: the view has given its
\* draft a revision that the host does not have only with an edit on its way; it is
\* told every revision after its own, one by one; and what it has and what it is told
\* lose nothing on the way but what is gone.
Follows(x, d, edits, told, stays, gone) ==
    /\ \A e \in edits : e.rev <= x.rev /\ (e.rev = x.rev => e = x)
    /\ x.rev > d.rev => x \in edits
    /\ edits # {} /\ x \notin edits => x.text \ d.text \subseteq gone
    /\ \A m \in told : m.rev <= d.rev /\ (m.rev = d.rev => m = d)
    /\ \A m \in told : \A k \in (x.rev + 1)..m.rev : \E n \in told : n.rev = k
    /\ (\A m \in told : m.rev = x.rev => m = x) =>
          \A m \in told : m.rev > x.rev => x.text \ m.text \subseteq gone
    /\ \A m \in told : m.rev >= x.rev =>
          /\ m.text \ d.text \subseteq gone
          /\ \A n \in told : n.rev >= m.rev => m.text \ n.text \subseteq gone
    /\ stays => \A k \in (x.rev + 1)..d.rev : \E n \in told : n.rev = k
    /\ stays /\ x.rev = d.rev => x = d \/ d \in told

\* So it is for the session the view shows.
Following ==
    view.target # None /\ view.target \notin left =>
        Follows(view.draft, drafts[view.target], Edits(up, view.target), Told(down, view.target),
                Stays(down, view.target), Gone)

\* The pieces typed for a conversation that are neither in Claude's box nor gone.
Own(c) == {p \in DOMAIN typed : typed[p] = c} \ (native[c] \cup Gone)

\* The host has them and takes no other draft, or they are in the last edit on its way.
HeldByHost(c, own, edits) ==
    \/ own \subseteq drafts[c].text /\ \A e \in edits : Stale(c, e)
    \/ \E e \in edits : own \subseteq e.text /\ \A f \in edits : f.rev <= e.rev

\* The view has all of them that belong to the session it shows, the host the others.
Holding ==
    \A c \in Conv \ left :
        IF c = view.target THEN Own(c) \subseteq view.draft.text
        ELSE HeldByHost(c, Own(c), Edits(up, c))

QueuesSound ==
    /\ \A c \in Conv \ left : Increasing(up, c)
    /\ Sorted(down)
    /\ \A j \in DOMAIN down : down[j].kind = "hydrate" => Past(down[j].conv, down[j].draft)
    /\ \A j \in DOMAIN down : down[j].kind = "status" => down[j].rev <= drafts[down[j].conv].rev

OfKinds(kinds) == {m \in ViewMessages : m.kind \in kinds}
Hydrations == {m \in HostMessages : m.kind = "hydrate"}
OfActive == {m \in Hydrations : m.conv = active}

\* The view ends at the session that is active ...
ActiveComes ==
    /\ Mended(down, Hydrations \ OfActive, OfActive)
    /\ view.target \notin {None, active} => Has(down, OfActive)
    /\ view.target = None => Has(down, Hydrations) \/ Has(up, OfKinds({"ready"}))

AsVisible == {m \in Hydrations : m.visible = visible}

\* ... as visible as the host thinks it is ...
VisibleComes ==
    /\ Mended(down, Hydrations \ AsVisible, AsVisible)
    /\ view.visible # visible =>
         Has(down, AsVisible) \/ Has(up, OfKinds({"ready", "visible"}))

Questions(c, id) == {m \in ViewMessages : m.kind = "send" /\ m.conv = c /\ m.id = id}
Sent(id) == {s \in Sendings : s.id = id}
Answers(c, id) == {m \in HostMessages : m.kind = "result" /\ m.conv = c /\ m.id = id}

\* ... and with an answer to what it has sent.
PendingAnswered ==
    view.pending # None =>
      /\ view.target # None
      /\ \/ ~Stays(down, view.target)
         \/ Has(up, Questions(view.target, view.pending))
         \/ Has(sends[view.target], Sent(view.pending))
         \/ Has(down, Answers(view.target, view.pending))

\* What is imported, sent and stored is of the past, in the order in which it was begun.
RecentSound(c) == recent[c] \subseteq fate["sent"]
StoredSound(c) == stored[c] # None => Past(c, stored[c])
SendsSound(c) ==
    \A i \in DOMAIN sends[c] :
        /\ sends[c][i].step # "queued" => Past(c, sends[c][i].draft)
        /\ sends[c][i].step = "clearing" => sends[c][i].draft.text \subseteq fate["sent"]
ImportSound(c) ==
    imports[c] # None =>
        /\ ~imports[c].stale => c = active
        /\ imports[c].step = "reading" => imports[c].draft.text = {}
CopySound(c) ==
    Importing(c, "saving") =>
        /\ Past(c, imports[c].draft)
        /\ imports[c].draft = drafts[c] \/ c \in saving
        /\ \A i \in DOMAIN sends[c] :
             sends[c][i].step # "queued" => sends[c][i].draft.rev < imports[c].draft.rev
WorkOf(c) == RecentSound(c) /\ StoredSound(c) /\ SendsSound(c) /\ ImportSound(c) /\ CopySound(c)
WorkSound == \A c \in Conv : WorkOf(c)

\* No write of the draft is due.
Written(c) == c \notin saving /\ ~Importing(c, "saving")

\* The messages that label the present draft, and those that do it as they should.
Labelling(c) ==
    {m \in Hydrations : m.conv = c /\ m.draft = drafts[c]} \cup
    {m \in HostMessages : m.kind = "status" /\ m.conv = c /\ m.rev = drafts[c].rev}
TrueLabel(c, label) == label # "saving" /\ (label = "saved" => stored[c] = drafts[c])
LabellingTruly(c) == {m \in Labelling(c) : TrueLabel(c, m.label)}

\* Whatever the view is told of a draft, in the end it is told the truth.
LabelsSound ==
    /\ \A c \in Conv : Written(c) => Mended(down, Labelling(c) \ LabellingTruly(c), LabellingTruly(c))
    /\ /\ view.target # None /\ view.target \notin left
       /\ Stays(down, view.target) /\ Written(view.target) /\ view.draft = drafts[view.target]
       => TrueLabel(view.target, view.label) \/ Has(down, LabellingTruly(view.target))

Keeping == QueuesSound /\ Following /\ Holding
Agreeing == ActiveComes /\ VisibleComes /\ PendingAnswered /\ LabelsSound
IInv == TypesSound /\ WorkSound /\ Keeping /\ Agreeing

--------------------
(* What view and host have of one conversation: no queues, no primes *)

\* The host gives its draft the next revision and keeps what is not gone.
LEMMA HostAdvances ==
    ASSUME NEW x \in Draft, NEW d \in Draft, NEW n \in Draft, NEW edits \in SUBSET Draft,
           NEW told \in SUBSET Draft, NEW stays \in BOOLEAN, NEW gone, NEW goneNow,
           Follows(x, d, edits, told, stays, gone),
           gone \subseteq goneNow, n.rev = d.rev + 1, d.text \ n.text \subseteq goneNow
    PROVE  Follows(x, n, edits, IF stays THEN told \cup {n} ELSE told, stays, goneNow)
<1>1. x.rev \in Nat /\ d.rev \in Nat /\ n.rev \in Nat /\ \A m \in told : m.rev \in Nat BY DEF Draft
<1>2. \A m \in told : m.rev < n.rev BY <1>1 DEF Follows
<1>3. /\ \A e \in edits : e.rev <= x.rev /\ (e.rev = x.rev => e = x)
      /\ x.rev > n.rev => x \in edits
      /\ edits # {} /\ x \notin edits => x.text \ n.text \subseteq goneNow
  BY <1>1 DEF Follows
<1>4. \A m \in told : \A k \in (x.rev + 1)..m.rev : \E t \in told : t.rev = k BY DEF Follows
<1>5. (\A m \in told : m.rev = x.rev => m = x) =>
          \A m \in told : m.rev > x.rev => x.text \ m.text \subseteq goneNow
  BY DEF Follows
<1>6. \A m \in told : m.rev >= x.rev =>
          /\ m.text \ n.text \subseteq goneNow
          /\ \A t \in told : t.rev >= m.rev => m.text \ t.text \subseteq goneNow
  BY DEF Follows
<1>7. ASSUME stays PROVE Follows(x, n, edits, told \cup {n}, TRUE, goneNow)
  <2>1. \A k \in (x.rev + 1)..n.rev : \E t \in told \cup {n} : t.rev = k BY <1>7, <1>1 DEF Follows
  <2>2. ASSUME \A m \in told \cup {n} : m.rev = x.rev => m = x
        PROVE  \A m \in told \cup {n} : m.rev > x.rev => x.text \ m.text \subseteq goneNow
    <3>1. \A m \in told : m.rev > x.rev => x.text \ m.text \subseteq goneNow BY <1>5, <2>2
    <3>2. ASSUME n.rev > x.rev PROVE x.text \ n.text \subseteq goneNow
      <4>1. CASE d.rev = x.rev BY <2>2, <4>1, <1>7 DEF Follows
      <4>2. CASE d.rev # x.rev
        <5>1. d.rev \in (x.rev + 1)..d.rev BY <1>1, <3>2, <4>2
        <5>2. PICK t \in told : t.rev = d.rev BY <1>7, <5>1 DEF Follows
        <5> QED BY <1>1, <3>1, <5>1, <5>2 DEF Follows
      <4> QED BY <4>1, <4>2
    <3> QED BY <3>1, <3>2
  <2> QED BY <1>3, <2>1, <1>4, <2>2, <1>1, <1>2, <1>6 DEF Follows
<1>8. CASE stays = TRUE BY <1>7, <1>8
<1>9. CASE stays = FALSE BY <1>1, <1>2, <1>3, <1>4, <1>5, <1>6, <1>9 DEF Follows
<1> QED BY <1>8, <1>9

\* The host tells its draft once more.
LEMMA HostRepeats ==
    ASSUME NEW x \in Draft, NEW d \in Draft, NEW edits \in SUBSET Draft,
           NEW told \in SUBSET Draft, NEW gone, NEW goneNow,
           Follows(x, d, edits, told, TRUE, gone), gone \subseteq goneNow
    PROVE  Follows(x, d, edits, told \cup {d}, TRUE, goneNow)
<1>1. x.rev \in Nat /\ d.rev \in Nat /\ \A m \in told : m.rev \in Nat BY DEF Draft
<1>2. ASSUME \A m \in told \cup {d} : m.rev = x.rev => m = x
      PROVE  \A m \in told \cup {d} : m.rev > x.rev => x.text \ m.text \subseteq goneNow
  <2>1. ASSUME d.rev > x.rev PROVE d \in told
    <3>1. PICK t \in told : t.rev = d.rev BY <1>1, <2>1 DEF Follows
    <3> QED BY <3>1 DEF Follows
  <2> QED BY <1>2, <2>1 DEF Follows
<1>3. \A m \in told \cup {d} : m.rev >= x.rev =>
        /\ m.text \ d.text \subseteq goneNow
        /\ \A t \in told \cup {d} : t.rev >= m.rev => m.text \ t.text \subseteq goneNow
  BY <1>1 DEF Follows
<1> QED BY <1>1, <1>2, <1>3 DEF Follows

\* More is gone, or the view will turn to another session.
LEMMA FollowsStill ==
    ASSUME NEW x, NEW d, NEW edits, NEW told, NEW stays \in BOOLEAN, NEW staysNow \in BOOLEAN,
           NEW gone, NEW goneNow,
           Follows(x, d, edits, told, stays, gone), gone \subseteq goneNow, staysNow => stays
    PROVE  Follows(x, d, edits, told, staysNow, goneNow)
<1> QED BY DEF Follows

\* The host takes the first edit on its way.
LEMMA HostTakes ==
    ASSUME NEW x \in Draft, NEW d \in Draft, NEW edits \in SUBSET Draft,
           NEW told \in SUBSET Draft, NEW stays \in BOOLEAN, NEW gone, NEW e \in edits,
           Follows(x, d, edits, told, stays, gone), e.rev > d.rev,
           \A f \in edits : f = e \/ f.rev > e.rev
    PROVE  Follows(x, e, edits \ {e}, told, stays, gone)
<1>1. /\ x.rev \in Nat /\ d.rev \in Nat /\ e.rev \in Nat
      /\ \A m \in told : m.rev \in Nat
      /\ \A f \in edits : f.rev \in Nat
  BY DEF Draft
<1>2. e.rev <= x.rev /\ x \in edits BY <1>1 DEF Follows
<1>3. \A m \in told : m.rev < e.rev BY <1>1 DEF Follows
<1>4. x.rev > e.rev => x \in edits \ {e} BY <1>1, <1>2
<1>5. ASSUME NEW f \in edits \ {e} PROVE x \in edits \ {e} BY <1>1, <1>4 DEF Follows
<1>6. x.rev = e.rev => x = e BY DEF Follows
<1>7. (x.rev + 1)..e.rev = {} BY <1>1, <1>2
<1>8. \A m \in told : ~(m.rev >= x.rev) /\ m.rev # x.rev BY <1>1, <1>2, <1>3
<1> QED BY <1>4, <1>5, <1>6, <1>7, <1>8, <1>1, <1>2, <1>3 DEF Follows

\* The host has the first edit on its way already, or will not have it.
LEMMA HostDrops ==
    ASSUME NEW x \in Draft, NEW d \in Draft, NEW edits \in SUBSET Draft,
           NEW told \in SUBSET Draft, NEW stays \in BOOLEAN, NEW gone, NEW e \in edits,
           Follows(x, d, edits, told, stays, gone), e.rev <= d.rev,
           \A f \in edits : f = e \/ f.rev > e.rev
    PROVE  Follows(x, d, edits \ {e}, told, stays, gone)
<1>1. /\ x.rev \in Nat /\ d.rev \in Nat /\ e.rev \in Nat
      /\ \A f \in edits : f.rev \in Nat
  BY DEF Draft
<1> QED BY <1>1 DEF Follows

\* The view gives another draft the next revision and posts it.
LEMMA ViewChanges ==
    ASSUME NEW x \in Draft, NEW d \in Draft, NEW n \in Draft, NEW edits \in SUBSET Draft,
           NEW told \in SUBSET Draft, NEW stays \in BOOLEAN, NEW gone, NEW goneNow,
           Follows(x, d, edits, told, stays, gone), gone \subseteq goneNow, n.rev = x.rev + 1
    PROVE  Follows(n, d, edits \cup {n}, told, stays, goneNow)
<1>1. /\ x.rev \in Nat /\ d.rev \in Nat /\ n.rev \in Nat
      /\ \A m \in told : m.rev \in Nat
      /\ \A f \in edits : f.rev \in Nat
  BY DEF Draft
<1>2. \A e \in edits \cup {n} : e.rev <= n.rev /\ (e.rev = n.rev => e = n) BY <1>1 DEF Follows
<1>3. \A m \in told : m.rev >= n.rev =>
          /\ m.text \ d.text \subseteq goneNow
          /\ \A t \in told : t.rev >= m.rev => m.text \ t.text \subseteq goneNow
  BY <1>1 DEF Follows
<1>4. ASSUME \A m \in told : m.rev = n.rev => m = n
      PROVE  \A m \in told : m.rev > n.rev => n.text \ m.text \subseteq goneNow
  <2>1. ASSUME NEW m \in told, m.rev > n.rev PROVE n.text \ m.text \subseteq goneNow
    <3>1. PICK t \in told : t.rev = n.rev BY <1>1, <2>1 DEF Follows
    <3> QED BY <1>1, <1>3, <2>1, <3>1, <1>4
  <2> QED BY <2>1
<1>5. ASSUME stays, n.rev = d.rev PROVE d \in told
  <2>1. PICK t \in told : t.rev = d.rev BY <1>5, <1>1 DEF Follows
  <2> QED BY <2>1 DEF Follows
<1> QED BY <1>2, <1>1, <1>3, <1>4, <1>5 DEF Follows

\* The view is told the first draft m: later ones stay to be told, and m perhaps again.
\* It takes a later one, and loses only what is gone ...
LEMMA ViewTakes ==
    ASSUME NEW x \in Draft, NEW d \in Draft, NEW edits \in SUBSET Draft,
           NEW told \in SUBSET Draft, NEW stays \in BOOLEAN, NEW gone, NEW m \in told, NEW rest,
           Follows(x, d, edits, told, stays, gone), m.rev > x.rev,
           \A n \in told : n.rev >= m.rev /\ (n.rev = m.rev => n = m),
           rest \in {told, told \ {m}}
    PROVE  /\ Follows(m, d, edits, rest, stays, gone)
           /\ x.text \ m.text \subseteq gone
<1>1. /\ x.rev \in Nat /\ d.rev \in Nat /\ m.rev \in Nat
      /\ \A n \in told : n.rev \in Nat
      /\ \A f \in edits : f.rev \in Nat
  BY DEF Draft
<1>2. x.text \ m.text \subseteq gone BY <1>1 DEF Follows
<1>3. \A e \in edits : e.rev <= m.rev /\ e.rev # m.rev BY <1>1 DEF Follows
<1>4. ~(m.rev > d.rev) /\ (m.rev = d.rev => m = d) BY <1>1 DEF Follows
<1>5. m.text \ d.text \subseteq gone BY <1>1 DEF Follows
<1>6. \A n \in told : \A k \in (m.rev + 1)..n.rev : \E t \in rest : t.rev = k
  <2>1. ASSUME NEW n \in told, NEW k \in (m.rev + 1)..n.rev PROVE \E t \in rest : t.rev = k
    <3>1. k \in (x.rev + 1)..n.rev /\ k # m.rev BY <1>1, <2>1
    <3>2. PICK t \in told : t.rev = k BY <3>1 DEF Follows
    <3> QED BY <3>1, <3>2
  <2> QED BY <2>1
<1>7. stays => \A k \in (m.rev + 1)..d.rev : \E t \in rest : t.rev = k
  <2>1. ASSUME stays, NEW k \in (m.rev + 1)..d.rev PROVE \E t \in rest : t.rev = k
    <3>1. k \in (x.rev + 1)..d.rev /\ k # m.rev BY <1>1, <2>1
    <3>2. PICK t \in told : t.rev = k BY <2>1, <3>1 DEF Follows
    <3> QED BY <3>1, <3>2
  <2> QED BY <2>1
<1> QED BY <1>2, <1>3, <1>4, <1>5, <1>6, <1>7, <1>1 DEF Follows

\* ... and ignores an earlier one, or its own.
LEMMA ViewIgnores ==
    ASSUME NEW x \in Draft, NEW d \in Draft, NEW edits \in SUBSET Draft,
           NEW told \in SUBSET Draft, NEW stays \in BOOLEAN, NEW gone, NEW m \in told, NEW rest,
           Follows(x, d, edits, told, stays, gone), m.rev < x.rev \/ m = x,
           rest \in {told, told \ {m}}
    PROVE  Follows(x, d, edits, rest, stays, gone)
<1>1. x.rev \in Nat /\ d.rev \in Nat /\ m.rev \in Nat /\ \A n \in told : n.rev \in Nat BY DEF Draft
<1>2. \A n \in told : \A k \in (x.rev + 1)..n.rev : \E t \in rest : t.rev = k
  <2>1. ASSUME NEW n \in told, NEW k \in (x.rev + 1)..n.rev PROVE \E t \in rest : t.rev = k
    <3>1. PICK t \in told : t.rev = k BY <2>1 DEF Follows
    <3> QED BY <1>1, <2>1, <3>1
  <2> QED BY <2>1
<1>3. stays => \A k \in (x.rev + 1)..d.rev : \E t \in rest : t.rev = k
  <2>1. ASSUME stays, NEW k \in (x.rev + 1)..d.rev PROVE \E t \in rest : t.rev = k
    <3>1. PICK t \in told : t.rev = k BY <2>1 DEF Follows
    <3> QED BY <1>1, <2>1, <3>1
  <2> QED BY <2>1
<1> QED BY <1>2, <1>3, <1>1 DEF Follows

\* A view that was just given the host's draft follows.
LEMMA ViewTurns ==
    ASSUME NEW d \in Draft, NEW told, told \subseteq {d}, NEW stays \in BOOLEAN, NEW gone
    PROVE  Follows(d, d, {}, told, stays, gone)
<1> QED BY DEF Follows, Draft

\* With nothing on its way the view has what the host has.
LEMMA ViewHas ==
    ASSUME NEW x \in Draft, NEW d \in Draft, NEW gone, Follows(x, d, {}, {}, TRUE, gone)
    PROVE  x = d
<1>1. x.rev \in Nat /\ d.rev \in Nat BY DEF Draft
<1>2. ~(d.rev > x.rev)
  <2>1. SUFFICES ASSUME d.rev > x.rev PROVE FALSE OBVIOUS
  <2> QED BY <1>1, <2>1 DEF Follows
<1> QED BY <1>1, <1>2 DEF Follows

--------------------
(* What is taken from a queue and put into it *)

LEMMA TailFacts ==
    ASSUME NEW S, NEW q \in Seq(S), q # <<>>
    PROVE  /\ Tail(q) \in Seq(S) /\ Head(q) = q[1] /\ Head(q) \in S
           /\ Len(q) \in Nat /\ Len(q) >= 1 /\ DOMAIN q = 1..Len(q)
           /\ Len(Tail(q)) = Len(q) - 1 /\ DOMAIN Tail(q) = 1..(Len(q) - 1)
           /\ \A i \in 1..(Len(q) - 1) : Tail(q)[i] = q[i + 1]
           /\ \A i \in DOMAIN q : i = 1 \/ (i - 1 \in DOMAIN Tail(q) /\ q[i] = Tail(q)[i - 1])
OBVIOUS

LEMMA ConcatFacts ==
    ASSUME NEW S, NEW q \in Seq(S), NEW r \in Seq(S)
    PROVE  /\ q \o r \in Seq(S)
           /\ Len(q) \in Nat /\ Len(r) \in Nat /\ Len(q \o r) = Len(q) + Len(r)
           /\ DOMAIN q = 1..Len(q) /\ DOMAIN r = 1..Len(r) /\ DOMAIN (q \o r) = 1..(Len(q) + Len(r))
           /\ \A i \in 1..Len(q) : (q \o r)[i] = q[i]
           /\ \A i \in 1..Len(r) : (q \o r)[Len(q) + i] = r[i]
           /\ \A i \in DOMAIN (q \o r) :
                 i \in DOMAIN q \/ (i - Len(q) \in DOMAIN r /\ (q \o r)[i] = r[i - Len(q)])
OBVIOUS

\* Taking the first message takes its edit off the way.
LEMMA EditsTail ==
    ASSUME NEW q \in Seq(ViewMessages), q # <<>>, NEW c
    PROVE  /\ Edits(q, c) = Edits(Tail(q), c) \cup (IF IsEdit(Head(q), c) THEN {Head(q).draft} ELSE {})
           /\ Increasing(q, c) =>
                /\ Increasing(Tail(q), c)
                /\ IsEdit(Head(q), c) => \A e \in Edits(Tail(q), c) : e.rev > Head(q).draft.rev
<1> DEFINE t == Tail(q)
<1>1. /\ Head(q) = q[1] /\ Len(q) \in Nat /\ Len(q) >= 1 /\ DOMAIN q = 1..Len(q)
      /\ DOMAIN t = 1..(Len(q) - 1)
      /\ \A i \in 1..(Len(q) - 1) : t[i] = q[i + 1]
      /\ \A i \in DOMAIN q : i = 1 \/ (i - 1 \in DOMAIN t /\ q[i] = t[i - 1])
  BY TailFacts
<1> HIDE DEF t
<1>2. ASSUME NEW d \in Edits(q, c)
      PROVE  d \in Edits(t, c) \cup (IF IsEdit(q[1], c) THEN {q[1].draft} ELSE {})
  <2>1. PICK i \in DOMAIN q : IsEdit(q[i], c) /\ d = q[i].draft BY <1>2 DEF Edits
  <2>2. CASE i = 1 BY <2>1, <2>2
  <2>3. CASE i # 1 BY <1>1, <2>1, <2>3 DEF Edits
  <2> QED BY <2>2, <2>3
<1>3. Edits(t, c) \subseteq Edits(q, c)
  <2>1. ASSUME NEW d \in Edits(t, c) PROVE d \in Edits(q, c)
    <3>1. PICK i \in DOMAIN t : IsEdit(t[i], c) /\ d = t[i].draft BY <2>1 DEF Edits
    <3>2. i + 1 \in DOMAIN q /\ q[i + 1] = t[i] BY <1>1, <3>1
    <3> QED BY <3>1, <3>2 DEF Edits
  <2> QED BY <2>1
<1>4. IsEdit(q[1], c) => q[1].draft \in Edits(q, c) BY <1>1 DEF Edits
<1>5. ASSUME Increasing(q, c) PROVE Increasing(t, c)
  <2>1. ASSUME NEW i \in DOMAIN t, NEW j \in DOMAIN t, i < j, IsEdit(t[i], c), IsEdit(t[j], c)
        PROVE  t[i].draft.rev < t[j].draft.rev
    <3>1. /\ i + 1 \in DOMAIN q /\ j + 1 \in DOMAIN q /\ i + 1 < j + 1
          /\ q[i + 1] = t[i] /\ q[j + 1] = t[j]
      BY <1>1, <2>1
    <3> QED BY <1>5, <2>1, <3>1 DEF Increasing
  <2> QED BY <2>1 DEF Increasing
<1>6. ASSUME Increasing(q, c), IsEdit(q[1], c), NEW e \in Edits(t, c) PROVE e.rev > q[1].draft.rev
  <2>1. PICK i \in DOMAIN t : IsEdit(t[i], c) /\ e = t[i].draft BY <1>6 DEF Edits
  <2>2. i + 1 \in DOMAIN q /\ 1 \in DOMAIN q /\ 1 < i + 1 /\ q[i + 1] = t[i] BY <1>1, <2>1
  <2> QED BY <1>6, <2>1, <2>2 DEF Increasing
<1> QED BY <1>1, <1>2, <1>3, <1>4, <1>5, <1>6 DEF t

\* Posting an edit puts it behind those that are on their way.
LEMMA EditsAppend ==
    ASSUME NEW q \in Seq(ViewMessages), NEW m \in ViewMessages, NEW c
    PROVE  /\ Edits(Append(q, m), c) = Edits(q, c) \cup (IF IsEdit(m, c) THEN {m.draft} ELSE {})
           /\ Increasing(q, c) /\ (IsEdit(m, c) => \A e \in Edits(q, c) : e.rev < m.draft.rev)
              => Increasing(Append(q, m), c)
<1> DEFINE t == Append(q, m)
<1>1. /\ Len(q) \in Nat /\ DOMAIN q = 1..Len(q) /\ DOMAIN t = 1..(Len(q) + 1)
      /\ t[Len(q) + 1] = m /\ \A i \in 1..Len(q) : t[i] = q[i]
  OBVIOUS
<1> HIDE DEF t
<1>2. \A i \in DOMAIN t : i = Len(q) + 1 \/ i \in DOMAIN q BY <1>1
<1>3. Edits(q, c) \subseteq Edits(t, c) BY <1>1 DEF Edits
<1>4. IsEdit(m, c) => m.draft \in Edits(t, c) BY <1>1 DEF Edits
<1>5. ASSUME Increasing(q, c), IsEdit(m, c) => \A e \in Edits(q, c) : e.rev < m.draft.rev
      PROVE  Increasing(t, c)
  <2>1. ASSUME NEW i \in DOMAIN t, NEW j \in DOMAIN t, i < j, IsEdit(t[i], c), IsEdit(t[j], c)
        PROVE  t[i].draft.rev < t[j].draft.rev
    <3>1. i \in DOMAIN q /\ t[i] = q[i] BY <1>1, <2>1
    <3>2. CASE j \in DOMAIN q BY <1>1, <1>5, <2>1, <3>1, <3>2 DEF Increasing
    <3>3. CASE j = Len(q) + 1 BY <1>1, <1>5, <2>1, <3>1, <3>3 DEF Edits
    <3> QED BY <1>2, <3>2, <3>3
  <2> QED BY <2>1 DEF Increasing
<1> QED BY <1>5, <1>1, <1>2, <1>3, <1>4 DEF t, Edits

\* What the view is told of c when the first message has been taken.
LEMMA ToldTail ==
    ASSUME NEW q \in Seq(HostMessages), q # <<>>, NEW c
    PROVE  /\ Head(q).kind # "hydrate" => Told(q, c) = Told(Tail(q), c) /\ (Stays(q, c) <=> Stays(Tail(q), c))
           /\ IsHydration(Head(q), c) =>
                /\ Told(q, c) = Told(Tail(q), c) \cup {Head(q).draft}
                /\ Stays(q, c) <=> Stays(Tail(q), c)
           /\ Head(q).kind = "hydrate" /\ Head(q).conv # c => Told(q, c) = {} /\ ~Stays(q, c)
           /\ Sorted(q) =>
                /\ Sorted(Tail(q))
                /\ IsHydration(Head(q), c) =>
                     \A n \in Told(Tail(q), c) : n.rev >= Head(q).draft.rev
                                                 /\ (n.rev = Head(q).draft.rev => n = Head(q).draft)
<1> DEFINE t == Tail(q)
<1>1. /\ Head(q) = q[1] /\ Len(q) \in Nat /\ Len(q) >= 1 /\ DOMAIN q = 1..Len(q)
      /\ DOMAIN t = 1..(Len(q) - 1)
      /\ \A i \in 1..(Len(q) - 1) : t[i] = q[i + 1]
      /\ \A i \in DOMAIN q : i = 1 \/ (i - 1 \in DOMAIN t /\ q[i] = t[i - 1])
  BY TailFacts
<1>2. t \in Seq(HostMessages) /\ \A i \in DOMAIN t : t[i].draft.rev \in Nat \/ t[i].kind # "hydrate"
  BY TailFacts DEF HostMessages, Draft
<1> HIDE DEF t
<1>3. ASSUME q[1].kind = "hydrate" => q[1].conv = c
      PROVE  /\ \A i \in DOMAIN t : StaysUntil(t, i, c) <=> StaysUntil(q, i + 1, c)
             /\ Stays(q, c) <=> Stays(t, c)
  <2>1. ASSUME NEW i \in DOMAIN t PROVE StaysUntil(t, i, c) <=> StaysUntil(q, i + 1, c)
    <3>1. ASSUME StaysUntil(t, i, c), NEW j \in DOMAIN q, j <= i + 1, q[j].kind = "hydrate"
          PROVE  q[j].conv = c
      <4>1. CASE j = 1 BY <1>3, <3>1, <4>1
      <4>2. CASE j # 1 BY <3>1, <1>1, <2>1, <4>2 DEF StaysUntil
      <4> QED BY <4>1, <4>2
    <3>2. ASSUME StaysUntil(q, i + 1, c), NEW j \in DOMAIN t, j <= i, t[j].kind = "hydrate"
          PROVE  t[j].conv = c
      <4>1. j + 1 \in DOMAIN q /\ q[j + 1] = t[j] /\ j + 1 <= i + 1 BY <1>1, <2>1, <3>2
      <4> QED BY <3>2, <4>1 DEF StaysUntil
    <3> QED BY <3>1, <3>2 DEF StaysUntil
  <2>2. ASSUME Stays(q, c), NEW j \in DOMAIN t, t[j].kind = "hydrate" PROVE t[j].conv = c
    BY <2>2, <1>1 DEF Stays
  <2>3. ASSUME Stays(t, c), NEW j \in DOMAIN q, q[j].kind = "hydrate" PROVE q[j].conv = c
    <3>1. CASE j = 1 BY <1>3, <2>3, <3>1
    <3>2. CASE j # 1 BY <1>1, <2>3, <3>2 DEF Stays
    <3> QED BY <3>1, <3>2
  <2> QED BY <2>1, <2>2, <2>3 DEF Stays
<1>4. ASSUME q[1].kind = "hydrate" => q[1].conv = c
      PROVE  Told(q, c) = Told(t, c) \cup (IF q[1].kind = "hydrate" THEN {q[1].draft} ELSE {})
  <2>1. ASSUME NEW d \in Told(q, c)
        PROVE  d \in Told(t, c) \cup (IF q[1].kind = "hydrate" THEN {q[1].draft} ELSE {})
    <3>1. PICK i \in DOMAIN q : q[i].kind = "hydrate" /\ StaysUntil(q, i, c) /\ d = q[i].draft
      BY <2>1 DEF Told
    <3>2. CASE i = 1 BY <3>1, <3>2
    <3>3. CASE i # 1 BY <3>1, <1>1, <3>3, <1>3, <1>4 DEF Told
    <3> QED BY <3>2, <3>3
  <2>2. ASSUME NEW d \in Told(t, c) PROVE d \in Told(q, c)
    <3>1. PICK i \in DOMAIN t : t[i].kind = "hydrate" /\ StaysUntil(t, i, c) /\ d = t[i].draft
      BY <2>2 DEF Told
    <3>2. i + 1 \in DOMAIN q /\ q[i + 1] = t[i] /\ StaysUntil(q, i + 1, c) BY <1>1, <1>3, <1>4, <3>1
    <3> QED BY <3>1, <3>2 DEF Told
  <2>3. ASSUME q[1].kind = "hydrate" PROVE q[1].draft \in Told(q, c)
    BY <2>3, <1>1, <1>4 DEF Told, StaysUntil
  <2> QED BY <2>1, <2>2, <2>3
<1>5. ASSUME q[1].kind = "hydrate", q[1].conv # c PROVE Told(q, c) = {} /\ ~Stays(q, c)
  BY <1>5, <1>1 DEF Told, Stays, StaysUntil
<1>6. ASSUME Sorted(q) PROVE Sorted(t)
  <2>1. ASSUME NEW i \in DOMAIN t, NEW j \in DOMAIN t, i < j, t[i].kind = "hydrate", t[j].kind = "hydrate",
               t[i].conv = t[j].conv
        PROVE  t[i].draft.rev <= t[j].draft.rev /\ (t[i].draft.rev = t[j].draft.rev => t[i].draft = t[j].draft)
    <3>1. /\ i + 1 \in DOMAIN q /\ j + 1 \in DOMAIN q /\ i + 1 < j + 1
          /\ q[i + 1] = t[i] /\ q[j + 1] = t[j]
      BY <1>1, <2>1
    <3> QED BY <1>6, <2>1, <3>1 DEF Sorted
  <2> QED BY <2>1 DEF Sorted
<1>7. ASSUME Sorted(q), IsHydration(q[1], c), NEW n \in Told(t, c)
      PROVE  n.rev >= q[1].draft.rev /\ (n.rev = q[1].draft.rev => n = q[1].draft)
  <2>1. PICK i \in DOMAIN t : t[i].kind = "hydrate" /\ StaysUntil(t, i, c) /\ n = t[i].draft
    BY <1>7 DEF Told
  <2>2. t[i].conv = c BY <2>1, <1>1 DEF StaysUntil
  <2>3. 1 \in DOMAIN q /\ i + 1 \in DOMAIN q /\ 1 < i + 1 /\ q[i + 1] = t[i] BY <1>1, <2>1
  <2> QED BY <2>1, <2>3, <1>7, <2>2 DEF Sorted, IsHydration
<1>8. IsHydration(q[1], c) => q[1].kind = "hydrate" /\ q[1].conv = c BY DEF IsHydration
<1> QED BY <1>1, <1>3, <1>4, <1>5, <1>6, <1>7, <1>8 DEF t

\* The host adds messages whose hydrations, if any, are of draft d of session a.
Tells(r, a, d) == \A i \in DOMAIN r : r[i].kind = "hydrate" => r[i].conv = a /\ r[i].draft = d
Hydrates(r) == \E i \in DOMAIN r : r[i].kind = "hydrate"

\* What a view that shows c is told then.
LEMMA ToldConcat ==
    ASSUME NEW q \in Seq(HostMessages), NEW r \in Seq(HostMessages), NEW a, NEW d, NEW c, Tells(r, a, d)
    PROVE  /\ ~Hydrates(r) => Told(q \o r, c) = Told(q, c) /\ (Stays(q \o r, c) <=> Stays(q, c))
           /\ Hydrates(r) /\ a = c /\ Stays(q, c) => Told(q \o r, c) = Told(q, c) \cup {d} /\ Stays(q \o r, c)
           /\ Hydrates(r) /\ (a # c \/ ~Stays(q, c)) => Told(q \o r, c) = Told(q, c) /\ ~Stays(q \o r, c)
<1> DEFINE t == q \o r
           n == Len(q)
<1>1. /\ n \in Nat /\ Len(r) \in Nat
      /\ DOMAIN q = 1..n /\ DOMAIN r = 1..Len(r) /\ DOMAIN t = 1..(n + Len(r))
      /\ \A i \in 1..n : t[i] = q[i]
      /\ \A i \in 1..Len(r) : t[n + i] = r[i]
      /\ \A i \in DOMAIN t : i \in DOMAIN q \/ (i - n \in DOMAIN r /\ t[i] = r[i - n])
  BY ConcatFacts
<1> HIDE DEF t, n
<1>2. \A i \in DOMAIN q : i \in DOMAIN t /\ t[i] = q[i] BY <1>1
<1>3. \A i \in DOMAIN r : n + i \in DOMAIN t /\ t[n + i] = r[i] BY <1>1
<1>4. Stays(t, c) => Stays(q, c) /\ (\A i \in DOMAIN r : r[i].kind = "hydrate" => r[i].conv = c)
  BY <1>2, <1>3 DEF Stays
<1>5. Stays(q, c) /\ (\A i \in DOMAIN r : r[i].kind = "hydrate" => r[i].conv = c) => Stays(t, c)
  BY <1>1 DEF Stays
<1>6. \A i \in DOMAIN q : StaysUntil(t, i, c) <=> StaysUntil(q, i, c) BY <1>2, <1>1 DEF StaysUntil
<1>7. Told(q, c) \subseteq Told(t, c) BY <1>2, <1>6 DEF Told
<1>8. ASSUME NEW x \in Told(t, c)
      PROVE  \/ x \in Told(q, c)
             \/ Stays(q, c) /\ (\E i \in DOMAIN r : r[i].kind = "hydrate" /\ r[i].conv = c /\ x = r[i].draft)
  <2>1. PICK k \in DOMAIN t : t[k].kind = "hydrate" /\ StaysUntil(t, k, c) /\ x = t[k].draft
    BY <1>8 DEF Told
  <2>2. CASE k \in DOMAIN q BY <2>1, <2>2, <1>2, <1>6 DEF Told
  <2>3. CASE k \notin DOMAIN q BY <2>1, <1>1, <2>3, <1>2 DEF Stays, StaysUntil
  <2> QED BY <2>2, <2>3
<1>9. ASSUME NEW i \in DOMAIN r, r[i].kind = "hydrate", a = c, Stays(q, c) PROVE d \in Told(t, c)
  BY <1>9, <1>3, <1>5 DEF Told, Tells, Stays, StaysUntil
<1>10. ASSUME ~Hydrates(r) PROVE Told(t, c) = Told(q, c) /\ (Stays(t, c) <=> Stays(q, c))
  BY <1>4, <1>5, <1>7, <1>8, <1>10 DEF Hydrates
<1>11. ASSUME Hydrates(r), a = c, Stays(q, c) PROVE Told(t, c) = Told(q, c) \cup {d} /\ Stays(t, c)
  BY <1>7, <1>8, <1>5, <1>11, <1>9 DEF Tells, Hydrates
<1>12. ASSUME Hydrates(r), a # c \/ ~Stays(q, c) PROVE Told(t, c) = Told(q, c) /\ ~Stays(t, c)
  <2>1. ~Stays(t, c) BY <1>4, <1>12 DEF Hydrates, Tells
  <2>2. Told(t, c) \subseteq Told(q, c) BY <1>8, <1>12 DEF Tells
  <2> QED BY <1>7, <2>1, <2>2
<1> QED BY <1>10, <1>11, <1>12 DEF t

\* The new hydrations are of the latest draft.
LEMMA SortedConcat ==
    ASSUME NEW q \in Seq(HostMessages), NEW r \in Seq(HostMessages), NEW a, NEW d \in Draft,
           Tells(r, a, d), Sorted(q),
           \A i \in DOMAIN q : IsHydration(q[i], a) =>
               q[i].draft.rev <= d.rev /\ (q[i].draft.rev = d.rev => q[i].draft = d)
    PROVE  Sorted(q \o r)
<1> DEFINE t == q \o r
           n == Len(q)
<1>1. /\ n \in Nat /\ Len(r) \in Nat
      /\ DOMAIN q = 1..n /\ DOMAIN r = 1..Len(r) /\ DOMAIN t = 1..(n + Len(r))
      /\ \A i \in 1..n : t[i] = q[i]
      /\ \A i \in 1..Len(r) : t[n + i] = r[i]
      /\ \A i \in DOMAIN t : i \in DOMAIN q \/ (i - n \in DOMAIN r /\ t[i] = r[i - n])
  BY ConcatFacts
<1> HIDE DEF t, n
<1>2. ASSUME NEW i \in DOMAIN t, NEW j \in DOMAIN t, i < j, t[i].kind = "hydrate", t[j].kind = "hydrate",
             t[i].conv = t[j].conv
      PROVE  t[i].draft.rev <= t[j].draft.rev /\ (t[i].draft.rev = t[j].draft.rev => t[i].draft = t[j].draft)
  <2>1. CASE j \in DOMAIN q
    <3>1. i \in DOMAIN q /\ t[i] = q[i] /\ t[j] = q[j] BY <1>1, <1>2, <2>1
    <3> QED BY <1>2, <2>1, <3>1 DEF Sorted
  <2>2. CASE j \notin DOMAIN q
    <3>1. t[j].conv = a /\ t[j].draft = d BY <1>2, <1>1, <2>2 DEF Tells
    <3>2. CASE i \in DOMAIN q BY <1>2, <3>1, <3>2, <1>1 DEF IsHydration
    <3>3. CASE i \notin DOMAIN q BY <3>1, <1>2, <1>1, <3>3 DEF Draft, Tells
    <3> QED BY <3>2, <3>3
  <2> QED BY <2>1, <2>2
<1> QED BY <1>2 DEF Sorted, t

\* A message of a kind stays in the queue when others come, and when another is taken.
LEMMA HasConcat ==
    ASSUME NEW S, NEW q \in Seq(S), NEW r \in Seq(S), NEW good
    PROVE  Has(q \o r, good) <=> Has(q, good) \/ Has(r, good)
<1>1. /\ Len(q) \in Nat
      /\ DOMAIN q = 1..Len(q) /\ DOMAIN r = 1..Len(r) /\ DOMAIN (q \o r) = 1..(Len(q) + Len(r))
      /\ \A i \in 1..Len(q) : (q \o r)[i] = q[i]
      /\ \A i \in 1..Len(r) : (q \o r)[Len(q) + i] = r[i]
      /\ \A i \in DOMAIN (q \o r) :
            i \in DOMAIN q \/ (i - Len(q) \in DOMAIN r /\ (q \o r)[i] = r[i - Len(q)])
      /\ Len(r) \in Nat
  BY ConcatFacts
<1>2. ASSUME Has(r, good) PROVE Has(q \o r, good)
  <2>1. PICK i \in DOMAIN r : r[i] \in good BY <1>2 DEF Has
  <2> QED BY <2>1, <1>1 DEF Has
<1> QED BY <1>1, <1>2 DEF Has

LEMMA HasTail ==
    ASSUME NEW S, NEW q \in Seq(S), q # <<>>, NEW good
    PROVE  Has(q, good) <=> Head(q) \in good \/ Has(Tail(q), good)
<1> DEFINE t == Tail(q)
<1>1. /\ Head(q) = q[1] /\ Len(q) \in Nat /\ Len(q) >= 1 /\ DOMAIN q = 1..Len(q)
      /\ DOMAIN t = 1..(Len(q) - 1)
      /\ \A i \in 1..(Len(q) - 1) : t[i] = q[i + 1]
      /\ \A i \in DOMAIN q : i = 1 \/ (i - 1 \in DOMAIN t /\ q[i] = t[i - 1])
  BY TailFacts
<1> HIDE DEF t
<1>2. Has(q, good) => q[1] \in good \/ Has(t, good) BY <1>1 DEF Has
<1>3. ASSUME Has(t, good) PROVE Has(q, good)
  <2>1. PICK i \in DOMAIN t : t[i] \in good BY <1>3 DEF Has
  <2> QED BY <2>1, <1>1 DEF Has
<1> QED BY <1>1, <1>2, <1>3 DEF t, Has

\* What is mended stays so if nothing bad is added, whatever else counts as good ...
LEMMA MendedConcat ==
    ASSUME NEW S, NEW q \in Seq(S), NEW r \in Seq(S), NEW bad, NEW good, NEW badNow, NEW goodNow,
           Mended(q, bad, good),
           \A i \in DOMAIN q : q[i] \in badNow => q[i] \in bad,
           \A i \in DOMAIN q : q[i] \in good => q[i] \in goodNow,
           \A i \in DOMAIN r : r[i] \notin badNow
    PROVE  Mended(q \o r, badNow, goodNow)
<1>1. /\ Len(q) \in Nat /\ Len(r) \in Nat
      /\ DOMAIN q = 1..Len(q) /\ DOMAIN r = 1..Len(r) /\ DOMAIN (q \o r) = 1..(Len(q) + Len(r))
      /\ \A i \in 1..Len(q) : (q \o r)[i] = q[i]
      /\ \A i \in DOMAIN (q \o r) :
            i \in DOMAIN q \/ (i - Len(q) \in DOMAIN r /\ (q \o r)[i] = r[i - Len(q)])
  BY ConcatFacts
<1>2. ASSUME NEW i \in DOMAIN (q \o r), (q \o r)[i] \in badNow
      PROVE  \E j \in DOMAIN (q \o r) : j > i /\ (q \o r)[j] \in goodNow
  <2>1. PICK j \in DOMAIN q : j > i /\ q[j] \in good BY <1>1, <1>2 DEF Mended
  <2> QED BY <1>1, <2>1
<1> QED BY <1>2 DEF Mended

\* ... or if the last message that is added is good, and not bad.
LEMMA MendedByLast ==
    ASSUME NEW S, NEW q \in Seq(S), NEW r \in Seq(S), NEW bad, NEW good,
           r # <<>>, r[Len(r)] \in good, r[Len(r)] \notin bad
    PROVE  Mended(q \o r, bad, good)
<1>1. /\ Len(q) \in Nat /\ Len(r) \in Nat /\ Len(r) >= 1
      /\ DOMAIN q = 1..Len(q) /\ DOMAIN r = 1..Len(r) /\ DOMAIN (q \o r) = 1..(Len(q) + Len(r))
      /\ \A i \in 1..Len(r) : (q \o r)[Len(q) + i] = r[i]
  BY ConcatFacts
<1>2. (q \o r)[Len(q) + Len(r)] = r[Len(r)] BY <1>1
<1>3. ASSUME NEW i \in DOMAIN (q \o r), (q \o r)[i] \in bad
      PROVE  Len(q) + Len(r) > i
  BY <1>1, <1>2, <1>3
<1> QED BY <1>2, <1>3, <1>1 DEF Mended

LEMMA MendedTail ==
    ASSUME NEW S, NEW q \in Seq(S), q # <<>>, NEW bad, NEW good, Mended(q, bad, good)
    PROVE  /\ Mended(Tail(q), bad, good)
           /\ Head(q) \in bad => Has(Tail(q), good)
<1> DEFINE t == Tail(q)
<1>1. /\ Head(q) = q[1] /\ Len(q) \in Nat /\ Len(q) >= 1 /\ DOMAIN q = 1..Len(q)
      /\ DOMAIN t = 1..(Len(q) - 1)
      /\ \A i \in 1..(Len(q) - 1) : t[i] = q[i + 1]
      /\ \A i \in DOMAIN q : i = 1 \/ (i - 1 \in DOMAIN t /\ q[i] = t[i - 1])
  BY TailFacts
<1> HIDE DEF t
<1>2. ASSUME NEW i \in DOMAIN t, t[i] \in bad PROVE \E j \in DOMAIN t : j > i /\ t[j] \in good
  <2>1. PICK j \in DOMAIN q : j > i + 1 /\ q[j] \in good BY <1>2, <1>1 DEF Mended
  <2> QED BY <2>1, <1>1
<1>3. ASSUME q[1] \in bad PROVE Has(t, good)
  <2>1. PICK j \in DOMAIN q : j > 1 /\ q[j] \in good BY <1>3, <1>1 DEF Mended
  <2> QED BY <2>1, <1>1 DEF Has
<1> QED BY <1>1, <1>2, <1>3 DEF Mended, t

\* What is mended and ends with the bad having come to nothing: some of it was good.
LEMMA MendedWeaker ==
    ASSUME NEW q, NEW bad, NEW good, NEW badNow, NEW goodNow, Mended(q, bad, good),
           \A i \in DOMAIN q : q[i] \in badNow => q[i] \in bad,
           \A i \in DOMAIN q : q[i] \in good => q[i] \in goodNow
    PROVE  Mended(q, badNow, goodNow)
BY DEF Mended

--------------------
(* Types *)

Views == [target : Conv \cup {None}, visible : BOOLEAN, draft : Draft, pending : Id \cup {None},
          uncertain : Text \cup {None}, label : Labels]

LEMMA AppendFacts ==
    ASSUME NEW S, NEW q \in Seq(S), NEW m \in S
    PROVE  Append(q, m) \in Seq(S) /\ Append(q, m) = q \o <<m>> /\ <<m>> \in Seq(S)
OBVIOUS

LEMMA HydrationType ==
    ASSUME TypeOK, NEW c \in Conv, NEW draft \in Draft, NEW durable
    PROVE  /\ Hydration(c, draft, durable) \in HostMessages
           /\ Hydration(c, draft, durable) \in Hydrations
           /\ \A value \in BOOLEAN :
                [Hydration(c, draft, durable) EXCEPT !.visible = value] \in HostMessages
BY DEF TypeOK, Hydration, HostMessages, Hydrations, Labels

LEMMA StatusType ==
    ASSUME NEW c \in Conv, NEW rev \in Nat, NEW label \in Labels
    PROVE  Status(c, rev, label) \in HostMessages
BY DEF Status, HostMessages

LEMMA ResultType ==
    ASSUME NEW c \in Conv, NEW id \in Id, NEW status \in Outcomes
    PROVE  Result(c, id, status) \in HostMessages
BY DEF Result, HostMessages

\* The parts of the types, as the steps below use them.
LEMMA TypeParts ==
    /\ TypesSound =>
         /\ TypeOK
         /\ drafts \in [Conv -> Draft] /\ stored \in [Conv -> Draft \cup {None}]
         /\ saving \subseteq Conv /\ active \in Conv /\ visible \in BOOLEAN
         /\ sends \in [Conv -> Seq(Sendings)] /\ imports \in [Conv -> {None} \cup Copies]
         /\ uncertainties \in [Conv -> Nat] /\ recent \in [Conv -> Text]
         /\ native \in [Conv -> Text] /\ view \in Views
         /\ typed \in Seq(Conv) /\ Len(typed) <= MaxPieces
         /\ fate \in [Fates -> Text] /\ left \subseteq Conv /\ events \in 0..MaxEvents
         /\ up \in Seq(ViewMessages) /\ down \in Seq(HostMessages)
    /\ /\ drafts \in [Conv -> Draft] /\ stored \in [Conv -> Draft \cup {None}]
       /\ saving \subseteq Conv /\ active \in Conv /\ visible \in BOOLEAN
       /\ sends \in [Conv -> Seq(Sendings)] /\ imports \in [Conv -> {None} \cup Copies]
       /\ uncertainties \in [Conv -> Nat] /\ recent \in [Conv -> Text]
       /\ native \in [Conv -> Text] /\ view \in Views
       /\ typed \in Seq(Conv) /\ Len(typed) <= MaxPieces
       /\ fate \in [Fates -> Text] /\ left \subseteq Conv /\ events \in 0..MaxEvents
       /\ up \in Seq(ViewMessages) /\ down \in Seq(HostMessages)
       => TypesSound
<1>1. sends \in [Conv -> Seq(Sendings)] =>
        \A c \in Conv : \A i \in DOMAIN sends[c] : sends[c][i] \in Sendings
  OBVIOUS
<1> QED BY <1>1 DEF TypesSound, TypeOK, Sendings, Copies, Views, Labels

LEMMA TypePartsNext ==
    /\ drafts' \in [Conv -> Draft] /\ stored' \in [Conv -> Draft \cup {None}]
    /\ saving' \subseteq Conv /\ active' \in Conv /\ visible' \in BOOLEAN
    /\ sends' \in [Conv -> Seq(Sendings)] /\ imports' \in [Conv -> {None} \cup Copies]
    /\ uncertainties' \in [Conv -> Nat] /\ recent' \in [Conv -> Text]
    /\ native' \in [Conv -> Text] /\ view' \in Views
    /\ typed' \in Seq(Conv) /\ Len(typed') <= MaxPieces
    /\ fate' \in [Fates -> Text] /\ left' \subseteq Conv /\ events' \in 0..MaxEvents
    /\ up' \in Seq(ViewMessages) /\ down' \in Seq(HostMessages)
    => TypesSound'
<1>1. sends' \in [Conv -> Seq(Sendings)] =>
        \A c \in Conv : \A i \in DOMAIN sends'[c] : sends'[c][i] \in Sendings
  OBVIOUS
<1> QED BY <1>1 DEF TypesSound, TypeOK, Sendings, Copies, Views, Labels

\* What has become of the pieces is not forgotten.
LEMMA GoneGrows ==
    ASSUME NEW old \in [Fates -> Text], NEW f \in Fates, NEW text, NEW new,
           new = [old EXCEPT ![f] = @ \cup text]
    PROVE  /\ UNION {old[g] : g \in Fates} \subseteq UNION {new[g] : g \in Fates}
           /\ text \subseteq UNION {new[g] : g \in Fates}
           /\ \A g \in Fates : old[g] \subseteq new[g]
           /\ text \subseteq new[f]
<1> QED OBVIOUS

LEMMA ViewMessageParts ==
    ASSUME NEW m \in ViewMessages
    PROVE  /\ m.kind \in {"ready", "activate", "visible", "edit", "recall", "send"}
           /\ m.kind = "activate" => m.conv \in Conv
           /\ m.kind = "visible" => m.value \in BOOLEAN
           /\ m.kind = "edit" => m.conv \in Conv /\ m.draft \in Draft
           /\ m.kind = "recall" => m.conv \in Conv /\ m.append \in BOOLEAN /\ m.rev \in Nat
           /\ m.kind = "send" => m.conv \in Conv /\ m.id \in Id /\ m.draft \in Draft
BY DEF ViewMessages

LEMMA HostMessageParts ==
    ASSUME NEW m \in HostMessages
    PROVE  /\ m.kind \in {"hydrate", "status", "result"} /\ m.conv \in Conv
           /\ m.kind = "hydrate" => m.draft \in Draft /\ m.visible \in BOOLEAN /\ m.label \in Labels
           /\ m.kind = "status" => m.rev \in Nat /\ m.label \in Labels
           /\ m.kind = "result" => m.id \in Id /\ m.status \in Outcomes
BY DEF HostMessages

LEMMA FirstFacts ==
    ASSUME NEW S, NEW q \in Seq(S), q # <<>>, NEW s \in S
    PROVE  /\ [q EXCEPT ![1] = s] \in Seq(S) /\ 1 \in DOMAIN q /\ q[1] \in S
           /\ DOMAIN [q EXCEPT ![1] = s] = DOMAIN q
           /\ [q EXCEPT ![1] = s][1] = s
           /\ \A i \in DOMAIN q : i # 1 => [q EXCEPT ![1] = s][i] = q[i]
OBVIOUS

LEMMA ImportsType ==
    ASSUME TypesSound, NEW c \in Conv, NEW shown, NEW before \in [Conv -> {None} \cup Copies]
    PROVE  /\ Imports(c, shown, before) \in [Conv -> {None} \cup Copies]
           /\ OutOfDate \in [Conv -> {None} \cup Copies]
<1>1. drafts[c] \in Draft /\ imports \in [Conv -> {None} \cup Copies] BY TypeParts
<1>2. \A b \in Conv : imports[b] # None => [imports[b] EXCEPT !.stale = TRUE] \in Copies
  BY <1>1 DEF Copies
<1> QED BY <1>1, <1>2 DEF Imports, Copies, OutOfDate

LEMMA SelectsType ==
    ASSUME TypesSound, NEW c \in Conv, Selects(c)
    PROVE  /\ active' \in Conv /\ down' \in Seq(HostMessages)
           /\ imports' \in [Conv -> {None} \cup Copies]
           /\ UNCHANGED <<drafts, stored, saving, visible, sends, uncertainties, recent>>
<1>1. imports' \in [Conv -> {None} \cup Copies]
  <2>1. OutOfDate \in [Conv -> {None} \cup Copies]
    <3>1. imports \in [Conv -> {None} \cup Copies] BY TypeParts
    <3> QED BY <3>1, ImportsType
  <2> QED BY <2>1, ImportsType DEF Selects
<1> QED BY TypeParts, HydrationType, <1>1 DEF Selects

LEMMA UpdatesType ==
    ASSUME TypesSound, NEW c \in Conv, NEW draft \in Draft, NEW told \in Seq(HostMessages),
           Updates(c, draft, told)
    PROVE  /\ drafts' \in [Conv -> Draft] /\ saving' \subseteq Conv /\ down' \in Seq(HostMessages)
<1>1. Status(c, draft.rev, "saving") \in HostMessages BY StatusType DEF Draft, Labels
<1> QED BY TypeParts, <1>1 DEF Updates

LEMMA HandlesType ==
    ASSUME TypesSound, Handles
    PROVE  TypesSound'
<1> DEFINE m == Head(up)
<1>1. m \in ViewMessages /\ up' \in Seq(ViewMessages) BY TypeParts, TailFacts DEF Handles
<1>2. /\ drafts \in [Conv -> Draft] /\ stored \in [Conv -> Draft \cup {None}]
      /\ saving \subseteq Conv /\ active \in Conv /\ visible \in BOOLEAN
      /\ sends \in [Conv -> Seq(Sendings)] /\ imports \in [Conv -> {None} \cup Copies]
      /\ uncertainties \in [Conv -> Nat] /\ recent \in [Conv -> Text]
      /\ fate \in [Fates -> Text] /\ left \subseteq Conv
      /\ down \in Seq(HostMessages) /\ TypeOK
  BY TypeParts
<1>3. SUFFICES
      /\ drafts' \in [Conv -> Draft] /\ stored' \in [Conv -> Draft \cup {None}]
      /\ saving' \subseteq Conv /\ active' \in Conv /\ visible' \in BOOLEAN
      /\ sends' \in [Conv -> Seq(Sendings)] /\ imports' \in [Conv -> {None} \cup Copies]
      /\ uncertainties' \in [Conv -> Nat] /\ recent' \in [Conv -> Text]
      /\ fate' \in [Fates -> Text] /\ left' \subseteq Conv
      /\ down' \in Seq(HostMessages)
  BY <1>1, TypeParts, TypePartsNext DEF Handles
<1> HIDE DEF m
<1>4. CASE m.kind = "ready" /\ Ready /\ UNCHANGED <<fate, left>>
  BY <1>2, <1>4, SelectsType DEF Ready
<1>5. CASE /\ m.kind = "activate" /\ UNCHANGED <<fate, left>>
           /\ IF m.conv = active THEN UNCHANGED <<host, down>> ELSE Selects(m.conv)
  <2>1. CASE UNCHANGED <<host, down>> BY <1>2, <1>5, <2>1 DEF host
  <2>2. CASE Selects(m.conv) BY <1>2, <1>5, <1>1, ViewMessageParts, <2>2, SelectsType
  <2> QED BY <1>5, <2>1, <2>2
<1>6. CASE m.kind = "visible" /\ Shows(m.value) /\ UNCHANGED <<fate, left>>
  <2>1. m.value \in BOOLEAN BY <1>1, <1>6, ViewMessageParts
  <2>2. [Hydration(active, drafts[active], stored[active]) EXCEPT !.visible = m.value] \in HostMessages
    BY <1>2, <2>1, HydrationType
  <2>3. imports' \in [Conv -> {None} \cup Copies]
    <3>1. (IF m.value THEN imports ELSE OutOfDate) \in [Conv -> {None} \cup Copies]
      BY <1>2, ImportsType
    <3> QED BY <1>2, <1>6, <3>1, ImportsType DEF Shows
  <2> QED BY <1>2, <1>6, <2>1, <2>2, <2>3 DEF Shows
<1>7. CASE m.kind = "edit" /\ Edited(m.conv, m.draft)
  <2>1. m.conv \in Conv /\ m.draft \in Draft BY <1>1, <1>7, ViewMessageParts
  <2>2. drafts' \in [Conv -> Draft] /\ saving' \subseteq Conv /\ down' \in Seq(HostMessages)
    <3>1. CASE Updates(m.conv, m.draft, <<>>)
      <4>1. <<>> \in Seq(HostMessages) OBVIOUS
      <4> QED BY <2>1, <3>1, <4>1, UpdatesType
    <3>2. CASE UNCHANGED <<drafts, saving, down>> BY <1>2, <3>2
    <3> QED BY <1>7, <3>1, <3>2 DEF Edited
  <2> QED BY <1>2, <1>7, <2>2, <2>1 DEF Edited
<1>8. CASE m.kind = "recall" /\ Recalled(m.conv, m)
  <2>1. m.conv \in Conv /\ m.rev \in Nat BY <1>1, <1>8, ViewMessageParts
  <2> DEFINE text == IF m.append THEN drafts[m.conv].text \cup recent[m.conv] ELSE recent[m.conv]
             draft == [rev |-> m.rev + 1, text |-> text]
  <2>2. draft \in Draft BY <2>1, <1>2 DEF Draft, Text
  <2>3. /\ drafts' \in [Conv -> Draft] /\ saving' \subseteq Conv /\ down' \in Seq(HostMessages)
        /\ fate' \in [Fates -> Text]
    <3>1. CASE /\ Updates(m.conv, draft, <<Hydration(m.conv, draft, stored[m.conv])>>)
               /\ Becomes("erased", drafts[m.conv].text \ text)
      <4>1. <<Hydration(m.conv, draft, stored[m.conv])>> \in Seq(HostMessages)
        BY <1>2, <2>1, <2>2, HydrationType
      <4>2. drafts' \in [Conv -> Draft] /\ saving' \subseteq Conv /\ down' \in Seq(HostMessages)
        BY <2>1, <2>2, <3>1, <4>1, UpdatesType
      <4>3. drafts[m.conv].text \in Text BY <1>2, <2>1 DEF Draft
      <4> QED BY <1>2, <3>1, <4>2, <4>3 DEF Becomes, Text
    <3>2. CASE UNCHANGED <<drafts, saving, down, fate>> BY <1>2, <3>2
    <3> QED BY <1>8, <3>1, <3>2 DEF Recalled
  <2> QED BY <1>2, <1>8, <2>3 DEF Recalled
<1>9. CASE m.kind = "send" /\ Submitted(m.conv, m)
  <2>1. m.conv \in Conv /\ m.id \in Id /\ m.draft \in Draft BY <1>1, <1>9, ViewMessageParts
  <2>2. sends' \in [Conv -> Seq(Sendings)]
    <3>1. [id |-> m.id, draft |-> m.draft, uncertainty |-> uncertainties[m.conv], step |-> "queued"]
          \in Sendings
      BY <1>2, <2>1 DEF Sendings
    <3> QED BY <1>2, <1>9, <2>1, <3>1 DEF Submitted
  <2> QED BY <1>2, <1>9, <2>2 DEF Submitted
<1> QED BY <1>4, <1>5, <1>6, <1>7, <1>8, <1>9 DEF Handles, m

LEMMA HostAloneType ==
    ASSUME TypesSound,
           \/ Switches \/ TypesNative
           \/ \E c \in Conv : \/ Saves(c) \/ SendStarts(c) \/ SendClears(c)
                              \/ \E outcome \in Outcomes : SendEnds(c, outcome)
    PROVE  TypesSound'
<1>1. /\ drafts \in [Conv -> Draft] /\ stored \in [Conv -> Draft \cup {None}]
      /\ saving \subseteq Conv /\ active \in Conv /\ visible \in BOOLEAN
      /\ sends \in [Conv -> Seq(Sendings)] /\ imports \in [Conv -> {None} \cup Copies]
      /\ uncertainties \in [Conv -> Nat] /\ recent \in [Conv -> Text]
      /\ native \in [Conv -> Text] /\ view \in Views
      /\ typed \in Seq(Conv) /\ Len(typed) <= MaxPieces
      /\ fate \in [Fates -> Text] /\ left \subseteq Conv /\ events \in 0..MaxEvents
      /\ up \in Seq(ViewMessages) /\ down \in Seq(HostMessages)
      /\ TypeOK
  BY TypeParts
<1>2. Happens => events' \in 0..MaxEvents BY <1>1, BoundsAssumption DEF Happens
<1>3. CASE Switches
  <2>1. PICK c \in Conv : Selects(c) BY <1>3 DEF Switches
  <2> QED BY <1>1, <2>1, SelectsType, <1>2, <1>3, TypePartsNext DEF Switches, ghost
<1>4. CASE TypesNative
  <2>1. PICK c \in Conv : native' = [native EXCEPT ![c] = @ \cup {Len(typed) + 1}] /\ typed' = Append(typed, c)
    BY <1>4 DEF TypesNative
  <2>2. Len(typed) \in Nat /\ Len(typed) + 1 <= MaxPieces /\ Len(typed') = Len(typed) + 1
    BY <1>1, <1>4, <2>1, BoundsAssumption DEF TypesNative
  <2>3. native' \in [Conv -> Text] BY <1>1, <2>1, <2>2, BoundsAssumption DEF Text, Piece
  <2> QED BY <1>1, <2>2, <2>1, <2>3, <1>4, TypePartsNext DEF TypesNative, host
<1>5. ASSUME NEW c \in Conv, Saves(c) PROVE TypesSound'
  <2>1. drafts[c] \in Draft /\ drafts[c].rev \in Nat BY <1>1 DEF Draft
  <2>2. down' \in Seq(HostMessages)
    <3>1. down \in Seq(HostMessages) BY <1>1
    <3> QED BY <2>1, StatusType, <1>5, <3>1, AppendFacts DEF Saves, Labels
  <2>3. stored' \in [Conv -> Draft \cup {None}] /\ saving' \subseteq Conv /\ events' \in 0..MaxEvents
    BY <1>1, <1>2, <1>5, <2>1 DEF Saves
  <2> QED BY <1>1, <2>2, <2>3, <1>5, TypePartsNext DEF Saves, ghost
<1>6. ASSUME NEW c \in Conv, SendStarts(c) PROVE TypesSound'
  <2>1. sends[c] \in Seq(Sendings) /\ sends[c] # <<>> /\ sends[c][1] \in Sendings
    BY <1>1, <1>6, FirstFacts DEF SendStarts
  <2>2. CASE sends' = [sends EXCEPT ![c][1].step = "delivering"] /\ UNCHANGED down
    <3>1. [sends[c] EXCEPT ![1] = [sends[c][1] EXCEPT !.step = "delivering"]] \in Seq(Sendings)
      BY <2>1, FirstFacts DEF Sendings
    <3> QED BY <1>1, <1>6, <2>2, <3>1, TypePartsNext DEF SendStarts, ghost
  <2>3. CASE /\ sends' = [sends EXCEPT ![c] = Tail(@)]
             /\ down' = Append(down, Result(c, sends[c][1].id, "rejected"))
    <3>1. down' \in Seq(HostMessages) BY <1>1, <2>3, <2>1, ResultType DEF Sendings, Outcomes
    <3> QED BY <1>1, <2>3, <2>1, TailFacts, <3>1, <1>6, TypePartsNext DEF SendStarts, ghost
  <2> QED BY <1>6, <2>2, <2>3 DEF SendStarts
<1>7. ASSUME NEW c \in Conv, NEW outcome \in Outcomes, SendEnds(c, outcome) PROVE TypesSound'
  <2>1. sends[c] \in Seq(Sendings) /\ sends[c] # <<>> /\ sends[c][1] \in Sendings
    BY <1>1, <1>7, FirstFacts DEF SendEnds
  <2>2. /\ sends[c][1].draft \in Draft /\ sends[c][1].draft.text \in Text
        /\ sends[c][1].uncertainty \in Nat /\ sends[c][1].id \in Id
    BY <2>1 DEF Sendings, Draft
  <2>3. uncertainties' \in [Conv -> Nat]
    <3>1. PICK n \in Nat : n = sends[c][1].uncertainty + 1 BY <2>2
    <3> QED BY <1>1, <1>7, <3>1 DEF SendEnds
  <2>4. UNCHANGED <<drafts, stored, saving, active, visible, recent, imports, native, view, up, typed,
                    left, events>>
    BY <1>7 DEF SendEnds
  <2>5. CASE outcome = "accepted"
    <3>1. [sends[c] EXCEPT ![1] = [sends[c][1] EXCEPT !.step = "clearing"]] \in Seq(Sendings)
      BY <2>1, FirstFacts DEF Sendings
    <3>2. sends' = [sends EXCEPT ![c] = [sends[c] EXCEPT ![1] = [sends[c][1] EXCEPT !.step = "clearing"]]]
      BY <1>1, <1>7, <2>5 DEF SendEnds
    <3>3. fate' \in [Fates -> Text] /\ down' = down
      <4>1. fate' = [fate EXCEPT !["sent"] = @ \cup sends[c][1].draft.text] /\ down' = down
        BY <1>7, <2>5 DEF SendEnds, Becomes
      <4> QED BY <1>1, <2>2, <4>1 DEF Text, Fates
    <3> QED BY <1>1, <2>3, <2>4, <3>1, <3>2, <3>3, TypePartsNext
  <2>6. CASE outcome # "accepted"
    <3>1. /\ sends' = [sends EXCEPT ![c] = Tail(@)]
          /\ down' = Append(down, Result(c, sends[c][1].id, outcome))
          /\ UNCHANGED fate
      BY <1>7, <2>6 DEF SendEnds
    <3>2. down' \in Seq(HostMessages) BY <1>1, <3>1, <2>2, ResultType
    <3> QED BY <1>1, <2>3, <2>4, <3>1, <2>1, TailFacts, <3>2, TypePartsNext
  <2> QED BY <2>5, <2>6
<1>8. ASSUME NEW c \in Conv, SendClears(c) PROVE TypesSound'
  <2>1. sends[c] \in Seq(Sendings) /\ sends[c] # <<>> /\ sends[c][1] \in Sendings
    <3>1. sends[c] # <<>> /\ sends[c] \in Seq(Sendings) BY <1>1, <1>8 DEF SendClears
    <3> QED BY <3>1, FirstFacts
  <2>2. /\ sends[c][1].draft \in Draft /\ sends[c][1].draft.text \in Text /\ sends[c][1].draft.rev \in Nat
        /\ sends[c][1].id \in Id
    BY <2>1 DEF Sendings, Draft
  <2> DEFINE s == sends[c][1]
             result == Result(c, s.id, "accepted")
             cleared == drafts[c] = s.draft
             draft == IF cleared THEN [rev |-> s.draft.rev + 1, text |-> {}] ELSE drafts[c]
             durable == IF cleared \/ stored[c] = None \/ stored[c].rev # draft.rev
                        THEN draft ELSE stored[c]
             shown == IF c = active THEN <<Hydration(c, draft, durable)>> ELSE <<>>
             change == IF cleared THEN <<Status(c, draft.rev, "saved")>> ELSE <<>>
  <2>3. draft \in Draft /\ draft.rev \in Nat
    <3>1. drafts[c] \in Draft BY <1>1
    <3> QED BY <2>2, <3>1 DEF Draft, Text
  <2>4. durable \in Draft \cup {None} BY <1>1, <2>3
  <2>5. result \in HostMessages BY <2>2, ResultType DEF Outcomes
  <2>6. shown \in Seq(HostMessages) /\ change \in Seq(HostMessages)
    <3> HIDE DEF draft, durable, cleared
    <3> QED BY <1>1, HydrationType, <2>3, StatusType DEF Labels
  <2>7. Status(c, s.draft.rev, "unsaved") \in HostMessages BY <2>2, StatusType DEF Labels
  <2>8. sends' \in [Conv -> Seq(Sendings)]
    <3>1. Tail(sends[c]) \in Seq(Sendings) BY <2>1, TailFacts
    <3> QED BY <1>1, <1>8, <3>1 DEF SendClears
  <2>9. UNCHANGED <<saving, active, visible, uncertainties, imports, native, view, up, typed, fate, left>>
    BY <1>8 DEF SendClears, ghost
  <2>10. \/ /\ drafts' = [drafts EXCEPT ![c] = draft]
            /\ stored' = [stored EXCEPT ![c] = durable]
            /\ recent' = [recent EXCEPT ![c] = s.draft.text]
            /\ down' = down \o change \o shown \o <<result>>
            /\ UNCHANGED events
         \/ /\ Happens
            /\ down' = down \o <<Status(c, s.draft.rev, "unsaved"), result>>
            /\ UNCHANGED <<drafts, stored, recent>>
    BY <1>8 DEF SendClears
  <2> HIDE DEF draft, durable, result, shown, change, cleared
  <2>11. CASE /\ drafts' = [drafts EXCEPT ![c] = draft]
              /\ stored' = [stored EXCEPT ![c] = durable]
              /\ recent' = [recent EXCEPT ![c] = s.draft.text]
              /\ down' = down \o change \o shown \o <<result>>
              /\ UNCHANGED events
    <3>1. drafts' \in [Conv -> Draft] /\ stored' \in [Conv -> Draft \cup {None}] /\ recent' \in [Conv -> Text]
      BY <1>1, <2>2, <2>3, <2>4, <2>11
    <3> QED BY <1>1, <2>8, <2>9, <2>11, <2>5, <2>6, <3>1, TypePartsNext
  <2>12. CASE /\ Happens
              /\ down' = down \o <<Status(c, s.draft.rev, "unsaved"), result>>
              /\ UNCHANGED <<drafts, stored, recent>>
    <3>1. down' \in Seq(HostMessages) BY <1>1, <2>5, <2>7, <2>12
    <3> QED BY <1>1, <1>2, <2>8, <2>9, <2>12, <3>1, TypePartsNext
  <2> QED BY <2>10, <2>11, <2>12
<1> QED BY <1>3, <1>4, <1>5, <1>6, <1>7, <1>8

LEMMA ImportsStepType ==
    ASSUME TypesSound, NEW c \in Conv, ImportReads(c) \/ ImportSaves(c) \/ ImportClears(c)
    PROVE  TypesSound'
<1>1. /\ drafts \in [Conv -> Draft] /\ stored \in [Conv -> Draft \cup {None}]
      /\ saving \subseteq Conv /\ active \in Conv /\ visible \in BOOLEAN
      /\ sends \in [Conv -> Seq(Sendings)] /\ imports \in [Conv -> {None} \cup Copies]
      /\ uncertainties \in [Conv -> Nat] /\ recent \in [Conv -> Text]
      /\ native \in [Conv -> Text] /\ view \in Views
      /\ typed \in Seq(Conv) /\ Len(typed) <= MaxPieces
      /\ fate \in [Fates -> Text] /\ left \subseteq Conv /\ events \in 0..MaxEvents
      /\ up \in Seq(ViewMessages) /\ down \in Seq(HostMessages)
      /\ TypeOK
  BY TypeParts
<1>2. Happens => events' \in 0..MaxEvents BY <1>1, BoundsAssumption DEF Happens
<1>3. imports[c] \in Copies BY <1>1 DEF ImportReads, ImportSaves, ImportClears, Importing
<1>4. imports[c].draft \in Draft /\ imports[c].draft.rev \in Nat /\ imports[c].draft.text \in Text
  BY <1>3 DEF Copies, Draft
<1>5. ImportOver(c) => imports' \in [Conv -> {None} \cup Copies] BY <1>1 DEF ImportOver
<1>6. CASE ImportReads(c)
  <2> DEFINE draft == [rev |-> drafts[c].rev + 1, text |-> native[c]]
  <2>1. draft \in Draft /\ draft.rev \in Nat BY <1>1 DEF Draft
  <2>2. UNCHANGED <<stored, saving, active, visible, sends, uncertainties, recent, native, view, up,
                    typed, fate, left, events>>
    BY <1>6 DEF ImportReads, ghost
  <2>3. CASE ImportOver(c) /\ UNCHANGED <<drafts, down>> BY <1>1, <1>5, <2>2, <2>3, TypePartsNext
  <2>4. CASE /\ imports' = [imports EXCEPT ![c].step = "saving", ![c].draft = draft]
             /\ drafts' = [drafts EXCEPT ![c] = draft]
             /\ down' = down \o <<Status(c, draft.rev, "saving"), Hydration(c, draft, stored[c])>>
    <3> HIDE DEF draft
    <3>1. down' \in Seq(HostMessages) BY <1>1, <2>4, <2>1, StatusType, HydrationType DEF Labels
    <3>2. imports' \in [Conv -> {None} \cup Copies]
      <4>1. [[imports[c] EXCEPT !.step = "saving"] EXCEPT !.draft = draft] \in Copies
        BY <1>3, <2>1 DEF Copies
      <4> QED BY <1>1, <2>4, <4>1
    <3>3. drafts' \in [Conv -> Draft] BY <1>1, <2>1, <2>4
    <3> QED BY <1>1, <2>2, <3>1, <3>2, <3>3, TypePartsNext
  <2> QED BY <1>6, <2>3, <2>4 DEF ImportReads
<1>7. CASE ImportSaves(c)
  <2>1. UNCHANGED <<drafts, saving, active, visible, sends, uncertainties, recent, native, view, up,
                    typed, fate, left>>
    BY <1>7 DEF ImportSaves, ghost
  <2>2. Status(c, imports[c].draft.rev, "saved") \in HostMessages /\ Status(c, imports[c].draft.rev, "unsaved") \in HostMessages
    BY <1>4, StatusType DEF Labels
  <2>3. [imports EXCEPT ![c].step = "clearing"] \in [Conv -> {None} \cup Copies]
    <3>1. [imports[c] EXCEPT !.step = "clearing"] \in Copies BY <1>3 DEF Copies
    <3> QED BY <1>1, <3>1
  <2>4. CASE /\ stored' = [stored EXCEPT ![c] = imports[c].draft]
             /\ down' = Append(down, Status(c, imports[c].draft.rev, "saved"))
             /\ imports' = [imports EXCEPT ![c].step = "clearing"] \/ ImportOver(c)
             /\ UNCHANGED events
    <3>1. down' \in Seq(HostMessages) BY <1>1, <2>2, <2>4, AppendFacts
    <3>2. stored' \in [Conv -> Draft \cup {None}] BY <1>1, <1>4, <2>4
    <3> QED BY <1>1, <1>5, <2>1, <2>3, <2>4, <3>1, <3>2, TypePartsNext
  <2>5. CASE /\ Happens /\ ImportOver(c) /\ UNCHANGED stored
             /\ down' = Append(down, Status(c, imports[c].draft.rev, "unsaved"))
    BY <1>1, <1>2, <1>5, <2>1, <2>5, <2>2, AppendFacts, TypePartsNext
  <2> QED BY <1>7, <2>4, <2>5 DEF ImportSaves
<1>8. CASE ImportClears(c)
  <2> DEFINE text == imports[c].draft.text
             seen == IF view.target = c THEN view.draft.text \cap drafts[c].text ELSE {}
  <2>1. /\ native' \in [Conv -> Text] /\ fate' \in [Fates -> Text] /\ events' \in 0..MaxEvents
    <3>1. CASE native' = [native EXCEPT ![c] = {}] /\ UNCHANGED events /\ Becomes("crossed", text \ seen)
      BY <1>1, <1>4, <3>1 DEF Becomes, Text
    <3>2. CASE Happens /\ UNCHANGED <<native, fate>> BY <1>1, <1>2, <3>2
    <3>3. CASE UNCHANGED <<native, fate, events>> BY <1>1, <3>3
    <3> QED BY <1>8, <3>1, <3>2, <3>3 DEF ImportClears
  <2> QED BY <1>1, <1>8, <2>1, <1>5, TypePartsNext DEF ImportClears
<1> QED BY <1>6, <1>7, <1>8

\* The revision and the pieces that a change of the editor leaves.
LEMMA ViewParts ==
    ASSUME TypesSound
    PROVE  /\ view \in Views /\ view.draft \in Draft /\ view.draft.rev \in Nat /\ view.draft.text \in Text
           /\ view.target \in Conv \cup {None} /\ view.visible \in BOOLEAN
           /\ view.pending \in Id \cup {None} /\ view.label \in Labels
<1> QED BY TypeParts DEF Views, Draft

LEMMA ChangesType ==
    ASSUME TypesSound, NEW text \in Text, Changes(text)
    PROVE  view' \in Views /\ up' \in Seq(ViewMessages)
<1> DEFINE draft == [rev |-> view.draft.rev + 1, text |-> text]
<1>1. view \in Views /\ draft \in Draft /\ view.target \in Conv BY ViewParts DEF Draft, Changes
<1>2. view' = [view EXCEPT !.draft = draft, !.label = "saving",
                           !.uncertain = IF text = @ THEN @ ELSE None]
  BY DEF Changes
<1>3. view' \in Views BY <1>1, <1>2 DEF Views, Labels
<1> QED BY <1>3, <1>1, TypeParts, AppendFacts DEF Changes, Acts, Posts, EditOf, ViewMessages

LEMMA UserType ==
    ASSUME TypesSound,
           \/ Types \/ Erases \/ Activates \/ Toggles
           \/ \E explicit \in BOOLEAN : Sends(explicit)
           \/ \E append \in BOOLEAN : Recalls(append)
    PROVE  TypesSound'
<1>1. /\ drafts \in [Conv -> Draft] /\ stored \in [Conv -> Draft \cup {None}]
      /\ saving \subseteq Conv /\ active \in Conv /\ visible \in BOOLEAN
      /\ sends \in [Conv -> Seq(Sendings)] /\ imports \in [Conv -> {None} \cup Copies]
      /\ uncertainties \in [Conv -> Nat] /\ recent \in [Conv -> Text]
      /\ native \in [Conv -> Text] /\ view \in Views
      /\ typed \in Seq(Conv) /\ Len(typed) <= MaxPieces
      /\ fate \in [Fates -> Text] /\ left \subseteq Conv /\ events \in 0..MaxEvents
      /\ up \in Seq(ViewMessages) /\ down \in Seq(HostMessages)
      /\ TypeOK
  BY TypeParts
<1>2. Happens => events' \in 0..MaxEvents /\ events' \in Id
  BY <1>1, BoundsAssumption DEF Happens, Id
<1>3. UNCHANGED <<drafts, stored, saving, active, visible, sends, uncertainties, recent, imports,
                  native, down, left>>
  BY DEF Types, Erases, Activates, Toggles, Sends, Recalls, host, ghost
<1>4. CASE Types
  <2>1. Len(typed) \in Nat /\ Len(typed) + 1 <= MaxPieces /\ Len(typed) + 1 \in Piece
    BY <1>1, <1>4, BoundsAssumption DEF Types, Piece
  <2>2. Changes(view.draft.text \cup {Len(typed) + 1}) /\ typed' = Append(typed, view.target)
        /\ UNCHANGED <<fate, events>>
    BY <1>4 DEF Types
  <2>3. view.target \in Conv BY <2>2, ViewParts DEF Changes
  <2> QED BY <1>1, <1>3, <2>2, <2>1, <2>3, ViewParts, ChangesType, TypePartsNext DEF Text
<1>5. CASE Erases
  <2>1. PICK erased \in SUBSET view.draft.text :
          Changes(view.draft.text \ erased) /\ Becomes("erased", erased)
    BY <1>5 DEF Erases
  <2>2. erased \in Text /\ view.draft.text \ erased \in Text BY ViewParts DEF Text
  <2>3. fate' \in [Fates -> Text] BY <1>1, <2>1, <2>2 DEF Becomes, Text
  <2> QED BY <1>1, <1>3, <2>1, <2>2, ChangesType, <2>3, <1>2, <1>5, TypePartsNext DEF Erases
<1>6. CASE Activates
  <2>1. PICK c \in Conv : Acts([kind |-> "activate", conv |-> c]) BY <1>6 DEF Activates
  <2> QED
    BY <1>1, <1>3, <2>1, AppendFacts, <1>2, <1>6, TypePartsNext DEF Activates, ghost, Acts, Posts,
       ViewMessages
<1>7. CASE Toggles
  <2>1. view' = [view EXCEPT !.visible = ~@] /\ up' = Append(up, [kind |-> "visible", value |-> view'.visible])
    BY <1>7 DEF Toggles, Acts, Posts
  <2>2. view' \in Views /\ view'.visible \in BOOLEAN BY <1>1, <2>1 DEF Views
  <2> QED
    BY <1>1, <1>3, <2>2, <2>1, AppendFacts, <1>2, <1>7, TypePartsNext DEF Toggles, ghost,
       ViewMessages
<1>8. ASSUME NEW explicit \in BOOLEAN, Sends(explicit) PROVE TypesSound'
  <2>1. /\ view' = [view EXCEPT !.pending = events', !.uncertain = None]
        /\ up' = Append(up, [kind |-> "send", conv |-> view.target, id |-> events', draft |-> view.draft])
        /\ view.target # None
    BY <1>8 DEF Sends, Acts, Posts
  <2>2. events' \in 0..MaxEvents /\ events' \in Id /\ UNCHANGED <<typed, fate>>
    BY <1>2, <1>8 DEF Sends, ghost
  <2>3. view' \in Views BY <1>1, <2>1, <2>2 DEF Views
  <2>4. up' \in Seq(ViewMessages) BY <1>1, <2>1, <2>2, ViewParts, AppendFacts DEF ViewMessages
  <2> QED BY <1>1, <1>3, <2>2, <2>3, <2>4, TypePartsNext
<1>9. ASSUME NEW append \in BOOLEAN, Recalls(append) PROVE TypesSound'
  BY <1>1, <1>3, <1>2, <1>9, ViewParts, AppendFacts, TypePartsNext DEF Recalls, ghost,
     ViewMessages, Acts, Posts
<1> QED BY <1>4, <1>5, <1>6, <1>7, <1>8, <1>9

LEMMA ReceivesType ==
    ASSUME TypesSound, Receives
    PROVE  TypesSound'
<1> DEFINE m == Head(down)
<1>1. /\ drafts \in [Conv -> Draft] /\ stored \in [Conv -> Draft \cup {None}]
      /\ saving \subseteq Conv /\ active \in Conv /\ visible \in BOOLEAN
      /\ sends \in [Conv -> Seq(Sendings)] /\ imports \in [Conv -> {None} \cup Copies]
      /\ uncertainties \in [Conv -> Nat] /\ recent \in [Conv -> Text]
      /\ native \in [Conv -> Text] /\ view \in Views
      /\ typed \in Seq(Conv) /\ Len(typed) <= MaxPieces
      /\ fate \in [Fates -> Text] /\ left \subseteq Conv /\ events \in 0..MaxEvents
      /\ up \in Seq(ViewMessages) /\ down \in Seq(HostMessages)
  BY TypeParts
<1>2. m \in HostMessages /\ down' \in Seq(HostMessages) BY <1>1, TailFacts DEF Receives
<1>3. SUFFICES view' \in Views /\ up' \in Seq(ViewMessages) /\ left' \subseteq Conv
  BY <1>1, <1>2, TypePartsNext DEF Receives, host
<1> HIDE DEF m
<1>4. CASE m.kind = "hydrate" /\ m.conv # view.target /\ Turns(m)
  <2>1. m.conv \in Conv /\ m.draft \in Draft /\ m.visible \in BOOLEAN /\ m.label \in Labels
    BY <1>2, <1>4, HostMessageParts
  <2>2. view' \in Views
    <3>1. view' = [Sets(m.draft) EXCEPT !.target = m.conv, !.visible = m.visible, !.label = m.label,
                                        !.pending = None, !.uncertain = None]
      BY <1>4 DEF Turns
    <3> QED BY <1>1, <2>1, <3>1 DEF Views, Sets
  <2> QED BY <1>1, <1>4, <2>2, <2>1 DEF Turns
<1>5. CASE m.kind = "hydrate" /\ m.conv = view.target /\ Refreshes(m)
  <2>1. m.conv \in Conv /\ m.draft \in Draft /\ m.visible \in BOOLEAN /\ m.label \in Labels
    BY <1>2, <1>5, HostMessageParts
  <2> DEFINE rebased == [view.draft EXCEPT !.rev = @ + 1]
  <2>2. rebased \in Draft BY ViewParts DEF Draft
  <2> HIDE DEF rebased
  <2>3. CASE view' = [Sets(m.draft) EXCEPT !.label = m.label, !.visible = m.visible] /\ UNCHANGED <<up, left>>
    BY <1>1, <2>1, <2>3 DEF Views, Sets
  <2>4. CASE /\ view' = [Sets(rebased) EXCEPT !.label = "saving", !.visible = m.visible]
             /\ Posts(EditOf(m.conv, rebased)) /\ UNCHANGED left
    <3>1. view' \in Views BY <1>1, <2>1, <2>2, <2>4 DEF Views, Sets, Labels
    <3> QED BY <1>1, <2>4, <3>1, <2>1, <2>2, AppendFacts DEF Posts, EditOf, ViewMessages
  <2>5. CASE view' = [view EXCEPT !.visible = m.visible] /\ UNCHANGED <<up, left>>
    BY <1>1, <2>1, <2>5 DEF Views
  <2> QED BY <1>5, <2>3, <2>4, <2>5 DEF Refreshes, rebased
<1>6. CASE /\ m.kind = "status" /\ UNCHANGED <<up, left>>
           /\ view' = IF m.conv = view.target /\ m.rev = view.draft.rev
                      THEN [view EXCEPT !.label = m.label] ELSE view
  <2>1. m.label \in Labels BY <1>2, <1>6, HostMessageParts
  <2> QED BY <1>1, <1>6, <2>1 DEF Views
<1>7. CASE /\ m.kind = "result" /\ UNCHANGED <<up, left>>
           /\ view' = IF m.conv = view.target /\ view.pending \in {None, m.id}
                      THEN [view EXCEPT !.pending = None,
                              !.uncertain = IF m.status = "unconfirmed"
                                            THEN view.draft.text ELSE @]
                      ELSE view
  BY <1>1, <1>7, ViewParts DEF Views
<1> QED BY <1>4, <1>5, <1>6, <1>7 DEF Receives, m

LEMMA ReloadsType ==
    ASSUME TypesSound, Reloads
    PROVE  TypesSound'
<1>1. /\ drafts \in [Conv -> Draft] /\ stored \in [Conv -> Draft \cup {None}]
      /\ saving \subseteq Conv /\ active \in Conv /\ visible \in BOOLEAN
      /\ sends \in [Conv -> Seq(Sendings)] /\ imports \in [Conv -> {None} \cup Copies]
      /\ uncertainties \in [Conv -> Nat] /\ recent \in [Conv -> Text]
      /\ native \in [Conv -> Text] /\ view \in Views
      /\ typed \in Seq(Conv) /\ Len(typed) <= MaxPieces
      /\ fate \in [Fates -> Text] /\ left \subseteq Conv /\ events \in 0..MaxEvents
      /\ up \in Seq(ViewMessages) /\ down \in Seq(HostMessages)
  BY TypeParts
<1>2. view' \in Views /\ down' \in Seq(HostMessages)
  BY DEF Reloads, Fresh, Views, Empty, Draft, Text, Labels
<1>3. up' \in Seq(ViewMessages)
  <2>1. PICK kept \in {up, <<>>} : up' = Append(kept, [kind |-> "ready"]) BY DEF Reloads
  <2>2. kept \in Seq(ViewMessages)
    <3>1. <<>> \in Seq(ViewMessages) /\ (kept = up \/ kept = <<>>) BY <2>1
    <3> QED BY <1>1, <3>1
  <2> QED BY <2>1, <2>2, AppendFacts DEF ViewMessages
<1>4. imports' \in [Conv -> {None} \cup Copies] BY <1>1, ImportsType DEF Reloads
<1>5. fate' \in [Fates -> Text]
  <2> DEFINE own == IF view.target = None THEN {} ELSE view.draft.text \ drafts[view.target].text
             way == {j \in DOMAIN up : up[j].kind = "edit"}
             others == UNION {up[i].draft.text \ drafts[up[i].conv].text : i \in way}
  <2>1. own \subseteq Piece BY ViewParts DEF Text
  <2>2. others \subseteq Piece BY <1>1, ViewMessageParts DEF Text, Draft
  <2>3. fate' = [fate EXCEPT !["unseen"] = @ \cup (own \cup others)] BY DEF Reloads, Becomes
  <2> HIDE DEF own, others
  <2> QED BY <1>1, <2>3, <2>1, <2>2 DEF Fates, Text
<1> QED BY <1>1, BoundsAssumption, <1>2, <1>3, <1>4, <1>5, TypePartsNext DEF Reloads, Happens

LEMMA TypesInit == Init => TypesSound
<1> SUFFICES ASSUME Init PROVE TypesSound OBVIOUS
<1>1. Empty \in Draft BY DEF Empty, Draft, Text
<1>2. Fresh \in Views BY <1>1 DEF Fresh, Views, Labels
<1>3. up \in Seq(ViewMessages) /\ down \in Seq(HostMessages) BY DEF Init, ViewMessages
<1>4. sends \in [Conv -> Seq(Sendings)] BY DEF Init
<1> QED BY <1>3, <1>4, BoundsAssumption, <1>1, <1>2, TypeParts DEF Init, Text

LEMMA TypesStep == TypesSound /\ [Next]_vars => TypesSound'
<1> SUFFICES ASSUME TypesSound, [Next]_vars PROVE TypesSound' OBVIOUS
<1>1. CASE UNCHANGED vars BY <1>1 DEF vars, host, ghost, TypesSound, TypeOK
<1>2. CASE Next
  BY <1>2, HandlesType, HostAloneType, ImportsStepType, UserType, ReceivesType, ReloadsType DEF Next
<1> QED BY <1>1, <1>2

\* Every variable, and every message on its way, has the type that it is meant to have.
THEOREM TypeCorrect == Spec => []TypeOK
<1>1. TypesSound => TypeOK BY DEF TypesSound
<1> QED BY <1>1, TypesInit, TypesStep, PTL DEF Spec

--------------------
(* Steps of the host: what it tells *)

\* The draft of c stays, or gets the next revision and keeps what is not gone.
Advances(c) ==
    \/ drafts'[c] = drafts[c]
    \/ drafts'[c].rev = drafts[c].rev + 1 /\ drafts[c].text \ drafts'[c].text \subseteq Gone'

Later(c) == drafts'[c] = drafts[c] \/ drafts'[c].rev > drafts[c].rev

\* A draft that was of the past stays so.
PastNext(c, draft) == draft.rev <= drafts'[c].rev /\ (draft.rev = drafts'[c].rev => draft = drafts'[c])

LEMMA PastStays ==
    ASSUME TypesSound, TypesSound', NEW c \in Conv, NEW draft \in Draft, Past(c, draft), Later(c)
    PROVE  PastNext(c, draft)
<1>1. drafts'[c].rev \in Nat BY DEF TypesSound, TypeOK, Draft
<1> QED BY TypeParts, <1>1 DEF Past, PastNext, Later, Draft

\* A view that shows the session c to the end shows the one that is active.
LEMMA StaysActive ==
    ASSUME TypesSound, ActiveComes, view.target # None, Stays(down, view.target)
    PROVE  view.target = active
<1>1. SUFFICES ASSUME view.target # active PROVE FALSE OBVIOUS
<1>2. PICK j \in DOMAIN down : down[j] \in OfActive BY <1>1 DEF ActiveComes, Has
<1> QED BY <1>1, <1>2 DEF Stays, OfActive, Hydrations

\* A step in which the host adds messages r about the session c to the queue, those of them
\* that are hydrations of the draft c then has, and the edits on their way stay there.
Telling(c, r) ==
    /\ r \in Seq(HostMessages) /\ down' = down \o r
    /\ Tells(r, c, drafts'[c])
    /\ \A j \in DOMAIN r : r[j].kind = "status" => r[j].conv = c /\ r[j].rev <= drafts'[c].rev
    /\ UNCHANGED <<view, typed, left>>
    /\ \A b \in Conv : Edits(up', b) = Edits(up, b) /\ (Increasing(up, b) => Increasing(up', b))
    /\ \A b \in Conv \ {c} : drafts'[b] = drafts[b]
    /\ Advances(c)
    /\ drafts'[c] # drafts[c] /\ c = active => Hydrates(r)
    /\ Gone \subseteq Gone'
    /\ \A b \in Conv : Own(b)' \subseteq Own(b)

LEMMA TellingQueues ==
    ASSUME TypesSound, TypesSound', QueuesSound, NEW c \in Conv, NEW r, Telling(c, r)
    PROVE  QueuesSound'
<1>1. /\ drafts \in [Conv -> Draft] /\ down \in Seq(HostMessages) /\ drafts'[c] \in Draft
      /\ drafts[c].rev \in Nat /\ drafts'[c].rev \in Nat
  <2>1. drafts' \in [Conv -> Draft] BY DEF TypesSound, TypeOK
  <2> QED BY TypeParts, <2>1 DEF Draft
<1>2. r \in Seq(HostMessages) /\ down' = down \o r BY DEF Telling
<1>3. \A i \in DOMAIN down : down[i] \in HostMessages BY <1>1
<1>4. \A i \in DOMAIN down : down[i].kind = "hydrate" => PastNext(down[i].conv, down[i].draft)
  <2>1. ASSUME NEW i \in DOMAIN down, down[i].kind = "hydrate" PROVE PastNext(down[i].conv, down[i].draft)
    <3>1. down[i].conv \in Conv /\ down[i].draft \in Draft BY <1>3, <2>1, HostMessageParts
    <3>2. Past(down[i].conv, down[i].draft) BY <2>1 DEF QueuesSound
    <3>3. CASE down[i].conv = c BY <3>1, <3>2, <3>3, <1>1, PastStays DEF Telling, Advances, Later
    <3>4. CASE down[i].conv # c BY <3>2, <3>1, <3>4 DEF Past, PastNext, Telling
    <3> QED BY <3>3, <3>4
  <2> QED BY <2>1
<1>5. \A i \in DOMAIN down : IsHydration(down[i], c) =>
        down[i].draft.rev <= drafts'[c].rev /\ (down[i].draft.rev = drafts'[c].rev => down[i].draft = drafts'[c])
  BY <1>4 DEF PastNext, IsHydration
<1>6. Sorted(down') BY <1>1, <1>2, <1>5, SortedConcat DEF QueuesSound, Telling
<1>7. \A j \in DOMAIN down' : j \in DOMAIN down \/ (j - Len(down) \in DOMAIN r /\ down'[j] = r[j - Len(down)])
  BY <1>1, <1>2, ConcatFacts
<1>8. \A j \in DOMAIN down : j \in DOMAIN down' /\ down'[j] = down[j] BY <1>1, <1>2, ConcatFacts
<1>9. ASSUME NEW j \in DOMAIN down', down'[j].kind = "hydrate" PROVE PastNext(down'[j].conv, down'[j].draft)
  <2>1. CASE j \in DOMAIN down BY <1>4, <1>9, <2>1, <1>8
  <2>2. CASE j - Len(down) \in DOMAIN r /\ down'[j] = r[j - Len(down)]
    BY <1>1, <1>9, <2>2 DEF PastNext, Telling, Tells
  <2> QED BY <1>7, <2>1, <2>2
<1>10. ASSUME NEW j \in DOMAIN down', down'[j].kind = "status" PROVE down'[j].rev <= drafts'[down'[j].conv].rev
  <2>1. CASE j \in DOMAIN down
    <3>1. down'[j] = down[j] /\ down[j].rev <= drafts[down[j].conv].rev
      BY <1>8, <1>10, <2>1 DEF QueuesSound
    <3>2. down[j].conv \in Conv /\ down[j].rev \in Nat BY <1>3, <1>10, <2>1, <3>1, HostMessageParts
    <3>3. CASE down[j].conv = c BY <1>1, <3>1, <3>2, <3>3 DEF Telling, Advances
    <3>4. CASE down[j].conv # c BY <3>1, <3>2, <3>4 DEF Telling
    <3> QED BY <3>3, <3>4
  <2>2. CASE j - Len(down) \in DOMAIN r /\ down'[j] = r[j - Len(down)] BY <1>10, <2>2 DEF Telling
  <2> QED BY <1>7, <2>1, <2>2
<1> QED BY <1>6, <1>9, <1>10 DEF QueuesSound, Past, PastNext, Telling

LEMMA TellingFollowed ==
    ASSUME TypesSound, TypesSound', Following, ActiveComes, NEW c \in Conv, NEW r, Telling(c, r)
    PROVE  Following'
<1>1. /\ drafts \in [Conv -> Draft] /\ down \in Seq(HostMessages) /\ drafts'[c] \in Draft
      /\ up \in Seq(ViewMessages)
  BY TypeParts DEF TypesSound, TypeOK
<1>2. r \in Seq(HostMessages) /\ down' = down \o r /\ view' = view /\ left' = left /\ Tells(r, c, drafts'[c])
  BY DEF Telling
<1>3. SUFFICES ASSUME view.target # None, view.target \notin left
               PROVE  Follows(view.draft, drafts'[view.target], Edits(up', view.target),
                              Told(down', view.target), Stays(down', view.target), Gone')
  BY <1>2 DEF Following
<1>4. PICK b \in Conv : b = view.target BY <1>3, ViewParts
<1>5. PICK x, d, edits, told, gone, goneNow :
        /\ x = view.draft /\ d = drafts[b] /\ edits = Edits(up, b) /\ told = Told(down, b)
        /\ gone = Gone /\ goneNow = Gone'
  OBVIOUS
<1>6. PICK stays \in BOOLEAN : stays <=> Stays(down, b) OBVIOUS
<1>7. /\ x \in Draft /\ d \in Draft /\ edits \in SUBSET Draft /\ told \in SUBSET Draft
      /\ gone \subseteq goneNow
  BY <1>1, <1>5, ViewMessageParts, HostMessageParts, ViewParts DEF Telling, Edits, IsEdit, Told
<1>8. Follows(x, d, edits, told, stays, gone)
  <2>1. Stays(down, b) \in BOOLEAN BY DEF Stays
  <2> QED BY <1>3, <1>4, <1>5, <1>6, <2>1 DEF Following
<1>9. PICK n, toldNow : n = drafts'[b] /\ toldNow = Told(down', b) OBVIOUS
<1>10. PICK staysNow \in BOOLEAN : (staysNow <=> Stays(down', b)) /\ staysNow = Stays(down', b)
  <2>1. Stays(down', b) \in BOOLEAN BY DEF Stays
  <2> QED BY <2>1
<1>11. /\ ~Hydrates(r) => toldNow = told /\ (staysNow <=> stays)
       /\ Hydrates(r) /\ c = b /\ stays => toldNow = told \cup {n} /\ staysNow
       /\ Hydrates(r) /\ (c # b \/ ~stays) => toldNow = told /\ ~staysNow
  BY <1>1, <1>2, <1>5, <1>6, <1>9, <1>10, ToldConcat
<1>12. Follows(x, n, edits, toldNow, staysNow, goneNow)
  <2>1. CASE n = d
    <3>1. CASE Hydrates(r) /\ c = b /\ stays
      <4>1. staysNow = TRUE /\ stays = TRUE BY <1>11, <3>1
      <4>2. toldNow = told \cup {d} BY <1>11, <2>1, <3>1
      <4>3. Follows(x, d, edits, told, TRUE, gone) BY <1>8, <4>1
      <4>4. Follows(x, d, edits, told \cup {d}, TRUE, goneNow) BY <1>7, <4>3, HostRepeats
      <4> QED BY <2>1, <4>1, <4>2, <4>4
    <3>2. CASE ~(Hydrates(r) /\ c = b /\ stays) BY <2>1, <1>11, <3>2, <1>7, <1>8, FollowsStill
    <3> QED BY <3>1, <3>2
  <2>2. CASE n # d
    <3>1. b = c BY <1>5, <1>9, <2>2 DEF Telling
    <3>2. Follows(x, n, edits, IF stays THEN told \cup {n} ELSE told, stays, goneNow)
      <4>1. x \in Draft /\ d \in Draft /\ edits \in SUBSET Draft /\ told \in SUBSET Draft /\ stays \in BOOLEAN
        BY <1>6, <1>7
      <4>2. gone \subseteq goneNow BY <1>7
      <4>3. n \in Draft /\ n.rev = d.rev + 1 /\ d.text \ n.text \subseteq goneNow
        BY <1>1, <1>5, <1>9, <2>2, <3>1 DEF Telling, Advances
      <4> QED BY ONLY <1>8, <4>1, <4>2, <4>3, HostAdvances
    <3>3. stays => Hydrates(r) BY <1>5, <1>9, <1>3, <1>4, <1>6, StaysActive, <2>2, <3>1 DEF Telling
    <3> QED BY <3>2, <1>11, <3>1, <3>3
  <2> QED BY <2>1, <2>2
<1> QED BY <1>4, <1>5, <1>9, <1>10, <1>12 DEF Telling

LEMMA TellingHolds ==
    ASSUME TypesSound, Holding, NEW c \in Conv, NEW r, Telling(c, r)
    PROVE  Holding'
<1>1. SUFFICES ASSUME NEW b \in Conv \ left
               PROVE  IF b = view.target THEN Own(b)' \subseteq view.draft.text
                      ELSE HeldByHost(b, Own(b), Edits(up, b))'
  BY DEF Holding, Telling
<1>2. Own(b)' \subseteq Own(b) /\ Edits(up, b)' = Edits(up, b) BY DEF Telling
<1>3. CASE b = view.target BY <1>1, <1>2, <1>3 DEF Holding
<1>4. CASE b # view.target
  <2>1. CASE Own(b) \subseteq drafts[b].text /\ \A e \in Edits(up, b) : Stale(b, e)
    <3>1. drafts[b].rev \in Nat BY TypeParts DEF Draft
    <3>2. \A e \in Edits(up, b) : e.rev \in Nat
      BY TypeParts, ViewMessageParts DEF Edits, IsEdit, Draft
    <3>3. CASE drafts'[b] = drafts[b] BY <1>2, <1>4, <2>1, <3>3 DEF HeldByHost, Stale
    <3>4. CASE drafts'[b] # drafts[b]
      BY <1>2, <1>4, <2>1, <3>4, <3>1, <3>2 DEF HeldByHost, Own, Stale, Telling, Advances
    <3> QED BY <3>3, <3>4
  <2>2. CASE \E e \in Edits(up, b) : Own(b) \subseteq e.text /\ \A f \in Edits(up, b) : f.rev <= e.rev
    BY <1>2, <1>4, <2>2 DEF HeldByHost
  <2> QED BY <1>4, <1>1, <2>1, <2>2 DEF HeldByHost, Holding
<1> QED BY <1>3, <1>4

LEMMA TellingKeeps ==
    ASSUME TypesSound, TypesSound', Keeping, ActiveComes, NEW c \in Conv, NEW r, Telling(c, r)
    PROVE  Keeping'
BY TellingQueues, TellingFollowed, TellingHolds DEF Keeping

--------------------
(* What is sent, imported and stored *)

\* The copies of a session that nothing happens to: more may have been sent, its import may
\* go out of date, and its draft may be about to be written.
LEMMA WorkStays ==
    ASSUME NEW c \in Conv, WorkOf(c), drafts'[c] = drafts[c], stored'[c] = stored[c],
           sends'[c] = sends[c], recent'[c] = recent[c], fate["sent"] \subseteq fate'["sent"],
           c \in saving => c \in saving',
           \/ imports'[c] = None
           \/ imports'[c] = imports[c] /\ active' = active
           \/ imports'[c] = [imports[c] EXCEPT !.stale = TRUE] /\ imports[c] \in Copies /\ imports[c] # None
           \/ /\ imports'[c].step = "reading" /\ imports'[c].draft.text = {}
              /\ ~imports'[c].stale => c = active'
    PROVE  WorkOf(c)'
<1>1. RecentSound(c)' /\ StoredSound(c)' BY DEF WorkOf, RecentSound, StoredSound, Past
<1>2. SendsSound(c)' BY DEF WorkOf, SendsSound, Past
<1>3. CASE imports'[c] = None BY <1>1, <1>2, <1>3 DEF WorkOf, ImportSound, CopySound, Importing
<1>4. CASE imports'[c] = imports[c] /\ active' = active
  BY <1>1, <1>2, <1>4 DEF WorkOf, ImportSound, CopySound, Importing, Past
<1>5. CASE imports'[c] = [imports[c] EXCEPT !.stale = TRUE] /\ imports[c] \in Copies /\ imports[c] # None
  BY <1>1, <1>2, <1>5 DEF WorkOf, ImportSound, CopySound, Importing, Past, Copies
<1>6. CASE /\ imports'[c].step = "reading" /\ imports'[c].draft.text = {}
           /\ ~imports'[c].stale => c = active'
  BY <1>1, <1>2, <1>6 DEF WorkOf, ImportSound, CopySound, Importing
<1> QED BY <1>3, <1>4, <1>5, <1>6

\* What goes out of date, and what is begun.
LEMMA ImportsOf ==
    ASSUME TypesSound, NEW c \in Conv, NEW b \in Conv, NEW shown,
           NEW before \in {imports, OutOfDate}
    PROVE  \/ Imports(c, shown, before)[b] = imports[b] /\ before = imports
           \/ Imports(c, shown, before)[b] = None
           \/ /\ Imports(c, shown, before)[b] = [imports[b] EXCEPT !.stale = TRUE]
              /\ imports[b] \in Copies /\ imports[b] # None
           \/ /\ b = c /\ Imports(c, shown, before)[b].step = "reading"
              /\ Imports(c, shown, before)[b].draft.text = {}
<1>1. imports \in [Conv -> {None} \cup Copies] /\ OutOfDate \in [Conv -> {None} \cup Copies]
  BY TypeParts, ImportsType
<1>2. (before[b] = imports[b] /\ before = imports) \/ before[b] = OutOfDate[b] OBVIOUS
<1>3. CASE Imports(c, shown, before)[b] = before[b] BY <1>1, <1>2, <1>3 DEF OutOfDate
<1>4. CASE Imports(c, shown, before)[b] # before[b] BY <1>1, <1>4 DEF Imports
<1> QED BY <1>3, <1>4

LEMMA SelectsWork ==
    ASSUME TypesSound, WorkSound, NEW c \in Conv, Selects(c), fate' = fate
    PROVE  WorkSound'
<1>1. SUFFICES ASSUME NEW b \in Conv PROVE WorkOf(b)' BY DEF WorkSound
<1>2. \/ imports'[b] = None
      \/ imports'[b] = imports[b] /\ active' = active
      \/ imports'[b] = [imports[b] EXCEPT !.stale = TRUE] /\ imports[b] \in Copies /\ imports[b] # None
      \/ /\ imports'[b].step = "reading" /\ imports'[b].draft.text = {}
         /\ ~imports'[b].stale => b = active'
  <2>1. OutOfDate = imports /\ imports[b] # None => imports[b] = [imports[b] EXCEPT !.stale = TRUE]
    BY DEF OutOfDate
  <2>2. imports[b] # None => imports[b] \in Copies BY TypeParts
  <2> QED BY ImportsOf, <2>1, <2>2 DEF Selects
<1> QED BY <1>2, WorkStays DEF Selects, WorkSound

LEMMA ShowsWork ==
    ASSUME TypesSound, WorkSound, NEW value, Shows(value), fate' = fate
    PROVE  WorkSound'
<1>1. SUFFICES ASSUME NEW b \in Conv PROVE WorkOf(b)' BY DEF WorkSound
<1> DEFINE before == IF value THEN imports ELSE OutOfDate
<1>2. imports' = Imports(active, value, before) /\ active' = active /\ before \in {imports, OutOfDate}
  BY DEF Shows
<1>3. active \in Conv BY TypeParts
<1> HIDE DEF before
<1>4. \/ imports'[b] = None
      \/ imports'[b] = imports[b] /\ active' = active
      \/ imports'[b] = [imports[b] EXCEPT !.stale = TRUE] /\ imports[b] \in Copies /\ imports[b] # None
      \/ /\ imports'[b].step = "reading" /\ imports'[b].draft.text = {}
         /\ ~imports'[b].stale => b = active'
  BY <1>2, <1>3, ImportsOf
<1> QED BY <1>4, WorkStays DEF Shows, WorkSound

\* The draft of c is changed, and is to be written.
LEMMA UpdatesWork ==
    ASSUME TypesSound, TypesSound', WorkSound, NEW c \in Conv, Later(c), c \in saving',
           \A b \in Conv \ {c} : drafts'[b] = drafts[b] /\ (b \in saving => b \in saving'),
           UNCHANGED <<stored, active, sends, recent, imports>>, fate["sent"] \subseteq fate'["sent"]
    PROVE  WorkSound'
<1>1. SUFFICES ASSUME NEW b \in Conv PROVE WorkOf(b)' BY DEF WorkSound
<1>2. WorkOf(b) BY DEF WorkSound
<1>3. CASE b # c BY <1>2, <1>3, WorkStays
<1>4. CASE b = c
  <2>1. StoredSound(c)' BY <1>2, <1>4, TypeParts, PastStays DEF StoredSound, Past, PastNext, WorkOf
  <2>2. SendsSound(c)'
    <3>1. \A i \in DOMAIN sends[c] : sends[c][i].draft \in Draft
      <4>1. \A i \in DOMAIN sends[c] : sends[c][i] \in Sendings BY TypeParts
      <4> QED BY <4>1 DEF Sendings
    <3> QED BY <1>2, <1>4, <3>1, PastStays DEF WorkOf, SendsSound, Past, PastNext
  <2>3. CopySound(c)'
    BY <1>2, <1>4, TypeParts, PastStays DEF WorkOf, CopySound, Importing, Past, PastNext, Copies
  <2> QED BY <1>4, <1>2, <2>1, <2>2, <2>3 DEF WorkOf, RecentSound, ImportSound
<1> QED BY <1>3, <1>4

LEMMA SubmittedWork ==
    ASSUME TypesSound, WorkSound, NEW c \in Conv, NEW m, Submitted(c, m)
    PROVE  WorkSound'
<1>1. SUFFICES ASSUME NEW b \in Conv PROVE WorkOf(b)' BY DEF WorkSound
<1>2. WorkOf(b) BY DEF WorkSound
<1>3. UNCHANGED <<drafts, stored, saving, active, recent, imports, fate>> BY DEF Submitted
<1>4. CASE sends'[b] = sends[b] BY <1>2, <1>3, <1>4, WorkStays
<1>5. CASE sends'[b] # sends[b]
  <2>1. sends \in [Conv -> Seq(Sendings)] BY TypeParts
  <2>2. PICK s : sends'[b] = Append(sends[b], s) /\ s.step = "queued" BY <1>5, <2>1 DEF Submitted
  <2>3. /\ DOMAIN sends'[b] = DOMAIN sends[b] \cup {Len(sends[b]) + 1}
        /\ sends'[b][Len(sends[b]) + 1] = s
        /\ \A i \in DOMAIN sends[b] : sends'[b][i] = sends[b][i]
    BY <2>1, <2>2
  <2> QED
    BY <2>2, <2>3, <1>2, <1>3 DEF WorkOf, RecentSound, StoredSound, ImportSound, Past, SendsSound,
       CopySound, Importing
<1> QED BY <1>4, <1>5

LEMMA SavesWork ==
    ASSUME TypesSound, WorkSound, NEW c \in Conv, Saves(c)
    PROVE  WorkSound'
<1>1. SUFFICES ASSUME NEW b \in Conv PROVE WorkOf(b)' BY DEF WorkSound
<1>2. WorkOf(b) BY DEF WorkSound
<1>3. /\ UNCHANGED <<drafts, active, sends, recent, imports, fate>> /\ saving' = saving \ {c}
      /\ ~Importing(c, "saving")
      /\ stored' = stored \/ stored' = [stored EXCEPT ![c] = drafts[c]]
  BY DEF Saves, ghost, Importing
<1>4. CASE b # c BY <1>2, <1>3, <1>4, TypeParts, WorkStays
<1>5. CASE b = c
  <2>1. StoredSound(c)' BY <1>2, <1>3, <1>5, TypeParts DEF WorkOf, StoredSound, Past, Draft
  <2> QED
    BY <1>5, <2>1, <1>2, <1>3 DEF WorkOf, RecentSound, SendsSound, ImportSound, Past, CopySound,
       Importing
<1> QED BY <1>4, <1>5

\* What is behind the first of the submissions of c stays.
LEMMA SendsTail ==
    ASSUME TypesSound, NEW c \in Conv, sends[c] # <<>>, sends' = [sends EXCEPT ![c] = Tail(@)]
    PROVE  \A i \in DOMAIN sends'[c] : i + 1 \in DOMAIN sends[c] /\ sends'[c][i] = sends[c][i + 1]
<1>1. sends \in [Conv -> Seq(Sendings)] BY TypeParts
<1>2. /\ DOMAIN Tail(sends[c]) = 1..(Len(sends[c]) - 1) /\ DOMAIN sends[c] = 1..Len(sends[c])
      /\ Len(sends[c]) \in Nat
      /\ \A i \in 1..(Len(sends[c]) - 1) : Tail(sends[c])[i] = sends[c][i + 1]
  BY <1>1, TailFacts
<1>3. sends'[c] = Tail(sends[c]) BY <1>1
<1>4. DOMAIN sends'[c] = 1..(Len(sends[c]) - 1) BY <1>2, <1>3
<1>5. ASSUME NEW i \in 1..(Len(sends[c]) - 1)
      PROVE  i + 1 \in DOMAIN sends[c] /\ sends'[c][i] = sends[c][i + 1]
  <2>1. i + 1 \in DOMAIN sends[c] BY <1>2
  <2>2. Tail(sends[c])[i] = sends[c][i + 1] BY <1>2
  <2> QED BY <1>3, <2>1, <2>2
<1> QED BY <1>4, <1>5

\* The first submission of c goes a step on, or away, and none is imported there meanwhile.
LEMMA SendStartsWork ==
    ASSUME TypesSound, WorkSound, NEW c \in Conv, SendStarts(c)
    PROVE  WorkSound'
<1>1. SUFFICES ASSUME NEW b \in Conv PROVE WorkOf(b)' BY DEF WorkSound
<1>2. WorkOf(b) BY DEF WorkSound
<1>3. UNCHANGED <<drafts, stored, saving, active, recent, imports, fate>> /\ imports[c] = None
  BY DEF SendStarts, ghost
<1>4. sends \in [Conv -> Seq(Sendings)] /\ sends[c] # <<>> BY TypeParts DEF SendStarts
<1>5. \/ /\ sends' = [sends EXCEPT ![c] = [@ EXCEPT ![1] = [sends[c][1] EXCEPT !.step = "delivering"]]]
         /\ drafts[c] = sends[c][1].draft
      \/ sends' = [sends EXCEPT ![c] = Tail(@)]
  BY <1>4 DEF SendStarts
<1>6. CASE b # c BY <1>2, <1>3, <1>4, <1>5, <1>6, WorkStays
<1>7. CASE b = c
  <2>1. SendsSound(c)'
    <3>1. SendsSound(c) BY <1>2, <1>7 DEF WorkOf
    <3>2. CASE /\ sends'[c] = [sends[c] EXCEPT ![1] = [sends[c][1] EXCEPT !.step = "delivering"]]
               /\ drafts[c] = sends[c][1].draft
      <4>1. sends[c][1] \in Sendings BY <1>4, FirstFacts
      <4>2. [sends[c][1] EXCEPT !.step = "delivering"] \in Sendings BY <4>1 DEF Sendings
      <4>3. /\ DOMAIN sends'[c] = DOMAIN sends[c]
            /\ sends'[c][1] = [sends[c][1] EXCEPT !.step = "delivering"]
            /\ \A i \in DOMAIN sends[c] : i # 1 => sends'[c][i] = sends[c][i]
        BY <1>4, <3>2, <4>2, FirstFacts
      <4>4. ASSUME NEW i \in DOMAIN sends'[c]
            PROVE  /\ sends'[c][i].step # "queued" => PastNext(c, sends'[c][i].draft)
                   /\ sends'[c][i].step = "clearing" => sends'[c][i].draft.text \subseteq fate'["sent"]
        <5>1. CASE i = 1 BY <1>3, <3>2, <4>1, <4>3, TypeParts, <5>1 DEF PastNext, Sendings, Draft
        <5>2. CASE i # 1 BY <1>3, <3>1, <4>3, <5>2 DEF SendsSound, Past, PastNext
        <5> QED BY <5>1, <5>2
      <4> QED BY <4>4 DEF SendsSound, Past, PastNext
    <3>3. CASE sends' = [sends EXCEPT ![c] = Tail(@)]
      BY <1>3, <3>1, <1>4, <3>3, SendsTail DEF SendsSound, Past
    <3>4. \/ /\ sends'[c] = [sends[c] EXCEPT ![1] = [sends[c][1] EXCEPT !.step = "delivering"]]
             /\ drafts[c] = sends[c][1].draft
          \/ sends' = [sends EXCEPT ![c] = Tail(@)]
      BY <1>4, <1>5
    <3> QED BY <3>2, <3>3, <3>4
  <2> QED
    BY <1>7, <1>2, <1>3, <2>1 DEF WorkOf, RecentSound, StoredSound, ImportSound, CopySound,
       Importing, Past
<1> QED BY <1>6, <1>7

LEMMA SendEndsWork ==
    ASSUME TypesSound, WorkSound, NEW c \in Conv, NEW outcome \in Outcomes, SendEnds(c, outcome)
    PROVE  WorkSound'
<1>1. SUFFICES ASSUME NEW b \in Conv PROVE WorkOf(b)' BY DEF WorkSound
<1>2. WorkOf(b) BY DEF WorkSound
<1>3. UNCHANGED <<drafts, stored, saving, active, recent, imports>> BY DEF SendEnds
<1>4. /\ sends \in [Conv -> Seq(Sendings)] /\ sends[c] # <<>> /\ sends[c][1].step = "delivering"
      /\ fate \in [Fates -> Text]
  BY TypeParts DEF SendEnds
<1>5. \/ /\ sends' = [sends EXCEPT ![c] = [@ EXCEPT ![1] = [sends[c][1] EXCEPT !.step = "clearing"]]]
         /\ fate' = [fate EXCEPT !["sent"] = @ \cup sends[c][1].draft.text]
      \/ sends' = [sends EXCEPT ![c] = Tail(@)] /\ fate' = fate
  BY <1>4 DEF SendEnds, Becomes
<1>6. fate["sent"] \subseteq fate'["sent"] BY <1>4, <1>5 DEF Fates
<1>7. CASE b # c BY <1>2, <1>3, <1>6, <1>4, <1>5, <1>7, WorkStays
<1>8. CASE b = c
  <2>1. RecentSound(c)' /\ StoredSound(c)' /\ ImportSound(c)'
    BY <1>2, <1>3, <1>6, <1>8 DEF WorkOf, RecentSound, StoredSound, ImportSound, Past
  <2>2. SendsSound(c) /\ CopySound(c) BY <1>2, <1>8 DEF WorkOf
  <2>3. CASE /\ sends' = [sends EXCEPT ![c] = [@ EXCEPT ![1] = [sends[c][1] EXCEPT !.step = "clearing"]]]
             /\ fate' = [fate EXCEPT !["sent"] = @ \cup sends[c][1].draft.text]
    <3>1. sends[c][1] \in Sendings /\ 1 \in DOMAIN sends[c] BY <1>4, FirstFacts
    <3>2. /\ DOMAIN sends'[c] = DOMAIN sends[c]
          /\ sends'[c][1] = [sends[c][1] EXCEPT !.step = "clearing"]
          /\ \A i \in DOMAIN sends[c] : i # 1 => sends'[c][i] = sends[c][i]
      BY <1>4, <3>1, <2>3, FirstFacts DEF Sendings
    <3>3. sends'[c][1].step = "clearing" /\ sends'[c][1].draft = sends[c][1].draft
      BY <3>1, <3>2 DEF Sendings
    <3>4. \A i \in DOMAIN sends'[c] :
            /\ sends'[c][i].draft = sends[c][i].draft
            /\ sends'[c][i].step # "queued" => sends[c][i].step # "queued"
      BY <1>4, <3>2, <3>3
    <3>5. SendsSound(c)'
      <4>1. ASSUME NEW i \in DOMAIN sends'[c]
            PROVE  /\ sends'[c][i].step # "queued" => PastNext(c, sends'[c][i].draft)
                   /\ sends'[c][i].step = "clearing" => sends'[c][i].draft.text \subseteq fate'["sent"]
        <5>1. sends'[c][i].step = "clearing" => sends'[c][i].draft.text \subseteq fate'["sent"]
          <6>1. CASE i = 1 BY <3>3, <1>4, <2>3, <6>1 DEF Fates
          <6>2. CASE i # 1 BY <1>6, <2>2, <3>2, <6>2 DEF SendsSound
          <6> QED BY <6>1, <6>2
        <5> QED BY <1>3, <2>2, <3>2, <3>4, <5>1 DEF SendsSound, Past, PastNext
      <4> QED BY <4>1 DEF SendsSound, Past, PastNext
    <3> QED BY <1>8, <2>1, <3>5, <1>3, <2>2, <3>2, <3>4 DEF WorkOf, CopySound, Importing, Past
  <2>4. CASE sends' = [sends EXCEPT ![c] = Tail(@)]
    <3>1. \A i \in DOMAIN sends'[c] : i + 1 \in DOMAIN sends[c] /\ sends'[c][i] = sends[c][i + 1]
      BY <1>4, <2>4, SendsTail
    <3> QED BY <1>8, <2>1, <1>3, <1>6, <2>2, <3>1 DEF WorkOf, SendsSound, Past, CopySound, Importing
  <2> QED BY <1>5, <2>3, <2>4
<1> QED BY <1>7, <1>8

\* The outcomes of SendClears, which tells r: the draft is cleared, it was changed meanwhile,
\* or the acceptance is not recorded.
ClearsDraft(c, r) ==
    /\ drafts[c] = sends[c][1].draft
    /\ \E draft \in Draft :
         /\ draft.rev = drafts[c].rev + 1 /\ draft.text = {}
         /\ drafts' = [drafts EXCEPT ![c] = draft]
         /\ stored' = [stored EXCEPT ![c] = draft]
         /\ recent' = [recent EXCEPT ![c] = sends[c][1].draft.text]
         /\ \A i \in DOMAIN r :
              r[i] \in {Status(c, draft.rev, "saved"), Hydration(c, draft, draft),
                        Result(c, sends[c][1].id, "accepted")}
         /\ \E i \in DOMAIN r : r[i] = Status(c, draft.rev, "saved")
         /\ Hydrates(r) <=> c = active

LeavesDraft(c, r) ==
    /\ drafts[c] # sends[c][1].draft /\ UNCHANGED drafts
    /\ \E durable \in Draft \cup {None} :
         /\ durable = drafts[c] \/ (durable = stored[c] /\ stored[c] # None)
         /\ stored' = [stored EXCEPT ![c] = durable]
         /\ recent' = [recent EXCEPT ![c] = sends[c][1].draft.text]
         /\ \A i \in DOMAIN r :
              r[i] \in {Hydration(c, drafts[c], durable), Result(c, sends[c][1].id, "accepted")}
         /\ Hydrates(r) => c = active

NotRecorded(c, r) ==
    /\ UNCHANGED <<drafts, stored, recent>>
    /\ \A i \in DOMAIN r :
         r[i] \in {Status(c, sends[c][1].draft.rev, "unsaved"), Result(c, sends[c][1].id, "accepted")}

LEMMA SendClearsParts ==
    ASSUME TypesSound, WorkSound, NEW c \in Conv, SendClears(c)
    PROVE  /\ sends[c] # <<>> /\ sends[c][1] \in Sendings /\ sends[c][1].step = "clearing"
           /\ sends' = [sends EXCEPT ![c] = Tail(@)]
           /\ UNCHANGED <<saving, active, visible, uncertainties, imports, native, view, up, ghost>>
           /\ \E r \in Seq(HostMessages) :
                /\ down' = down \o r
                /\ r # <<>> /\ r[Len(r)] = Result(c, sends[c][1].id, "accepted")
                /\ \A i \in DOMAIN r : r[i] \in {m \in HostMessages : m.conv = c}
                /\ ClearsDraft(c, r) \/ LeavesDraft(c, r) \/ NotRecorded(c, r)
<1>1. /\ sends \in [Conv -> Seq(Sendings)] /\ drafts \in [Conv -> Draft]
      /\ stored \in [Conv -> Draft \cup {None}] /\ TypeOK
  BY TypeParts
<1>2. sends[c] # <<>> /\ sends[c][1].step = "clearing" BY DEF SendClears
<1>3. sends[c][1] \in Sendings BY <1>1, <1>2, FirstFacts
<1>4. sends' = [sends EXCEPT ![c] = Tail(@)] BY DEF SendClears
<1>5. UNCHANGED <<saving, active, visible, uncertainties, imports, native, view, up, ghost>>
  BY DEF SendClears
<1>6. PICK s : s = sends[c][1] OBVIOUS
<1>7. s \in Sendings /\ s.draft \in Draft /\ s.draft.rev \in Nat /\ s.draft.text \in Text /\ s.id \in Id
  BY <1>3, <1>6 DEF Sendings, Draft
<1>8. PICK result : result = Result(c, s.id, "accepted") OBVIOUS
<1>9. result \in HostMessages /\ result.kind = "result" /\ result.conv = c
  <2>1. result \in HostMessages BY <1>7, <1>8, ResultType DEF Outcomes
  <2> QED BY <1>8, <2>1 DEF Result
<1> DEFINE cleared == drafts[c] = s.draft
           draft == IF cleared THEN [rev |-> s.draft.rev + 1, text |-> {}] ELSE drafts[c]
           durable == IF cleared \/ stored[c] = None \/ stored[c].rev # draft.rev
                      THEN draft ELSE stored[c]
           shown == IF c = active THEN <<Hydration(c, draft, durable)>> ELSE <<>>
           change == IF cleared THEN <<Status(c, draft.rev, "saved")>> ELSE <<>>
<1>10. \/ /\ drafts' = [drafts EXCEPT ![c] = draft]
          /\ stored' = [stored EXCEPT ![c] = durable]
          /\ recent' = [recent EXCEPT ![c] = s.draft.text]
          /\ down' = down \o change \o shown \o <<result>>
       \/ /\ down' = down \o <<Status(c, s.draft.rev, "unsaved"), result>>
          /\ UNCHANGED <<drafts, stored, recent>>
  BY <1>6, <1>8 DEF SendClears
<1>11. draft \in Draft /\ draft.rev \in Nat BY <1>1, <1>7 DEF Draft, Text
<1>12. /\ cleared => draft.rev = drafts[c].rev + 1 /\ draft.text = {} /\ durable = draft
       /\ ~cleared => draft = drafts[c] /\ (durable = drafts[c] \/ (durable = stored[c] /\ stored[c] # None))
  BY <1>7
<1>13. PICK x, y : x = draft /\ y = durable OBVIOUS
<1>14. PICK h, t, u : /\ h = Hydration(c, x, y) /\ t = Status(c, x.rev, "saved")
                      /\ u = Status(c, s.draft.rev, "unsaved")
  OBVIOUS
<1>15. /\ h \in HostMessages /\ t \in HostMessages /\ u \in HostMessages
       /\ h.kind = "hydrate" /\ h.conv = c /\ t.kind = "status" /\ t.conv = c
       /\ u.kind = "status" /\ u.conv = c
  <2>1. h \in HostMessages BY <1>1, <1>11, <1>13, <1>14, HydrationType
  <2>2. t \in HostMessages /\ u \in HostMessages BY <1>7, <1>11, <1>13, <1>14, StatusType DEF Labels
  <2> QED BY <1>14, <2>1, <2>2 DEF Hydration, Status
<1>16. PICK p, q : p = shown /\ q = change OBVIOUS
<1>17. PICK clear \in BOOLEAN : clear <=> cleared OBVIOUS
<1>18. /\ p = (IF c = active THEN <<h>> ELSE <<>>) /\ q = (IF clear THEN <<t>> ELSE <<>>)
  BY <1>13, <1>14, <1>16, <1>17
<1>19. CASE /\ drafts' = [drafts EXCEPT ![c] = x]
            /\ stored' = [stored EXCEPT ![c] = y]
            /\ recent' = [recent EXCEPT ![c] = s.draft.text]
            /\ down' = down \o q \o p \o <<result>>
  <2>1. PICK r : r = q \o p \o <<result>> OBVIOUS
  <2>2. p \in Seq(HostMessages) /\ q \in Seq(HostMessages) /\ <<result>> \in Seq(HostMessages)
    BY <1>9, <1>15, <1>18
  <2>3. r \in Seq(HostMessages) /\ down' = down \o r
    <3>1. down \in Seq(HostMessages) BY TypeParts
    <3> QED BY <1>19, <2>1, <2>2, <3>1
  <2>4. /\ \A i \in DOMAIN r : r[i] = result \/ (r[i] = h /\ c = active) \/ (r[i] = t /\ clear)
        /\ r # <<>> /\ r[Len(r)] = result
        /\ clear => \E i \in DOMAIN r : r[i] = t
        /\ c = active => \E i \in DOMAIN r : r[i] = h
    <3>1. CASE clear /\ c = active
      <4>1. Len(r) = 3 /\ r[1] = t /\ r[2] = h /\ r[3] = result
        <5>1. r = <<t>> \o <<h>> \o <<result>> BY <1>18, <2>1, <3>1
        <5>2. /\ Len(<<t>> \o <<h>> \o <<result>>) = 3
              /\ (<<t>> \o <<h>> \o <<result>>)[1] = t /\ (<<t>> \o <<h>> \o <<result>>)[2] = h
              /\ (<<t>> \o <<h>> \o <<result>>)[3] = result
          BY <1>9, <1>15
        <5> QED BY <5>1, <5>2
      <4>2. DOMAIN r = 1..3 BY <2>3, <4>1
      <4> QED BY <3>1, <4>1, <2>3, <4>2
    <3>2. CASE clear /\ c # active
      <4>1. Len(r) = 2 /\ r[1] = t /\ r[2] = result BY <1>18, <2>1, <3>2, <1>9, <1>15
      <4>2. DOMAIN r = 1..2 /\ \A i \in DOMAIN r : i = 1 \/ i = 2 BY <2>3, <4>1
      <4> QED BY <3>2, <4>1, <4>2
    <3>3. CASE ~clear /\ c = active BY <3>3, <1>9, <1>15, <1>18, <2>1, <2>3
    <3>4. CASE ~clear /\ c # active BY <3>4, <1>18, <2>1
    <3> QED BY <3>1, <3>2, <3>3, <3>4
  <2>5. Hydrates(r) <=> c = active BY <1>9, <1>15, <2>4 DEF Hydrates
  <2>6. \A i \in DOMAIN r : r[i] \in {m \in HostMessages : m.conv = c} BY <1>9, <1>15, <2>4
  <2>7. CASE clear
    <3>1. /\ drafts[c] = s.draft /\ x \in Draft /\ x.rev = drafts[c].rev + 1 /\ x.text = {} /\ y = x
      BY <1>11, <1>12, <1>13, <1>17, <2>7
    <3>2. \A i \in DOMAIN r :
            r[i] \in {Status(c, x.rev, "saved"), Hydration(c, x, x), Result(c, s.id, "accepted")}
      BY <1>8, <1>14, <2>4, <3>1
    <3>3. \E i \in DOMAIN r : r[i] = Status(c, x.rev, "saved") BY <1>14, <2>4, <2>7
    <3>4. stored' = [stored EXCEPT ![c] = x] BY <1>19, <3>1
    <3> HIDE DEF draft, durable, cleared, shown, change
    <3>5. ClearsDraft(c, r) BY <1>6, <1>19, <2>5, <3>1, <3>2, <3>3, <3>4 DEF ClearsDraft
    <3> QED BY <1>2, <1>3, <1>4, <1>5, <1>6, <1>8, <2>3, <2>4, <2>6, <3>5
  <2>8. CASE ~clear
    <3>1. /\ drafts[c] # s.draft /\ x = drafts[c] /\ y \in Draft \cup {None}
          /\ y = drafts[c] \/ (y = stored[c] /\ stored[c] # None)
      BY <1>12, <1>1, <1>11, <1>13, <1>17, <2>8
    <3>2. \A i \in DOMAIN r : r[i] \in {Hydration(c, drafts[c], y), Result(c, s.id, "accepted")}
      BY <1>8, <1>14, <2>4, <2>8, <3>1
    <3>3. drafts' = drafts BY <1>1, <1>19, <3>1
    <3> HIDE DEF draft, durable, cleared, shown, change
    <3>4. LeavesDraft(c, r) BY <1>6, <1>19, <2>5, <3>1, <3>2, <3>3 DEF LeavesDraft
    <3> QED BY <1>2, <1>3, <1>4, <1>5, <1>6, <1>8, <2>3, <2>4, <2>6, <3>4
  <2> QED BY <2>7, <2>8
<1>20. CASE /\ down' = down \o <<u, result>>
            /\ UNCHANGED <<drafts, stored, recent>>
  <2>1. PICK r : r = <<u, result>> OBVIOUS
  <2>2. r \in Seq(HostMessages) /\ r # <<>> /\ r[Len(r)] = result /\ \A i \in DOMAIN r : r[i] = u \/ r[i] = result
    BY <1>9, <1>15, <2>1
  <2>3. \A i \in DOMAIN r : r[i] \in {m \in HostMessages : m.conv = c} BY <1>9, <1>15, <2>2
  <2>4. down' = down \o r BY <1>20, <2>1
  <2> HIDE DEF draft, durable, cleared, shown, change
  <2>5. NotRecorded(c, r) BY <1>6, <1>20, <1>8, <1>14, <2>2 DEF NotRecorded
  <2> QED BY <1>2, <1>3, <1>4, <1>5, <1>6, <1>8, <2>2, <2>3, <2>4, <2>5
<1> QED BY <1>10, <1>13, <1>14, <1>16, <1>19, <1>20

LEMMA SendClearsWork ==
    ASSUME TypesSound, TypesSound', WorkSound, NEW c \in Conv, SendClears(c)
    PROVE  WorkSound'
<1>1. SUFFICES ASSUME NEW b \in Conv PROVE WorkOf(b)' BY DEF WorkSound
<1>2. WorkOf(b) BY DEF WorkSound
<1>3. /\ sends[c] # <<>> /\ sends[c][1] \in Sendings /\ sends[c][1].step = "clearing"
      /\ sends' = [sends EXCEPT ![c] = Tail(@)]
      /\ UNCHANGED <<saving, active, imports>> /\ fate' = fate
  BY SendClearsParts DEF ghost
<1>4. /\ drafts \in [Conv -> Draft] /\ stored \in [Conv -> Draft \cup {None}]
      /\ recent \in [Conv -> Text] /\ sends \in [Conv -> Seq(Sendings)]
  BY TypeParts
<1>5. \/ /\ drafts[c] = sends[c][1].draft
         /\ \E draft \in Draft :
              /\ draft.rev = drafts[c].rev + 1
              /\ drafts' = [drafts EXCEPT ![c] = draft] /\ stored' = [stored EXCEPT ![c] = draft]
         /\ recent' = [recent EXCEPT ![c] = sends[c][1].draft.text]
      \/ /\ UNCHANGED drafts
         /\ \E durable \in {drafts[c], stored[c]} : stored' = [stored EXCEPT ![c] = durable]
         /\ recent' = [recent EXCEPT ![c] = sends[c][1].draft.text]
      \/ UNCHANGED <<drafts, stored, recent>>
  <2>1. PICK r : ClearsDraft(c, r) \/ LeavesDraft(c, r) \/ NotRecorded(c, r) BY SendClearsParts
  <2>2. CASE ClearsDraft(c, r) BY <2>2 DEF ClearsDraft
  <2>3. CASE LeavesDraft(c, r) BY <2>3 DEF LeavesDraft
  <2>4. CASE NotRecorded(c, r) BY <2>4 DEF NotRecorded
  <2> QED BY <2>1, <2>2, <2>3, <2>4
<1>6. CASE b # c BY <1>2, <1>3, <1>4, <1>5, <1>6, WorkStays
<1>7. CASE b = c
  <2>1. SendsSound(c) /\ CopySound(c) /\ ImportSound(c) /\ StoredSound(c) /\ RecentSound(c)
    BY <1>2, <1>7 DEF WorkOf
  <2>2. 1 \in DOMAIN sends[c] BY <1>3, <1>4
  <2>3. \A i \in DOMAIN sends'[c] : i + 1 \in DOMAIN sends[c] /\ sends'[c][i] = sends[c][i + 1]
    BY <1>3, SendsTail
  <2>4. drafts[c].rev \in Nat /\ drafts[c] \in Draft BY <1>4 DEF Draft
  <2>5. Later(c) BY <1>4, <1>5, <2>4 DEF Later
  <2>6. RecentSound(c)' BY <1>3, <1>4, <1>5, <2>1, <2>2 DEF RecentSound, SendsSound
  <2>7. StoredSound(c)'
    <3>1. stored[c] # None => PastNext(c, stored[c]) BY <2>1, <2>5, <1>4, PastStays DEF StoredSound
    <3>2. drafts'[c].rev \in Nat BY DEF TypesSound, TypeOK, Draft
    <3> QED BY <1>4, <1>5, <3>1, <3>2 DEF StoredSound, Past, PastNext
  <2>8. \A i \in DOMAIN sends[c] : sends[c][i].step # "queued" => PastNext(c, sends[c][i].draft)
    <3>1. \A i \in DOMAIN sends[c] : sends[c][i] \in Sendings BY <1>4
    <3> QED BY <2>1, <2>5, <3>1, PastStays DEF SendsSound, Sendings
  <2>9. SendsSound(c)' BY <1>3, <2>1, <2>3, <2>8 DEF SendsSound, Past, PastNext
  <2>10. ASSUME Importing(c, "saving") PROVE drafts' = drafts
    <3>1. imports[c].draft.rev \in Nat /\ sends[c][1].draft.rev \in Nat
      <4>1. imports[c] \in Copies BY <2>10, TypeParts DEF Importing
      <4> QED BY <1>3, <4>1 DEF Copies, Sendings, Draft
    <3> QED BY <1>5, <2>4, <1>3, <2>1, <2>2, <2>10, <3>1 DEF Past, CopySound
  <2>11. CopySound(c)' BY <1>3, <2>1, <2>3, <2>10 DEF CopySound, Importing, Past
  <2> QED BY <1>7, <2>6, <2>7, <2>9, <1>3, <2>1, <2>11 DEF WorkOf, ImportSound
<1> QED BY <1>6, <1>7

LEMMA ImportsWork ==
    ASSUME TypesSound, TypesSound', WorkSound, NEW c \in Conv,
           ImportReads(c) \/ ImportSaves(c) \/ ImportClears(c)
    PROVE  WorkSound'
<1>1. SUFFICES ASSUME NEW b \in Conv PROVE WorkOf(b)' BY DEF WorkSound
<1>2. WorkOf(b) BY DEF WorkSound
<1>3. /\ drafts \in [Conv -> Draft] /\ stored \in [Conv -> Draft \cup {None}]
      /\ imports \in [Conv -> {None} \cup Copies] /\ sends \in [Conv -> Seq(Sendings)]
      /\ fate \in [Fates -> Text]
  BY TypeParts
<1>4. UNCHANGED <<saving, active, sends, recent>> BY DEF ImportReads, ImportSaves, ImportClears
<1>5. fate["sent"] \subseteq fate'["sent"]
  BY <1>3 DEF ImportReads, ImportSaves, ImportClears, ghost, Becomes, Fates
<1>6. imports[c] \in Copies /\ imports[c] # None
  BY <1>3 DEF ImportReads, ImportSaves, ImportClears, Importing
<1>7. \/ imports'[c] = None /\ UNCHANGED drafts
         /\ (stored' = stored \/ (Importing(c, "saving") /\ stored' = [stored EXCEPT ![c] = imports[c].draft]))
      \/ /\ imports[c].step = "reading" /\ ~imports[c].stale /\ stored' = stored
         /\ imports'[c] = [[imports[c] EXCEPT !.step = "saving"] EXCEPT !.draft = drafts'[c]]
         /\ drafts'[c].rev = drafts[c].rev + 1
      \/ /\ Importing(c, "saving") /\ UNCHANGED drafts
         /\ imports'[c] = [imports[c] EXCEPT !.step = "clearing"]
         /\ stored' = [stored EXCEPT ![c] = imports[c].draft]
  <2>1. CASE ImportReads(c)
    <3>1. CASE ImportOver(c) /\ UNCHANGED <<drafts, down>>
      BY <1>3, <2>1, <3>1 DEF ImportReads, ImportOver
    <3>2. CASE ~(ImportOver(c) /\ UNCHANGED <<drafts, down>>)
      <4> DEFINE draft == [rev |-> drafts[c].rev + 1, text |-> native[c]]
      <4>1. /\ imports' = [imports EXCEPT ![c].step = "saving", ![c].draft = draft]
            /\ drafts' = [drafts EXCEPT ![c] = draft]
            /\ imports[c].step = "reading" /\ ~imports[c].stale /\ stored' = stored
        BY <2>1, <3>2 DEF ImportReads, Importing
      <4> QED BY <4>1, <1>3
    <3> QED BY <3>1, <3>2
  <2>2. CASE ImportSaves(c)
    <3>1. CASE /\ stored' = [stored EXCEPT ![c] = imports[c].draft]
               /\ imports' = [imports EXCEPT ![c].step = "clearing"] \/ ImportOver(c)
      BY <1>3, <2>2, <3>1 DEF ImportSaves, ImportOver
    <3>2. CASE ImportOver(c) /\ UNCHANGED stored BY <1>3, <2>2, <3>2 DEF ImportSaves, ImportOver
    <3> QED BY <2>2, <3>1, <3>2 DEF ImportSaves
  <2>3. CASE ImportClears(c) BY <1>3, <2>3 DEF ImportClears, ImportOver
  <2> QED BY <2>1, <2>2, <2>3
<1>8. CASE b # c
  <2>1. imports'[b] = imports[b]
    BY <1>3, <1>8 DEF ImportReads, ImportSaves, ImportClears, ImportOver
  <2>2. drafts'[b] = drafts[b] BY <1>3, <1>8 DEF ImportReads, ImportSaves, ImportClears
  <2>3. stored'[b] = stored[b] BY <1>3, <1>8 DEF ImportReads, ImportSaves, ImportClears
  <2> QED BY <1>2, <1>4, <1>5, <2>1, <2>2, <2>3, WorkStays
<1>9. CASE b = c
  <2>1. SendsSound(c) /\ CopySound(c) /\ ImportSound(c) /\ StoredSound(c) /\ RecentSound(c)
    BY <1>2, <1>9 DEF WorkOf
  <2>2. drafts[c].rev \in Nat /\ drafts[c] \in Draft /\ drafts'[c].rev \in Nat
    <3>1. drafts'[c].rev \in Nat BY DEF TypesSound, TypeOK, Draft
    <3> QED BY <1>3, <3>1 DEF Draft
  <2>3. Later(c) BY <1>7, <2>2 DEF Later
  <2>4. StoredSound(c)'
    <3>1. CASE stored' = stored BY <3>1, <2>1, <2>3, <1>3, PastStays DEF StoredSound, Past, PastNext
    <3>2. CASE Importing(c, "saving") /\ UNCHANGED drafts /\ stored' = [stored EXCEPT ![c] = imports[c].draft]
      BY <3>2, <1>3, <2>1 DEF StoredSound, Past, CopySound
    <3> QED BY <1>7, <3>1, <3>2
  <2>5. \A i \in DOMAIN sends[c] :
          sends[c][i].step # "queued" => PastNext(c, sends[c][i].draft) /\ Past(c, sends[c][i].draft)
                                         /\ sends[c][i].draft.rev \in Nat
    <3>1. \A i \in DOMAIN sends[c] : sends[c][i] \in Sendings BY <1>3
    <3> QED BY <2>1, <2>3, <3>1, PastStays DEF SendsSound, Draft, Sendings
  <2>6. ImportSound(c)' /\ CopySound(c)'
    <3>1. CASE imports'[c] = None BY <3>1 DEF ImportSound, CopySound, Importing
    <3>2. CASE /\ imports[c].step = "reading" /\ ~imports[c].stale
               /\ imports'[c] = [[imports[c] EXCEPT !.step = "saving"] EXCEPT !.draft = drafts'[c]]
               /\ drafts'[c].rev = drafts[c].rev + 1
      <4>1. imports'[c].step = "saving" /\ imports'[c].draft = drafts'[c] /\ ~imports'[c].stale
        BY <1>6, <3>2 DEF Copies
      <4> QED BY <1>4, <4>1, <1>6, <2>1, <2>2, <2>5, <3>2 DEF CopySound, Past, PastNext, ImportSound
    <3>3. CASE imports'[c] = [imports[c] EXCEPT !.step = "clearing"]
      BY <1>4, <1>6, <2>1, <3>3 DEF ImportSound, CopySound, Importing, Copies
    <3> QED BY <1>7, <3>1, <3>2, <3>3
  <2> QED
    BY <1>9, <1>4, <1>5, <2>1, <2>4, <2>5, <2>6 DEF WorkOf, RecentSound, SendsSound, Past, PastNext
<1> QED BY <1>8, <1>9

LEMMA HandlesWork ==
    ASSUME TypesSound, TypesSound', WorkSound, Handles
    PROVE  WorkSound'
<1> DEFINE m == Head(up)
<1>1. m \in ViewMessages BY TypeParts, TailFacts DEF Handles
<1>2. drafts \in [Conv -> Draft] /\ active \in Conv /\ fate \in [Fates -> Text] BY TypeParts
<1> HIDE DEF m
<1>3. CASE m.kind = "ready" /\ Ready /\ UNCHANGED <<fate, left>>
  BY <1>2, <1>3, SelectsWork DEF Ready
<1>4. CASE /\ m.kind = "activate" /\ UNCHANGED <<fate, left>>
           /\ IF m.conv = active THEN UNCHANGED <<host, down>> ELSE Selects(m.conv)
  <2>1. CASE UNCHANGED <<host, down>> BY <1>4, <2>1, WorkStays DEF WorkSound, host
  <2> QED BY <1>4, <1>1, ViewMessageParts, <2>1, SelectsWork
<1>5. CASE m.kind = "visible" /\ Shows(m.value) /\ UNCHANGED <<fate, left>> BY <1>5, ShowsWork
<1>6. CASE m.kind = "edit" /\ Edited(m.conv, m.draft)
  <2>1. m.conv \in Conv /\ m.draft \in Draft BY <1>1, <1>6, ViewMessageParts
  <2>2. UNCHANGED <<stored, active, sends, recent, imports, fate>> BY <1>6 DEF Edited
  <2>3. CASE UNCHANGED <<drafts, saving>> BY <2>2, <2>3, WorkStays DEF WorkSound
  <2>4. CASE ~Stale(m.conv, m.draft) /\ Updates(m.conv, m.draft, <<>>)
    <3>1. /\ drafts'[m.conv] = m.draft /\ m.conv \in saving'
          /\ \A b \in Conv \ {m.conv} : drafts'[b] = drafts[b] /\ (b \in saving => b \in saving')
      BY <1>2, <2>1, <2>4 DEF Updates
    <3>2. Later(m.conv) BY <2>4, <3>1, <1>2, <2>1 DEF Stale, Later, Draft
    <3> QED BY <2>1, <2>2, <3>1, <3>2, UpdatesWork
  <2> QED BY <1>6, <2>3, <2>4 DEF Edited
<1>7. CASE m.kind = "recall" /\ Recalled(m.conv, m)
  <2>1. m.conv \in Conv /\ m.rev \in Nat BY <1>1, <1>7, ViewMessageParts
  <2>2. UNCHANGED <<stored, active, sends, recent, imports>> BY <1>7 DEF Recalled
  <2> DEFINE text == IF m.append THEN drafts[m.conv].text \cup recent[m.conv] ELSE recent[m.conv]
             draft == [rev |-> m.rev + 1, text |-> text]
  <2>3. CASE UNCHANGED <<drafts, saving, down, fate>> BY <2>2, <2>3, WorkStays DEF WorkSound
  <2>4. CASE /\ drafts[m.conv].rev = m.rev
             /\ Updates(m.conv, draft, <<Hydration(m.conv, draft, stored[m.conv])>>)
             /\ Becomes("erased", drafts[m.conv].text \ text)
    BY <2>1, <2>2, <1>2, <2>4, UpdatesWork DEF Becomes, Fates, Later, Updates
  <2> QED BY <1>7, <2>3, <2>4 DEF Recalled
<1>8. CASE m.kind = "send" /\ Submitted(m.conv, m) BY <1>8, <1>1, ViewMessageParts, SubmittedWork
<1> QED BY <1>3, <1>4, <1>5, <1>6, <1>7, <1>8 DEF Handles, m

\* The view leaves the host's copies alone; only a new document puts imports out of date.
LEMMA ViewWork ==
    ASSUME TypesSound, WorkSound, UNCHANGED <<drafts, stored, saving, active, sends, recent>>,
           imports' = imports \/ imports' = OutOfDate, fate["sent"] \subseteq fate'["sent"]
    PROVE  WorkSound'
<1>1. SUFFICES ASSUME NEW b \in Conv PROVE WorkOf(b)' BY DEF WorkSound
<1>2. imports[b] # None => imports[b] \in Copies BY TypeParts
<1>3. \/ imports'[b] = None
      \/ imports'[b] = imports[b] /\ active' = active
      \/ imports'[b] = [imports[b] EXCEPT !.stale = TRUE] /\ imports[b] \in Copies /\ imports[b] # None
  BY <1>2 DEF OutOfDate
<1> QED BY <1>3, WorkStays DEF WorkSound

LEMMA WorkInit == Init => WorkSound
<1> SUFFICES ASSUME Init PROVE WorkSound OBVIOUS
<1>1. SUFFICES ASSUME NEW c \in Conv PROVE WorkOf(c) BY DEF WorkSound
<1> QED BY DEF WorkOf, RecentSound, StoredSound, SendsSound, ImportSound, CopySound, Importing, Init

LEMMA WorkStep ==
    ASSUME TypesSound, TypesSound', WorkSound, Next
    PROVE  WorkSound'
<1>1. fate \in [Fates -> Text] BY TypeParts
<1>2. CASE Handles BY <1>2, HandlesWork
<1>3. CASE Switches
  <2>1. PICK c \in Conv : Selects(c) BY <1>3 DEF Switches
  <2> QED BY <2>1, <1>3, SelectsWork DEF Switches, ghost
<1>4. CASE TypesNative \/ Types \/ Activates \/ Toggles \/ Receives
           \/ (\E explicit \in BOOLEAN : Sends(explicit)) \/ (\E append \in BOOLEAN : Recalls(append))
  BY <1>4, ViewWork DEF TypesNative, Types, Activates, Toggles, Receives, Sends, Recalls, host,
     ghost
<1>5. CASE Erases BY <1>5, <1>1, ViewWork DEF Erases, host, Becomes, Fates
<1>6. CASE Reloads BY <1>6, <1>1, ViewWork DEF Reloads, Becomes, Fates
<1>7. ASSUME NEW c \in Conv, Saves(c) PROVE WorkSound' BY <1>7, SavesWork
<1>8. ASSUME NEW c \in Conv, SendStarts(c) PROVE WorkSound' BY <1>8, SendStartsWork
<1>9. ASSUME NEW c \in Conv, SendClears(c) PROVE WorkSound' BY <1>9, SendClearsWork
<1>10. ASSUME NEW c \in Conv, NEW outcome \in Outcomes, SendEnds(c, outcome) PROVE WorkSound'
  BY <1>10, SendEndsWork
<1>11. ASSUME NEW c \in Conv, ImportReads(c) \/ ImportSaves(c) \/ ImportClears(c) PROVE WorkSound'
  BY <1>11, ImportsWork
<1> QED BY <1>2, <1>3, <1>4, <1>5, <1>6, <1>7, <1>8, <1>9, <1>10, <1>11 DEF Next

--------------------
(* The steps of the host keep the queues, the view and the text *)

LEMMA GoneStays ==
    ASSUME TypesSound, NEW f \in Fates, NEW text, Becomes(f, text)
    PROVE  Gone \subseteq Gone' /\ text \subseteq Gone'
<1> QED BY TypeParts, GoneGrows DEF Gone, Becomes

LEMMA OneMessage ==
    ASSUME NEW m
    PROVE  <<m>> # <<>> /\ Len(<<m>>) = 1 /\ DOMAIN <<m>> = {1} /\ <<m>>[1] = m
OBVIOUS

\* Taking a message that is not an edit leaves the edits on their way.
LEMMA UpTaken ==
    ASSUME TypesSound, up # <<>>, up' = Tail(up), Head(up).kind # "edit"
    PROVE  \A b \in Conv : Edits(up', b) = Edits(up, b) /\ (Increasing(up, b) => Increasing(up', b))
<1>1. up \in Seq(ViewMessages) BY TypeParts
<1>2. \A b \in Conv : ~IsEdit(Head(up), b) BY DEF IsEdit
<1> QED BY <1>1, <1>2, EditsTail

LEMMA TellingIntro ==
    ASSUME NEW c \in Conv, NEW r \in Seq(HostMessages), down' = down \o r,
           Tells(r, c, drafts'[c]),
           \A j \in DOMAIN r : r[j].kind = "status" => r[j].conv = c /\ r[j].rev <= drafts'[c].rev,
           UNCHANGED <<view, typed, left, native>>,
           \A b \in Conv : Edits(up', b) = Edits(up, b) /\ (Increasing(up, b) => Increasing(up', b)),
           \A b \in Conv \ {c} : drafts'[b] = drafts[b],
           Advances(c),
           drafts'[c] # drafts[c] /\ c = active => Hydrates(r),
           Gone \subseteq Gone'
    PROVE  Telling(c, r)
<1> QED BY DEF Telling, Own

\* The host tells c its present draft, and changes none.
LEMMA OneHydration ==
    ASSUME TypesSound, NEW c \in Conv, NEW h \in HostMessages,
           h.kind = "hydrate", h.conv = c, h.draft = drafts[c],
           down' = Append(down, h), UNCHANGED <<drafts, view, typed, left, native, fate>>,
           \A b \in Conv : Edits(up', b) = Edits(up, b) /\ (Increasing(up, b) => Increasing(up', b))
    PROVE  Telling(c, <<h>>)
<1>1. down' = down \o <<h>> /\ <<h>> \in Seq(HostMessages) BY TypeParts, AppendFacts
<1>2. Tells(<<h>>, c, drafts'[c]) BY OneMessage DEF Tells
<1>3. \A j \in DOMAIN <<h>> : <<h>>[j].kind # "status" BY OneMessage
<1>4. Gone' = Gone BY DEF Gone
<1>5. Advances(c) BY DEF Advances
<1> QED BY <1>1, <1>2, <1>3, <1>4, <1>5, TellingIntro

\* The host tells nothing of a draft, or only how it stands.
LEMMA OneStatus ==
    ASSUME TypesSound, NEW c \in Conv, NEW m \in HostMessages,
           m.kind # "hydrate", m.kind = "status" => m.conv = c /\ m.rev <= drafts[c].rev,
           down' = Append(down, m), UNCHANGED <<drafts, view, typed, left, native>>, Gone \subseteq Gone',
           \A b \in Conv : Edits(up', b) = Edits(up, b) /\ (Increasing(up, b) => Increasing(up', b))
    PROVE  Telling(c, <<m>>)
<1>1. down' = down \o <<m>> /\ <<m>> \in Seq(HostMessages) BY TypeParts, AppendFacts
<1>2. Tells(<<m>>, c, drafts'[c]) BY OneMessage DEF Tells
<1>3. \A j \in DOMAIN <<m>> : <<m>>[j].kind = "status" =>
        <<m>>[j].conv = c /\ <<m>>[j].rev <= drafts'[c].rev
  BY OneMessage
<1>4. Advances(c) BY DEF Advances
<1> QED BY <1>1, <1>2, <1>3, <1>4, TellingIntro

LEMMA NoMessage ==
    ASSUME TypesSound, NEW c \in Conv,
           UNCHANGED <<down, drafts, view, typed, left, native>>, Gone \subseteq Gone',
           \A b \in Conv : Edits(up', b) = Edits(up, b) /\ (Increasing(up, b) => Increasing(up', b))
    PROVE  Telling(c, <<>>)
<1>1. down' = down \o <<>> /\ <<>> \in Seq(HostMessages) BY TypeParts
<1>2. Tells(<<>>, c, drafts'[c]) BY DEF Tells
<1>3. \A j \in DOMAIN <<>> : <<>>[j].kind = "status" =>
        <<>>[j].conv = c /\ <<>>[j].rev <= drafts'[c].rev
  OBVIOUS
<1>4. Advances(c) BY DEF Advances
<1> QED BY <1>1, <1>2, <1>3, <1>4, TellingIntro

LEMMA SelectsTells ==
    ASSUME TypesSound, NEW c \in Conv, Selects(c), UNCHANGED <<view, typed, left, native, fate>>,
           \A b \in Conv : Edits(up', b) = Edits(up, b) /\ (Increasing(up, b) => Increasing(up', b))
    PROVE  Telling(c, <<Hydration(c, drafts[c], stored[c])>>)
<1>1. Hydration(c, drafts[c], stored[c]) \in HostMessages BY TypeParts, HydrationType
<1>2. PICK h : h = Hydration(c, drafts[c], stored[c]) OBVIOUS
<1> QED BY <1>1, <1>2, OneHydration DEF Hydration, Selects

LEMMA ShowsTells ==
    ASSUME TypesSound, NEW value \in BOOLEAN, Shows(value), UNCHANGED <<view, typed, left, native, fate>>,
           \A b \in Conv : Edits(up', b) = Edits(up, b) /\ (Increasing(up, b) => Increasing(up', b))
    PROVE  Telling(active, <<[Hydration(active, drafts[active], stored[active]) EXCEPT !.visible = value]>>)
<1>1. drafts[active] \in Draft /\ TypeOK /\ active \in Conv BY TypeParts
<1>2. PICK h : h = [Hydration(active, drafts[active], stored[active]) EXCEPT !.visible = value]
  OBVIOUS
<1>3. h \in HostMessages BY <1>1, <1>2, HydrationType
<1> QED BY <1>1, <1>2, <1>3, OneHydration DEF Hydration, Shows

LEMMA TwoMessages ==
    ASSUME NEW S, NEW a \in S, NEW b \in S
    PROVE  /\ <<a>> \o <<b>> \in Seq(S) /\ DOMAIN (<<a>> \o <<b>>) = {1, 2}
           /\ (<<a>> \o <<b>>)[1] = a /\ (<<a>> \o <<b>>)[2] = b
           /\ <<a, b>> \in Seq(S) /\ DOMAIN <<a, b>> = {1, 2} /\ <<a, b>>[1] = a /\ <<a, b>>[2] = b
           /\ \A q \in Seq(S) : q \o <<a>> \o <<b>> = q \o (<<a>> \o <<b>>)
OBVIOUS

LEMMA RecalledTells ==
    ASSUME TypesSound, NEW c \in Conv, NEW m, m.rev \in Nat, Recalled(c, m), UNCHANGED <<view, typed, native>>,
           \A b \in Conv : Edits(up', b) = Edits(up, b) /\ (Increasing(up, b) => Increasing(up', b))
    PROVE  \/ Telling(c, <<>>) /\ UNCHANGED <<down, drafts, saving>>
           \/ \E status, hydration \in HostMessages :
                /\ Telling(c, <<status>> \o <<hydration>>)
                /\ status = Status(c, drafts'[c].rev, "saving")
                /\ hydration = Hydration(c, drafts'[c], stored[c])
                /\ c = active /\ saving' = saving \cup {c}
<1>1. /\ drafts \in [Conv -> Draft] /\ recent \in [Conv -> Text] /\ down \in Seq(HostMessages)
      /\ TypeOK
  BY TypeParts
<1> DEFINE text == IF m.append THEN drafts[c].text \cup recent[c] ELSE recent[c]
           draft == [rev |-> m.rev + 1, text |-> text]
<1>2. draft \in Draft /\ draft.rev \in Nat BY <1>1 DEF Draft, Text
<1>3. left' = left BY DEF Recalled
<1>4. CASE UNCHANGED <<drafts, saving, down, fate>> BY <1>3, <1>4, NoMessage DEF Gone
<1>5. CASE /\ c = active /\ drafts[c].rev = m.rev
           /\ Updates(c, draft, <<Hydration(c, draft, stored[c])>>)
           /\ Becomes("erased", drafts[c].text \ text)
  <2>1. PICK new : new = draft OBVIOUS
  <2>2. new \in Draft /\ new.rev \in Nat /\ new.rev = drafts[c].rev + 1 /\ new.text = text
    BY <1>2, <1>5, <2>1
  <2>3. PICK status, hydration : status = Status(c, new.rev, "saving") /\ hydration = Hydration(c, new, stored[c])
    OBVIOUS
  <2>4. status \in HostMessages /\ hydration \in HostMessages
    BY <1>1, <2>2, <2>3, StatusType, HydrationType DEF Labels
  <2>5. PICK r : r = <<status>> \o <<hydration>> OBVIOUS
  <2>6. r \in Seq(HostMessages) /\ DOMAIN r = {1, 2} /\ r[1] = status /\ r[2] = hydration
    BY <2>4, <2>5, TwoMessages
  <2>7. /\ drafts' = [drafts EXCEPT ![c] = new] /\ saving' = saving \cup {c}
        /\ down' = down \o <<status>> \o <<hydration>>
    BY <1>5, <2>1, <2>3 DEF Updates
  <2>8. down' = down \o r BY <1>1, <2>4, <2>5, <2>7, TwoMessages
  <2>9. drafts'[c] = new /\ \A b \in Conv \ {c} : drafts'[b] = drafts[b] BY <1>1, <2>7
  <2>10. /\ status.kind = "status" /\ status.conv = c /\ status.rev = new.rev
         /\ hydration.kind = "hydrate" /\ hydration.conv = c /\ hydration.draft = new
    BY <2>3 DEF Status, Hydration
  <2>11. Tells(r, c, drafts'[c]) /\ Hydrates(r) BY <2>6, <2>9, <2>10 DEF Tells, Hydrates
  <2>12. \A j \in DOMAIN r : r[j].kind = "status" => r[j].conv = c /\ r[j].rev <= drafts'[c].rev
    BY <2>2, <2>6, <2>9, <2>10
  <2>13. Gone \subseteq Gone' /\ drafts[c].text \ text \subseteq Gone' BY <1>5, GoneStays DEF Fates
  <2>14. Advances(c) BY <2>2, <2>9, <2>13 DEF Advances
  <2>15. Telling(c, r) BY <1>3, <2>6, <2>8, <2>9, <2>11, <2>12, <2>13, <2>14, TellingIntro
  <2> QED BY <1>5, <2>3, <2>4, <2>5, <2>7, <2>9, <2>15
<1> QED BY <1>4, <1>5 DEF Recalled

\* The host takes an edit, or drops it.
LEMMA EditedKeeps ==
    ASSUME TypesSound, TypesSound', Keeping, NEW c \in Conv, NEW e \in Draft, Edited(c, e),
           up # <<>>, up' = Tail(up), IsEdit(Head(up), c), Head(up).draft = e,
           UNCHANGED <<view, typed, native>>
    PROVE  Keeping'
<1>1. /\ up \in Seq(ViewMessages) /\ down \in Seq(HostMessages) /\ drafts \in [Conv -> Draft]
      /\ drafts[c].rev \in Nat /\ e.rev \in Nat
  BY TypeParts DEF Draft
<1>2. /\ Edits(up, c) = Edits(up', c) \cup {e}
      /\ Increasing(up, c) => Increasing(up', c) /\ \A f \in Edits(up', c) : f.rev > e.rev
  BY <1>1, EditsTail
<1>3. \A b \in Conv \ {c} : Edits(up', b) = Edits(up, b) /\ (Increasing(up, b) => Increasing(up', b))
  <2>1. ASSUME NEW b \in Conv \ {c}
        PROVE  Edits(up', b) = Edits(up, b) /\ (Increasing(up, b) => Increasing(up', b))
    <3>1. /\ Edits(up, b) = Edits(Tail(up), b) \cup (IF IsEdit(Head(up), b) THEN {Head(up).draft} ELSE {})
          /\ Increasing(up, b) => Increasing(Tail(up), b)
      BY <1>1, EditsTail
    <3> QED BY <3>1 DEF IsEdit
  <2> QED BY <2>1
<1>4. /\ Gone' = Gone
      /\ \A b \in Conv : Own(b)' = Own(b)
  BY DEF Edited, Gone, Own
<1>5. left \subseteq left' BY DEF Edited
<1>6. PICK taken \in BOOLEAN : taken <=> ~Stale(c, e) OBVIOUS
<1>7. /\ taken => /\ drafts' = [drafts EXCEPT ![c] = e]
                  /\ down' = down \o <<Status(c, e.rev, "saving")>> \o <<>>
                  /\ e.rev > drafts[c].rev \/ e = drafts[c]
      /\ ~taken => drafts' = drafts /\ down' = down /\ e.rev <= drafts[c].rev /\ e # drafts[c]
  BY <1>1, <1>6 DEF Edited, Updates, Stale
<1>8. PICK r \in Seq(HostMessages) :
        /\ down' = down \o r /\ \A i \in DOMAIN r : taken /\ r[i] = Status(c, e.rev, "saving")
  <2>1. CASE taken
    <3>1. down' = down \o <<Status(c, e.rev, "saving")>> /\ <<Status(c, e.rev, "saving")>> \in Seq(HostMessages)
      BY <1>1, <1>7, <2>1, StatusType DEF Labels
    <3> QED BY <2>1, <3>1, OneMessage
  <2>2. CASE ~taken
    <3>1. /\ down' = down \o <<>> /\ <<>> \in Seq(HostMessages)
          /\ \A i \in DOMAIN <<>> : taken /\ <<>>[i] = Status(c, e.rev, "saving")
      BY <1>1, <1>7, <2>2
    <3> QED BY <3>1
  <2> QED BY <2>1, <2>2
<1>9. /\ \A i \in DOMAIN r : r[i].kind = "status" /\ r[i].conv = c /\ r[i].rev = e.rev /\ taken
      /\ Tells(r, c, drafts'[c]) /\ ~Hydrates(r)
  BY <1>8 DEF Tells, Hydrates, Status
<1>10. \A b : Told(down', b) = Told(down, b) /\ (Stays(down', b) <=> Stays(down, b))
  BY <1>1, <1>8, <1>9, ToldConcat
<1>11. /\ \A b \in Conv \ {c} : drafts'[b] = drafts[b]
       /\ drafts'[c] = (IF taken THEN e ELSE drafts[c])
       /\ Later(c)
  BY <1>1, <1>7 DEF Later
<1>12. QueuesSound'
  <2>1. QueuesSound BY DEF Keeping
  <2>2. \A i \in DOMAIN down : down[i] \in HostMessages BY <1>1
  <2>3. \A i \in DOMAIN down : down[i].kind = "hydrate" => PastNext(down[i].conv, down[i].draft)
    <3>1. ASSUME NEW i \in DOMAIN down, down[i].kind = "hydrate" PROVE PastNext(down[i].conv, down[i].draft)
      <4>1. down[i].conv \in Conv /\ down[i].draft \in Draft BY <2>2, <3>1, HostMessageParts
      <4>2. Past(down[i].conv, down[i].draft) BY <2>1, <3>1 DEF QueuesSound
      <4>3. CASE down[i].conv = c BY <1>11, <4>1, <4>2, <4>3, PastStays
      <4>4. CASE down[i].conv # c BY <4>2, <1>11, <4>1, <4>4 DEF Past, PastNext
      <4> QED BY <4>3, <4>4
    <3> QED BY <3>1
  <2>4. \A i \in DOMAIN down : IsHydration(down[i], c) =>
          down[i].draft.rev <= drafts'[c].rev /\ (down[i].draft.rev = drafts'[c].rev => down[i].draft = drafts'[c])
    BY <2>3 DEF PastNext, IsHydration
  <2>5. drafts'[c] \in Draft BY <1>1, <1>11
  <2>6. Sorted(down') BY <1>1, <1>8, <1>9, <2>1, <2>4, <2>5, SortedConcat DEF QueuesSound
  <2>7. \A j \in DOMAIN down' : j \in DOMAIN down \/ (j - Len(down) \in DOMAIN r /\ down'[j] = r[j - Len(down)])
    BY <1>1, <1>8, ConcatFacts
  <2>8. \A j \in DOMAIN down : j \in DOMAIN down' /\ down'[j] = down[j] BY <1>1, <1>8, ConcatFacts
  <2>9. \A j \in DOMAIN down' : down'[j].kind = "hydrate" => PastNext(down'[j].conv, down'[j].draft)
    <3>1. ASSUME NEW j \in DOMAIN down', down'[j].kind = "hydrate" PROVE PastNext(down'[j].conv, down'[j].draft)
      <4>1. CASE j \in DOMAIN down BY <2>3, <3>1, <4>1, <2>8
      <4>2. CASE j - Len(down) \in DOMAIN r /\ down'[j] = r[j - Len(down)] BY <1>9, <3>1, <4>2
      <4> QED BY <2>7, <4>1, <4>2
    <3> QED BY <3>1
  <2>10. ASSUME NEW j \in DOMAIN down', down'[j].kind = "status"
         PROVE  down'[j].rev <= drafts'[down'[j].conv].rev
    <3>1. CASE j \in DOMAIN down
      <4>1. down'[j] = down[j] /\ down[j].rev <= drafts[down[j].conv].rev
        BY <2>1, <2>8, <2>10, <3>1 DEF QueuesSound
      <4>2. down[j].conv \in Conv /\ down[j].rev \in Nat
        BY <2>2, <2>10, <3>1, <4>1, HostMessageParts
      <4>3. CASE down[j].conv = c BY <1>1, <4>1, <4>2, <4>3, <1>7, <1>11
      <4>4. CASE down[j].conv # c BY <1>11, <4>1, <4>2, <4>4
      <4> QED BY <4>3, <4>4
    <3>2. CASE j - Len(down) \in DOMAIN r /\ down'[j] = r[j - Len(down)] BY <1>1, <1>9, <1>11, <3>2
    <3> QED BY <2>7, <3>1, <3>2
  <2> QED BY <1>2, <1>3, <1>5, <2>1, <2>6, <2>9, <2>10 DEF QueuesSound, Past, PastNext
<1>13. Following'
  <2>1. SUFFICES ASSUME view.target # None, view.target \notin left'
                 PROVE  Follows(view.draft, drafts'[view.target], Edits(up', view.target),
                                Told(down', view.target), Stays(down', view.target), Gone')
    BY DEF Following
  <2>2. PICK b \in Conv : b = view.target BY <2>1, ViewParts
  <2>3. PICK x, d, edits, now, told, gone :
          /\ x = view.draft /\ d = drafts[b] /\ edits = Edits(up, b) /\ told = Told(down, b)
          /\ gone = Gone /\ now = Edits(up', b)
    OBVIOUS
  <2>4. PICK stays \in BOOLEAN : (stays <=> Stays(down, b)) /\ stays = Stays(down, b)
    <3>1. Stays(down, b) \in BOOLEAN BY DEF Stays
    <3> QED BY <3>1
  <2>5. Told(down', b) = told /\ Stays(down', b) = stays
    <3>1. Stays(down', b) \in BOOLEAN BY DEF Stays
    <3> QED BY <1>10, <2>3, <2>4, <3>1
  <2>6. Follows(x, d, edits, told, stays, gone)
    BY <1>5, <2>1, <2>2, <2>3, <2>4 DEF Keeping, Following
  <2>7. CASE b # c BY <1>3, <1>4, <1>11, <2>2, <2>3, <2>5, <2>6, <2>7
  <2>8. CASE b = c
    <3>1. e \in edits /\ edits \ {e} = now /\ \A f \in edits : f = e \/ f.rev > e.rev
      BY <1>1, <1>2, <2>3, <2>8, <1>5, <2>1, <2>2 DEF Keeping, QueuesSound
    <3>2. x \in Draft /\ d \in Draft /\ edits \in SUBSET Draft /\ told \in SUBSET Draft
      BY <1>1, <2>3, ViewMessageParts, HostMessageParts, ViewParts DEF Edits, IsEdit, Told
    <3>3. CASE taken /\ e.rev > drafts[c].rev
      BY <1>4, <1>11, <2>2, <2>3, <2>5, <2>8, <3>1, <3>3, <2>6, <3>2, HostTakes
    <3>4. CASE ~(taken /\ e.rev > drafts[c].rev)
      <4>1. e.rev <= d.rev /\ drafts'[c] = d BY <1>1, <1>7, <1>11, <2>3, <2>8, <3>4
      <4>2. Follows(x, d, edits \ {e}, told, stays, gone) BY <2>6, <3>1, <3>2, <4>1, HostDrops
      <4> QED BY <1>4, <2>2, <2>3, <2>5, <2>8, <3>1, <4>1, <4>2
    <3> QED BY <3>3, <3>4
  <2> QED BY <2>7, <2>8
<1>14. Holding'
  <2>1. SUFFICES ASSUME NEW b \in Conv \ left'
                 PROVE  IF b = view.target THEN Own(b)' \subseteq view.draft.text
                        ELSE HeldByHost(b, Own(b), Edits(up, b))'
    BY DEF Holding
  <2>2. IF b = view.target THEN Own(b) \subseteq view.draft.text ELSE HeldByHost(b, Own(b), Edits(up, b))
    BY <1>5, <2>1 DEF Keeping, Holding
  <2>3. CASE b = view.target BY <1>4, <2>2, <2>3
  <2>4. CASE b # view.target /\ b # c BY <2>4, <2>2, <1>3, <1>4, <1>11 DEF HeldByHost, Stale
  <2>5. CASE b # view.target /\ b = c
    <3>1. taken BY <1>6, <2>1, <2>5 DEF Edited
    <3>2. PICK g \in Edits(up, c) : Own(c) \subseteq g.text /\ \A f \in Edits(up, c) : f.rev <= g.rev
      BY <2>2, <2>5, <1>2, <1>6, <3>1 DEF HeldByHost
    <3>3. Increasing(up, c) BY <1>5, <2>1, <2>5 DEF Keeping, QueuesSound
    <3>4. CASE g = e
      <4>1. Edits(up', c) = {}
        <5>1. \A f \in Edits(up', c) : f.rev > e.rev /\ f.rev <= e.rev /\ f.rev \in Nat
          BY <1>1, ViewMessageParts, <3>2, <3>4, <1>2, <3>3 DEF Edits, IsEdit, Draft
        <5> QED BY <5>1, <1>2 DEF Draft
      <4> QED BY <2>5, <4>1, <1>4, <1>11, <3>1, <3>2, <3>4 DEF HeldByHost
    <3>5. CASE g # e BY <1>4, <2>5, <3>2, <1>2, <3>5 DEF HeldByHost
    <3> QED BY <3>4, <3>5
  <2> QED BY <2>3, <2>4, <2>5
<1> QED BY <1>12, <1>13, <1>14 DEF Keeping

LEMMA HandlesKeeps ==
    ASSUME TypesSound, TypesSound', Keeping, ActiveComes, Handles
    PROVE  Keeping'
<1>1. up # <<>> /\ up' = Tail(up) /\ UNCHANGED <<native, view, typed>> BY DEF Handles
<1>2. up \in Seq(ViewMessages) /\ Head(up) \in ViewMessages /\ active \in Conv
  BY <1>1, TypeParts, TailFacts
<1>3. PICK m \in ViewMessages : m = Head(up) BY <1>2
<1>4. m.kind # "edit" =>
        \A b \in Conv : Edits(up', b) = Edits(up, b) /\ (Increasing(up, b) => Increasing(up', b))
  BY <1>1, <1>3, UpTaken
<1>5. CASE m.kind = "ready" /\ Ready /\ UNCHANGED <<fate, left>>
  <2>1. Telling(active, <<Hydration(active, drafts[active], stored[active])>>)
    BY <1>1, <1>2, <1>4, <1>5, SelectsTells DEF Ready
  <2> QED BY <1>2, <2>1, TellingKeeps
<1>6. CASE /\ m.kind = "activate" /\ UNCHANGED <<fate, left>>
           /\ IF m.conv = active THEN UNCHANGED <<host, down>> ELSE Selects(m.conv)
  <2>1. CASE m.conv = active BY <1>2, <1>1, <1>4, <1>6, <2>1, NoMessage, TellingKeeps DEF host, Gone
  <2>2. CASE m.conv # active
    <3>1. m.conv \in Conv BY <1>6, ViewMessageParts
    <3>2. Telling(m.conv, <<Hydration(m.conv, drafts[m.conv], stored[m.conv])>>)
      BY <1>1, <1>4, <1>6, <2>2, <3>1, SelectsTells
    <3> QED BY <3>1, <3>2, TellingKeeps
  <2> QED BY <2>1, <2>2
<1>7. CASE m.kind = "visible" /\ Shows(m.value) /\ UNCHANGED <<fate, left>>
  <2>1. Telling(active, <<[Hydration(active, drafts[active], stored[active]) EXCEPT !.visible = m.value]>>)
    BY <1>1, <1>4, <1>7, ViewMessageParts, ShowsTells
  <2> QED BY <1>2, <2>1, TellingKeeps
<1>8. CASE m.kind = "edit" /\ Edited(m.conv, m.draft)
  BY <1>1, <1>3, <1>8, ViewMessageParts, EditedKeeps DEF IsEdit
<1>9. CASE m.kind = "recall" /\ Recalled(m.conv, m)
  <2>1. m.conv \in Conv /\ m.rev \in Nat BY <1>9, ViewMessageParts
  <2>2. \E r : Telling(m.conv, r) BY <1>1, <1>4, <1>9, <2>1, RecalledTells
  <2> QED BY <2>1, <2>2, TellingKeeps
<1>10. CASE m.kind = "send" /\ Submitted(m.conv, m)
  <2>1. Gone' = Gone BY <1>10 DEF Submitted, Gone
  <2> QED BY <1>2, <1>1, <1>4, <1>10, <2>1, NoMessage, TellingKeeps DEF Submitted
<1> QED BY <1>3, <1>5, <1>6, <1>7, <1>8, <1>9, <1>10 DEF Handles

LEMMA UpStays ==
    ASSUME up' = up
    PROVE  \A b \in Conv : Edits(up', b) = Edits(up, b) /\ (Increasing(up, b) => Increasing(up', b))
OBVIOUS

LEMMA SwitchesTells ==
    ASSUME TypesSound, Switches
    PROVE  \E c \in Conv : /\ c # active /\ Selects(c)
                           /\ Telling(c, <<Hydration(c, drafts[c], stored[c])>>)
<1>1. PICK c \in Conv : c # active /\ Selects(c) BY DEF Switches
<1> QED BY <1>1, UpStays, SelectsTells DEF Switches, ghost

LEMMA SavesTells ==
    ASSUME TypesSound, NEW c \in Conv, Saves(c)
    PROVE  \/ /\ Telling(c, <<Status(c, drafts[c].rev, "saved")>>)
              /\ stored' = [stored EXCEPT ![c] = drafts[c]]
           \/ /\ Telling(c, <<Status(c, drafts[c].rev, "unsaved")>>)
              /\ stored' = stored
<1>1. drafts[c].rev \in Nat BY TypeParts DEF Draft
<1>2. UNCHANGED <<drafts, view, typed, left, native, up>> /\ Gone' = Gone BY DEF Saves, ghost, Gone
<1>3. PICK m, n : m = Status(c, drafts[c].rev, "saved") /\ n = Status(c, drafts[c].rev, "unsaved")
  OBVIOUS
<1>4. /\ m \in HostMessages /\ m.kind = "status" /\ m.conv = c /\ m.rev = drafts[c].rev
      /\ n \in HostMessages /\ n.kind = "status" /\ n.conv = c /\ n.rev = drafts[c].rev
  <2>1. m \in HostMessages /\ n \in HostMessages BY <1>1, <1>3, StatusType DEF Labels
  <2> QED BY <1>3, <2>1 DEF Status
<1>5. CASE stored' = [stored EXCEPT ![c] = drafts[c]] /\ down' = Append(down, m)
  BY <1>3, <1>5, <1>1, <1>2, <1>4, UpStays, OneStatus
<1>6. CASE stored' = stored /\ down' = Append(down, n)
  BY <1>3, <1>6, <1>1, <1>2, <1>4, UpStays, OneStatus
<1> QED BY <1>3, <1>5, <1>6 DEF Saves

LEMMA SendStartsTells ==
    ASSUME TypesSound, NEW c \in Conv, SendStarts(c)
    PROVE  \/ Telling(c, <<>>) /\ sends' = [sends EXCEPT ![c][1].step = "delivering"]
           \/ /\ Telling(c, <<Result(c, sends[c][1].id, "rejected")>>)
              /\ sends' = [sends EXCEPT ![c] = Tail(@)]
<1>1. UNCHANGED <<drafts, view, typed, left, native, up>> /\ Gone' = Gone
  BY DEF SendStarts, ghost, Gone
<1>2. sends[c][1].id \in Id
  <2>1. sends[c][1] \in Sendings BY TypeParts DEF SendStarts
  <2> QED BY <2>1 DEF Sendings
<1>3. PICK m : m = Result(c, sends[c][1].id, "rejected") OBVIOUS
<1>4. m \in HostMessages /\ m.kind = "result"
  <2>1. m \in HostMessages BY <1>2, <1>3, ResultType DEF Outcomes
  <2> QED BY <1>3, <2>1 DEF Result
<1>5. CASE sends' = [sends EXCEPT ![c][1].step = "delivering"] /\ UNCHANGED down
  BY <1>5, <1>1, UpStays, NoMessage
<1>6. CASE sends' = [sends EXCEPT ![c] = Tail(@)] /\ down' = Append(down, m)
  BY <1>3, <1>6, <1>1, <1>4, UpStays, OneStatus
<1> QED BY <1>3, <1>5, <1>6 DEF SendStarts

LEMMA SendEndsTells ==
    ASSUME TypesSound, NEW c \in Conv, NEW outcome \in Outcomes, SendEnds(c, outcome)
    PROVE  \/ Telling(c, <<>>) /\ sends' = [sends EXCEPT ![c][1].step = "clearing"]
           \/ /\ Telling(c, <<Result(c, sends[c][1].id, outcome)>>)
              /\ sends' = [sends EXCEPT ![c] = Tail(@)]
<1>1. UNCHANGED <<drafts, view, typed, left, native, up>> BY DEF SendEnds
<1>2. sends[c][1].id \in Id
  <2>1. sends[c][1] \in Sendings BY TypeParts DEF SendEnds
  <2> QED BY <2>1 DEF Sendings
<1>3. PICK m : m = Result(c, sends[c][1].id, outcome) OBVIOUS
<1>4. m \in HostMessages /\ m.kind = "result" BY <1>3, <1>2, ResultType DEF Result
<1>5. CASE /\ sends' = [sends EXCEPT ![c][1].step = "clearing"] /\ UNCHANGED down
           /\ Becomes("sent", sends[c][1].draft.text)
  BY <1>5, <1>1, GoneStays, UpStays, NoMessage DEF Fates
<1>6. CASE sends' = [sends EXCEPT ![c] = Tail(@)] /\ down' = Append(down, m) /\ UNCHANGED fate
  <2>1. Gone' = Gone BY <1>6 DEF Gone
  <2> QED BY <1>3, <1>6, <1>1, <1>4, <2>1, UpStays, OneStatus
<1> QED BY <1>3, <1>5, <1>6 DEF SendEnds

\* All that SendClears tells is of c, and the last of it is the result.
LEMMA SendClearsTells ==
    ASSUME TypesSound, TypesSound', WorkSound, NEW c \in Conv, SendClears(c), NEW r \in Seq(HostMessages),
           down' = down \o r, ClearsDraft(c, r) \/ LeavesDraft(c, r) \/ NotRecorded(c, r)
    PROVE  Telling(c, r)
<1>1. /\ drafts \in [Conv -> Draft] /\ drafts[c].rev \in Nat /\ sends[c] \in Seq(Sendings)
      /\ sends[c] # <<>> /\ sends[c][1].step = "clearing"
  BY TypeParts, SendClearsParts DEF Draft
<1>2. Past(c, sends[c][1].draft) /\ sends[c][1].draft.text \subseteq fate["sent"]
  BY <1>1 DEF SendsSound, WorkSound, WorkOf
<1>3. UNCHANGED <<active, view, typed, left, native, up, fate>> BY SendClearsParts DEF ghost
<1>4. Gone' = Gone /\ fate["sent"] \subseteq Gone BY <1>3 DEF Gone, Fates
<1>5. CASE ClearsDraft(c, r)
  <2>1. PICK draft \in Draft :
           /\ draft.rev = drafts[c].rev + 1 /\ draft.text = {}
           /\ drafts' = [drafts EXCEPT ![c] = draft]
           /\ \A i \in DOMAIN r :
                r[i] \in {Status(c, draft.rev, "saved"), Hydration(c, draft, draft),
                          Result(c, sends[c][1].id, "accepted")}
           /\ Hydrates(r) <=> c = active
    BY <1>5 DEF ClearsDraft
  <2>2. drafts'[c] = draft /\ \A b \in Conv \ {c} : drafts'[b] = drafts[b] BY <1>1, <2>1
  <2>3. Tells(r, c, drafts'[c]) BY <2>1, <2>2 DEF Tells, Status, Hydration, Result
  <2>4. \A j \in DOMAIN r : r[j].kind = "status" => r[j].conv = c /\ r[j].rev <= drafts'[c].rev
    BY <2>1, <2>2 DEF Status, Hydration, Result, Draft
  <2>5. Advances(c) BY <2>1, <2>2, <1>2, <1>4, <1>5 DEF Advances, ClearsDraft
  <2> QED BY <1>3, <1>4, <2>1, <2>2, <2>3, <2>4, <2>5, UpStays, TellingIntro
<1>6. CASE LeavesDraft(c, r)
  <2>1. PICK durable \in Draft \cup {None} :
           \A i \in DOMAIN r :
             r[i] \in {Hydration(c, drafts[c], durable), Result(c, sends[c][1].id, "accepted")}
    BY <1>6 DEF LeavesDraft
  <2>2. drafts' = drafts BY <1>6 DEF LeavesDraft
  <2>3. Tells(r, c, drafts'[c]) /\ \A j \in DOMAIN r : r[j].kind # "status"
    BY <2>1, <2>2 DEF Tells, Hydration, Result
  <2> QED BY <1>3, <1>4, <2>2, <2>3, UpStays, TellingIntro DEF Advances
<1>7. CASE NotRecorded(c, r)
  <2>1. /\ drafts' = drafts
        /\ \A i \in DOMAIN r :
             r[i] \in {Status(c, sends[c][1].draft.rev, "unsaved"), Result(c, sends[c][1].id, "accepted")}
    BY <1>7 DEF NotRecorded
  <2>2. \A j \in DOMAIN r : r[j].kind = "status" => r[j].conv = c /\ r[j].rev <= drafts'[c].rev
    BY <1>2, <2>1 DEF Status, Result, Past
  <2> QED BY <1>3, <1>4, <2>1, <2>2, UpStays, TellingIntro DEF Tells, Status, Result, Advances
<1> QED BY <1>5, <1>6, <1>7

LEMMA ImportSavesTells ==
    ASSUME TypesSound, WorkSound, NEW c \in Conv, ImportSaves(c)
    PROVE  \/ /\ Telling(c, <<Status(c, imports[c].draft.rev, "saved")>>)
              /\ stored' = [stored EXCEPT ![c] = imports[c].draft]
           \/ /\ Telling(c, <<Status(c, imports[c].draft.rev, "unsaved")>>)
              /\ stored' = stored
<1>1. imports[c] # None /\ Past(c, imports[c].draft)
  BY DEF ImportSaves, Importing, WorkSound, WorkOf, CopySound
<1>2. UNCHANGED <<drafts, view, typed, left, native, up>> /\ Gone' = Gone
  BY DEF ImportSaves, ghost, Gone
<1>3. PICK m, n : m = Status(c, imports[c].draft.rev, "saved") /\ n = Status(c, imports[c].draft.rev, "unsaved")
  OBVIOUS
<1>4. /\ m \in HostMessages /\ m.kind = "status" /\ m.conv = c /\ m.rev = imports[c].draft.rev
      /\ n \in HostMessages /\ n.kind = "status" /\ n.conv = c /\ n.rev = imports[c].draft.rev
  <2>1. m \in HostMessages /\ n \in HostMessages
    BY <1>1, TypeParts, <1>3, StatusType DEF Labels, Copies, Draft
  <2> QED BY <1>3, <2>1 DEF Status
<1>5. imports[c].draft.rev <= drafts[c].rev BY <1>1 DEF Past
<1>6. CASE stored' = [stored EXCEPT ![c] = imports[c].draft] /\ down' = Append(down, m)
  BY <1>3, <1>6, <1>2, <1>4, <1>5, UpStays, OneStatus
<1>7. CASE stored' = stored /\ down' = Append(down, n)
  BY <1>3, <1>7, <1>2, <1>4, <1>5, UpStays, OneStatus
<1> QED BY <1>3, <1>6, <1>7 DEF ImportSaves

LEMMA ImportReadsTells ==
    ASSUME TypesSound, TypesSound', WorkSound, NEW c \in Conv, ImportReads(c)
    PROVE  \/ Telling(c, <<>>) /\ UNCHANGED <<down, drafts>> /\ imports' = [imports EXCEPT ![c] = None]
           \/ \E status, hydration \in HostMessages :
                /\ Telling(c, <<status>> \o <<hydration>>)
                /\ status = Status(c, drafts'[c].rev, "saving")
                /\ hydration = Hydration(c, drafts'[c], stored[c])
                /\ c = active /\ Importing(c, "saving")'
<1>1. /\ drafts \in [Conv -> Draft] /\ native \in [Conv -> Text] /\ down \in Seq(HostMessages)
      /\ TypeOK /\ imports \in [Conv -> {None} \cup Copies] /\ drafts[c].rev \in Nat
  BY TypeParts DEF Draft
<1>2. UNCHANGED <<active, view, typed, left, native, up, fate>> /\ Gone' = Gone
  BY DEF ImportReads, ghost, Gone
<1>3. CASE ImportOver(c) /\ UNCHANGED <<drafts, down>>
  BY <1>2, <1>3, UpStays, NoMessage DEF ImportOver
<1>4. CASE ~(imports[c].stale \/ native[c] = {} \/ drafts[c] # imports[c].draft)
  <2>1. PICK new : new = [rev |-> drafts[c].rev + 1, text |-> native[c]] OBVIOUS
  <2>2. new \in Draft /\ new.rev \in Nat /\ new.rev = drafts[c].rev + 1 BY <2>1, <1>1 DEF Draft
  <2>3. PICK status, hydration : status = Status(c, new.rev, "saving") /\ hydration = Hydration(c, new, stored[c])
    OBVIOUS
  <2>4. status \in HostMessages /\ hydration \in HostMessages
    BY <1>1, <2>2, <2>3, StatusType, HydrationType DEF Labels
  <2>5. PICK r : r = <<status>> \o <<hydration>> OBVIOUS
  <2>6. /\ r \in Seq(HostMessages) /\ DOMAIN r = {1, 2} /\ r[1] = status /\ r[2] = hydration
    BY <2>4, <2>5, TwoMessages
  <2>7. /\ drafts' = [drafts EXCEPT ![c] = new] /\ down' = down \o <<status, hydration>>
        /\ imports' = [imports EXCEPT ![c].step = "saving", ![c].draft = new]
    BY <1>4, <2>1, <2>3 DEF ImportReads
  <2>8. down' = down \o r
    <3>1. <<status, hydration>> = r
      <4>1. Len(r) = 2 BY <2>5
      <4> QED BY <2>4, <2>6, TwoMessages, <4>1
    <3> QED BY <2>7, <3>1
  <2>9. drafts'[c] = new /\ \A b \in Conv \ {c} : drafts'[b] = drafts[b] BY <1>1, <2>7
  <2>10. /\ status.kind = "status" /\ status.conv = c /\ status.rev = new.rev
         /\ hydration.kind = "hydrate" /\ hydration.conv = c /\ hydration.draft = new
    BY <2>3 DEF Status, Hydration
  <2>11. Tells(r, c, drafts'[c]) /\ Hydrates(r) BY <2>6, <2>9, <2>10 DEF Tells, Hydrates
  <2>12. \A j \in DOMAIN r : r[j].kind = "status" => r[j].conv = c /\ r[j].rev <= drafts'[c].rev
    BY <2>2, <2>6, <2>9, <2>10
  <2>13. Importing(c, "reading") BY DEF ImportReads
  <2>14. drafts[c].text = {} /\ c = active
    BY <1>4, <2>13 DEF ImportSound, Importing, WorkSound, WorkOf
  <2>15. Advances(c) BY <2>2, <2>9, <2>14 DEF Advances
  <2>16. Telling(c, r) BY <1>2, <2>6, <2>8, <2>9, <2>11, <2>12, <2>15, UpStays, TellingIntro
  <2>17. imports[c] # None /\ imports[c] \in Copies BY <1>1, <2>13 DEF Importing
  <2>18. imports'[c] = [imports[c] EXCEPT !.step = "saving", !.draft = new] BY <1>1, <2>7
  <2>19. imports'[c] # None
    <3>1. imports'[c] \in Copies BY <2>2, <2>17, <2>18 DEF Copies
    <3> QED BY <3>1, NoneAssumption
  <2> QED BY <2>3, <2>4, <2>5, <2>9, <2>14, <2>16, <2>17, <2>18, <2>19 DEF Importing, Copies
<1> QED BY <1>3, <1>4 DEF ImportReads

\* Only what the view need not hold, or holds, comes out of Claude's box.
LEMMA BoxKeeps ==
    ASSUME TypesSound, Keeping, UNCHANGED <<drafts, up, down, view, left>>, Gone \subseteq Gone',
           \A b \in Conv : Own(b)' \subseteq Own(b) \cup (IF b = view.target THEN view.draft.text ELSE {})
    PROVE  Keeping'
<1>1. Following'
  <2>1. SUFFICES ASSUME view.target # None, view.target \notin left
                 PROVE  Follows(view.draft, drafts[view.target], Edits(up, view.target),
                                Told(down, view.target), Stays(down, view.target), Gone')
    BY DEF Following
  <2>2. PICK b, x, d, edits, told, gone, goneNow :
          /\ b = view.target /\ x = view.draft /\ d = drafts[b] /\ edits = Edits(up, b)
          /\ told = Told(down, b) /\ gone = Gone /\ goneNow = Gone'
    OBVIOUS
  <2>3. PICK stays \in BOOLEAN : stays = Stays(down, b)
    <3>1. Stays(down, b) \in BOOLEAN BY DEF Stays
    <3> QED BY <3>1
  <2> QED BY <2>2, <2>3, <2>1, FollowsStill DEF Keeping, Following
<1>2. Holding'
  <2>1. SUFFICES ASSUME NEW b \in Conv \ left
                 PROVE  IF b = view.target THEN Own(b)' \subseteq view.draft.text
                        ELSE HeldByHost(b, Own(b), Edits(up, b))'
    BY DEF Holding
  <2>2. IF b = view.target THEN Own(b) \subseteq view.draft.text ELSE HeldByHost(b, Own(b), Edits(up, b))
    BY <2>1 DEF Keeping, Holding
  <2>3. CASE b = view.target BY <2>2, <2>3
  <2>4. CASE b # view.target BY <2>4, <2>2 DEF HeldByHost, Stale
  <2> QED BY <2>3, <2>4
<1> QED BY <1>1, <1>2 DEF Keeping, QueuesSound, Past

LEMMA ImportClearsKeeps ==
    ASSUME TypesSound, Keeping, NEW c \in Conv, ImportClears(c)
    PROVE  Keeping'
<1>1. UNCHANGED <<drafts, up, down, view, left, typed>> /\ native \in [Conv -> Text]
  BY TypeParts DEF ImportClears
<1> DEFINE seen == IF view.target = c THEN view.draft.text \cap drafts[c].text ELSE {}
<1>2. CASE /\ native[c] = imports[c].draft.text /\ native' = [native EXCEPT ![c] = {}]
           /\ Becomes("crossed", imports[c].draft.text \ seen)
  <2>1. Gone \subseteq Gone' /\ native[c] \ seen \subseteq Gone' BY <1>2, GoneStays DEF Fates
  <2>2. native'[c] = {} /\ \A b \in Conv \ {c} : native'[b] = native[b] BY <1>1, <1>2
  <2>3. ASSUME NEW b \in Conv
        PROVE  Own(b)' \subseteq Own(b) \cup (IF b = view.target THEN view.draft.text ELSE {})
    <3>1. CASE b # c BY <1>1, <2>1, <2>2, <3>1 DEF Own
    <3>2. CASE b = c BY <3>2, <1>1, <2>1, <2>2 DEF Own
    <3> QED BY <3>1, <3>2
  <2> QED BY <1>1, <2>1, <2>3, BoxKeeps
<1>3. CASE UNCHANGED <<native, fate>> BY <1>1, <1>3, BoxKeeps DEF Gone, Own
<1> QED BY <1>2, <1>3 DEF ImportClears

LEMMA TypesNativeKeeps ==
    ASSUME TypesSound, Keeping, TypesNative
    PROVE  Keeping'
<1>1. UNCHANGED <<drafts, up, down, view, left, fate>> /\ native \in [Conv -> Text] /\ typed \in Seq(Conv)
  BY TypeParts DEF TypesNative, host
<1>2. PICK c \in Conv : native' = [native EXCEPT ![c] = @ \cup {Len(typed) + 1}] /\ typed' = Append(typed, c)
  BY DEF TypesNative
<1>3. Gone' = Gone BY <1>1 DEF Gone
<1>4. native'[c] = native[c] \cup {Len(typed) + 1} /\ \A b \in Conv \ {c} : native'[b] = native[b]
  BY <1>1, <1>2
<1>5. ASSUME NEW b \in Conv PROVE Own(b)' \subseteq Own(b)
  <2>1. SUFFICES ASSUME NEW p \in DOMAIN typed', typed'[p] = b, p \notin native'[b], p \notin Gone'
                 PROVE  p \in DOMAIN typed /\ typed[p] = b /\ p \notin native[b] /\ p \notin Gone
    BY DEF Own
  <2> QED BY <1>3, <1>4, <2>1, <1>1, <1>2
<1> QED BY <1>1, <1>3, <1>5, BoxKeeps

\* Whatever the host does keeps the queues, the view and the text.
HostSteps ==
    \/ Handles \/ Switches \/ TypesNative
    \/ \E c \in Conv :
         \/ Saves(c) \/ SendStarts(c) \/ SendClears(c)
         \/ \E outcome \in Outcomes : SendEnds(c, outcome)
         \/ ImportReads(c) \/ ImportSaves(c) \/ ImportClears(c)

LEMMA HostKeeps ==
    ASSUME TypesSound, TypesSound', WorkSound, Keeping, ActiveComes, HostSteps
    PROVE  Keeping'
<1>1. CASE Handles BY <1>1, HandlesKeeps
<1>2. CASE Switches BY <1>2, SwitchesTells, TellingKeeps
<1>3. CASE TypesNative BY <1>3, TypesNativeKeeps
<1>4. ASSUME NEW c \in Conv, Saves(c) PROVE Keeping'
  <2>1. \E r : Telling(c, r) BY <1>4, SavesTells
  <2> QED BY <2>1, TellingKeeps
<1>5. ASSUME NEW c \in Conv, SendStarts(c) PROVE Keeping'
  <2>1. \E r : Telling(c, r) BY <1>5, SendStartsTells
  <2> QED BY <2>1, TellingKeeps
<1>6. ASSUME NEW c \in Conv, SendClears(c) PROVE Keeping'
  <2>1. PICK r \in Seq(HostMessages) :
          down' = down \o r /\ (ClearsDraft(c, r) \/ LeavesDraft(c, r) \/ NotRecorded(c, r))
    BY <1>6, SendClearsParts
  <2> QED BY <1>6, <2>1, SendClearsTells, TellingKeeps
<1>7. ASSUME NEW c \in Conv, NEW outcome \in Outcomes, SendEnds(c, outcome) PROVE Keeping'
  <2>1. \E r : Telling(c, r) BY <1>7, SendEndsTells
  <2> QED BY <2>1, TellingKeeps
<1>8. ASSUME NEW c \in Conv, ImportReads(c) PROVE Keeping'
  <2>1. \E r : Telling(c, r) BY <1>8, ImportReadsTells
  <2> QED BY <2>1, TellingKeeps
<1>9. ASSUME NEW c \in Conv, ImportSaves(c) PROVE Keeping'
  <2>1. \E r : Telling(c, r) BY <1>9, ImportSavesTells
  <2> QED BY <2>1, TellingKeeps
<1>10. ASSUME NEW c \in Conv, ImportClears(c) PROVE Keeping' BY <1>10, ImportClearsKeeps
<1> QED BY <1>1, <1>2, <1>3, <1>4, <1>5, <1>6, <1>7, <1>8, <1>9, <1>10 DEF HostSteps

--------------------
(* Steps of the host: that the view and the host will agree *)

LEMMA AddedComes ==
    ASSUME TypesSound, ActiveComes, NEW r \in Seq(HostMessages), down' = down \o r, view' = view,
           \/ active' = active /\ \A i \in DOMAIN r : r[i].kind = "hydrate" => r[i].conv = active
           \/ r # <<>> /\ r[Len(r)].kind = "hydrate" /\ r[Len(r)].conv = active',
           Has(up, OfKinds({"ready"})) => Has(up', OfKinds({"ready"})) \/ Hydrates(r)
    PROVE  ActiveComes'
<1>1. down \in Seq(HostMessages) BY TypeParts
<1>2. PICK all, good, now :
        all = Hydrations /\ good = OfActive /\ now = {m \in Hydrations : m.conv = active'}
  OBVIOUS
<1>3. \A i \in DOMAIN r : r[i] \in HostMessages OBVIOUS
<1>4. r # <<>> => Len(r) \in DOMAIN r OBVIOUS
<1>5. CASE active' = active /\ \A i \in DOMAIN r : r[i].kind = "hydrate" => r[i].conv = active
  <2>1. now = good BY <1>2, <1>5 DEF OfActive
  <2>2. view.target = None => Has(down', all) \/ Has(up', OfKinds({"ready"}))
    <3>1. Hydrates(r) => Has(r, all) BY <1>2, <1>3 DEF Hydrates, Has, Hydrations
    <3> QED BY <1>1, <1>2, <3>1, HasConcat DEF ActiveComes
  <2> QED
    BY <1>2, <1>5, <2>1, MendedConcat, <1>1, HasConcat, <2>2 DEF ActiveComes, OfActive, Hydrations
<1>6. CASE r # <<>> /\ r[Len(r)].kind = "hydrate" /\ r[Len(r)].conv = active'
  <2>1. r[Len(r)] \in now /\ r[Len(r)] \in all BY <1>2, <1>3, <1>4, <1>6 DEF Hydrations
  <2>2. Has(r, now) /\ Has(r, all) BY <1>4, <1>6, <2>1 DEF Has
  <2> QED BY <1>2, <1>6, <2>1, MendedByLast, <1>1, <2>2, HasConcat DEF ActiveComes, OfActive
<1> QED BY <1>5, <1>6

LEMMA AddedVisible ==
    ASSUME TypesSound, VisibleComes, NEW r \in Seq(HostMessages), down' = down \o r, view' = view,
           \/ visible' = visible /\ \A i \in DOMAIN r : r[i].kind = "hydrate" => r[i].visible = visible
           \/ r # <<>> /\ r[Len(r)].kind = "hydrate" /\ r[Len(r)].visible = visible',
           \/ r # <<>> /\ r[Len(r)].kind = "hydrate"
           \/ Has(up, OfKinds({"ready", "visible"})) => Has(up', OfKinds({"ready", "visible"}))
    PROVE  VisibleComes'
<1>1. down \in Seq(HostMessages) BY TypeParts
<1>2. PICK all, good, now :
        all = Hydrations /\ good = AsVisible /\ now = {m \in Hydrations : m.visible = visible'}
  OBVIOUS
<1>3. r # <<>> => Len(r) \in DOMAIN r OBVIOUS
<1>4. CASE r # <<>> /\ r[Len(r)].kind = "hydrate" /\ r[Len(r)].visible = visible'
  <2>1. r[Len(r)] \in now BY <1>2, <1>3, <1>4 DEF Hydrations
  <2>2. Has(r, now) BY <1>3, <1>4, <2>1 DEF Has
  <2> QED BY <1>2, <1>1, <1>4, <2>1, MendedByLast, <2>2, HasConcat DEF VisibleComes, AsVisible
<1>5. CASE /\ visible' = visible /\ \A i \in DOMAIN r : r[i].kind = "hydrate" => r[i].visible = visible
           /\ ~(r # <<>> /\ r[Len(r)].kind = "hydrate" /\ r[Len(r)].visible = visible')
  <2>1. now = good BY <1>2, <1>5 DEF AsVisible
  <2>2. Has(down, good) => Has(down', good) BY <1>1, HasConcat
  <2> QED
    BY <1>2, <1>5, <2>1, <1>1, MendedConcat, <2>2, <1>3 DEF VisibleComes, AsVisible, Hydrations
<1> QED BY <1>4, <1>5

LEMMA StaysConcat ==
    ASSUME TypesSound, NEW r \in Seq(HostMessages), down' = down \o r, NEW c, Stays(down', c)
    PROVE  Stays(down, c)
<1>1. \A j \in DOMAIN down : j \in DOMAIN down' /\ down'[j] = down[j] BY TypeParts, ConcatFacts
<1> QED BY <1>1 DEF Stays

LEMMA AddedAnswers ==
    ASSUME TypesSound, ActiveComes, PendingAnswered, NEW r \in Seq(HostMessages), down' = down \o r,
           view' = view,
           \A id \in Id : Has(up, Questions(active, id)) =>
                 Has(up', Questions(active, id)) \/ Has(sends'[active], Sent(id)),
           \A c \in Conv : \A id \in Id :
              Has(sends[c], Sent(id)) => Has(sends'[c], Sent(id)) \/ Has(r, Answers(c, id))
    PROVE  PendingAnswered'
<1>1. SUFFICES ASSUME view.pending # None
               PROVE  /\ view.target # None
                      /\ \/ ~Stays(down', view.target)
                         \/ Has(up', Questions(view.target, view.pending))
                         \/ Has(sends'[view.target], Sent(view.pending))
                         \/ Has(down', Answers(view.target, view.pending))
  BY DEF PendingAnswered, Questions, Sent, Answers
<1>2. view.target # None /\ view.target \in Conv /\ view.pending \in Id
  BY <1>1, ViewParts DEF PendingAnswered
<1>3. SUFFICES ASSUME Stays(down', view.target)
               PROVE  \/ Has(up', Questions(view.target, view.pending))
                      \/ Has(sends'[view.target], Sent(view.pending))
                      \/ Has(down', Answers(view.target, view.pending))
  BY <1>2
<1>4. Stays(down, view.target) BY <1>3, StaysConcat
<1>5. down \in Seq(HostMessages) BY TypeParts
<1>6. CASE Has(up, Questions(view.target, view.pending)) BY <1>2, <1>4, StaysActive, <1>6
<1>7. CASE Has(sends[view.target], Sent(view.pending))
  <2>1. Has(r, Answers(view.target, view.pending)) => Has(down', Answers(view.target, view.pending))
    BY <1>5, HasConcat
  <2> QED BY <1>2, <1>7, <2>1
<1>8. CASE Has(down, Answers(view.target, view.pending)) BY <1>5, <1>8, HasConcat
<1> QED BY <1>1, <1>4, <1>6, <1>7, <1>8 DEF PendingAnswered

\* How the host leaves the labels of b right.
LabelledNext(b, r) ==
    \/ ~Written(b)'
    \/ /\ Written(b) /\ drafts'[b] = drafts[b] /\ stored'[b] \in {stored[b], drafts[b]}
       /\ \A i \in DOMAIN r : r[i] \notin (Labelling(b) \ LabellingTruly(b))'
    \/ /\ Mended(down', Labelling(b)' \ LabellingTruly(b)', LabellingTruly(b)')
       /\ Has(down', LabellingTruly(b)')

LEMMA AddedLabels ==
    ASSUME TypesSound, LabelsSound, NEW r \in Seq(HostMessages), down' = down \o r, view' = view,
           left \subseteq left', \A b \in Conv : LabelledNext(b, r)
    PROVE  LabelsSound'
<1>1. down \in Seq(HostMessages) BY TypeParts
<1>2. ASSUME NEW b \in Conv, Written(b)'
      PROVE  /\ Mended(down', Labelling(b)' \ LabellingTruly(b)', LabellingTruly(b)')
             /\ view.target = b /\ b \notin left' /\ Stays(down', b) /\ view.draft = drafts'[b] =>
                  TrueLabel(b, view.label)' \/ Has(down', LabellingTruly(b)')
  <2>1. CASE /\ Written(b) /\ drafts'[b] = drafts[b] /\ stored'[b] \in {stored[b], drafts[b]}
             /\ \A i \in DOMAIN r : r[i] \notin (Labelling(b) \ LabellingTruly(b))'
    <3>1. PICK all, allNow, good, now :
            /\ all = Labelling(b) /\ allNow = Labelling(b)'
            /\ good = LabellingTruly(b) /\ now = LabellingTruly(b)'
      OBVIOUS
    <3>2. allNow = all BY <2>1, <3>1 DEF Labelling
    <3>3. good \subseteq now BY <3>1, <3>2, <2>1 DEF LabellingTruly, TrueLabel
    <3>4. Mended(down, all \ good, good) BY <2>1, <3>1 DEF LabelsSound
    <3>5. Mended(down', allNow \ now, now) BY <1>1, <2>1, <3>1, <3>4, <3>2, <3>3, MendedConcat
    <3>6. ASSUME view.target = b, b \notin left', Stays(down', b), view.draft = drafts'[b]
          PROVE  TrueLabel(b, view.label)' \/ Has(down', now)
      <4>1. TrueLabel(b, view.label) \/ Has(down, good)
        BY <2>1, <3>1, <3>6, StaysConcat, NoneAssumption DEF LabelsSound
      <4>2. CASE TrueLabel(b, view.label) BY <2>1, <4>2 DEF TrueLabel
      <4>3. CASE Has(down, good) BY <1>1, <3>3, <4>3, HasConcat DEF Has
      <4> QED BY <4>1, <4>2, <4>3
    <3> QED BY <3>1, <3>5, <3>6
  <2>2. CASE /\ Mended(down', Labelling(b)' \ LabellingTruly(b)', LabellingTruly(b)')
             /\ Has(down', LabellingTruly(b)')
    BY <2>2
  <2> QED BY <1>2, <2>1, <2>2 DEF LabelledNext
<1>3. ASSUME view.target # None, view.target \notin left', Stays(down', view.target),
             Written(view.target)', view.draft = drafts'[view.target]
      PROVE  TrueLabel(view.target, view.label)' \/ Has(down', LabellingTruly(view.target)')
  <2>1. PICK b \in Conv : b = view.target BY <1>3, ViewParts
  <2> QED BY <1>2, <1>3, <2>1
<1> QED BY <1>2, <1>3 DEF LabelsSound

LEMMA AddedAgrees ==
    ASSUME TypesSound, Agreeing, NEW r \in Seq(HostMessages), down' = down \o r, view' = view,
           left \subseteq left', UNCHANGED <<active, visible>>,
           \A i \in DOMAIN r : r[i].kind = "hydrate" => r[i].conv = active /\ r[i].visible = visible,
           Has(up, OfKinds({"ready"})) => Has(up', OfKinds({"ready"})),
           Has(up, OfKinds({"ready", "visible"})) => Has(up', OfKinds({"ready", "visible"})),
           \A id \in Id : Has(up, Questions(active, id)) =>
                 Has(up', Questions(active, id)) \/ Has(sends'[active], Sent(id)),
           \A c \in Conv : \A id \in Id :
              Has(sends[c], Sent(id)) => Has(sends'[c], Sent(id)) \/ Has(r, Answers(c, id)),
           \A b \in Conv : LabelledNext(b, r)
    PROVE  Agreeing'
<1>1. ActiveComes' BY AddedComes DEF Agreeing
<1>2. VisibleComes' BY AddedVisible DEF Agreeing
<1>3. LabelsSound' BY AddedLabels DEF Agreeing
<1> QED BY <1>1, <1>2, AddedAnswers, <1>3 DEF Agreeing

\* Of a draft that stays, and is not about to be written, only the truth is told.
LEMMA SameLabels ==
    ASSUME NEW b, NEW r, Written(b)' => Written(b), drafts'[b] = drafts[b],
           stored'[b] \in {stored[b], drafts[b]},
           \A i \in DOMAIN r : r[i].conv # b \/ r[i].kind = "result" \/ TrueLabel(b, r[i].label)'
    PROVE  LabelledNext(b, r)
<1>1. ASSUME NEW i \in DOMAIN r, r[i] \in Labelling(b)' PROVE r[i] \in LabellingTruly(b)'
  BY <1>1 DEF LabellingTruly, Labelling, Hydrations
<1> QED BY <1>1 DEF LabelledNext

LEMMA HydrationTrue ==
    ASSUME NEW c, NEW draft, NEW durable
    PROVE  /\ Hydration(c, draft, durable).label # "saving"
           /\ Hydration(c, draft, durable).label = "saved" => durable = draft
           /\ Hydration(c, draft, durable).kind = "hydrate" /\ Hydration(c, draft, durable).conv = c
           /\ Hydration(c, draft, durable).visible = visible
           /\ Hydration(c, draft, durable).draft = draft
           /\ \A value : LET h == [Hydration(c, draft, durable) EXCEPT !.visible = value]
                         IN  /\ h.label # "saving" /\ (h.label = "saved" => durable = draft)
                             /\ h.kind = "hydrate" /\ h.conv = c /\ h.visible = value
                             /\ h.draft = draft
BY DEF Hydration

\* A message that is taken is no longer in the queue, the others are.
LEMMA UpHas ==
    ASSUME TypesSound, up # <<>>, up' = Tail(up), NEW good, Head(up) \notin good
    PROVE  Has(up, good) => Has(up', good)
<1> QED BY TypeParts, HasTail

\* An import that is being saved goes on being saved, up to date or not.
LEMMA SavingStays ==
    ASSUME TypesSound, NEW c \in Conv, NEW b \in Conv, NEW shown, NEW before \in {imports, OutOfDate},
           imports' = Imports(c, shown, before) \/ imports' = OutOfDate, UNCHANGED saving,
           Written(b)'
    PROVE  Written(b)
<1>1. imports \in [Conv -> {None} \cup Copies] BY TypeParts
<1>2. SUFFICES ASSUME Importing(b, "saving") PROVE imports'[b] # None /\ imports'[b].step = "saving"
  BY DEF Written, Importing
<1>3. imports[b] # None /\ imports[b] \in Copies /\ imports[b].step = "saving"
  BY <1>1, <1>2 DEF Importing
<1>4. OutOfDate[b] = [imports[b] EXCEPT !.stale = TRUE] BY <1>3 DEF OutOfDate
<1>5. OutOfDate[b] \in Copies /\ OutOfDate[b].step = "saving" BY <1>3, <1>4 DEF Copies
<1>6. before[b] \in Copies /\ before[b].step = "saving" /\ before[b] # None
  BY <1>3, <1>5, NoneAssumption
<1>7. before \in [Conv -> {None} \cup Copies] BY <1>1, ImportsType, <1>6
<1> QED BY <1>5, <1>6, <1>7, NoneAssumption DEF Imports

\* The host tells the session it selects, or shows, its draft.
LEMMA SelectsAgrees ==
    ASSUME TypesSound, Agreeing, NEW c \in Conv, Selects(c), UNCHANGED <<view, left>>,
           \A id \in Id : Has(up, Questions(active, id)) => Has(up', Questions(active, id))
    PROVE  Agreeing'
<1>1. PICK h : h = Hydration(c, drafts[c], stored[c]) OBVIOUS
<1>2. h.kind = "hydrate" /\ h.conv = c /\ h.visible = visible /\ TrueLabel(c, h.label)
  BY <1>1, HydrationTrue DEF TrueLabel
<1>3. PICK r : r = <<h>> OBVIOUS
<1>4. r \in Seq(HostMessages) /\ down' = down \o r
  BY TypeParts, <1>1, HydrationType, <1>3, AppendFacts DEF Selects
<1>5. r # <<>> /\ Len(r) = 1 /\ DOMAIN r = {1} /\ r[1] = h BY <1>3, OneMessage
<1>6. active' = c /\ visible' = visible /\ UNCHANGED <<drafts, stored, saving, sends>>
  BY DEF Selects
<1>7. ActiveComes' BY <1>2, <1>4, <1>5, <1>6, AddedComes DEF Agreeing, Hydrates
<1>8. \A b \in Conv : LabelledNext(b, r)
  <2>1. ASSUME NEW b \in Conv PROVE LabelledNext(b, r)
    BY <1>6, SavingStays, <1>2, <1>5, SameLabels DEF TrueLabel, Selects
  <2> QED BY <2>1
<1> QED BY <1>7, <1>2, <1>5, AddedVisible, <1>4, <1>6, AddedAnswers, <1>8, AddedLabels DEF Agreeing

LEMMA ShowsAgrees ==
    ASSUME TypesSound, Agreeing, NEW value \in BOOLEAN, Shows(value), UNCHANGED <<view, left>>,
           Has(up, OfKinds({"ready"})) => Has(up', OfKinds({"ready"})),
           \A id \in Id : Has(up, Questions(active, id)) => Has(up', Questions(active, id))
    PROVE  Agreeing'
<1>1. active \in Conv /\ drafts[active] \in Draft /\ TypeOK /\ down \in Seq(HostMessages)
  BY TypeParts
<1>2. PICK h : h = [Hydration(active, drafts[active], stored[active]) EXCEPT !.visible = value]
  OBVIOUS
<1>3. h \in HostMessages BY <1>1, <1>2, HydrationType
<1>4. h.kind = "hydrate" /\ h.conv = active /\ h.visible = value /\ TrueLabel(active, h.label)
  BY <1>2, HydrationTrue DEF TrueLabel
<1>5. PICK r : r = <<h>> OBVIOUS
<1>6. r \in Seq(HostMessages) /\ down' = down \o r BY <1>1, <1>2, <1>3, <1>5, AppendFacts DEF Shows
<1>7. r # <<>> /\ Len(r) = 1 /\ DOMAIN r = {1} /\ r[1] = h BY <1>5, OneMessage
<1>8. active' = active /\ visible' = value /\ UNCHANGED <<drafts, stored, saving, sends>>
  BY DEF Shows
<1>9. ActiveComes' BY <1>4, <1>6, <1>7, <1>8, AddedComes DEF Agreeing
<1>10. \A b \in Conv : LabelledNext(b, r)
  <2>1. ASSUME NEW b \in Conv PROVE LabelledNext(b, r)
    <3>1. PICK before \in {imports, OutOfDate} : imports' = Imports(active, value, before)
      BY DEF Shows
    <3> QED BY <1>8, <1>1, <3>1, SavingStays, <1>4, <1>7, SameLabels DEF TrueLabel
  <2> QED BY <2>1
<1>11. LabelsSound' BY <1>6, <1>10, AddedLabels DEF Agreeing
<1> QED BY <1>9, <1>4, <1>7, AddedVisible, <1>6, <1>8, AddedAnswers, <1>11 DEF Agreeing

\* What is taken of the queue, as the questions of what follows.
UpKeeps ==
    /\ Has(up, OfKinds({"ready"})) => Has(up', OfKinds({"ready"}))
    /\ Has(up, OfKinds({"ready", "visible"})) => Has(up', OfKinds({"ready", "visible"}))
    /\ \A c \in Conv : \A id \in Id : Has(up, Questions(c, id)) => Has(up', Questions(c, id))

LEMMA UpKept ==
    ASSUME TypesSound, up # <<>>, up' = Tail(up), Head(up).kind \notin {"ready", "visible", "send"}
    PROVE  UpKeeps
<1> QED BY UpHas DEF UpKeeps, OfKinds, Questions

\* A draft that is changed is about to be written; nothing is told of others.
LEMMA UpdatedAgrees ==
    ASSUME TypesSound, Agreeing, NEW c \in Conv, NEW r \in Seq(HostMessages), down' = down \o r,
           UNCHANGED <<view, stored, active, visible, sends, imports>>, left \subseteq left',
           UpKeeps, c \in saving', \A b \in Conv \ {c} : drafts'[b] = drafts[b] /\ (b \in saving => b \in saving'),
           \A i \in DOMAIN r : r[i].conv = c,
           \A i \in DOMAIN r : r[i].kind = "hydrate" => r[i].conv = active /\ r[i].visible = visible
    PROVE  Agreeing'
<1>1. ASSUME NEW b \in Conv PROVE LabelledNext(b, r)
  <2>1. CASE b = c BY <2>1 DEF LabelledNext, Written
  <2>2. CASE b # c BY <2>2, SameLabels DEF Written, Importing
  <2> QED BY <2>1, <2>2
<1>2. active \in Conv BY TypeParts
<1> QED BY <1>1, <1>2, AddedAgrees DEF UpKeeps

\* Nothing is changed that has to do with what the view is told.
LEMMA NothingAgrees ==
    ASSUME TypesSound, Agreeing, down' = down,
           UNCHANGED <<view, drafts, stored, active, visible, sends>>, left \subseteq left', UpKeeps,
           \A b \in Conv : Written(b)' => Written(b)
    PROVE  Agreeing'
<1>1. down \in Seq(HostMessages) /\ active \in Conv BY TypeParts
<1>2. PICK r \in Seq(HostMessages) : r = <<>>
  <2>1. <<>> \in Seq(HostMessages) OBVIOUS
  <2> QED BY <2>1
<1>3. down' = down \o r /\ DOMAIN r = {} BY <1>1, <1>2
<1>4. \A b \in Conv : LabelledNext(b, r) BY <1>3, SameLabels
<1> QED BY <1>1, <1>3, <1>4, AddedAgrees DEF UpKeeps

LEMMA EditedAgrees ==
    ASSUME TypesSound, Agreeing, NEW c \in Conv, NEW e \in Draft, Edited(c, e), UpKeeps, view' = view
    PROVE  Agreeing'
<1>1. UNCHANGED <<stored, active, visible, sends, recent, imports>> /\ left \subseteq left'
  BY DEF Edited
<1>2. CASE UNCHANGED <<drafts, saving, down>> BY <1>1, <1>2, NothingAgrees DEF Written, Importing
<1>3. CASE Updates(c, e, <<>>)
  <2>1. e.rev \in Nat /\ down \in Seq(HostMessages) /\ drafts \in [Conv -> Draft]
    BY TypeParts DEF Draft
  <2>2. PICK m \in HostMessages : m = Status(c, e.rev, "saving") BY <2>1, StatusType DEF Labels
  <2>3. PICK r : r = <<m>> OBVIOUS
  <2>4. r \in Seq(HostMessages) /\ down' = down \o r /\ DOMAIN r = {1} /\ r[1] = m
    <3>1. r \in Seq(HostMessages) BY <2>3
    <3> QED BY <2>3, <3>1, <1>3, <2>2, <2>1, OneMessage DEF Updates
  <2>5. c \in saving' /\ \A b \in Conv \ {c} : drafts'[b] = drafts[b] /\ (b \in saving => b \in saving')
    BY <1>3, <2>1 DEF Updates
  <2> QED BY <1>1, <2>2, <2>4, <2>5, UpdatedAgrees DEF Status
<1> QED BY <1>2, <1>3 DEF Edited

LEMMA RecalledAgrees ==
    ASSUME TypesSound, Agreeing, NEW c \in Conv, NEW m, m.rev \in Nat, Recalled(c, m),
           UNCHANGED <<view, typed, native>>, UpKeeps,
           \A b \in Conv : Edits(up', b) = Edits(up, b) /\ (Increasing(up, b) => Increasing(up', b))
    PROVE  Agreeing'
<1>1. UNCHANGED <<stored, active, visible, sends, imports, left>> BY DEF Recalled
<1>2. CASE Telling(c, <<>>) /\ UNCHANGED <<down, drafts, saving>>
  BY <1>1, <1>2, NothingAgrees DEF Written, Importing
<1>3. CASE \E status, hydration \in HostMessages :
             /\ Telling(c, <<status>> \o <<hydration>>)
             /\ status = Status(c, drafts'[c].rev, "saving")
             /\ hydration = Hydration(c, drafts'[c], stored[c])
             /\ c = active /\ saving' = saving \cup {c}
  <2>1. PICK status, hydration \in HostMessages :
             /\ Telling(c, <<status>> \o <<hydration>>)
             /\ status = Status(c, drafts'[c].rev, "saving")
             /\ hydration = Hydration(c, drafts'[c], stored[c])
             /\ c = active /\ saving' = saving \cup {c}
    BY <1>3
  <2>2. PICK r : r = <<status>> \o <<hydration>> OBVIOUS
  <2>3. r \in Seq(HostMessages) /\ DOMAIN r = {1, 2} /\ r[1] = status /\ r[2] = hydration
    BY <2>2, TwoMessages
  <2>4. down' = down \o r /\ \A b \in Conv \ {c} : drafts'[b] = drafts[b] BY <2>1, <2>2 DEF Telling
  <2>5. /\ status.conv = c /\ status.kind = "status" /\ hydration.conv = c
        /\ hydration.visible = visible /\ hydration.kind = "hydrate"
    <3>1. PICK d, f : d = drafts'[c] /\ f = stored[c] OBVIOUS
    <3> QED BY <2>1, <3>1, HydrationTrue DEF Status
  <2>6. /\ \A i \in DOMAIN r : r[i].conv = c
        /\ \A i \in DOMAIN r : r[i].kind = "hydrate" => r[i].conv = active /\ r[i].visible = visible
    BY <2>1, <2>3, <2>5
  <2>7. /\ c \in saving' /\ left \subseteq left'
        /\ \A b \in Conv \ {c} : drafts'[b] = drafts[b] /\ (b \in saving => b \in saving')
    BY <1>1, <2>1, <2>4
  <2> QED BY <1>1, <2>3, <2>4, <2>6, <2>7, UpdatedAgrees
<1> QED BY <1>2, <1>3, RecalledTells

LEMMA SubmittedAgrees ==
    ASSUME TypesSound, Agreeing, NEW m \in ViewMessages, m.kind = "send", m = Head(up), Submitted(m.conv, m),
           up # <<>>, up' = Tail(up), view' = view
    PROVE  Agreeing'
<1>1. UNCHANGED <<drafts, stored, saving, active, visible, imports, down, left>> BY DEF Submitted
<1>2. m.conv \in Conv /\ m.id \in Id /\ m.draft \in Draft /\ active \in Conv
  BY TypeParts, ViewMessageParts
<1>3. down \in Seq(HostMessages) /\ sends \in [Conv -> Seq(Sendings)] /\ uncertainties \in [Conv -> Nat]
  BY TypeParts
<1>4. PICK r \in Seq(HostMessages) : r = <<>>
  <2>1. <<>> \in Seq(HostMessages) OBVIOUS
  <2> QED BY <2>1
<1>5. down' = down \o r /\ DOMAIN r = {} BY <1>1, <1>3, <1>4
<1>6. \A b \in Conv : LabelledNext(b, r) BY <1>1, <1>5, SameLabels DEF Written, Importing
<1>7. Has(up, OfKinds({"ready"})) => Has(up', OfKinds({"ready"})) BY UpHas DEF OfKinds
<1>8. Has(up, OfKinds({"ready", "visible"})) => Has(up', OfKinds({"ready", "visible"}))
  BY UpHas DEF OfKinds
<1>9. PICK s : s = [id |-> m.id, draft |-> m.draft, uncertainty |-> uncertainties[m.conv], step |-> "queued"]
  OBVIOUS
<1>10. s \in Sendings /\ s \in Sent(m.id) BY <1>2, <1>3, <1>9 DEF Sendings, Sent
<1>11. m.conv = active => /\ sends'[m.conv] = sends[m.conv] \o <<s>> /\ <<s>> \in Seq(Sendings)
                          /\ \A b \in Conv \ {m.conv} : sends'[b] = sends[b]
  <2>1. SUFFICES ASSUME m.conv = active
                 PROVE  /\ sends'[m.conv] = sends[m.conv] \o <<s>> /\ <<s>> \in Seq(Sendings)
                        /\ \A b \in Conv \ {m.conv} : sends'[b] = sends[b]
    OBVIOUS
  <2>2. /\ sends'[m.conv] = Append(sends[m.conv], s)
        /\ \A b \in Conv \ {m.conv} : sends'[b] = sends[b]
    BY <1>2, <1>3, <1>9, <2>1 DEF Submitted
  <2>3. sends[m.conv] \in Seq(Sendings) BY <1>2, <1>3
  <2> QED BY <1>10, <2>2, <2>3, AppendFacts
<1>12. ASSUME NEW b \in Conv, NEW id \in Id, Has(sends[b], Sent(id)) PROVE Has(sends'[b], Sent(id))
  <2>1. CASE m.conv = active /\ b = m.conv
    <3>1. sends'[b] = sends[b] \o <<s>> /\ <<s>> \in Seq(Sendings) BY <1>11, <2>1
    <3>2. PICK q, n, new, good : q = sends[b] /\ n = sends'[b] /\ new = <<s>> /\ good = Sent(id)
      OBVIOUS
    <3>3. q \in Seq(Sendings) /\ new \in Seq(Sendings) /\ n = q \o new BY <1>3, <3>1, <3>2
    <3>4. Has(n, good) <=> Has(q, good) \/ Has(new, good) BY <3>3, HasConcat
    <3> QED BY <1>12, <3>2, <3>4
  <2>2. CASE ~(m.conv = active /\ b = m.conv) BY <1>11, <1>12, <2>2 DEF Submitted
  <2> QED BY <2>1, <2>2
<1>13. ASSUME NEW id \in Id, Has(up, Questions(active, id)), ~Has(up', Questions(active, id))
       PROVE  Has(sends'[active], Sent(id))
  <2>1. m.conv = active /\ m.id = id BY <1>13, UpHas DEF Questions
  <2>2. sends'[active] = sends[active] \o <<s>> /\ <<s>> \in Seq(Sendings) BY <1>11, <2>1
  <2>3. PICK q, n, new, good : q = sends[active] /\ n = sends'[active] /\ new = <<s>> /\ good = Sent(id)
    OBVIOUS
  <2>4. q \in Seq(Sendings) /\ new \in Seq(Sendings) /\ n = q \o new BY <1>2, <1>3, <2>2, <2>3
  <2>5. Has(n, good) <=> Has(q, good) \/ Has(new, good) BY <2>4, HasConcat
  <2> QED BY <1>10, <2>1, OneMessage, <2>3, <2>5 DEF Has
<1> QED BY <1>1, <1>5, <1>6, <1>7, <1>8, <1>12, <1>13, AddedAgrees

LEMMA HandlesAgrees ==
    ASSUME TypesSound, Agreeing, Handles
    PROVE  Agreeing'
<1>1. up # <<>> /\ up' = Tail(up) /\ UNCHANGED <<native, view, typed>> BY DEF Handles
<1>2. up \in Seq(ViewMessages) /\ Head(up) \in ViewMessages /\ active \in Conv
  BY <1>1, TypeParts, TailFacts
<1>3. PICK m \in ViewMessages : m = Head(up) BY <1>2
<1>4. m.kind \notin {"ready", "visible", "send"} => UpKeeps BY <1>1, <1>3, UpKept
<1>5. m.kind # "send" =>
        \A id \in Id : Has(up, Questions(active, id)) => Has(up', Questions(active, id))
  <2>1. SUFFICES ASSUME m.kind # "send", NEW id \in Id
                 PROVE  Has(up, Questions(active, id)) => Has(up', Questions(active, id))
    OBVIOUS
  <2> QED BY <1>1, <1>3, <2>1, UpHas DEF Questions
<1>6. CASE m.kind = "ready" /\ Ready /\ UNCHANGED <<fate, left>>
  BY <1>1, <1>2, <1>5, <1>6, SelectsAgrees DEF Ready
<1>7. CASE /\ m.kind = "activate" /\ UNCHANGED <<fate, left>>
           /\ IF m.conv = active THEN UNCHANGED <<host, down>> ELSE Selects(m.conv)
  <2>1. CASE m.conv = active BY <1>1, <1>4, <1>7, <2>1, NothingAgrees DEF host, Written, Importing
  <2>2. CASE m.conv # active BY <1>1, <1>5, <1>7, <2>2, ViewMessageParts, SelectsAgrees
  <2> QED BY <2>1, <2>2
<1>8. CASE m.kind = "visible" /\ Shows(m.value) /\ UNCHANGED <<fate, left>>
  <2>1. Head(up) \notin OfKinds({"ready"}) BY <1>3, <1>8 DEF OfKinds
  <2> QED BY <1>1, <1>5, <1>8, ViewMessageParts, <2>1, UpHas, ShowsAgrees
<1>9. CASE m.kind = "edit" /\ Edited(m.conv, m.draft)
  BY <1>1, <1>4, <1>9, ViewMessageParts, EditedAgrees
<1>10. CASE m.kind = "recall" /\ Recalled(m.conv, m)
  BY <1>1, <1>4, <1>10, ViewMessageParts, <1>3, UpTaken, RecalledAgrees
<1>11. CASE m.kind = "send" /\ Submitted(m.conv, m) BY <1>1, <1>3, <1>11, SubmittedAgrees
<1> QED BY <1>3, <1>6, <1>7, <1>8, <1>9, <1>10, <1>11 DEF Handles

LEMMA LabelledByLast ==
    ASSUME TypesSound, NEW b, NEW r \in Seq(HostMessages), down' = down \o r, r # <<>>,
           r[Len(r)] \in LabellingTruly(b)'
    PROVE  LabelledNext(b, r)
<1>1. PICK bad, good : bad = Labelling(b)' \ LabellingTruly(b)' /\ good = LabellingTruly(b)' OBVIOUS
<1>2. r[Len(r)] \in good /\ r[Len(r)] \notin bad BY <1>1
<1>3. Has(r, good) BY <1>2 DEF Has
<1> QED BY <1>1, TypeParts, <1>2, MendedByLast, <1>3, HasConcat DEF LabelledNext

LEMMA StatusTrue ==
    ASSUME NEW c, NEW m \in HostMessages, NEW label, m = Status(c, drafts'[c].rev, label), label # "saving",
           label = "saved" => stored'[c] = drafts'[c]
    PROVE  m \in LabellingTruly(c)'
<1> QED BY DEF LabellingTruly, TrueLabel, Labelling, Status

LEMMA UpKeepsSame == up' = up => UpKeeps
BY DEF UpKeeps

\* The first submission of c goes a step on ...
LEMMA SendsGoOn ==
    ASSUME TypesSound, NEW c \in Conv, sends[c] # <<>>, NEW step \in {"delivering", "clearing"},
           sends' = [sends EXCEPT ![c][1].step = step], NEW b \in Conv, NEW id, Has(sends[b], Sent(id))
    PROVE  Has(sends'[b], Sent(id))
<1>1. sends \in [Conv -> Seq(Sendings)] /\ sends[c] \in Seq(Sendings) BY TypeParts
<1>2. CASE b = c
  <2>1. PICK q, s : q = sends[c] /\ s = [sends[c][1] EXCEPT !.step = step] OBVIOUS
  <2>2. q \in Seq(Sendings) /\ q # <<>> BY <1>1, <2>1
  <2>3. q[1] \in Sendings BY <2>2
  <2>4. s \in Sendings /\ s.id = q[1].id BY <2>1, <2>3 DEF Sendings
  <2>5. PICK i \in DOMAIN q : q[i] \in Sent(id) BY <1>2, <2>1 DEF Has
  <2>6. PICK n : n = [q EXCEPT ![1] = s] OBVIOUS
  <2>7. DOMAIN n = DOMAIN q /\ n[1] = s /\ \A j \in DOMAIN q : j # 1 => n[j] = q[j]
    BY <2>2, <2>4, <2>6, FirstFacts
  <2>8. n[i] \in Sent(id)
    <3>1. CASE i = 1 BY <2>4, <2>5, <2>7, <3>1 DEF Sent
    <3>2. CASE i # 1 BY <2>5, <2>7, <3>2
    <3> QED BY <3>1, <3>2
  <2> QED BY <1>2, <1>1, <2>1, <2>5, <2>6, <2>7, <2>8 DEF Has
<1>3. CASE b # c BY <1>1, <1>3
<1> QED BY <1>2, <1>3

\* ... or away, and its result is told.
LEMMA SendsAnswered ==
    ASSUME TypesSound, NEW c \in Conv, sends[c] # <<>>, sends' = [sends EXCEPT ![c] = Tail(@)],
           NEW r \in Seq(HostMessages), NEW i \in DOMAIN r, NEW outcome, r[i] = Result(c, sends[c][1].id, outcome),
           NEW b \in Conv, NEW id, Has(sends[b], Sent(id))
    PROVE  Has(sends'[b], Sent(id)) \/ Has(r, Answers(b, id))
<1>1. sends \in [Conv -> Seq(Sendings)] /\ sends[c] \in Seq(Sendings) BY TypeParts
<1>2. CASE b = c
  <2>1. PICK q : q = sends[c] OBVIOUS
  <2>2. q \in Seq(Sendings) /\ q # <<>> /\ sends'[c] = Tail(q) BY <1>1, <2>1
  <2>3. ASSUME Head(q) \in Sent(id) PROVE Has(r, Answers(b, id))
    <3>1. q[1].id = id BY <2>2, TailFacts, <2>3 DEF Sent
    <3> QED BY <1>2, <2>1, <3>1 DEF Has, Answers, Result
  <2> QED BY <1>2, <2>1, <2>2, HasTail, <2>3
<1>3. CASE b # c BY <1>1, <1>3
<1> QED BY <1>2, <1>3

LEMMA SavesAgrees ==
    ASSUME TypesSound, Agreeing, NEW c \in Conv, Saves(c)
    PROVE  Agreeing'
<1>1. /\ UNCHANGED <<drafts, active, visible, sends, imports, view, up, left>> /\ saving' = saving \ {c}
      /\ drafts[c].rev \in Nat /\ down \in Seq(HostMessages)
      /\ stored \in [Conv -> Draft \cup {None}] /\ active \in Conv
  BY TypeParts DEF Saves, ghost, Draft
<1>2. PICK label \in {"saved", "unsaved"} :
        /\ down' = Append(down, Status(c, drafts[c].rev, label))
        /\ \/ label = "saved" /\ stored' = [stored EXCEPT ![c] = drafts[c]]
           \/ label = "unsaved" /\ stored' = stored
  BY DEF Saves
<1>3. PICK m : m = Status(c, drafts[c].rev, label) OBVIOUS
<1>4. m \in HostMessages /\ m.kind = "status" /\ m.conv = c
  <2>1. m \in HostMessages BY <1>1, <1>3, StatusType DEF Labels
  <2> QED BY <1>3, <2>1 DEF Status
<1>5. PICK r : r = <<m>> OBVIOUS
<1>6. r \in Seq(HostMessages) /\ down' = down \o r /\ r # <<>> /\ Len(r) = 1 /\ DOMAIN r = {1} /\ r[1] = m
  BY <1>1, <1>2, <1>3, <1>4, <1>5, AppendFacts, OneMessage
<1>7. label = "saved" => stored'[c] = drafts'[c] BY <1>1, <1>2
<1>8. m \in LabellingTruly(c)' BY <1>1, <1>3, <1>4, <1>7, StatusTrue
<1>9. ASSUME NEW b \in Conv PROVE LabelledNext(b, r)
  <2>1. CASE b = c BY <1>6, <1>8, <2>1, LabelledByLast
  <2>2. CASE b # c BY <1>1, <1>2, <1>4, <1>6, <2>2, SameLabels DEF Written, Importing
  <2> QED BY <2>1, <2>2
<1>10. \A i \in DOMAIN r : r[i].kind # "hydrate" BY <1>4, <1>6
<1> QED BY <1>1, <1>6, <1>9, <1>10, AddedAgrees

\* The result of a submission, or nothing at all, is told.
LEMMA ResultAgrees ==
    ASSUME TypesSound, Agreeing, NEW c \in Conv, sends[c] # <<>>,
           UNCHANGED <<drafts, stored, saving, active, visible, imports, view, up, left>>,
           \/ \E step \in {"delivering", "clearing"} :
                sends' = [sends EXCEPT ![c][1].step = step] /\ down' = down
           \/ \E outcome \in Outcomes :
                /\ sends' = [sends EXCEPT ![c] = Tail(@)]
                /\ down' = Append(down, Result(c, sends[c][1].id, outcome))
    PROVE  Agreeing'
<1>1. down \in Seq(HostMessages) /\ sends[c] \in Seq(Sendings) /\ active \in Conv BY TypeParts
<1>2. CASE \E step \in {"delivering", "clearing"} :
              sends' = [sends EXCEPT ![c][1].step = step] /\ down' = down
  <2>1. PICK step \in {"delivering", "clearing"} :
              sends' = [sends EXCEPT ![c][1].step = step] /\ down' = down
    BY <1>2
  <2>2. PICK r \in Seq(HostMessages) : r = <<>>
    <3>1. <<>> \in Seq(HostMessages) OBVIOUS
    <3> QED BY <3>1
  <2>3. down' = down \o r /\ DOMAIN r = {} BY <1>1, <2>1, <2>2
  <2>4. \A b \in Conv : LabelledNext(b, r) BY <2>3, SameLabels DEF Written, Importing
  <2>5. \A b \in Conv : \A id \in Id : Has(sends[b], Sent(id)) => Has(sends'[b], Sent(id))
    BY <2>1, SendsGoOn
  <2> QED BY <2>3, <2>4, <2>5, AddedAgrees
<1>3. CASE \E outcome \in Outcomes :
             /\ sends' = [sends EXCEPT ![c] = Tail(@)]
             /\ down' = Append(down, Result(c, sends[c][1].id, outcome))
  <2>1. PICK outcome \in Outcomes :
             /\ sends' = [sends EXCEPT ![c] = Tail(@)]
             /\ down' = Append(down, Result(c, sends[c][1].id, outcome))
    BY <1>3
  <2>2. PICK m : m = Result(c, sends[c][1].id, outcome) OBVIOUS
  <2>3. m \in HostMessages /\ m.kind = "result"
    <3>1. sends[c][1] \in Sendings BY <1>1
    <3> QED BY <2>2, <3>1, ResultType DEF Result, Sendings
  <2>4. PICK r : r = <<m>> OBVIOUS
  <2>5. r \in Seq(HostMessages) /\ down' = down \o r /\ DOMAIN r = {1} /\ r[1] = m
    BY <1>1, <2>1, <2>2, <2>3, <2>4, AppendFacts, OneMessage
  <2>6. \A b \in Conv : \A id \in Id :
          Has(sends[b], Sent(id)) => Has(sends'[b], Sent(id)) \/ Has(r, Answers(b, id))
    <3>1. 1 \in DOMAIN r /\ r[1] = Result(c, sends[c][1].id, outcome) BY <2>2, <2>5
    <3> QED BY <2>1, <2>5, <3>1, SendsAnswered
  <2> QED BY <2>5, SameLabels, <2>6, <2>3, AddedAgrees DEF Written, Importing
<1> QED BY <1>2, <1>3

LEMMA SendStartsAgrees ==
    ASSUME TypesSound, Agreeing, NEW c \in Conv, SendStarts(c)
    PROVE  Agreeing'
<1> QED BY ResultAgrees DEF SendStarts, ghost, Outcomes

LEMMA SendEndsAgrees ==
    ASSUME TypesSound, Agreeing, NEW c \in Conv, NEW outcome \in Outcomes, SendEnds(c, outcome)
    PROVE  Agreeing'
<1> QED BY ResultAgrees DEF SendEnds

\* Nothing that is on its way is of a revision that the host gives only now.
LEMMA NoneLabelsNew ==
    ASSUME TypesSound, QueuesSound, NEW c \in Conv, drafts'[c].rev = drafts[c].rev + 1, NEW i \in DOMAIN down
    PROVE  down[i] \notin Labelling(c)'
<1>1. down[i] \in HostMessages /\ drafts[c].rev \in Nat BY TypeParts DEF Draft
<1>2. SUFFICES ASSUME down[i] \in Labelling(c)' PROVE FALSE OBVIOUS
<1>3. CASE down[i].kind = "hydrate" /\ down[i].conv = c /\ down[i].draft = drafts'[c]
  BY <1>1, <1>3 DEF QueuesSound, Past
<1>4. CASE down[i].kind = "status" /\ down[i].conv = c /\ down[i].rev = drafts'[c].rev
  BY <1>1, <1>4 DEF QueuesSound
<1> QED BY <1>2, <1>3, <1>4 DEF Labelling, Hydrations

LEMMA SendClearsAgrees ==
    ASSUME TypesSound, TypesSound', WorkSound, Keeping, Agreeing, NEW c \in Conv, SendClears(c)
    PROVE  Agreeing'
<1>1. PICK r \in Seq(HostMessages) :
        /\ down' = down \o r
        /\ r # <<>> /\ r[Len(r)] = Result(c, sends[c][1].id, "accepted")
        /\ \A i \in DOMAIN r : r[i] \in {m \in HostMessages : m.conv = c}
        /\ ClearsDraft(c, r) \/ LeavesDraft(c, r) \/ NotRecorded(c, r)
  BY SendClearsParts
<1>2. /\ sends[c] # <<>> /\ sends' = [sends EXCEPT ![c] = Tail(@)]
      /\ UNCHANGED <<saving, active, visible, imports, view, up, left>>
  BY SendClearsParts DEF ghost
<1>3. /\ drafts \in [Conv -> Draft] /\ stored \in [Conv -> Draft \cup {None}] /\ down \in Seq(HostMessages)
      /\ active \in Conv
  BY TypeParts
<1>4. \A b \in Conv : Written(b)' => Written(b) BY <1>2 DEF Written, Importing
<1>5. Len(r) \in DOMAIN r BY <1>1
<1>6. \A b \in Conv : \A id \in Id :
        Has(sends[b], Sent(id)) => Has(sends'[b], Sent(id)) \/ Has(r, Answers(b, id))
  BY <1>1, <1>2, <1>5, SendsAnswered
<1>7. /\ \A i \in DOMAIN r : r[i].kind = "hydrate" => r[i].conv = active /\ r[i].visible = visible
      /\ \A b \in Conv : LabelledNext(b, r)
  <2>1. CASE ClearsDraft(c, r)
    <3>1. PICK draft \in Draft :
             /\ draft.rev = drafts[c].rev + 1
             /\ drafts' = [drafts EXCEPT ![c] = draft] /\ stored' = [stored EXCEPT ![c] = draft]
             /\ \A i \in DOMAIN r :
                  r[i] \in {Status(c, draft.rev, "saved"), Hydration(c, draft, draft),
                            Result(c, sends[c][1].id, "accepted")}
             /\ \E i \in DOMAIN r : r[i] = Status(c, draft.rev, "saved")
             /\ Hydrates(r) <=> c = active
      BY <2>1 DEF ClearsDraft
    <3>2. /\ drafts'[c] = draft /\ stored'[c] = draft
          /\ \A b \in Conv \ {c} : drafts'[b] = drafts[b] /\ stored'[b] = stored[b]
      BY <1>3, <3>1
    <3>3. PICK h : h = Hydration(c, draft, draft) OBVIOUS
    <3>4. h.kind = "hydrate" /\ h.conv = c /\ h.visible = visible /\ h.draft = draft /\ h.label # "saving"
      BY <3>3, HydrationTrue
    <3>5. ASSUME NEW i \in DOMAIN r, r[i].kind = "hydrate" PROVE r[i].conv = active /\ r[i].visible = visible
      BY <3>4, <3>3, <3>1, <3>5 DEF Hydrates, Status, Result
    <3>6. PICK bad, good : bad = Labelling(c)' \ LabellingTruly(c)' /\ good = LabellingTruly(c)'
      OBVIOUS
    <3>7. \A i \in DOMAIN down : down[i] \notin bad /\ down[i] \notin good
      BY <3>6, <3>1, <3>2, NoneLabelsNew DEF LabellingTruly, Keeping
    <3>8. ASSUME NEW i \in DOMAIN r PROVE r[i] \notin bad
      <4>1. r[i] \in HostMessages OBVIOUS
      <4>2. CASE r[i] = Status(c, draft.rev, "saved") BY <3>2, <3>6, <4>1, <4>2, StatusTrue
      <4>3. CASE r[i] = h
        <5>1. SUFFICES ASSUME r[i] \in Labelling(c)' PROVE r[i] \in LabellingTruly(c)' BY <3>6
        <5> QED BY <3>2, <3>4, <4>3, <5>1 DEF LabellingTruly, TrueLabel
      <4>4. CASE r[i] = Result(c, sends[c][1].id, "accepted")
        BY <3>6, <4>4 DEF Labelling, Hydrations, Result
      <4> QED BY <3>1, <3>3, <4>2, <4>3, <4>4
    <3>9. Has(r, good)
      <4>1. PICK i \in DOMAIN r : r[i] = Status(c, draft.rev, "saved") BY <3>1
      <4>2. r[i] \in HostMessages OBVIOUS
      <4>3. r[i] \in good BY <3>2, <3>6, <4>1, <4>2, StatusTrue
      <4> QED BY <4>3 DEF Has
    <3>10. Mended(down', bad, good) BY <1>1, <1>3, <3>7, <3>8, MendedConcat DEF Mended
    <3>11. LabelledNext(c, r) BY <3>6, <3>10, <1>1, <1>3, <3>9, HasConcat DEF LabelledNext
    <3>12. ASSUME NEW b \in Conv \ {c} PROVE LabelledNext(b, r) BY <1>4, <3>2, <1>1, SameLabels
    <3> QED BY <3>5, <3>11, <3>12
  <2>2. CASE LeavesDraft(c, r)
    <3>1. PICK durable \in Draft \cup {None} :
             /\ durable = drafts[c] \/ (durable = stored[c] /\ stored[c] # None)
             /\ stored' = [stored EXCEPT ![c] = durable]
             /\ \A i \in DOMAIN r :
                  r[i] \in {Hydration(c, drafts[c], durable), Result(c, sends[c][1].id, "accepted")}
             /\ Hydrates(r) => c = active
      BY <2>2 DEF LeavesDraft
    <3>2. drafts' = drafts BY <2>2 DEF LeavesDraft
    <3>3. PICK h : h = Hydration(c, drafts[c], durable) OBVIOUS
    <3>4. /\ h.kind = "hydrate" /\ h.conv = c /\ h.visible = visible
          /\ h.label # "saving" /\ (h.label = "saved" => durable = drafts[c])
      BY <3>3, HydrationTrue
    <3>5. ASSUME NEW i \in DOMAIN r, r[i].kind = "hydrate" PROVE r[i].conv = active /\ r[i].visible = visible
      BY <3>4, <3>3, <3>1, <3>5 DEF Hydrates, Result
    <3>6. stored'[c] = durable /\ \A b \in Conv \ {c} : stored'[b] = stored[b] BY <1>3, <3>1
    <3>7. LabelledNext(c, r)
      <4>1. \A i \in DOMAIN r : r[i].kind = "result" \/ TrueLabel(c, r[i].label)'
        <5>1. ASSUME NEW i \in DOMAIN r PROVE r[i].kind = "result" \/ TrueLabel(c, r[i].label)'
          <6>1. CASE r[i] = h BY <3>2, <3>4, <3>6, <6>1 DEF TrueLabel
          <6>2. CASE r[i] = Result(c, sends[c][1].id, "accepted") BY <6>2 DEF Result
          <6> QED BY <3>1, <3>3, <6>1, <6>2
        <5> QED BY <5>1
      <4> QED BY <1>4, <3>2, <4>1, <3>1, <3>6, SameLabels
    <3>8. ASSUME NEW b \in Conv \ {c} PROVE LabelledNext(b, r) BY <1>4, <3>2, <3>6, <1>1, SameLabels
    <3> QED BY <3>5, <3>7, <3>8
  <2>3. CASE NotRecorded(c, r)
    <3>1. /\ UNCHANGED <<drafts, stored>>
          /\ \A i \in DOMAIN r :
               r[i] \in {Status(c, sends[c][1].draft.rev, "unsaved"), Result(c, sends[c][1].id, "accepted")}
      BY <2>3 DEF NotRecorded
    <3>2. ASSUME NEW i \in DOMAIN r
          PROVE  /\ r[i].kind # "hydrate"
                 /\ \A b \in Conv : r[i].kind = "result" \/ TrueLabel(b, r[i].label)'
      BY <3>1 DEF Status, Result, TrueLabel
    <3> QED BY <3>2, <1>4, <3>1, SameLabels
  <2> QED BY <1>1, <2>1, <2>2, <2>3
<1> QED BY <1>1, <1>2, <1>6, <1>7, AddedAgrees

LEMMA ImportReadsAgrees ==
    ASSUME TypesSound, TypesSound', WorkSound, Agreeing, NEW c \in Conv, ImportReads(c)
    PROVE  Agreeing'
<1>1. /\ UNCHANGED <<stored, saving, active, visible, sends, view, up, left>> /\ active \in Conv
      /\ imports \in [Conv -> {None} \cup Copies]
  BY TypeParts DEF ImportReads, ghost
<1>2. CASE Telling(c, <<>>) /\ UNCHANGED <<down, drafts>> /\ imports' = [imports EXCEPT ![c] = None]
  <2>1. \A b \in Conv : Written(b)' => Written(b)
    <3>1. ASSUME NEW b \in Conv, Importing(b, "saving") PROVE Importing(b, "saving")'
      BY <3>1, <1>1, <1>2 DEF Importing, ImportReads
    <3> QED BY <1>1, <3>1 DEF Written
  <2> QED BY <1>1, <1>2, <2>1, UpKeepsSame, NothingAgrees
<1>3. CASE \E status, hydration \in HostMessages :
             /\ Telling(c, <<status>> \o <<hydration>>)
             /\ status = Status(c, drafts'[c].rev, "saving")
             /\ hydration = Hydration(c, drafts'[c], stored[c])
             /\ c = active /\ Importing(c, "saving")'
  <2>1. PICK status, hydration \in HostMessages :
             /\ Telling(c, <<status>> \o <<hydration>>)
             /\ status = Status(c, drafts'[c].rev, "saving")
             /\ hydration = Hydration(c, drafts'[c], stored[c])
             /\ c = active /\ Importing(c, "saving")'
    BY <1>3
  <2>2. PICK r : r = <<status>> \o <<hydration>> OBVIOUS
  <2>3. r \in Seq(HostMessages) /\ DOMAIN r = {1, 2} /\ r[1] = status /\ r[2] = hydration
    BY <2>2, TwoMessages
  <2>4. down' = down \o r /\ \A b \in Conv \ {c} : drafts'[b] = drafts[b] BY <2>1, <2>2 DEF Telling
  <2>5. /\ status.conv = c /\ status.kind = "status" /\ hydration.conv = c
        /\ hydration.visible = visible /\ hydration.kind = "hydrate"
    <3>1. PICK d, f : d = drafts'[c] /\ f = stored[c] OBVIOUS
    <3> QED BY <2>1, <3>1, HydrationTrue DEF Status
  <2>6. /\ \A i \in DOMAIN r : r[i].conv = c
        /\ \A i \in DOMAIN r : r[i].kind = "hydrate" => r[i].conv = active /\ r[i].visible = visible
    BY <2>1, <2>3, <2>5
  <2>7. ASSUME NEW b \in Conv PROVE LabelledNext(b, r)
    <3>1. CASE b = c BY <2>1, <3>1 DEF LabelledNext, Written
    <3>2. CASE b # c
      <4>1. Written(b)' => Written(b) BY <1>1, <3>2 DEF Written, Importing, ImportReads, ImportOver
      <4> QED BY <1>1, <4>1, <2>4, <2>6, <3>2, SameLabels
    <3> QED BY <3>1, <3>2
  <2> QED BY <1>1, <2>3, <2>4, <2>6, <2>7, AddedAgrees
<1> QED BY <1>2, <1>3, ImportReadsTells

LEMMA ImportSavesAgrees ==
    ASSUME TypesSound, WorkSound, Agreeing, NEW c \in Conv, ImportSaves(c)
    PROVE  Agreeing'
<1>1. /\ UNCHANGED <<drafts, saving, active, visible, sends, view, up, left>>
      /\ active \in Conv /\ down \in Seq(HostMessages) /\ stored \in [Conv -> Draft \cup {None}]
      /\ imports \in [Conv -> {None} \cup Copies]
  BY TypeParts DEF ImportSaves, ghost
<1>2. Importing(c, "saving") /\ (imports[c].draft = drafts[c] \/ c \in saving)
  BY DEF ImportSaves, WorkSound, WorkOf, CopySound
<1>3. PICK d \in Draft : d = imports[c].draft BY <1>1, <1>2 DEF Importing, Copies
<1>4. PICK label \in {"saved", "unsaved"} :
        /\ down' = Append(down, Status(c, d.rev, label))
        /\ \/ label = "saved" /\ stored' = [stored EXCEPT ![c] = d]
           \/ label = "unsaved" /\ stored' = stored
  BY <1>3 DEF ImportSaves
<1>5. PICK m : m = Status(c, d.rev, label) OBVIOUS
<1>6. m \in HostMessages /\ m.kind = "status" /\ m.conv = c
  <2>1. m \in HostMessages BY <1>5, StatusType DEF Labels, Draft
  <2> QED BY <1>5, <2>1 DEF Status
<1>7. PICK r : r = <<m>> OBVIOUS
<1>8. r \in Seq(HostMessages) /\ down' = down \o r /\ r # <<>> /\ Len(r) = 1 /\ DOMAIN r = {1} /\ r[1] = m
  BY <1>1, <1>4, <1>5, <1>6, <1>7, AppendFacts, OneMessage
<1>9. ASSUME NEW b \in Conv PROVE LabelledNext(b, r)
  <2>1. CASE b = c /\ c \in saving BY <1>1, <2>1 DEF LabelledNext, Written
  <2>2. CASE b = c /\ c \notin saving
    <3>1. d = drafts'[c] BY <1>1, <1>2, <1>3, <2>2
    <3>2. label = "saved" => stored'[c] = drafts'[c] BY <1>1, <1>4, <3>1
    <3>3. m \in LabellingTruly(c)' BY <1>5, <1>6, <3>1, <3>2, StatusTrue
    <3> QED BY <1>8, <2>2, <3>3, LabelledByLast
  <2>3. CASE b # c
    BY <1>1, <1>4, <1>6, <1>8, <2>3, SameLabels DEF Written, Importing, ImportSaves, ImportOver
  <2> QED BY <2>1, <2>2, <2>3
<1>10. \A i \in DOMAIN r : r[i].kind # "hydrate" BY <1>6, <1>8
<1> QED BY <1>1, <1>8, <1>9, <1>10, AddedAgrees

LEMMA ImportClearsAgrees ==
    ASSUME TypesSound, Agreeing, NEW c \in Conv, ImportClears(c)
    PROVE  Agreeing'
<1>1. /\ UNCHANGED <<drafts, stored, saving, active, visible, sends, view, up, down, left>>
      /\ imports' = [imports EXCEPT ![c] = None] /\ Importing(c, "clearing")
      /\ imports \in [Conv -> {None} \cup Copies]
  BY TypeParts DEF ImportClears, ImportOver
<1>2. ASSUME NEW b \in Conv, Importing(b, "saving") PROVE Importing(b, "saving")'
  BY <1>2, <1>1 DEF Importing
<1> QED BY <1>1, <1>2, UpKeepsSame, NothingAgrees DEF Written

LEMMA HostAgrees ==
    ASSUME TypesSound, TypesSound', WorkSound, Keeping, Agreeing, HostSteps
    PROVE  Agreeing'
<1>1. CASE Handles BY <1>1, HandlesAgrees
<1>2. CASE Switches
  <2>1. PICK c \in Conv : Selects(c) BY <1>2 DEF Switches
  <2> QED BY <2>1, <1>2, SelectsAgrees DEF Switches, ghost
<1>3. CASE TypesNative BY <1>3, UpKeepsSame, NothingAgrees DEF Written, Importing, TypesNative, host
<1> QED
  BY <1>1, <1>2, <1>3, SavesAgrees, SendStartsAgrees, SendClearsAgrees, SendEndsAgrees,
     ImportReadsAgrees, ImportSavesAgrees, ImportClearsAgrees DEF HostSteps

--------------------
(* Steps of the view keep the queues, the view and the text *)

LEMMA DraftsUnderWay ==
    ASSUME TypesSound, NEW b
    PROVE  /\ Edits(up, b) \in SUBSET Draft /\ Told(down, b) \in SUBSET Draft
           /\ OnItsWay(b) <=> Edits(up, b) # {}
<1>1. up \in Seq(ViewMessages) /\ down \in Seq(HostMessages) BY TypeParts
<1> QED BY <1>1, ViewMessageParts, HostMessageParts DEF OnItsWay, Edits, IsEdit, Told

LEMMA StaysBoolean == \A q, c : Stays(q, c) \in BOOLEAN
BY DEF Stays

\* An edit of the session that the view shows is posted behind the others.
LEMMA Posted ==
    ASSUME TypesSound, Keeping, view.target # None, NEW n \in Draft, n.rev = view.draft.rev + 1,
           up' = Append(up, EditOf(view.target, n))
    PROVE  /\ \A b : Edits(up', b) = Edits(up, b) \cup (IF b = view.target THEN {n} ELSE {})
           /\ \A b \in Conv \ left : Increasing(up', b)
<1>1. up \in Seq(ViewMessages) /\ view.target \in Conv /\ view.draft.rev \in Nat
  BY TypeParts, ViewParts
<1>2. PICK m : m = EditOf(view.target, n) OBVIOUS
<1>3. m \in ViewMessages BY <1>1, <1>2 DEF EditOf, ViewMessages
<1>4. m.draft = n /\ \A b : IsEdit(m, b) <=> b = view.target BY <1>2 DEF EditOf, IsEdit
<1>5. ASSUME NEW b
      PROVE  /\ Edits(up', b) = Edits(up, b) \cup (IF IsEdit(m, b) THEN {m.draft} ELSE {})
             /\ Increasing(up, b) /\ (IsEdit(m, b) => \A e \in Edits(up, b) : e.rev < m.draft.rev)
                => Increasing(up', b)
  BY <1>1, <1>3, <1>2, EditsAppend
<1>6. ASSUME NEW b \in Conv \ left PROVE Increasing(up', b)
  <2>1. Increasing(up, b) BY DEF Keeping, QueuesSound
  <2>2. CASE b # view.target BY <1>4, <1>5, <2>1, <2>2
  <2>3. CASE b = view.target
    BY <1>5, <2>1, <1>1, <1>4, <1>6, <2>3, DraftsUnderWay DEF Follows, Keeping, Following, Draft
  <2> QED BY <2>2, <2>3
<1> QED BY <1>4, <1>5, <1>6

LEMMA ChangesKeeps ==
    ASSUME TypesSound, Keeping, NEW text \in Text, Changes(text), UNCHANGED <<drafts, down, left>>,
           Gone \subseteq Gone', \A b \in Conv \ left : b = view.target => Own(b)' \subseteq text,
           \A b \in Conv : b # view.target => Own(b)' \subseteq Own(b)
    PROVE  Keeping'
<1>1. PICK n : n = [rev |-> view.draft.rev + 1, text |-> text] OBVIOUS
<1>2. /\ view.target # None /\ view.target \in Conv /\ view.draft.rev \in Nat /\ view \in Views
      /\ drafts \in [Conv -> Draft]
  BY TypeParts, ViewParts DEF Changes
<1>3. n \in Draft /\ n.rev = view.draft.rev + 1 /\ n.text = text BY <1>1, <1>2 DEF Draft
<1>4. view'.target = view.target /\ view'.draft = n BY <1>1, <1>2 DEF Changes, Views
<1>5. /\ \A b : Edits(up', b) = Edits(up, b) \cup (IF b = view.target THEN {n} ELSE {})
      /\ \A b \in Conv \ left : Increasing(up', b)
  BY <1>2, <1>3, <1>1, Posted DEF Changes, Acts, Posts
<1>6. Following'
  <2>1. SUFFICES ASSUME view.target \notin left
                 PROVE  Follows(n, drafts[view.target], Edits(up', view.target), Told(down, view.target),
                                Stays(down, view.target), Gone')
    BY <1>4 DEF Following
  <2>2. PICK b, x, d, edits, told, stays, gone, goneNow :
          /\ b = view.target /\ x = view.draft /\ d = drafts[b] /\ edits = Edits(up, b)
          /\ told = Told(down, b) /\ gone = Gone /\ goneNow = Gone' /\ stays = Stays(down, b)
    OBVIOUS
  <2> QED
    BY <1>5, <2>2, <1>3, <1>2, DraftsUnderWay, StaysBoolean, ViewParts, <2>1, ViewChanges DEF
       Keeping, Following
<1>7. Holding'
  <2>1. SUFFICES ASSUME NEW b \in Conv \ left
                 PROVE  IF b = view.target THEN Own(b)' \subseteq text
                        ELSE HeldByHost(b, Own(b), Edits(up, b))'
    BY <1>3, <1>4 DEF Holding
  <2>2. CASE b = view.target BY <2>1, <2>2
  <2>3. CASE b # view.target BY <2>3, <2>1, <1>5 DEF HeldByHost, Stale, Keeping, Holding
  <2> QED BY <2>2, <2>3
<1> QED BY <1>5, <1>6, <1>7 DEF Keeping, QueuesSound, Past

LEMMA TypesKeeps ==
    ASSUME TypesSound, Keeping, Types
    PROVE  Keeping'
<1>1. PICK text : text = view.draft.text \cup {Len(typed) + 1} OBVIOUS
<1>2. /\ typed \in Seq(Conv) /\ Len(typed) \in Nat /\ Len(typed) < MaxPieces /\ view.draft.text \in Text
      /\ native \in [Conv -> Text] /\ view.target # None
  BY TypeParts, ViewParts DEF Types, Changes
<1>3. /\ Changes(text) /\ typed' = Append(typed, view.target)
      /\ UNCHANGED <<drafts, native, down, fate, left>>
  BY <1>1 DEF Types, host
<1>4. Gone' = Gone BY <1>3 DEF Gone
<1>5. \A b \in Conv : Own(b)' \subseteq Own(b) \cup (IF b = view.target THEN {Len(typed) + 1} ELSE {})
  BY <1>3, <1>4, <1>2, ViewParts DEF Own
<1>6. \A b \in Conv \ left : b = view.target => Own(b)' \subseteq text
  BY <1>1, <1>5 DEF Keeping, Holding
<1> QED BY <1>1, <1>2, BoundsAssumption, <1>3, <1>4, <1>6, <1>5, ChangesKeeps DEF Text, Piece

LEMMA ErasesKeeps ==
    ASSUME TypesSound, Keeping, Erases
    PROVE  Keeping'
<1>1. PICK erased \in SUBSET view.draft.text :
        Changes(view.draft.text \ erased) /\ Becomes("erased", erased)
  BY DEF Erases
<1>2. UNCHANGED <<drafts, native, down, typed, left>> BY DEF Erases, host
<1>3. Gone \subseteq Gone' /\ erased \subseteq Gone' BY <1>1, GoneStays DEF Fates
<1>4. \A b \in Conv : Own(b)' \subseteq Own(b) \ Gone' BY <1>2, <1>3 DEF Own
<1>5. \A b \in Conv \ left : b = view.target => Own(b)' \subseteq view.draft.text \ erased
  BY <1>3, <1>4 DEF Keeping, Holding
<1> QED BY <1>1, <1>2, ViewParts, <1>3, <1>4, <1>5, ChangesKeeps DEF Text

\* A message that is not an edit is posted; the draft that is shown stays.
LEMMA AsksKeeps ==
    ASSUME TypesSound, Keeping, NEW m \in ViewMessages, m.kind # "edit", up' = Append(up, m),
           view'.target = view.target, view'.draft = view.draft,
           UNCHANGED <<drafts, native, down, typed, fate, left>>
    PROVE  Keeping'
<1>1. up \in Seq(ViewMessages) BY TypeParts
<1>2. \A b : Edits(up', b) = Edits(up, b) /\ (Increasing(up, b) => Increasing(up', b))
  <2>1. \A b : ~IsEdit(m, b) BY DEF IsEdit
  <2> QED BY <1>1, <2>1, EditsAppend
<1>3. Gone' = Gone /\ \A b : Own(b)' = Own(b) BY DEF Gone, Own
<1> QED BY <1>2, <1>3 DEF Keeping, QueuesSound, Past, Following, Holding, HeldByHost, Stale

\* The host's messages behind the first are of the past as well.
LEMMA QueuesTaken ==
    ASSUME TypesSound, Keeping, down # <<>>, down' = Tail(down), drafts' = drafts,
           \A b \in Conv \ left' : Increasing(up', b)
    PROVE  QueuesSound'
<1>1. down \in Seq(HostMessages) BY TypeParts
<1>2. Sorted(down') BY <1>1, ToldTail DEF Keeping, QueuesSound
<1> QED BY <1>2, <1>1, TailFacts DEF QueuesSound, Past, Keeping

\* What is no draft leaves the draft that is shown.
LEMMA HearsKeeps ==
    ASSUME TypesSound, Keeping, down # <<>>, down' = Tail(down), Head(down).kind # "hydrate",
           view'.target = view.target, view'.draft = view.draft,
           UNCHANGED <<drafts, native, up, typed, fate, left>>
    PROVE  Keeping'
<1>1. down \in Seq(HostMessages) BY TypeParts
<1>2. Gone' = Gone /\ \A b : Own(b)' = Own(b) BY DEF Gone, Own
<1>3. QueuesSound' BY QueuesTaken DEF Keeping, QueuesSound
<1>4. Following'
  <2>1. SUFFICES ASSUME view.target # None, view.target \notin left
                 PROVE  Follows(view.draft, drafts[view.target], Edits(up, view.target),
                                Told(down', view.target), Stays(down', view.target), Gone)
    BY <1>2 DEF Following
  <2>2. PICK b : b = view.target OBVIOUS
  <2> QED BY <2>1, <2>2, <1>1, ToldTail, StaysBoolean DEF Keeping, Following
<1> QED BY <1>3, <1>4, <1>2 DEF Keeping, Holding, HeldByHost, Stale

\* The view is told a draft of the session it shows.
LEMMA RefreshesKeeps ==
    ASSUME TypesSound, Keeping, down # <<>>, down' = Tail(down), NEW m, m = Head(down),
           m.kind = "hydrate", m.conv = view.target, Refreshes(m),
           UNCHANGED <<drafts, native, typed, fate>>
    PROVE  Keeping'
<1>1. /\ down \in Seq(HostMessages) /\ m \in HostMessages /\ view \in Views /\ view.draft.rev \in Nat
      /\ drafts \in [Conv -> Draft]
  BY TypeParts, TailFacts, ViewParts
<1>2. m.conv \in Conv /\ m.draft \in Draft /\ m.draft.rev \in Nat /\ view.target \in Conv /\ view.target # None
  BY <1>1, HostMessageParts, NoneAssumption DEF Draft
<1>3. left' = left /\ Gone' = Gone /\ (\A b : Own(b)' = Own(b)) /\ IsHydration(Head(down), view.target)
  BY DEF Refreshes, Gone, Own, IsHydration
<1>4. PICK b, x, d, edits, told, rest, stays, gone :
        /\ b = view.target /\ x = view.draft /\ d = drafts[b] /\ edits = Edits(up, b)
        /\ told = Told(down, b) /\ rest = Told(down', b) /\ gone = Gone /\ stays = Stays(down, b)
  OBVIOUS
<1>5. /\ x \in Draft /\ d \in Draft /\ edits \in SUBSET Draft /\ told \in SUBSET Draft
      /\ stays \in BOOLEAN /\ b \in Conv
  BY <1>1, <1>2, <1>4, DraftsUnderWay, StaysBoolean, ViewParts
<1>6. /\ told = rest \cup {m.draft} /\ (Stays(down', b) <=> stays)
      /\ \A n \in rest : n.rev >= m.draft.rev /\ (n.rev = m.draft.rev => n = m.draft)
  BY <1>1, <1>4, <1>3, ToldTail DEF Keeping, QueuesSound
<1>7. Stays(down', b) = stays BY <1>5, <1>6, StaysBoolean
<1>8. /\ m.draft \in told /\ rest \in {told, told \ {m.draft}}
      /\ \A n \in told : n.rev >= m.draft.rev /\ (n.rev = m.draft.rev => n = m.draft)
  BY <1>2, <1>6
<1>9. b \notin left => Follows(x, d, edits, told, stays, gone) BY <1>2, <1>4 DEF Keeping, Following
<1>10. b \notin left => Own(b) \subseteq x.text BY <1>4, <1>5 DEF Keeping, Holding
<1>11. \A c \in Conv \ left : c # b => HeldByHost(c, Own(c), Edits(up, c))
  BY <1>4 DEF Keeping, Holding
<1>12. CASE m.draft.rev > x.rev \/ m.draft.rev < x.rev \/ m.draft = x
  <2>1. PICK n \in Draft : n = IF m.draft.rev > x.rev THEN m.draft ELSE x BY <1>2, <1>5
  <2>2. view'.target = b /\ view'.draft = n /\ up' = up
    <3>1. \/ /\ m.draft.rev > x.rev \/ m.draft = x
             /\ view' = [Sets(m.draft) EXCEPT !.label = m.label, !.visible = m.visible]
             /\ up' = up
          \/ /\ m.draft.rev < x.rev
             /\ view' = [view EXCEPT !.visible = m.visible]
             /\ up' = up
      BY <1>1, <1>2, <1>4, <1>12 DEF Refreshes
    <3>2. \/ view'.target = view.target /\ view'.draft = m.draft /\ up' = up
          \/ m.draft.rev < x.rev
      BY <1>1, <3>1 DEF Sets, Views
    <3> QED BY <1>1, <1>2, <1>4, <2>1, <3>1, <3>2 DEF Views
  <2>3. ASSUME b \notin left
        PROVE  Follows(n, d, edits, rest, stays, gone) /\ x.text \ n.text \subseteq gone
    <3>1. CASE m.draft.rev > x.rev BY <1>5, <1>8, <1>9, <2>1, <2>3, <3>1, ViewTakes
    <3>2. CASE ~(m.draft.rev > x.rev) BY <1>5, <1>8, <1>9, <1>12, <2>1, <2>3, <3>2, ViewIgnores
    <3> QED BY <3>1, <3>2
  <2>4. QueuesSound' BY <1>3, <2>2, QueuesTaken DEF Keeping, QueuesSound
  <2>5. Holding'
    <3>1. SUFFICES ASSUME NEW c \in Conv \ left
                   PROVE  IF c = b THEN Own(c)' \subseteq n.text
                          ELSE HeldByHost(c, Own(c), Edits(up, c))'
      BY <1>3, <2>2 DEF Holding
    <3>2. CASE c = b BY <1>3, <1>4, <1>10, <2>3, <3>1, <3>2 DEF Own
    <3>3. CASE c # b BY <1>3, <2>2, <3>3, <1>11 DEF HeldByHost, Stale
    <3> QED BY <3>2, <3>3
  <2> QED BY <2>4, <1>3, <1>4, <1>7, <2>2, <2>3, <2>5 DEF Keeping, Following
<1>13. CASE m.draft.rev = x.rev /\ m.draft # x
  <2>1. PICK n : n = [x EXCEPT !.rev = @ + 1] OBVIOUS
  <2>2. n \in Draft /\ n.rev = x.rev + 1 /\ n.text = x.text BY <1>5, <2>1 DEF Draft
  <2>3. x.rev \in Nat BY <1>5 DEF Draft
  <2>4. view'.target = b /\ view'.draft = n /\ up' = Append(up, EditOf(b, n))
    <3>1. /\ view' = [[view EXCEPT !.draft = n] EXCEPT !.label = "saving", !.visible = m.visible]
          /\ up' = Append(up, EditOf(b, n))
      BY <1>4, <2>1, <1>1, <1>2, <1>13, <2>3 DEF Sets, Refreshes, Posts
    <3> QED BY <1>1, <1>4, <3>1 DEF Views
  <2>5. /\ \A c : Edits(up', c) = Edits(up, c) \cup (IF c = b THEN {n} ELSE {})
        /\ \A c \in Conv \ left : Increasing(up', c)
    BY <1>2, <1>4, <2>2, <2>4, Posted
  <2>6. ASSUME b \notin left
        PROVE  Follows(n, d, edits \cup {n}, rest, stays, gone)
    <3>1. Follows(n, d, edits \cup {n}, told, stays, gone) BY <1>5, <1>9, <2>2, <2>6, ViewChanges
    <3> QED BY <1>5, <1>8, <2>2, <3>1, <1>13, <2>3, ViewIgnores
  <2>7. Following' BY <1>3, <1>4, <1>7, <2>4, <2>5, <2>6 DEF Following
  <2>8. Holding'
    <3>1. SUFFICES ASSUME NEW c \in Conv \ left
                   PROVE  IF c = b THEN Own(c)' \subseteq n.text
                          ELSE HeldByHost(c, Own(c), Edits(up, c))'
      BY <1>3, <2>4 DEF Holding
    <3>2. CASE c = b BY <1>3, <1>10, <2>2, <3>1, <3>2
    <3>3. CASE c # b BY <1>3, <3>3, <1>11, <2>5 DEF HeldByHost, Stale
    <3> QED BY <3>2, <3>3
  <2> QED BY <1>3, <2>5, QueuesTaken, <2>7, <2>8 DEF Keeping
<1> QED BY <1>2, <1>4, <1>5, <1>12, <1>13 DEF Draft

\* Pieces that the view had, or that were on their way, and that the host need not have,
\* since it has them already or is yet to be told.
LEMMA HostWillHave ==
    ASSUME TypesSound, NEW b \in Conv, NEW own, NEW gone,
           Follows(view.draft, drafts[b], Edits(up, b), Told(down, b), Stays(down, b), gone),
           own \subseteq view.draft.text,
           Edits(up, b) # {} => own \cap gone = {},
           Edits(up, b) = {} => own \subseteq drafts[b].text
    PROVE  HeldByHost(b, own, Edits(up, b))
<1>1. PICK x, d, edits :
        x = view.draft /\ d = drafts[b] /\ edits = Edits(up, b)
  OBVIOUS
<1>2. /\ x \in Draft /\ d \in Draft /\ edits \in SUBSET Draft /\ x.rev \in Nat /\ d.rev \in Nat
      /\ \A e \in edits : e.rev \in Nat
  BY <1>1, TypeParts, ViewParts, DraftsUnderWay DEF Draft
<1>3. /\ \A e \in edits : e.rev <= x.rev /\ (e.rev = x.rev => e = x)
      /\ x.rev > d.rev => x \in edits
      /\ edits # {} /\ x \notin edits => x.text \ d.text \subseteq gone
  BY <1>1 DEF Follows
<1>4. CASE x \in edits BY <1>1, <1>3, <1>4 DEF HeldByHost
<1>5. CASE x \notin edits BY <1>1, <1>3, <1>5, <1>2 DEF HeldByHost, Stale
<1> QED BY <1>4, <1>5

\* The view turns to another session: what it had of the old one the host has, or will have.
LEMMA TurnsKeeps ==
    ASSUME TypesSound, Keeping, down # <<>>, down' = Tail(down), NEW m, m = Head(down),
           m.kind = "hydrate", m.conv # view.target, Turns(m),
           UNCHANGED <<drafts, native, typed, fate>>
    PROVE  Keeping'
<1>1. /\ down \in Seq(HostMessages) /\ m \in HostMessages /\ view \in Views
      /\ drafts \in [Conv -> Draft]
  BY TypeParts, TailFacts
<1>2. PICK n \in Conv : n = m.conv BY <1>1, HostMessageParts
<1>3. /\ view'.target = n /\ view'.draft = m.draft /\ up' = up
      /\ left' = left \cup {c \in {n} : OnItsWay(c) \/ drafts[c] # m.draft}
                      \cup {c \in Conv : c = view.target /\ ~OnItsWay(c)
                                         /\ ~(view.draft.text \subseteq drafts[c].text)}
  BY <1>1, <1>2 DEF Turns, Sets, Views
<1>4. left \subseteq left' /\ Gone' = Gone /\ (\A b : Own(b)' = Own(b)) /\ IsHydration(Head(down), n)
  BY <1>2, <1>3 DEF Gone, Own, IsHydration
<1>5. QueuesSound' BY <1>3, <1>4, QueuesTaken DEF Keeping, QueuesSound
<1>6. n \notin left' => Edits(up, n) = {} /\ m.draft = drafts[n] BY <1>3, DraftsUnderWay
<1>7. Following'
  <2>1. SUFFICES ASSUME n \notin left'
                 PROVE  Follows(m.draft, drafts[n], Edits(up, n), Told(down', n), Stays(down', n), Gone)
    BY <1>3, <1>4 DEF Following
  <2>2. m.draft = drafts[n] /\ Edits(up, n) = {} BY <1>6, <2>1
  <2>3. PICK d, told, stays, gone :
          d = drafts[n] /\ told = Told(down', n) /\ stays = Stays(down', n) /\ gone = Gone
    OBVIOUS
  <2>4. \A e \in told : e.rev >= d.rev /\ (e.rev = d.rev => e = d)
    BY <1>1, <1>4, <2>2, <2>3, ToldTail DEF Keeping, QueuesSound
  <2>5. \A e \in told : e.rev <= d.rev /\ e \in Draft
    <3>1. ASSUME NEW i \in DOMAIN down', down'[i].kind = "hydrate", down'[i].conv = n
          PROVE  down'[i].draft.rev <= d.rev /\ down'[i].draft \in Draft
      BY <2>3, <3>1, TailFacts, <1>1, HostMessageParts DEF Past, Keeping, QueuesSound
    <3>2. \A e \in told : \E i \in DOMAIN down' : down'[i].kind = "hydrate" /\ down'[i].conv = n /\ e = down'[i].draft
      <4>1. \A i \in DOMAIN down' : down'[i].kind = "hydrate" /\ StaysUntil(down', i, n) => down'[i].conv = n
        BY <1>1, TailFacts DEF StaysUntil
      <4> QED BY <2>3, <4>1 DEF Told
    <3> QED BY <3>1, <3>2
  <2> QED BY <2>2, <2>3, <1>1, StaysBoolean, <2>4, <2>5, ViewTurns DEF Draft
<1>8. Holding'
  <2>1. SUFFICES ASSUME NEW b \in Conv \ left'
                 PROVE  IF b = n THEN Own(b) \subseteq m.draft.text
                        ELSE HeldByHost(b, Own(b), Edits(up, b))
    BY <1>3, <1>4, <2>1 DEF Holding, HeldByHost, Stale
  <2>2. IF b = view.target THEN Own(b) \subseteq view.draft.text ELSE HeldByHost(b, Own(b), Edits(up, b))
    BY <1>4, <2>1 DEF Keeping, Holding
  <2>3. CASE b = n BY <2>3, <1>2, <1>6, <2>1, <2>2 DEF HeldByHost
  <2>4. CASE b # n /\ b = view.target
    <3>1. Follows(view.draft, drafts[b], Edits(up, b), Told(down, b), Stays(down, b), Gone)
      BY <1>4, <2>1, <2>4, NoneAssumption DEF Keeping, Following
    <3>2. Own(b) \cap Gone = {} BY DEF Own
    <3>3. Edits(up, b) = {} => view.draft.text \subseteq drafts[b].text
      BY <1>3, <2>1, <2>4, DraftsUnderWay
    <3>4. Own(b) \subseteq view.draft.text BY <2>2, <2>4
    <3>5. HeldByHost(b, Own(b), Edits(up, b)) BY <2>1, <3>1, <3>2, <3>3, <3>4, HostWillHave
    <3> QED BY <2>4, <3>5
  <2>5. CASE b # n /\ b # view.target BY <2>2, <2>5
  <2> QED BY <2>3, <2>4, <2>5
<1> QED BY <1>5, <1>7, <1>8 DEF Keeping

LEMMA ReceivesKeeps ==
    ASSUME TypesSound, Keeping, Receives
    PROVE  Keeping'
<1>1. down # <<>> /\ down' = Tail(down) /\ UNCHANGED <<drafts, native, typed, fate>> /\ view \in Views
  BY TypeParts DEF Receives, host
<1>2. PICK m : m = Head(down) OBVIOUS
<1>3. CASE m.kind = "hydrate" /\ m.conv # view.target /\ Turns(m) BY <1>1, <1>2, <1>3, TurnsKeeps
<1>4. CASE m.kind = "hydrate" /\ m.conv = view.target /\ Refreshes(m)
  BY <1>1, <1>2, <1>4, RefreshesKeeps
<1>5. CASE /\ m.kind = "status" /\ UNCHANGED <<up, left>>
           /\ view' = IF m.conv = view.target /\ m.rev = view.draft.rev
                      THEN [view EXCEPT !.label = m.label] ELSE view
  BY <1>1, <1>2, <1>5, HearsKeeps DEF Views
<1>6. CASE /\ m.kind = "result" /\ UNCHANGED <<up, left>>
           /\ view' = IF m.conv = view.target /\ view.pending \in {None, m.id}
                      THEN [view EXCEPT !.pending = None,
                              !.uncertain = IF m.status = "unconfirmed"
                                            THEN view.draft.text ELSE @]
                      ELSE view
  BY <1>1, <1>2, <1>6, HearsKeeps DEF Views
<1> QED BY <1>2, <1>3, <1>4, <1>5, <1>6 DEF Receives

\* A new document: what only the old one had is gone, what was on its way comes or does not.
LEMMA ReloadsKeeps ==
    ASSUME TypesSound, Keeping, Reloads
    PROVE  Keeping'
<1>1. /\ view' = Fresh /\ down' = <<>> /\ UNCHANGED <<drafts, native, typed, left>>
      /\ up \in Seq(ViewMessages)
  BY TypeParts DEF Reloads
<1>2. PICK kept \in {up, <<>>} : up' = Append(kept, [kind |-> "ready"]) BY DEF Reloads
<1> DEFINE shown == IF view.target = None THEN {} ELSE view.draft.text \ drafts[view.target].text
           onWay == UNION {up[i].draft.text \ drafts[up[i].conv].text :
                             i \in {j \in DOMAIN up : up[j].kind = "edit"}}
<1>3. Gone \subseteq Gone' /\ shown \subseteq Gone' /\ onWay \subseteq Gone'
  BY GoneStays DEF Fates, Reloads
<1>4. kept \in Seq(ViewMessages)
  <2>1. <<>> \in Seq(ViewMessages) OBVIOUS
  <2> QED BY <1>1, <1>2, <2>1
<1>5. PICK m : m = [kind |-> "ready"] OBVIOUS
<1>6. m \in ViewMessages /\ \A b : ~IsEdit(m, b) BY <1>5 DEF IsEdit, ViewMessages
<1>7. \A b : Edits(up', b) = Edits(kept, b) /\ (Increasing(kept, b) => Increasing(up', b))
  <2>1. up' = Append(kept, m) BY <1>2, <1>5
  <2>2. SUFFICES ASSUME NEW b
                 PROVE  Edits(up', b) = Edits(kept, b) /\ (Increasing(kept, b) => Increasing(up', b))
    OBVIOUS
  <2>3. /\ Edits(Append(kept, m), b) = Edits(kept, b) \cup (IF IsEdit(m, b) THEN {m.draft} ELSE {})
        /\ Increasing(kept, b) /\ (IsEdit(m, b) => \A e \in Edits(kept, b) : e.rev < m.draft.rev)
           => Increasing(Append(kept, m), b)
    BY <1>4, <1>6, EditsAppend
  <2> HIDE <1>5
  <2> QED BY <1>6, <2>1, <2>3
<1>8. \A b : (Edits(up', b) = Edits(up, b) \/ Edits(up', b) = {}) /\ (Increasing(up, b) => Increasing(up', b))
  <2>1. CASE kept = up BY <1>7, <2>1
  <2>2. CASE kept = <<>>
    <3>1. \A b : Edits(<<>>, b) = {} /\ Increasing(<<>>, b) BY DEF Edits, Increasing
    <3> QED BY <1>7, <2>2, <3>1
  <2> QED BY <1>2, <2>1, <2>2
<1>9. \A b : \A e \in Edits(up, b) : e.text \ drafts[b].text \subseteq Gone'
  <2>1. ASSUME NEW b, NEW i \in DOMAIN up, IsEdit(up[i], b)
        PROVE  up[i].draft.text \ drafts[b].text \subseteq onWay
    BY <2>1 DEF IsEdit
  <2> QED BY <1>3, <2>1 DEF Edits
<1>10. QueuesSound' BY <1>1, <1>8 DEF QueuesSound, Sorted, Keeping
<1>11. view'.target = None BY <1>1 DEF Fresh
<1>12. Holding'
  <2>1. SUFFICES ASSUME NEW b \in Conv \ left
                 PROVE  HeldByHost(b, Own(b), Edits(up, b))'
    BY <1>1, <1>11, NoneAssumption DEF Holding
  <2>2. IF b = view.target THEN Own(b) \subseteq view.draft.text ELSE HeldByHost(b, Own(b), Edits(up, b))
    BY <2>1 DEF Keeping, Holding
  <2>3. PICK own : own = Own(b)' OBVIOUS
  <2>4. own \subseteq Own(b) /\ own \cap Gone' = {} BY <1>1, <1>3, <2>3 DEF Own
  <2>5. CASE b = view.target
    <3>1. Follows(view.draft, drafts[b], Edits(up, b), Told(down, b), Stays(down, b), Gone)
      BY <2>1, <2>5, NoneAssumption DEF Keeping, Following
    <3>2. own \subseteq view.draft.text /\ own \cap Gone = {} BY <1>3, <2>2, <2>4, <2>5
    <3>3. own \subseteq drafts[b].text BY <2>4, <3>2, <1>3, <2>5, NoneAssumption
    <3>4. HeldByHost(b, own, Edits(up, b)) BY <2>1, <3>1, <3>2, <3>3, HostWillHave
    <3>5. CASE Edits(up', b) = Edits(up, b) BY <1>1, <2>3, <3>4, <3>5 DEF HeldByHost, Stale
    <3>6. CASE Edits(up', b) = {} BY <1>1, <2>3, <3>3, <3>6 DEF HeldByHost
    <3> QED BY <1>8, <3>5, <3>6
  <2>6. CASE b # view.target
    <3>1. HeldByHost(b, Own(b), Edits(up, b)) BY <2>2, <2>6
    <3>2. CASE Edits(up', b) = Edits(up, b) BY <1>1, <2>3, <2>4, <3>1, <3>2 DEF HeldByHost, Stale
    <3>3. CASE Edits(up', b) = {} BY <1>1, <2>3, <3>3, <1>9, <2>4, <3>1 DEF HeldByHost
    <3> QED BY <1>8, <3>2, <3>3
  <2> QED BY <2>5, <2>6
<1> QED BY <1>10, <1>11, <1>12 DEF Keeping, Following

\* Whatever the user and the view do keeps the queues, the view and the text.
AsksSomething ==
    \/ Activates \/ Toggles
    \/ \E explicit \in BOOLEAN : Sends(explicit)
    \/ \E append \in BOOLEAN : Recalls(append)

\* What the user asks of the host: the message, and what the view remembers of it.
LEMMA AsksParts ==
    ASSUME TypesSound, AsksSomething
    PROVE  \E m \in ViewMessages :
             /\ m.kind # "edit" /\ up' = Append(up, m)
             /\ view' \in Views /\ view'.target = view.target /\ view'.draft = view.draft /\ view'.label = view.label
             /\ view'.pending # view.pending => m \in Questions(view'.target, view'.pending)
             /\ view'.visible # view.visible => m.kind = "visible"
             /\ view.target # None /\ UNCHANGED <<host, native, down, ghost>>
<1>1. view \in Views /\ view.target \in Conv \cup {None} /\ view.draft \in Draft /\ view.visible \in BOOLEAN
  BY TypeParts, ViewParts
<1>2. CASE Activates
  <2>1. PICK c \in Conv \ {view.target} : up' = Append(up, [kind |-> "activate", conv |-> c])
    BY <1>2 DEF Activates, Acts, Posts
  <2>2. PICK m : m = [kind |-> "activate", conv |-> c] OBVIOUS
  <2> QED BY <1>1, <1>2, <2>1, <2>2 DEF Activates, ViewMessages
<1>3. CASE Toggles
  <2>1. PICK m : m = [kind |-> "visible", value |-> view'.visible] OBVIOUS
  <2>2. view' = [view EXCEPT !.visible = ~@] /\ up' = Append(up, m)
    BY <1>3, <2>1 DEF Toggles, Acts, Posts
  <2>3. /\ view' \in Views /\ view'.target = view.target /\ view'.draft = view.draft
        /\ view'.label = view.label /\ view'.pending = view.pending
    BY <1>1, <2>2 DEF Views
  <2>4. m \in ViewMessages /\ m.kind = "visible" BY <2>1, <2>3 DEF ViewMessages, Views
  <2> QED BY <1>3, <2>2, <2>3, <2>4 DEF Toggles
<1>4. ASSUME NEW explicit \in BOOLEAN, Sends(explicit)
      PROVE  \E m \in ViewMessages :
             /\ m.kind # "edit" /\ up' = Append(up, m)
             /\ view' \in Views /\ view'.target = view.target /\ view'.draft = view.draft /\ view'.label = view.label
             /\ view'.pending # view.pending => m \in Questions(view'.target, view'.pending)
             /\ view'.visible # view.visible => m.kind = "visible"
             /\ view.target # None /\ UNCHANGED <<host, native, down, ghost>>
  <2>1. events' \in Id /\ view.target \in Conv
    BY <1>1, <1>4, TypeParts, BoundsAssumption DEF Id, Sends, Happens
  <2>2. PICK id \in Id : id = events' BY <2>1
  <2>3. PICK m : m = [kind |-> "send", conv |-> view.target, id |-> id, draft |-> view.draft]
    OBVIOUS
  <2>4. view' = [view EXCEPT !.pending = id, !.uncertain = None] /\ up' = Append(up, m)
    BY <1>4, <2>2, <2>3 DEF Sends, Acts, Posts
  <2>5. /\ view' \in Views /\ view'.target = view.target /\ view'.draft = view.draft
        /\ view'.label = view.label /\ view'.pending = id /\ view'.visible = view.visible
    BY <1>1, <2>4 DEF Views
  <2>6. m \in ViewMessages /\ m.kind = "send" /\ m.conv = view.target /\ m.id = id
    BY <1>1, <2>1, <2>3 DEF ViewMessages
  <2>7. m \in Questions(view'.target, view'.pending) BY <2>5, <2>6 DEF Questions
  <2> QED BY <1>4, <2>4, <2>5, <2>6, <2>7 DEF Sends
<1>5. ASSUME NEW append \in BOOLEAN, Recalls(append)
      PROVE  \E m \in ViewMessages :
             /\ m.kind # "edit" /\ up' = Append(up, m)
             /\ view' \in Views /\ view'.target = view.target /\ view'.draft = view.draft /\ view'.label = view.label
             /\ view'.pending # view.pending => m \in Questions(view'.target, view'.pending)
             /\ view'.visible # view.visible => m.kind = "visible"
             /\ view.target # None /\ UNCHANGED <<host, native, down, ghost>>
  <2>1. view.target # None BY <1>5 DEF Recalls
  <2>2. PICK m : m = [kind |-> "recall", conv |-> view.target, append |-> append, rev |-> view.draft.rev]
    OBVIOUS
  <2>3. m \in ViewMessages /\ m.kind = "recall" BY <1>1, <2>1, ViewParts, <2>2 DEF ViewMessages
  <2>4. view' = view /\ up' = Append(up, m) BY <1>5, <2>2 DEF Recalls, Acts, Posts
  <2> QED BY <1>1, <1>5, <2>1, <2>3, <2>4 DEF Recalls
<1> QED BY <1>2, <1>3, <1>4, <1>5 DEF AsksSomething

LEMMA ViewKeeps ==
    ASSUME TypesSound, Keeping, Types \/ Erases \/ AsksSomething \/ Receives \/ Reloads
    PROVE  Keeping'
<1>1. CASE AsksSomething
  <2>1. PICK m \in ViewMessages :
             /\ m.kind # "edit" /\ up' = Append(up, m)
             /\ view'.target = view.target /\ view'.draft = view.draft
             /\ UNCHANGED <<host, native, down, ghost>>
    BY <1>1, AsksParts
  <2> QED BY <2>1, AsksKeeps DEF host, ghost
<1> QED BY <1>1, TypesKeeps, ErasesKeeps, ReceivesKeeps, ReloadsKeeps

--------------------
(* Steps of the view: that it and the host will agree *)

\* Whoever is told the present draft is told, in the end, how it stands.
LEMMA ToldTruth ==
    ASSUME NEW b \in Conv, NEW q \in Seq(HostMessages), drafts[b] \in Told(q, b),
           Mended(q, Labelling(b) \ LabellingTruly(b), LabellingTruly(b))
    PROVE  Has(q, LabellingTruly(b))
<1>1. PICK i \in DOMAIN q : q[i].kind = "hydrate" /\ StaysUntil(q, i, b) /\ q[i].draft = drafts[b]
  BY DEF Told
<1>2. CASE q[i] \in LabellingTruly(b) BY <1>2 DEF Has
<1>3. CASE q[i] \notin LabellingTruly(b)
  BY <1>1, <1>3 DEF Mended, Has, Labelling, Hydrations, StaysUntil
<1> QED BY <1>2, <1>3

\* A view that shows b to the end, and has not yet the present revision, is told it.
LEMMA ToldPresent ==
    ASSUME TypesSound, Keeping, NEW b \in Conv \ left, b = view.target, Stays(down, b),
           view.draft.rev < drafts[b].rev
    PROVE  drafts[b] \in Told(down, b)
<1>1. PICK x, d, edits, told, gone :
        x = view.draft /\ d = drafts[b] /\ edits = Edits(up, b) /\ told = Told(down, b) /\ gone = Gone
  OBVIOUS
<1>2. PICK stays \in BOOLEAN : stays = Stays(down, b) /\ stays BY StaysBoolean
<1>3. Follows(x, d, edits, told, stays, gone) BY <1>1, <1>2, NoneAssumption DEF Keeping, Following
<1>4. d.rev \in (x.rev + 1)..d.rev BY <1>1, TypeParts, ViewParts DEF Draft
<1>5. PICK n \in told : n.rev = d.rev BY <1>2, <1>3, <1>4 DEF Follows
<1> QED BY <1>1, <1>5, <1>3 DEF Follows

LEMMA UpGrows ==
    ASSUME TypesSound, NEW m \in ViewMessages, up' = Append(up, m)
    PROVE  \A good : Has(up', good) <=> Has(up, good) \/ m \in good
<1>1. up \in Seq(ViewMessages) BY TypeParts
<1>2. PICK r : r = <<m>> OBVIOUS
<1>3. r \in Seq(ViewMessages) /\ up' = up \o r /\ DOMAIN r = {1} /\ r[1] = m
  BY <1>1, <1>2, AppendFacts, OneMessage
<1>4. \A good : Has(r, good) <=> m \in good BY <1>3 DEF Has
<1> QED BY <1>1, <1>3, <1>4, HasConcat

\* What the view posts leaves all that it is told as it is.
LEMMA PostsAgrees ==
    ASSUME TypesSound, Agreeing, NEW m \in ViewMessages, up' = Append(up, m),
           UNCHANGED <<drafts, stored, saving, active, visible, sends, imports, down, left>>,
           view'.target = view.target,
           view'.pending # view.pending => m \in Questions(view'.target, view'.pending) /\ view.target # None,
           view'.visible # view.visible => m.kind = "visible",
           \A b \in Conv \ left :
              b = view.target /\ Stays(down, b) /\ Written(b) /\ view'.draft = drafts[b] =>
                 TrueLabel(b, view'.label) \/ Has(down, LabellingTruly(b))
    PROVE  Agreeing'
<1>1. \A good : Has(up', good) <=> Has(up, good) \/ m \in good BY UpGrows
<1>2. VisibleComes'
  <2>1. CASE view'.visible = view.visible BY <1>1, <2>1 DEF Agreeing, VisibleComes, AsVisible
  <2>2. CASE view'.visible # view.visible
    BY <1>1, <2>2 DEF Agreeing, VisibleComes, AsVisible, OfKinds
  <2> QED BY <2>1, <2>2
<1>3. PendingAnswered'
  <2>1. CASE view'.pending = view.pending BY <1>1, <2>1 DEF Agreeing, PendingAnswered
  <2>2. CASE view'.pending # view.pending BY <2>2, <1>1 DEF PendingAnswered
  <2> QED BY <2>1, <2>2
<1>4. LabelsSound'
  <2>1. \A b \in Conv : Written(b)' <=> Written(b) BY DEF Written, Importing
  <2>2. \A b \in Conv : Labelling(b)' = Labelling(b) /\ LabellingTruly(b)' = LabellingTruly(b)
    BY DEF Labelling, LabellingTruly, TrueLabel
  <2>3. ASSUME view'.target # None, view'.target \notin left', Stays(down', view'.target),
               Written(view.target)', view'.draft = drafts'[view'.target]
        PROVE  TrueLabel(view.target, view.label)' \/ Has(down', LabellingTruly(view.target)')
    <3>1. PICK b \in Conv : b = view.target BY <2>3, ViewParts
    <3>2. PICK label : label = view'.label OBVIOUS
    <3> QED BY <3>1, <3>2, <2>1, <2>3, <2>2 DEF TrueLabel
  <2> QED BY <2>1, <2>2, <2>3 DEF LabelsSound, Agreeing
<1> QED BY <1>1, <1>2, <1>3, <1>4 DEF Agreeing, ActiveComes, OfActive

LEMMA ChangesAgrees ==
    ASSUME TypesSound, Keeping, Agreeing, NEW text \in Text, Changes(text),
           UNCHANGED <<drafts, stored, saving, active, visible, sends, imports, down, left>>
    PROVE  Agreeing'
<1>1. PICK n : n = [rev |-> view.draft.rev + 1, text |-> text] OBVIOUS
<1>2. /\ view.target # None /\ view.target \in Conv /\ view.draft.rev \in Nat /\ view \in Views
      /\ down \in Seq(HostMessages)
  BY TypeParts, ViewParts DEF Changes
<1>3. n \in Draft /\ n.rev = view.draft.rev + 1 BY <1>1, <1>2 DEF Draft
<1>4. PICK m : m = EditOf(view.target, n) OBVIOUS
<1>5. up' = Append(up, m) BY <1>1, <1>4 DEF Changes, Acts, Posts
<1>6. /\ view'.target = view.target /\ view'.draft = n /\ view'.pending = view.pending
      /\ view'.visible = view.visible
  BY <1>1, <1>2 DEF Changes, Views
<1>7. ASSUME NEW b \in Conv \ left, b = view.target, Stays(down, b), Written(b), view'.draft = drafts[b]
      PROVE  Has(down, LabellingTruly(b))
  <2>1. Mended(down, Labelling(b) \ LabellingTruly(b), LabellingTruly(b))
    BY <1>7 DEF Agreeing, LabelsSound
  <2> QED BY <1>2, <1>3, <1>6, <1>7, ToldPresent, <2>1, ToldTruth
<1> QED BY <1>2, <1>3, <1>4, <1>5, <1>6, <1>7, PostsAgrees DEF EditOf, ViewMessages

LEMMA UserAgrees ==
    ASSUME TypesSound, Keeping, Agreeing, Types \/ Erases \/ AsksSomething
    PROVE  Agreeing'
<1>1. CASE Types
  <2>1. PICK text : text = view.draft.text \cup {Len(typed) + 1} OBVIOUS
  <2>2. typed \in Seq(Conv) /\ Len(typed) \in Nat /\ Len(typed) < MaxPieces /\ view.draft.text \in Text
    BY <1>1, TypeParts, ViewParts DEF Types
  <2>3. text \in Text BY <2>1, <2>2, BoundsAssumption DEF Text, Piece
  <2>4. /\ Changes(text)
        /\ UNCHANGED <<drafts, stored, saving, active, visible, sends, imports, down, left>>
    BY <1>1, <2>1 DEF Types, host
  <2> QED BY <2>3, <2>4, ChangesAgrees
<1>2. CASE Erases
  <2>1. PICK erased \in SUBSET view.draft.text : Changes(view.draft.text \ erased)
    BY <1>2 DEF Erases
  <2>2. UNCHANGED <<drafts, stored, saving, active, visible, sends, imports, down, left>>
    BY <1>2 DEF Erases, host
  <2>3. view.draft.text \ erased \in Text BY ViewParts DEF Text
  <2> QED BY <2>1, <2>2, <2>3, ChangesAgrees
<1>3. CASE AsksSomething
  <2>1. PICK m \in ViewMessages :
             /\ up' = Append(up, m)
             /\ view'.target = view.target /\ view'.draft = view.draft /\ view'.label = view.label
             /\ view'.pending # view.pending => m \in Questions(view'.target, view'.pending)
             /\ view'.visible # view.visible => m.kind = "visible"
             /\ view.target # None /\ UNCHANGED <<host, native, down, ghost>>
    BY <1>3, AsksParts
  <2>2. UNCHANGED <<drafts, stored, saving, active, visible, sends, imports, down, left>>
    BY <2>1 DEF host, ghost
  <2>3. \A b \in Conv \ left :
          b = view.target /\ Stays(down, b) /\ Written(b) /\ view'.draft = drafts[b] =>
             TrueLabel(b, view'.label) \/ Has(down, LabellingTruly(b))
    BY <2>1 DEF Agreeing, LabelsSound
  <2> QED BY <2>1, <2>2, <2>3, PostsAgrees
<1> QED BY <1>1, <1>2, <1>3

\* What the view takes from the queue it has, or is told better later.
LEMMA TakenAgrees ==
    ASSUME TypesSound, Agreeing, down # <<>>, down' = Tail(down), NEW m, m = Head(down),
           UNCHANGED <<drafts, stored, saving, active, visible, sends, imports>>,
           \A good : Has(up, good) => Has(up', good), left \subseteq left',
           m.kind = "hydrate" => view'.target = m.conv /\ view'.visible = m.visible,
           m.kind # "hydrate" => view'.target = view.target /\ view'.visible = view.visible,
           view'.pending # None =>
              /\ view'.target = view.target /\ view'.pending = view.pending
              /\ m \notin Answers(view.target, view.pending),
           \A b \in Conv \ left' :
              b = view'.target /\ Stays(down', b) /\ Written(b) /\ view'.draft = drafts[b] =>
                 TrueLabel(b, view'.label) \/ Has(down', LabellingTruly(b))
    PROVE  Agreeing'
<1>1. down \in Seq(HostMessages) /\ m \in HostMessages /\ down' \in Seq(HostMessages)
  BY TypeParts, TailFacts
<1>2. \A good : Has(down, good) <=> m \in good \/ Has(down', good) BY <1>1, HasTail
<1>3. \A bad, good : Mended(down, bad, good) => Mended(down', bad, good) /\ (m \in bad => Has(down', good))
  BY <1>1, MendedTail
<1>4. m.conv \in Conv /\ m.conv # None BY <1>1, HostMessageParts, NoneAssumption
<1>5. ActiveComes'
  <2>1. /\ Mended(down', Hydrations \ OfActive, OfActive)
        /\ m \in Hydrations \ OfActive => Has(down', OfActive)
    BY <1>3 DEF Agreeing, ActiveComes
  <2>2. CASE m.kind = "hydrate" BY <1>4, <2>1, <2>2, <1>1 DEF ActiveComes, OfActive, Hydrations
  <2>3. CASE m.kind # "hydrate" BY <2>1, <2>3, <1>2 DEF ActiveComes, OfActive, Agreeing, Hydrations
  <2> QED BY <2>2, <2>3
<1>6. VisibleComes'
  <2>1. /\ Mended(down', Hydrations \ AsVisible, AsVisible)
        /\ m \in Hydrations \ AsVisible => Has(down', AsVisible)
    BY <1>3 DEF Agreeing, VisibleComes
  <2>2. CASE m.kind = "hydrate" BY <2>1, <2>2, <1>1 DEF VisibleComes, AsVisible, Hydrations
  <2>3. CASE m.kind # "hydrate"
    BY <2>1, <2>3, <1>2 DEF VisibleComes, AsVisible, Agreeing, Hydrations
  <2> QED BY <2>2, <2>3
<1>7. PendingAnswered'
  <2>1. SUFFICES ASSUME view'.pending # None
                 PROVE  /\ view'.target # None
                        /\ \/ ~Stays(down', view'.target)
                           \/ Has(up', Questions(view'.target, view'.pending))
                           \/ Has(sends'[view'.target], Sent(view'.pending))
                           \/ Has(down', Answers(view'.target, view'.pending))
    BY DEF PendingAnswered, Questions, Sent, Answers
  <2>2. PICK b, id : b = view.target /\ id = view.pending OBVIOUS
  <2>3. view'.target = b /\ view'.pending = id /\ m \notin Answers(b, id) /\ sends' = sends /\ id # None
    BY <2>1, <2>2
  <2>4. Stays(down', b) => Stays(down, b) BY <1>1, <2>3, ToldTail DEF IsHydration
  <2> QED BY <1>2, <2>3, <2>2, <2>4 DEF Agreeing, PendingAnswered
<1>8. LabelsSound'
  <2>1. \A b \in Conv : Written(b)' <=> Written(b) BY DEF Written, Importing
  <2>2. \A b \in Conv : Labelling(b)' = Labelling(b) /\ LabellingTruly(b)' = LabellingTruly(b)
    BY DEF Labelling, LabellingTruly, TrueLabel
  <2>3. ASSUME view'.target # None, view'.target \notin left', Stays(down', view'.target),
               Written(view.target)', view'.draft = drafts'[view'.target]
        PROVE  TrueLabel(view.target, view.label)' \/ Has(down', LabellingTruly(view.target)')
    <3>1. PICK b \in Conv : b = view'.target
      <4>1. view'.target \in Conv
        <5>1. CASE m.kind = "hydrate" BY <1>4, <5>1
        <5>2. CASE m.kind # "hydrate" BY <2>3, <5>2, ViewParts
        <5> QED BY <5>1, <5>2
      <4> QED BY <4>1
    <3>2. PICK label : label = view'.label OBVIOUS
    <3> QED BY <3>1, <3>2, <2>1, <2>3, <2>2 DEF TrueLabel
  <2> QED BY <1>3, <2>1, <2>2, <2>3 DEF LabelsSound, Agreeing
<1> QED BY <1>5, <1>6, <1>7, <1>8 DEF Agreeing

\* A message that labels the present draft is right, or a right one follows it.
LEMMA HeardLabel ==
    ASSUME TypesSound, Agreeing, down # <<>>, down' = Tail(down), NEW m, m = Head(down),
           NEW b \in Conv, Written(b)
    PROVE  /\ m \in Labelling(b) => TrueLabel(b, m.label) \/ Has(down', LabellingTruly(b))
           /\ m \notin Labelling(b) /\ Has(down, LabellingTruly(b)) => Has(down', LabellingTruly(b))
           /\ Mended(down', Labelling(b) \ LabellingTruly(b), LabellingTruly(b))
<1>1. down \in Seq(HostMessages) BY TypeParts
<1>2. PICK all, good : all = Labelling(b) /\ good = LabellingTruly(b) OBVIOUS
<1>3. Has(down, good) <=> m \in good \/ Has(down', good) BY <1>1, HasTail
<1>4. m \in good <=> m \in all /\ TrueLabel(b, m.label) BY <1>2 DEF LabellingTruly
<1> QED BY <1>2, <1>1, MendedTail, <1>3, <1>4 DEF Agreeing, LabelsSound

\* How the view stood, if the message it took was of the session it shows, or told no draft.
LEMMA LabelBefore ==
    ASSUME TypesSound, Agreeing, down # <<>>, down' = Tail(down), NEW m, m = Head(down),
           NEW b \in Conv \ left, b = view.target, Written(b), Stays(down', b), view.draft = drafts[b],
           m.kind # "hydrate" \/ m.conv = b
    PROVE  TrueLabel(b, view.label) \/ Has(down, LabellingTruly(b))
<1> QED BY TypeParts, NoneAssumption, ToldTail DEF Agreeing, LabelsSound, IsHydration

LEMMA HearsAgrees ==
    ASSUME TypesSound, Agreeing, down # <<>>, down' = Tail(down), NEW m, m = Head(down),
           UNCHANGED <<host, up, left>>,
           \/ /\ m.kind = "status"
              /\ view' = IF m.conv = view.target /\ m.rev = view.draft.rev
                         THEN [view EXCEPT !.label = m.label] ELSE view
           \/ /\ m.kind = "result"
              /\ view' = IF m.conv = view.target /\ view.pending \in {None, m.id}
                         THEN [view EXCEPT !.pending = None,
                                 !.uncertain = IF m.status = "unconfirmed"
                                               THEN view.draft.text ELSE @]
                         ELSE view
    PROVE  Agreeing'
<1>1. down \in Seq(HostMessages) /\ m \in HostMessages /\ view \in Views BY TypeParts, TailFacts
<1>2. UNCHANGED <<drafts, stored, saving, active, visible, sends, imports>> BY DEF host
<1>3. CASE /\ m.kind = "status"
           /\ view' = IF m.conv = view.target /\ m.rev = view.draft.rev
                      THEN [view EXCEPT !.label = m.label] ELSE view
  <2>1. /\ view'.target = view.target /\ view'.visible = view.visible /\ view'.draft = view.draft
        /\ view'.pending = view.pending
        /\ view'.label = IF m.conv = view.target /\ m.rev = view.draft.rev THEN m.label ELSE view.label
    BY <1>1, <1>3 DEF Views
  <2>2. ASSUME NEW b \in Conv \ left, b = view'.target, Stays(down', b), Written(b), view'.draft = drafts[b]
        PROVE  TrueLabel(b, view'.label) \/ Has(down', LabellingTruly(b))
    <3>1. CASE m.conv = b /\ m.rev = drafts[b].rev
      <4>1. m \in Labelling(b) BY <1>1, <1>3, <3>1 DEF Labelling
      <4>2. TrueLabel(b, m.label) \/ Has(down', LabellingTruly(b)) BY <2>2, <4>1, HeardLabel
      <4> QED BY <4>2, <2>1, <2>2, <3>1
    <3>2. CASE ~(m.conv = b /\ m.rev = drafts[b].rev)
      <4>1. m \notin Labelling(b) BY <1>3, <3>2 DEF Labelling, Hydrations
      <4>2. Has(down, LabellingTruly(b)) => Has(down', LabellingTruly(b)) BY <2>2, <4>1, HeardLabel
      <4> QED BY <3>2, <1>3, <2>1, <2>2, LabelBefore, <4>2
    <3> QED BY <3>1, <3>2
  <2> QED BY <1>2, <1>3, <2>1, <2>2, TakenAgrees DEF Answers
<1>4. CASE /\ m.kind = "result"
           /\ view' = IF m.conv = view.target /\ view.pending \in {None, m.id}
                      THEN [view EXCEPT !.pending = None,
                              !.uncertain = IF m.status = "unconfirmed"
                                            THEN view.draft.text ELSE @]
                      ELSE view
  <2>1. /\ view'.target = view.target /\ view'.visible = view.visible /\ view'.draft = view.draft
        /\ view'.label = view.label
        /\ view'.pending = IF m.conv = view.target /\ view.pending \in {None, m.id} THEN None ELSE view.pending
    BY <1>1, <1>4 DEF Views
  <2>2. ASSUME view'.pending # None
        PROVE  view'.pending = view.pending /\ m \notin Answers(view.target, view.pending)
    BY <2>1, <2>2 DEF Answers
  <2>3. ASSUME NEW b \in Conv \ left, b = view'.target, Stays(down', b), Written(b), view'.draft = drafts[b]
        PROVE  TrueLabel(b, view'.label) \/ Has(down', LabellingTruly(b))
    <3>1. m \notin Labelling(b) BY <1>4 DEF Labelling, Hydrations
    <3>2. Has(down, LabellingTruly(b)) => Has(down', LabellingTruly(b)) BY <2>3, <3>1, HeardLabel
    <3> QED BY <2>1, <1>4, <2>3, LabelBefore, <3>2
  <2> QED BY <1>2, <1>4, <2>1, <2>2, <2>3, TakenAgrees
<1> QED BY <1>3, <1>4

LEMMA RefreshesAgrees ==
    ASSUME TypesSound, Keeping, Agreeing, down # <<>>, down' = Tail(down), NEW m, m = Head(down),
           m.kind = "hydrate", m.conv = view.target, Refreshes(m), UNCHANGED host
    PROVE  Agreeing'
<1>1. /\ down \in Seq(HostMessages) /\ down' \in Seq(HostMessages) /\ m \in HostMessages /\ view \in Views
      /\ view.draft.rev \in Nat /\ up \in Seq(ViewMessages)
  BY TypeParts, TailFacts, ViewParts
<1>2. m.conv \in Conv /\ m.draft \in Draft /\ m.draft.rev \in Nat /\ view.target \in Conv /\ view.target # None
  BY <1>1, HostMessageParts, NoneAssumption DEF Draft
<1>3. UNCHANGED <<drafts, stored, saving, active, visible, sends, imports>> /\ left' = left
  BY DEF host, Refreshes
<1>4. PICK x : x = view.draft OBVIOUS
<1>5. x \in Draft /\ x.rev \in Nat BY <1>1, <1>4, ViewParts
<1>6. m \notin Answers(view.target, view.pending) BY DEF Answers
<1>7. CASE \/ /\ m.draft.rev > x.rev \/ m.draft = x
              /\ view' = [Sets(m.draft) EXCEPT !.label = m.label, !.visible = m.visible]
              /\ UNCHANGED up
           \/ /\ m.draft.rev < x.rev
              /\ view' = [view EXCEPT !.visible = m.visible]
              /\ UNCHANGED up
  <2>1. /\ view'.target = view.target /\ view'.visible = m.visible /\ view'.pending = view.pending
        /\ \/ view'.draft = m.draft /\ view'.label = m.label
           \/ m.draft.rev < x.rev /\ view'.draft = x /\ view'.label = view.label
    BY <1>1, <1>4, <1>7 DEF Sets, Views
  <2>2. ASSUME NEW b \in Conv \ left, b = view'.target, Stays(down', b), Written(b), view'.draft = drafts[b]
        PROVE  TrueLabel(b, view'.label) \/ Has(down', LabellingTruly(b))
    <3>1. CASE view'.draft = m.draft /\ view'.label = m.label
      <4>1. m \in Labelling(b) BY <1>1, <2>1, <2>2, <3>1 DEF Labelling, Hydrations
      <4>2. TrueLabel(b, m.label) \/ Has(down', LabellingTruly(b)) BY <2>2, <4>1, HeardLabel
      <4> QED BY <3>1, <4>2
    <3>2. CASE m.draft.rev < x.rev /\ view'.draft = x /\ view'.label = view.label
      <4>1. m \notin Labelling(b) BY <1>2, <1>5, <2>2, <3>2 DEF Labelling
      <4>2. Has(down, LabellingTruly(b)) => Has(down', LabellingTruly(b)) BY <2>2, <4>1, HeardLabel
      <4> QED BY <3>2, <1>4, <2>1, <2>2, LabelBefore, <4>2
    <3> QED BY <2>1, <3>1, <3>2
  <2> QED BY <1>3, <1>6, <2>1, <2>2, <1>7, TakenAgrees
<1>8. CASE /\ m.draft.rev = x.rev /\ m.draft # x
           /\ view' = [Sets([x EXCEPT !.rev = @ + 1]) EXCEPT !.label = "saving", !.visible = m.visible]
           /\ Posts(EditOf(m.conv, [x EXCEPT !.rev = @ + 1]))
  <2>1. PICK n : n = [x EXCEPT !.rev = @ + 1] OBVIOUS
  <2>2. n \in Draft /\ n.rev = x.rev + 1 BY <1>5, <2>1 DEF Draft
  <2>3. PICK e : e = EditOf(m.conv, n) OBVIOUS
  <2>4. up' = Append(up, e) /\ view' = [[view EXCEPT !.draft = n] EXCEPT !.label = "saving", !.visible = m.visible]
    BY <1>8, <2>1, <2>3 DEF Posts, Sets
  <2>5. /\ view'.target = view.target /\ view'.visible = m.visible /\ view'.pending = view.pending
        /\ view'.draft = n
    BY <1>1, <2>4 DEF Views
  <2>6. ASSUME NEW b \in Conv \ left, b = view'.target, Stays(down', b), Written(b), view'.draft = drafts[b]
        PROVE  Has(down', LabellingTruly(b))
    <3>1. b = view.target /\ view.draft.rev < drafts[b].rev BY <1>4, <1>5, <2>2, <2>5, <2>6
    <3>2. Told(down, b) = Told(down', b) \cup {m.draft} /\ Stays(down, b)
      BY <1>1, <2>6, <2>5, ToldTail DEF IsHydration
    <3>3. drafts[b] # m.draft BY <1>4, <1>5, <1>8, <3>1
    <3>4. drafts[b] \in Told(down', b) BY <3>2, <3>1, ToldPresent, <3>3
    <3>5. Mended(down', Labelling(b) \ LabellingTruly(b), LabellingTruly(b)) BY <2>6, HeardLabel
    <3>6. PICK q \in Seq(HostMessages) : q = down' BY <1>1
    <3>7. Has(q, LabellingTruly(b)) BY <3>4, <3>5, <3>6, ToldTruth
    <3> QED BY <3>6, <3>7
  <2> QED
    BY <1>3, <1>6, <2>5, <1>2, <2>2, <2>3, <2>4, UpGrows, <2>6, TakenAgrees DEF EditOf, ViewMessages
<1> QED BY <1>4, <1>7, <1>8, <1>2, <1>5 DEF Refreshes

LEMMA TurnsAgrees ==
    ASSUME TypesSound, Agreeing, down # <<>>, down' = Tail(down), NEW m, m = Head(down),
           m.kind = "hydrate", Turns(m), UNCHANGED host
    PROVE  Agreeing'
<1>1. m \in HostMessages /\ view \in Views /\ down \in Seq(HostMessages) BY TypeParts, TailFacts
<1>2. /\ view'.target = m.conv /\ view'.draft = m.draft /\ view'.visible = m.visible
      /\ view'.label = m.label /\ view'.pending = None /\ up' = up /\ left \subseteq left'
  BY <1>1 DEF Turns, Sets, Views
<1>3. ASSUME NEW b \in Conv \ left', b = view'.target, Stays(down', b), Written(b), view'.draft = drafts[b]
      PROVE  TrueLabel(b, view'.label) \/ Has(down', LabellingTruly(b))
  <2>1. m \in Labelling(b) BY <1>1, <1>2, <1>3 DEF Labelling, Hydrations
  <2> QED BY <1>2, <1>3, <2>1, HeardLabel
<1> QED BY <1>2, <1>3, TakenAgrees DEF host

LEMMA ReceivesAgrees ==
    ASSUME TypesSound, Keeping, Agreeing, Receives
    PROVE  Agreeing'
<1>1. down # <<>> /\ down' = Tail(down) /\ UNCHANGED host BY DEF Receives
<1>2. PICK m : m = Head(down) OBVIOUS
<1>3. CASE m.kind = "hydrate" /\ m.conv # view.target /\ Turns(m) BY <1>1, <1>2, <1>3, TurnsAgrees
<1>4. CASE m.kind = "hydrate" /\ m.conv = view.target /\ Refreshes(m)
  BY <1>1, <1>2, <1>4, RefreshesAgrees
<1>5. CASE /\ m.kind = "status" /\ UNCHANGED <<up, left>>
           /\ view' = IF m.conv = view.target /\ m.rev = view.draft.rev
                      THEN [view EXCEPT !.label = m.label] ELSE view
  BY <1>1, <1>2, <1>5, HearsAgrees
<1>6. CASE /\ m.kind = "result" /\ UNCHANGED <<up, left>>
           /\ view' = IF m.conv = view.target /\ view.pending \in {None, m.id}
                      THEN [view EXCEPT !.pending = None,
                              !.uncertain = IF m.status = "unconfirmed"
                                            THEN view.draft.text ELSE @]
                      ELSE view
  BY <1>1, <1>2, <1>6, HearsAgrees
<1> QED BY <1>2, <1>3, <1>4, <1>5, <1>6 DEF Receives

\* A new document waits to be told all.
LEMMA ReloadsAgrees ==
    ASSUME TypesSound, Reloads
    PROVE  Agreeing'
<1>1. view' = Fresh /\ down' = <<>> /\ up \in Seq(ViewMessages) BY TypeParts DEF Reloads
<1>2. PICK kept \in {up, <<>>} : up' = Append(kept, [kind |-> "ready"]) BY DEF Reloads
<1>3. PICK m : m = [kind |-> "ready"] OBVIOUS
<1>4. kept \in Seq(ViewMessages)
  <2>1. <<>> \in Seq(ViewMessages) OBVIOUS
  <2> QED BY <1>1, <1>2, <2>1
<1>5. Has(up', OfKinds({"ready"})) /\ Has(up', OfKinds({"ready", "visible"}))
  BY <1>2, <1>3, <1>4 DEF Has, OfKinds, ViewMessages
<1>6. view'.target = None /\ view'.pending = None BY <1>1 DEF Fresh
<1>7. \A bad, good : Mended(down', bad, good) BY <1>1 DEF Mended
<1>8. VisibleComes' BY <1>5, <1>7 DEF VisibleComes, AsVisible
<1> QED BY <1>5, <1>7, <1>8, <1>6 DEF Agreeing, PendingAnswered, ActiveComes, OfActive, LabelsSound

--------------------
(* The invariant, and what it says once everything has arrived *)

LEMMA KeepingInit == Init => Keeping
<1> SUFFICES ASSUME Init PROVE Keeping OBVIOUS
<1>1. up = <<[kind |-> "ready"]>> /\ down = <<>> /\ typed = <<>> /\ view.target = None
  BY DEF Init, Fresh
<1>2. \A i \in DOMAIN up : up[i].kind = "ready" BY <1>1
<1>3. Holding
  <2>1. SUFFICES ASSUME NEW c \in Conv \ left
                 PROVE  c # view.target /\ HeldByHost(c, Own(c), Edits(up, c))
    BY DEF Holding
  <2> QED BY <1>1, <1>2, NoneAssumption DEF HeldByHost, Edits, IsEdit, Own
<1> QED BY <1>3, <1>1, <1>2 DEF Keeping, QueuesSound, Increasing, IsEdit, Sorted, Following

LEMMA AgreeingInit == Init => Agreeing
<1> SUFFICES ASSUME Init PROVE Agreeing OBVIOUS
<1>1. down = <<>> /\ view.target = None /\ view.pending = None BY DEF Init, Fresh
<1>2. PICK m : m = [kind |-> "ready"] OBVIOUS
<1>3. Has(up, OfKinds({"ready"})) /\ Has(up, OfKinds({"ready", "visible"}))
  BY <1>2 DEF Has, OfKinds, ViewMessages, Init
<1>4. \A bad, good : Mended(down, bad, good) BY <1>1 DEF Mended
<1> QED BY <1>3, <1>1, <1>4 DEF Agreeing, PendingAnswered, LabelsSound, ActiveComes, VisibleComes

\* A step in which nothing changes keeps all of it.
LEMMA NothingKeeps ==
    ASSUME WorkSound, Keeping, Agreeing, UNCHANGED vars
    PROVE  WorkSound' /\ Keeping' /\ Agreeing'
<1>1. /\ UNCHANGED <<drafts, stored, saving, active, visible, sends, uncertainties, recent, imports>>
      /\ UNCHANGED <<native, view, up, down, typed, fate, left, events>>
  BY DEF vars, host, ghost
<1>2. WorkSound'
  BY <1>1 DEF WorkSound, WorkOf, RecentSound, StoredSound, SendsSound, ImportSound, CopySound,
     Importing, Past
<1>3. Holding' BY <1>1 DEF Keeping, Holding, HeldByHost, Own, Gone, Stale
<1>4. ActiveComes' /\ VisibleComes'
  BY <1>1 DEF Agreeing, ActiveComes, VisibleComes, OfActive, AsVisible
<1>5. LabelsSound'
  BY <1>1 DEF Agreeing, LabelsSound, Labelling, LabellingTruly, TrueLabel, Written, Importing
<1> QED
  BY <1>2, <1>3, <1>4, <1>1, <1>5 DEF Keeping, Agreeing, PendingAnswered, QueuesSound, Past,
     Following, Gone

LEMMA InvariantStep == IInv /\ [Next]_vars => IInv'
<1> SUFFICES ASSUME IInv, [Next]_vars PROVE IInv' OBVIOUS
<1>1. TypesSound /\ WorkSound /\ Keeping /\ Agreeing /\ ActiveComes BY DEF IInv, Agreeing
<1>2. TypesSound' BY <1>1, TypesStep
<1>3. CASE UNCHANGED vars BY <1>1, <1>2, <1>3, NothingKeeps DEF IInv
<1>4. CASE Next
  <2>1. HostSteps \/ (Types \/ Erases \/ AsksSomething) \/ Receives \/ Reloads
    BY <1>4 DEF Next, HostSteps, AsksSomething
  <2> QED
    BY <1>2, <1>1, <1>4, WorkStep, <2>1, HostKeeps, ViewKeeps, HostAgrees, UserAgrees,
       ReceivesAgrees, ReloadsAgrees DEF IInv
<1> QED BY <1>3, <1>4

LEMMA Invariance == Spec => []IInv
<1>1. Init => IInv BY TypesInit, WorkInit, KeepingInit, AgreeingInit DEF IInv
<1> QED BY <1>1, InvariantStep, PTL DEF Spec

\* With nothing on its way, the view has the host's draft of the session that it shows.
LEMMA DraftAgrees ==
    ASSUME TypesSound, Keeping, up = <<>>, down = <<>>, view.target # None, view.target \notin left
    PROVE  view.draft = drafts[view.target]
<1>1. PICK c : c = view.target OBVIOUS
<1>2. c \in Conv /\ drafts[c] \in Draft /\ view.draft \in Draft BY <1>1, TypeParts, ViewParts
<1>3. Edits(up, c) = {} /\ Told(down, c) = {} /\ Stays(down, c) = TRUE BY DEF Edits, Told, Stays
<1>4. Follows(view.draft, drafts[c], {}, {}, TRUE, Gone) BY <1>1, <1>3 DEF Keeping, Following
<1> QED BY <1>1, <1>2, <1>4, ViewHas

\* Whatever the user typed, in the editor or in Claude's box, is in the draft or in the
\* box once everything has arrived, unless it was sent or erased.
THEOREM TextNeverLost == Spec => []TextSurvives
<1>1. ASSUME IInv PROVE TextSurvives
  <2>1. SUFFICES ASSUME AtRest, NEW p \in DOMAIN typed, NEW c, c = typed[p], c \notin left,
                        p \notin native[c] \cup Gone
                 PROVE  p \in drafts[c].text
    BY DEF TextSurvives
  <2>2. TypesSound /\ Keeping /\ up = <<>> /\ down = <<>> BY <1>1, <2>1 DEF IInv, AtRest
  <2>3. c \in Conv \ left /\ p \in Own(c) BY <2>1, <2>2, TypeParts DEF Own
  <2>4. CASE c = view.target BY <2>3, <2>2, <2>4, NoneAssumption, DraftAgrees DEF Keeping, Holding
  <2>5. CASE c # view.target BY <2>3, <2>2, <2>5 DEF HeldByHost, Keeping, Holding, Edits
  <2> QED BY <2>4, <2>5
<1> QED BY <1>1, Invariance, PTL

\* Once everything has arrived, the editor shows the session that is active and the draft
\* the host has; it does not go on saving or sending, and calls saved only what is.
THEOREM ViewAgreesAlways == Spec => []ViewAgrees
<1>1. ASSUME IInv PROVE ViewAgrees
  <2>1. SUFFICES ASSUME AtRest
                 PROVE  /\ view.target = active /\ view.visible = visible /\ view.pending = None
                        /\ active \notin left =>
                             /\ view.draft = drafts[active]
                             /\ view.label # "saving"
                             /\ view.label = "saved" => view.draft = stored[active]
    BY DEF ViewAgrees
  <2>2. TypesSound /\ Keeping /\ ActiveComes /\ VisibleComes /\ PendingAnswered /\ LabelsSound
    BY <1>1 DEF IInv, Agreeing
  <2>3. up = <<>> /\ down = <<>> /\ active \in Conv BY <2>1, <2>2, TypeParts DEF AtRest
  <2>4. \A good : ~Has(up, good) /\ ~Has(down, good) BY <2>3 DEF Has
  <2>5. view.target = active /\ active # None BY <2>2, <2>3, <2>4, NoneAssumption DEF ActiveComes
  <2>6. Stays(down, active) BY <2>3 DEF Stays
  <2>7. view.pending = None BY <2>2, <2>4, <2>5, <2>6, <2>1, <2>3 DEF PendingAnswered, AtRest, Has
  <2>8. ASSUME active \notin left
        PROVE  view.draft = drafts[active] /\ TrueLabel(active, view.label)
    BY <2>3, DraftAgrees, <2>2, <2>4, <2>5, <2>6, <2>8, <2>1 DEF LabelsSound, AtRest, Written,
       Importing
  <2> QED BY <2>5, <2>2, <2>4, <2>7, <2>8 DEF TrueLabel, VisibleComes
<1> QED BY <1>1, Invariance, PTL
=============================================================================
