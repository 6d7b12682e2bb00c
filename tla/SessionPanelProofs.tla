------------------------- MODULE SessionPanelProofs -------------------------
(***************************************************************************)
(* Proofs about SessionPanel, for any number of sessions, conversations,   *)
(* documents and events: its types; that the panel offers no conversation  *)
(* that is live or whose metadata was forgotten; and that, once nothing is *)
(* under way, the document shows the sessions, the selection, the output,  *)
(* the conversations to resume and the drafts that there are.              *)
(*                                                                         *)
(* The last one needs to say what the messages under way will make of the  *)
(* document they are for: PanelSound, built from one invariant for each    *)
(* kind of news (the list of sessions, removals, the selection, what can   *)
(* be resumed, revisions and pages of drafts).                             *)
(***************************************************************************)
EXTENDS SessionPanel, FiniteSetTheorems, WellFoundedInduction, TLAPS

--------------------
(* Numbers and sequences *)

\* A set of natural numbers that is not empty has a least element.
LEMMA LeastNumber ==
    ASSUME NEW T \in SUBSET Nat, T # {}
    PROVE  \E x \in T : \A y \in T : x <= y
<1>1. PICK x \in T : \A y \in T : ~(<<y, x>> \in OpToRel(<, Nat))
  BY NatLessThanWellFounded, WFMin, Zenon
<1>2. \A y \in T : ~(y < x) BY <1>1, Zenon DEF OpToRel
<1> QED BY <1>2

\* What is not so for the first of the numbers up to n, and not so for the
\* next when not for one, is so for none.
LEMMA NoneUpTo ==
    ASSUME NEW n \in Nat, NEW bad \in SUBSET (0..n), 0 \notin bad,
           \A i \in 1..n : i \in bad => i - 1 \in bad
    PROVE  bad = {}
<1> SUFFICES ASSUME bad # {} PROVE FALSE OBVIOUS
<1>1. bad \in SUBSET Nat OBVIOUS
<1>2. PICK x \in bad : \A y \in bad : x <= y BY <1>1, LeastNumber
<1> QED BY <1>2, <1>1

LEMMA ConcatFacts ==
    ASSUME NEW S, NEW q \in Seq(S), NEW ms \in Seq(S)
    PROVE  /\ q \o ms \in Seq(S)
           /\ Len(q \o ms) = Len(q) + Len(ms)
           /\ DOMAIN (q \o ms) = 1..(Len(q) + Len(ms))
           /\ \A i \in 1..Len(q) : (q \o ms)[i] = q[i]
           /\ \A i \in 1..Len(ms) : (q \o ms)[Len(q) + i] = ms[i]
OBVIOUS

LEMMA TailFacts ==
    ASSUME NEW S, NEW q \in Seq(S), q # <<>>
    PROVE  /\ Tail(q) \in Seq(S) /\ Head(q) \in S /\ Head(q) = q[1] /\ Len(q) \in Nat \ {0}
           /\ Len(Tail(q)) = Len(q) - 1
           /\ DOMAIN q = 1..Len(q) /\ DOMAIN Tail(q) = 1..(Len(q) - 1)
           /\ \A i \in 1..(Len(q) - 1) : Tail(q)[i] = q[i + 1]
OBVIOUS

LEMMA AppendedFacts ==
    ASSUME NEW S, NEW q \in Seq(S), NEW x \in S
    PROVE  /\ Append(q, x) \in Seq(S)
           /\ Len(Append(q, x)) = Len(q) + 1
           /\ DOMAIN q = 1..Len(q)
           /\ DOMAIN Append(q, x) = 1..(Len(q) + 1)
           /\ \A i \in 1..Len(q) : Append(q, x)[i] = q[i]
           /\ Append(q, x)[Len(q) + 1] = x
OBVIOUS

--------------------
(* The chosen members of a list *)

ChosenStep(ss, chosen, f, i) ==
    IF i = 0 THEN <<>> ELSE IF ss[i] \in chosen THEN Append(f[i - 1], ss[i]) ELSE f[i - 1]

LEMMA ChosenTo ==
    ASSUME NEW ss \in Seq(Snapshots), NEW chosen
    PROVE  \A n \in 0..Len(ss) :
             \E f \in [0..n -> Seq(Snapshots)] : \A i \in 0..n : f[i] = ChosenStep(ss, chosen, f, i)
<1> DEFINE Good(n) == \E f \in [0..n -> Seq(Snapshots)] : \A i \in 0..n : f[i] = ChosenStep(ss, chosen, f, i)
           bad == {n \in 0..Len(ss) : ~Good(n)}
<1>1. Good(0)
  <2> DEFINE f == [i \in 0..0 |-> <<>>]
  <2>1. f \in [0..0 -> Seq(Snapshots)] OBVIOUS
  <2> HIDE DEF f
  <2> QED BY <2>1 DEF ChosenStep
<1>2. ASSUME NEW n \in 1..Len(ss), Good(n - 1) PROVE Good(n)
  <2>1. PICK f \in [0..(n - 1) -> Seq(Snapshots)] : \A i \in 0..(n - 1) : f[i] = ChosenStep(ss, chosen, f, i)
    BY <1>2
  <2> DEFINE last == IF ss[n] \in chosen THEN Append(f[n - 1], ss[n]) ELSE f[n - 1]
             g == [i \in 0..n |-> IF i = n THEN last ELSE f[i]]
  <2>2. g \in [0..n -> Seq(Snapshots)] BY AppendedFacts
  <2>3. ASSUME NEW i \in 0..n PROVE g[i] = ChosenStep(ss, chosen, g, i)
    <3>1. CASE i = n BY <3>1, n # 0, g[n - 1] = f[n - 1] DEF ChosenStep
    <3>2. CASE i # n /\ i # 0
      <4>1. i \in 0..(n - 1) /\ i - 1 \in 0..(n - 1) /\ i - 1 # n /\ i - 1 \in 0..n BY <3>2
      <4>2. g[i] = f[i] /\ g[i - 1] = f[i - 1] BY <3>2, <4>1
      <4> QED BY <2>1, <4>1, <4>2, <3>2 DEF ChosenStep
    <3>3. CASE i = 0 BY <2>1, <3>3 DEF ChosenStep
    <3> QED BY <3>1, <3>2, <3>3
  <2> QED BY <2>2, <2>3
<1>3. bad = {}
  <2>1. Len(ss) \in Nat OBVIOUS
  <2> HIDE DEF Good
  <2>2. \A i \in 1..Len(ss) : i \in bad => i - 1 \in bad BY <1>2, <2>1
  <2> QED BY <1>1, <2>1, <2>2, NoneUpTo
<1> QED BY <1>3

LEMMA ChosenIs ==
    ASSUME NEW ss \in Seq(Snapshots), NEW chosen
    PROVE  \E f \in [0..Len(ss) -> Seq(Snapshots)] :
             /\ \A i \in 0..Len(ss) : f[i] = ChosenStep(ss, chosen, f, i)
             /\ Chosen(ss, chosen) = f[Len(ss)]
<1> DEFINE F == CHOOSE f : f = [i \in 0..Len(ss) |-> ChosenStep(ss, chosen, f, i)]
<1>1. Len(ss) \in 0..Len(ss) OBVIOUS
<1>2. PICK f \in [0..Len(ss) -> Seq(Snapshots)] : \A i \in 0..Len(ss) : f[i] = ChosenStep(ss, chosen, f, i)
  BY <1>1, ChosenTo
<1>3. f = [i \in 0..Len(ss) |-> ChosenStep(ss, chosen, f, i)] BY <1>2
<1>4. F = [i \in 0..Len(ss) |-> ChosenStep(ss, chosen, F, i)] BY <1>3
<1>5. ASSUME NEW i \in 0..Len(ss) PROVE F[i] = ChosenStep(ss, chosen, F, i)
  <2> HIDE DEF F
  <2> QED BY <1>4
<1>6. Chosen(ss, chosen) = F[Len(ss)] BY DEF Chosen, ChosenStep
<1> HIDE DEF F
<1>7. ASSUME NEW i \in 1..Len(ss), F[i - 1] \in Seq(Snapshots) PROVE F[i] \in Seq(Snapshots)
  <2>1. ss[i] \in Snapshots /\ i \in 0..Len(ss) /\ i # 0 OBVIOUS
  <2>2. Append(F[i - 1], ss[i]) \in Seq(Snapshots) BY <1>7, <2>1, AppendedFacts
  <2> QED BY <1>5, <1>7, <2>1, <2>2 DEF ChosenStep
<1>8. {i \in 0..Len(ss) : F[i] \notin Seq(Snapshots)} = {}
  <2> DEFINE bad == {i \in 0..Len(ss) : F[i] \notin Seq(Snapshots)}
  <2>1. Len(ss) \in Nat /\ 0 \in 0..Len(ss) OBVIOUS
  <2>2. F[0] = <<>> BY <1>5, <2>1 DEF ChosenStep
  <2>3. F[0] \in Seq(Snapshots) BY <2>2
  <2>4. 0 \notin bad BY <2>3
  <2>5. \A i \in 1..Len(ss) : i \in bad => i - 1 \in bad BY <1>7, <2>1
  <2> QED BY <2>1, <2>4, <2>5, NoneUpTo
<1>9. F \in [0..Len(ss) -> Seq(Snapshots)] BY <1>4, <1>8
<1> QED BY <1>5, <1>6, <1>9

\* No two of a list have the same id.
Distinct(ss) == \A i, j \in DOMAIN ss : ss[i].id = ss[j].id => i = j

LEMMA ChosenType ==
    ASSUME NEW ss \in Seq(Snapshots), NEW chosen
    PROVE  Chosen(ss, chosen) \in Seq(Snapshots)
<1> QED BY ChosenIs

LEMMA AppendedSet ==
    ASSUME NEW S, NEW q \in Seq(S), NEW x \in S
    PROVE  ToSet(Append(q, x)) = ToSet(q) \cup {x}
<1>1. PICK p : p = Append(q, x) OBVIOUS
<1>2. /\ Len(q) \in Nat /\ DOMAIN q = 1..Len(q) /\ DOMAIN p = 1..(Len(q) + 1)
      /\ \A i \in 1..Len(q) : p[i] = q[i]
      /\ p[Len(q) + 1] = x
  BY <1>1, AppendedFacts
<1>3. ToSet(p) \subseteq ToSet(q) \cup {x}
  <2>1. ASSUME NEW i \in DOMAIN p PROVE p[i] \in ToSet(q) \cup {x} BY <1>2 DEF ToSet
  <2> QED BY <2>1 DEF ToSet
<1>4. x \in ToSet(p) BY <1>2 DEF ToSet
<1> QED BY <1>1, <1>3, <1>2, <1>4 DEF ToSet

\* The first i members that are chosen.
LEMMA ChosenPart ==
    ASSUME NEW ss \in Seq(Snapshots), NEW chosen, NEW f \in [0..Len(ss) -> Seq(Snapshots)],
           \A i \in 0..Len(ss) : f[i] = ChosenStep(ss, chosen, f, i)
    PROVE  \A i \in 0..Len(ss) : ToSet(f[i]) = {ss[k] : k \in {n \in 1..i : ss[n] \in chosen}}
<1> DEFINE part(i) == {ss[k] : k \in {n \in 1..i : ss[n] \in chosen}}
           bad == {i \in 0..Len(ss) : ToSet(f[i]) # part(i)}
<1>1. ToSet(f[0]) = part(0) BY DEF ToSet, ChosenStep
<1>2. ASSUME NEW i \in 1..Len(ss), ToSet(f[i - 1]) = part(i - 1) PROVE ToSet(f[i]) = part(i)
  <2>1. i \in 0..Len(ss) /\ i - 1 \in 0..Len(ss) /\ ss[i] \in Snapshots /\ i # 0 OBVIOUS
  <2>2. CASE ss[i] \in chosen
    <3>1. f[i] = Append(f[i - 1], ss[i]) BY <2>1, <2>2 DEF ChosenStep
    <3>2. ToSet(f[i]) = ToSet(f[i - 1]) \cup {ss[i]} BY <2>1, <3>1, AppendedSet
    <3> QED BY <1>2, <3>2, <2>1, <2>2
  <2>3. CASE ss[i] \notin chosen BY <1>2, <2>1, <2>3 DEF ChosenStep
  <2> QED BY <2>2, <2>3
<1>3. Len(ss) \in Nat /\ 0 \in 0..Len(ss) OBVIOUS
<1> HIDE DEF part
<1>4. \A i \in 1..Len(ss) : i \in bad => i - 1 \in bad
  <2> SUFFICES ASSUME NEW i \in 1..Len(ss), i - 1 \notin bad PROVE i \notin bad OBVIOUS
  <2> QED BY <1>2
<1> HIDE DEF bad
<1>5. bad = {} BY <1>3, <1>1, <1>4, NoneUpTo
<1> QED BY <1>5 DEF bad, part

LEMMA ChosenSet ==
    ASSUME NEW ss \in Seq(Snapshots), NEW chosen
    PROVE  ToSet(Chosen(ss, chosen)) = ToSet(ss) \cap chosen
<1>1. PICK f \in [0..Len(ss) -> Seq(Snapshots)] :
             /\ \A i \in 0..Len(ss) : f[i] = ChosenStep(ss, chosen, f, i)
             /\ Chosen(ss, chosen) = f[Len(ss)]
  BY ChosenIs
<1> QED BY <1>1, ChosenPart DEF ToSet

LEMMA ChosenDistinct ==
    ASSUME NEW ss \in Seq(Snapshots), NEW chosen, Distinct(ss)
    PROVE  Distinct(Chosen(ss, chosen))
<1>1. PICK f \in [0..Len(ss) -> Seq(Snapshots)] :
             /\ \A i \in 0..Len(ss) : f[i] = ChosenStep(ss, chosen, f, i)
             /\ Chosen(ss, chosen) = f[Len(ss)]
  BY ChosenIs
<1> DEFINE bad == {i \in 0..Len(ss) : ~Distinct(f[i])}
<1>2. Len(ss) \in Nat /\ Len(ss) \in 0..Len(ss) /\ 0 \in 0..Len(ss) OBVIOUS
<1>3. Distinct(f[0]) BY <1>1, <1>2 DEF Distinct, ChosenStep
<1>4. ASSUME NEW i \in 1..Len(ss), Distinct(f[i - 1]) PROVE Distinct(f[i])
  <2>1. i \in 0..Len(ss) /\ i - 1 \in 0..Len(ss) /\ ss[i] \in Snapshots /\ i # 0 /\ i \in DOMAIN ss
    OBVIOUS
  <2>2. CASE ss[i] \in chosen
    <3>1. f[i] = Append(f[i - 1], ss[i]) BY <1>1, <2>1, <2>2 DEF ChosenStep
    <3>2. ToSet(f[i - 1]) = {ss[k] : k \in {n \in 1..(i - 1) : ss[n] \in chosen}}
      BY <1>1, <2>1, ChosenPart
    <3>3. ASSUME NEW j \in DOMAIN f[i - 1] PROVE f[i - 1][j].id # ss[i].id
      <4>1. f[i - 1][j] \in ToSet(f[i - 1]) BY DEF ToSet
      <4>2. PICK k \in 1..(i - 1) : f[i - 1][j] = ss[k] BY <3>2, <4>1
      <4> QED BY <2>1, <4>2 DEF Distinct
    <3> QED BY <1>4, <2>1, <3>1, <3>3, AppendedFacts DEF Distinct
  <2>3. CASE ss[i] \notin chosen BY <1>1, <1>4, <2>1, <2>3 DEF ChosenStep
  <2> QED BY <2>2, <2>3
<1>5. \A i \in 1..Len(ss) : i \in bad => i - 1 \in bad
  <2> SUFFICES ASSUME NEW i \in 1..Len(ss), i - 1 \notin bad PROVE i \notin bad OBVIOUS
  <2> QED BY <1>4
<1>6. bad = {}
  <2> HIDE DEF bad
  <2> QED BY <1>2, <1>5, <1>3, NoneUpTo
<1> QED BY <1>1, <1>2, <1>6

\* The ids of a list; a list without members is empty, one with one has it alone.
LEMMA IdsAre ==
    ASSUME NEW ss \in Seq(Snapshots)
    PROVE  /\ \A s : s \in Ids(ss) <=> \E i \in DOMAIN ss : ss[i].id = s
           /\ Ids(ss) \subseteq Session
           /\ \A x : x \in ToSet(ss) <=> \E i \in DOMAIN ss : ss[i] = x
           /\ ToSet(ss) \subseteq Snapshots
<1>1. \A x : x \in ToSet(ss) <=> \E i \in DOMAIN ss : ss[i] = x BY DEF ToSet
<1>2. ToSet(ss) \subseteq Snapshots BY <1>1
<1> QED BY <1>1, <1>2 DEF Snapshots, Ids

LEMMA ChosenNone ==
    ASSUME NEW ss \in Seq(Snapshots), NEW chosen, ToSet(ss) \cap chosen = {}
    PROVE  Chosen(ss, chosen) = <<>>
<1>1. PICK q : q = Chosen(ss, chosen) OBVIOUS
<1>2. q \in Seq(Snapshots) /\ ToSet(q) = {} BY <1>1, ChosenType, ChosenSet
<1>3. DOMAIN q = {} BY <1>2, Zenon DEF ToSet
<1> QED BY <1>1, <1>2, <1>3

LEMMA ChosenOne ==
    ASSUME NEW ss \in Seq(Snapshots), NEW chosen, NEW x, ToSet(ss) \cap chosen = {x}, Distinct(ss)
    PROVE  Chosen(ss, chosen) = <<x>>
<1>1. PICK q : q = Chosen(ss, chosen) OBVIOUS
<1>2. q \in Seq(Snapshots) /\ ToSet(q) = {x} /\ Distinct(q)
  BY <1>1, ChosenType, ChosenSet, ChosenDistinct
<1>3. \A i \in DOMAIN q : q[i] = x BY <1>2 DEF ToSet
<1>4. DOMAIN q # {} BY <1>2 DEF ToSet
<1>5. \A i, j \in DOMAIN q : i = j BY <1>2, <1>3 DEF Distinct
<1>6. Len(q) \in Nat /\ DOMAIN q = 1..Len(q) BY <1>2
<1>7. Len(q) = 1 BY <1>5, <1>4, <1>6
<1> QED BY <1>1, <1>2, <1>3, <1>6, <1>7

--------------------
(* Hosts *)

\* What holds of every host that is reached.
SoundHosts ==
    {h \in Hosts :
        /\ h.ready => h.open
        /\ h.ready <=> h.doc # None
        /\ h.ready => h.doc \in h.seen
        /\ h.seen # {} => h.ready
        /\ h.pending => h.scan # None}

OfType(kinds) == {m \in HostMessages : m.type \in kinds}

\* The host has posted messages of these kinds, if its document is ready, and is
\* the host of the same document.
Extends(h, n, kinds) ==
    /\ n.open = h.open /\ n.ready = h.ready /\ n.doc = h.doc /\ n.seen = h.seen
    /\ \E ms \in Seq(OfType(kinds)) : n.out = h.out \o ms /\ (~h.ready => ms = <<>>)

LEMMA NoneIs ==
    /\ None \notin Session /\ None \notin Nat /\ None \notin Scans
    /\ None \notin Requests /\ None \notin Pages /\ None \notin Documents /\ None \notin Uuid
<1>1. Documents \subseteq Nat BY BoundAssumption DEF Documents
<1> QED BY <1>1, NoneAssumption, UuidAssumption

LEMMA OutIs ==
    ASSUME NEW h \in Hosts
    PROVE  h.out \in Seq(HostMessages) /\ h.out \o <<>> = h.out
BY DEF Hosts

LEMMA SubSequence ==
    ASSUME NEW S, NEW T, S \subseteq T, NEW q \in Seq(S)
    PROVE  q \in Seq(T)
OBVIOUS

LEMMA ExtendsSelf ==
    ASSUME NEW h \in Hosts, NEW kinds
    PROVE  Extends(h, h, kinds)
<1>1. <<>> \in Seq(OfType(kinds)) OBVIOUS
<1>2. h.out \o <<>> = h.out BY OutIs
<1> QED BY <1>1, <1>2 DEF Extends

LEMMA ConcatTwice ==
    ASSUME NEW S, NEW q \in Seq(S), NEW ms \in Seq(S), NEW ns \in Seq(S)
    PROVE  (q \o ms) \o ns = q \o (ms \o ns)
OBVIOUS

LEMMA ExtendsTwice ==
    ASSUME NEW h \in Hosts, NEW n, NEW o, NEW kinds, Extends(h, n, kinds), Extends(n, o, kinds)
    PROVE  Extends(h, o, kinds)
<1>1. PICK ms \in Seq(OfType(kinds)) : n.out = h.out \o ms /\ (~h.ready => ms = <<>>) BY DEF Extends
<1>2. PICK ns \in Seq(OfType(kinds)) : o.out = n.out \o ns /\ (~n.ready => ns = <<>>) BY DEF Extends
<1>3. o.out = h.out \o (ms \o ns)
  <2>1. (h.out \o ms) \o ns = h.out \o (ms \o ns)
    <3>1. PICK q : q = h.out OBVIOUS
    <3>2. q \in Seq(HostMessages) /\ ms \in Seq(HostMessages) /\ ns \in Seq(HostMessages)
      BY SubSequence, OutIs, <3>1 DEF OfType
    <3>3. (q \o ms) \o ns = q \o (ms \o ns) BY ONLY <3>2, ConcatTwice
    <3> QED BY <3>1, <3>3
  <2> QED BY <1>1, <1>2, <2>1
<1>4. ms \o ns \in Seq(OfType(kinds)) OBVIOUS
<1>5. ~h.ready => ms \o ns = <<>> BY <1>1, <1>2 DEF Extends
<1> QED BY <1>3, <1>4, <1>5 DEF Extends

LEMMA ExtendsWider ==
    ASSUME NEW h, NEW n, NEW kinds, NEW more, kinds \subseteq more, Extends(h, n, kinds)
    PROVE  Extends(h, n, more)
<1>1. PICK ms \in Seq(OfType(kinds)) : n.out = h.out \o ms /\ (~h.ready => ms = <<>>) BY DEF Extends
<1>2. ms \in Seq(OfType(more)) BY SubSequence DEF OfType
<1> QED BY <1>1, <1>2 DEF Extends

\* A change of the fields that no document sees.
LEMMA ExtendsInside ==
    ASSUME NEW h \in Hosts, NEW n, n.open = h.open, n.ready = h.ready, n.doc = h.doc, n.seen = h.seen,
           n.out = h.out, NEW kinds
    PROVE  Extends(h, n, kinds)
BY ExtendsSelf DEF Extends

LEMMA PostedIs ==
    ASSUME NEW h \in SoundHosts, NEW kinds, NEW ms \in Seq(OfType(kinds))
    PROVE  Posted(h, ms) \in SoundHosts /\ Extends(h, Posted(h, ms), kinds)
<1>1. h \in Hosts /\ h.out \in Seq(HostMessages) /\ ms \in Seq(HostMessages)
  BY SubSequence, OutIs DEF SoundHosts, OfType
<1>2. CASE h.ready
  <2> DEFINE n == [h EXCEPT !.out = @ \o ms]
  <2>1. h.out \o ms \in Seq(HostMessages) BY <1>1
  <2>2. n \in Hosts BY <1>1, <2>1 DEF Hosts
  <2>3. n.open = h.open /\ n.ready = h.ready /\ n.doc = h.doc /\ n.seen = h.seen
        /\ n.pending = h.pending /\ n.scan = h.scan /\ n.out = h.out \o ms
    BY <1>1 DEF Hosts
  <2>4. n \in SoundHosts BY <2>2, <2>3 DEF SoundHosts
  <2>5. Extends(h, n, kinds) BY <1>2, <2>3 DEF Extends
  <2> QED BY <1>2, <2>4, <2>5 DEF Posted
<1>3. CASE ~h.ready BY <1>1, <1>3, ExtendsSelf DEF Posted
<1> QED BY <1>2, <1>3

LEMMA PostedOne ==
    ASSUME NEW h \in SoundHosts, NEW kinds, NEW m, h.ready => m \in OfType(kinds)
    PROVE  Posted(h, <<m>>) \in SoundHosts /\ Extends(h, Posted(h, <<m>>), kinds)
<1>1. CASE h.ready
  <2>1. <<m>> \in Seq(OfType(kinds)) BY <1>1
  <2> QED BY <2>1, PostedIs
<1>2. CASE ~h.ready BY <1>2, ExtendsSelf DEF Posted, SoundHosts
<1> QED BY <1>1, <1>2

LEMMA InvalidatedIs ==
    ASSUME NEW h \in SoundHosts
    PROVE  Invalidated(h) \in SoundHosts /\ Extends(h, Invalidated(h), {"invalidated"})
<1> DEFINE n == [h EXCEPT !.revision = @ + 1, !.paging = FALSE, !.cursors = {}]
           m == [type |-> "invalidated", doc |-> n.doc, revision |-> n.revision]
<1>1. n \in Hosts
  <2>1. h \in Hosts /\ h.revision + 1 \in Nat BY DEF SoundHosts, Hosts
  <2> QED BY <2>1 DEF Hosts
<1>2. n.open = h.open /\ n.ready = h.ready /\ n.doc = h.doc /\ n.seen = h.seen
      /\ n.pending = h.pending /\ n.scan = h.scan /\ n.out = h.out
  BY DEF SoundHosts, Hosts
<1>3. n \in SoundHosts BY <1>1, <1>2 DEF SoundHosts
<1>4. n.ready => m \in OfType({"invalidated"})
  <2> HIDE DEF n
  <2> QED BY <1>1, <1>3 DEF OfType, HostMessages, SoundHosts, Hosts
<1>5. Invalidated(h) = Posted(n, <<m>>) BY DEF Invalidated
<1> HIDE DEF n, m
<1> QED BY <1>2, ExtendsInside, <1>5, <1>3, <1>4, PostedOne, ExtendsTwice DEF SoundHosts

Listing == {"resumable", "invalidated"}

LEMMA PublishedIs ==
    ASSUME NEW h \in SoundHosts, NEW next \in SUBSET Uuid
    PROVE  Published(h, next) \in SoundHosts /\ Extends(h, Published(h, next), Listing)
<1>1. CASE next = h.resume BY <1>1, ExtendsSelf DEF Published, SoundHosts
<1>2. CASE next # h.resume
  <2> DEFINE n == [h EXCEPT !.resume = next]
             m == [type |-> "resumable", uuids |-> next]
             p == Posted(n, <<m>>)
  <2>1. Published(h, next) = Invalidated(p) BY <1>2 DEF Published
  <2>2. n \in Hosts BY DEF Hosts, SoundHosts
  <2>3. n.open = h.open /\ n.ready = h.ready /\ n.doc = h.doc /\ n.seen = h.seen
        /\ n.pending = h.pending /\ n.scan = h.scan /\ n.out = h.out
    BY DEF Hosts, SoundHosts
  <2>4. n \in SoundHosts BY <2>2, <2>3 DEF SoundHosts
  <2>5. Extends(h, n, Listing) BY <2>3, ExtendsInside DEF SoundHosts
  <2>6. m \in OfType(Listing) BY DEF OfType, HostMessages, Listing
  <2> HIDE DEF n, m
  <2>7. p \in SoundHosts /\ Extends(n, p, Listing) BY <2>4, <2>6, PostedOne
  <2> HIDE DEF p
  <2> QED
    BY <2>1, <2>5, InvalidatedIs, <2>7, ExtendsWider, <2>4, ExtendsTwice DEF SoundHosts, Listing
<1> QED BY <1>1, <1>2

LEMMA SupersededIs ==
    ASSUME NEW h \in SoundHosts
    PROVE  LET n == Superseded(h)
           IN  /\ n \in SoundHosts /\ Extends(h, n, Listing)
               /\ n.resume = h.resume /\ n.revision = h.revision /\ n.retry = h.retry /\ n.out = h.out
               /\ n.paging = h.paging /\ n.cursors = h.cursors
               /\ (n.scan = None <=> h.scan = None) /\ n.pending = h.pending
               /\ n.scan # None => n.scan.stale
<1>1. CASE h.scan = None BY <1>1, ExtendsSelf DEF Superseded, SoundHosts
<1>2. CASE h.scan # None
  <2> DEFINE s == [h.scan EXCEPT !.stale = TRUE]
             n == [h EXCEPT !.scan = s]
  <2>1. Superseded(h) = n BY <1>2 DEF Superseded
  <2>2. h.scan \in Scans BY <1>2 DEF SoundHosts, Hosts
  <2>3. s \in Scans /\ s.stale BY <2>2 DEF Scans
  <2>4. s # None BY <2>3, NoneIs
  <2> HIDE DEF s
  <2>5. n \in Hosts /\ n.scan = s BY <2>3 DEF SoundHosts, Hosts
  <2>6. /\ n.open = h.open /\ n.ready = h.ready /\ n.doc = h.doc /\ n.seen = h.seen
        /\ n.pending = h.pending /\ n.out = h.out /\ n.resume = h.resume /\ n.revision = h.revision
        /\ n.retry = h.retry /\ n.paging = h.paging /\ n.cursors = h.cursors
    BY DEF SoundHosts, Hosts
  <2>7. n \in SoundHosts BY <2>4, <2>5, <2>6 DEF SoundHosts
  <2>8. Extends(h, n, Listing) BY <2>6, ExtendsInside DEF SoundHosts
  <2> QED BY <1>2, <2>1, <2>3, <2>4, <2>5, <2>6, <2>7, <2>8
<1> QED BY <1>1, <1>2

\* What posting leaves alone.
LEMMA PostedKeeps ==
    ASSUME NEW h \in Hosts, NEW ms
    PROVE  LET n == Posted(h, ms)
           IN  /\ n.open = h.open /\ n.ready = h.ready /\ n.doc = h.doc /\ n.seen = h.seen
               /\ n.resume = h.resume /\ n.scan = h.scan /\ n.pending = h.pending /\ n.retry = h.retry
               /\ n.revision = h.revision /\ n.paging = h.paging /\ n.cursors = h.cursors
               /\ n.out = IF h.ready THEN h.out \o ms ELSE h.out
BY DEF Posted, Hosts

LEMMA InvalidatedKeeps ==
    ASSUME NEW h \in Hosts
    PROVE  LET n == Invalidated(h)
               m == [type |-> "invalidated", doc |-> h.doc, revision |-> h.revision + 1]
           IN  /\ n.resume = h.resume /\ n.scan = h.scan /\ n.pending = h.pending /\ n.retry = h.retry
               /\ n.revision = h.revision + 1
               /\ n.out = IF h.ready THEN h.out \o <<m>> ELSE h.out
<1> DEFINE n == [h EXCEPT !.revision = @ + 1, !.paging = FALSE, !.cursors = {}]
           m == [type |-> "invalidated", doc |-> n.doc, revision |-> n.revision]
<1>1. n \in Hosts
  <2>1. h.revision + 1 \in Nat BY DEF Hosts
  <2> QED BY <2>1 DEF Hosts
<1>2. /\ n.open = h.open /\ n.ready = h.ready /\ n.doc = h.doc /\ n.seen = h.seen
      /\ n.resume = h.resume /\ n.scan = h.scan /\ n.pending = h.pending /\ n.retry = h.retry
      /\ n.revision = h.revision + 1 /\ n.out = h.out
  BY DEF Hosts
<1>3. Invalidated(h) = Posted(n, <<m>>) BY DEF Invalidated
<1>4. m = [type |-> "invalidated", doc |-> h.doc, revision |-> h.revision + 1] BY <1>2
<1> HIDE DEF n, m
<1> QED BY <1>1, <1>2, <1>3, <1>4, PostedKeeps

LEMMA PublishedKeeps ==
    ASSUME NEW h \in SoundHosts, NEW next \in SUBSET Uuid
    PROVE  LET n == Published(h, next)
           IN  n.resume = next /\ n.scan = h.scan /\ n.pending = h.pending /\ n.retry = h.retry
<1>1. CASE next = h.resume BY <1>1 DEF Published
<1>2. CASE next # h.resume
  <2> DEFINE n == [h EXCEPT !.resume = next]
             m == [type |-> "resumable", uuids |-> next]
             p == Posted(n, <<m>>)
  <2>1. Published(h, next) = Invalidated(p) BY <1>2 DEF Published
  <2>2. h \in Hosts BY DEF SoundHosts
  <2>3. n \in Hosts BY <2>2 DEF Hosts
  <2>4. /\ n.resume = next /\ n.scan = h.scan /\ n.pending = h.pending /\ n.retry = h.retry
        /\ n.open = h.open /\ n.ready = h.ready /\ n.doc = h.doc /\ n.seen = h.seen
    BY <2>2 DEF Hosts
  <2>5. m \in OfType(Listing) BY DEF OfType, HostMessages, Listing
  <2> HIDE DEF n, m
  <2>6. p \in Hosts BY <2>3, <2>4, <2>5, PostedOne DEF SoundHosts
  <2>7. p.resume = next /\ p.scan = h.scan /\ p.pending = h.pending /\ p.retry = h.retry
    BY <2>3, <2>4, PostedKeeps
  <2> HIDE DEF p
  <2> QED BY <2>1, <2>6, <2>7, InvalidatedKeeps
<1> QED BY <1>1, <1>2

\* A refresh publishes the rows that stay, and then scans or asks for a scan.
LEMMA RefreshedForm ==
    ASSUME NEW h \in SoundHosts, NEW cand \in SUBSET Uuid
    PROVE  LET s == Superseded(h)
               n == Published(s, cand \cap h.resume)
               r == Refreshed(h, cand)
           IN  /\ s \in SoundHosts /\ n \in SoundHosts /\ r \in SoundHosts
               /\ r.open = n.open /\ r.ready = n.ready /\ r.doc = n.doc /\ r.seen = n.seen
               /\ r.resume = n.resume /\ r.retry = n.retry /\ r.revision = n.revision
               /\ r.paging = n.paging /\ r.cursors = n.cursors /\ r.out = n.out
               /\ r.resume = cand \cap h.resume
               /\ r.retry = h.retry
               /\ ~h.open => r.scan = s.scan
               /\ h.open /\ h.scan # None => r.pending /\ r.scan # None /\ r.scan.stale
               /\ h.open /\ h.scan = None =>
                    r.pending = h.pending /\ r.scan = [todo |-> cand, eligible |-> {}, stale |-> FALSE]
<1> DEFINE s == Superseded(h)
           n == Published(s, cand \cap h.resume)
           r == Refreshed(h, cand)
           scan == [todo |-> cand, eligible |-> {}, stale |-> FALSE]
<1>1. /\ s \in SoundHosts /\ s.resume = h.resume /\ s.retry = h.retry /\ s.pending = h.pending
      /\ s.scan = None <=> h.scan = None
      /\ s.scan # None => s.scan.stale
      /\ s.open = h.open
  BY SupersededIs DEF Extends
<1>2. r = CASE ~h.open -> n
            [] h.open /\ h.scan # None -> [n EXCEPT !.pending = TRUE]
            [] h.open /\ h.scan = None -> [n EXCEPT !.scan = scan]
  BY DEF Refreshed
<1> HIDE DEF s
<1>3. n \in SoundHosts /\ n.resume = cand \cap h.resume /\ n.scan = s.scan /\ n.retry = h.retry
      /\ n.pending = h.pending /\ n.open = h.open
  BY <1>1, PublishedIs, PublishedKeeps DEF Extends
<1>4. scan \in Scans /\ scan # None
  <2>1. scan \in Scans BY DEF Scans
  <2> QED BY <2>1, NoneIs
<1> HIDE DEF n, r, scan
<1>5. n \in Hosts BY <1>3 DEF SoundHosts
<1>6. CASE ~h.open
  <2>1. r = n BY <1>2, <1>6
  <2> QED BY <1>1, <1>3, <1>6, <2>1 DEF s, n, r
<1>7. CASE h.open /\ h.scan # None
  <2>1. r = [n EXCEPT !.pending = TRUE] BY <1>2, <1>7
  <2>2. r \in Hosts /\ r.pending = TRUE BY <1>5, <2>1 DEF Hosts
  <2>3. /\ r.open = n.open /\ r.ready = n.ready /\ r.doc = n.doc /\ r.seen = n.seen
        /\ r.resume = n.resume /\ r.retry = n.retry /\ r.revision = n.revision
        /\ r.paging = n.paging /\ r.cursors = n.cursors /\ r.out = n.out /\ r.scan = n.scan
    BY <1>5, <2>1 DEF Hosts
  <2>4. r \in SoundHosts BY <1>1, <1>3, <1>7, <2>2, <2>3 DEF SoundHosts
  <2> QED BY <1>1, <1>3, <1>7, <2>2, <2>3, <2>4 DEF s, n, r
<1>8. CASE h.open /\ h.scan = None
  <2>1. r = [n EXCEPT !.scan = scan] BY <1>2, <1>8
  <2>2. r \in Hosts /\ r.scan = scan BY <1>4, <1>5, <2>1 DEF Hosts
  <2>3. /\ r.open = n.open /\ r.ready = n.ready /\ r.doc = n.doc /\ r.seen = n.seen
        /\ r.resume = n.resume /\ r.retry = n.retry /\ r.revision = n.revision
        /\ r.paging = n.paging /\ r.cursors = n.cursors /\ r.out = n.out /\ r.pending = n.pending
    BY <1>5, <2>1 DEF Hosts
  <2>4. r \in SoundHosts BY <1>3, <1>4, <2>2, <2>3 DEF SoundHosts
  <2> QED BY <1>1, <1>3, <1>8, <2>2, <2>3, <2>4 DEF s, n, r, scan
<1> QED BY <1>6, <1>7, <1>8

LEMMA RefreshedIs ==
    ASSUME NEW h \in SoundHosts, NEW cand \in SUBSET Uuid
    PROVE  Refreshed(h, cand) \in SoundHosts /\ Extends(h, Refreshed(h, cand), Listing)
<1> DEFINE s == Superseded(h)
           n == Published(s, cand \cap h.resume)
           r == Refreshed(h, cand)
<1>1. /\ s \in SoundHosts /\ n \in SoundHosts /\ r \in SoundHosts
      /\ r.open = n.open /\ r.ready = n.ready /\ r.doc = n.doc /\ r.seen = n.seen /\ r.out = n.out
  BY RefreshedForm
<1>2. Extends(h, s, Listing) BY SupersededIs
<1> HIDE DEF s
<1>3. Extends(s, n, Listing) BY <1>1, PublishedIs
<1> HIDE DEF n, r
<1> QED BY <1>1, ExtendsInside, <1>2, <1>3, ExtendsTwice DEF r, SoundHosts

LEMMA CandidatesAre ==
    ASSUME NEW saved \in SUBSET Uuid, NEW ss
    PROVE  Candidates(saved, ss) \in SUBSET Uuid
BY DEF Candidates

\* A set of conversations that is not empty has a first.
LEMMA FirstIs ==
    ASSUME NEW T \in SUBSET Uuid, T # {}
    PROVE  Min(T) \in T /\ \A u \in T : Min(T) <= u
<1>1. \E x \in T : \A y \in T : x <= y BY UuidAssumption, LeastNumber
<1> QED BY <1>1 DEF Min

\* A scan that is over is forgotten, or another begins.
LEMMA SettledIs ==
    ASSUME NEW h \in SoundHosts, known \in SUBSET Uuid
    PROVE  LET n == [h EXCEPT !.scan = None, !.pending = FALSE]
               s == Settled(h)
           IN  /\ n \in SoundHosts /\ n.scan = None /\ ~n.pending
               /\ n.open = h.open /\ n.ready = h.ready /\ n.doc = h.doc /\ n.seen = h.seen
               /\ n.resume = h.resume /\ n.retry = h.retry /\ n.revision = h.revision
               /\ n.out = h.out
               /\ s = IF h.pending THEN Refreshed(n, Candidates(known, live)) ELSE n
               /\ s \in SoundHosts /\ Extends(h, s, Listing)
<1> DEFINE n == [h EXCEPT !.scan = None, !.pending = FALSE]
           s == Settled(h)
<1>1. h \in Hosts BY DEF SoundHosts
<1>2. n \in Hosts /\ n.scan = None /\ n.pending = FALSE BY <1>1 DEF Hosts
<1>3. /\ n.open = h.open /\ n.ready = h.ready /\ n.doc = h.doc /\ n.seen = h.seen
      /\ n.resume = h.resume /\ n.retry = h.retry /\ n.revision = h.revision
      /\ n.out = h.out
  BY <1>1 DEF Hosts
<1>4. n \in SoundHosts BY <1>2, <1>3 DEF SoundHosts
<1>5. s = IF h.pending THEN Refreshed(n, Candidates(known, live)) ELSE n BY DEF Settled
<1> HIDE DEF n, s
<1>6. s \in SoundHosts /\ Extends(n, s, Listing)
  <2>1. CASE h.pending BY <1>4, <1>5, <2>1, RefreshedIs, CandidatesAre
  <2>2. CASE ~h.pending BY <1>2, <1>4, <1>5, <2>2, ExtendsSelf
  <2> QED BY <2>1, <2>2
<1>7. Extends(h, s, Listing) BY <1>1, <1>3, ExtendsInside, <1>6, ExtendsTwice
<1> QED BY <1>2, <1>3, <1>4, <1>5, <1>6, <1>7 DEF n, s

LEMMA CheckedIs ==
    ASSUME NEW scan \in Scans, scan.todo # {}
    PROVE  /\ Checked(scan) \in Scans
           /\ Checked(scan).stale = scan.stale
           /\ Checked(scan).todo = scan.todo \ {Min(scan.todo)}
           /\ Checked(scan).eligible = IF Evidence(Min(scan.todo)) = "absent" THEN scan.eligible
                                       ELSE scan.eligible \cup {Min(scan.todo)}
<1>1. scan.todo \in SUBSET Uuid BY DEF Scans
<1>2. PICK u : u = Min(scan.todo) OBVIOUS
<1>3. PICK e : e = IF Evidence(u) = "absent" THEN scan.eligible ELSE scan.eligible \cup {u} OBVIOUS
<1>4. e \in SUBSET Uuid BY <1>1, <1>2, FirstIs, <1>3 DEF Scans
<1>5. Checked(scan) = [scan EXCEPT !.todo = @ \ {u}, !.eligible = e] BY <1>2, <1>3 DEF Checked
<1> QED BY <1>1, <1>2, <1>3, <1>4, <1>5 DEF Scans

\* One more conversation is checked, the last answer is published, or the scan is given up.
LEMMA ScanStepIs ==
    ASSUME NEW h \in SoundHosts, h.scan # None, known \in SUBSET Uuid
    PROVE  LET scan == Checked(h.scan)
               n == [h EXCEPT !.scan = scan]
               s == ScanStep(h)
           IN  /\ h.scan \in Scans
               /\ s \in SoundHosts /\ Extends(h, s, Listing)
               /\ h.scan.stale \/ h.scan.todo = {} => s = Settled(h)
               /\ ~h.scan.stale /\ h.scan.todo # {} =>
                    /\ scan \in Scans
                    /\ scan.todo = {} => s = Settled(Published(h, scan.eligible))
                    /\ scan.todo # {} =>
                         /\ s = n /\ s.scan = scan
                         /\ s.resume = h.resume /\ s.retry = h.retry /\ s.revision = h.revision
                         /\ s.out = h.out /\ s.pending = h.pending
<1> DEFINE scan == Checked(h.scan)
           n == [h EXCEPT !.scan = scan]
           s == ScanStep(h)
<1>1. h \in Hosts /\ h.scan \in Scans BY DEF SoundHosts, Hosts
<1>2. CASE h.scan.stale \/ h.scan.todo = {}
  <2>1. s = Settled(h) BY <1>2 DEF ScanStep
  <2> QED BY <1>1, <1>2, <2>1, SettledIs
<1>3. CASE ~(h.scan.stale \/ h.scan.todo = {})
  <2>1. scan \in Scans BY <1>1, <1>3, CheckedIs
  <2>2. scan.todo # {} => s = n BY <1>3 DEF ScanStep
  <2> HIDE DEF scan, s
  <2>3. CASE scan.todo = {}
    <3> DEFINE p == Published(h, scan.eligible)
    <3>1. p \in SoundHosts /\ Extends(h, p, Listing) BY <2>1, PublishedIs DEF Scans
    <3> HIDE DEF p
    <3>2. Settled(p) \in SoundHosts /\ Extends(p, Settled(p), Listing) BY <3>1, SettledIs
    <3> QED BY <1>1, <1>3, <2>1, <2>3, <3>2, <3>1, ExtendsTwice DEF p, scan, s, ScanStep
  <2>4. CASE scan.todo # {}
    <3>1. s = n BY <2>2, <2>4
    <3>2. s \in Hosts /\ s.scan = scan /\ scan # None BY <1>1, <2>1, <3>1, NoneIs DEF Hosts
    <3>3. /\ s.open = h.open /\ s.ready = h.ready /\ s.doc = h.doc /\ s.seen = h.seen
          /\ s.resume = h.resume /\ s.retry = h.retry /\ s.revision = h.revision
          /\ s.out = h.out /\ s.pending = h.pending
      BY <1>1, <3>1 DEF Hosts
    <3>4. s \in SoundHosts BY <3>2, <3>3 DEF SoundHosts
    <3>5. Extends(h, s, Listing) BY <1>1, <3>3, ExtendsInside
    <3> QED BY <1>1, <1>3, <2>1, <2>4, <3>1, <3>2, <3>3, <3>4, <3>5 DEF scan, s
  <2> QED BY <2>3, <2>4
<1> QED BY <1>2, <1>3

--------------------
(* The lists of sessions *)

Removals(ss) == [i \in DOMAIN ss |-> [type |-> "removed", id |-> ss[i].id]]
Arrivals(ss) == [i \in DOMAIN ss |-> [type |-> "session", session |-> ss[i]]]
Gone(next) == Chosen(live, {s \in ToSet(live) : s.id \notin Ids(next)})
News(next) == Chosen(next, ToSet(next) \ ToSet(live))
Diff(next) == Removals(Gone(next)) \o Arrivals(News(next))

\* The host once it has told the difference, ended the pages, and told the selection.
Told(h, next) == Posted(h, Diff(next))
Relisted(h, next) ==
    IF Uuids(next) = Uuids(live) THEN Told(h, next) ELSE Invalidated(Told(h, next))
Reselected(h, next, selected) ==
    IF selected = active THEN Relisted(h, next)
    ELSE Posted(Relisted(h, next), <<[type |-> "active", id |-> selected]>>)

Differences == {"removed", "session"}
Selections == {"active", "resumable", "invalidated"}

LEMMA SequenceOf ==
    ASSUME NEW S, NEW n \in Nat, NEW f, f \in [1..n -> S]
    PROVE  f \in Seq(S) /\ Len(f) = n
OBVIOUS

LEMMA DiffIs ==
    ASSUME NEW ss \in Seq(Snapshots), NEW ts \in Seq(Snapshots)
    PROVE  /\ Removals(ss) \in Seq(OfType({"removed"})) /\ Len(Removals(ss)) = Len(ss)
           /\ Arrivals(ts) \in Seq(OfType({"session"})) /\ Len(Arrivals(ts)) = Len(ts)
           /\ Removals(ss) \o Arrivals(ts) \in Seq(OfType(Differences))
<1>1. /\ DOMAIN ss = 1..Len(ss) /\ DOMAIN ts = 1..Len(ts) /\ Len(ss) \in Nat /\ Len(ts) \in Nat
      /\ \A i \in DOMAIN ss : ss[i] \in Snapshots
      /\ \A i \in DOMAIN ts : ts[i] \in Snapshots
  OBVIOUS
<1>2. PICK p, q : p = Removals(ss) /\ q = Arrivals(ts) OBVIOUS
<1>3. p \in Seq(OfType({"removed"})) /\ Len(p) = Len(ss)
  BY <1>1, <1>2, SequenceOf DEF Removals, OfType, HostMessages, Snapshots
<1>4. q \in Seq(OfType({"session"})) /\ Len(q) = Len(ts)
  BY <1>1, <1>2, SequenceOf DEF Arrivals, OfType, HostMessages
<1>5. p \o q \in Seq(OfType(Differences))
  BY <1>3, <1>4, SubSequence, ConcatFacts DEF OfType, Differences
<1> QED BY <1>2, <1>3, <1>4, <1>5

LEMMA SessionsChangedIs ==
    ASSUME NEW h \in SoundHosts, live \in Seq(Snapshots), NEW next \in Seq(Snapshots),
           NEW selected \in Session \cup {None}, NEW saved \in SUBSET Uuid
    PROVE  LET t == Told(h, next)
               l == Relisted(h, next)
               d == Reselected(h, next, selected)
               r == Refreshed(d, Candidates(saved, next))
               n == SessionsChanged(h, next, selected, saved)
           IN  /\ t \in SoundHosts /\ Extends(h, t, Differences)
               /\ l \in SoundHosts /\ Extends(t, l, {"invalidated"})
               /\ d \in SoundHosts /\ Extends(l, d, {"active"})
               /\ r \in SoundHosts /\ Extends(d, r, Listing)
               /\ n \in SoundHosts /\ Extends(d, n, Listing)
               /\ n = IF Gone(next) = <<>> THEN r ELSE [r EXCEPT !.retry = TRUE]
<1> DEFINE t == Told(h, next)
           l == Relisted(h, next)
           d == Reselected(h, next, selected)
           r == Refreshed(d, Candidates(saved, next))
           n == SessionsChanged(h, next, selected, saved)
<1>1. Diff(next) \in Seq(OfType(Differences)) BY DiffIs, ChosenType DEF Diff, Gone, News
<1>2. t \in SoundHosts /\ Extends(h, t, Differences) BY <1>1, PostedIs DEF Told
<1>3. l = IF Uuids(next) = Uuids(live) THEN t ELSE Invalidated(t) BY DEF Relisted
<1>4. d = IF selected = active THEN l ELSE Posted(l, <<[type |-> "active", id |-> selected]>>)
  BY DEF Reselected
<1>5. n = IF Gone(next) = <<>> THEN r ELSE [r EXCEPT !.retry = TRUE]
  BY DEF SessionsChanged, Reselected, Relisted, Told, Diff, Gone, News, Removals, Arrivals
<1> HIDE DEF t, l, d
<1>6. l \in SoundHosts /\ Extends(t, l, {"invalidated"})
  BY <1>2, <1>3, InvalidatedIs, ExtendsSelf DEF SoundHosts
<1>7. [type |-> "active", id |-> selected] \in OfType({"active"}) BY DEF OfType, HostMessages
<1>8. d \in SoundHosts /\ Extends(l, d, {"active"})
  BY <1>4, <1>6, <1>7, PostedOne, ExtendsSelf DEF SoundHosts
<1>9. r \in SoundHosts /\ Extends(d, r, Listing) BY <1>8, RefreshedIs, CandidatesAre
<1> HIDE DEF r, n
<1>10. CASE Gone(next) = <<>> BY <1>2, <1>5, <1>6, <1>8, <1>9, <1>10 DEF t, l, d, r, n
<1>11. CASE Gone(next) # <<>>
  <2>1. n = [r EXCEPT !.retry = TRUE] BY <1>5, <1>11
  <2>2. r \in Hosts BY <1>9 DEF SoundHosts
  <2>3. n \in Hosts BY <2>1, <2>2 DEF Hosts
  <2>4. /\ n.open = r.open /\ n.ready = r.ready /\ n.doc = r.doc /\ n.seen = r.seen
        /\ n.out = r.out /\ n.scan = r.scan /\ n.pending = r.pending
    BY <2>1, <2>2 DEF Hosts
  <2>5. n \in SoundHosts BY <1>9, <2>3, <2>4 DEF SoundHosts
  <2>6. Extends(d, n, Listing) BY <1>8, <1>9, <2>2, <2>4, ExtendsInside, ExtendsTwice DEF SoundHosts
  <2> QED BY <1>2, <1>5, <1>6, <1>8, <1>9, <2>5, <2>6 DEF t, l, d, r, n
<1> QED BY <1>10, <1>11

\* The retry is due when a session has gone.
LEMMA RetryIs ==
    ASSUME NEW r \in Hosts
    PROVE  LET n == [r EXCEPT !.retry = TRUE]
           IN  /\ n \in Hosts /\ n.retry
               /\ n.open = r.open /\ n.ready = r.ready /\ n.doc = r.doc /\ n.seen = r.seen
               /\ n.resume = r.resume /\ n.scan = r.scan /\ n.pending = r.pending
               /\ n.revision = r.revision /\ n.paging = r.paging /\ n.cursors = r.cursors
               /\ n.out = r.out
BY DEF Hosts

--------------------
(* The pages of drafts *)

LEMMA Below ==
    ASSUME NEW S \in SUBSET Nat, NEW n \in Nat
    PROVE  LET B == {v \in S : v < n} IN IsFiniteSet(B) /\ Cardinality(B) \in Nat
<1> DEFINE B == {v \in S : v < n}
<1>1. IsFiniteSet(0..n) BY FS_Interval
<1>2. B \subseteq 0..n
  <2> SUFFICES ASSUME NEW v \in S, v < n PROVE v \in 0..n OBVIOUS
  <2> QED OBVIOUS
<1> QED BY <1>1, <1>2, FS_Subset, FS_CardinalityType

\* The first page of a set of conversations that has more ends at its greatest
\* conversation and holds all up to that.
LEMMA FirstPage ==
    ASSUME NEW rest \in SUBSET Uuid, rest # FirstOf(rest)
    PROVE  /\ Max(FirstOf(rest)) \in FirstOf(rest)
           /\ \A u \in rest : u \in FirstOf(rest) <=> u <= Max(FirstOf(rest))
<1> DEFINE below(u) == {v \in rest : v < u}
           first == FirstOf(rest)
<1>1. rest \in SUBSET Nat BY UuidAssumption
<1>2. PageLimit \in Nat /\ PageLimit > 0 BY BoundAssumption
<1>3. \A u \in rest : u \in first <=> Cardinality(below(u)) < PageLimit BY DEF FirstOf
<1>4. first \in SUBSET rest BY DEF FirstOf
<1>5. \A u \in rest : IsFiniteSet(below(u)) /\ Cardinality(below(u)) \in Nat BY <1>1, Below
<1> HIDE DEF first
<1>6. ASSUME NEW u \in rest, NEW v \in rest, u <= v, v \in first PROVE u \in first
  <2>1. below(u) \subseteq below(v)
    <3> SUFFICES ASSUME NEW x \in rest, x < u PROVE x < v OBVIOUS
    <3> QED BY <1>6, <1>1
  <2> HIDE DEF below
  <2> QED BY <1>2, <1>3, <1>5, <1>6, <2>1, FS_Subset
<1>7. PICK w \in rest : w \notin first BY <1>4 DEF first
<1>8. first # {}
  <2>1. PICK x \in rest : \A y \in rest : x <= y BY <1>1, <1>7, LeastNumber
  <2>2. below(x) = {}
    <3> SUFFICES ASSUME NEW v \in rest PROVE ~(v < x) OBVIOUS
    <3> QED BY <2>1, <1>1
  <2> HIDE DEF below
  <2> QED BY <1>2, <1>3, <2>1, <2>2, FS_EmptySet
<1>9. \E m \in first : \A u \in first : m >= u
  <2> DEFINE bounds == {b \in Nat : \A u \in first : u <= b}
  <2>1. w \in bounds BY <1>1, <1>4, <1>6, <1>7
  <2>2. PICK b \in bounds : \A c \in bounds : b <= c BY <2>1, LeastNumber
  <2>3. b \in first
    <3> SUFFICES ASSUME b \notin first PROVE FALSE OBVIOUS
    <3>1. PICK u \in first : TRUE BY <1>8
    <3> QED BY <2>2, <3>1, <1>1, <1>4
  <2> QED BY <2>3, <1>1, <1>4, <2>2
<1>10. Max(first) \in first /\ \A u \in first : Max(first) >= u BY <1>9 DEF Max
<1>11. \A u \in first : u <= Max(first) BY <1>1, <1>4, <1>10
<1> QED BY <1>10, <1>4, <1>6, <1>11 DEF first

\* The answer to a request, and the host that has handed out its cursor.
Rest(request) == {u \in Recoverable : request.after # None => u > request.after}
NextOf(request) == IF Rest(request) = FirstOf(Rest(request)) THEN None ELSE Max(FirstOf(Rest(request)))
Answer(h, request) ==
    [type |-> "page", doc |-> h.doc, request |-> request, revision |-> h.revision,
     rows |-> {Row(u) : u \in FirstOf(Rest(request)) \ Uuids(live)}, next |-> NextOf(request)]
Paging(h, request) ==
    [h EXCEPT !.paging = TRUE,
              !.cursors = (IF request.after = None THEN {} ELSE h.cursors)
                              \cup ({NextOf(request)} \ {None})]

Drafts == [Uuid -> [rev : Nat, text : BOOLEAN]]

LEMMA AnswerIs ==
    ASSUME NEW request \in Requests, draft \in Drafts
    PROVE  /\ Rest(request) \in SUBSET Uuid
           /\ NextOf(request) \in Uuid \cup {None}
           /\ {Row(u) : u \in FirstOf(Rest(request)) \ Uuids(live)} \in SUBSET Rows
<1>1. Rest(request) \in SUBSET Uuid BY DEF Rest, Recoverable
<1>2. FirstOf(Rest(request)) \subseteq Rest(request) BY DEF FirstOf
<1> QED BY <1>1, <1>2, FirstPage DEF NextOf, Row, Rows, Drafts

LEMMA RecoveryPageIs ==
    ASSUME NEW h \in SoundHosts, NEW request \in Requests, draft \in Drafts
    PROVE  LET r == RecoveryPage(h, request)
               n == Paging(h, request)
           IN  /\ n \in SoundHosts
               /\ n.open = h.open /\ n.ready = h.ready /\ n.doc = h.doc /\ n.seen = h.seen
               /\ n.resume = h.resume /\ n.scan = h.scan /\ n.pending = h.pending
               /\ n.retry = h.retry /\ n.revision = h.revision /\ n.out = h.out
               /\ h.ready => Answer(h, request) \in OfType({"page"})
               /\ r = IF Refused(h, request) THEN Invalidated(h) ELSE Posted(n, <<Answer(h, request)>>)
               /\ r \in SoundHosts /\ Extends(h, r, {"page", "invalidated"})
<1> DEFINE r == RecoveryPage(h, request)
           n == Paging(h, request)
<1>1. h \in Hosts BY DEF SoundHosts
<1>2. (IF request.after = None THEN {} ELSE h.cursors) \cup ({NextOf(request)} \ {None}) \in SUBSET Uuid
  BY <1>1, AnswerIs DEF Hosts
<1>3. n \in Hosts BY <1>1, <1>2 DEF Hosts, Paging
<1>4. /\ n.open = h.open /\ n.ready = h.ready /\ n.doc = h.doc /\ n.seen = h.seen
      /\ n.resume = h.resume /\ n.scan = h.scan /\ n.pending = h.pending
      /\ n.retry = h.retry /\ n.revision = h.revision /\ n.out = h.out
  BY <1>1 DEF Hosts, Paging
<1>5. n \in SoundHosts BY <1>3, <1>4 DEF SoundHosts
<1>6. ASSUME h.ready PROVE Answer(h, request) \in OfType({"page"})
  <2>1. PICK rows \in SUBSET Rows, next \in Uuid \cup {None} :
          Answer(h, request) = [type |-> "page", doc |-> h.doc, request |-> request, revision |-> h.revision,
                                rows |-> rows, next |-> next]
    BY AnswerIs DEF Answer
  <2> QED BY <1>1, <1>6, <2>1 DEF OfType, HostMessages, SoundHosts, Hosts
<1>7. r = IF Refused(h, request) THEN Invalidated(h) ELSE Posted(n, <<Answer(h, request)>>)
  BY DEF RecoveryPage, Paging, Answer, NextOf, Rest
<1> HIDE DEF n, r
<1>8. r \in SoundHosts /\ Extends(h, r, {"page", "invalidated"})
  <2>1. CASE Refused(h, request) BY <1>7, <2>1, InvalidatedIs, ExtendsWider
  <2>2. CASE ~Refused(h, request)
    BY <1>1, <1>5, <1>7, <2>2, <1>6, PostedOne, ExtendsWider, <1>4, ExtendsInside, ExtendsTwice
  <2> QED BY <2>1, <2>2
<1> QED BY <1>4, <1>5, <1>6, <1>7, <1>8 DEF n, r

--------------------
(* The first messages of a document *)

Talked == Chosen(live, {s \in ToSet(live) : printed[s.id] > 0})
Replay == [i \in DOMAIN Talked |->
             [type |-> "data", id |-> Talked[i].id, pieces |-> printed[Talked[i].id]]]
Hydration(h) == [type |-> "hydrate", sessions |-> live, uuids |-> h.resume, active |-> active]
Docked(h, d) == [h EXCEPT !.ready = TRUE, !.doc = d, !.seen = @ \cup {d}]

\* What the host knows of its sessions.
LiveSound ==
    /\ live \in Seq(Snapshots) /\ active \in Session \cup {None}
    /\ printed \in [Session -> (0..MaxOutput) \cup {None}]
    /\ Distinct(live)
    /\ \A s \in Ids(live) : printed[s] # None
    /\ active \in Ids(live) \cup {None}

LEMMA TalkedIs ==
    ASSUME LiveSound
    PROVE  /\ Talked \in Seq(Snapshots)
           /\ Distinct(Talked)
           /\ \A i \in DOMAIN Talked :
                /\ Talked[i].id \in Ids(live) /\ Talked[i].id \in Session
                /\ printed[Talked[i].id] \in 1..MaxOutput
           /\ \A s \in Ids(live) : printed[s] = 0 \/ \E i \in DOMAIN Talked : Talked[i].id = s
           /\ Replay \in Seq(OfType({"data"})) /\ Len(Replay) = Len(Talked)
<1>1. PICK t : t = Talked OBVIOUS
<1>2. t \in Seq(Snapshots) /\ Distinct(t)
      /\ ToSet(t) = {s \in ToSet(live) : printed[s.id] > 0}
  BY <1>1, ChosenType, ChosenDistinct, ChosenSet DEF Talked, LiveSound
<1>3. /\ \A x : x \in ToSet(t) <=> \E i \in DOMAIN t : t[i] = x
      /\ DOMAIN t = 1..Len(t) /\ Len(t) \in Nat
  BY <1>2, IdsAre
<1>4. /\ \A s : s \in Ids(live) <=> \E x \in ToSet(live) : x.id = s
      /\ Ids(live) \subseteq Session
  BY IdsAre DEF Ids, LiveSound
<1>5. ASSUME NEW s \in Ids(live) PROVE printed[s] \in 0..MaxOutput BY <1>4, <1>5 DEF LiveSound
<1>6. MaxOutput \in Nat BY BoundAssumption
<1>7. ASSUME NEW i \in DOMAIN t
      PROVE  t[i].id \in Ids(live) /\ t[i].id \in Session /\ printed[t[i].id] \in 1..MaxOutput
  BY <1>4, <1>5, <1>6, <1>2, <1>3
<1>8. ASSUME NEW s \in Ids(live), printed[s] # 0 PROVE \E i \in DOMAIN t : t[i].id = s
  <2>1. PICK x \in ToSet(live) : x.id = s BY <1>4
  <2> QED BY <1>2, <1>3, <2>1, <1>5, <1>6, <1>8
<1>9. PICK r : r = Replay OBVIOUS
<1> QED BY <1>1, <1>2, <1>7, <1>8, <1>9, <1>3, SequenceOf DEF Replay, OfType, HostMessages

LEMMA HydratedIs ==
    ASSUME NEW h \in SoundHosts, h.open, NEW d \in Documents, d \notin h.seen, LiveSound
    PROVE  LET n == Docked(h, d)
               ms == <<Hydration(h)>> \o Replay
               p == Posted(n, ms)
           IN  /\ n \in SoundHosts /\ n.ready /\ n.open /\ n.doc = d /\ n.seen = h.seen \cup {d}
               /\ n.resume = h.resume /\ n.scan = h.scan /\ n.pending = h.pending
               /\ n.retry = h.retry /\ n.revision = h.revision /\ n.out = h.out
               /\ Hydration(h) \in OfType({"hydrate"})
               /\ <<Hydration(h)>> \in Seq(OfType({"hydrate", "data"}))
               /\ Replay \in Seq(OfType({"hydrate", "data"}))
               /\ ms \in Seq(OfType({"hydrate", "data"}))
               /\ p \in SoundHosts /\ Extends(n, p, {"hydrate", "data"})
               /\ Hydrated(h, d) = Invalidated(p)
               /\ Hydrated(h, d) \in SoundHosts /\ Extends(p, Hydrated(h, d), {"invalidated"})
<1> DEFINE n == Docked(h, d)
           ms == <<Hydration(h)>> \o Replay
           p == Posted(n, ms)
           K == {"hydrate", "data"}
<1>1. h \in Hosts BY DEF SoundHosts
<1>2. h.seen \cup {d} \in SUBSET Documents BY <1>1 DEF Hosts
<1>3. n \in Hosts /\ n.ready = TRUE /\ n.doc = d /\ n.seen = h.seen \cup {d}
  BY <1>1, <1>2 DEF Hosts, Docked
<1>4. /\ n.open = h.open
      /\ n.resume = h.resume /\ n.scan = h.scan /\ n.pending = h.pending
      /\ n.retry = h.retry /\ n.revision = h.revision /\ n.out = h.out
  BY <1>1 DEF Hosts, Docked
<1>5. n \in SoundHosts BY <1>3, <1>4, NoneIs DEF SoundHosts
<1>6. Hydration(h) \in OfType({"hydrate"})
  BY <1>1 DEF OfType, HostMessages, Hydration, Hosts, LiveSound
<1>7. PICK m, r : m = Hydration(h) /\ r = Replay OBVIOUS
<1>8. m \in OfType(K) /\ r \in Seq(OfType(K)) BY <1>6, TalkedIs, <1>7, SubSequence DEF OfType
<1>9. <<m>> \in Seq(OfType(K)) BY <1>8
<1>10. <<m>> \o r \in Seq(OfType(K)) BY <1>8, <1>9, ConcatFacts
<1>11. ms = <<m>> \o r BY <1>7
<1>12. Hydrated(h, d) = Invalidated(p) BY DEF Hydrated, Hydration, Replay, Talked, Docked
<1> HIDE DEF n, ms
<1>13. p \in SoundHosts /\ Extends(n, p, K) BY <1>5, <1>10, <1>11, PostedIs
<1> HIDE DEF p
<1>14. Hydrated(h, d) \in SoundHosts /\ Extends(p, Hydrated(h, d), {"invalidated"})
  BY <1>12, <1>13, InvalidatedIs
<1> QED BY <1>3, <1>4, <1>5, <1>6, <1>7, <1>8, <1>9, <1>10, <1>11, <1>12, <1>13, <1>14 DEF n, ms, p

--------------------
(* What a document shows of the sessions *)

Content(p) == [tabs |-> p.tabs, hydrates |-> p.hydrates, terminal |-> p.terminal]

\* Tabs without terminal there are only before the first hydration, and no
\* terminal without a tab.
Contents ==
    {c \in [tabs : Seq(Snapshots), hydrates : 0..2, terminal : [Session -> Nat \cup {None}]] :
        /\ c.hydrates = 0 => \A s \in Session : c.terminal[s] = None
        /\ \A s \in Session : s \notin Ids(c.tabs) => c.terminal[s] = None
        /\ c.hydrates > 0 => \A s \in Ids(c.tabs) : c.terminal[s] # None}

WithSession(ss, x) ==
    IF x.id \in Ids(ss) THEN [i \in DOMAIN ss |-> IF ss[i].id = x.id THEN x ELSE ss[i]]
    ELSE Append(ss, x)

\* What a message makes of it.
AfterHydrate(c, m) ==
    [c EXCEPT !.hydrates = IF c.hydrates = 0 THEN 1 ELSE 2,
              !.tabs = m.sessions,
              !.terminal = [s \in Session |-> IF s \in Ids(m.sessions) THEN Ensured(c.terminal[s]) ELSE None]]
AfterSession(c, m) ==
    LET id == m.session.id
        terminal == IF c.hydrates > 0 THEN Ensured(c.terminal[id]) ELSE c.terminal[id]
    IN  [c EXCEPT !.tabs = WithSession(c.tabs, m.session), !.terminal = [c.terminal EXCEPT ![id] = terminal]]
AfterRemoval(c, m) ==
    [c EXCEPT !.tabs = Without(c.tabs, m.id), !.terminal = [c.terminal EXCEPT ![m.id] = None]]
AfterData(c, m) ==
    LET terminal == IF c.terminal[m.id] = None THEN None ELSE c.terminal[m.id] + m.pieces
    IN  [c EXCEPT !.terminal = [c.terminal EXCEPT ![m.id] = terminal]]

Follow(c, m) ==
    IF m.type = "hydrate" THEN AfterHydrate(c, m)
    ELSE IF m.type = "session" THEN AfterSession(c, m)
    ELSE IF m.type = "removed" THEN AfterRemoval(c, m)
    ELSE IF m.type = "data" THEN AfterData(c, m)
    ELSE c

LEMMA WithoutIs ==
    ASSUME NEW ss \in Seq(Snapshots), NEW s
    PROVE  /\ Without(ss, s) \in Seq(Snapshots)
           /\ Ids(Without(ss, s)) = Ids(ss) \ {s}
           /\ ToSet(Without(ss, s)) \subseteq ToSet(ss)
           /\ Distinct(ss) => Distinct(Without(ss, s))
<1> DEFINE T == {x \in ToSet(ss) : x.id # s}
<1> QED BY ChosenSet, ChosenType, ChosenDistinct DEF Ids, Without

LEMMA WithSessionIs ==
    ASSUME NEW ss \in Seq(Snapshots), NEW x \in Snapshots
    PROVE  WithSession(ss, x) \in Seq(Snapshots) /\ Ids(WithSession(ss, x)) = Ids(ss) \cup {x.id}
<1>1. CASE x.id \in Ids(ss)
  <2> DEFINE t == [i \in DOMAIN ss |-> IF ss[i].id = x.id THEN x ELSE ss[i]]
  <2>1. WithSession(ss, x) = t BY <1>1 DEF WithSession
  <2>2. t \in Seq(Snapshots) BY SequenceOf
  <2>3. DOMAIN t = DOMAIN ss /\ \A i \in DOMAIN ss : t[i].id = ss[i].id OBVIOUS
  <2> HIDE DEF t
  <2>4. Ids(t) = Ids(ss)
    <3>1. ASSUME NEW s PROVE s \in Ids(t) <=> s \in Ids(ss) BY <2>3, <2>2, IdsAre
    <3> QED BY <3>1
  <2> QED BY <1>1, <2>1, <2>2, <2>4
<1>2. CASE x.id \notin Ids(ss) BY <1>2, AppendedSet, AppendedFacts DEF WithSession, Ids
<1> QED BY <1>1, <1>2

LEMMA MessageIs ==
    ASSUME NEW m \in HostMessages
    PROVE  /\ m.type \in {"hydrate", "session", "removed", "active", "data", "resumable", "invalidated", "page"}
           /\ m.type = "hydrate" =>
                m.sessions \in Seq(Snapshots) /\ m.uuids \in SUBSET Uuid /\ m.active \in Session \cup {None}
           /\ m.type = "session" => m.session \in Snapshots /\ m.session.id \in Session
           /\ m.type = "removed" => m.id \in Session
           /\ m.type = "active" => m.id \in Session \cup {None}
           /\ m.type = "data" => m.id \in Session /\ m.pieces \in Nat /\ m.pieces > 0
           /\ m.type = "resumable" => m.uuids \in SUBSET Uuid
           /\ m.type = "invalidated" => m.doc \in Documents /\ m.revision \in Nat
           /\ m.type = "page" =>
                /\ m.doc \in Documents /\ m.request \in Requests /\ m.revision \in Nat
                /\ m.rows \in SUBSET Rows /\ m.next \in Uuid \cup {None}
<1>1. \A n \in 1..MaxOutput : n \in Nat /\ n > 0 BY BoundAssumption
<1>2. \A x \in Snapshots : x.id \in Session BY DEF Snapshots
<1> QED BY <1>1, <1>2 DEF HostMessages

LEMMA EnsuredIs ==
    ASSUME NEW t \in Nat \cup {None}
    PROVE  Ensured(t) \in Nat /\ Ensured(t) # None
BY NoneIs DEF Ensured

LEMMA ContentIs ==
    ASSUME NEW c
    PROVE  c \in Contents <=>
             /\ c \in [tabs : Seq(Snapshots), hydrates : 0..2, terminal : [Session -> Nat \cup {None}]]
             /\ c.hydrates = 0 => \A s \in Session : c.terminal[s] = None
             /\ \A s \in Session : s \notin Ids(c.tabs) => c.terminal[s] = None
             /\ c.hydrates > 0 => \A s \in Ids(c.tabs) : c.terminal[s] # None
BY DEF Contents

LEMMA FollowIs ==
    ASSUME NEW c \in Contents, NEW m \in HostMessages
    PROVE  Follow(c, m) \in Contents
<1>1. /\ c \in [tabs : Seq(Snapshots), hydrates : 0..2, terminal : [Session -> Nat \cup {None}]]
      /\ c.hydrates = 0 => \A s \in Session : c.terminal[s] = None
      /\ \A s \in Session : s \notin Ids(c.tabs) => c.terminal[s] = None
      /\ c.hydrates > 0 => \A s \in Ids(c.tabs) : c.terminal[s] # None
  BY ContentIs
<1>2. \A s \in Session : c.terminal[s] \in Nat \cup {None} BY <1>1
<1>3. PICK d : d = Follow(c, m) OBVIOUS
<1>4. CASE m.type = "hydrate"
  <2>1. d = AfterHydrate(c, m) /\ m.sessions \in Seq(Snapshots) BY <1>3, <1>4, MessageIs DEF Follow
  <2>2. PICK t : t = [s \in Session |-> IF s \in Ids(m.sessions) THEN Ensured(c.terminal[s]) ELSE None]
    OBVIOUS
  <2>3. t \in [Session -> Nat \cup {None}] BY <1>2, <2>2, EnsuredIs
  <2>4. /\ d \in [tabs : Seq(Snapshots), hydrates : 0..2, terminal : [Session -> Nat \cup {None}]]
        /\ d.hydrates > 0 /\ d.hydrates # 0 /\ d.tabs = m.sessions /\ d.terminal = t
    <3>1. PICK k : k = IF c.hydrates = 0 THEN 1 ELSE 2 OBVIOUS
    <3>2. k \in 0..2 /\ k > 0 /\ k # 0 BY <3>1
    <3>3. d = [c EXCEPT !.hydrates = k, !.tabs = m.sessions, !.terminal = t]
      BY <2>1, <2>2, <3>1 DEF AfterHydrate
    <3> QED BY <1>1, <2>1, <2>3, <3>2, <3>3
  <2> QED BY <1>3, <1>2, <2>2, EnsuredIs, <2>1, IdsAre, <2>4, ContentIs
<1>5. CASE m.type = "session"
  <2>1. d = AfterSession(c, m) /\ m.session \in Snapshots /\ m.session.id \in Session
    BY <1>3, <1>5, MessageIs DEF Follow
  <2>2. PICK id : id = m.session.id OBVIOUS
  <2>3. PICK v : v = IF c.hydrates > 0 THEN Ensured(c.terminal[id]) ELSE c.terminal[id] OBVIOUS
  <2>4. v \in Nat \cup {None} /\ (c.hydrates > 0 => v # None) /\ (c.hydrates = 0 => v = None)
    <3>1. c.terminal[id] \in Nat \cup {None} BY <1>2, <2>1, <2>2
    <3> QED
      <4>1. CASE c.hydrates = 0 BY <2>3, <3>1, <1>1, <2>1, <2>2, <4>1
      <4>2. CASE c.hydrates # 0
        <5>1. c.hydrates > 0 BY <1>1, <4>2
        <5> QED BY <2>3, <3>1, <4>2, <5>1, EnsuredIs
      <4> QED BY <4>1, <4>2
  <2>5. PICK t : t = [c.terminal EXCEPT ![id] = v] OBVIOUS
  <2>6. PICK tabs : tabs = WithSession(c.tabs, m.session) OBVIOUS
  <2>7. tabs \in Seq(Snapshots) /\ Ids(tabs) = Ids(c.tabs) \cup {id}
    BY <1>1, <2>1, <2>2, <2>6, WithSessionIs
  <2>8. d = [c EXCEPT !.tabs = tabs, !.terminal = t]
    BY <2>1, <2>2, <2>3, <2>5, <2>6 DEF AfterSession
  <2>9. /\ t \in [Session -> Nat \cup {None}] /\ t[id] = v
        /\ \A s \in Session : s # id => t[s] = c.terminal[s]
    BY <1>1, <2>1, <2>2, <2>4, <2>5
  <2>10. /\ d \in [tabs : Seq(Snapshots), hydrates : 0..2, terminal : [Session -> Nat \cup {None}]]
         /\ d.hydrates = c.hydrates /\ d.tabs = tabs /\ d.terminal = t
    BY <1>1, <2>7, <2>8, <2>9
  <2>11. d.hydrates > 0 => \A s \in Ids(d.tabs) : d.terminal[s] # None
    BY <1>1, <2>4, <2>7, <2>9, <2>10, <2>1, <2>2, IdsAre
  <2> QED BY <1>3, <2>10, <2>4, <1>1, <2>7, <2>9, <2>11, ContentIs
<1>6. CASE m.type = "removed"
  <2>1. d = AfterRemoval(c, m) /\ m.id \in Session BY <1>3, <1>6, MessageIs DEF Follow
  <2>2. PICK tabs, t : tabs = Without(c.tabs, m.id) /\ t = [c.terminal EXCEPT ![m.id] = None]
    OBVIOUS
  <2>3. tabs \in Seq(Snapshots) /\ Ids(tabs) = Ids(c.tabs) \ {m.id} BY <1>1, <2>2, WithoutIs
  <2>4. /\ t \in [Session -> Nat \cup {None}] /\ t[m.id] = None
        /\ \A s \in Session : s # m.id => t[s] = c.terminal[s]
    BY <1>1, <2>1, <2>2
  <2>5. /\ d \in [tabs : Seq(Snapshots), hydrates : 0..2, terminal : [Session -> Nat \cup {None}]]
        /\ d.hydrates = c.hydrates /\ d.tabs = tabs /\ d.terminal = t
    BY <1>1, <2>1, <2>2, <2>3, <2>4 DEF AfterRemoval
  <2>6. Ids(c.tabs) \subseteq Session BY <1>1, IdsAre
  <2> QED BY <1>1, <1>3, <2>3, <2>4, <2>5, <2>6, ContentIs
<1>7. CASE m.type = "data"
  <2>1. d = AfterData(c, m) /\ m.id \in Session /\ m.pieces \in Nat
    BY <1>3, <1>7, MessageIs DEF Follow
  <2>2. PICK v : v = IF c.terminal[m.id] = None THEN None ELSE c.terminal[m.id] + m.pieces OBVIOUS
  <2>3. v \in Nat \cup {None} /\ (v = None <=> c.terminal[m.id] = None) BY <1>2, <2>1, <2>2, NoneIs
  <2>4. PICK t : t = [c.terminal EXCEPT ![m.id] = v] OBVIOUS
  <2>5. /\ t \in [Session -> Nat \cup {None}] /\ t[m.id] = v
        /\ \A s \in Session : s # m.id => t[s] = c.terminal[s]
    BY <1>1, <2>1, <2>3, <2>4
  <2>6. /\ d \in [tabs : Seq(Snapshots), hydrates : 0..2, terminal : [Session -> Nat \cup {None}]]
        /\ d.hydrates = c.hydrates /\ d.tabs = c.tabs /\ d.terminal = t
    BY <1>1, <2>5, <2>1, <2>2, <2>4 DEF AfterData
  <2> QED BY <1>1, <1>3, <2>6, <2>3, <2>5, IdsAre, ContentIs
<1>8. CASE m.type \notin {"hydrate", "session", "removed", "data"} BY <1>3, <1>8 DEF Follow
<1> QED BY <1>4, <1>5, <1>6, <1>7, <1>8

--------------------
(* The changes of the list of sessions *)

\* A session arrives or changes, one goes, or all stay as they are.
Arrival(next, x) ==
    /\ x \in Snapshots /\ next = WithSession(live, x)
    /\ Gone(next) = <<>> /\ News(next) = <<x>>
Departure(next, s) ==
    /\ s \in Ids(live) /\ next = Without(live, s)
    /\ News(next) = <<>> /\ Removals(Gone(next)) = <<[type |-> "removed", id |-> s]>>
    /\ Gone(next) # <<>>
NoChange(next) == next = live /\ Gone(next) = <<>> /\ News(next) = <<>>

ListStep(next) ==
    /\ next \in Seq(Snapshots) /\ Distinct(next)
    /\ (\E x : Arrival(next, x)) \/ (\E s : Departure(next, s)) \/ NoChange(next)

\* A list of which one member is another.
LEMMA OneChanged ==
    ASSUME NEW ss \in Seq(Snapshots), Distinct(ss), NEW x \in Snapshots, NEW i \in DOMAIN ss,
           x.id = ss[i].id, x # ss[i], NEW t,
           t = [k \in DOMAIN ss |-> IF ss[k].id = x.id THEN x ELSE ss[k]]
    PROVE  /\ t \in Seq(Snapshots) /\ Distinct(t) /\ Ids(t) = Ids(ss)
           /\ t = WithSession(ss, x)
           /\ ToSet(t) \cap (ToSet(t) \ ToSet(ss)) = {x}
<1>1. x.id \in Ids(ss) BY IdsAre
<1>2. t = WithSession(ss, x) BY <1>1 DEF WithSession
<1>3. t \in Seq(Snapshots) /\ Ids(t) = Ids(ss) \cup {x.id} BY <1>2, WithSessionIs
<1>4. DOMAIN t = DOMAIN ss /\ \A k \in DOMAIN ss : t[k].id = ss[k].id /\ (k # i => t[k] = ss[k]) /\ t[i] = x
  BY DEF Distinct
<1>5. ASSUME NEW y PROVE y \in ToSet(t) \cap (ToSet(t) \ ToSet(ss)) <=> y = x
  BY <1>4, <1>3, IdsAre DEF Distinct
<1>6. Ids(t) = Ids(ss) BY <1>1, <1>3
<1> QED BY <1>2, <1>3, <1>4, <1>6, <1>5 DEF Distinct

LEMMA NoneGone ==
    ASSUME live \in Seq(Snapshots), NEW next, Ids(live) \subseteq Ids(next)
    PROVE  Gone(next) = <<>>
<1> DEFINE T == {s \in ToSet(live) : s.id \notin Ids(next)}
<1>1. \A s \in ToSet(live) : s.id \in Ids(live) BY DEF Ids
<1> HIDE DEF T
<1> QED BY <1>1, ChosenNone DEF Gone, T

LEMMA LaunchLists ==
    ASSUME LiveSound, NEW s \in Session, s \notin Ids(live), NEW u \in Uuid
    PROVE  LET next == Append(live, Snapshot(s, u))
           IN  ListStep(next) /\ Arrival(next, Snapshot(s, u)) /\ Ids(next) = Ids(live) \cup {s}
               /\ Uuids(next) = Uuids(live) \cup {u}
<1>1. PICK x : x = Snapshot(s, u) OBVIOUS
<1>2. x \in Snapshots /\ x.id = s /\ x.uuid = u BY <1>1 DEF Snapshot, Snapshots
<1>3. PICK next : next = Append(live, x) OBVIOUS
<1>4. live \in Seq(Snapshots) /\ Distinct(live) BY DEF LiveSound
<1>5. next = WithSession(live, x) BY <1>2, <1>3 DEF WithSession
<1>6. next \in Seq(Snapshots) /\ Ids(next) = Ids(live) \cup {s} BY <1>2, <1>4, <1>5, WithSessionIs
<1>7. ToSet(next) = ToSet(live) \cup {x} BY <1>2, <1>3, <1>4, AppendedSet
<1>8. \A i \in DOMAIN live : live[i].id # s BY <1>4, IdsAre
<1>9. Distinct(next)
  <2> SUFFICES ASSUME NEW i \in DOMAIN next, NEW j \in DOMAIN next, next[i].id = next[j].id PROVE i = j
    BY DEF Distinct
  <2> QED BY <1>2, <1>4, <1>3, AppendedFacts, <1>8 DEF Distinct
<1>10. Gone(next) = <<>> BY <1>4, <1>6, NoneGone
<1>11. ToSet(next) \cap (ToSet(next) \ ToSet(live)) = {x} BY <1>7, <1>2, <1>4, <1>8, IdsAre
<1>12. News(next) = <<x>> BY <1>6, <1>9, <1>11, ChosenOne DEF News
<1> QED BY <1>1, <1>2, <1>3, <1>5, <1>6, <1>7, <1>9, <1>10, <1>12 DEF ListStep, Arrival, Uuids

LEMMA UpdateLists ==
    ASSUME LiveSound, NEW s \in Session, NEW x \in Snapshots, NEW i \in DOMAIN live, live[i].id = s,
           x.id = s, x.uuid = live[i].uuid, x # live[i], NEW next,
           next = [k \in DOMAIN live |-> IF live[k].id = s THEN x ELSE live[k]]
    PROVE  ListStep(next) /\ Arrival(next, x) /\ Ids(next) = Ids(live) /\ Uuids(next) = Uuids(live)
<1>1. live \in Seq(Snapshots) /\ Distinct(live) BY DEF LiveSound
<1>2. /\ next \in Seq(Snapshots) /\ Distinct(next) /\ Ids(next) = Ids(live)
      /\ next = WithSession(live, x)
      /\ ToSet(next) \cap (ToSet(next) \ ToSet(live)) = {x}
  <2>1. PICK ss, t : ss = live /\ t = next OBVIOUS
  <2>2. /\ ss \in Seq(Snapshots) /\ Distinct(ss) /\ i \in DOMAIN ss /\ x.id = ss[i].id /\ x # ss[i]
        /\ t = [k \in DOMAIN ss |-> IF ss[k].id = x.id THEN x ELSE ss[k]]
    BY <1>1, <2>1
  <2>3. /\ t \in Seq(Snapshots) /\ Distinct(t) /\ Ids(t) = Ids(ss) /\ t = WithSession(ss, x)
        /\ ToSet(t) \cap (ToSet(t) \ ToSet(ss)) = {x}
    BY ONLY <2>2, x \in Snapshots, OneChanged
  <2> QED BY <2>1, <2>3
<1>3. News(next) = <<x>> BY <1>2, ChosenOne DEF News
<1>4. Gone(next) = <<>> BY <1>1, <1>2, NoneGone
<1>5. DOMAIN next = DOMAIN live /\ \A k \in DOMAIN live : next[k].uuid = live[k].uuid
  BY <1>1 DEF Distinct
<1>6. Uuids(next) = Uuids(live)
  <2>1. ASSUME NEW u PROVE u \in Uuids(next) <=> u \in Uuids(live)
    <3>1. \A y : y \in ToSet(next) <=> \E k \in DOMAIN next : next[k] = y BY <1>2, IdsAre
    <3>2. \A y : y \in ToSet(live) <=> \E k \in DOMAIN live : live[k] = y BY <1>1, IdsAre
    <3> QED BY <1>5, <3>1, <3>2 DEF Uuids
  <2> QED BY <2>1
<1> QED BY <1>2, <1>3, <1>4, <1>6 DEF ListStep, Arrival

\* A session closes, or is renamed.
LEMMA UpdatedLists ==
    ASSUME LiveSound, NEW s \in Session, NEW field, NEW value,
           \/ field = "state" /\ value = "closing"
           \/ field = "renamed" /\ value = TRUE,
           Updated(s, field, value) # live
    PROVE  LET next == Updated(s, field, value)
           IN  ListStep(next) /\ (\E x : Arrival(next, x)) /\ Ids(next) = Ids(live) /\ Uuids(next) = Uuids(live)
<1>1. live \in Seq(Snapshots) /\ Distinct(live) BY DEF LiveSound
<1>2. PICK next : next = Updated(s, field, value) OBVIOUS
<1>3. next = [i \in DOMAIN live |-> IF live[i].id = s THEN [live[i] EXCEPT ![field] = value] ELSE live[i]]
  BY <1>2 DEF Updated
<1>4. PICK i \in DOMAIN live : live[i].id = s
  <2> SUFFICES ASSUME \A i \in DOMAIN live : live[i].id # s PROVE FALSE OBVIOUS
  <2> QED BY <1>2, <1>1, <1>3
<1>5. PICK x : x = [live[i] EXCEPT ![field] = value] OBVIOUS
<1>6. live[i] \in Snapshots BY <1>1
<1>7. x \in Snapshots /\ x.id = s /\ x.uuid = live[i].uuid
  <2>1. CASE field = "state" /\ value = "closing" BY <1>4, <1>5, <1>6, <2>1 DEF Snapshots
  <2>2. CASE field = "renamed" /\ value = TRUE BY <1>4, <1>5, <1>6, <2>2 DEF Snapshots
  <2> QED BY <2>1, <2>2
<1>8. \A k \in DOMAIN live : live[k].id = s => k = i BY <1>1, <1>4 DEF Distinct
<1>9. next = [k \in DOMAIN live |-> IF live[k].id = s THEN x ELSE live[k]] BY <1>3, <1>5, <1>8
<1>10. x # live[i]
  <2> SUFFICES ASSUME x = live[i] PROVE FALSE OBVIOUS
  <2> QED BY <1>2, <1>1, <1>8, <1>9
<1> QED BY <1>2, <1>4, <1>7, <1>9, <1>10, UpdateLists

LEMMA SameList ==
    ASSUME LiveSound
    PROVE  ListStep(live) /\ NoChange(live)
<1> QED BY NoneGone, ChosenNone DEF ListStep, NoChange, News, LiveSound

LEMMA ExitLists ==
    ASSUME LiveSound, NEW s \in Ids(live)
    PROVE  LET next == Without(live, s)
           IN  ListStep(next) /\ Departure(next, s) /\ Ids(next) = Ids(live) \ {s}
<1>1. live \in Seq(Snapshots) /\ Distinct(live) BY DEF LiveSound
<1>2. PICK next : next = Without(live, s) OBVIOUS
<1>3. next \in Seq(Snapshots) /\ Distinct(next) /\ Ids(next) = Ids(live) \ {s} /\ ToSet(next) \subseteq ToSet(live)
  BY <1>1, <1>2, WithoutIs
<1>4. PICK i \in DOMAIN live : live[i].id = s BY <1>1, IdsAre
<1>5. News(next) = <<>> BY <1>3, ChosenNone DEF News
<1>6. Gone(next) = <<live[i]>>
  <2> DEFINE T == {x \in ToSet(live) : x.id \notin Ids(next)}
  <2>1. \A x \in ToSet(live) : x.id \in Ids(live) BY DEF Ids
  <2>2. \A x \in ToSet(live) : x.id = s <=> x = live[i]
    <3>1. ASSUME NEW x \in ToSet(live), x.id = s PROVE x = live[i]
      <4>1. PICK k \in DOMAIN live : live[k] = x BY <1>1, IdsAre
      <4> QED BY <1>1, <1>4, <3>1, <4>1 DEF Distinct
    <3> QED BY <1>4, <3>1
  <2>3. ToSet(live) \cap T = {live[i]} BY <1>3, <2>1, <2>2, <1>1, IdsAre
  <2> HIDE DEF T
  <2>4. Chosen(live, T) = <<live[i]>> BY <1>1, <2>3, ChosenOne
  <2> QED BY <2>4 DEF Gone, T
<1>7. Removals(Gone(next)) = <<[type |-> "removed", id |-> s]>>
  <2>1. PICK g : g = Gone(next) OBVIOUS
  <2> QED BY <2>1, <1>4, <1>6 DEF Removals
<1> QED BY <1>2, <1>3, <1>5, <1>6, <1>7 DEF ListStep, Departure

\* The selection moves to a neighbour that is there.
LEMMA Neighbour ==
    ASSUME NEW rest \in Seq(Snapshots), rest # <<>>, NEW i \in Nat \ {0}
    PROVE  rest[Min({i, Len(rest)})].id \in Ids(rest)
<1>1. Len(rest) \in Nat /\ Len(rest) > 0 /\ DOMAIN rest = 1..Len(rest) OBVIOUS
<1>2. PICK n : n = Len(rest) OBVIOUS
<1>3. \E x \in {i, n} : \A y \in {i, n} : x <= y
  <2>1. CASE i <= n BY <1>1, <1>2, <2>1
  <2>2. CASE n <= i BY <1>1, <1>2, <2>2
  <2> QED BY <1>1, <1>2, <2>1, <2>2
<1>4. Min({i, n}) \in {i, n} /\ \A y \in {i, n} : Min({i, n}) <= y BY <1>3 DEF Min
<1>5. PICK k : k = Min({i, n}) OBVIOUS
<1> QED BY <1>1, <1>2, <1>5, <1>4, IdsAre

--------------------
(* Documents *)

Records == [tabs : Seq(Snapshots), hydrates : 0..2, terminal : [Session -> Nat \cup {None}]]

LEMMA PageIs ==
    ASSUME NEW p \in Pages
    PROVE  /\ Content(p) \in Records
           /\ Content(p).tabs = p.tabs /\ Content(p).hydrates = p.hydrates /\ Content(p).terminal = p.terminal
           /\ p # None /\ p.id \in Documents
BY NoneIs DEF Pages, Content, Records

LEMMA DocumentIs ==
    ASSUME NEW d \in Documents
    PROVE  /\ Document(d) \in Pages /\ Document(d) # None /\ Document(d).id = d /\ ~Document(d).loaded
           /\ Content(Document(d)) \in Contents
           /\ Document(d).revision = None /\ Document(d).request = None
           /\ Document(d).rows = {} /\ Document(d).staging = {}
<1>1. PICK t : t = [s \in Session |-> None] OBVIOUS
<1>2. t \in [Session -> Nat \cup {None}] /\ \A s \in Session : t[s] = None BY <1>1
<1>3. PICK p : p = Document(d) OBVIOUS
<1>4. p = [id |-> d, loaded |-> FALSE, hydrates |-> 0, tabs |-> <<>>, active |-> None,
           clicked |-> FALSE, terminal |-> t, resume |-> {},
           revision |-> None, request |-> None, staging |-> {}, rows |-> {}]
  BY <1>1, <1>3 DEF Document
<1>5. p \in Pages BY <1>2, <1>4 DEF Pages
<1>6. p # None BY <1>5, PageIs
<1> QED BY <1>3, <1>5, <1>2, PageIs, ContentIs, <1>4, <1>6 DEF Records

\* The document that has received a message shows what the message makes of it.
Shows(next, m) ==
    /\ next \in Pages /\ Content(next) = Follow(Content(page), m)
    /\ next.id = page.id /\ next.loaded = page.loaded

\* The same of what the messages about sessions leave alone.
SameRest(next) ==
    /\ next.resume = page.resume /\ next.revision = page.revision /\ next.request = page.request
    /\ next.staging = page.staging /\ next.rows = page.rows

LEMMA HydratedPageIs ==
    ASSUME page \in Pages, Content(page) \in Contents, NEW m \in HostMessages, m.type = "hydrate"
    PROVE  LET n == HydratedPage(m)
           IN  /\ Shows(n, m) /\ n.resume = m.uuids /\ n.active = m.active /\ ~n.clicked
               /\ n.revision = page.revision /\ n.request = page.request
               /\ n.staging = page.staging /\ n.rows = page.rows
<1>1. m.sessions \in Seq(Snapshots) /\ m.uuids \in SUBSET Uuid /\ m.active \in Session \cup {None}
  BY MessageIs
<1>2. PICK k : k = IF page.hydrates = 0 THEN 1 ELSE 2 OBVIOUS
<1>3. PICK t : t = ReplacedTerminals(Ids(m.sessions)) OBVIOUS
<1>4. t = [s \in Session |-> IF s \in Ids(m.sessions) THEN Ensured(page.terminal[s]) ELSE None]
  BY <1>3 DEF ReplacedTerminals
<1>5. \A s \in Session : page.terminal[s] \in Nat \cup {None} BY DEF Pages
<1>6. t \in [Session -> Nat \cup {None}] /\ k \in 0..2
  <2>1. \A s \in Session : Ensured(page.terminal[s]) \in Nat BY <1>5, EnsuredIs
  <2> QED BY <1>4, <1>2, <2>1
<1>7. PICK n : n = HydratedPage(m) OBVIOUS
<1>8. n = [page EXCEPT !.hydrates = k, !.tabs = m.sessions, !.resume = m.uuids, !.active = m.active,
                       !.clicked = FALSE, !.terminal = t]
  BY <1>2, <1>3, <1>7 DEF HydratedPage
<1>9. /\ n \in Pages /\ n.tabs = m.sessions /\ n.hydrates = k /\ n.terminal = t
       /\ n.id = page.id /\ n.loaded = page.loaded
       /\ n.resume = m.uuids /\ n.active = m.active /\ n.clicked = FALSE
       /\ n.revision = page.revision /\ n.request = page.request
       /\ n.staging = page.staging /\ n.rows = page.rows
  BY <1>1, <1>6, <1>8 DEF Pages
<1>10. PICK c : c = Content(page) OBVIOUS
<1>11. c \in Records /\ c.tabs = page.tabs /\ c.hydrates = page.hydrates /\ c.terminal = page.terminal
  BY <1>10, PageIs
<1>12. Follow(c, m) = [c EXCEPT !.hydrates = k, !.tabs = m.sessions, !.terminal = t]
  BY <1>2, <1>4, <1>11 DEF Follow, AfterHydrate
<1>13. Follow(c, m) = [tabs |-> m.sessions, hydrates |-> k, terminal |-> t]
  BY <1>11, <1>12 DEF Records
<1> QED BY <1>7, <1>9, <1>10, <1>13 DEF Shows, Content

LEMMA WithTabIs ==
    ASSUME page \in Pages, Content(page) \in Contents, NEW m \in HostMessages, m.type = "session"
    PROVE  LET n == WithTab(m)
           IN  Shows(n, m) /\ SameRest(n) /\ n.active = page.active /\ n.clicked = page.clicked
<1>1. m.session \in Snapshots /\ m.session.id \in Session BY MessageIs
<1>2. page.hydrates \in 0..2 /\ page.terminal \in [Session -> Nat \cup {None}] /\ page.tabs \in Seq(Snapshots)
  BY DEF Pages
<1>3. PICK id : id = m.session.id OBVIOUS
<1>4. PICK v : v = IF page.hydrates > 0 THEN Ensured(page.terminal[id]) ELSE page.terminal[id]
  OBVIOUS
<1>5. page.terminal[id] \in Nat \cup {None} BY <1>1, <1>2, <1>3
<1>6. v \in Nat \cup {None} BY <1>4, <1>5, EnsuredIs
<1>7. PICK t : t = [page.terminal EXCEPT ![id] = v] OBVIOUS
<1>8. PICK tabs : tabs = WithSession(page.tabs, m.session) OBVIOUS
<1>9. t \in [Session -> Nat \cup {None}] /\ tabs \in Seq(Snapshots)
  BY <1>1, <1>2, <1>6, <1>7, <1>8, WithSessionIs
<1>10. PICK n : n = WithTab(m) OBVIOUS
<1>11. n = [page EXCEPT !.tabs = tabs, !.terminal = t]
  BY <1>2, <1>4, <1>7, <1>3, <1>8, <1>10 DEF Pages, WithTab, WithSession
<1>12. /\ n \in Pages /\ n.tabs = tabs /\ n.hydrates = page.hydrates /\ n.terminal = t
       /\ n.id = page.id /\ n.loaded = page.loaded
       /\ n.active = page.active /\ n.clicked = page.clicked /\ n.resume = page.resume
       /\ n.revision = page.revision /\ n.request = page.request
       /\ n.staging = page.staging /\ n.rows = page.rows
  BY <1>9, <1>11 DEF Pages
<1>13. PICK c : c = Content(page) OBVIOUS
<1>14. c \in Records /\ c.tabs = page.tabs /\ c.hydrates = page.hydrates /\ c.terminal = page.terminal
  BY <1>13, PageIs
<1>15. Follow(c, m) = [c EXCEPT !.tabs = tabs, !.terminal = t]
  BY <1>3, <1>4, <1>7, <1>8, <1>14 DEF Follow, AfterSession
<1>16. Follow(c, m) = [tabs |-> tabs, hydrates |-> page.hydrates, terminal |-> t]
  BY <1>14, <1>15 DEF Records
<1> QED BY <1>10, <1>12, <1>13, <1>16 DEF Shows, SameRest, Content

LEMMA WithoutTabIs ==
    ASSUME page \in Pages, Content(page) \in Contents, NEW m \in HostMessages, m.type = "removed"
    PROVE  LET n == WithoutTab(m)
           IN  /\ Shows(n, m) /\ SameRest(n) /\ n.clicked = page.clicked
               /\ n.active = IF page.active = m.id THEN None ELSE page.active
<1>1. /\ page.terminal \in [Session -> Nat \cup {None}] /\ page.tabs \in Seq(Snapshots)
      /\ page.active \in Session \cup {None}
  BY DEF Pages
<1>2. PICK t, tabs, a : /\ t = [page.terminal EXCEPT ![m.id] = None] /\ tabs = Without(page.tabs, m.id)
                        /\ a = IF page.active = m.id THEN None ELSE page.active
  OBVIOUS
<1>3. t \in [Session -> Nat \cup {None}] /\ tabs \in Seq(Snapshots) /\ a \in Session \cup {None}
  BY MessageIs, <1>1, <1>2, WithoutIs
<1>4. PICK n : n = WithoutTab(m) OBVIOUS
<1>5. n = [page EXCEPT !.tabs = tabs, !.terminal = t, !.active = a]
  BY <1>1, <1>2, <1>4 DEF Pages, WithoutTab
<1>6. /\ n \in Pages /\ n.tabs = tabs /\ n.hydrates = page.hydrates /\ n.terminal = t
      /\ n.id = page.id /\ n.loaded = page.loaded
      /\ n.active = a /\ n.clicked = page.clicked /\ n.resume = page.resume
      /\ n.revision = page.revision /\ n.request = page.request
      /\ n.staging = page.staging /\ n.rows = page.rows
  BY <1>3, <1>5 DEF Pages
<1>7. PICK c : c = Content(page) OBVIOUS
<1>8. c \in Records /\ c.tabs = page.tabs /\ c.hydrates = page.hydrates /\ c.terminal = page.terminal
  BY <1>7, PageIs
<1>9. Follow(c, m) = [c EXCEPT !.tabs = tabs, !.terminal = t]
  BY <1>2, <1>8 DEF Follow, AfterRemoval
<1>10. Follow(c, m) = [tabs |-> tabs, hydrates |-> page.hydrates, terminal |-> t]
  BY <1>8, <1>9 DEF Records
<1> QED BY <1>2, <1>4, <1>6, <1>7, <1>10 DEF Shows, SameRest, Content

LEMMA WithOutputIs ==
    ASSUME page \in Pages, Content(page) \in Contents, NEW m \in HostMessages, m.type = "data"
    PROVE  LET n == WithOutput(m)
           IN  Shows(n, m) /\ SameRest(n) /\ n.active = page.active /\ n.clicked = page.clicked
<1>1. m.id \in Session /\ m.pieces \in Nat BY MessageIs
<1>2. page.terminal \in [Session -> Nat \cup {None}] /\ page.terminal[m.id] \in Nat \cup {None}
  BY <1>1 DEF Pages
<1>3. PICK v : v = IF page.terminal[m.id] = None THEN None ELSE page.terminal[m.id] + m.pieces
  OBVIOUS
<1>4. PICK t : t = [page.terminal EXCEPT ![m.id] = v] OBVIOUS
<1>5. t \in [Session -> Nat \cup {None}] BY <1>1, <1>2, <1>3, <1>4
<1>6. PICK n : n = WithOutput(m) OBVIOUS
<1>7. n = [page EXCEPT !.terminal = t] BY <1>2, <1>3, <1>4, <1>6 DEF WithOutput, Pages
<1>8. /\ n \in Pages /\ n.tabs = page.tabs /\ n.hydrates = page.hydrates /\ n.terminal = t
      /\ n.id = page.id /\ n.loaded = page.loaded
      /\ n.active = page.active /\ n.clicked = page.clicked /\ n.resume = page.resume
      /\ n.revision = page.revision /\ n.request = page.request
      /\ n.staging = page.staging /\ n.rows = page.rows
  BY <1>5, <1>7 DEF Pages
<1>9. PICK c : c = Content(page) OBVIOUS
<1> QED
  BY <1>6, <1>8, <1>9, PageIs, <1>3, <1>4 DEF Shows, SameRest, Content, Records, Follow, AfterData

\* The messages that leave the sessions of a document alone.
LEMMA OthersShow ==
    ASSUME page \in Pages, NEW n \in Pages, NEW m,
           m.type \notin {"hydrate", "session", "removed", "data"},
           n.tabs = page.tabs, n.hydrates = page.hydrates, n.terminal = page.terminal,
           n.id = page.id, n.loaded = page.loaded
    PROVE  Shows(n, m)
BY DEF Shows, Content, Follow

LEMMA WithSelectionIs ==
    ASSUME page \in Pages, NEW m \in HostMessages, m.type = "active"
    PROVE  LET n == WithSelection(m)
           IN  Shows(n, m) /\ SameRest(n) /\ n.active = m.id /\ ~n.clicked
<1>1. m.id \in Session \cup {None} BY MessageIs
<1>2. PICK n : n = WithSelection(m) OBVIOUS
<1>3. n = [page EXCEPT !.active = m.id, !.clicked = FALSE] BY <1>2 DEF WithSelection
<1>4. /\ n \in Pages /\ n.tabs = page.tabs /\ n.hydrates = page.hydrates /\ n.terminal = page.terminal
      /\ n.id = page.id /\ n.loaded = page.loaded /\ n.active = m.id /\ n.clicked = FALSE
      /\ SameRest(n)
  BY <1>1, <1>3 DEF Pages, SameRest
<1> QED BY <1>2, <1>4, OthersShow

LEMMA WithResumableIs ==
    ASSUME page \in Pages, NEW m \in HostMessages, m.type = "resumable"
    PROVE  LET n == WithResumable(m)
           IN  /\ Shows(n, m) /\ n.active = page.active /\ n.clicked = page.clicked /\ n.resume = m.uuids
               /\ n.revision = page.revision /\ n.request = page.request
               /\ n.staging = page.staging /\ n.rows = page.rows
<1>1. PICK n : n = WithResumable(m) OBVIOUS
<1> QED BY <1>1, MessageIs, OthersShow DEF Pages, WithResumable

--------------------
(* Types *)

WorldSound ==
    /\ LiveSound
    /\ known \in SUBSET Uuid /\ unrecorded \in SUBSET Uuid
    /\ transcript \in [Uuid -> (SUBSET {"meta", "message", "odd"}) \cup {None}]
    /\ draft \in [Uuid -> [rev : 0..(MaxEvents + 1), text : BOOLEAN]]
    /\ \A u \in Uuid : draft[u].rev <= events + 1
    /\ erasing \subseteq forgotten /\ forgotten \subseteq Uuid
    /\ asking \in [id : Session, current : BOOLEAN] \cup {None}
    /\ events \in 0..MaxEvents

\* A view is open when it has a document, which starts with what it is told.
ViewSound ==
    /\ host \in SoundHosts
    /\ toHost \in Seq(WebviewMessages)
    /\ page \in Pages \cup {None}
    /\ page # None => Content(page) \in Contents
    /\ documents \in 0..MaxDocument
    /\ host.open <=> page # None
    /\ page = None => toHost = <<>>

TypesSound == WorldSound /\ ViewSound

LEMMA TypesAre ==
    ASSUME TypesSound
    PROVE  TypeOK
BY DEF TypesSound, WorldSound, ViewSound, LiveSound, SoundHosts, TypeOK

LEMMA DraftsAre ==
    ASSUME WorldSound
    PROVE  draft \in Drafts
<1> QED BY BoundAssumption DEF WorldSound, Drafts

\* The document takes the first message.
LEMMA AppliesIs ==
    ASSUME ViewSound, NEW type, NEW next, Applies(type, next)
    PROVE  /\ page \in Pages /\ page # None /\ page.loaded /\ Content(page) \in Contents
           /\ host.out \in Seq(HostMessages) /\ host.out # <<>>
           /\ Received \in HostMessages /\ Received = host.out[1] /\ Received.type = type
           /\ page' = next
           /\ host' \in SoundHosts
           /\ host'.open = host.open /\ host'.ready = host.ready /\ host'.doc = host.doc
           /\ host'.seen = host.seen /\ host'.resume = host.resume /\ host'.scan = host.scan
           /\ host'.pending = host.pending /\ host'.retry = host.retry
           /\ host'.revision = host.revision /\ host'.out = Tail(host.out)
           /\ UNCHANGED <<live, active, printed, store, composer, asking, documents, events>>
<1>1. host \in Hosts /\ host.out \in Seq(HostMessages) BY OutIs DEF ViewSound, SoundHosts
<1>2. host.out # <<>> /\ Received.type = type /\ page' = next
      /\ host' = [host EXCEPT !.out = Tail(@)]
      /\ UNCHANGED <<live, active, printed, store, composer, asking, documents, events>>
  BY DEF Applies
<1>3. Received \in HostMessages /\ Received = host.out[1] /\ Tail(host.out) \in Seq(HostMessages)
  BY <1>1, <1>2, TailFacts DEF Received
<1>4. /\ host' \in Hosts /\ host'.out = Tail(host.out)
      /\ host'.open = host.open /\ host'.ready = host.ready /\ host'.doc = host.doc
      /\ host'.seen = host.seen /\ host'.resume = host.resume /\ host'.scan = host.scan
      /\ host'.pending = host.pending /\ host'.retry = host.retry
      /\ host'.revision = host.revision
  BY <1>1, <1>2, <1>3 DEF Hosts
<1>5. host' \in SoundHosts BY <1>4 DEF ViewSound, SoundHosts
<1> QED BY <1>1, <1>2, <1>3, <1>4, <1>5 DEF Applies, ViewSound

\* An invalidation of this document that is not older than its last one.
Fresh(m) == m.doc = page.id /\ (page.revision # None => m.revision >= page.revision)
RequestOf(request) == [type |-> "request", doc |-> page.id, request |-> request]

LEMMA RequestIs ==
    ASSUME NEW p \in Pages, NEW r \in Nat, NEW a \in Uuid \cup {None}
    PROVE  /\ Request(r, a) \in Requests /\ Request(r, a).revision = r /\ Request(r, a).after = a
           /\ Request(r, a) # None
BY NoneIs DEF Request, Requests

LEMMA RequestSent ==
    ASSUME page \in Pages, NEW q \in Requests
    PROVE  RequestOf(q) \in WebviewMessages
BY DEF WebviewMessages, Pages, RequestOf

LEMMA RecoveryInvalidatedIs ==
    ASSUME ViewSound, RecoveryInvalidated
    PROVE  LET m == Received
               q == Request(m.revision, None)
           IN  /\ Applies("invalidated", page')
               /\ page' \in Pages /\ Shows(page', m)
               /\ page'.active = page.active /\ page'.clicked = page.clicked /\ page'.resume = page.resume
               /\ page'.rows = page.rows
               /\ q \in Requests /\ RequestOf(q) \in WebviewMessages
               /\ Fresh(m) =>
                    /\ page'.revision = m.revision /\ page'.request = q /\ page'.staging = {}
                    /\ toHost' = Append(toHost, RequestOf(q))
               /\ ~Fresh(m) => page' = page /\ toHost' = toHost
<1> DEFINE m == Received
           q == Request(m.revision, None)
           n == [page EXCEPT !.revision = m.revision, !.request = q, !.staging = {}]
<1>1. /\ Applies("invalidated", IF Fresh(m) THEN n ELSE page)
      /\ IF Fresh(m) THEN toHost' = Append(toHost, RequestOf(q)) ELSE UNCHANGED toHost
  BY DEF RecoveryInvalidated, Fresh, Asks, RequestOf
<1>2. page \in Pages /\ m \in HostMessages /\ m.type = "invalidated" BY <1>1, AppliesIs
<1>3. m.doc \in Documents /\ m.revision \in Nat BY <1>2, MessageIs
<1>4. q \in Requests BY <1>2, <1>3, RequestIs
<1> HIDE DEF q, m
<1>5. /\ n \in Pages /\ n.tabs = page.tabs /\ n.hydrates = page.hydrates /\ n.terminal = page.terminal
      /\ n.id = page.id /\ n.loaded = page.loaded /\ n.active = page.active /\ n.clicked = page.clicked
      /\ n.resume = page.resume /\ n.revision = m.revision /\ n.request = q
      /\ n.staging = {} /\ n.rows = page.rows
  BY <1>2, <1>3, <1>4 DEF Pages
<1> HIDE DEF n
<1>6. Shows(n, m) /\ Shows(page, m) BY <1>2, <1>5, OthersShow
<1> QED BY <1>1, <1>2, <1>4, RequestSent, <1>5, <1>6 DEF m, q, Applies

\* An answer that the document waits for, and the rows it then has.
Due(m) == m.doc = page.id /\ m.request = page.request /\ m.revision = page.revision
Staged(m) == {r \in page.staging : \A q \in m.rows : q.uuid # r.uuid} \cup m.rows

LEMMA RecoveryPagedIs ==
    ASSUME ViewSound, RecoveryPaged
    PROVE  LET m == Received
               q == Request(m.revision, m.next)
           IN  /\ Applies("page", page')
               /\ page' \in Pages /\ Shows(page', m)
               /\ page'.active = page.active /\ page'.clicked = page.clicked /\ page'.resume = page.resume
               /\ page'.revision = page.revision
               /\ q \in Requests /\ RequestOf(q) \in WebviewMessages
               /\ Due(m) /\ m.next # None =>
                    /\ page'.request = q /\ page'.staging = Staged(m) /\ page'.rows = page.rows
                    /\ toHost' = Append(toHost, RequestOf(q))
               /\ Due(m) /\ m.next = None =>
                    /\ page'.request = None /\ page'.staging = Staged(m) /\ page'.rows = Staged(m)
                    /\ toHost' = toHost
               /\ ~Due(m) => page' = page /\ toHost' = toHost
<1> DEFINE m == Received
           q == Request(m.revision, m.next)
           s == Staged(m)
           n == [page EXCEPT !.staging = s, !.request = q]
           o == [page EXCEPT !.staging = s, !.rows = s, !.request = None]
           p == CASE ~Due(m) -> page
                  [] Due(m) /\ m.next # None -> n
                  [] Due(m) /\ m.next = None -> o
<1>1. /\ Applies("page", p)
      /\ IF Due(m) /\ m.next # None THEN toHost' = Append(toHost, RequestOf(q)) ELSE UNCHANGED toHost
  BY DEF RecoveryPaged, Due, Staged, Asks, RequestOf
<1>2. page' = p BY <1>1 DEF Applies
<1>3. page \in Pages /\ m \in HostMessages /\ m.type = "page" BY <1>1, AppliesIs
<1>4. m.doc \in Documents /\ m.revision \in Nat /\ m.rows \in SUBSET Rows /\ m.next \in Uuid \cup {None}
  BY <1>3, MessageIs
<1>5. q \in Requests BY <1>3, <1>4, RequestIs
<1>6. RequestOf(q) \in WebviewMessages BY <1>3, <1>5, RequestSent
<1>7. s \in SUBSET Rows BY <1>3, <1>4 DEF Pages, Staged
<1> HIDE DEF q, m, s
<1>8. /\ n \in Pages /\ n.tabs = page.tabs /\ n.hydrates = page.hydrates /\ n.terminal = page.terminal
      /\ n.id = page.id /\ n.loaded = page.loaded /\ n.active = page.active /\ n.clicked = page.clicked
      /\ n.resume = page.resume /\ n.revision = page.revision /\ n.request = q
      /\ n.staging = s /\ n.rows = page.rows
  BY <1>3, <1>5, <1>7 DEF Pages
<1>9. /\ o \in Pages /\ o.tabs = page.tabs /\ o.hydrates = page.hydrates /\ o.terminal = page.terminal
      /\ o.id = page.id /\ o.loaded = page.loaded /\ o.active = page.active /\ o.clicked = page.clicked
      /\ o.resume = page.resume /\ o.revision = page.revision /\ o.request = None
      /\ o.staging = s /\ o.rows = s
  BY <1>3, <1>7 DEF Pages
<1> HIDE DEF n, o
<1>10. Shows(n, m) /\ Shows(o, m) /\ Shows(page, m) BY <1>3, <1>8, <1>9, OthersShow
<1>11. CASE ~Due(m) BY <1>1, <1>3, <1>5, <1>6, <1>10, <1>11, <1>2 DEF m, q, p, Applies
<1>12. CASE Due(m) /\ m.next # None BY <1>1, <1>2, <1>5, <1>6, <1>8, <1>10, <1>12 DEF m, q, s
<1>13. CASE Due(m) /\ m.next = None BY <1>1, <1>2, <1>5, <1>6, <1>9, <1>10, <1>13 DEF m, q, s
<1> QED BY <1>11, <1>12, <1>13

--------------------
(* The steps keep the types *)

\* The host is of the same view after the step, which leaves the documents alone.
HostMoves == host' \in SoundHosts /\ host'.open = host.open /\ UNCHANGED <<page, documents>>

LEMMA HostMovesView ==
    ASSUME ViewSound, HostMoves, toHost' = toHost \/ (toHost # <<>> /\ toHost' = Tail(toHost))
    PROVE  ViewSound'
<1>1. toHost' \in Seq(WebviewMessages) /\ (page = None => toHost' = <<>>)
  <2>1. CASE toHost' = toHost BY <2>1 DEF ViewSound
  <2>2. CASE toHost # <<>> /\ toHost' = Tail(toHost) BY <2>2, TailFacts DEF ViewSound
  <2> QED BY <2>1, <2>2
<1> QED BY <1>1 DEF ViewSound, HostMoves

\* The list of sessions moves on.
ListsMove(next, selected) ==
    /\ Sessions(next, selected) /\ ListStep(next)
    /\ selected \in Ids(next) \cup {None}

LEMMA ListsMoveIs ==
    ASSUME TypesSound, NEW next, NEW selected, ListsMove(next, selected)
    PROVE  /\ next \in Seq(Snapshots) /\ Distinct(next) /\ selected \in Session \cup {None}
           /\ live' = next /\ active' = selected
           /\ host' = SessionsChanged(host, next, selected, known)
           /\ host' \in SoundHosts /\ host'.open = host.open /\ host'.ready = host.ready
           /\ host'.doc = host.doc /\ host'.seen = host.seen
<1>1. next \in Seq(Snapshots) /\ Distinct(next) BY DEF ListsMove, ListStep
<1>2. selected \in Session \cup {None} BY <1>1, IdsAre DEF ListsMove
<1>3. live' = next /\ active' = selected /\ host' = SessionsChanged(host, next, selected, known)
  BY DEF ListsMove, Sessions
<1>4. PICK t, l, d : /\ Extends(host, t, Differences) /\ Extends(t, l, {"invalidated"})
                     /\ Extends(l, d, {"active"}) /\ Extends(d, host', Listing)
                     /\ host' \in SoundHosts
  BY <1>1, <1>2, <1>3, SessionsChangedIs DEF TypesSound, ViewSound, WorldSound, LiveSound
<1> QED BY <1>1, <1>2, <1>3, <1>4 DEF Extends

LEMMA ListsMoveLive ==
    ASSUME TypesSound, NEW next, NEW selected, ListsMove(next, selected),
           printed' \in [Session -> (0..MaxOutput) \cup {None}], \A s \in Ids(next) : printed'[s] # None
    PROVE  LiveSound'
<1> QED BY ListsMoveIs DEF LiveSound, ListsMove

LEMMA EventIs ==
    ASSUME WorldSound, Event
    PROVE  /\ events' \in 0..MaxEvents /\ events' = events + 1
           /\ \A u \in Uuid : draft[u].rev <= events'
           /\ \A u \in Uuid : draft[u].rev + 1 <= events' + 1 /\ draft[u].rev + 1 \in 0..(MaxEvents + 1)
<1> QED BY BoundAssumption DEF WorldSound, Event

\* The part of the world that most steps leave alone.
LEMMA WorldStays ==
    ASSUME WorldSound, LiveSound', known' \in SUBSET Uuid, unrecorded' \in SUBSET Uuid,
           UNCHANGED <<transcript, composer>>,
           asking' \in [id : Session, current : BOOLEAN] \cup {None},
           UNCHANGED events \/ Event
    PROVE  WorldSound'
<1>1. events' \in 0..MaxEvents BY EventIs DEF WorldSound
<1>2. \A u \in Uuid : draft[u].rev <= events' + 1
  <2>1. CASE UNCHANGED events BY <2>1 DEF WorldSound
  <2>2. CASE Event BY <1>1, BoundAssumption, <2>2, EventIs DEF WorldSound
  <2> QED BY <2>1, <2>2
<1> QED BY <1>1, <1>2 DEF WorldSound, composer

LEMMA LiveStays ==
    ASSUME LiveSound, UNCHANGED <<live, active, printed>>
    PROVE  LiveSound'
BY DEF LiveSound

LEMMA LaunchIs ==
    ASSUME TypesSound, NEW s \in Session, NEW u \in Uuid, Launch(s, u)
    PROVE  LET next == Append(live, Snapshot(s, u))
           IN  /\ ListsMove(next, s) /\ Arrival(next, Snapshot(s, u))
               /\ s \notin Ids(live) /\ Ids(next) = Ids(live) \cup {s}
               /\ u \notin Uuids(live) /\ Uuids(next) = Uuids(live) \cup {u}
               /\ printed' = [printed EXCEPT ![s] = 0]
<1>1. PICK next : next = Append(live, Snapshot(s, u)) OBVIOUS
<1> QED BY <1>1, LaunchLists DEF ListsMove, Launch, LiveSound, TypesSound, WorldSound

LEMMA LaunchTypes ==
    ASSUME TypesSound, NEW s \in Session, NEW u \in Uuid, Launch(s, u)
    PROVE  TypesSound'
<1>1. PICK next : next = Append(live, Snapshot(s, u)) OBVIOUS
<1>2. ListsMove(next, s) /\ Ids(next) = Ids(live) \cup {s} /\ printed' = [printed EXCEPT ![s] = 0]
  BY <1>1, LaunchIs
<1>3. WorldSound /\ LiveSound /\ Ids(live) \subseteq Session
  BY IdsAre DEF TypesSound, WorldSound, LiveSound
<1>4. printed' \in [Session -> (0..MaxOutput) \cup {None}] /\ \A t \in Ids(next) : printed'[t] # None
  BY <1>2, <1>3, BoundAssumption, NoneIs DEF LiveSound
<1>5. LiveSound' BY <1>2, <1>4, ListsMoveLive
<1> QED
  BY <1>3, <1>5, WorldStays, <1>2, ListsMoveIs, HostMovesView DEF TypesSound, Launch, HostMoves,
     WorldSound, store

LEMMA ExitIs ==
    ASSUME TypesSound, NEW s \in Session, Exit(s)
    PROVE  LET next == Without(live, s)
           IN  /\ s \in Ids(live) /\ Departure(next, s) /\ Ids(next) = Ids(live) \ {s}
               /\ \E selected : ListsMove(next, selected) /\ (active # s => selected = active) /\ selected # s
<1>1. LiveSound BY DEF TypesSound, WorldSound
<1>2. s \in Ids(live) BY DEF Exit
<1>3. PICK next : next = Without(live, s) OBVIOUS
<1>4. ListStep(next) /\ Departure(next, s) /\ Ids(next) = Ids(live) \ {s}
  BY <1>1, <1>2, <1>3, ExitLists
<1>5. PICK i : i = CHOOSE k \in DOMAIN live : live[k].id = s OBVIOUS
<1>6. i \in DOMAIN live BY <1>5, <1>1, <1>2, IdsAre DEF LiveSound
<1>7. PICK selected : selected = IF active # s THEN active
                                 ELSE IF next = <<>> THEN None
                                 ELSE next[Min({i, Len(next)})].id
  OBVIOUS
<1>8. selected \in Ids(next) \cup {None}
  BY <1>1, <1>4, <1>6, <1>7, Neighbour DEF LiveSound, ListStep
<1>9. selected # s BY <1>8, <1>4, NoneIs
<1> QED BY <1>2, <1>3, <1>4, <1>7, <1>5, <1>8, <1>9 DEF ListsMove, Exit

LEMMA ExitTypes ==
    ASSUME TypesSound, NEW s \in Session, Exit(s)
    PROVE  TypesSound'
<1>1. PICK next, selected : ListsMove(next, selected) /\ Ids(next) \subseteq Ids(live) BY ExitIs
<1> QED
  BY ListsMoveLive, WorldStays, <1>1, ListsMoveIs, HostMovesView DEF TypesSound, Exit, HostMoves,
     WorldSound, store, LiveSound

\* A list that the document's messages or the prompt change.
SameWorld == UNCHANGED <<printed, store, composer, page, documents, events>>

LEMMA ListsMoveTypes ==
    ASSUME TypesSound, NEW next, NEW selected, ListsMove(next, selected), Ids(next) \subseteq Ids(live),
           SameWorld, asking' = asking \/ asking' = None,
           toHost' = toHost \/ (toHost # <<>> /\ toHost' = Tail(toHost))
    PROVE  TypesSound'
<1>1. WorldSound'
  BY ListsMoveLive, WorldStays DEF SameWorld, WorldSound, store, LiveSound, TypesSound
<1> QED BY <1>1, ListsMoveIs, HostMovesView DEF TypesSound, SameWorld, HostMoves

LEMMA SelectIs ==
    ASSUME TypesSound, SelectRequested
    PROVE  LET s == Head(toHost).id
           IN  /\ Arrives("select") /\ s \in Session /\ SameWorld /\ asking' = asking
               /\ \/ s \in Ids(live) /\ s # active /\ ListsMove(live, s) /\ NoChange(live)
                  \/ ~(s \in Ids(live) /\ s # active) /\ UNCHANGED <<live, active, host>>
<1> QED
  BY SameList DEF SelectRequested, ListsMove, SameWorld, WebviewMessages, Arrives, TypesSound,
     WorldSound, ViewSound

LEMMA CloseIs ==
    ASSUME TypesSound, CloseRequested
    PROVE  /\ Arrives("close") /\ SameWorld /\ asking' = asking
           /\ \/ \E next, x : /\ ListsMove(next, active) /\ Arrival(next, x)
                              /\ Ids(next) = Ids(live) /\ Uuids(next) = Uuids(live)
              \/ UNCHANGED <<live, active, host>>
<1>1. LiveSound /\ toHost \in Seq(WebviewMessages) BY DEF TypesSound, WorldSound, ViewSound
<1>2. PICK s : s = Head(toHost).id OBVIOUS
<1>3. s \in Session BY <1>1, <1>2 DEF WebviewMessages, CloseRequested, Arrives
<1>4. PICK next : next = Updated(s, "state", "closing") OBVIOUS
<1>5. IF next # live THEN Sessions(next, active) ELSE UNCHANGED <<live, active, host>>
  BY <1>2, <1>4 DEF CloseRequested
<1>6. CASE next # live
  <2>1. ListStep(next) /\ (\E x : Arrival(next, x)) /\ Ids(next) = Ids(live) /\ Uuids(next) = Uuids(live)
    BY <1>1, <1>3, <1>4, <1>6, UpdatedLists
  <2> QED BY <2>1, <1>1, <1>5, <1>6 DEF CloseRequested, SameWorld, ListsMove, LiveSound
<1>7. CASE next = live BY <1>5, <1>7 DEF CloseRequested, SameWorld
<1> QED BY <1>6, <1>7

LEMMA AnswerRenameIs ==
    ASSUME TypesSound, RenameAnswered
    PROVE  /\ SameWorld /\ asking' = None /\ toHost' = toHost
           /\ \/ \E next, x : /\ ListsMove(next, active) /\ Arrival(next, x)
                              /\ Ids(next) = Ids(live) /\ Uuids(next) = Uuids(live)
              \/ UNCHANGED <<live, active, host>>
<1>1. LiveSound /\ asking \in [id : Session, current : BOOLEAN]
  BY DEF TypesSound, WorldSound, RenameAnswered
<1>2. PICK next : next = Updated(asking.id, "renamed", TRUE) OBVIOUS
<1>3. IF asking.current /\ next # live THEN Sessions(next, active) ELSE UNCHANGED <<live, active, host>>
  BY <1>2 DEF RenameAnswered
<1>4. CASE asking.current /\ next # live
  <2>1. asking.id \in Session BY <1>1
  <2>2. ListStep(next) /\ (\E x : Arrival(next, x)) /\ Ids(next) = Ids(live) /\ Uuids(next) = Uuids(live)
    BY <1>1, <1>2, <1>4, <2>1, UpdatedLists
  <2> QED BY <2>2, <1>1, <1>3, <1>4 DEF RenameAnswered, SameWorld, ListsMove, LiveSound
<1>5. CASE ~(asking.current /\ next # live) BY <1>3, <1>5 DEF RenameAnswered, SameWorld
<1> QED BY <1>4, <1>5

\* The steps that tell the document at most what can be resumed and what drafts there are.
Asides == {"resumable", "invalidated", "page"}
Takes(types) == toHost # <<>> /\ Head(toHost).type \in types /\ toHost' = Tail(toHost)

AsideStep ==
    /\ host' \in SoundHosts /\ Extends(host, host', Asides)
    /\ UNCHANGED <<live, active, printed, page, documents>>
    /\ toHost' = toHost \/ Takes({"request", "rename", "close"})

LEMMA AsideView ==
    ASSUME ViewSound, AsideStep
    PROVE  ViewSound'
<1> QED BY HostMovesView DEF AsideStep, Takes, HostMoves, Extends

LEMMA RefreshStep ==
    ASSUME TypesSound, NEW h \in SoundHosts, Extends(host, h, Listing), NEW saved \in SUBSET Uuid, NEW ss,
           host' = Refreshed(h, Candidates(saved, ss))
    PROVE  host' \in SoundHosts /\ Extends(host, host', Asides)
<1> QED
  BY RefreshedIs, CandidatesAre, ExtendsTwice, ExtendsWider DEF Listing, Asides, TypesSound,
     ViewSound, SoundHosts

LEMMA HostIs ==
    ASSUME TypesSound
    PROVE  /\ host \in SoundHosts /\ host \in Hosts /\ host.out \in Seq(HostMessages)
           /\ Extends(host, host, Listing) /\ Extends(host, host, Asides)
           /\ known \in SUBSET Uuid /\ LiveSound /\ toHost \in Seq(WebviewMessages)
BY ExtendsSelf, OutIs DEF TypesSound, ViewSound, WorldSound, SoundHosts

LEMMA MetadataSteps ==
    ASSUME TypesSound, NEW u \in Uuid, Recorded(u) \/ ForgetMetadata(u)
    PROVE  AsideStep /\ WorldSound' /\ known' \in SUBSET Uuid /\ host' = Refreshed(host, Candidates(known', live))
           /\ toHost' = toHost /\ UNCHANGED <<transcript, composer>>
<1>1. PICK saved \in SUBSET Uuid : MetadataChanged(saved) /\ unrecorded' \in SUBSET Uuid
  BY HostIs DEF Recorded, ForgetMetadata, TypesSound, WorldSound
<1> QED
  BY <1>1, RefreshStep, HostIs, LiveStays, WorldStays DEF MetadataChanged, TypesSound, WorldSound,
     AsideStep, Recorded, ForgetMetadata

LEMMA FlushStep ==
    ASSUME TypesSound, NEW u \in Uuid, Flush(u)
    PROVE  AsideStep /\ WorldSound' /\ host' = host /\ toHost' = toHost
<1>1. WorldSound BY DEF TypesSound
<1>2. events' \in 0..MaxEvents /\ \A v \in Uuid : draft[v].rev <= events' BY <1>1, EventIs DEF Flush
<1>3. \A v \in Uuid : draft[v].rev <= events' + 1 BY <1>2, <1>1, BoundAssumption DEF WorldSound
<1> QED
  BY HostIs, LiveStays, <1>1, <1>2, <1>3 DEF Flush, WorldSound, composer, TypesSound, AsideStep

\* The drafts after a step that changes them.
LEMMA WorldDrafts ==
    ASSUME WorldSound, UNCHANGED <<live, active, printed, store, asking>>,
           draft' \in [Uuid -> [rev : 0..(MaxEvents + 1), text : BOOLEAN]],
           \A u \in Uuid : draft'[u].rev <= events' + 1,
           erasing' \subseteq forgotten', forgotten' \subseteq Uuid, events' \in 0..MaxEvents
    PROVE  WorldSound'
<1> QED BY LiveStays DEF WorldSound, store

LEMMA InvalidateStep ==
    ASSUME TypesSound
    PROVE  Invalidated(host) \in SoundHosts /\ Extends(host, Invalidated(host), Asides)
<1> QED BY HostIs, InvalidatedIs, ExtendsWider DEF Asides

LEMMA DraftSavedStep ==
    ASSUME TypesSound, NEW u \in Uuid, NEW text \in BOOLEAN, DraftSaved(u, text)
    PROVE  AsideStep /\ WorldSound' /\ toHost' = toHost
           /\ draft' = [draft EXCEPT ![u] = [rev |-> draft[u].rev + 1, text |-> text]]
<1>1. WorldSound BY DEF TypesSound
<1>2. Event /\ draft' = [draft EXCEPT ![u] = [rev |-> @.rev + 1, text |-> text]] BY DEF DraftSaved
<1>3. PICK n : n = draft[u].rev + 1 OBVIOUS
<1>4. draft' = [draft EXCEPT ![u] = [rev |-> n, text |-> text]] BY <1>2, <1>3 DEF WorldSound
<1>5. /\ events' \in 0..MaxEvents /\ n <= events' + 1 /\ n \in 0..(MaxEvents + 1)
      /\ \A v \in Uuid : draft[v].rev <= events'
  BY <1>1, <1>2, <1>3, EventIs
<1>6. \A v \in Uuid : draft'[v].rev <= events' + 1
  <2> SUFFICES ASSUME NEW v \in Uuid PROVE draft'[v].rev <= events' + 1 OBVIOUS
  <2>1. CASE v = u BY <1>1, <1>4, <1>5, <2>1 DEF WorldSound
  <2>2. CASE v # u BY <1>5, BoundAssumption, <1>1, <1>4, <2>2 DEF WorldSound
  <2> QED BY <2>1, <2>2
<1> QED
  BY <1>3, <1>4, <1>1, <1>5, <1>6, WorldDrafts, HostIs, InvalidateStep DEF DraftSaved, AsideStep,
     WorldSound

LEMMA ForgetDraftStep ==
    ASSUME TypesSound, NEW u \in Uuid, ForgetDraft(u)
    PROVE  AsideStep /\ WorldSound' /\ toHost' = toHost /\ host' = host /\ draft' = draft
<1>1. WorldSound /\ Event BY DEF TypesSound, ForgetDraft
<1>2. events' \in 0..MaxEvents /\ \A v \in Uuid : draft[v].rev <= events' + 1
  BY BoundAssumption, <1>1, EventIs DEF WorldSound
<1> QED BY HostIs, <1>1, <1>2, WorldDrafts DEF ForgetDraft, WorldSound, AsideStep

LEMMA ForgetSettlesStep ==
    ASSUME TypesSound, NEW u \in Uuid, NEW ok \in BOOLEAN, ForgetSettles(u, ok)
    PROVE  AsideStep /\ WorldSound' /\ toHost' = toHost
<1>1. WorldSound BY DEF TypesSound
<1>2. PICK d : d = [draft EXCEPT ![u].text = FALSE] OBVIOUS
<1>3. d \in [Uuid -> [rev : 0..(MaxEvents + 1), text : BOOLEAN]] /\ \A v \in Uuid : d[v].rev = draft[v].rev
  BY <1>1, <1>2 DEF WorldSound
<1> QED
  BY <1>1, <1>3, <1>2, WorldDrafts, HostIs, InvalidateStep DEF ForgetSettles, AsideStep, WorldSound

\* The steps inside the provider that change nothing of the world.
LEMMA StillWorld ==
    ASSUME WorldSound, UNCHANGED <<live, active, printed, store, composer>>,
           asking' \in [id : Session, current : BOOLEAN] \cup {None}, UNCHANGED events \/ Event
    PROVE  WorldSound'
<1> QED BY LiveStays, WorldStays DEF WorldSound, store

LEMMA ShowViewStep ==
    ASSUME TypesSound, ShowView
    PROVE  AsideStep /\ WorldSound' /\ toHost' = toHost
<1> QED BY HostIs, RefreshStep, StillWorld DEF ShowView, TypesSound, WorldSound, AsideStep

LEMMA RetryFiresStep ==
    ASSUME TypesSound, RetryFires
    PROVE  AsideStep /\ WorldSound' /\ toHost' = toHost
           /\ LET n == [host EXCEPT !.retry = FALSE]
              IN  /\ n \in SoundHosts /\ ~n.retry /\ n.open = host.open /\ n.ready = host.ready
                  /\ n.doc = host.doc /\ n.seen = host.seen /\ n.resume = host.resume
                  /\ n.scan = host.scan /\ n.pending = host.pending
                  /\ n.revision = host.revision /\ n.out = host.out
<1> DEFINE n == [host EXCEPT !.retry = FALSE]
<1>1. /\ n \in Hosts /\ n.retry = FALSE /\ n.open = host.open /\ n.ready = host.ready
      /\ n.doc = host.doc /\ n.seen = host.seen /\ n.resume = host.resume
      /\ n.scan = host.scan /\ n.pending = host.pending
      /\ n.revision = host.revision /\ n.out = host.out
  BY HostIs DEF Hosts
<1>2. n \in SoundHosts BY <1>1, HostIs DEF SoundHosts
<1>3. host' = Refreshed(n, Candidates(known, live)) BY DEF RetryFires
<1> HIDE DEF n
<1>4. host' \in SoundHosts /\ Extends(host, host', Asides)
  BY <1>2, <1>1, ExtendsInside, <1>3, HostIs, RefreshStep
<1> QED BY <1>1, <1>2, <1>4, StillWorld DEF RetryFires, n, TypesSound, WorldSound, AsideStep

LEMMA ScanChecksStep ==
    ASSUME TypesSound, ScanChecks
    PROVE  AsideStep /\ WorldSound' /\ toHost' = toHost
<1> QED
  BY HostIs, ScanStepIs, ExtendsWider, StillWorld DEF ScanChecks, TypesSound, WorldSound, AsideStep,
     Listing, Asides

LEMMA RequestedIs ==
    ASSUME TypesSound, RecoveryRequested
    PROVE  LET m == Head(toHost)
           IN  /\ toHost # <<>> /\ m \in WebviewMessages /\ m.type = "request"
               /\ m.doc \in Documents /\ m.request \in Requests
               /\ toHost' = Tail(toHost)
               /\ host' = IF host.ready /\ m.doc = host.doc THEN RecoveryPage(host, m.request) ELSE host
<1> QED BY HostIs DEF RecoveryRequested, WebviewMessages, Arrives

LEMMA RecoveryRequestedStep ==
    ASSUME TypesSound, RecoveryRequested
    PROVE  AsideStep /\ WorldSound'
<1>1. PICK m : m = Head(toHost) OBVIOUS
<1>2. /\ toHost # <<>> /\ m.type = "request" /\ m.request \in Requests /\ toHost' = Tail(toHost)
      /\ host' = IF host.ready /\ m.doc = host.doc THEN RecoveryPage(host, m.request) ELSE host
  BY <1>1, RequestedIs
<1>3. draft \in Drafts BY DraftsAre DEF TypesSound
<1>4. RecoveryPage(host, m.request) \in SoundHosts
      /\ Extends(host, RecoveryPage(host, m.request), {"page", "invalidated"})
  BY <1>2, <1>3, HostIs, RecoveryPageIs
<1> QED
  BY <1>1, <1>2, <1>4, ExtendsWider, HostIs, StillWorld DEF RecoveryRequested, TypesSound,
     WorldSound, AsideStep, Takes, Asides

LEMMA RenameRequestedStep ==
    ASSUME TypesSound, RenameRequested
    PROVE  AsideStep /\ WorldSound' /\ host' = host
<1> QED
  BY StillWorld, HostIs DEF RenameRequested, AsideStep, Takes, TypesSound, WorldSound,
     WebviewMessages, Arrives

\* A session prints.
LEMMA OutputIs ==
    ASSUME TypesSound, NEW s \in Session, Output(s)
    PROVE  LET m == [type |-> "data", id |-> s, pieces |-> 1]
           IN  /\ s \in Ids(live) /\ printed[s] \in Nat
               /\ printed' = [printed EXCEPT ![s] = printed[s] + 1]
               /\ m \in OfType({"data"}) /\ host' = Posted(host, <<m>>)
               /\ host' \in SoundHosts /\ Extends(host, host', {"data"})
               /\ UNCHANGED <<live, active, store, composer, asking, page, documents, toHost>>
               /\ WorldSound'
<1>1. /\ s \in Ids(live) /\ printed[s] < MaxOutput /\ Event
      /\ printed' = [printed EXCEPT ![s] = @ + 1]
      /\ host' = Posted(host, <<[type |-> "data", id |-> s, pieces |-> 1]>>)
      /\ UNCHANGED <<live, active, store, composer, asking, page, documents, toHost>>
  BY DEF Output
<1>2. MaxOutput \in Nat BY BoundAssumption
<1>3. printed[s] \in 0..MaxOutput /\ printed[s] # None BY <1>1 DEF TypesSound, WorldSound, LiveSound
<1>4. PICK n : n = printed[s] + 1 OBVIOUS
<1>5. printed' = [printed EXCEPT ![s] = n] BY <1>1, <1>4
<1>6. n \in 0..MaxOutput /\ n # None /\ 1 \in 1..MaxOutput BY <1>1, <1>2, <1>3, <1>4, NoneIs
<1>7. WorldSound' BY <1>1, <1>5, <1>6, WorldStays DEF TypesSound, WorldSound, store, LiveSound
<1> QED BY <1>1, <1>2, <1>3, <1>4, <1>5, <1>7, <1>6, PostedOne, HostIs DEF OfType, HostMessages

LEMMA OutputTypes ==
    ASSUME TypesSound, NEW s \in Session, Output(s)
    PROVE  TypesSound'
<1>1. /\ host' \in SoundHosts /\ Extends(host, host', {"data"}) /\ WorldSound'
      /\ UNCHANGED <<page, documents, toHost>>
  BY OutputIs
<1> QED BY <1>1, HostMovesView DEF TypesSound, HostMoves, Extends

\* The steps of the view: the document that follows starts from nothing.
LEMMA ReplacedIs ==
    ASSUME NEW h \in SoundHosts, documents \in 0..MaxDocument, Replaced(h)
    PROVE  /\ documents' = documents + 1 /\ documents' \in Documents /\ documents' \in 0..MaxDocument
           /\ page' = Document(documents')
           /\ host' \in SoundHosts /\ host'.out = <<>>
           /\ host'.open = h.open /\ host'.ready = h.ready /\ host'.doc = h.doc /\ host'.seen = h.seen
           /\ host'.resume = h.resume /\ host'.scan = h.scan /\ host'.pending = h.pending
           /\ host'.retry = h.retry /\ host'.revision = h.revision
<1>1. /\ documents < MaxDocument /\ documents' = documents + 1 /\ page' = Document(documents')
      /\ host' = [h EXCEPT !.out = <<>>]
  BY DEF Replaced
<1>2. h \in Hosts /\ <<>> \in Seq(HostMessages) BY DEF SoundHosts
<1>3. /\ host' \in Hosts /\ host'.out = <<>>
      /\ host'.open = h.open /\ host'.ready = h.ready /\ host'.doc = h.doc /\ host'.seen = h.seen
      /\ host'.resume = h.resume /\ host'.scan = h.scan /\ host'.pending = h.pending
      /\ host'.retry = h.retry /\ host'.revision = h.revision
  BY <1>1, <1>2 DEF Hosts
<1>4. host' \in SoundHosts BY <1>3 DEF SoundHosts
<1> QED BY <1>1, BoundAssumption, <1>3, <1>4 DEF Documents

\* The provider of a view that opens.
Reopened == [host EXCEPT !.open = TRUE, !.ready = FALSE, !.doc = None, !.seen = {}]

LEMMA ReopenedIs ==
    ASSUME TypesSound
    PROVE  LET h == Reopened
               r == Refreshed(h, Candidates(known, live))
               n == [r EXCEPT !.retry = TRUE]
           IN  /\ h \in SoundHosts /\ r \in SoundHosts /\ n \in SoundHosts
               /\ n.open /\ ~n.ready /\ n.doc = None /\ n.seen = {} /\ n.retry
               /\ n.resume = Candidates(known, live) \cap host.resume
               /\ n.revision = r.revision /\ n.scan = r.scan /\ n.pending = r.pending
<1> DEFINE h == Reopened
           r == Refreshed(h, Candidates(known, live))
           n == [r EXCEPT !.retry = TRUE]
<1>1. host \in Hosts /\ Candidates(known, live) \in SUBSET Uuid BY HostIs, CandidatesAre
<1>2. h \in Hosts /\ h.open /\ ~h.ready /\ h.doc = None /\ h.seen = {} /\ h.resume = host.resume
      /\ h.scan = host.scan /\ h.pending = host.pending
  BY <1>1 DEF Hosts, Reopened
<1>3. h \in SoundHosts BY <1>2, HostIs DEF SoundHosts
<1> HIDE DEF h
<1>4. r \in SoundHosts /\ Extends(h, r, Listing) /\ r.resume = Candidates(known, live) \cap h.resume
  BY <1>1, <1>3, RefreshedIs, RefreshedForm
<1> HIDE DEF r
<1>5. /\ n \in Hosts /\ n.retry
      /\ n.open = r.open /\ n.ready = r.ready /\ n.doc = r.doc /\ n.seen = r.seen
      /\ n.resume = r.resume /\ n.scan = r.scan /\ n.pending = r.pending /\ n.revision = r.revision
  BY <1>4, RetryIs DEF SoundHosts
<1>6. n \in SoundHosts BY <1>4, <1>5 DEF SoundHosts
<1>7. n.open /\ ~n.ready /\ n.doc = None /\ n.seen = {} BY <1>2, <1>4, <1>5 DEF Extends
<1> QED BY <1>2, <1>3, <1>4, <1>5, <1>6, <1>7 DEF h, r

LEMMA ResolveViewIs ==
    ASSUME TypesSound, ResolveView
    PROVE  LET r == Refreshed(Reopened, Candidates(known, live))
           IN  /\ documents' = documents + 1 /\ documents' \in Documents
               /\ page' = Document(documents') /\ toHost' = <<>>
               /\ host' \in SoundHosts /\ host'.out = <<>>
               /\ host'.open /\ ~host'.ready /\ host'.doc = None /\ host'.seen = {} /\ host'.retry
               /\ host'.resume = Candidates(known, live) \cap host.resume
               /\ host'.revision = r.revision /\ host'.scan = r.scan /\ host'.pending = r.pending
               /\ UNCHANGED <<live, active, printed, store, composer>>
               /\ TypesSound'
<1> DEFINE r == Refreshed(Reopened, Candidates(known, live))
           n == [r EXCEPT !.retry = TRUE]
<1>1. /\ UNCHANGED events \/ Event
      /\ Replaced(n) /\ OtherView /\ toHost' = <<>>
      /\ UNCHANGED <<live, active, printed, store, composer>>
  BY DEF ResolveView, Reopened
<1>2. /\ n \in SoundHosts
      /\ n.open /\ ~n.ready /\ n.doc = None /\ n.seen = {} /\ n.retry
      /\ n.resume = Candidates(known, live) \cap host.resume
      /\ n.revision = r.revision /\ n.scan = r.scan /\ n.pending = r.pending
  BY ReopenedIs
<1> HIDE DEF n, r
<1>3. documents \in 0..MaxDocument /\ WorldSound BY DEF TypesSound, ViewSound
<1>4. asking' \in [id : Session, current : BOOLEAN] \cup {None}
  BY <1>1, <1>3 DEF OtherView, WorldSound
<1> QED BY <1>1, <1>2, <1>3, ReplacedIs, <1>4, StillWorld, DocumentIs DEF TypesSound, r, ViewSound

LEMMA DisposeViewIs ==
    ASSUME TypesSound, DisposeView
    PROVE  /\ page' = None /\ toHost' = <<>> /\ documents' = documents
           /\ host' \in SoundHosts /\ host'.out = <<>>
           /\ ~host'.open /\ ~host'.ready /\ host'.doc = None /\ host'.seen = {} /\ ~host'.retry
           /\ host'.resume = host.resume /\ host'.revision = host.revision
           /\ UNCHANGED <<live, active, printed, store, composer>>
           /\ TypesSound'
<1>1. /\ Event /\ host' = Closed(host) /\ page' = None /\ OtherView /\ toHost' = <<>>
      /\ UNCHANGED <<live, active, printed, store, composer, documents>>
  BY DEF DisposeView
<1> DEFINE n == Superseded(host)
<1>2. n \in SoundHosts /\ n.resume = host.resume /\ n.revision = host.revision
  BY HostIs, SupersededIs
<1>3. host' = [n EXCEPT !.open = FALSE, !.ready = FALSE, !.doc = None, !.seen = {},
                        !.retry = FALSE, !.out = <<>>]
  BY <1>1 DEF Closed
<1> HIDE DEF n
<1>4. /\ host' \in Hosts /\ host'.out = <<>>
      /\ ~host'.open /\ ~host'.ready /\ host'.doc = None /\ host'.seen = {} /\ ~host'.retry
      /\ host'.resume = n.resume /\ host'.revision = n.revision
      /\ host'.scan = n.scan /\ host'.pending = n.pending
  <2>1. n \in Hosts /\ <<>> \in Seq(HostMessages) /\ {} \in SUBSET Documents BY <1>2 DEF SoundHosts
  <2> QED BY <1>3, <2>1 DEF Hosts
<1>5. asking' \in [id : Session, current : BOOLEAN] \cup {None}
  BY <1>1 DEF OtherView, TypesSound, WorldSound
<1> QED BY <1>1, <1>2, <1>4, <1>5, StillWorld DEF TypesSound, ViewSound, SoundHosts

LEMMA ReloadDocumentIs ==
    ASSUME TypesSound, ReloadDocument
    PROVE  /\ documents' = documents + 1 /\ documents' \in Documents
           /\ page # None /\ page' = Document(documents') /\ toHost' = toHost
           /\ host' \in SoundHosts /\ host'.out = <<>>
           /\ host'.open = host.open /\ host'.ready = host.ready /\ host'.doc = host.doc
           /\ host'.seen = host.seen
           /\ host'.resume = host.resume /\ host'.scan = host.scan /\ host'.pending = host.pending
           /\ host'.retry = host.retry /\ host'.revision = host.revision
           /\ UNCHANGED <<live, active, printed, store, composer>>
           /\ TypesSound'
<1>1. /\ Event /\ host.open /\ Replaced(host)
      /\ UNCHANGED <<live, active, printed, store, composer, asking, toHost>>
  BY DEF ReloadDocument
<1>2. documents \in 0..MaxDocument /\ host \in SoundHosts /\ page # None
  BY <1>1 DEF TypesSound, ViewSound
<1>3. /\ documents' = documents + 1 /\ documents' \in Documents /\ documents' \in 0..MaxDocument
      /\ page' = Document(documents')
      /\ host' \in SoundHosts /\ host'.out = <<>>
      /\ host'.open = host.open /\ host'.ready = host.ready /\ host'.doc = host.doc
      /\ host'.seen = host.seen
      /\ host'.resume = host.resume /\ host'.scan = host.scan /\ host'.pending = host.pending
      /\ host'.retry = host.retry /\ host'.revision = host.revision
  BY <1>1, <1>2, ReplacedIs
<1> QED BY <1>1, <1>2, <1>3, StillWorld, DocumentIs DEF TypesSound, WorldSound, ViewSound

\* A document runs: it says so, and its queue may be lost.
LEMMA DocumentLoadsIs ==
    ASSUME TypesSound, DocumentLoads
    PROVE  LET m == [type |-> "ready", doc |-> page.id]
           IN  /\ page # None /\ page \in Pages /\ ~page.loaded
               /\ page' = [page EXCEPT !.loaded = TRUE] /\ page' \in Pages /\ page'.loaded
               /\ page'.id = page.id /\ Content(page') = Content(page) /\ SameRest(page')
               /\ page'.active = page.active /\ page'.clicked = page.clicked
               /\ m \in WebviewMessages /\ toHost' = Append(toHost, m)
               /\ host' \in SoundHosts
               /\ host'.open = host.open /\ host'.ready = host.ready /\ host'.doc = host.doc
               /\ host'.seen = host.seen
               /\ host'.resume = host.resume /\ host'.scan = host.scan /\ host'.pending = host.pending
               /\ host'.retry = host.retry /\ host'.revision = host.revision
               /\ host'.out = host.out \/ host'.out = <<>>
               /\ UNCHANGED <<live, active, printed, store, composer, asking, documents, events>>
               /\ TypesSound'
<1>1. /\ page # None /\ ~page.loaded /\ page' = [page EXCEPT !.loaded = TRUE]
      /\ toHost' = Append(toHost, [type |-> "ready", doc |-> page.id])
      /\ host' = host \/ host' = [host EXCEPT !.out = <<>>]
      /\ UNCHANGED <<live, active, printed, store, composer, asking, documents, events>>
  BY DEF DocumentLoads
<1>2. page \in Pages /\ Content(page) \in Contents /\ page.id \in Documents
  BY <1>1, PageIs DEF TypesSound, ViewSound
<1>3. /\ page' \in Pages /\ page'.loaded /\ page'.id = page.id /\ Content(page') = Content(page)
      /\ SameRest(page') /\ page'.active = page.active /\ page'.clicked = page.clicked
  BY <1>1, <1>2 DEF Pages, Content, SameRest
<1>4. page' # None BY <1>3, PageIs
<1>5. /\ host' \in SoundHosts
      /\ host'.open = host.open /\ host'.ready = host.ready /\ host'.doc = host.doc
      /\ host'.seen = host.seen
      /\ host'.resume = host.resume /\ host'.scan = host.scan /\ host'.pending = host.pending
      /\ host'.retry = host.retry /\ host'.revision = host.revision
      /\ host'.out = host.out \/ host'.out = <<>>
  <2>1. CASE host' = host BY <2>1, HostIs
  <2>2. CASE host' = [host EXCEPT !.out = <<>>]
    <3>1. host \in Hosts /\ <<>> \in Seq(HostMessages) BY HostIs
    <3>2. /\ host' \in Hosts /\ host'.out = <<>>
          /\ host'.open = host.open /\ host'.ready = host.ready /\ host'.doc = host.doc
          /\ host'.seen = host.seen
          /\ host'.resume = host.resume /\ host'.scan = host.scan /\ host'.pending = host.pending
          /\ host'.retry = host.retry /\ host'.revision = host.revision
      BY <2>2, <3>1 DEF Hosts
    <3> QED BY <3>2, HostIs DEF SoundHosts
  <2> QED BY <1>1, <2>1, <2>2
<1> QED
  BY <1>1, <1>2, <1>3, <1>5, StillWorld, <1>4, AppendedFacts DEF TypesSound, WorldSound, ViewSound,
     WebviewMessages

\* The document takes a message, and may ask for more drafts.
LEMMA ReceivesIs ==
    ASSUME TypesSound, DocumentReceives
    PROVE  /\ Applies(Received.type, page')
           /\ Shows(page', Received)
           /\ \/ toHost' = toHost
              \/ /\ Received.type \in {"invalidated", "page"}
                 /\ \E q \in Requests : toHost' = Append(toHost, RequestOf(q))
<1>1. ViewSound BY DEF TypesSound
<1>2. CASE RecoveryInvalidated BY <1>1, <1>2, RecoveryInvalidatedIs DEF Applies
<1>3. CASE RecoveryPaged BY <1>1, <1>3, RecoveryPagedIs DEF Applies
<1>4. ASSUME NEW type, NEW next, Applies(type, next)
      PROVE  /\ page \in Pages /\ Content(page) \in Contents /\ Received \in HostMessages
             /\ Received.type = type /\ page' = next /\ Applies(Received.type, page')
             /\ page # None
  BY <1>4, <1>1, AppliesIs
<1>5. ASSUME Applies("hydrate", HydratedPage(Received))
      PROVE  Applies(Received.type, page') /\ Shows(page', Received)
  <2>1. PICK next : next = HydratedPage(Received) OBVIOUS
  <2> QED BY <1>4, <1>5, <2>1, HydratedPageIs
<1>6. ASSUME Applies("session", WithTab(Received))
      PROVE  Applies(Received.type, page') /\ Shows(page', Received)
  <2>1. PICK next : next = WithTab(Received) OBVIOUS
  <2> QED BY <1>4, <1>6, <2>1, WithTabIs
<1>7. ASSUME Applies("removed", WithoutTab(Received))
      PROVE  Applies(Received.type, page') /\ Shows(page', Received)
  <2>1. PICK next : next = WithoutTab(Received) OBVIOUS
  <2> QED BY <1>4, <1>7, <2>1, WithoutTabIs
<1>8. ASSUME Applies("active", WithSelection(Received))
      PROVE  Applies(Received.type, page') /\ Shows(page', Received)
  <2>1. PICK next : next = WithSelection(Received) OBVIOUS
  <2> QED BY <1>4, <1>8, <2>1, WithSelectionIs
<1>9. ASSUME Applies("data", WithOutput(Received))
      PROVE  Applies(Received.type, page') /\ Shows(page', Received)
  <2>1. PICK next : next = WithOutput(Received) OBVIOUS
  <2> QED BY <1>4, <1>9, <2>1, WithOutputIs
<1>10. ASSUME Applies("resumable", WithResumable(Received))
      PROVE  Applies(Received.type, page') /\ Shows(page', Received)
  <2>1. PICK next : next = WithResumable(Received) OBVIOUS
  <2> QED BY <1>4, <1>10, <2>1, WithResumableIs
<1> QED BY <1>2, <1>3, <1>5, <1>6, <1>7, <1>8, <1>9, <1>10 DEF DocumentReceives

LEMMA ReceivesTypes ==
    ASSUME TypesSound, DocumentReceives
    PROVE  TypesSound'
<1>1. /\ Applies(Received.type, page') /\ Shows(page', Received)
      /\ toHost' = toHost \/ \E q \in Requests : toHost' = Append(toHost, RequestOf(q))
  BY ReceivesIs
<1>2. ViewSound /\ WorldSound BY DEF TypesSound
<1>3. /\ page \in Pages /\ page # None /\ Content(page) \in Contents /\ Received \in HostMessages
      /\ host' \in SoundHosts /\ host'.open = host.open
      /\ UNCHANGED <<live, active, printed, store, composer, asking, documents, events>>
  BY <1>1, <1>2, AppliesIs
<1>4. ViewSound'
  BY <1>2, <1>3, <1>1, FollowIs, PageIs, RequestSent, AppendedFacts DEF ViewSound, Shows
<1> QED BY <1>4, <1>2, <1>3, StillWorld DEF TypesSound, WorldSound

\* The user clicks.
LEMMA ClickIs ==
    ASSUME TypesSound, NEW s \in Session, ClickTab(s) \/ ClickClose(s) \/ ClickRename(s)
    PROVE  /\ page # None /\ page \in Pages /\ page.loaded /\ s \in Ids(page.tabs)
           /\ \E type \in {"select", "close", "rename"} :
                /\ [type |-> type, id |-> s] \in WebviewMessages
                /\ toHost' = Append(toHost, [type |-> type, id |-> s])
                /\ type # "select" => page' = page
                /\ type = "select" => page'.active = s /\ page'.clicked
           /\ page' \in Pages /\ page'.id = page.id /\ page'.loaded
           /\ Content(page') = Content(page) /\ SameRest(page')
           /\ UNCHANGED <<live, active, printed, store, composer, host, asking, documents>>
           /\ TypesSound'
<1>1. PICK type, next :
         /\ type \in {"select", "close", "rename"}
         /\ HasTab(s) /\ Click(s, type, next)
         /\ type # "select" => next = page
         /\ type = "select" => next = [page EXCEPT !.active = s, !.clicked = TRUE]
  <2>1. CASE ClickTab(s) BY <2>1 DEF ClickTab
  <2>2. CASE ClickClose(s) BY <2>2 DEF ClickClose
  <2>3. CASE ClickRename(s) BY <2>3 DEF ClickRename
  <2> QED BY <2>1, <2>2, <2>3
<1>2. /\ page # None /\ page.loaded /\ s \in Ids(page.tabs) /\ Event /\ page' = next
      /\ toHost' = Append(toHost, [type |-> type, id |-> s])
      /\ UNCHANGED <<live, active, printed, store, composer, host, asking, documents>>
  BY <1>1 DEF HasTab, Click
<1>3. page \in Pages /\ Content(page) \in Contents BY <1>2 DEF TypesSound, ViewSound
<1>4. /\ page' \in Pages /\ page'.id = page.id /\ page'.loaded
      /\ Content(page') = Content(page) /\ SameRest(page')
      /\ type = "select" => page'.active = s /\ page'.clicked
  <2>1. CASE type = "select"
    <3>1. page' = [page EXCEPT !.active = s, !.clicked = TRUE] BY <1>1, <1>2, <2>1
    <3> QED BY <1>2, <1>3, <3>1 DEF Pages, Content, SameRest
  <2>2. CASE type # "select" BY <1>1, <1>2, <1>3, <2>2 DEF SameRest
  <2> QED BY <2>1, <2>2
<1> QED
  BY <1>1, <1>2, <1>3, <1>4, StillWorld, AppendedFacts, PageIs DEF TypesSound, WorldSound,
     ViewSound, WebviewMessages

\* The host hears that a document runs.
LEMMA ReadyIs ==
    ASSUME TypesSound, Ready
    PROVE  LET d == Head(toHost).doc
           IN  /\ toHost # <<>> /\ Head(toHost).type = "ready" /\ d \in Documents
               /\ toHost' = Tail(toHost)
               /\ page # None /\ host.open
               /\ host' = Hydrated(host, d)
               /\ d \in host.seen => host' = host
               /\ host' \in SoundHosts /\ host'.open
               /\ UNCHANGED <<live, active, printed, store, composer, asking, page, documents, events>>
               /\ TypesSound'
<1> DEFINE d == Head(toHost).doc
<1>1. /\ toHost # <<>> /\ Head(toHost).type = "ready" /\ toHost' = Tail(toHost)
      /\ host' = Hydrated(host, d)
      /\ UNCHANGED <<live, active, printed, store, composer, asking, page, documents, events>>
  BY DEF Ready, Arrives
<1>2. d \in Documents BY <1>1, TailFacts, HostIs DEF WebviewMessages
<1>3. page # None /\ host.open BY <1>1 DEF TypesSound, ViewSound
<1>4. d \in host.seen => host' = host BY <1>1 DEF Hydrated
<1>5. host' \in SoundHosts /\ host'.open
  <2>1. CASE d \in host.seen BY <1>3, <1>4, <2>1, HostIs
  <2>2. CASE d \notin host.seen
    <3>1. PICK p : p = Posted(Docked(host, d), <<Hydration(host)>> \o Replay) OBVIOUS
    <3>2. /\ Docked(host, d).open /\ Extends(Docked(host, d), p, {"hydrate", "data"})
          /\ Hydrated(host, d) \in SoundHosts /\ Extends(p, Hydrated(host, d), {"invalidated"})
      BY <1>2, <1>3, <2>2, <3>1, HydratedIs, HostIs
    <3> QED BY <1>1, <3>2 DEF Extends
  <2> QED BY <2>1, <2>2
<1>6. ViewSound' BY <1>1, <1>3, <1>5, HostMovesView DEF TypesSound, HostMoves
<1> QED BY <1>1, <1>2, <1>3, <1>4, <1>5, StillWorld, <1>6 DEF TypesSound, WorldSound

--------------------
(* The theorem of the types *)

LEMMA InitLists ==
    ASSUME Init
    PROVE  /\ live \in Seq(Snapshots) /\ Distinct(live)
           /\ \A i, j \in DOMAIN live : live[i].uuid = live[j].uuid => i = j
<1>1. ASSUME NEW s \in Session, NEW u \in Uuid
      PROVE  Snapshot(s, u) \in Snapshots /\ Snapshot(s, u).id = s /\ Snapshot(s, u).uuid = u
  BY DEF Snapshot, Snapshots
<1>2. CASE live = <<>> BY <1>2 DEF Distinct
<1>3. CASE \E s \in Session, u \in Uuid : live = <<Snapshot(s, u)>>
  <2>1. PICK x \in Snapshots : live = <<x>> BY <1>1, <1>3
  <2> QED BY <2>1 DEF Distinct
<1>4. CASE live \in {p \in {Snapshot(s, u) : s \in Session, u \in Uuid} \X
                      {Snapshot(s, u) : s \in Session, u \in Uuid} :
                   p[1].id # p[2].id /\ p[1].uuid # p[2].uuid}
  <2>1. PICK x, y \in {Snapshot(s, u) : s \in Session, u \in Uuid} : live = <<x, y>> BY <1>4
  <2> QED BY <1>4, <2>1, <1>1 DEF Distinct
<1> QED BY <1>2, <1>3, <1>4 DEF Init

LEMMA InitTypes ==
    ASSUME Init
    PROVE  TypesSound
<1>1. live \in Seq(Snapshots) /\ Distinct(live) BY InitLists
<1>2. MaxEvents \in Nat /\ MaxDocument \in Nat /\ MaxOutput \in Nat BY BoundAssumption
<1>3. LiveSound BY <1>1, IdsAre, <1>2, NoneIs DEF LiveSound, Init
<1>4. PICK before \in [Uuid -> Beginnings] :
          /\ known = {u \in Uuid : before[u].known}
          /\ transcript = [u \in Uuid |-> before[u].transcript]
          /\ draft = [u \in Uuid |-> IF before[u].draft THEN [rev |-> 1, text |-> TRUE]
                                     ELSE [rev |-> 0, text |-> FALSE]]
  BY DEF Init
<1>5. \A u \in Uuid : before[u].transcript \in {None, {"meta"}, {"odd"}, {"message"}}
  <2> SUFFICES ASSUME NEW u \in Uuid
               PROVE  before[u].transcript \in {None, {"meta"}, {"odd"}, {"message"}}
    OBVIOUS
  <2> QED BY BeginningsAssumption
<1>6. transcript \in [Uuid -> (SUBSET {"meta", "message", "odd"}) \cup {None}]
  <2>1. \A u \in Uuid : before[u].transcript \in (SUBSET {"meta", "message", "odd"}) \cup {None}
    <3> SUFFICES ASSUME NEW u \in Uuid
                 PROVE  before[u].transcript \in (SUBSET {"meta", "message", "odd"}) \cup {None}
      OBVIOUS
    <3> QED BY <1>5
  <2> QED BY <1>4, <2>1
<1>7. events = 0 /\ documents = 0 /\ asking = None /\ page = None /\ toHost = <<>>
       /\ erasing = {} /\ forgotten = {} /\ unrecorded = Uuids(live) \ known
       /\ host = [open |-> FALSE, ready |-> FALSE, doc |-> None, seen |-> {}, resume |-> {},
               scan |-> None, pending |-> FALSE, retry |-> FALSE, revision |-> 0,
               paging |-> FALSE, cursors |-> {}, out |-> <<>>]
  BY DEF Init
<1>8. unrecorded \in SUBSET Uuid
  <2>1. \A x \in ToSet(live) : x.uuid \in Uuid BY <1>1, IdsAre DEF Snapshots
  <2> QED BY <1>7, <2>1 DEF Uuids
<1>9. ViewSound BY <1>7, <1>2 DEF ViewSound, SoundHosts, Hosts
<1> QED BY <1>2, <1>3, <1>4, <1>6, <1>7, <1>8, <1>9 DEF TypesSound, WorldSound

\* The steps, each with what it is to the host.
LEMMA NextKeepsTypes ==
    ASSUME TypesSound, [Next]_vars
    PROVE  TypesSound'
<1>1. ASSUME AsideStep, WorldSound' PROVE TypesSound' BY <1>1, AsideView DEF TypesSound
<1>2. CASE World
  <2>1. ASSUME NEW s \in Session, NEW u \in Uuid, Launch(s, u) PROVE TypesSound'
    BY <2>1, LaunchTypes
  <2>2. ASSUME NEW s \in Session, Exit(s) \/ Output(s) PROVE TypesSound'
    BY <2>2, ExitTypes, OutputTypes
  <2>3. ASSUME NEW u \in Uuid, Recorded(u) \/ ForgetMetadata(u) \/ Flush(u) \/ ForgetDraft(u)
        PROVE  TypesSound'
    BY <1>1, <2>3, MetadataSteps, FlushStep, ForgetDraftStep
  <2>4. ASSUME NEW u \in Uuid, NEW flag \in BOOLEAN, DraftSaved(u, flag) \/ ForgetSettles(u, flag)
        PROVE  TypesSound'
    BY <1>1, <2>4, DraftSavedStep, ForgetSettlesStep
  <2> QED BY <1>2, <2>1, <2>2, <2>3, <2>4 DEF World
<1>3. CASE View
  <2>1. ASSUME NEW s \in Session, ClickTab(s) \/ ClickClose(s) \/ ClickRename(s) PROVE TypesSound'
    BY <2>1, ClickIs
  <2>2. ASSUME ResolveView PROVE TypesSound' BY <2>2, ResolveViewIs
  <2>3. ASSUME DisposeView PROVE TypesSound' BY <2>3, DisposeViewIs
  <2>4. ASSUME ShowView PROVE TypesSound' BY <1>1, <2>4, ShowViewStep
  <2>5. ASSUME ReloadDocument PROVE TypesSound' BY <2>5, ReloadDocumentIs
  <2>6. ASSUME DocumentLoads PROVE TypesSound' BY <2>6, DocumentLoadsIs
  <2>7. ASSUME DocumentReceives PROVE TypesSound' BY <2>7, ReceivesTypes
  <2> QED BY <1>3, <2>1, <2>2, <2>3, <2>4, <2>5, <2>6, <2>7 DEF View
<1>4. CASE Provider
  <2>1. ASSUME ScanChecks \/ RetryFires \/ RecoveryRequested \/ RenameRequested PROVE TypesSound'
    BY <1>1, <2>1, ScanChecksStep, RetryFiresStep, RecoveryRequestedStep, RenameRequestedStep
  <2>2. ASSUME Ready PROVE TypesSound' BY <2>2, ReadyIs
  <2>3. ASSUME NEW next, NEW selected, ListsMove(next, selected), Ids(next) \subseteq Ids(live), SameWorld,
               asking' = asking \/ asking' = None,
               toHost' = toHost \/ (toHost # <<>> /\ toHost' = Tail(toHost))
        PROVE  TypesSound'
    BY <2>3, ListsMoveTypes
  <2>4. ASSUME UNCHANGED <<live, active, host>>, SameWorld, asking' = asking \/ asking' = None,
               toHost' = toHost \/ (toHost # <<>> /\ toHost' = Tail(toHost))
        PROVE  TypesSound'
    BY <2>4, StillWorld, HostIs, HostMovesView DEF TypesSound, WorldSound, SameWorld, HostMoves
  <2>5. ASSUME SelectRequested PROVE TypesSound' BY <2>3, <2>4, <2>5, SelectIs DEF Arrives
  <2>6. ASSUME CloseRequested PROVE TypesSound' BY <2>3, <2>4, <2>6, CloseIs DEF Arrives
  <2>7. ASSUME RenameAnswered PROVE TypesSound' BY <2>3, <2>4, <2>7, AnswerRenameIs
  <2> QED BY <1>4, <2>1, <2>2, <2>5, <2>6, <2>7 DEF Provider
<1>5. CASE UNCHANGED vars BY <1>5, StillWorld DEF TypesSound, ViewSound, vars, WorldSound
<1> QED BY <1>2, <1>3, <1>4, <1>5 DEF Next

\* The types: whatever happens, every part of the panel holds what it may.
THEOREM TypeCorrect == Spec => []TypeOK
<1>1. Init => TypesSound BY InitTypes
<1>2. TypesSound /\ [Next]_vars => TypesSound' BY NextKeepsTypes
<1>3. TypesSound => TypeOK BY TypesAre
<1> QED BY <1>1, <1>2, <1>3, PTL DEF Spec

--------------------
(* What can be resumed *)

\* The conversations that something was said in, or that cannot be judged.
Offerable(S) == {u \in S : Evidence(u) # "absent"}

\* What is offered is known, and so is what a scan that still counts has to
\* check or has found; when no look at the disk is due, a scan that is over has
\* found what can be offered.
ScanFits(h, cand) ==
    /\ h.resume \subseteq cand
    /\ h.scan # None /\ ~h.scan.stale => h.scan.todo \subseteq cand /\ h.scan.eligible \subseteq cand
    /\ h.open /\ h.scan # None => (h.scan.stale <=> h.pending)
    /\ h.open /\ ~h.retry /\ h.scan = None => h.resume = Offerable(cand)
    /\ h.open /\ ~h.retry /\ h.scan # None /\ ~h.scan.stale =>
         h.scan.eligible = Offerable(cand \ h.scan.todo) /\ (h.scan.todo = {} => cand = {})

ScanSound == ScanFits(host, Candidates(known, live))

\* The fields it is about.
SameScan(h, n) ==
    /\ n.open = h.open /\ n.resume = h.resume /\ n.scan = h.scan /\ n.pending = h.pending
    /\ n.retry = h.retry \/ n.retry

LEMMA SameScanFits ==
    ASSUME NEW h, NEW n, NEW cand, SameScan(h, n), ScanFits(h, cand)
    PROVE  ScanFits(n, cand)
BY DEF SameScan, ScanFits

LEMMA RefreshedFits ==
    ASSUME NEW h \in SoundHosts, NEW cand \in SUBSET Uuid
    PROVE  ScanFits(Refreshed(h, cand), cand)
<1> DEFINE s == Superseded(h)
<1>1. PICK r : r = Refreshed(h, cand) OBVIOUS
<1>2. /\ r.open = Published(s, cand \cap h.resume).open
      /\ r.resume = cand \cap h.resume
      /\ ~h.open => r.scan = s.scan
      /\ h.open /\ h.scan # None => r.pending /\ r.scan # None /\ r.scan.stale
      /\ h.open /\ h.scan = None =>
           r.pending = h.pending /\ r.scan = [todo |-> cand, eligible |-> {}, stale |-> FALSE]
      /\ r \in SoundHosts
  BY <1>1, RefreshedForm
<1>3. r.open = h.open BY <1>1, RefreshedIs DEF Extends
<1>4. CASE ~h.open BY <1>1, <1>2, <1>3, SupersededIs, <1>4 DEF ScanFits
<1>5. CASE h.open /\ h.scan # None BY <1>1, <1>2, <1>3, <1>5 DEF ScanFits
<1>6. CASE h.open /\ h.scan = None
  <2>1. r.scan # None
    <3>1. r.scan \in Scans
      <4>1. [todo |-> cand, eligible |-> {}, stale |-> FALSE] \in Scans BY DEF Scans
      <4> QED BY <1>2, <1>6, <4>1
    <3> QED BY <3>1, NoneIs
  <2> QED BY <1>1, <1>2, <1>6, <2>1 DEF ScanFits, Offerable, SoundHosts
<1> QED BY <1>4, <1>5, <1>6

\* A scan ends: with what it found, or with another.
LEMMA SettledFits ==
    ASSUME NEW h \in SoundHosts, known \in SUBSET Uuid, h.resume \subseteq Candidates(known, live),
           h.open /\ ~h.retry /\ ~h.pending => h.resume = Offerable(Candidates(known, live))
    PROVE  ScanFits(Settled(h), Candidates(known, live))
<1>1. PICK n : n = [h EXCEPT !.scan = None, !.pending = FALSE] OBVIOUS
<1>2. PICK s : s = Settled(h) OBVIOUS
<1>3. /\ n \in SoundHosts /\ n.scan = None /\ ~n.pending
      /\ n.open = h.open /\ n.resume = h.resume /\ n.retry = h.retry
      /\ s = IF h.pending THEN Refreshed(n, Candidates(known, live)) ELSE n
  BY <1>1, <1>2, SettledIs
<1>4. CASE h.pending BY <1>2, <1>3, <1>4, CandidatesAre, RefreshedFits
<1>5. CASE ~h.pending BY <1>2, <1>3, <1>5 DEF ScanFits
<1> QED BY <1>4, <1>5

LEMMA ScanStepFits ==
    ASSUME NEW h \in SoundHosts, h.scan # None, known \in SUBSET Uuid,
           ScanFits(h, Candidates(known, live))
    PROVE  ScanFits(ScanStep(h), Candidates(known, live))
<1>1. PICK cand : cand = Candidates(known, live) OBVIOUS
<1>2. cand \in SUBSET Uuid /\ ScanFits(h, cand) BY <1>1, CandidatesAre
<1>3. PICK scan, s : scan = Checked(h.scan) /\ s = ScanStep(h) OBVIOUS
<1>4. /\ h.scan \in Scans
      /\ h.scan.stale \/ h.scan.todo = {} => s = Settled(h)
      /\ ~h.scan.stale /\ h.scan.todo # {} =>
           /\ scan \in Scans
           /\ scan.todo = {} => s = Settled(Published(h, scan.eligible))
           /\ scan.todo # {} =>
                /\ s = [h EXCEPT !.scan = scan] /\ s.scan = scan
                /\ s.resume = h.resume /\ s.retry = h.retry /\ s.pending = h.pending
  BY <1>3, ScanStepIs
<1>5. CASE h.scan.stale \/ h.scan.todo = {}
  <2>1. h.open /\ ~h.retry /\ ~h.pending => h.resume = Offerable(cand)
    <3> SUFFICES ASSUME h.open, ~h.retry, ~h.pending PROVE h.resume = Offerable(cand) OBVIOUS
    <3> QED BY <1>2, <1>5 DEF Offerable, ScanFits
  <2> QED BY <1>3, <1>4, <1>5, <1>1, <2>1, <1>2, SettledFits DEF ScanFits
<1>6. CASE ~h.scan.stale /\ h.scan.todo # {}
  <2>1. PICK u : u = Min(h.scan.todo) OBVIOUS
  <2>2. u \in h.scan.todo /\ h.scan.todo \subseteq cand /\ h.scan.eligible \subseteq cand
    BY <1>2, <1>6, <2>1, <1>4, FirstIs DEF ScanFits, Scans
  <2>3. /\ scan.stale = h.scan.stale /\ scan.todo = h.scan.todo \ {u}
        /\ scan.eligible = IF Evidence(u) = "absent" THEN h.scan.eligible ELSE h.scan.eligible \cup {u}
    BY <1>3, <1>4, <1>6, <2>1, CheckedIs
  <2>4. scan.todo \subseteq cand /\ scan.eligible \subseteq cand BY <2>2, <2>3
  <2>5. h.open /\ ~h.retry => scan.eligible = Offerable(cand \ scan.todo)
    <3> SUFFICES ASSUME h.open, ~h.retry PROVE scan.eligible = Offerable(cand \ scan.todo) OBVIOUS
    <3> QED BY <2>3, <1>2, <1>6, <2>2 DEF Offerable, ScanFits
  <2>6. CASE scan.todo = {}
    <3>1. PICK p : p = Published(h, scan.eligible) OBVIOUS
    <3>2. p \in SoundHosts /\ p.resume = scan.eligible /\ p.pending = h.pending /\ p.retry = h.retry
          /\ p.open = h.open
      BY <3>1, <1>2, <2>4, PublishedIs, PublishedKeeps DEF Extends
    <3> QED BY <1>3, <1>4, <1>6, <2>6, <3>1, <1>1, <2>4, <3>2, <2>5, SettledFits
  <2>7. CASE scan.todo # {}
    <3>1. s.scan = scan /\ s.resume = h.resume /\ s.retry = h.retry /\ s.pending = h.pending
      BY <1>4, <1>6, <2>7
    <3>2. s.scan # None BY <1>4, <1>6, <3>1, NoneIs
    <3> QED
      BY <1>1, <1>3, <2>4, <2>7, <3>1, <3>2, ScanStepIs, <2>5, <1>2, <2>3 DEF ScanFits, Extends
  <2> QED BY <2>6, <2>7
<1> QED BY <1>5, <1>6

\* Steps that leave the saved metadata, the list and the disk alone keep it.
LEMMA SameScanSound ==
    ASSUME ScanSound, SameScan(host, host'), UNCHANGED <<live, known, transcript>>
    PROVE  ScanSound'
<1>1. PICK cand, h, n : cand = Candidates(known, live) /\ h = host /\ n = host' OBVIOUS
<1>2. ScanFits(n, cand) BY <1>1, SameScanFits DEF ScanSound
<1> QED BY <1>1, <1>2 DEF ScanSound, ScanFits, Offerable, Candidates, Uuids, Evidence

\* A refresh establishes it.
LEMMA RefreshScanSound ==
    ASSUME NEW h \in SoundHosts, NEW n, SameScan(Refreshed(h, Candidates(known', live')), n), host' = n,
           known' \in SUBSET Uuid, UNCHANGED transcript
    PROVE  ScanSound'
<1>1. PICK cand : cand = Candidates(known', live') OBVIOUS
<1>2. ScanFits(n, cand) BY <1>1, CandidatesAre, RefreshedFits, SameScanFits
<1> QED BY <1>2, <1>1 DEF ScanSound, ScanFits, Offerable, Evidence, Candidates, Uuids

LEMMA ListsMoveScan ==
    ASSUME TypesSound, NEW next, NEW selected, ListsMove(next, selected), UNCHANGED <<known, transcript>>
    PROVE  ScanSound'
<1>1. /\ next \in Seq(Snapshots) /\ selected \in Session \cup {None} /\ live' = next
      /\ host' = SessionsChanged(host, next, selected, known)
  BY ListsMoveIs
<1>2. host \in SoundHosts /\ live \in Seq(Snapshots) /\ known \in SUBSET Uuid
  BY HostIs DEF LiveSound
<1>3. PICK d : d = Reselected(host, next, selected) OBVIOUS
<1>4. PICK r : r = Refreshed(d, Candidates(known, next)) OBVIOUS
<1>5. PICK n : n = SessionsChanged(host, next, selected, known) OBVIOUS
<1>6. /\ d \in SoundHosts /\ r \in SoundHosts
      /\ n = IF Gone(next) = <<>> THEN r ELSE [r EXCEPT !.retry = TRUE]
  BY <1>1, <1>2, <1>3, <1>4, <1>5, SessionsChangedIs
<1>7. SameScan(r, n) BY <1>6, RetryIs DEF SameScan, SoundHosts
<1> QED BY <1>1, <1>5, <1>6, <1>7, <1>2, <1>4, RefreshScanSound

\* A host that only posts.
LEMMA PostedScan ==
    ASSUME NEW h \in Hosts, NEW ms
    PROVE  SameScan(h, Posted(h, ms)) /\ SameScan(h, Invalidated(h)) /\ SameScan(h, h)
<1> QED BY PostedKeeps, InvalidatedKeeps DEF SameScan, Invalidated, Posted, Hosts

LEMMA RecoveryPageScan ==
    ASSUME NEW h \in SoundHosts, NEW request \in Requests, draft \in Drafts
    PROVE  SameScan(h, RecoveryPage(h, request))
<1>1. PICK n, r : n = Paging(h, request) /\ r = RecoveryPage(h, request) OBVIOUS
<1>2. /\ n \in SoundHosts /\ n.open = h.open
      /\ n.resume = h.resume /\ n.scan = h.scan /\ n.pending = h.pending /\ n.retry = h.retry
      /\ r = IF Refused(h, request) THEN Invalidated(h) ELSE Posted(n, <<Answer(h, request)>>)
  BY <1>1, RecoveryPageIs
<1> QED BY <1>1, <1>2, PostedScan DEF SameScan, SoundHosts

LEMMA WorldKeepsScan ==
    ASSUME TypesSound, ScanSound, World
    PROVE  ScanSound'
<1>1. host \in SoundHosts /\ host \in Hosts /\ known \in SUBSET Uuid BY HostIs
<1>2. ASSUME NEW s \in Session, NEW u \in Uuid, Launch(s, u) PROVE ScanSound'
  <2>1. UNCHANGED <<known, transcript>> BY <1>2 DEF Launch
  <2> QED BY <1>2, <2>1, LaunchIs, ListsMoveScan
<1>3. ASSUME NEW s \in Session, Exit(s) PROVE ScanSound'
  <2>1. UNCHANGED <<known, transcript>> BY <1>3 DEF Exit, store
  <2> QED BY <1>3, <2>1, ExitIs, ListsMoveScan
<1>4. ASSUME NEW s \in Session, Output(s) PROVE ScanSound'
  BY <1>4, <1>1, PostedScan, SameScanSound DEF Output, store
<1>5. ASSUME NEW u \in Uuid, Recorded(u) \/ ForgetMetadata(u) PROVE ScanSound'
  <2>1. PICK r : r = Refreshed(host, Candidates(known', live')) OBVIOUS
  <2> QED
    BY <1>1, <1>5, MetadataSteps, <2>1, RefreshScanSound DEF SameScan, Recorded, ForgetMetadata,
       MetadataChanged
<1>6. ASSUME NEW u \in Uuid, Flush(u) PROVE ScanSound'
  <2>1. /\ u \in Uuids(live) \/ host.retry \/ ~host.open
        /\ transcript' = [transcript EXCEPT ![u] = (IF @ = None THEN {} ELSE @) \cup {"message"}]
        /\ UNCHANGED <<live, known, host>>
    BY <1>6 DEF Flush
  <2>2. ASSUME NEW S, S \subseteq Candidates(known, live), host.open, ~host.retry
        PROVE  {v \in S : Evidence(v)' # "absent"} = Offerable(S)
    BY <1>1, <2>1, <2>2 DEF Offerable, Candidates, Evidence, TypesSound, WorldSound
  <2>3. PICK cand : cand = Candidates(known, live) OBVIOUS
  <2> QED BY <2>1, <2>2, <2>3 DEF ScanSound, ScanFits, Offerable, Candidates, Uuids
<1>7. ASSUME host' = host \/ host' = Invalidated(host), UNCHANGED <<live, known, transcript>>
      PROVE  ScanSound'
  BY <1>7, <1>1, PostedScan, SameScanSound
<1>8. ASSUME NEW u \in Uuid, ForgetDraft(u) PROVE ScanSound' BY <1>7, <1>8 DEF ForgetDraft, store
<1>9. ASSUME NEW u \in Uuid, NEW flag \in BOOLEAN, DraftSaved(u, flag) PROVE ScanSound'
  BY <1>7, <1>9 DEF DraftSaved, store
<1>10. ASSUME NEW u \in Uuid, NEW flag \in BOOLEAN, ForgetSettles(u, flag) PROVE ScanSound'
  BY <1>7, <1>10 DEF ForgetSettles, store
<1> QED BY <1>2, <1>3, <1>4, <1>5, <1>6, <1>8, <1>9, <1>10 DEF World

LEMMA ViewKeepsScan ==
    ASSUME TypesSound, ScanSound, View
    PROVE  ScanSound'
<1>1. host \in SoundHosts /\ host \in Hosts /\ known \in SUBSET Uuid BY HostIs
<1>2. ASSUME host'.open = host.open, host'.resume = host.resume, host'.scan = host.scan,
             host'.pending = host.pending, host'.retry = host.retry, UNCHANGED <<live, store>>
      PROVE  ScanSound'
  BY <1>2, SameScanSound DEF SameScan, store
<1>3. ASSUME ResolveView PROVE ScanSound'
  <2>1. PICK h : h = Reopened OBVIOUS
  <2>2. PICK r : r = Refreshed(h, Candidates(known, live)) OBVIOUS
  <2>3. /\ host'.open /\ host'.retry /\ host'.resume = Candidates(known, live) \cap host.resume
        /\ host'.scan = r.scan /\ host'.pending = r.pending /\ UNCHANGED <<live, store>>
    BY <1>3, <2>1, <2>2, ResolveViewIs
  <2>4. h \in SoundHosts /\ h.open /\ h.resume = host.resume
    BY <1>1, <2>1, ReopenedIs DEF Reopened, Hosts
  <2>5. r.open /\ r.resume = Candidates(known, live) \cap h.resume
    BY <1>1, <2>2, <2>4, CandidatesAre, RefreshedIs, RefreshedForm DEF Extends
  <2>6. SameScan(r, host') BY <2>3, <2>4, <2>5 DEF SameScan
  <2> QED BY <2>4, <2>6, <1>1, <2>2, <2>3, RefreshScanSound DEF store
<1>4. ASSUME DisposeView PROVE ScanSound'
  <2>1. PICK n : n = Superseded(host) OBVIOUS
  <2>2. n \in SoundHosts /\ n.resume = host.resume /\ (n.scan # None => n.scan.stale)
    BY <1>1, <2>1, SupersededIs
  <2> QED
    BY <2>2, <2>1, <1>4 DEF ScanSound, ScanFits, DisposeView, store, Candidates, Uuids, Hosts,
       Closed, SoundHosts
<1>5. ASSUME ShowView PROVE ScanSound' BY <1>1, <1>5, RefreshScanSound DEF SameScan, ShowView, store
<1>6. ASSUME ReloadDocument PROVE ScanSound' BY <1>2, <1>6, ReloadDocumentIs
<1>7. ASSUME DocumentLoads PROVE ScanSound' BY <1>2, <1>7, DocumentLoadsIs
<1>8. ASSUME DocumentReceives PROVE ScanSound' BY <1>2, <1>8, ReceivesIs, AppliesIs DEF TypesSound
<1>9. ASSUME NEW s \in Session, ClickTab(s) \/ ClickClose(s) \/ ClickRename(s) PROVE ScanSound'
  BY <1>2, <1>9, ClickIs
<1> QED BY <1>3, <1>4, <1>5, <1>6, <1>7, <1>8, <1>9 DEF View

LEMMA ProviderKeepsScan ==
    ASSUME TypesSound, ScanSound, Provider
    PROVE  ScanSound'
<1>1. host \in SoundHosts /\ host \in Hosts /\ known \in SUBSET Uuid BY HostIs
<1>2. ASSUME ScanChecks PROVE ScanSound'
  <2>1. PICK n, cand : n = ScanStep(host) /\ cand = Candidates(known, live) OBVIOUS
  <2> QED
    BY <1>1, ScanStepFits, <1>2, <2>1 DEF ScanSound, ScanFits, Offerable, Candidates, Uuids,
       Evidence, ScanChecks, store
<1>3. ASSUME RetryFires PROVE ScanSound'
  <2>1. PICK h : h = [host EXCEPT !.retry = FALSE] OBVIOUS
  <2>2. host' = Refreshed(h, Candidates(known, live)) /\ UNCHANGED <<live, known, transcript>>
    BY <1>3, <2>1 DEF RetryFires, store
  <2>3. h \in SoundHosts BY <1>3, <2>1, RetryFiresStep
  <2> QED BY <1>1, <2>2, <2>3, RefreshScanSound DEF SameScan
<1>4. ASSUME Ready PROVE ScanSound'
  <2>1. PICK d : d = Head(toHost).doc OBVIOUS
  <2>2. /\ host' = Hydrated(host, d) /\ host.open /\ d \in Documents
        /\ (d \in host.seen => host' = host)
        /\ UNCHANGED <<live, known, transcript>>
    BY <1>4, <2>1, ReadyIs DEF store
  <2>3. SameScan(host, host')
    <3>1. CASE d \in host.seen BY <2>2, <3>1 DEF SameScan
    <3>2. CASE d \notin host.seen
      <4>1. PICK n : n = Docked(host, d) OBVIOUS
      <4>2. PICK p : p = Posted(n, <<Hydration(host)>> \o Replay) OBVIOUS
      <4>3. /\ n \in SoundHosts /\ n.open
            /\ n.resume = host.resume /\ n.scan = host.scan /\ n.pending = host.pending
            /\ n.retry = host.retry
            /\ p \in SoundHosts /\ Hydrated(host, d) = Invalidated(p)
        BY <1>1, <2>2, <3>2, <4>1, <4>2, HydratedIs, HostIs
      <4>4. SameScan(n, p) /\ SameScan(p, Invalidated(p)) BY <4>2, <4>3, PostedScan DEF SoundHosts
      <4> QED BY <2>2, <4>3, <4>4 DEF SameScan
    <3> QED BY <3>1, <3>2
  <2> QED BY <2>2, <2>3, SameScanSound
<1>5. ASSUME RecoveryRequested PROVE ScanSound'
  <2>1. PICK m : m = Head(toHost) OBVIOUS
  <2> QED
    BY <1>5, <2>1, RequestedIs, <1>1, DraftsAre, RecoveryPageScan, PostedScan, SameScanSound DEF
       RecoveryRequested, store, TypesSound
<1>6. ASSUME UNCHANGED <<live, active, host>>, SameWorld PROVE ScanSound'
  BY <1>6, SameScanSound DEF SameWorld, store, SameScan
<1>7. ASSUME NEW next, NEW selected, ListsMove(next, selected), SameWorld PROVE ScanSound'
  BY <1>7, ListsMoveScan DEF SameWorld, store
<1>8. ASSUME SelectRequested PROVE ScanSound' BY <1>6, <1>7, <1>8, SelectIs
<1>9. ASSUME CloseRequested PROVE ScanSound' BY <1>6, <1>7, <1>9, CloseIs
<1>10. ASSUME RenameAnswered PROVE ScanSound' BY <1>6, <1>7, <1>10, AnswerRenameIs
<1>11. ASSUME RenameRequested PROVE ScanSound'
  BY <1>11, SameScanSound DEF SameScan, RenameRequested, store
<1> QED BY <1>2, <1>3, <1>4, <1>5, <1>8, <1>9, <1>10, <1>11 DEF Provider

LEMMA InitScan ==
    ASSUME Init
    PROVE  ScanSound
<1> QED BY DEF ScanSound, ScanFits, Init

LEMMA NextKeepsScan ==
    ASSUME TypesSound, ScanSound, [Next]_vars
    PROVE  ScanSound'
<1>1. CASE UNCHANGED vars BY <1>1, SameScanSound DEF SameScan, vars, store
<1> QED BY <1>1, WorldKeepsScan, ViewKeepsScan, ProviderKeepsScan DEF Next

\* The list never offers a conversation that is live, or whose metadata is not
\* there: a scan under way counts no more once something changed.
THEOREM OfferedOnlyKnownAlways == Spec => []OfferedOnlyKnown
<1> DEFINE Inv == TypesSound /\ ScanSound
<1>1. Init => Inv BY InitTypes, InitScan
<1>2. Inv /\ [Next]_vars => Inv' BY NextKeepsTypes, NextKeepsScan
<1>3. Inv => OfferedOnlyKnown BY DEF ScanSound, ScanFits, OfferedOnlyKnown
<1> QED BY <1>1, <1>2, <1>3, PTL DEF Spec

--------------------
(* Queues *)

\* A queue has none of these messages; it has this one.
Clear(q, all) == \A i \in DOMAIN q : q[i] \notin all
Holds(q, m) == \E i \in DOMAIN q : q[i] = m

\* Of the messages of a kind the last is a right one.
EndsIn(q, all, right) ==
    \E i \in DOMAIN q : q[i] \in right /\ \A j \in DOMAIN q : j > i => q[j] \notin all

\* The last is a right one, or there is none and this is so without.
Carried(q, all, right, so) == EndsIn(q, all, right) \/ (Clear(q, all) /\ so)

LEMMA ClearEmpty ==
    ASSUME NEW all
    PROVE  Clear(<<>>, all)
BY DEF Clear

LEMMA ClearConcat ==
    ASSUME NEW S, NEW q \in Seq(S), NEW ms \in Seq(S), NEW all
    PROVE  Clear(q \o ms, all) <=> (Clear(q, all) /\ Clear(ms, all))
<1>1. /\ DOMAIN (q \o ms) = 1..(Len(q) + Len(ms)) /\ DOMAIN q = 1..Len(q) /\ DOMAIN ms = 1..Len(ms)
      /\ Len(q) \in Nat /\ Len(ms) \in Nat
      /\ \A i \in 1..Len(q) : (q \o ms)[i] = q[i]
      /\ \A i \in 1..Len(ms) : (q \o ms)[Len(q) + i] = ms[i]
  BY ConcatFacts
<1>2. ASSUME Clear(q, all), Clear(ms, all) PROVE Clear(q \o ms, all)
  <2> SUFFICES ASSUME NEW i \in 1..(Len(q) + Len(ms)) PROVE (q \o ms)[i] \notin all
    BY <1>1 DEF Clear
  <2>1. CASE i \in 1..Len(q) BY <1>1, <1>2, <2>1 DEF Clear
  <2>2. CASE i \notin 1..Len(q) BY <1>1, <1>2, <2>2 DEF Clear
  <2> QED BY <2>1, <2>2
<1>3. ASSUME Clear(q \o ms, all) PROVE Clear(q, all) /\ Clear(ms, all)
  <2>1. ASSUME NEW i \in 1..Len(q) PROVE q[i] \notin all BY <1>1, <1>3 DEF Clear
  <2>2. ASSUME NEW i \in 1..Len(ms) PROVE ms[i] \notin all BY <1>1, <1>3 DEF Clear
  <2> QED BY <1>1, <2>1, <2>2 DEF Clear
<1> QED BY <1>2, <1>3

LEMMA ClearTail ==
    ASSUME NEW S, NEW q \in Seq(S), q # <<>>, NEW all
    PROVE  Clear(q, all) <=> (Head(q) \notin all /\ Clear(Tail(q), all))
<1>1. /\ Head(q) = q[1] /\ Len(q) \in Nat \ {0}
      /\ DOMAIN q = 1..Len(q) /\ DOMAIN Tail(q) = 1..(Len(q) - 1)
      /\ \A i \in 1..(Len(q) - 1) : Tail(q)[i] = q[i + 1]
  BY TailFacts
<1>2. ASSUME Clear(q, all) PROVE Head(q) \notin all /\ Clear(Tail(q), all) BY <1>1, <1>2 DEF Clear
<1>3. ASSUME Head(q) \notin all, Clear(Tail(q), all) PROVE Clear(q, all)
  <2> SUFFICES ASSUME NEW i \in 1..Len(q) PROVE q[i] \notin all BY <1>1 DEF Clear
  <2>1. CASE i = 1 BY <1>1, <1>3, <2>1
  <2>2. CASE i # 1
    <3>1. i - 1 \in 1..(Len(q) - 1) /\ (i - 1) + 1 = i BY <1>1, <2>2
    <3>2. Tail(q)[i - 1] = q[i] BY <1>1, <3>1
    <3> QED BY <1>1, <1>3, <3>1, <3>2 DEF Clear
  <2> QED BY <2>1, <2>2
<1> QED BY <1>2, <1>3

LEMMA HoldsClear ==
    ASSUME NEW q, NEW m
    PROVE  Holds(q, m) <=> ~Clear(q, {m})
BY DEF Holds, Clear

LEMMA ClearTypes ==
    ASSUME NEW kinds, NEW q \in Seq(OfType(kinds)), NEW all, \A m \in all : m.type \notin kinds
    PROVE  Clear(q, all)
<1> QED BY DEF OfType, Clear

LEMMA ClearOne ==
    ASSUME NEW m, NEW all, m \notin all
    PROVE  Clear(<<m>>, all)
BY DEF Clear

LEMMA EndsOne ==
    ASSUME NEW m, NEW all, NEW right, m \in right
    PROVE  EndsIn(<<m>>, all, right)
<1> QED BY DEF EndsIn

\* A queue that is added to: what the first part carries, then the second.
LEMMA CarriedConcat ==
    ASSUME NEW S, NEW q \in Seq(S), NEW ms \in Seq(S), NEW all, NEW was, NEW right,
           NEW wasSo \in BOOLEAN, NEW stays \in BOOLEAN, NEW so \in BOOLEAN,
           Carried(q, all, was, wasSo), Carried(ms, all, right, stays),
           stays => was \subseteq right, stays /\ wasSo => so
    PROVE  Carried(q \o ms, all, right, so)
<1>1. /\ DOMAIN (q \o ms) = 1..(Len(q) + Len(ms)) /\ DOMAIN q = 1..Len(q) /\ DOMAIN ms = 1..Len(ms)
      /\ Len(q) \in Nat /\ Len(ms) \in Nat
      /\ \A i \in 1..Len(q) : (q \o ms)[i] = q[i]
      /\ \A i \in 1..Len(ms) : (q \o ms)[Len(q) + i] = ms[i]
  BY ConcatFacts
<1>2. CASE EndsIn(ms, all, right)
  <2>1. PICK i \in 1..Len(ms) : ms[i] \in right /\ \A j \in 1..Len(ms) : j > i => ms[j] \notin all
    BY <1>1, <1>2 DEF EndsIn
  <2>2. Len(q) + i \in 1..(Len(q) + Len(ms)) /\ (q \o ms)[Len(q) + i] \in right BY <1>1, <2>1
  <2>3. ASSUME NEW j \in 1..(Len(q) + Len(ms)), j > Len(q) + i PROVE (q \o ms)[j] \notin all
    BY <2>1, <2>3, <1>1
  <2>4. EndsIn(q \o ms, all, right) BY <1>1, <2>2, <2>3 DEF EndsIn
  <2> QED BY <2>4 DEF Carried
<1>3. CASE Clear(ms, all) /\ stays /\ EndsIn(q, all, was)
  <2>1. PICK i \in 1..Len(q) : q[i] \in was /\ \A j \in 1..Len(q) : j > i => q[j] \notin all
    BY <1>1, <1>3 DEF EndsIn
  <2>2. ASSUME NEW j \in 1..(Len(q) + Len(ms)), j > i PROVE (q \o ms)[j] \notin all
    <3>1. CASE j \in 1..Len(q) BY <1>1, <2>1, <2>2, <3>1
    <3>2. CASE j \notin 1..Len(q) BY <1>1, <1>3, <3>2 DEF Clear
    <3> QED BY <3>1, <3>2
  <2> QED BY <1>1, <1>3, <2>1, <2>2 DEF Carried, EndsIn
<1>4. CASE Clear(ms, all) /\ stays /\ Clear(q, all) /\ wasSo BY <1>4, ClearConcat DEF Carried
<1> QED BY <1>2, <1>3, <1>4 DEF Carried

LEMMA EndsConcat ==
    ASSUME NEW S, NEW q \in Seq(S), NEW ms \in Seq(S), NEW all, NEW right, EndsIn(ms, all, right)
    PROVE  EndsIn(q \o ms, all, right)
<1>1. /\ DOMAIN (q \o ms) = 1..(Len(q) + Len(ms)) /\ DOMAIN ms = 1..Len(ms)
      /\ Len(q) \in Nat /\ Len(ms) \in Nat
      /\ \A i \in 1..Len(ms) : (q \o ms)[Len(q) + i] = ms[i]
  BY ConcatFacts
<1>2. PICK i \in 1..Len(ms) : ms[i] \in right /\ \A j \in 1..Len(ms) : j > i => ms[j] \notin all
  BY <1>1 DEF EndsIn
<1>3. Len(q) + i \in 1..(Len(q) + Len(ms)) /\ (q \o ms)[Len(q) + i] \in right BY <1>1, <1>2
<1>4. ASSUME NEW j \in 1..(Len(q) + Len(ms)), j > Len(q) + i PROVE (q \o ms)[j] \notin all
  BY <1>2, <1>4, <1>1
<1> QED BY <1>1, <1>3, <1>4 DEF EndsIn

\* A queue whose first message is taken.
LEMMA CarriedTail ==
    ASSUME NEW S, NEW q \in Seq(S), q # <<>>, NEW all, NEW right,
           NEW wasSo \in BOOLEAN, NEW so \in BOOLEAN, Carried(q, all, right, wasSo),
           Head(q) \in right => so, Head(q) \notin all /\ wasSo => so
    PROVE  Carried(Tail(q), all, right, so)
<1>1. /\ Head(q) = q[1] /\ Len(q) \in Nat \ {0}
      /\ DOMAIN q = 1..Len(q) /\ DOMAIN Tail(q) = 1..(Len(q) - 1)
      /\ \A i \in 1..(Len(q) - 1) : Tail(q)[i] = q[i + 1]
  BY TailFacts
<1>2. CASE EndsIn(q, all, right)
  <2>1. PICK i \in 1..Len(q) : q[i] \in right /\ \A j \in 1..Len(q) : j > i => q[j] \notin all
    BY <1>1, <1>2 DEF EndsIn
  <2>2. \A j \in 1..(Len(q) - 1) : j + 1 \in 1..Len(q) BY <1>1
  <2>3. CASE i = 1
    <3>1. Clear(Tail(q), all)
      <4> SUFFICES ASSUME NEW j \in 1..(Len(q) - 1) PROVE Tail(q)[j] \notin all BY <1>1 DEF Clear
      <4> QED BY <1>1, <2>1, <2>2, <2>3
    <3> QED BY <1>1, <2>1, <2>3, <3>1 DEF Carried
  <2>4. CASE i # 1
    <3>1. i - 1 \in 1..(Len(q) - 1) /\ (i - 1) + 1 = i BY <1>1, <2>4
    <3>2. Tail(q)[i - 1] \in right BY <1>1, <2>1, <3>1
    <3>3. ASSUME NEW j \in 1..(Len(q) - 1), j > i - 1 PROVE Tail(q)[j] \notin all
      BY <1>1, <2>1, <2>2, <3>3
    <3>4. EndsIn(Tail(q), all, right) BY <1>1, <3>1, <3>2, <3>3 DEF EndsIn
    <3> QED BY <3>4 DEF Carried
  <2> QED BY <2>3, <2>4
<1>3. CASE Clear(q, all) /\ wasSo BY <1>3, ClearTail DEF Carried
<1> QED BY <1>2, <1>3 DEF Carried

LEMMA CarriedWider ==
    ASSUME NEW q, NEW all, NEW right, NEW wasSo \in BOOLEAN, NEW so \in BOOLEAN, wasSo => so,
           Carried(q, all, right, wasSo)
    PROVE  Carried(q, all, right, so)
BY DEF Carried

LEMMA ClearAppend ==
    ASSUME NEW S, NEW q \in Seq(S), NEW m \in S, NEW all
    PROVE  Clear(Append(q, m), all) <=> (Clear(q, all) /\ m \notin all)
<1>1. /\ Len(q) \in Nat /\ DOMAIN q = 1..Len(q) /\ DOMAIN Append(q, m) = 1..(Len(q) + 1)
      /\ \A i \in 1..Len(q) : Append(q, m)[i] = q[i]
      /\ Append(q, m)[Len(q) + 1] = m
  BY AppendedFacts
<1>2. ASSUME Clear(q, all), m \notin all PROVE Clear(Append(q, m), all) BY <1>1, <1>2 DEF Clear
<1>3. ASSUME Clear(Append(q, m), all) PROVE Clear(q, all) /\ m \notin all BY <1>1, <1>3 DEF Clear
<1> QED BY <1>2, <1>3

--------------------
(* The documents and what the host has heard of them *)

\* The host has heard of the document there is.
Seen == page # None /\ page.id \in host.seen

Readies == {m \in WebviewMessages : m.type = "ready"}
ReadyOf(d) == [type |-> "ready", doc |-> d]

\* Documents report in their order, each once.
Ordered(q, n) ==
    \A i \in DOMAIN q :
        q[i] \in Readies =>
            /\ q[i].doc <= n
            /\ \A j \in DOMAIN q : j > i /\ q[j] \in Readies => q[i].doc < q[j].doc

\* The document reports once when it runs, and the host knows one that was
\* replaced from the present one.
DocSound ==
    /\ ~host.ready => host.out = <<>>
    /\ page # None => page.id = documents
    /\ host.seen \subseteq 1..documents
    /\ Ordered(toHost, documents)
    /\ Seen => host.doc = page.id /\ Clear(toHost, Readies)
    /\ page # None /\ ~page.loaded => ~Seen /\ Clear(toHost, {ReadyOf(page.id)})
    /\ page # None /\ page.loaded /\ ~Seen => ~Clear(toHost, {ReadyOf(page.id)})

LEMMA ReadiesAre ==
    ASSUME NEW m \in Readies
    PROVE  m.doc \in Documents /\ m.doc \in Nat /\ m = ReadyOf(m.doc)
<1> QED BY DEF ReadyOf, Documents, WebviewMessages, Readies

LEMMA OrderedTail ==
    ASSUME NEW q \in Seq(WebviewMessages), q # <<>>, NEW n, Ordered(q, n)
    PROVE  /\ Ordered(Tail(q), n)
           /\ Head(q) \in Readies =>
                Head(q).doc <= n /\ \A j \in DOMAIN Tail(q) : Tail(q)[j] \in Readies => Head(q).doc < Tail(q)[j].doc
<1> QED BY TailFacts DEF Ordered

LEMMA OrderedAppend ==
    ASSUME NEW q \in Seq(WebviewMessages), NEW m \in WebviewMessages, NEW n \in Nat, Ordered(q, n),
           m \in Readies => m.doc = n /\ Clear(q, {m})
    PROVE  Ordered(Append(q, m), n)
<1>1. /\ Len(q) \in Nat /\ DOMAIN q = 1..Len(q) /\ DOMAIN Append(q, m) = 1..(Len(q) + 1)
      /\ \A i \in 1..Len(q) : Append(q, m)[i] = q[i]
      /\ Append(q, m)[Len(q) + 1] = m
  BY AppendedFacts
<1>2. \A i \in 1..(Len(q) + 1) : i \in 1..Len(q) \/ i = Len(q) + 1 BY <1>1
<1>3. ASSUME NEW i \in 1..Len(q), q[i] \in Readies, m \in Readies PROVE q[i].doc < m.doc
  BY <1>1, <1>3, ReadiesAre DEF Ordered, Clear
<1>4. ASSUME NEW i \in 1..(Len(q) + 1), Append(q, m)[i] \in Readies PROVE Append(q, m)[i].doc <= n
  <2>1. CASE i \in 1..Len(q) BY <1>1, <1>4, <2>1 DEF Ordered
  <2>2. CASE i = Len(q) + 1 BY <1>1, <1>4, <2>2
  <2> QED BY <1>2, <2>1, <2>2
<1>5. ASSUME NEW i \in 1..(Len(q) + 1), NEW j \in 1..(Len(q) + 1), j > i,
             Append(q, m)[i] \in Readies, Append(q, m)[j] \in Readies
      PROVE  Append(q, m)[i].doc < Append(q, m)[j].doc
  <2>1. i \in 1..Len(q) BY <1>1, <1>5
  <2>2. CASE j \in 1..Len(q) BY <1>1, <1>5, <2>1, <2>2 DEF Ordered
  <2>3. CASE j = Len(q) + 1 BY <1>1, <1>3, <1>5, <2>1, <2>3
  <2> QED BY <1>2, <2>2, <2>3
<1> QED BY <1>1, <1>4, <1>5 DEF Ordered

\* What the host hears leaves no report of a document behind or adds one.
OthersHeard ==
    \/ toHost' = toHost
    \/ toHost # <<>> /\ Head(toHost) \notin Readies /\ toHost' = Tail(toHost)
    \/ \E m \in WebviewMessages \ Readies : toHost' = Append(toHost, m)

LEMMA OthersHeardIs ==
    ASSUME toHost \in Seq(WebviewMessages), OthersHeard, NEW n \in Nat, Ordered(toHost, n), NEW d
    PROVE  /\ Ordered(toHost', n)
           /\ (Clear(toHost', Readies) <=> Clear(toHost, Readies))
           /\ (Clear(toHost', {ReadyOf(d)}) <=> Clear(toHost, {ReadyOf(d)})) \/ ReadyOf(d) \notin Readies
<1>1. CASE toHost' = toHost BY <1>1
<1>2. CASE toHost # <<>> /\ Head(toHost) \notin Readies /\ toHost' = Tail(toHost)
  <2>1. PICK q, p : q = toHost /\ p = Tail(toHost) OBVIOUS
  <2> QED BY <2>1, OrderedTail, <1>2, ClearTail
<1>3. CASE \E m \in WebviewMessages \ Readies : toHost' = Append(toHost, m)
  <2>1. PICK m \in WebviewMessages \ Readies : toHost' = Append(toHost, m) BY <1>3
  <2>2. PICK q, p : q = toHost /\ p = Append(toHost, m) OBVIOUS
  <2>3. Ordered(p, n) /\ (Clear(q, Readies) <=> Clear(p, Readies))
    BY <2>2, OrderedAppend, ClearAppend
  <2> QED BY <2>2, <2>3, ClearAppend, <2>1
<1> QED BY <1>1, <1>2, <1>3 DEF OthersHeard

\* Steps that leave the documents alone.
LEMMA DocKeeps ==
    ASSUME ViewSound, DocSound, OthersHeard,
           host'.ready = host.ready, host'.doc = host.doc, host'.seen = host.seen,
           ~host.ready => host'.out = <<>>,
           page' = page \/ (page # None /\ page' # None /\ page'.id = page.id /\ page'.loaded = page.loaded),
           documents' = documents
    PROVE  DocSound'
<1>1. toHost \in Seq(WebviewMessages) /\ documents \in Nat BY DEF ViewSound
<1>2. /\ Ordered(toHost', documents)
      /\ (Clear(toHost', Readies) <=> Clear(toHost, Readies))
  BY <1>1, OthersHeardIs DEF DocSound
<1>3. page # None => (Clear(toHost', {ReadyOf(page.id)}) <=> Clear(toHost, {ReadyOf(page.id)}))
  <2> SUFFICES ASSUME page # None
               PROVE  Clear(toHost', {ReadyOf(page.id)}) <=> Clear(toHost, {ReadyOf(page.id)})
    OBVIOUS
  <2>1. PICK d : d = page.id OBVIOUS
  <2>2. ReadyOf(d) \in Readies BY <2>1, PageIs DEF ReadyOf, Readies, WebviewMessages, ViewSound
  <2> QED BY <2>1, <1>1, <2>2, OthersHeardIs DEF DocSound
<1>4. (page' # None <=> page # None) /\ (page # None => page'.id = page.id /\ page'.loaded = page.loaded)
  OBVIOUS
<1>5. Seen' <=> Seen BY <1>4 DEF Seen
<1> QED BY <1>2, <1>3, <1>4, <1>5 DEF DocSound

LEMMA Unready ==
    ASSUME NEW h \in SoundHosts, NEW n, NEW kinds, Extends(h, n, kinds), ~h.ready
    PROVE  n.out = h.out /\ ~n.ready
<1> QED BY OutIs DEF Extends, SoundHosts

LEMMA ListsMoveOut ==
    ASSUME TypesSound, NEW next, NEW selected, ListsMove(next, selected), ~host.ready
    PROVE  host'.out = host.out
<1>1. PICK t, l, d : t = Told(host, next) /\ l = Relisted(host, next) /\ d = Reselected(host, next, selected)
  OBVIOUS
<1> QED BY ListsMoveIs, <1>1, SessionsChangedIs, HostIs, Unready DEF LiveSound

LEMMA ListsMoveDoc ==
    ASSUME TypesSound, DocSound, NEW next, NEW selected, ListsMove(next, selected), OthersHeard,
           UNCHANGED <<page, documents>>
    PROVE  DocSound'
<1> QED BY ListsMoveIs, ListsMoveOut, DocKeeps DEF TypesSound, DocSound

LEMMA TakesIs ==
    ASSUME NEW types, Takes(types), "ready" \notin types
    PROVE  OthersHeard
BY DEF Takes, OthersHeard, Readies

LEMMA AsideDoc ==
    ASSUME TypesSound, DocSound, AsideStep
    PROVE  DocSound'
<1>1. OthersHeard BY TakesIs DEF AsideStep, OthersHeard
<1> QED BY <1>1, HostIs, Unready, DocKeeps DEF TypesSound, AsideStep, Extends, DocSound

LEMMA SeenIs ==
    ASSUME TypesSound, DocSound, Seen
    PROVE  host.ready /\ host.open /\ host.doc = page.id /\ page.loaded /\ page \in Pages /\ page # None
BY HostIs DEF DocSound, Seen, SoundHosts, TypesSound, ViewSound

LEMMA ReadyDoc ==
    ASSUME TypesSound, DocSound, Ready
    PROVE  DocSound'
<1>1. PICK q, p, d : q = toHost /\ p = Tail(toHost) /\ d = Head(toHost).doc OBVIOUS
<1>2. /\ q # <<>> /\ Head(q).type = "ready" /\ d \in Documents /\ d = Head(q).doc /\ p = Tail(q)
      /\ toHost' = p /\ page # None /\ host.open
      /\ host' = Hydrated(host, d) /\ (d \in host.seen => host' = host)
      /\ UNCHANGED <<page, documents>>
  BY <1>1, ReadyIs
<1>3. q \in Seq(WebviewMessages) /\ Ordered(q, documents) /\ documents \in Nat /\ d \in Nat
  BY <1>1, <1>2 DEF DocSound, TypesSound, ViewSound, Documents
<1>4. Head(q) \in Readies /\ Head(q) = ReadyOf(d) BY <1>2, <1>3, TailFacts, ReadiesAre DEF Readies
<1>5. /\ Ordered(p, documents) /\ d <= documents
      /\ \A j \in DOMAIN p : p[j] \in Readies => d < p[j].doc
  BY <1>2, <1>3, <1>4, OrderedTail
<1>6. ~Seen BY <1>1, <1>2, <1>3, <1>4, ClearTail DEF DocSound
<1>7. host'.seen = host.seen \cup {d} /\ (d \notin host.seen => host'.doc = d /\ host'.ready)
  <2>1. CASE d \in host.seen BY <1>2, <2>1
  <2>2. CASE d \notin host.seen
    <3>1. PICK n, r : n = Docked(host, d) /\ r = Posted(n, <<Hydration(host)>> \o Replay) OBVIOUS
    <3>2. /\ n.ready /\ n.doc = d /\ n.seen = host.seen \cup {d}
          /\ Extends(n, r, {"hydrate", "data"}) /\ Extends(r, host', {"invalidated"})
      BY <1>2, <2>2, <3>1, HydratedIs, HostIs
    <3> QED BY <3>2 DEF Extends
  <2> QED BY <2>1, <2>2
<1>8. page.id = documents BY <1>2 DEF DocSound
<1>9. host'.ready BY <1>2, <1>7, HostIs DEF SoundHosts
<1>10. host'.seen \subseteq 1..documents BY <1>2, <1>3, <1>5, <1>7 DEF DocSound, Documents
<1>11. Clear(q, {ReadyOf(page.id)}) <=> (d # page.id /\ Clear(p, {ReadyOf(page.id)}))
  <2>1. ReadyOf(d) = ReadyOf(page.id) <=> d = page.id BY DEF ReadyOf
  <2> QED BY <1>2, <1>3, <1>4, <2>1, ClearTail
<1>12. CASE d = page.id
  <2>1. Clear(p, Readies)
    <3> SUFFICES ASSUME NEW j \in DOMAIN p, p[j] \in Readies PROVE FALSE BY DEF Clear
    <3> QED BY <1>3, <1>8, <1>12, <1>5, ReadiesAre DEF Ordered
  <2>2. Seen' /\ host'.doc = page'.id BY <1>2, <1>7, <1>12, <1>6 DEF Seen
  <2> QED BY <1>2, <1>5, <1>8, <1>9, <1>10, <2>1, <1>1, <1>11, <1>12, <2>2 DEF DocSound
<1>13. CASE d # page.id
  BY <1>1, <1>2, <1>5, <1>6, <1>8, <1>9, <1>10, <1>7, <1>11, <1>13 DEF DocSound, Seen
<1> QED BY <1>12, <1>13

LEMMA NewDocumentDoc ==
    ASSUME TypesSound, DocSound, ResolveView \/ DisposeView \/ ReloadDocument
    PROVE  DocSound'
<1>1. documents \in Nat BY DEF TypesSound, ViewSound
<1>2. ASSUME ResolveView PROVE DocSound'
  BY <1>2, ResolveViewIs, DocumentIs DEF DocSound, Seen, Clear, Ordered
<1>3. ASSUME DisposeView PROVE DocSound' BY <1>3, DisposeViewIs DEF DocSound, Seen, Ordered
<1>4. ASSUME ReloadDocument PROVE DocSound'
  <2>1. PICK d : d = documents + 1 OBVIOUS
  <2>2. /\ documents' = d /\ d \in Documents
        /\ page' = Document(d) /\ toHost' = toHost /\ host'.out = <<>> /\ host'.seen = host.seen
    BY <1>4, <2>1, ReloadDocumentIs
  <2>3. page' # None /\ page'.id = d /\ ~page'.loaded BY <2>2, DocumentIs
  <2>4. host.seen \subseteq 1..d /\ d \notin host.seen
    <3> SUFFICES ASSUME NEW x \in host.seen PROVE x \in 1..d /\ x # d OBVIOUS
    <3> QED BY <1>1, <2>1 DEF DocSound
  <2>5. \A i \in DOMAIN toHost : toHost[i] \in Readies => toHost[i].doc <= d /\ toHost[i].doc # d
    <3> SUFFICES ASSUME NEW i \in DOMAIN toHost, toHost[i] \in Readies
                 PROVE  toHost[i].doc <= d /\ toHost[i].doc # d
      OBVIOUS
    <3> QED BY <1>1, <2>1, ReadiesAre DEF DocSound, Ordered
  <2>6. Clear(toHost, {ReadyOf(d)}) BY <2>5, <2>2 DEF Clear, ReadyOf, Readies, WebviewMessages
  <2> QED BY <2>2, <2>3, <2>4, <2>5, <2>6 DEF DocSound, Ordered, Seen
<1> QED BY <1>2, <1>3, <1>4

LEMMA LoadsDoc ==
    ASSUME TypesSound, DocSound, DocumentLoads
    PROVE  DocSound'
<1>1. PICK m, q, p : m = [type |-> "ready", doc |-> page.id] /\ q = toHost /\ p = Append(toHost, m)
  OBVIOUS
<1>2. /\ page # None /\ ~page.loaded /\ page' \in Pages /\ page'.loaded /\ page'.id = page.id
      /\ m \in WebviewMessages /\ toHost' = p
      /\ host'.ready = host.ready /\ host'.doc = host.doc /\ host'.seen = host.seen
      /\ host'.out = host.out \/ host'.out = <<>>
      /\ documents' = documents
  BY <1>1, DocumentLoadsIs
<1>3. q \in Seq(WebviewMessages) /\ documents \in Nat /\ Ordered(q, documents) /\ page.id = documents
  BY <1>1, <1>2 DEF DocSound, TypesSound, ViewSound
<1>4. m = ReadyOf(page.id) /\ m \in Readies /\ m.doc = documents
  BY <1>1, <1>2, <1>3 DEF ReadyOf, Readies
<1>5. ~Seen /\ Clear(q, {m}) BY <1>1, <1>2, <1>4 DEF DocSound
<1>6. page' # None BY <1>2, PageIs
<1>7. ~Seen' BY <1>2, <1>5 DEF Seen
<1> QED BY <1>2, <1>6, <1>7, <1>3, <1>4, <1>1, <1>5, OrderedAppend, ClearAppend DEF DocSound

LEMMA OwnStepsDoc ==
    ASSUME TypesSound, DocSound,
           DocumentReceives \/ \E s \in Session : ClickTab(s) \/ ClickClose(s) \/ ClickRename(s)
    PROVE  DocSound'
<1>1. CASE DocumentReceives
  <2>1. /\ Applies(Received.type, page') /\ Shows(page', Received)
        /\ toHost' = toHost \/ \E q \in Requests : toHost' = Append(toHost, RequestOf(q))
    BY <1>1, ReceivesIs
  <2>2. /\ page \in Pages /\ page # None /\ page.loaded /\ host.out # <<>>
        /\ host'.ready = host.ready /\ host'.doc = host.doc /\ host'.seen = host.seen
        /\ documents' = documents
    BY <2>1, AppliesIs DEF TypesSound
  <2>3. OthersHeard
    <3>1. \A q \in Requests : RequestOf(q) \in WebviewMessages \ Readies
      BY <2>2, RequestSent DEF RequestOf, Readies
    <3> QED BY <2>1, <3>1 DEF OthersHeard
  <2> QED BY <2>2, <2>1, PageIs, <2>3, DocKeeps DEF TypesSound, Shows, DocSound
<1>2. CASE \E s \in Session : ClickTab(s) \/ ClickClose(s) \/ ClickRename(s)
  <2>1. PICK s \in Session : ClickTab(s) \/ ClickClose(s) \/ ClickRename(s) BY <1>2
  <2>2. PICK type \in {"select", "close", "rename"} :
          /\ [type |-> type, id |-> s] \in WebviewMessages
          /\ toHost' = Append(toHost, [type |-> type, id |-> s])
    BY <2>1, ClickIs
  <2>3. /\ page # None /\ page.loaded /\ page' \in Pages /\ page'.id = page.id /\ page'.loaded
        /\ host' = host /\ documents' = documents
    BY <2>1, ClickIs
  <2>4. page'.loaded = page.loaded BY <2>3 DEF TypesSound, ViewSound, Pages
  <2> QED BY <2>3, PageIs, <2>2, <2>4, DocKeeps DEF TypesSound, DocSound, OthersHeard, Readies
<1> QED BY <1>1, <1>2

--------------------
(* The steps by what they do to the list of sessions and to the document *)

\* A session closes or is renamed.
Rearranged ==
    /\ \E next, x : /\ ListsMove(next, active) /\ Arrival(next, x)
                    /\ Ids(next) = Ids(live) /\ Uuids(next) = Uuids(live)
    /\ SameWorld
    /\ toHost' = toHost \/ Takes({"close"})

\* A click on a tab arrives.
Reselects ==
    LET s == Head(toHost).id
    IN  /\ Takes({"select"}) /\ SameWorld /\ s \in Session
        /\ \/ s \in Ids(live) /\ s # active /\ ListsMove(live, s) /\ NoChange(live)
           \/ ~(s \in Ids(live) /\ s # active) /\ UNCHANGED <<live, active, host>>

OnLists ==
    \/ \E s \in Session, u \in Uuid : Launch(s, u)
    \/ \E s \in Session : Exit(s) \/ Output(s)
    \/ Rearranged \/ Reselects

OnDocument ==
    \/ ResolveView \/ DisposeView \/ ReloadDocument
    \/ DocumentLoads \/ DocumentReceives \/ Ready
    \/ \E s \in Session : ClickTab(s) \/ ClickClose(s) \/ ClickRename(s)

\* Hosts that differ only in what no document is told.
Alike(h, n) ==
    /\ n.open = h.open /\ n.ready = h.ready /\ n.doc = h.doc /\ n.seen = h.seen
    /\ n.resume = h.resume /\ n.revision = h.revision /\ n.out = h.out

\* What the host becomes in the other steps.
AsideForm ==
    \/ host' = host \/ host' = Invalidated(host)
    \/ \E h \in SoundHosts, cand \in SUBSET Uuid : Alike(host, h) /\ host' = Refreshed(h, cand)
    \/ host.scan # None /\ host' = ScanStep(host)
    \/ \E request \in Requests : host' = RecoveryPage(host, request)

LEMMA RefreshForm ==
    ASSUME TypesSound, NEW saved \in SUBSET Uuid, NEW ss, host' = Refreshed(host, Candidates(saved, ss))
    PROVE  AsideForm
<1> QED BY HostIs, CandidatesAre DEF AsideForm, Alike

LEMMA StepKinds ==
    ASSUME TypesSound, Next
    PROVE  (AsideStep /\ AsideForm) \/ OnLists \/ OnDocument
<1>1. CASE World
  <2>1. ASSUME NEW u \in Uuid, Recorded(u) \/ ForgetMetadata(u) PROVE AsideStep /\ AsideForm
    BY <2>1, MetadataSteps, RefreshForm
  <2>2. ASSUME NEW u \in Uuid, Flush(u) \/ ForgetDraft(u) PROVE AsideStep /\ AsideForm
    BY <2>2, FlushStep, ForgetDraftStep DEF AsideForm
  <2>3. ASSUME NEW u \in Uuid, NEW flag \in BOOLEAN, DraftSaved(u, flag) PROVE AsideStep /\ AsideForm
    BY <2>3, DraftSavedStep DEF DraftSaved, AsideForm
  <2>4. ASSUME NEW u \in Uuid, NEW flag \in BOOLEAN, ForgetSettles(u, flag) PROVE AsideStep /\ AsideForm
    BY <2>4, ForgetSettlesStep DEF ForgetSettles, AsideForm
  <2> QED BY <1>1, <2>1, <2>2, <2>3, <2>4 DEF World, OnLists
<1>2. CASE View
  <2>1. CASE ShowView BY <2>1, HostIs, ShowViewStep, RefreshForm DEF ShowView
  <2> QED BY <1>2, <2>1 DEF View, OnDocument
<1>3. CASE Provider
  <2>1. CASE ScanChecks BY <2>1, ScanChecksStep DEF ScanChecks, AsideForm
  <2>2. CASE RetryFires
    <3>1. PICK h, cand : h = [host EXCEPT !.retry = FALSE] /\ cand = Candidates(known, live) OBVIOUS
    <3>2. host' = Refreshed(h, cand) BY <2>2, <3>1 DEF RetryFires
    <3>3. h \in SoundHosts /\ Alike(host, h) BY <2>2, <3>1, RetryFiresStep DEF Alike
    <3>4. cand \in SUBSET Uuid BY <3>1, HostIs, CandidatesAre
    <3> QED BY <2>2, <3>2, <3>3, <3>4, RetryFiresStep DEF AsideForm
  <2>3. CASE RecoveryRequested BY <2>3, RecoveryRequestedStep, RequestedIs DEF AsideForm
  <2>4. CASE RenameRequested BY <2>4, RenameRequestedStep DEF AsideForm
  <2>5. CASE Ready BY <2>5 DEF OnDocument
  <2>6. CASE SelectRequested BY <2>6, SelectIs DEF OnLists, Reselects, Arrives, Takes
  <2>7. ASSUME UNCHANGED <<live, active, host>>, SameWorld, toHost' = toHost \/ Takes({"close"})
        PROVE  AsideStep /\ AsideForm
    BY <2>7, HostIs DEF AsideStep, SameWorld, AsideForm, Takes
  <2>8. CASE CloseRequested BY <2>7, <2>8, CloseIs DEF OnLists, Rearranged, Arrives, Takes
  <2>9. CASE RenameAnswered BY <2>7, <2>9, AnswerRenameIs DEF OnLists, Rearranged
  <2> QED BY <1>3, <2>1, <2>2, <2>3, <2>4, <2>5, <2>6, <2>8, <2>9 DEF Provider
<1> QED BY <1>1, <1>2, <1>3 DEF Next

LEMMA NextKeepsDoc ==
    ASSUME TypesSound, DocSound, [Next]_vars
    PROVE  DocSound'
<1>1. CASE AsideStep BY <1>1, AsideDoc
<1>2. ASSUME NEW next, NEW selected, ListsMove(next, selected), UNCHANGED <<page, documents>>, OthersHeard
      PROVE  DocSound'
  BY <1>2, ListsMoveDoc
<1>3. ASSUME toHost' = toHost PROVE OthersHeard BY <1>3 DEF OthersHeard
<1>4. ASSUME NEW s \in Session, NEW u \in Uuid, Launch(s, u) PROVE DocSound'
  <2>1. UNCHANGED <<page, documents>> /\ toHost' = toHost BY <1>4 DEF Launch
  <2> QED BY <1>2, <1>3, <1>4, <2>1, LaunchIs
<1>5. ASSUME NEW s \in Session, Exit(s) PROVE DocSound'
  <2>1. UNCHANGED <<page, documents>> /\ toHost' = toHost BY <1>5 DEF Exit
  <2> QED BY <1>2, <1>3, <1>5, <2>1, ExitIs
<1>6. ASSUME NEW s \in Session, Output(s) PROVE DocSound'
  <2>1. UNCHANGED <<page, documents, toHost>> /\ Extends(host, host', {"data"}) BY <1>6, OutputIs
  <2> QED BY <1>3, <2>1, HostIs, Unready, DocKeeps DEF TypesSound, Extends, DocSound
<1>7. CASE Rearranged BY <1>2, <1>7, <1>3, TakesIs DEF Rearranged, SameWorld
<1>8. CASE Reselects
  <2>1. OthersHeard BY <1>8, TakesIs DEF Reselects
  <2>2. UNCHANGED host => DocSound'
    <3> SUFFICES ASSUME UNCHANGED host PROVE DocSound' OBVIOUS
    <3> QED BY <1>8, <2>1, DocKeeps DEF Reselects, SameWorld, TypesSound, DocSound
  <2> QED BY <1>2, <1>8, <2>1, <2>2 DEF Reselects, SameWorld
<1>9. CASE OnDocument BY <1>9, ReadyDoc, NewDocumentDoc, LoadsDoc, OwnStepsDoc DEF OnDocument
<1>10. CASE UNCHANGED vars BY <1>10 DEF vars, DocSound, Seen
<1> QED BY <1>1, <1>4, <1>5, <1>6, <1>7, <1>8, <1>9, <1>10, StepKinds DEF OnLists

LEMMA InitDoc ==
    ASSUME Init
    PROVE  DocSound
<1> QED BY DEF DocSound, Seen, Ordered, Init

--------------------
(* What a change of the host tells the document *)

Tells(h, n, all, right, stays) ==
    h.ready => \E ms \in Seq(HostMessages) : n.out = h.out \o ms /\ Carried(ms, all, right, stays)

\* What was right still is, and what was so without, when nothing is told.
Follows(was, wasSo, stays, right, so) ==
    /\ wasSo \in BOOLEAN /\ stays \in BOOLEAN /\ so \in BOOLEAN
    /\ stays => was \subseteq right /\ (wasSo => so)

LEMMA TellsTwice ==
    ASSUME NEW h \in Hosts, NEW n, NEW o, n.ready = h.ready, NEW all, NEW was, NEW right,
           NEW wasSo, NEW stays, NEW so, Follows(was, wasSo, stays, right, so),
           Tells(h, n, all, was, wasSo), Tells(n, o, all, right, stays)
    PROVE  Tells(h, o, all, right, so)
<1> SUFFICES ASSUME h.ready
             PROVE  \E ms \in Seq(HostMessages) : o.out = h.out \o ms /\ Carried(ms, all, right, so)
  BY DEF Tells
<1>1. PICK ms \in Seq(HostMessages) : n.out = h.out \o ms /\ Carried(ms, all, was, wasSo)
  BY DEF Tells
<1>2. PICK ns \in Seq(HostMessages) : o.out = n.out \o ns /\ Carried(ns, all, right, stays)
  BY DEF Tells
<1>3. o.out = h.out \o (ms \o ns)
  <2>1. (h.out \o ms) \o ns = h.out \o (ms \o ns)
    <3>1. PICK q : q = h.out OBVIOUS
    <3>2. q \in Seq(HostMessages) /\ ms \in Seq(HostMessages) /\ ns \in Seq(HostMessages)
      BY OutIs, <3>1
    <3>3. (q \o ms) \o ns = q \o (ms \o ns) BY ONLY <3>2, ConcatTwice
    <3> QED BY <3>1, <3>3
  <2> QED BY <1>1, <1>2, <2>1
<1>4. ms \o ns \in Seq(HostMessages) BY ConcatFacts
<1>5. Carried(ms \o ns, all, right, so) BY <1>1, <1>2, CarriedConcat DEF Follows
<1> QED BY <1>3, <1>4, <1>5

\* Messages of other kinds tell nothing.
LEMMA TellsNothing ==
    ASSUME NEW h, NEW n, NEW kinds, NEW all, \A m \in all : m.type \notin kinds, Extends(h, n, kinds),
           NEW right, NEW stays \in BOOLEAN, stays
    PROVE  Tells(h, n, all, right, stays)
<1>1. PICK ms \in Seq(OfType(kinds)) : n.out = h.out \o ms BY DEF Extends
<1>2. Clear(ms, all) BY ClearTypes
<1> QED BY <1>1, <1>2, SubSequence DEF Tells, Carried, OfType

\* The message that is told.
LEMMA TellsOne ==
    ASSUME NEW h, NEW n, NEW m \in HostMessages, h.ready => n.out = h.out \o <<m>>,
           NEW all, NEW right, m \in right, NEW stays \in BOOLEAN
    PROVE  Tells(h, n, all, right, stays)
<1>1. EndsIn(<<m>>, all, right) BY EndsOne
<1>2. <<m>> \in Seq(HostMessages) OBVIOUS
<1> QED BY <1>1, <1>2 DEF Tells, Carried

\* The queue of a host that changes.
LEMMA TellsCarried ==
    ASSUME NEW h \in Hosts, NEW n, h.ready, NEW all, NEW was, NEW right,
           NEW wasSo, NEW stays, NEW so, Follows(was, wasSo, stays, right, so),
           Carried(h.out, all, was, wasSo), Tells(h, n, all, right, stays)
    PROVE  Carried(n.out, all, right, so)
<1>1. PICK ms \in Seq(HostMessages) : n.out = h.out \o ms /\ Carried(ms, all, right, stays)
  BY DEF Tells
<1>2. PICK q : q = h.out OBVIOUS
<1> QED BY <1>1, <1>2, OutIs, CarriedConcat DEF Follows

--------------------
(* The list of conversations the document has *)

Lists == {"hydrate", "resumable"}
ListMessages == {m \in HostMessages : m.type \in Lists}
ListsOf(uuids) == {m \in ListMessages : m.uuids = uuids}

\* The last list under way is the present one, or the document has it.
ResumeSound == Seen => Carried(host.out, ListMessages, ListsOf(host.resume), page.resume = host.resume)

TellsList(h, n) == Tells(h, n, ListMessages, ListsOf(n.resume), n.resume = h.resume)

LEMMA TellsListTwice ==
    ASSUME NEW h \in Hosts, NEW n, NEW o, n.ready = h.ready, TellsList(h, n), TellsList(n, o)
    PROVE  TellsList(h, o)
<1>1. PICK was, right, wasSo, stays, so :
        /\ was = ListsOf(n.resume) /\ right = ListsOf(o.resume)
        /\ wasSo = (n.resume = h.resume) /\ stays = (o.resume = n.resume) /\ so = (o.resume = h.resume)
  OBVIOUS
<1>2. Follows(was, wasSo, stays, right, so) BY <1>1 DEF Follows
<1> QED BY <1>1, <1>2, TellsTwice DEF TellsList

\* Messages of other kinds tell nothing of it.
LEMMA TellsNoList ==
    ASSUME NEW h, NEW n, NEW kinds, kinds \cap Lists = {}, Extends(h, n, kinds), n.resume = h.resume
    PROVE  TellsList(h, n)
<1>1. \A m \in ListMessages : m.type \notin kinds BY DEF ListMessages
<1>2. (n.resume = h.resume) \in BOOLEAN OBVIOUS
<1> QED BY <1>1, <1>2, TellsNothing DEF TellsList

LEMMA InvalidatedTellsList ==
    ASSUME NEW h \in SoundHosts
    PROVE  TellsList(h, Invalidated(h))
<1>1. Extends(h, Invalidated(h), {"invalidated"}) /\ Invalidated(h).resume = h.resume
  BY InvalidatedIs, InvalidatedKeeps DEF SoundHosts
<1> QED BY <1>1, TellsNoList DEF Lists

LEMMA PublishedTellsList ==
    ASSUME NEW h \in SoundHosts, NEW next \in SUBSET Uuid
    PROVE  TellsList(h, Published(h, next))
<1>1. CASE next = h.resume
  <2>1. Extends(h, h, {}) /\ {} \cap Lists = {} BY ExtendsSelf DEF SoundHosts
  <2> QED BY <1>1, <2>1, TellsNoList DEF Published
<1>2. CASE next # h.resume
  <2>1. PICK g, m : g = [h EXCEPT !.resume = next] /\ m = [type |-> "resumable", uuids |-> next]
    OBVIOUS
  <2>2. PICK p : p = Posted(g, <<m>>) OBVIOUS
  <2>3. h \in Hosts BY DEF SoundHosts
  <2>4. /\ g \in Hosts /\ g.resume = next /\ g.out = h.out /\ g.ready = h.ready /\ g.open = h.open
        /\ g.doc = h.doc /\ g.seen = h.seen /\ g.pending = h.pending /\ g.scan = h.scan
    BY <2>1, <2>3 DEF Hosts
  <2>5. m \in HostMessages /\ m.type = "resumable" /\ m.uuids = next BY <2>1 DEF HostMessages
  <2>6. p.resume = next /\ p.ready = h.ready /\ p.out = IF h.ready THEN h.out \o <<m>> ELSE h.out
    BY <2>2, <2>4, PostedKeeps
  <2>7. p \in SoundHosts
    <3>1. m \in OfType({"resumable"}) BY <2>5 DEF OfType
    <3> QED BY <2>2, <2>4, <3>1, PostedOne DEF SoundHosts
  <2>8. m \in ListsOf(p.resume) BY <2>5, <2>6 DEF ListsOf, ListMessages, Lists
  <2>9. (p.resume = h.resume) \in BOOLEAN /\ (h.ready => p.out = h.out \o <<m>>) BY <2>6
  <2>10. TellsList(h, p) BY <2>5, <2>8, <2>9, TellsOne DEF TellsList
  <2> QED
    BY <1>2, <2>1, <2>2, <2>3, <2>6, <2>10, <2>7, InvalidatedTellsList, TellsListTwice DEF Published
<1> QED BY <1>1, <1>2

LEMMA TellsAlike ==
    ASSUME NEW h, NEW s, Alike(h, s), NEW n, NEW r, TellsList(s, n), r.out = n.out, r.resume = n.resume
    PROVE  TellsList(h, r)
BY DEF Alike, TellsList, Tells

LEMMA RefreshedTellsList ==
    ASSUME NEW h \in SoundHosts, NEW cand \in SUBSET Uuid
    PROVE  TellsList(h, Refreshed(h, cand))
<1>1. PICK s, next, r : s = Superseded(h) /\ next = cand \cap h.resume /\ r = Refreshed(h, cand)
  OBVIOUS
<1>2. PICK n : n = Published(s, next) OBVIOUS
<1>3. r.out = n.out /\ r.resume = n.resume BY <1>1, <1>2, RefreshedForm
<1> QED BY <1>1, SupersededIs, <1>2, PublishedTellsList, <1>3, TellsAlike DEF Extends, Alike

LEMMA SettledTellsList ==
    ASSUME NEW h \in SoundHosts, known \in SUBSET Uuid
    PROVE  TellsList(h, Settled(h))
<1>1. PICK n, s, cand : /\ n = [h EXCEPT !.scan = None, !.pending = FALSE] /\ s = Settled(h)
                        /\ cand = Candidates(known, live)
  OBVIOUS
<1>2. /\ n \in SoundHosts /\ n.open = h.open /\ n.ready = h.ready /\ n.doc = h.doc /\ n.seen = h.seen
      /\ n.resume = h.resume /\ n.revision = h.revision /\ n.out = h.out
      /\ s = IF h.pending THEN Refreshed(n, cand) ELSE n
  BY <1>1, SettledIs
<1>3. Alike(h, n) /\ cand \in SUBSET Uuid BY <1>1, <1>2, CandidatesAre DEF Alike
<1>4. CASE h.pending BY <1>1, <1>2, <1>3, <1>4, RefreshedTellsList, TellsAlike
<1>5. CASE ~h.pending
  <2>1. Extends(h, n, {}) BY <1>2, ExtendsInside DEF SoundHosts
  <2> QED BY <1>1, <1>2, <1>5, <2>1, TellsNoList
<1> QED BY <1>4, <1>5

LEMMA ScanStepTellsList ==
    ASSUME NEW h \in SoundHosts, h.scan # None, known \in SUBSET Uuid
    PROVE  TellsList(h, ScanStep(h))
<1>1. PICK scan, s : scan = Checked(h.scan) /\ s = ScanStep(h) OBVIOUS
<1>2. /\ s \in SoundHosts /\ Extends(h, s, Listing)
      /\ h.scan.stale \/ h.scan.todo = {} => s = Settled(h)
      /\ ~h.scan.stale /\ h.scan.todo # {} =>
           /\ scan \in Scans
           /\ scan.todo = {} => s = Settled(Published(h, scan.eligible))
           /\ scan.todo # {} => s.resume = h.resume /\ s.out = h.out
  BY <1>1, ScanStepIs
<1>3. CASE h.scan.stale \/ h.scan.todo = {} BY <1>1, <1>2, <1>3, SettledTellsList
<1>4. CASE ~(h.scan.stale \/ h.scan.todo = {}) /\ scan.todo = {}
  <2>1. PICK p : p = Published(h, scan.eligible) OBVIOUS
  <2> QED
    BY <1>1, <2>1, <1>2, <1>4, PublishedIs, PublishedTellsList, SettledTellsList, TellsListTwice DEF
       SoundHosts, Extends, Scans
<1>5. CASE ~(h.scan.stale \/ h.scan.todo = {}) /\ scan.todo # {}
  <2>1. s.resume = h.resume /\ s.out = h.out BY <1>2, <1>5
  <2>2. s.open = h.open /\ s.ready = h.ready /\ s.doc = h.doc /\ s.seen = h.seen BY <1>2 DEF Extends
  <2>3. Extends(h, s, {}) BY <2>1, <2>2, ExtendsInside DEF SoundHosts
  <2> QED BY <1>1, <2>1, <2>3, TellsNoList
<1> QED BY <1>3, <1>4, <1>5

LEMMA SessionsChangedTellsList ==
    ASSUME TypesSound, NEW next, NEW selected, ListsMove(next, selected)
    PROVE  TellsList(host, host')
<1>1. host \in SoundHosts /\ live \in Seq(Snapshots) /\ known \in SUBSET Uuid
  BY HostIs DEF LiveSound
<1>2. PICK t, l, d, cand : /\ t = Told(host, next) /\ l = Relisted(host, next)
                           /\ d = Reselected(host, next, selected) /\ cand = Candidates(known, next)
  OBVIOUS
<1>3. PICK r : r = Refreshed(d, cand) OBVIOUS
<1>4. /\ t \in SoundHosts /\ Extends(host, t, Differences)
      /\ l \in SoundHosts /\ Extends(t, l, {"invalidated"})
      /\ d \in SoundHosts /\ Extends(l, d, {"active"})
      /\ r \in SoundHosts /\ Extends(d, r, Listing)
      /\ host' = IF Gone(next) = <<>> THEN r ELSE [r EXCEPT !.retry = TRUE]
  BY ListsMoveIs, <1>1, <1>2, <1>3, SessionsChangedIs
<1>5. l.resume = t.resume BY <1>2, <1>4, InvalidatedKeeps DEF Relisted, SoundHosts
<1>6. TellsList(host, t)
  BY <1>4, <1>1, <1>2, PostedKeeps, TellsNoList DEF Differences, Lists, Told, SoundHosts
<1>7. TellsList(t, l) BY <1>4, <1>5, TellsNoList DEF Lists
<1>8. TellsList(l, d) BY <1>4, <1>2, PostedKeeps, TellsNoList DEF Lists, Reselected, SoundHosts
<1>9. t.ready = host.ready /\ l.ready = t.ready /\ d.ready = l.ready BY <1>4 DEF Extends
<1>10. TellsList(host, r)
  BY <1>1, <1>2, <1>3, <1>4, RefreshedTellsList, CandidatesAre, <1>9, <1>8, <1>6, <1>7,
     TellsListTwice DEF SoundHosts
<1>11. host'.out = r.out /\ host'.resume = r.resume BY <1>4, RetryIs DEF SoundHosts
<1> QED BY <1>10, <1>11 DEF TellsList, Tells

LEMMA AsideTellsList ==
    ASSUME TypesSound, AsideForm
    PROVE  TellsList(host, host')
<1>1. host \in SoundHosts /\ host \in Hosts /\ known \in SUBSET Uuid /\ draft \in Drafts
  BY HostIs, DraftsAre DEF TypesSound
<1>2. CASE host' = host
  <2>1. Extends(host, host, {}) BY <1>1, ExtendsSelf
  <2> QED BY <1>2, <2>1, TellsNoList
<1>3. CASE host' = Invalidated(host) BY <1>1, <1>3, InvalidatedTellsList
<1>4. ASSUME NEW h \in SoundHosts, NEW cand \in SUBSET Uuid, Alike(host, h), host' = Refreshed(h, cand)
      PROVE  TellsList(host, host')
  BY <1>4, RefreshedTellsList, TellsAlike
<1>5. CASE host.scan # None /\ host' = ScanStep(host) BY <1>1, <1>5, ScanStepTellsList
<1>6. ASSUME NEW request \in Requests, host' = RecoveryPage(host, request) PROVE TellsList(host, host')
  <2>1. Extends(host, host', {"page", "invalidated"}) BY <1>1, <1>6, RecoveryPageIs
  <2> QED BY <2>1, <1>1, <1>6, RecoveryPageScan, TellsNoList DEF Lists, SameScan
<1> QED BY <1>2, <1>3, <1>4, <1>5, <1>6 DEF AsideForm

\* A host that tells its list to the same document.
LEMMA TellsResume ==
    ASSUME TypesSound, DocSound, ResumeSound, TellsList(host, host'), host'.seen = host.seen,
           page' = page \/ (page # None /\ page'.id = page.id /\ page'.resume = page.resume)
    PROVE  ResumeSound'
<1> SUFFICES ASSUME Seen'
             PROVE  Carried(host'.out, ListMessages, ListsOf(host'.resume), page'.resume = host'.resume)
  BY DEF ResumeSound, ListMessages, ListsOf
<1>1. PICK n, was, right, wasSo, stays, so :
        /\ n = host' /\ was = ListsOf(host.resume) /\ right = ListsOf(n.resume)
        /\ wasSo = (page.resume = host.resume) /\ stays = (n.resume = host.resume)
        /\ so = (page.resume = n.resume)
  OBVIOUS
<1>2. Follows(was, wasSo, stays, right, so) BY <1>1 DEF Follows
<1> QED BY <1>1, SeenIs, HostIs, <1>2, TellsCarried DEF ResumeSound, TellsList, Seen

LEMMA NewUnseen ==
    ASSUME TypesSound, DocSound, ResolveView \/ DisposeView \/ ReloadDocument \/ DocumentLoads
    PROVE  ~Seen'
<1>1. ASSUME ResolveView PROVE ~Seen' BY <1>1, ResolveViewIs DEF Seen
<1>2. ASSUME DisposeView PROVE ~Seen' BY <1>2, DisposeViewIs DEF Seen
<1>3. ASSUME ReloadDocument PROVE ~Seen'
  <2>1. PICK d : d = documents + 1 OBVIOUS
  <2> QED BY <1>3, ReloadDocumentIs, DocumentIs, <2>1 DEF DocSound, Seen, TypesSound, ViewSound
<1>4. ASSUME DocumentLoads PROVE ~Seen' BY <1>4, DocumentLoadsIs DEF DocSound, Seen
<1> QED BY <1>1, <1>2, <1>3, <1>4

\* The document that is heard of now was not before.
LEMMA ReadySeen ==
    ASSUME TypesSound, DocSound, Ready
    PROVE  /\ ~Seen /\ page # None /\ page' = page /\ host.open /\ toHost' = Tail(toHost)
           /\ UNCHANGED <<live, active, printed, store, composer>>
           /\ Seen' => page.id \in Documents /\ page.id \notin host.seen /\ host' = Hydrated(host, page.id)
           /\ ~Seen' => \E d \in Documents : host' = host \/ (d \notin host.seen /\ host' = Hydrated(host, d))
<1>1. PICK d : d = Head(toHost).doc OBVIOUS
<1>2. /\ toHost # <<>> /\ Head(toHost).type = "ready" /\ d \in Documents /\ page # None /\ host.open
      /\ host' = Hydrated(host, d) /\ (d \in host.seen => host' = host)
      /\ UNCHANGED <<live, active, printed, store, composer, page>> /\ toHost' = Tail(toHost)
  BY <1>1, ReadyIs
<1>3. ~Seen BY <1>2, TailFacts, ClearTail DEF DocSound, Readies, TypesSound, ViewSound
<1>4. ASSUME Seen' PROVE page.id \notin host.seen /\ d = page.id
  <2>1. page.id \notin host.seen /\ page.id \in host'.seen BY <1>2, <1>3, <1>4 DEF Seen
  <2>2. PICK n, r : n = Docked(host, d) /\ r = Posted(n, <<Hydration(host)>> \o Replay) OBVIOUS
  <2>3. /\ n.seen = host.seen \cup {d}
        /\ Extends(n, r, {"hydrate", "data"}) /\ Extends(r, host', {"invalidated"})
    BY <1>2, <2>1, <2>2, HydratedIs, HostIs
  <2> QED BY <2>1, <2>3 DEF Extends
<1> QED BY <1>2, <1>3, PageIs, <1>4 DEF TypesSound, ViewSound

LEMMA ReadyTellsList ==
    ASSUME TypesSound, DocSound, Ready, Seen'
    PROVE  /\ host'.resume = host.resume
           /\ Carried(host'.out, ListMessages, ListsOf(host'.resume), FALSE)
<1>1. PICK h, d : h = host /\ d = page.id OBVIOUS
<1>2. h \in SoundHosts /\ h.open /\ d \in Documents /\ d \notin h.seen /\ host' = Hydrated(h, d) /\ LiveSound
  BY <1>1, HostIs, ReadySeen
<1>3. PICK n, m, p : n = Docked(h, d) /\ m = Hydration(h) /\ p = Posted(n, <<m>> \o Replay) OBVIOUS
<1>4. /\ n \in SoundHosts /\ n.ready /\ n.resume = h.resume
      /\ m \in OfType({"hydrate"}) /\ <<m>> \o Replay \in Seq(OfType({"hydrate", "data"}))
      /\ p \in SoundHosts
      /\ host' = Invalidated(p)
      /\ Extends(n, p, {"hydrate", "data"})
  BY <1>2, <1>3, HydratedIs
<1>5. p.out = n.out \o (<<m>> \o Replay) /\ p.resume = h.resume
  <2>1. PICK ms : ms = <<m>> \o Replay OBVIOUS
  <2>2. n \in Hosts /\ p = Posted(n, ms) BY <1>3, <1>4, <2>1 DEF SoundHosts
  <2>3. p.out = (IF n.ready THEN n.out \o ms ELSE n.out) /\ p.resume = n.resume BY <2>2, PostedKeeps
  <2> QED BY <1>4, <2>1, <2>3
<1>6. PICK right : right = ListsOf(h.resume) OBVIOUS
<1>7. <<m>> \in Seq(HostMessages) /\ Replay \in Seq(HostMessages) /\ n.out \in Seq(HostMessages)
  BY <1>4, <1>2, TalkedIs, SubSequence, OutIs DEF SoundHosts, OfType
<1>8. Carried(<<m>>, ListMessages, right, FALSE)
  BY <1>3, <1>4, <1>6, EndsOne DEF Carried, ListsOf, ListMessages, Lists, OfType, Hydration
<1>9. Carried(Replay, ListMessages, right, TRUE)
  BY <1>2, TalkedIs, ClearTypes DEF Carried, ListMessages, Lists
<1>10. Carried(<<m>> \o Replay, ListMessages, right, FALSE) BY <1>7, <1>8, <1>9, CarriedConcat
<1>11. Carried(p.out, ListMessages, right, FALSE)
  <2>1. PICK q, ms : q = n.out /\ ms = <<m>> \o Replay OBVIOUS
  <2>2. EndsIn(ms, ListMessages, right) BY <1>10, <2>1 DEF Carried
  <2>3. q \in Seq(HostMessages) /\ ms \in Seq(HostMessages)
    BY <1>7, <1>4, OutIs, ConcatFacts, <2>1 DEF SoundHosts
  <2>4. EndsIn(q \o ms, ListMessages, right) BY <2>2, <2>3, EndsConcat
  <2> QED BY <1>5, <2>1, <2>4 DEF Carried
<1>12. host'.resume = h.resume /\ TellsList(p, host')
  BY <1>4, <1>5, InvalidatedTellsList, InvalidatedKeeps DEF SoundHosts
<1>13. p.ready /\ p \in Hosts BY <1>4 DEF Extends, SoundHosts
<1>14. Carried(host'.out, ListMessages, right, FALSE)
  <2>1. PICK g, stays : g = host' /\ stays = (g.resume = p.resume) OBVIOUS
  <2>2. Tells(p, g, ListMessages, right, stays) /\ Follows(right, FALSE, stays, right, FALSE)
    BY <1>6, <1>12, <2>1 DEF TellsList, Follows
  <2>3. Carried(g.out, ListMessages, right, FALSE) BY <1>11, <1>13, <2>2, TellsCarried
  <2> QED BY <2>1, <2>3
<1> QED BY <1>1, <1>6, <1>12, <1>14

\* What else a message changes.
SelectionAfter(m, next) ==
    /\ m.type = "hydrate" => next.active = m.active /\ ~next.clicked
    /\ m.type = "active" => next.active = m.id /\ ~next.clicked
    /\ m.type = "removed" =>
         next.active = (IF page.active = m.id THEN None ELSE page.active) /\ next.clicked = page.clicked
    /\ m.type \notin {"hydrate", "active", "removed"} =>
         next.active = page.active /\ next.clicked = page.clicked

ListAfter(m, next) ==
    /\ m.type \in Lists => next.resume = m.uuids
    /\ m.type \notin Lists => next.resume = page.resume

SameDrafts(next) ==
    /\ next.revision = page.revision /\ next.request = page.request
    /\ next.staging = page.staging /\ next.rows = page.rows

LEMMA ReceivesEffect ==
    ASSUME TypesSound, DocumentReceives
    PROVE  /\ SelectionAfter(Received, page') /\ ListAfter(Received, page')
           /\ \/ RecoveryInvalidated /\ Received.type = "invalidated"
              \/ RecoveryPaged /\ Received.type = "page"
              \/ /\ SameDrafts(page') /\ toHost' = toHost
                 /\ Received.type \notin {"invalidated", "page"}
<1>1. ViewSound BY DEF TypesSound
<1>2. ASSUME NEW type, NEW next, Applies(type, next)
      PROVE  /\ page \in Pages /\ Content(page) \in Contents /\ Received \in HostMessages
             /\ Received.type = type /\ page' = next
  BY <1>1, <1>2, AppliesIs
<1>3. CASE RecoveryInvalidated
  BY <1>3, <1>1, RecoveryInvalidatedIs DEF SelectionAfter, ListAfter, Lists, Applies
<1>4. CASE RecoveryPaged
  BY <1>4, <1>1, RecoveryPagedIs DEF SelectionAfter, ListAfter, Lists, Applies
<1>5. ASSUME Applies("hydrate", HydratedPage(Received))
      PROVE  /\ SelectionAfter(Received, page') /\ ListAfter(Received, page')
             /\ SameDrafts(page') /\ Received.type \notin {"invalidated", "page"}
  <2>1. PICK m, next : m = Received /\ next = HydratedPage(m) OBVIOUS
  <2> QED
    BY <2>1, <1>2, <1>5, HydratedPageIs DEF SelectionAfter, ListAfter, SameDrafts, SameRest, Lists
<1>6. ASSUME Applies("session", WithTab(Received))
      PROVE  /\ SelectionAfter(Received, page') /\ ListAfter(Received, page')
             /\ SameDrafts(page') /\ Received.type \notin {"invalidated", "page"}
  <2>1. PICK m, next : m = Received /\ next = WithTab(m) OBVIOUS
  <2> QED BY <2>1, <1>2, <1>6, WithTabIs DEF SelectionAfter, ListAfter, SameDrafts, SameRest, Lists
<1>7. ASSUME Applies("removed", WithoutTab(Received))
      PROVE  /\ SelectionAfter(Received, page') /\ ListAfter(Received, page')
             /\ SameDrafts(page') /\ Received.type \notin {"invalidated", "page"}
  <2>1. PICK m, next : m = Received /\ next = WithoutTab(m) OBVIOUS
  <2> QED
    BY <2>1, <1>2, <1>7, WithoutTabIs DEF SelectionAfter, ListAfter, SameDrafts, SameRest, Lists
<1>8. ASSUME Applies("active", WithSelection(Received))
      PROVE  /\ SelectionAfter(Received, page') /\ ListAfter(Received, page')
             /\ SameDrafts(page') /\ Received.type \notin {"invalidated", "page"}
  <2>1. PICK m, next : m = Received /\ next = WithSelection(m) OBVIOUS
  <2> QED
    BY <2>1, <1>2, <1>8, WithSelectionIs DEF SelectionAfter, ListAfter, SameDrafts, SameRest, Lists
<1>9. ASSUME Applies("data", WithOutput(Received))
      PROVE  /\ SelectionAfter(Received, page') /\ ListAfter(Received, page')
             /\ SameDrafts(page') /\ Received.type \notin {"invalidated", "page"}
  <2>1. PICK m, next : m = Received /\ next = WithOutput(m) OBVIOUS
  <2> QED
    BY <2>1, <1>2, <1>9, WithOutputIs DEF SelectionAfter, ListAfter, SameDrafts, SameRest, Lists
<1>10. ASSUME Applies("resumable", WithResumable(Received))
      PROVE  /\ SelectionAfter(Received, page') /\ ListAfter(Received, page')
             /\ SameDrafts(page') /\ Received.type \notin {"invalidated", "page"}
  <2>1. PICK m, next : m = Received /\ next = WithResumable(m) OBVIOUS
  <2> QED
    BY <2>1, <1>2, <1>10, WithResumableIs DEF SelectionAfter, ListAfter, SameDrafts, SameRest, Lists
<1> QED BY <1>3, <1>4, <1>5, <1>6, <1>7, <1>8, <1>9, <1>10 DEF DocumentReceives

LEMMA ReceivesResume ==
    ASSUME TypesSound, DocSound, ResumeSound, DocumentReceives
    PROVE  ResumeSound'
<1> SUFFICES ASSUME Seen'
             PROVE  Carried(host'.out, ListMessages, ListsOf(host'.resume), page'.resume = host'.resume)
  BY DEF ResumeSound, ListMessages, ListsOf
<1>1. /\ Applies(Received.type, page') /\ Shows(page', Received) BY ReceivesIs
<1>2. PICK q, m : q = host.out /\ m = Received OBVIOUS
<1>3. /\ page # None /\ q \in Seq(HostMessages) /\ q # <<>> /\ m \in HostMessages /\ m = Head(q)
      /\ host'.out = Tail(q) /\ host'.seen = host.seen /\ host'.resume = host.resume
  BY <1>1, <1>2, AppliesIs DEF TypesSound, Received
<1>4. PICK right, wasSo, so :
        /\ right = ListsOf(host.resume) /\ wasSo = (page.resume = host.resume)
        /\ so = (page'.resume = host.resume)
  OBVIOUS
<1>5. wasSo \in BOOLEAN /\ so \in BOOLEAN /\ Carried(q, ListMessages, right, wasSo)
  BY <1>2, <1>1, <1>3, <1>4 DEF ResumeSound, Seen, Shows
<1>6. /\ m.type \in Lists => page'.resume = m.uuids
      /\ m.type \notin Lists => page'.resume = page.resume
  BY <1>2, ReceivesEffect DEF ListAfter
<1>7. (m \in right => so) /\ (m \notin ListMessages /\ wasSo => so)
  BY <1>3, <1>4, <1>6 DEF ListsOf, ListMessages
<1>8. Carried(Tail(q), ListMessages, right, so) BY <1>3, <1>5, <1>7, CarriedTail
<1> QED BY <1>3, <1>4, <1>8

LEMMA NextKeepsResume ==
    ASSUME TypesSound, DocSound, ResumeSound, [Next]_vars
    PROVE  ResumeSound'
<1>1. CASE AsideStep /\ AsideForm BY <1>1, AsideTellsList, TellsResume DEF AsideStep, Extends
<1>2. ASSUME NEW next, NEW selected, ListsMove(next, selected), page' = page PROVE ResumeSound'
  BY <1>2, SessionsChangedTellsList, ListsMoveIs, TellsResume
<1>3. ASSUME UNCHANGED <<host, page>> PROVE ResumeSound'
  BY <1>3 DEF ResumeSound, Seen, ListMessages, ListsOf
<1>4. ASSUME NEW s \in Session, NEW u \in Uuid, Launch(s, u) PROVE ResumeSound'
  BY <1>2, <1>4, LaunchIs DEF Launch
<1>5. ASSUME NEW s \in Session, Exit(s) PROVE ResumeSound' BY <1>2, <1>5, ExitIs DEF Exit
<1>6. ASSUME NEW s \in Session, Output(s) PROVE ResumeSound'
  <2>1. page' = page /\ Extends(host, host', {"data"}) BY <1>6, OutputIs
  <2>2. host'.resume = host.resume /\ host'.seen = host.seen BY <1>6, HostIs, PostedKeeps DEF Output
  <2> QED BY <2>1, <2>2, TellsNoList, TellsResume DEF Lists
<1>7. CASE Rearranged BY <1>2, <1>7 DEF Rearranged, SameWorld
<1>8. CASE Reselects BY <1>2, <1>3, <1>8 DEF Reselects, SameWorld
<1>9. CASE ResolveView \/ DisposeView \/ ReloadDocument \/ DocumentLoads
  BY <1>9, NewUnseen DEF ResumeSound
<1>10. CASE DocumentReceives BY <1>10, ReceivesResume
<1>11. CASE Ready
  <2> SUFFICES ASSUME Seen'
               PROVE  Carried(host'.out, ListMessages, ListsOf(host'.resume), page'.resume = host'.resume)
    BY DEF ResumeSound, ListMessages, ListsOf
  <2> QED BY <1>11, ReadyTellsList DEF Carried
<1>12. ASSUME NEW s \in Session, ClickTab(s) \/ ClickClose(s) \/ ClickRename(s) PROVE ResumeSound'
  <2>1. host' = host /\ page # None /\ page'.id = page.id /\ page'.resume = page.resume
    BY <1>12, ClickIs DEF SameRest
  <2>2. TellsList(host, host)
    <3>1. Extends(host, host, {}) BY HostIs, ExtendsSelf
    <3> QED BY <3>1, TellsNoList
  <2> QED BY <2>1, <2>2, TellsResume
<1>13. CASE UNCHANGED vars BY <1>3, <1>13 DEF vars
<1> QED
  BY <1>1, <1>4, <1>5, <1>6, <1>7, <1>8, <1>9, <1>10, <1>11, <1>12, <1>13, StepKinds DEF OnLists,
     OnDocument

--------------------
(* What the messages under way make of a document *)

\* The messages make the one of the other.
Leads(c, q, e) ==
    \E t \in [0..Len(q) -> Contents] :
        /\ t[0] = c /\ t[Len(q)] = e
        /\ \A i \in 1..Len(q) : t[i] = Follow(t[i - 1], q[i])

LEMMA LeadsNone ==
    ASSUME NEW c \in Contents
    PROVE  Leads(c, <<>>, c) /\ \A e : Leads(c, <<>>, e) => e = c
<1>1. PICK t : t = [i \in 0..0 |-> c] OBVIOUS
<1> QED BY <1>1 DEF Leads

LEMMA LeadsTail ==
    ASSUME NEW q \in Seq(HostMessages), q # <<>>, NEW c, NEW e, Leads(c, q, e)
    PROVE  Leads(Follow(c, Head(q)), Tail(q), e)
<1>1. /\ Head(q) = q[1] /\ Len(q) \in Nat \ {0} /\ Len(Tail(q)) = Len(q) - 1
      /\ \A i \in 1..(Len(q) - 1) : Tail(q)[i] = q[i + 1]
  BY TailFacts
<1>2. PICK n : n = Len(q) - 1 OBVIOUS
<1>3. n \in Nat /\ Len(q) = n + 1 BY <1>1, <1>2
<1>4. PICK t \in [0..(n + 1) -> Contents] :
        /\ t[0] = c /\ t[n + 1] = e
        /\ \A i \in 1..(n + 1) : t[i] = Follow(t[i - 1], q[i])
  BY <1>3 DEF Leads
<1>5. PICK s : s = [i \in 0..n |-> t[i + 1]] OBVIOUS
<1>6. s \in [0..n -> Contents] BY <1>5, <1>3
<1>7. s[0] = Follow(c, Head(q)) BY <1>1, <1>4, <1>5, <1>3
<1>8. s[n] = e BY <1>3, <1>4, <1>5
<1>9. ASSUME NEW i \in 1..n PROVE s[i] = Follow(s[i - 1], Tail(q)[i])
  <2>1. i \in 0..n /\ i - 1 \in 0..n /\ (i - 1) + 1 = i /\ i + 1 \in 1..(n + 1) /\ (i + 1) - 1 = i
    BY <1>3
  <2>2. s[i] = t[i + 1] /\ s[i - 1] = t[i] BY <1>5, <2>1
  <2>3. t[i + 1] = Follow(t[i], q[i + 1]) BY <1>4, <2>1
  <2> QED BY <2>2, <2>3, <1>1, <1>2
<1> QED BY <1>1, <1>2, <1>6, <1>7, <1>8, <1>9 DEF Leads

LEMMA LeadsOne ==
    ASSUME NEW c \in Contents, NEW m \in HostMessages
    PROVE  Leads(c, <<m>>, Follow(c, m)) /\ Follow(c, m) \in Contents
<1>1. PICK e, t : e = Follow(c, m) /\ t = [i \in 0..1 |-> IF i = 0 THEN c ELSE e] OBVIOUS
<1> QED BY FollowIs, <1>1 DEF Leads

LEMMA LeadsConcat ==
    ASSUME NEW q \in Seq(HostMessages), NEW ms \in Seq(HostMessages),
           NEW c, NEW d, NEW e, Leads(c, q, d), Leads(d, ms, e)
    PROVE  Leads(c, q \o ms, e)
<1>1. PICK n, m : n = Len(q) /\ m = Len(ms) OBVIOUS
<1>2. /\ n \in Nat /\ m \in Nat /\ Len(q \o ms) = n + m
      /\ \A i \in 1..n : (q \o ms)[i] = q[i]
      /\ \A i \in 1..m : (q \o ms)[n + i] = ms[i]
  BY <1>1, ConcatFacts
<1>3. PICK s \in [0..n -> Contents] :
        s[0] = c /\ s[n] = d /\ \A i \in 1..n : s[i] = Follow(s[i - 1], q[i])
  BY <1>1 DEF Leads
<1>4. PICK t \in [0..m -> Contents] :
        t[0] = d /\ t[m] = e /\ \A i \in 1..m : t[i] = Follow(t[i - 1], ms[i])
  BY <1>1 DEF Leads
<1>5. PICK u : u = [i \in 0..(n + m) |-> IF i <= n THEN s[i] ELSE t[i - n]] OBVIOUS
<1>6. u \in [0..(n + m) -> Contents]
  <2> SUFFICES ASSUME NEW i \in 0..(n + m) PROVE (IF i <= n THEN s[i] ELSE t[i - n]) \in Contents
    BY <1>5
  <2> QED BY <1>2
<1>7. u[0] = c /\ u[n + m] = e
  <2>1. 0 \in 0..(n + m) /\ n + m \in 0..(n + m) /\ 0 <= n BY <1>2
  <2>2. u[0] = c BY <1>3, <1>5, <2>1
  <2>3. CASE m = 0 BY <1>2, <1>3, <1>4, <1>5, <2>1, <2>3
  <2>4. CASE m # 0 BY <1>4, <1>5, <2>1, <2>2, <1>2, <2>4
  <2> QED BY <2>2, <2>3, <2>4
<1>8. ASSUME NEW i \in 1..(n + m) PROVE u[i] = Follow(u[i - 1], (q \o ms)[i])
  <2>1. i \in 0..(n + m) /\ i - 1 \in 0..(n + m) BY <1>2
  <2>2. CASE i <= n BY <1>2, <1>3, <1>5, <2>1, <2>2
  <2>3. CASE ~(i <= n)
    <3>1. PICK k : k = i - n OBVIOUS
    <3>2. k \in 1..m /\ n + k = i /\ (i - 1) - n = k - 1 BY <1>2, <2>3, <3>1
    <3>3. u[i] = t[k] BY <1>5, <2>1, <2>3, <3>1
    <3>4. u[i - 1] = t[k - 1]
      <4>1. CASE k = 1 BY <1>3, <1>4, <1>5, <2>1, <4>1, <1>2, <3>2
      <4>2. CASE k # 1 BY <1>5, <2>1, <3>2, <1>2, <4>2
      <4> QED BY <4>1, <4>2
    <3>5. (q \o ms)[n + k] = ms[k] /\ t[k] = Follow(t[k - 1], ms[k]) BY <1>2, <1>4, <3>2
    <3> QED BY <3>2, <3>3, <3>4, <3>5
  <2> QED BY <2>2, <2>3
<1> QED BY <1>2, <1>6, <1>7, <1>8 DEF Leads

\* The kinds of message that change what is shown of the sessions.
Telling == {"hydrate", "session", "removed", "data"}

LEMMA LeadsIdle ==
    ASSUME NEW c \in Contents, NEW kinds, kinds \cap Telling = {}, NEW ms \in Seq(OfType(kinds))
    PROVE  Leads(c, ms, c)
<1>1. PICK n, t : n = Len(ms) /\ t = [i \in 0..n |-> c] OBVIOUS
<1> QED BY <1>1 DEF Leads, OfType, Telling, Follow

\* A queue that a change of the host adds such messages to.
LEMMA LeadsExtends ==
    ASSUME NEW h \in Hosts, NEW n, NEW kinds, kinds \cap Telling = {}, Extends(h, n, kinds),
           NEW c, NEW e \in Contents, Leads(c, h.out, e)
    PROVE  Leads(c, n.out, e)
<1>1. PICK ms \in Seq(OfType(kinds)) : n.out = h.out \o ms BY DEF Extends
<1>2. PICK q : q = h.out OBVIOUS
<1>3. Leads(e, ms, e) BY LeadsIdle
<1>4. Leads(c, q \o ms, e) BY <1>2, OutIs, SubSequence, <1>3, LeadsConcat DEF OfType
<1> QED BY <1>1, <1>2, <1>4
--------------------
(* What the document is told when the list changes *)

Removed(s) == [type |-> "removed", id |-> s]
SessionOf(x) == [type |-> "session", session |-> x]

\* The message for a session that arrives, changes or goes.
LEMMA DiffArrival ==
    ASSUME NEW next, NEW x, Arrival(next, x)
    PROVE  Diff(next) = <<SessionOf(x)>> /\ SessionOf(x) \in OfType({"session"})
<1>1. Gone(next) = <<>> /\ News(next) = <<x>> /\ x \in Snapshots BY DEF Arrival
<1>2. <<>> \in Seq(Snapshots) /\ <<x>> \in Seq(Snapshots) /\ Len(<<>>) = 0 /\ Len(<<x>>) = 1 BY <1>1
<1>3. PICK p, q : p = Removals(<<>>) /\ q = Arrivals(<<x>>) OBVIOUS
<1>4. p \in Seq(OfType({"removed"})) /\ Len(p) = 0 /\ q \in Seq(OfType({"session"})) /\ Len(q) = 1
  BY <1>2, <1>3, DiffIs
<1>5. p = <<>> BY <1>4
<1>6. q[1] = SessionOf(x) BY <1>3 DEF Arrivals, SessionOf
<1>7. Diff(next) = p \o q BY <1>1, <1>3 DEF Diff
<1> QED BY <1>5, <1>6, <1>7, <1>4

LEMMA DiffDeparture ==
    ASSUME NEW next, NEW s, Departure(next, s), live \in Seq(Snapshots)
    PROVE  Diff(next) = <<Removed(s)>> /\ Removed(s) \in OfType({"removed"})
<1>1. News(next) = <<>> /\ Removals(Gone(next)) = <<Removed(s)>> /\ s \in Session
  BY IdsAre DEF Departure, Removed
<1>2. PICK none, q : none = <<>> /\ q = Arrivals(none) OBVIOUS
<1>3. none \in Seq(Snapshots) /\ Len(none) = 0 BY <1>2
<1>4. q \in Seq(OfType({"session"})) /\ Len(q) = 0 BY <1>2, <1>3, DiffIs
<1>5. q = <<>> BY <1>4
<1>6. Removed(s) \in OfType({"removed"}) BY <1>1 DEF Removed, OfType, HostMessages
<1>7. <<Removed(s)>> \o <<>> = <<Removed(s)>> BY <1>6
<1> QED BY <1>1, <1>2, <1>5, <1>6, <1>7 DEF Diff

LEMMA DiffNone ==
    ASSUME NEW next, NoChange(next)
    PROVE  Diff(next) = <<>>
<1>1. PICK none, p, q : none = <<>> /\ p = Removals(none) /\ q = Arrivals(none) OBVIOUS
<1>2. none \in Seq(Snapshots) /\ Len(none) = 0 BY <1>1
<1>3. p \in Seq(OfType({"removed"})) /\ Len(p) = 0 /\ q \in Seq(OfType({"session"})) /\ Len(q) = 0
  BY <1>1, <1>2, DiffIs
<1> QED BY <1>1, <1>3 DEF Diff, NoChange

\* First the difference, then what it means for the selection and the lists.
LEMMA ListsMoveForm ==
    ASSUME TypesSound, NEW next, NEW selected, ListsMove(next, selected)
    PROVE  \E t \in SoundHosts : /\ t = Posted(host, Diff(next)) /\ Extends(host, t, Differences)
                                 /\ Extends(t, host', Selections)
<1>1. PICK t, l, d : t = Told(host, next) /\ l = Relisted(host, next) /\ d = Reselected(host, next, selected)
  OBVIOUS
<1>2. /\ t \in SoundHosts /\ Extends(host, t, Differences)
      /\ l \in SoundHosts /\ Extends(t, l, {"invalidated"})
      /\ d \in SoundHosts /\ Extends(l, d, {"active"})
      /\ Extends(d, host', Listing)
  BY ListsMoveIs, HostIs, <1>1, SessionsChangedIs DEF LiveSound
<1> QED BY <1>1, <1>2, ExtendsWider, ExtendsTwice DEF Told, Selections, Listing, SoundHosts

\* Messages of other kinds.
LEMMA ClearExtends ==
    ASSUME NEW h \in Hosts, NEW n, NEW kinds, Extends(h, n, kinds),
           NEW all, \A m \in all : m.type \notin kinds, Clear(h.out, all)
    PROVE  Clear(n.out, all)
<1>1. PICK ms \in Seq(OfType(kinds)) : n.out = h.out \o ms BY DEF Extends
<1>2. PICK q : q = h.out OBVIOUS
<1>3. Clear(ms, all) BY ClearTypes
<1> QED BY <1>1, <1>2, OutIs, SubSequence, <1>3, ClearConcat DEF OfType

LEMMA ClearNarrower ==
    ASSUME NEW q, NEW was, NEW now, now \subseteq was, Clear(q, was)
    PROVE  Clear(q, now)
BY DEF Clear

--------------------
(* The removals under way *)

\* No removal under way is of a session that is there or was never launched.
WrongRemovals == {m \in HostMessages : m.type = "removed" /\ (m.id \in Ids(live) \/ printed[m.id] = None)}
RemovedSound == Clear(host.out, WrongRemovals)

\* Removals that were right stay so when no session of theirs is launched.
LEMMA RemovalsStay ==
    ASSUME TypesSound, \A s \in Session : s \in Ids(live') => s \in Ids(live) \/ printed[s] = None,
           \A s \in Session : printed'[s] = None => printed[s] = None
    PROVE  WrongRemovals' \subseteq WrongRemovals
<1>1. SUFFICES ASSUME NEW m \in HostMessages, m.type = "removed", m.id \in Ids(live') \/ printed'[m.id] = None
               PROVE  m \in WrongRemovals
  BY DEF WrongRemovals
<1> QED BY <1>1, MessageIs DEF WrongRemovals

LEMMA ExtendsRemoved ==
    ASSUME TypesSound, RemovedSound, NEW kinds, Extends(host, host', kinds), "removed" \notin kinds,
           WrongRemovals' \subseteq WrongRemovals
    PROVE  RemovedSound'
<1>1. PICK out : out = host'.out OBVIOUS
<1>2. PICK wrong : wrong = WrongRemovals' OBVIOUS
<1> QED BY <1>1, <1>2, HostIs, ClearExtends, ClearNarrower DEF RemovedSound, WrongRemovals

LEMMA ListsMoveRemoved ==
    ASSUME TypesSound, RemovedSound, NEW next, NEW selected, ListsMove(next, selected),
           WrongRemovals' \subseteq WrongRemovals,
           Diff(next) \in Seq(OfType({"session"})) \/ \E s : /\ Diff(next) = <<Removed(s)>> /\ Removed(s) \in OfType({"removed"})
                                                         /\ Removed(s) \notin WrongRemovals'
    PROVE  RemovedSound'
<1>1. PICK t \in SoundHosts : t = Posted(host, Diff(next)) /\ Extends(host, t, Differences) /\ Extends(t, host', Selections)
  BY ListsMoveForm
<1>2. PICK wrong, out : wrong = WrongRemovals' /\ out = host'.out OBVIOUS
<1>3. /\ \A m \in wrong : m.type = "removed"
      /\ wrong \subseteq WrongRemovals
  BY <1>2 DEF WrongRemovals
<1>4. host \in SoundHosts /\ host \in Hosts /\ t \in Hosts BY HostIs, <1>1 DEF SoundHosts
<1>5. Clear(host.out, wrong) BY <1>3, ClearNarrower DEF RemovedSound
<1>6. Clear(t.out, wrong)
  <2>1. CASE Diff(next) \in Seq(OfType({"session"}))
    <3>1. Extends(host, t, {"session"}) BY <1>1, <1>4, <2>1, PostedIs
    <3> QED BY <1>4, <1>5, <3>1, <1>3, ClearExtends
  <2>2. ASSUME NEW s, Diff(next) = <<Removed(s)>>, Removed(s) \in OfType({"removed"}), Removed(s) \notin wrong
        PROVE  Clear(t.out, wrong)
    <3>1. host.out \in Seq(HostMessages) /\ Clear(<<Removed(s)>>, wrong) BY HostIs, <2>2, ClearOne
    <3>2. host.ready => Clear(host.out \o <<Removed(s)>>, wrong)
      BY <1>5, <3>1, <2>2, ClearConcat DEF OfType
    <3> QED BY <1>5, <1>1, <1>4, <2>2, PostedKeeps, <3>2
  <2> QED BY <1>2, <2>1, <2>2
<1>7. PICK h : h = host' OBVIOUS
<1> QED BY <1>2, <1>7, <1>1, <1>4, <1>6, <1>3, ClearExtends DEF RemovedSound, Selections
\* What a document is told first: the list, what the sessions have printed, and
\* that its drafts are out of date.
LEMMA HydratedOut ==
    ASSUME TypesSound, NEW d \in Documents, d \notin host.seen, host.open, host' = Hydrated(host, d)
    PROVE  LET m == Hydration(host)
               z == [type |-> "invalidated", doc |-> d, revision |-> host.revision + 1]
               ms == <<m>> \o Replay
           IN  /\ m \in OfType({"hydrate"}) /\ Replay \in Seq(OfType({"data"})) /\ z \in OfType({"invalidated"})
               /\ ms \in Seq(HostMessages) /\ <<z>> \in Seq(HostMessages)
               /\ host'.out = (host.out \o ms) \o <<z>>
               /\ host'.revision = host.revision + 1
               /\ host'.doc = d /\ host'.seen = host.seen \cup {d} /\ host'.ready
<1>1. PICK h : h = host OBVIOUS
<1>2. h \in SoundHosts /\ h.open /\ d \notin h.seen /\ host' = Hydrated(h, d) /\ LiveSound
  BY <1>1, HostIs
<1>3. PICK n, m, ms : n = Docked(h, d) /\ m = Hydration(h) /\ ms = <<m>> \o Replay OBVIOUS
<1>4. PICK p : p = Posted(n, ms) OBVIOUS
<1>5. /\ n \in SoundHosts /\ n.ready /\ n.doc = d /\ n.seen = h.seen \cup {d}
      /\ n.revision = h.revision /\ n.out = h.out
      /\ m \in OfType({"hydrate"}) /\ ms \in Seq(OfType({"hydrate", "data"}))
      /\ p \in SoundHosts /\ host' = Invalidated(p)
  BY <1>2, <1>3, <1>4, HydratedIs
<1>6. n \in Hosts /\ p \in Hosts /\ h \in Hosts BY <1>2, <1>5 DEF SoundHosts
<1>7. /\ p.out = (IF n.ready THEN n.out \o ms ELSE n.out) /\ p.revision = n.revision /\ p.doc = n.doc
       /\ p.seen = n.seen /\ p.ready = n.ready
  BY <1>4, <1>6, PostedKeeps
<1>8. /\ p.out = h.out \o ms /\ p.revision = h.revision /\ p.doc = d /\ p.seen = h.seen \cup {d} /\ p.ready
  BY <1>5, <1>7
<1>9. PICK z : z = [type |-> "invalidated", doc |-> d, revision |-> h.revision + 1] OBVIOUS
<1>10. host'.revision = h.revision + 1 /\ host'.out = p.out \o <<z>>
  BY <1>5, <1>6, <1>8, <1>9, InvalidatedKeeps
<1>11. host'.doc = d /\ host'.seen = h.seen \cup {d} /\ host'.ready
  BY <1>5, <1>8, InvalidatedIs DEF Extends
<1>12. z \in OfType({"invalidated"}) /\ z \in HostMessages
  BY <1>9, <1>6 DEF OfType, HostMessages, Hosts
<1> QED BY <1>1, <1>3, <1>5, <1>8, <1>9, <1>10, <1>11, <1>12, <1>2, TalkedIs, SubSequence DEF OfType

LEMMA ReadyRemoved ==
    ASSUME TypesSound, DocSound, RemovedSound, Ready
    PROVE  RemovedSound'
<1>1. UNCHANGED <<live, printed>> BY ReadySeen
<1>2. ASSUME host' = host PROVE RemovedSound' BY <1>1, <1>2 DEF RemovedSound, WrongRemovals
<1>3. ASSUME NEW d \in Documents, d \notin host.seen, host' = Hydrated(host, d) PROVE RemovedSound'
  <2>1. PICK m, z, ms, q : /\ m = Hydration(host) /\ ms = <<m>> \o Replay /\ q = host.out
                           /\ z = [type |-> "invalidated", doc |-> d, revision |-> host.revision + 1]
    OBVIOUS
  <2>2. host.open BY ReadySeen
  <2>3. /\ m \in OfType({"hydrate"}) /\ Replay \in Seq(OfType({"data"})) /\ z \in OfType({"invalidated"})
        /\ ms \in Seq(HostMessages) /\ <<z>> \in Seq(HostMessages)
        /\ host'.out = (q \o ms) \o <<z>>
    BY <1>3, <2>1, <2>2, HydratedOut
  <2>4. q \in Seq(HostMessages) /\ Clear(q, WrongRemovals) BY <2>1, HostIs DEF RemovedSound
  <2>5. \A x \in WrongRemovals : x.type \notin {"data"} BY DEF WrongRemovals
  <2>6. Clear(Replay, WrongRemovals) /\ Clear(<<m>>, WrongRemovals) /\ Clear(<<z>>, WrongRemovals)
    <3>1. m \notin WrongRemovals /\ z \notin WrongRemovals BY <2>3 DEF WrongRemovals, OfType
    <3> QED BY <2>3, <2>5, <3>1, ClearTypes, ClearOne
  <2>7. <<m>> \in Seq(HostMessages) /\ Replay \in Seq(HostMessages) BY <2>3, SubSequence DEF OfType
  <2>8. Clear(ms, WrongRemovals) BY <2>1, <2>6, <2>7, ClearConcat
  <2>9. Clear(q \o ms, WrongRemovals) /\ q \o ms \in Seq(HostMessages)
    BY <2>3, <2>4, <2>8, ClearConcat, ConcatFacts
  <2>10. Clear((q \o ms) \o <<z>>, WrongRemovals) BY <2>3, <2>6, <2>9, ClearConcat
  <2> QED BY <1>1, <2>3, <2>10 DEF RemovedSound, WrongRemovals
<1> QED BY <1>2, <1>3, ReadySeen

LEMMA NextKeepsRemoved ==
    ASSUME TypesSound, DocSound, RemovedSound, [Next]_vars
    PROVE  RemovedSound'
<1>1. LiveSound BY HostIs
<1>2. ASSUME UNCHANGED <<live, printed>> PROVE WrongRemovals' \subseteq WrongRemovals
  BY <1>2 DEF WrongRemovals
<1>3. ASSUME NEW next, NEW x, NEW selected, ListsMove(next, selected), Arrival(next, x),
             WrongRemovals' \subseteq WrongRemovals
      PROVE  RemovedSound'
  <2>1. PICK m : m = SessionOf(x) OBVIOUS
  <2>2. Diff(next) = <<m>> /\ m \in OfType({"session"}) BY <1>3, <2>1, DiffArrival
  <2>3. Diff(next) \in Seq(OfType({"session"})) BY <2>2
  <2> QED BY <1>3, <2>3, ListsMoveRemoved
<1>4. CASE AsideStep BY <1>2, <1>4, ExtendsRemoved DEF AsideStep, Asides
<1>5. ASSUME NEW s \in Session, NEW u \in Uuid, Launch(s, u) PROVE RemovedSound'
  <2>1. PICK next, x : next = Append(live, Snapshot(s, u)) /\ x = Snapshot(s, u) OBVIOUS
  <2>2. printed[s] = None BY <1>5 DEF Launch
  <2> QED BY <1>3, <1>5, <2>1, LaunchIs, ListsMoveIs, <1>1, <2>2, RemovalsStay DEF LiveSound
<1>6. ASSUME NEW s \in Session, Exit(s) PROVE RemovedSound'
  <2>1. PICK next : next = Without(live, s) OBVIOUS
  <2>2. PICK selected : ListsMove(next, selected) BY <1>6, <2>1, ExitIs
  <2>3. /\ s \in Ids(live) /\ Departure(next, s) /\ Ids(next) = Ids(live) \ {s} /\ live' = next
        /\ printed' = printed
    BY <1>6, <2>1, <2>2, ExitIs, ListsMoveIs DEF Exit
  <2>4. Removed(s) \notin WrongRemovals' BY <2>3, <1>1 DEF WrongRemovals, Removed, LiveSound
  <2> QED BY <2>2, RemovalsStay, <1>1, <2>3, DiffDeparture, <2>4, ListsMoveRemoved DEF LiveSound
<1>7. ASSUME NEW s \in Session, Output(s) PROVE RemovedSound'
  <2>1. /\ printed' = [printed EXCEPT ![s] = printed[s] + 1] /\ live' = live /\ s \in Ids(live)
        /\ Extends(host, host', {"data"})
    BY <1>7, OutputIs
  <2> QED BY <2>1, <1>1, <1>7, OutputIs, NoneIs, RemovalsStay, ExtendsRemoved DEF LiveSound
<1>8. CASE Rearranged
  <2>1. PICK next, x : ListsMove(next, active) /\ Arrival(next, x) /\ Ids(next) = Ids(live)
    BY <1>8 DEF Rearranged
  <2> QED BY <1>3, <2>1, <1>8, ListsMoveIs, RemovalsStay DEF Rearranged, SameWorld
<1>9. ASSUME UNCHANGED <<live, printed, host>> PROVE RemovedSound'
  BY <1>9 DEF RemovedSound, WrongRemovals
<1>10. CASE Reselects
  <2>1. ASSUME NEW s, ListsMove(live, s), NoChange(live) PROVE RemovedSound'
    <3>1. Diff(live) = <<>> BY <2>1, DiffNone
    <3>2. Diff(live) \in Seq(OfType({"session"})) BY <3>1
    <3> QED BY <1>2, <2>1, <3>2, <1>10, ListsMoveIs, ListsMoveRemoved DEF Reselects, SameWorld
  <2> QED BY <1>9, <1>10, <2>1 DEF Reselects, SameWorld
<1>11. ASSUME UNCHANGED <<live, printed>>, host'.out = host.out \/ host'.out = <<>> PROVE RemovedSound'
  BY <1>11, ClearEmpty DEF RemovedSound, WrongRemovals
<1>12. CASE ResolveView \/ DisposeView \/ ReloadDocument \/ DocumentLoads
  BY <1>11, <1>12, ResolveViewIs, DisposeViewIs, ReloadDocumentIs, DocumentLoadsIs
<1>13. CASE DocumentReceives
  <2>1. PICK q : q = host.out OBVIOUS
  <2>2. q \in Seq(HostMessages) /\ q # <<>> /\ host'.out = Tail(q) /\ UNCHANGED <<live, printed>>
    BY <1>13, ReceivesIs, <2>1, AppliesIs DEF TypesSound
  <2> QED BY <2>2, <2>1, ClearTail DEF RemovedSound, WrongRemovals
<1>14. CASE Ready BY <1>14, ReadyRemoved
<1>15. ASSUME NEW s \in Session, ClickTab(s) \/ ClickClose(s) \/ ClickRename(s) PROVE RemovedSound'
  BY <1>9, <1>15, ClickIs
<1>16. CASE UNCHANGED vars BY <1>9, <1>16 DEF vars
<1> QED
  BY <1>4, <1>5, <1>6, <1>7, <1>8, <1>10, <1>12, <1>13, <1>14, <1>15, <1>16, StepKinds DEF OnLists,
     OnDocument
\* The sessions of a list, with all they have printed, or more in a document
\* hydrated twice.
ShownOf(e, ss, out) ==
    /\ e.tabs = ss /\ e.hydrates > 0
    /\ \A s \in Ids(ss) : /\ e.terminal[s] # None
                          /\ e.terminal[s] = out[s] \/ (e.hydrates = 2 /\ e.terminal[s] > out[s])

\* What a document shows, and the fields of it.
LEMMA ContentTypes ==
    ASSUME NEW e \in Contents
    PROVE  /\ e.tabs \in Seq(Snapshots) /\ e.hydrates \in 0..2
           /\ e.terminal \in [Session -> Nat \cup {None}]
           /\ \A s \in Session : e.terminal[s] # None => e.terminal[s] \in Nat
BY DEF Contents

LEMMA ShownArrival ==
    ASSUME LiveSound, NEW e \in Contents, ShownOf(e, live, printed), NEW next, NEW x, Arrival(next, x),
           NEW out, \A s \in Ids(live) : out[s] = printed[s], x.id \notin Ids(live) => out[x.id] = 0
    PROVE  ShownOf(Follow(e, SessionOf(x)), next, out)
<1>1. PICK n, id, terminal : /\ n = Follow(e, SessionOf(x)) /\ id = x.id
                             /\ terminal = Ensured(e.terminal[id])
  OBVIOUS
<1>2. x \in Snapshots /\ id \in Session /\ next = WithSession(live, x)
  BY <1>1 DEF Arrival, Snapshots
<1>3. /\ e.tabs = live /\ e.hydrates > 0 /\ live \in Seq(Snapshots)
      /\ e.terminal \in [Session -> Nat \cup {None}]
  BY ContentTypes DEF ShownOf, LiveSound
<1>4. n.tabs = next /\ n.hydrates = e.hydrates /\ n.terminal = [e.terminal EXCEPT ![id] = terminal]
  <2>1. n = AfterSession(e, SessionOf(x)) BY <1>1 DEF Follow, SessionOf
  <2>2. n = [e EXCEPT !.tabs = WithSession(e.tabs, x), !.terminal = [e.terminal EXCEPT ![id] = terminal]]
    BY <1>1, <1>3, <2>1 DEF AfterSession, SessionOf
  <2> QED BY <1>2, <1>3, <2>2 DEF Contents
<1>5. e.terminal[id] \in Nat \cup {None} /\ terminal \in Nat /\ terminal # None
      /\ (e.terminal[id] # None => terminal = e.terminal[id]) /\ (e.terminal[id] = None => terminal = 0)
  <2>1. PICK t : t = e.terminal[id] OBVIOUS
  <2> QED BY <1>1, <2>1, <1>2, <1>3, EnsuredIs DEF Ensured
<1>6. n.terminal[id] = terminal /\ \A s \in Session : s # id => n.terminal[s] = e.terminal[s]
  BY <1>2, <1>3, <1>4
<1>7. Ids(live) \subseteq Session BY <1>3, IdsAre
<1>8. ASSUME NEW s \in Ids(next)
       PROVE  /\ n.terminal[s] # None
              /\ n.terminal[s] = out[s] \/ (n.hydrates = 2 /\ n.terminal[s] > out[s])
  <2>1. CASE s # id BY <1>4, <1>1, <1>2, <1>3, WithSessionIs, <1>6, <1>7, <1>8, <2>1 DEF ShownOf
  <2>2. CASE s = id /\ id \in Ids(live) BY <1>4, <1>5, <1>6, <2>2 DEF ShownOf
  <2>3. CASE s = id /\ id \notin Ids(live) BY <1>1, <1>5, <1>6, <1>2, <1>3, <2>3 DEF Contents
  <2> QED BY <2>1, <2>2, <2>3
<1> QED BY <1>1, <1>3, <1>4, <1>8 DEF ShownOf

LEMMA ShownDeparture ==
    ASSUME LiveSound, NEW e \in Contents, ShownOf(e, live, printed), NEW next, NEW s, Departure(next, s)
    PROVE  ShownOf(Follow(e, Removed(s)), next, printed)
<1>1. PICK n : n = Follow(e, Removed(s)) OBVIOUS
<1>2. s \in Session /\ next = Without(live, s) /\ Ids(next) = Ids(live) \ {s} /\ Ids(live) \subseteq Session
  BY IdsAre, WithoutIs DEF Departure, LiveSound
<1> QED BY <1>1, <1>2, ContentTypes DEF ShownOf, Follow, AfterRemoval, Removed, Contents

DataOf(s, n) == [type |-> "data", id |-> s, pieces |-> n]

\* Output of a session that the document has.
LEMMA DataIs ==
    ASSUME NEW e \in Contents, NEW s \in Session, e.terminal[s] # None, NEW k \in Nat
    PROVE  LET n == Follow(e, DataOf(s, k))
           IN  /\ n.tabs = e.tabs /\ n.hydrates = e.hydrates
               /\ n.terminal = [e.terminal EXCEPT ![s] = e.terminal[s] + k]
               /\ n = [e EXCEPT !.terminal = [e.terminal EXCEPT ![s] = e.terminal[s] + k]]
<1> QED BY DEF Contents, AfterData, DataOf, Follow

LEMMA ShownOutput ==
    ASSUME LiveSound, NEW e \in Contents, ShownOf(e, live, printed), NEW s \in Ids(live),
           NEW out, out = [printed EXCEPT ![s] = printed[s] + 1]
    PROVE  ShownOf(Follow(e, DataOf(s, 1)), live, out)
<1>1. PICK n : n = Follow(e, DataOf(s, 1)) OBVIOUS
<1>2. /\ s \in Session /\ e.terminal \in [Session -> Nat \cup {None}] /\ e.terminal[s] # None
      /\ printed \in [Session -> (0..MaxOutput) \cup {None}] /\ printed[s] # None
      /\ Ids(live) \subseteq Session
  BY IdsAre, ContentTypes DEF LiveSound, ShownOf
<1>3. /\ n.tabs = e.tabs /\ n.hydrates = e.hydrates
      /\ n.terminal = [e.terminal EXCEPT ![s] = e.terminal[s] + 1]
  <2>1. PICK k : k = 1 OBVIOUS
  <2>2. k \in Nat /\ n = Follow(e, DataOf(s, k)) BY <1>1, <2>1
  <2>3. /\ n.tabs = e.tabs /\ n.hydrates = e.hydrates
        /\ n.terminal = [e.terminal EXCEPT ![s] = e.terminal[s] + k]
    BY <1>2, <2>2, DataIs
  <2> QED BY <2>1, <2>3
<1>4. e.terminal[s] \in Nat /\ printed[s] \in Nat /\ n.terminal[s] = e.terminal[s] + 1 /\ out[s] = printed[s] + 1
  BY <1>2, <1>3, BoundAssumption
<1>5. n.terminal[s] = out[s] \/ (n.hydrates = 2 /\ n.terminal[s] > out[s])
  <2>1. PICK t, p : t = e.terminal[s] /\ p = printed[s] OBVIOUS
  <2> QED BY <1>3, <1>4, <2>1 DEF ShownOf
<1> QED BY <1>1, <1>2, <1>3, <1>4, NoneIs, <1>5 DEF ShownOf

\* One more message.
LEMMA LeadsMore ==
    ASSUME NEW q \in Seq(HostMessages), NEW m \in HostMessages, NEW c, NEW e \in Contents, Leads(c, q, e)
    PROVE  Leads(c, q \o <<m>>, Follow(e, m)) /\ Follow(e, m) \in Contents
<1>1. PICK n : n = Follow(e, m) OBVIOUS
<1>2. Leads(e, <<m>>, n) /\ n \in Contents BY <1>1, LeadsOne
<1>3. PICK ms : ms = <<m>> OBVIOUS
<1>4. ms \in Seq(HostMessages) /\ Leads(e, ms, n) BY <1>2, <1>3
<1>5. Leads(c, q \o ms, n) BY <1>4, LeadsConcat
<1> QED BY <1>1, <1>2, <1>3, <1>5
\* What a document that is told everything shows.
Replayed(e, k) ==
    [e EXCEPT !.terminal = [s \in Session |-> IF \E n \in 1..k : Talked[n].id = s THEN e.terminal[s] + printed[s]
                                              ELSE e.terminal[s]]]

LEMMA ReplayLeads ==
    ASSUME LiveSound, NEW e \in Contents, e.tabs = live, \A s \in Ids(live) : e.terminal[s] # None
    PROVE  LET n == Replayed(e, Len(Talked))
           IN  Leads(e, Replay, n) /\ n \in Contents
<1>1. PICK k, t, q : k = Len(Talked) /\ t = [i \in 0..k |-> Replayed(e, i)] /\ q = Replay OBVIOUS
<1>2. /\ Talked \in Seq(Snapshots) /\ Distinct(Talked) /\ DOMAIN Talked = 1..k /\ k \in Nat
      /\ \A i \in 1..k : /\ Talked[i].id \in Ids(live) /\ Talked[i].id \in Session
                         /\ printed[Talked[i].id] \in 1..MaxOutput
      /\ q \in Seq(OfType({"data"})) /\ Len(q) = k
  BY <1>1, TalkedIs
<1>3. e.terminal \in [Session -> Nat \cup {None}] /\ e.hydrates \in 0..2 /\ e.tabs \in Seq(Snapshots)
  BY ContentTypes
<1>4. \A i \in 1..k : q[i] = DataOf(Talked[i].id, printed[Talked[i].id])
  BY <1>1, <1>2 DEF Replay, DataOf
<1>5. ASSUME NEW i \in 0..k
      PROVE  /\ t[i] \in Contents /\ t[i].terminal \in [Session -> Nat \cup {None}]
             /\ t[i] = Replayed(e, i)
  <2>1. PICK r, terminal : r = t[i]
           /\ terminal = [s \in Session |-> IF \E n \in 1..i : Talked[n].id = s THEN e.terminal[s] + printed[s]
                                            ELSE e.terminal[s]]
    OBVIOUS
  <2>2. r = Replayed(e, i) BY <1>1, <1>5, <2>1
  <2>3. r.tabs = e.tabs /\ r.hydrates = e.hydrates /\ r.terminal = terminal
        /\ r = [e EXCEPT !.terminal = terminal]
    BY <2>1, <2>2 DEF Replayed, Contents
  <2>4. ASSUME NEW s \in Session
        PROVE  /\ terminal[s] \in Nat \cup {None}
               /\ terminal[s] = None <=> e.terminal[s] = None
    <3>1. CASE \E n \in 1..i : Talked[n].id = s
      <4>1. s \in Ids(live) /\ printed[s] \in Nat BY <1>2, <1>5, <3>1, BoundAssumption
      <4> QED BY <1>3, <2>1, <3>1, <4>1, NoneIs
    <3>2. CASE ~\E n \in 1..i : Talked[n].id = s BY <1>3, <2>1, <3>2
    <3> QED BY <3>1, <3>2
  <2>5. terminal \in [Session -> Nat \cup {None}] BY <2>1, <2>4
  <2>6. r \in Contents BY <2>3, <2>4, <2>5, <1>3, IdsAre, ContentIs DEF Contents
  <2> QED BY <2>1, <2>2, <2>3, <2>5, <2>6
<1>6. t \in [0..k -> Contents] BY <1>1, <1>5
<1>7. t[0] = e BY <1>3, <1>2, <1>5 DEF Replayed, Contents
<1>8. ASSUME NEW i \in 1..k PROVE t[i] = Follow(t[i - 1], q[i])
  <2>1. PICK s, c, p : s = Talked[i].id /\ c = t[i - 1] /\ p = printed[s] OBVIOUS
  <2>2. i \in 0..k /\ i - 1 \in 0..k /\ s \in Session /\ s \in Ids(live) /\ p \in Nat
    BY <1>2, <2>1, BoundAssumption
  <2>3. c \in Contents /\ c = Replayed(e, i - 1) /\ t[i] = Replayed(e, i) BY <1>5, <2>1, <2>2
  <2>4. c.terminal[s] = e.terminal[s] BY <2>2, <2>3, <1>2, <2>1 DEF Replayed, Contents, Distinct
  <2>5. Follow(c, DataOf(s, p)) = [c EXCEPT !.terminal = [c.terminal EXCEPT ![s] = c.terminal[s] + p]]
    <3>1. PICK d : d = DataOf(s, p) OBVIOUS
    <3> QED BY <3>1, <2>2, <2>4 DEF AfterData, Follow, DataOf
  <2>6. [c.terminal EXCEPT ![s] = c.terminal[s] + p] =
          [x \in Session |-> IF \E n \in 1..i : Talked[n].id = x THEN e.terminal[x] + printed[x]
                             ELSE e.terminal[x]]
    <3>1. c.terminal = [x \in Session |-> IF \E n \in 1..(i - 1) : Talked[n].id = x THEN e.terminal[x] + printed[x]
                                          ELSE e.terminal[x]]
      BY <2>3 DEF Replayed, Contents
    <3>2. \A x \in Session : x # s => ((\E n \in 1..i : Talked[n].id = x) <=> \E n \in 1..(i - 1) : Talked[n].id = x)
      BY <2>1, <2>2
    <3> QED BY <2>1, <2>2, <2>4, <3>1, <3>2
  <2>7. Replayed(e, i) = [c EXCEPT !.terminal = [c.terminal EXCEPT ![s] = c.terminal[s] + p]]
    BY <2>3, <2>6 DEF Replayed, Contents
  <2> QED BY <1>4, <2>1, <2>3, <2>5, <2>7
<1>9. k \in 0..k /\ t[k] = Replayed(e, k) /\ t[k] \in Contents BY <1>2, <1>5
<1> QED BY <1>1, <1>9, <1>2, <1>6, <1>7, <1>8 DEF Leads

\* The document that is told everything shows everything.
LEMMA HydrateShows ==
    ASSUME LiveSound, NEW e \in Contents, NEW m \in OfType({"hydrate"}), m.sessions = live
    PROVE  \E n \in Contents : Leads(e, <<m>> \o Replay, n) /\ ShownOf(n, live, printed)
<1>1. PICK f : f = Follow(e, m) OBVIOUS
<1>2. m \in HostMessages /\ m.type = "hydrate" BY DEF OfType
<1>3. f \in Contents /\ Leads(e, <<m>>, f) BY <1>1, <1>2, LeadsOne
<1>4. e.terminal \in [Session -> Nat \cup {None}] /\ e.hydrates \in 0..2 /\ e.tabs \in Seq(Snapshots)
  BY ContentTypes
<1>5. /\ f.tabs = live /\ f.hydrates = (IF e.hydrates = 0 THEN 1 ELSE 2)
      /\ f.terminal = [s \in Session |-> IF s \in Ids(live) THEN Ensured(e.terminal[s]) ELSE None]
  BY <1>1, <1>2 DEF AfterHydrate, Contents, Follow
<1>6. Ids(live) \subseteq Session /\ \A s \in Ids(live) : printed[s] \in Nat
  BY IdsAre, BoundAssumption DEF LiveSound
<1>7. ASSUME NEW s \in Ids(live)
      PROVE  /\ f.terminal[s] \in Nat /\ f.terminal[s] # None
             /\ e.hydrates = 0 => f.terminal[s] = 0
  <2>1. PICK x : x = e.terminal[s] OBVIOUS
  <2> QED BY <1>4, <1>5, <1>6, <1>7, <2>1, EnsuredIs DEF Ensured, Contents
<1>8. PICK n : n = Replayed(f, Len(Talked)) OBVIOUS
<1>9. Leads(f, Replay, n) /\ n \in Contents BY <1>3, <1>5, <1>7, <1>8, ReplayLeads
<1>10. PICK first, ms : first = <<m>> /\ ms = Replay OBVIOUS
<1>11. first \in Seq(HostMessages) /\ ms \in Seq(HostMessages) /\ Leads(e, first, f) /\ Leads(f, ms, n)
  BY <1>2, <1>3, <1>9, <1>10, TalkedIs, SubSequence DEF OfType
<1>12. Leads(e, first \o ms, n) BY <1>11, LeadsConcat
<1>13. /\ n.tabs = f.tabs /\ n.hydrates = f.hydrates
       /\ n.terminal = [s \in Session |-> IF \E k \in 1..Len(Talked) : Talked[k].id = s THEN f.terminal[s] + printed[s]
                                          ELSE f.terminal[s]]
  BY <1>3, <1>8 DEF Replayed, Contents
<1>14. ASSUME NEW s \in Ids(live)
       PROVE  /\ n.terminal[s] # None
              /\ n.terminal[s] = printed[s] \/ (n.hydrates = 2 /\ n.terminal[s] > printed[s])
  <2>1. n.terminal[s] = f.terminal[s] + printed[s]
    <3>1. CASE \E k \in 1..Len(Talked) : Talked[k].id = s BY <1>6, <1>13, <3>1
    <3>2. CASE ~\E k \in 1..Len(Talked) : Talked[k].id = s
      <4>1. printed[s] = 0 BY <3>2, TalkedIs
      <4> QED BY <1>7, <4>1, <1>6, <1>13, <3>2
    <3> QED BY <3>1, <3>2
  <2>2. PICK a, p : a = f.terminal[s] /\ p = printed[s] OBVIOUS
  <2>3. n.hydrates # 2 => a = 0 BY <1>4, <1>5, <1>7, <1>13, <2>2
  <2> QED BY <2>2, <1>6, <1>7, <2>1, NoneIs, <2>3
<1>15. n.tabs = live /\ n.hydrates > 0 BY <1>5, <1>13
<1> QED BY <1>9, <1>10, <1>12, <1>14, <1>15 DEF ShownOf
\* What the messages under way make of the document is the list there is, once
\* the host has heard of it.
ContentSound ==
    page # None =>
        \E e \in Contents : Leads(Content(page), host.out, e) /\ (Seen => ShownOf(e, live, printed))

SameDocument == page # None /\ page' # None /\ page'.id = page.id /\ Content(page') = Content(page)

\* A message about the sessions, and others.
LEMMA ContentMore ==
    ASSUME TypesSound, DocSound, ContentSound, SameDocument, host'.seen = host.seen,
           NEW m \in HostMessages, NEW t \in SoundHosts, t = Posted(host, <<m>>),
           NEW kinds, kinds \cap Telling = {}, Extends(t, host', kinds),
           \A e \in Contents : ShownOf(e, live, printed) => ShownOf(Follow(e, m), live', printed')
    PROVE  ContentSound'
<1>1. PICK e \in Contents : Leads(Content(page), host.out, e) /\ (Seen => ShownOf(e, live, printed))
  BY DEF ContentSound, SameDocument
<1>2. PICK c, q : c = Content(page) /\ q = host.out OBVIOUS
<1>3. host \in Hosts /\ t \in Hosts /\ q \in Seq(HostMessages) /\ t.out = IF host.ready THEN q \o <<m>> ELSE q
  BY <1>2, HostIs, PostedKeeps DEF SoundHosts
<1>4. PICK f : f = IF host.ready THEN Follow(e, m) ELSE e OBVIOUS
<1>5. Leads(c, t.out, f) /\ f \in Contents BY <1>1, <1>2, <1>3, <1>4, LeadsMore
<1>6. Leads(c, host'.out, f)
  <2>1. PICK n : n = host' OBVIOUS
  <2> QED BY <2>1, <1>3, <1>5, LeadsExtends
<1> QED BY <1>5, <1>6, <1>1, <1>4, SeenIs, <1>2 DEF ContentSound, SameDocument, Seen

\* Other messages only.
LEMMA ContentIdle ==
    ASSUME TypesSound, DocSound, ContentSound, SameDocument, NEW kinds, kinds \cap Telling = {},
           Extends(host, host', kinds), UNCHANGED <<live, printed>>
    PROVE  ContentSound'
<1>1. PICK e \in Contents : Leads(Content(page), host.out, e) /\ (Seen => ShownOf(e, live, printed))
  BY DEF ContentSound, SameDocument
<1>2. PICK c, n : c = Content(page) /\ n = host' OBVIOUS
<1>3. Seen' <=> Seen BY DEF Seen, SameDocument, Extends
<1> QED BY <1>1, <1>2, HostIs, LeadsExtends, <1>3 DEF ContentSound, SameDocument

LEMMA ContentArrival ==
    ASSUME TypesSound, DocSound, ContentSound, page # None, page' = page,
           NEW next, NEW selected, ListsMove(next, selected), NEW x, Arrival(next, x),
           \A s \in Ids(live) : printed'[s] = printed[s], x.id \notin Ids(live) => printed'[x.id] = 0
    PROVE  ContentSound'
<1>1. PICK m : m = SessionOf(x) OBVIOUS
<1>2. Diff(next) = <<m>> /\ m \in HostMessages BY <1>1, DiffArrival DEF OfType
<1>3. PICK t \in SoundHosts : t = Posted(host, <<m>>) /\ Extends(t, host', Selections)
  BY <1>2, ListsMoveForm
<1>4. PICK out : out = printed' OBVIOUS
<1> QED
  BY <1>2, <1>3, <1>4, <1>1, HostIs, ShownArrival, ListsMoveIs, ContentMore DEF SameDocument,
     Selections, Telling

LEMMA ContentDeparture ==
    ASSUME TypesSound, DocSound, ContentSound, page # None, page' = page, printed' = printed,
           NEW next, NEW selected, ListsMove(next, selected), NEW s, Departure(next, s)
    PROVE  ContentSound'
<1>1. PICK m : m = Removed(s) OBVIOUS
<1>2. Diff(next) = <<m>> /\ m \in HostMessages BY <1>1, HostIs, DiffDeparture DEF OfType, LiveSound
<1>3. PICK t \in SoundHosts : t = Posted(host, <<m>>) /\ Extends(t, host', Selections)
  BY <1>2, ListsMoveForm
<1>4. SameDocument /\ Selections \cap Telling = {} BY DEF SameDocument, Selections, Telling
<1> QED BY <1>2, <1>3, <1>1, HostIs, ShownDeparture, ListsMoveIs, <1>4, ContentMore

LEMMA ContentNoChange ==
    ASSUME TypesSound, DocSound, ContentSound, page # None, page' = page, printed' = printed,
           NEW selected, ListsMove(live, selected), NoChange(live)
    PROVE  ContentSound'
<1>1. PICK t \in SoundHosts : t = Posted(host, <<>>) /\ Extends(t, host', Selections)
  BY DiffNone, ListsMoveForm
<1>2. PICK ms : ms = <<>> OBVIOUS
<1>3. ms \in Seq(OfType(Selections)) /\ t = Posted(host, ms) BY <1>1, <1>2
<1>4. Extends(host, host', Selections) BY <1>1, HostIs, <1>3, PostedIs, ExtendsTwice DEF SoundHosts
<1> QED BY <1>4, ListsMoveIs, ContentIdle DEF SameDocument, Selections, Telling

LEMMA ContentOutput ==
    ASSUME TypesSound, DocSound, ContentSound, page # None, NEW s \in Session, Output(s)
    PROVE  ContentSound'
<1>1. PICK m, out : m = DataOf(s, 1) /\ out = printed' OBVIOUS
<1>2. /\ s \in Ids(live) /\ out = [printed EXCEPT ![s] = printed[s] + 1]
      /\ m \in OfType({"data"}) /\ host' = Posted(host, <<m>>) /\ host' \in SoundHosts
      /\ live' = live /\ page' = page
  BY <1>1, OutputIs DEF DataOf
<1>3. \A e \in Contents : ShownOf(e, live, printed) => ShownOf(Follow(e, m), live, out)
  BY <1>1, <1>2, HostIs, ShownOutput
<1>4. PICK t \in SoundHosts : t = host' BY <1>2
<1>5. Extends(t, host', {}) /\ t.seen = host.seen
  BY <1>4, ExtendsSelf, <1>2, HostIs, PostedKeeps DEF SoundHosts
<1>6. SameDocument /\ {} \cap Telling = {} /\ m \in HostMessages BY <1>2 DEF SameDocument, OfType
<1> QED BY <1>1, <1>2, <1>3, <1>4, <1>5, <1>6, ContentMore
LEMMA ReadyContent ==
    ASSUME TypesSound, DocSound, ContentSound, Ready
    PROVE  ContentSound'
<1>1. UNCHANGED <<live, printed, page>> /\ page # None /\ host.open /\ LiveSound
  BY ReadySeen, HostIs
<1>2. ASSUME host' = host PROVE ContentSound' BY <1>1, <1>2 DEF ContentSound, Seen
<1>3. ASSUME NEW d \in Documents, d \notin host.seen, host' = Hydrated(host, d) PROVE ContentSound'
  <2>1. PICK m, z, ms, q : /\ m = Hydration(host) /\ ms = <<m>> \o Replay /\ q = host.out
                           /\ z = [type |-> "invalidated", doc |-> d, revision |-> host.revision + 1]
    OBVIOUS
  <2>2. /\ m \in OfType({"hydrate"}) /\ z \in OfType({"invalidated"})
        /\ ms \in Seq(HostMessages) /\ <<z>> \in Seq(HostMessages)
        /\ host'.out = (q \o ms) \o <<z>>
    BY <1>1, <1>3, <2>1, HydratedOut
  <2>3. PICK e \in Contents : Leads(Content(page), q, e) BY <1>1, <2>1 DEF ContentSound
  <2>4. PICK n \in Contents : Leads(e, ms, n) /\ ShownOf(n, live, printed)
    BY <1>1, <2>1, <2>2, HydrateShows DEF Hydration
  <2>5. q \in Seq(HostMessages) /\ q \o ms \in Seq(HostMessages) BY <2>1, <2>2, HostIs, ConcatFacts
  <2>6. PICK c, p : c = Content(page) /\ p = q \o ms OBVIOUS
  <2>7. Leads(c, p, n) BY <2>2, <2>3, <2>4, <2>5, <2>6, LeadsConcat
  <2>8. Leads(n, <<z>>, n)
    <3>1. PICK zs : zs = <<z>> OBVIOUS
    <3>2. zs \in Seq(OfType({"invalidated"})) /\ {"invalidated"} \cap Telling = {}
      BY <2>2, <3>1 DEF Telling
    <3> QED BY <3>1, <3>2, LeadsIdle
  <2>9. Leads(c, p \o <<z>>, n)
    <3>1. PICK zs : zs = <<z>> OBVIOUS
    <3>2. zs \in Seq(HostMessages) /\ p \in Seq(HostMessages) /\ Leads(n, zs, n)
      BY <2>2, <2>5, <2>6, <2>8, <3>1
    <3> QED BY <2>7, <3>1, <3>2, LeadsConcat
  <2> QED BY <1>1, <2>2, <2>4, <2>6, <2>9 DEF ContentSound, ShownOf
<1> QED BY <1>2, <1>3, ReadySeen

LEMMA NextKeepsContent ==
    ASSUME TypesSound, DocSound, ContentSound, [Next]_vars
    PROVE  ContentSound'
<1> SUFFICES ASSUME page' # None PROVE ContentSound' BY DEF ContentSound
<1>1. ASSUME page' = page, page # None PROVE SameDocument BY <1>1 DEF SameDocument
<1>2. CASE AsideStep BY <1>1, <1>2, ContentIdle DEF AsideStep, Asides, Telling
<1>3. ASSUME NEW s \in Session, NEW u \in Uuid, Launch(s, u) PROVE ContentSound'
  <2>1. PICK next, x : next = Append(live, Snapshot(s, u)) /\ x = Snapshot(s, u) OBVIOUS
  <2>2. /\ ListsMove(next, s) /\ Arrival(next, x) /\ s \notin Ids(live)
        /\ printed' = [printed EXCEPT ![s] = 0] /\ page' = page
    BY <1>3, <2>1, LaunchIs DEF Launch
  <2> QED BY <2>2, <2>1, HostIs, IdsAre, ContentArrival DEF LiveSound, Snapshot
<1>4. ASSUME NEW s \in Session, Exit(s) PROVE ContentSound'
  <2>1. PICK next : next = Without(live, s) OBVIOUS
  <2>2. PICK selected : ListsMove(next, selected) BY <1>4, <2>1, ExitIs
  <2>3. Departure(next, s) /\ printed' = printed /\ page' = page BY <1>4, <2>1, ExitIs DEF Exit
  <2> QED BY <2>2, <2>3, ContentDeparture
<1>5. ASSUME NEW s \in Session, Output(s) PROVE ContentSound'
  <2>1. page' = page BY <1>5, OutputIs
  <2> QED BY <1>5, <2>1, ContentOutput
<1>6. CASE Rearranged
  <2>1. PICK next, x : ListsMove(next, active) /\ Arrival(next, x) /\ Ids(next) = Ids(live)
    BY <1>6 DEF Rearranged
  <2>2. page' = page /\ printed' = printed /\ live \in Seq(Snapshots)
    BY <1>6, HostIs DEF Rearranged, SameWorld, LiveSound
  <2>3. x.id \in Ids(live) BY <2>1, <2>2, WithSessionIs DEF Arrival
  <2> QED BY <2>1, <2>2, <2>3, ContentArrival
<1>7. ASSUME UNCHANGED <<live, printed, host>>, SameDocument PROVE ContentSound'
  <2>1. Extends(host, host', {}) BY <1>7, HostIs, ExtendsSelf
  <2> QED BY <1>7, <2>1, ContentIdle
<1>8. CASE Reselects BY <1>1, <1>7, <1>8, ContentNoChange DEF Reselects, SameWorld
<1>9. CASE ResolveView \/ DisposeView \/ ReloadDocument
  <2>1. PICK c : c = Content(page') OBVIOUS
  <2> QED
    BY <1>9, ResolveViewIs, DisposeViewIs, ReloadDocumentIs, <2>1, DocumentIs, LeadsNone, NewUnseen DEF
       ContentSound
<1>10. CASE DocumentLoads
  <2>1. PICK c, q : c = Content(page) /\ q = host'.out OBVIOUS
  <2> QED
    BY <1>10, <2>1, DocumentLoadsIs, LeadsNone, NewUnseen DEF ContentSound, TypesSound, ViewSound
<1>11. CASE DocumentReceives
  <2>1. Applies(Received.type, page') /\ Shows(page', Received) BY <1>11, ReceivesIs
  <2>2. PICK q, m, c : q = host.out /\ m = Received /\ c = Content(page) OBVIOUS
  <2>3. /\ q \in Seq(HostMessages) /\ q # <<>> /\ m = Head(q) /\ host'.out = Tail(q) /\ page # None
        /\ UNCHANGED <<live, printed>> /\ host'.seen = host.seen
    BY <2>1, <2>2, AppliesIs DEF TypesSound, Received
  <2>4. PICK e \in Contents : Leads(c, q, e) /\ (Seen => ShownOf(e, live, printed))
    BY <2>2, <2>3 DEF ContentSound
  <2> QED BY <2>3, <2>4, LeadsTail, <2>1, <2>2 DEF ContentSound, Seen, ShownOf, Shows
<1>12. CASE Ready BY <1>12, ReadyContent
<1>13. ASSUME NEW s \in Session, ClickTab(s) \/ ClickClose(s) \/ ClickRename(s) PROVE ContentSound'
  <2>1. page # None /\ page'.id = page.id /\ Content(page') = Content(page) /\ UNCHANGED <<live, printed, host>>
    BY <1>13, ClickIs
  <2> QED BY <1>7, <2>1 DEF SameDocument
<1>14. CASE UNCHANGED vars BY <1>1, <1>7, <1>14 DEF vars
<1> QED
  BY <1>2, <1>3, <1>4, <1>5, <1>6, <1>8, <1>9, <1>10, <1>11, <1>12, <1>13, <1>14, StepKinds DEF
     OnLists, OnDocument
--------------------
(* The selection the document shows *)

Setters == {"hydrate", "active"}
SetMessages == {m \in HostMessages : m.type \in Setters}
SetOf(s) == {m \in SetMessages : s = IF m.type = "hydrate" THEN m.active ELSE m.id}

\* The last click on a tab that the host has not heard of is on this one.
Selects == {m \in WebviewMessages : m.type = "select"}
SelectOf(s) == [type |-> "select", id |-> s]
Asked(q, s) == EndsIn(q, Selects, {SelectOf(s)})

\* The document has the selection, or one of its own: of nothing, of a session
\* it will hear the end of, or of one the host will hear of.
Settles ==
    \/ page.active = active
    \/ /\ page.clicked
       /\ \/ page.active = None
          \/ Holds(host.out, Removed(page.active))
          \/ page.active \in Ids(live) /\ Asked(toHost, page.active)

\* The last selection under way is the present one, or the document is settled.
SelectedSound == Seen => Carried(host.out, SetMessages, SetOf(active), Settles)

LEMMA AskedTail ==
    ASSUME NEW q \in Seq(WebviewMessages), q # <<>>, NEW s, Asked(q, s)
    PROVE  Asked(Tail(q), s) \/ Head(q) = SelectOf(s)
<1>1. PICK right, so : right = {SelectOf(s)} /\ so = (Head(q) = SelectOf(s)) OBVIOUS
<1>2. so \in BOOLEAN /\ FALSE \in BOOLEAN /\ Carried(q, Selects, right, FALSE) /\ (Head(q) \in right => so)
  BY <1>1 DEF Asked, Carried
<1>3. Carried(Tail(q), Selects, right, so) BY <1>2, CarriedTail
<1> QED BY <1>1, <1>3 DEF Carried, Asked

LEMMA AskedAppend ==
    ASSUME NEW q \in Seq(WebviewMessages), NEW m \in WebviewMessages, NEW s
    PROVE  /\ m \notin Selects /\ Asked(q, s) => Asked(Append(q, m), s)
           /\ m = SelectOf(s) => Asked(Append(q, m), s)
<1>1. PICK p : p = Append(q, m) OBVIOUS
<1>2. /\ Len(q) \in Nat /\ DOMAIN q = 1..Len(q) /\ DOMAIN p = 1..(Len(q) + 1)
      /\ \A i \in 1..Len(q) : p[i] = q[i]
      /\ p[Len(q) + 1] = m
  BY <1>1, AppendedFacts
<1>3. ASSUME m \notin Selects, Asked(q, s) PROVE Asked(p, s)
  <2>1. PICK i \in DOMAIN q : q[i] \in {SelectOf(s)} /\ \A j \in DOMAIN q : j > i => q[j] \notin Selects
    BY <1>3 DEF Asked, EndsIn
  <2>2. \A j \in DOMAIN p : j > i => p[j] \notin Selects
    <3>1. SUFFICES ASSUME NEW j \in DOMAIN p, j > i PROVE p[j] \notin Selects OBVIOUS
    <3> QED BY <1>2, <1>3, <2>1, <3>1
  <2> QED BY <1>2, <2>1, <2>2 DEF Asked, EndsIn
<1>4. ASSUME m = SelectOf(s) PROVE Asked(p, s) BY <1>2, <1>4 DEF Asked, EndsIn
<1> QED BY <1>1, <1>3, <1>4

LEMMA HoldsConcat ==
    ASSUME NEW S, NEW q \in Seq(S), NEW ms \in Seq(S), NEW m
    PROVE  Holds(q \o ms, m) <=> (Holds(q, m) \/ Holds(ms, m))
<1>1. PICK all : all = {m} OBVIOUS
<1>2. Clear(q \o ms, all) <=> (Clear(q, all) /\ Clear(ms, all)) BY ClearConcat
<1> QED BY <1>1, <1>2, HoldsClear

LEMMA HoldsExtends ==
    ASSUME NEW h \in Hosts, NEW n, NEW kinds, Extends(h, n, kinds), NEW m, Holds(h.out, m)
    PROVE  Holds(n.out, m)
<1>1. PICK ms \in Seq(OfType(kinds)) : n.out = h.out \o ms BY DEF Extends
<1>2. PICK q : q = h.out OBVIOUS
<1> QED BY <1>1, <1>2, OutIs, SubSequence, HoldsConcat DEF OfType

\* What changes of the list tell of the selection.
LEMMA ListsMoveSelected ==
    ASSUME TypesSound, NEW next, NEW selected, ListsMove(next, selected)
    PROVE  Tells(host, host', SetMessages, SetOf(selected), selected = active)
<1>1. /\ next \in Seq(Snapshots) /\ selected \in Session \cup {None}
      /\ host' = SessionsChanged(host, next, selected, known)
  BY ListsMoveIs
<1>2. host \in SoundHosts /\ host \in Hosts /\ live \in Seq(Snapshots) /\ known \in SUBSET Uuid
  BY HostIs DEF LiveSound
<1>3. PICK t, l, d : t = Told(host, next) /\ l = Relisted(host, next) /\ d = Reselected(host, next, selected)
  OBVIOUS
<1>4. /\ t \in SoundHosts /\ Extends(host, t, Differences)
      /\ l \in SoundHosts /\ Extends(t, l, {"invalidated"})
      /\ d \in SoundHosts /\ Extends(l, d, {"active"})
      /\ Extends(d, host', Listing)
  BY <1>1, <1>2, <1>3, SessionsChangedIs
<1>5. t \in Hosts /\ l \in Hosts /\ d \in Hosts BY <1>4 DEF SoundHosts
<1>6. \A m \in SetMessages : m.type \notin Differences /\ m.type \notin {"invalidated"} /\ m.type \notin Listing
  BY DEF SetMessages, Setters, Differences, Listing
<1>7. PICK all, right, same, n : all = SetMessages /\ right = SetOf(selected) /\ same = (selected = active) /\ n = host'
  OBVIOUS
<1>8. same \in BOOLEAN /\ TRUE \in BOOLEAN BY <1>7
<1>9. Tells(host, t, all, right, TRUE) /\ Tells(t, l, all, right, TRUE) /\ Tells(d, n, all, right, TRUE)
  BY <1>4, <1>6, <1>7, <1>8, TellsNothing
<1>10. Tells(l, d, all, right, same)
  <2>1. CASE selected = active
    <3>1. PICK kinds : kinds = {} OBVIOUS
    <3>2. Extends(l, l, kinds) /\ \A m \in all : m.type \notin kinds BY <1>5, <3>1, ExtendsSelf
    <3>3. same BY <1>7, <2>1
    <3>4. Tells(l, l, all, right, same) BY <1>8, <3>2, <3>3, TellsNothing
    <3> QED BY <1>3, <2>1, <3>4 DEF Reselected
  <2>2. CASE selected # active
    <3>1. PICK m : m = [type |-> "active", id |-> selected] OBVIOUS
    <3>2. m \in HostMessages /\ m \in right
      BY <1>1, <1>7, <3>1 DEF HostMessages, SetOf, SetMessages, Setters
    <3>3. l.ready => d.out = l.out \o <<m>>
      <4>1. PICK ms : ms = <<m>> OBVIOUS
      <4>2. d.out = IF l.ready THEN l.out \o ms ELSE l.out
        BY <1>5, <1>3, <2>2, <3>1, <4>1, PostedKeeps DEF SoundHosts, Reselected
      <4> QED BY <4>1, <4>2
    <3> QED BY <1>8, <3>2, <3>3, TellsOne
  <2> QED BY <2>1, <2>2
<1>11. t.ready = host.ready /\ l.ready = t.ready /\ d.ready = l.ready BY <1>4 DEF Extends
<1>12. Follows(right, TRUE, TRUE, right, TRUE) /\ Follows(right, TRUE, same, right, same) /\ Follows(right, same, TRUE, right, same)
  BY <1>8 DEF Follows
<1>13. Tells(host, l, all, right, TRUE) BY <1>2, <1>9, <1>11, <1>12, TellsTwice
<1>14. Tells(host, d, all, right, same) BY <1>2, <1>10, <1>11, <1>12, <1>13, TellsTwice
<1>15. Tells(host, n, all, right, same) BY <1>2, <1>9, <1>11, <1>12, <1>14, TellsTwice
<1> QED BY <1>7, <1>15
\* A host that tells its selection to the same document.
LEMMA TellsSelected ==
    ASSUME TypesSound, DocSound, SelectedSound,
           Tells(host, host', SetMessages, SetOf(active'), active' = active), host'.seen = host.seen,
           page' = page, active' = active /\ Settles => Settles'
    PROVE  SelectedSound'
<1> SUFFICES ASSUME Seen'
             PROVE  Carried(host'.out, SetMessages, SetOf(active'), Settles')
  BY DEF SelectedSound, SetMessages, SetOf
<1>1. Seen /\ host.ready BY SeenIs DEF Seen
<1>2. PICK was, right, wasSo, stays, so, n :
        /\ was = SetOf(active) /\ right = SetOf(active') /\ wasSo = Settles
        /\ stays = (active' = active) /\ so = Settles' /\ n = host'
  OBVIOUS
<1>3. Settles \in BOOLEAN /\ Settles' \in BOOLEAN BY DEF Settles
<1>4. Follows(was, wasSo, stays, right, so) BY <1>2, <1>3 DEF Follows
<1> QED BY <1>2, <1>1, <1>4, HostIs, TellsCarried DEF SelectedSound

\* A document that settled stays so while its choice is there, heard of or not.
LEMMA SettlesStay ==
    ASSUME TypesSound, Settles, page' = page, active' = active, NEW kinds, Extends(host, host', kinds),
           page.active \in Ids(live) /\ Asked(toHost, page.active) =>
               \/ page.active \in Ids(live') /\ Asked(toHost', page.active)
               \/ Holds(host'.out, Removed(page.active)) \/ page.active = active
    PROVE  Settles'
<1>1. PICK n, m : n = host' /\ m = Removed(page.active) OBVIOUS
<1> QED BY <1>1, HostIs, HoldsExtends DEF Settles, Removed

\* Steps that take another message, or none, and leave the sessions there are.
LEMMA AskedStays ==
    ASSUME TypesSound, NEW types, "select" \notin types, toHost' = toHost \/ Takes(types), NEW s, Asked(toHost, s)
    PROVE  Asked(toHost', s)
<1>1. PICK q : q = toHost OBVIOUS
<1>2. q \in Seq(WebviewMessages) /\ Asked(q, s) BY <1>1, HostIs
<1>3. CASE q # <<>> /\ Head(q).type # "select" /\ toHost' = Tail(q)
  BY <1>2, <1>3, AskedTail DEF SelectOf
<1> QED BY <1>1, <1>2, <1>3 DEF Takes

LEMMA AsideSelected ==
    ASSUME TypesSound, DocSound, SelectedSound, AsideStep
    PROVE  SelectedSound'
<1>1. /\ Extends(host, host', Asides) /\ UNCHANGED <<live, active, page>>
      /\ toHost' = toHost \/ Takes({"request", "rename", "close"})
  BY DEF AsideStep
<1>2. Tells(host, host', SetMessages, SetOf(active), TRUE)
  <2>1. \A m \in SetMessages : m.type \notin Asides BY DEF SetMessages, Setters, Asides
  <2>2. PICK n, right : n = host' /\ right = SetOf(active) OBVIOUS
  <2>3. Tells(host, n, SetMessages, right, TRUE) BY <1>1, <2>1, <2>2, TellsNothing
  <2> QED BY <2>2, <2>3
<1>3. Settles => Settles' BY <1>1, AskedStays, SettlesStay
<1>4. Tells(host, host', SetMessages, SetOf(active'), active' = active) BY <1>1, <1>2 DEF Tells
<1> QED BY <1>1, <1>3, <1>4, TellsSelected DEF Extends

\* The list changes.
LEMMA ListsSelected ==
    ASSUME TypesSound, DocSound, SelectedSound, NEW next, NEW selected, ListsMove(next, selected), page' = page,
           page.active \in Ids(live) /\ Asked(toHost, page.active) =>
               \/ page.active \in Ids(next) /\ Asked(toHost', page.active)
               \/ Holds(host'.out, Removed(page.active)) \/ page.active = active
    PROVE  SelectedSound'
<1>1. Extends(host, host', Differences \cup Selections)
  <2>1. PICK t \in SoundHosts : Extends(host, t, Differences) /\ Extends(t, host', Selections)
    BY ListsMoveForm
  <2>2. PICK kinds, n : kinds = Differences \cup Selections /\ n = host' OBVIOUS
  <2>3. Extends(host, t, kinds) /\ Extends(t, n, kinds) BY <2>1, <2>2, ExtendsWider
  <2> QED BY <2>2, <2>3, HostIs, ExtendsTwice
<1> QED BY ListsMoveIs, <1>1, SettlesStay, ListsMoveSelected, TellsSelected

\* The end of a session is told.
LEMMA ExitSelected ==
    ASSUME TypesSound, DocSound, SelectedSound, NEW s \in Session, Exit(s)
    PROVE  SelectedSound'
<1>1. PICK next : next = Without(live, s) OBVIOUS
<1>2. PICK selected : ListsMove(next, selected) BY <1>1, ExitIs
<1>3. Departure(next, s) /\ Ids(next) = Ids(live) \ {s} /\ page' = page /\ toHost' = toHost
  BY <1>1, ExitIs DEF Exit
<1> SUFFICES ASSUME Seen PROVE SelectedSound' BY <1>3, <1>2, ListsMoveIs DEF SelectedSound, Seen
<1>4. PICK m : m = Removed(s) OBVIOUS
<1>5. Diff(next) = <<m>> /\ m \in HostMessages
  BY <1>3, <1>4, HostIs, DiffDeparture DEF OfType, LiveSound
<1>6. PICK t \in SoundHosts : t = Posted(host, <<m>>) /\ Extends(t, host', Selections)
  BY <1>2, <1>5, ListsMoveForm
<1>7. host.ready /\ t.out = host.out \o <<m>> /\ t \in Hosts
  <2>1. PICK h, ms : h = host /\ ms = <<m>> OBVIOUS
  <2>2. h \in Hosts /\ h.ready /\ t = Posted(h, ms) /\ t \in Hosts
    BY <1>6, <2>1, SeenIs, HostIs DEF SoundHosts
  <2>3. t.out = IF h.ready THEN h.out \o ms ELSE h.out BY <2>2, PostedKeeps
  <2> QED BY <2>1, <2>2, <2>3
<1>8. Holds(t.out, m)
  <2>1. PICK q, ms : q = host.out /\ ms = <<m>> OBVIOUS
  <2>2. q \in Seq(HostMessages) /\ ms \in Seq(HostMessages) /\ ms[1] = m /\ 1 \in DOMAIN ms
    BY <1>5, <2>1, HostIs
  <2>3. Holds(ms, m) BY <2>2 DEF Holds
  <2>4. Holds(q \o ms, m) BY <2>2, <2>3, HoldsConcat
  <2> QED BY <1>7, <2>1, <2>4
<1>9. Holds(host'.out, m)
  <2>1. PICK n : n = host' OBVIOUS
  <2> QED BY <2>1, <1>6, <1>7, <1>8, HoldsExtends
<1> QED BY <1>2, <1>3, <1>4, <1>9, ListsSelected
\* A tab of a session that has ended is there until the end is told, unless a
\* hydration is under way.
LEMMA TabStays ==
    ASSUME NEW c \in Contents, NEW q \in Seq(HostMessages), NEW e, Leads(c, q, e), NEW s \in Session,
           s \in Ids(c.tabs), ~Holds(q, Removed(s)), \A i \in DOMAIN q : q[i].type # "hydrate"
    PROVE  s \in Ids(e.tabs)
<1>1. PICK t \in [0..Len(q) -> Contents] :
        t[0] = c /\ t[Len(q)] = e /\ \A i \in 1..Len(q) : t[i] = Follow(t[i - 1], q[i])
  BY DEF Leads
<1>2. PICK n, bad : n = Len(q) /\ bad = {i \in 0..n : s \notin Ids(t[i].tabs)} OBVIOUS
<1>3. n \in Nat /\ bad \in SUBSET (0..n) /\ 0 \notin bad BY <1>1, <1>2
<1>4. ASSUME NEW i \in 1..n, s \in Ids(t[i - 1].tabs) PROVE s \in Ids(t[i].tabs)
  <2>1. PICK d, m : d = t[i - 1] /\ m = q[i] OBVIOUS
  <2>2. d \in Contents /\ m \in HostMessages /\ i \in DOMAIN q /\ t[i] = Follow(d, m) /\ s \in Ids(d.tabs)
    BY <1>1, <1>2, <1>3, <1>4, <2>1
  <2>3. m.type # "hydrate" /\ m # Removed(s) /\ d.tabs \in Seq(Snapshots)
    BY <2>1, <2>2, ContentTypes DEF Holds
  <2>4. CASE m.type = "session"
    BY <2>2, <2>3, <2>4, MessageIs, WithSessionIs DEF Follow, AfterSession, Contents
  <2>5. CASE m.type = "removed"
    BY <2>2, <2>3, <2>5, WithoutIs DEF Follow, AfterRemoval, Contents, HostMessages, Removed
  <2>6. CASE m.type \notin {"session", "removed"}
    BY <2>2, <2>3, <2>6 DEF Follow, AfterData, Contents
  <2> QED BY <2>4, <2>5, <2>6
<1>5. \A i \in 1..n : i \in bad => i - 1 \in bad BY <1>2, <1>3, <1>4
<1>6. bad = {} BY <1>3, <1>5, NoneUpTo
<1> QED BY <1>1, <1>2, <1>6, <1>3

LEMMA ClickSelected ==
    ASSUME TypesSound, DocSound, ContentSound, SelectedSound,
           NEW s \in Session, ClickTab(s) \/ ClickClose(s) \/ ClickRename(s)
    PROVE  SelectedSound'
<1>1. PICK type \in {"select", "close", "rename"} :
        /\ [type |-> type, id |-> s] \in WebviewMessages
        /\ toHost' = Append(toHost, [type |-> type, id |-> s])
        /\ type # "select" => page' = page
        /\ type = "select" => page'.active = s /\ page'.clicked
  BY ClickIs
<1>2. /\ page # None /\ page \in Pages /\ s \in Ids(page.tabs) /\ page'.id = page.id
      /\ UNCHANGED <<live, active, printed, host>>
  BY ClickIs
<1>3. PICK q, m : q = toHost /\ m = [type |-> type, id |-> s] OBVIOUS
<1>4. q \in Seq(WebviewMessages) /\ m \in WebviewMessages /\ toHost' = Append(q, m)
  BY <1>1, <1>3, HostIs
<1> SUFFICES ASSUME Seen' PROVE Carried(host'.out, SetMessages, SetOf(active'), Settles')
  BY DEF SelectedSound, SetMessages, SetOf
<1>5. Seen BY <1>2 DEF Seen
<1>6. PICK out, wasSo, so : out = host.out /\ wasSo = Settles /\ so = Settles' OBVIOUS
<1>7. wasSo \in BOOLEAN /\ so \in BOOLEAN /\ Carried(out, SetMessages, SetOf(active), wasSo)
  BY <1>5, <1>6 DEF SelectedSound, Settles
<1>8. CASE type # "select"
  <2>1. Asked(toHost, page.active) => Asked(toHost', page.active)
    BY <1>3, <1>4, <1>8, AskedAppend DEF Selects
  <2>2. wasSo => so BY <1>1, <1>2, <1>6, <1>8, <2>1 DEF Settles, Removed
  <2> QED BY <1>2, <1>6, <1>7, <2>2, CarriedWider
<1>9. CASE type = "select"
  <2>1. Clear(out, SetMessages) => so
    <3>1. SUFFICES ASSUME Clear(out, SetMessages), s \notin Ids(live) PROVE Holds(out, Removed(s))
      BY <1>1, <1>2, <1>6, <1>9, <1>3, <1>4, AskedAppend DEF Settles, Removed, SelectOf
    <3>2. PICK c : c = Content(page) OBVIOUS
    <3>3. PICK e \in Contents : Leads(c, out, e) /\ ShownOf(e, live, printed)
      BY <1>2, <1>5, <1>6, <3>2 DEF ContentSound
    <3>4. c \in Contents /\ s \in Ids(c.tabs) BY <1>2, <3>2, PageIs DEF TypesSound, ViewSound
    <3>5. ASSUME ~Holds(out, Removed(s)) PROVE FALSE
      BY <3>1, <3>3, <1>6, HostIs, <3>4, <3>5, TabStays DEF ShownOf, Clear, SetMessages, Setters
    <3> QED BY <3>5
  <2> QED BY <1>2, <1>6, <1>7, <2>1 DEF Carried
<1> QED BY <1>8, <1>9

LEMMA ReceivesSelected ==
    ASSUME TypesSound, DocSound, RemovedSound, SelectedSound, DocumentReceives
    PROVE  SelectedSound'
<1> SUFFICES ASSUME Seen' PROVE Carried(host'.out, SetMessages, SetOf(active'), Settles')
  BY DEF SelectedSound, SetMessages, SetOf
<1>1. Applies(Received.type, page') /\ Shows(page', Received) BY ReceivesIs
<1>2. PICK q, m : q = host.out /\ m = Received OBVIOUS
<1>3. /\ page # None /\ page \in Pages /\ q \in Seq(HostMessages) /\ q # <<>> /\ m \in HostMessages /\ m = Head(q)
      /\ host'.out = Tail(q) /\ host'.seen = host.seen /\ UNCHANGED <<live, active>>
  BY <1>1, <1>2, AppliesIs DEF TypesSound, Received
<1>4. Seen BY <1>1, <1>3 DEF Seen, Shows
<1>5. PICK right, wasSo, so : right = SetOf(active) /\ wasSo = Settles /\ so = Settles' OBVIOUS
<1>6. wasSo \in BOOLEAN /\ so \in BOOLEAN /\ Carried(q, SetMessages, right, wasSo)
  BY <1>2, <1>4, <1>5 DEF SelectedSound, Settles
<1>7. SelectionAfter(m, page') BY <1>2, ReceivesEffect
<1>8. m \in right => so
  <2>1. SUFFICES ASSUME m \in right PROVE page'.active = active' BY <1>5 DEF Settles
  <2> QED BY <1>3, <1>5, <1>7, <2>1 DEF SelectionAfter, SetOf, SetMessages, Setters
<1>9. ASSUME m \notin SetMessages, wasSo PROVE so
  <2>1. CASE m.type = "removed" /\ page.active = m.id
    <3>1. page'.active = None /\ page'.clicked = page.clicked BY <1>7, <2>1 DEF SelectionAfter
    <3>2. page.active # active
      BY <2>1, <1>3, <1>2, ClearTail, MessageIs, HostIs, NoneIs DEF LiveSound, WrongRemovals,
         RemovedSound
    <3> QED BY <1>5, <1>9, <3>1, <3>2 DEF Settles
  <2>2. CASE ~(m.type = "removed" /\ page.active = m.id)
    <3>1. page'.active = page.active /\ page'.clicked = page.clicked
      BY <1>7, <1>3, <1>9, <2>2 DEF SelectionAfter, SetMessages, Setters
    <3>2. PICK a : a = page.active OBVIOUS
    <3>3. Holds(q, Removed(a)) => Holds(Tail(q), Removed(a))
      <4>1. PICK all : all = {Removed(a)} OBVIOUS
      <4>2. Clear(q, all) <=> (Head(q) \notin all /\ Clear(Tail(q), all)) BY <1>3, ClearTail
      <4> QED BY <1>3, <2>2, <3>2, <4>1, <4>2, HoldsClear DEF Removed
    <3>4. Asked(toHost, a) => Asked(toHost', a)
      <4>1. CASE toHost' = toHost BY <4>1
      <4>2. ASSUME NEW r \in Requests, toHost' = Append(toHost, RequestOf(r)) PROVE Asked(toHost, a) => Asked(toHost', a)
        <5>1. PICK p, x : p = toHost /\ x = RequestOf(r) OBVIOUS
        <5> QED BY <4>2, <5>1, <1>3, HostIs, RequestSent, AskedAppend DEF RequestOf, Selects
      <4> QED BY <4>1, <4>2, ReceivesIs
    <3> QED BY <1>2, <1>3, <1>5, <1>9, <3>1, <3>2, <3>3, <3>4 DEF Settles, Removed
  <2> QED BY <2>1, <2>2
<1> QED BY <1>3, <1>5, <1>6, <1>8, <1>9, CarriedTail

LEMMA ReadySelected ==
    ASSUME TypesSound, DocSound, Ready, Seen'
    PROVE  Carried(host'.out, SetMessages, SetOf(active), FALSE)
<1>1. PICK d : d = page.id OBVIOUS
<1>2. d \in Documents /\ d \notin host.seen /\ host' = Hydrated(host, d) /\ host.open
  BY <1>1, ReadySeen
<1>3. PICK m, z, ms, q : /\ m = Hydration(host) /\ ms = <<m>> \o Replay /\ q = host.out
                         /\ z = [type |-> "invalidated", doc |-> d, revision |-> host.revision + 1]
  OBVIOUS
<1>4. /\ m \in OfType({"hydrate"}) /\ Replay \in Seq(OfType({"data"})) /\ z \in OfType({"invalidated"})
      /\ ms \in Seq(HostMessages) /\ <<z>> \in Seq(HostMessages)
      /\ host'.out = (q \o ms) \o <<z>>
  BY <1>2, <1>3, HydratedOut
<1>5. PICK all, right : all = SetMessages /\ right = SetOf(active) OBVIOUS
<1>6. m \in right /\ z \notin all
  BY <1>3, <1>4, <1>5 DEF SetOf, SetMessages, Setters, OfType, Hydration
<1>7. PICK first, last, replay : first = <<m>> /\ last = <<z>> /\ replay = Replay OBVIOUS
<1>8. /\ first \in Seq(HostMessages) /\ last \in Seq(HostMessages) /\ replay \in Seq(HostMessages)
      /\ ms = first \o replay /\ q \in Seq(HostMessages)
  BY <1>3, <1>4, <1>7, SubSequence, HostIs DEF OfType
<1>9. Carried(first, all, right, FALSE) BY <1>6, <1>7, EndsOne DEF Carried
<1>10. Carried(replay, all, right, TRUE)
  BY <1>4, <1>7, <1>5, ClearTypes DEF Carried, SetMessages, Setters
<1>11. Carried(ms, all, right, FALSE) BY <1>8, <1>9, <1>10, CarriedConcat
<1>12. EndsIn(q \o ms, all, right) /\ q \o ms \in Seq(HostMessages)
  BY <1>4, <1>8, <1>11, EndsConcat, ConcatFacts DEF Carried
<1>13. Carried(q \o ms, all, right, FALSE) /\ Carried(last, all, right, TRUE)
  BY <1>6, <1>7, <1>12, ClearOne DEF Carried
<1>14. Carried((q \o ms) \o last, all, right, FALSE) BY <1>8, <1>12, <1>13, CarriedConcat
<1> QED BY <1>4, <1>5, <1>7, <1>14
LEMMA NextKeepsSelected ==
    ASSUME TypesSound, DocSound, RemovedSound, ContentSound, SelectedSound, [Next]_vars
    PROVE  SelectedSound'
<1>1. CASE AsideStep BY <1>1, AsideSelected
<1>2. ASSUME NEW s \in Session, NEW u \in Uuid, Launch(s, u) PROVE SelectedSound'
  <2>1. PICK next : next = Append(live, Snapshot(s, u)) OBVIOUS
  <2>2. /\ ListsMove(next, s) /\ Ids(next) = Ids(live) \cup {s} /\ page' = page /\ toHost' = toHost
    BY <1>2, <2>1, LaunchIs DEF Launch
  <2> QED BY <2>2, ListsSelected
<1>3. ASSUME NEW s \in Session, Exit(s) PROVE SelectedSound' BY <1>3, ExitSelected
<1>4. ASSUME NEW s \in Session, Output(s) PROVE SelectedSound'
  <2>1. /\ Extends(host, host', {"data"}) /\ UNCHANGED <<live, active, page, toHost>>
    BY <1>4, OutputIs
  <2>2. \A m \in SetMessages : m.type \notin {"data"} BY DEF SetMessages, Setters
  <2>3. PICK n, right : n = host' /\ right = SetOf(active) OBVIOUS
  <2>4. Tells(host, n, SetMessages, right, TRUE) BY <2>1, <2>2, <2>3, TellsNothing
  <2>5. Tells(host, host', SetMessages, SetOf(active'), active' = active)
    BY <2>1, <2>3, <2>4 DEF Tells
  <2> QED BY <2>1, <2>5, SettlesStay, TellsSelected DEF Extends
<1>5. CASE Rearranged
  <2>1. PICK next : ListsMove(next, active) /\ Ids(next) = Ids(live) BY <1>5 DEF Rearranged
  <2> QED BY <2>1, <1>5, AskedStays, ListsSelected DEF Rearranged, SameWorld
<1>6. CASE Reselects
  <2>1. PICK q, s : q = toHost /\ s = Head(toHost).id OBVIOUS
  <2>2. /\ q # <<>> /\ Head(q).type = "select" /\ toHost' = Tail(q) /\ page' = page /\ q \in Seq(WebviewMessages)
        /\ \/ s \in Ids(live) /\ s # active /\ ListsMove(live, s)
           \/ ~(s \in Ids(live) /\ s # active) /\ UNCHANGED <<live, active, host>>
    BY <1>6, <2>1, HostIs DEF Reselects, Takes, SameWorld
  <2>3. CASE s \in Ids(live) /\ s # active /\ ListsMove(live, s)
    BY <2>2, <2>3, ListsMoveSelected, ListsMoveIs, TellsSelected
  <2>4. CASE ~(s \in Ids(live) /\ s # active) /\ UNCHANGED <<live, active, host>>
    <3>1. ASSUME Settles PROVE Settles'
      <4>1. ASSUME page.active \in Ids(live), Asked(toHost, page.active)
            PROVE  Asked(toHost', page.active) \/ page.active = active
        BY <2>2, <2>4, <4>1, <2>1, AskedTail DEF SelectOf
      <4> QED BY <2>2, <2>4, <3>1, HostIs, ExtendsSelf, <4>1, SettlesStay
    <3>2. Tells(host, host', SetMessages, SetOf(active'), active' = active)
      <4>1. PICK kinds, right : kinds = {} /\ right = SetOf(active) OBVIOUS
      <4>2. Extends(host, host, kinds) /\ \A m \in SetMessages : m.type \notin kinds
        BY <4>1, HostIs, ExtendsSelf
      <4>3. Tells(host, host, SetMessages, right, TRUE) BY <4>2, TellsNothing
      <4> QED BY <2>4, <4>1, <4>3 DEF Tells
    <3> QED BY <2>2, <2>4, <3>1, <3>2, TellsSelected
  <2> QED BY <2>2, <2>3, <2>4
<1>7. CASE ResolveView \/ DisposeView \/ ReloadDocument \/ DocumentLoads
  BY <1>7, NewUnseen DEF SelectedSound
<1>8. CASE DocumentReceives BY <1>8, ReceivesSelected
<1>9. CASE Ready
  <2> SUFFICES ASSUME Seen' PROVE Carried(host'.out, SetMessages, SetOf(active'), Settles')
    BY DEF SelectedSound, SetMessages, SetOf
  <2> QED BY <1>9, ReadySelected, ReadySeen DEF Carried
<1>10. ASSUME NEW s \in Session, ClickTab(s) \/ ClickClose(s) \/ ClickRename(s) PROVE SelectedSound'
  BY <1>10, ClickSelected
<1>11. CASE UNCHANGED vars BY <1>11 DEF vars, SelectedSound, Seen, Settles, SetOf, SetMessages
<1> QED
  BY <1>1, <1>2, <1>3, <1>4, <1>5, <1>6, <1>7, <1>8, <1>9, <1>10, <1>11, StepKinds DEF OnLists,
     OnDocument
--------------------
(* The revisions of the drafts *)

Pagings == {"invalidated", "page"}
DraftMessages == {m \in HostMessages : m.type \in Pagings}
Invalidations(d) == {m \in DraftMessages : m.type = "invalidated" /\ m.doc = d}
OfRevision(d, r) == {m \in Invalidations(d) : m.revision = r}
\* Messages about drafts that are not invalidations of a document up to a revision.
Stray(d, r) == {m \in DraftMessages : m.type = "page" \/ m.doc # d \/ m.revision > r}

\* The host has told its document of every new revision.
Renews(h, n) ==
    /\ n.ready = h.ready /\ n.doc = h.doc /\ n.seen = h.seen
    /\ n.revision \in Nat /\ n.revision >= h.revision
    /\ ~h.ready => n.out = h.out
    /\ h.ready =>
         \E ms \in Seq(HostMessages) :
            /\ n.out = h.out \o ms
            /\ Carried(ms, Invalidations(h.doc), OfRevision(h.doc, n.revision), n.revision = h.revision)
            /\ Clear(ms, Stray(h.doc, n.revision))

LEMMA DraftMessageIs ==
    ASSUME NEW m \in DraftMessages
    PROVE  m \in HostMessages /\ m.doc \in Documents /\ m.revision \in Nat /\ m.type \in Pagings
BY MessageIs DEF DraftMessages, Pagings

LEMMA RevisionIs ==
    ASSUME NEW h \in SoundHosts
    PROVE  h \in Hosts /\ h.revision \in Nat /\ h.out \in Seq(HostMessages)
BY OutIs DEF SoundHosts, Hosts

LEMMA RenewsTwice ==
    ASSUME NEW h \in SoundHosts, NEW n, NEW o, Renews(h, n), Renews(n, o)
    PROVE  Renews(h, o)
<1>1. /\ o.ready = h.ready /\ o.doc = h.doc /\ o.seen = h.seen /\ o.revision \in Nat /\ n.revision \in Nat
      /\ h.revision \in Nat /\ n.revision >= h.revision /\ o.revision >= n.revision /\ o.revision >= h.revision
      /\ n.ready = h.ready /\ n.doc = h.doc
  BY RevisionIs DEF Renews
<1>2. ~h.ready => o.out = h.out BY DEF Renews
<1>3. ASSUME h.ready
      PROVE  \E ms \in Seq(HostMessages) :
                /\ o.out = h.out \o ms
                /\ Carried(ms, Invalidations(h.doc), OfRevision(h.doc, o.revision), o.revision = h.revision)
                /\ Clear(ms, Stray(h.doc, o.revision))
  <2>1. PICK all, was, right, wasSo, stays, so, q :
          /\ all = Invalidations(h.doc) /\ was = OfRevision(h.doc, n.revision) /\ right = OfRevision(h.doc, o.revision)
          /\ wasSo = (n.revision = h.revision) /\ stays = (o.revision = n.revision) /\ so = (o.revision = h.revision)
          /\ q = h.out
    OBVIOUS
  <2>2. PICK ms \in Seq(HostMessages) :
          n.out = q \o ms /\ Carried(ms, all, was, wasSo) /\ Clear(ms, Stray(h.doc, n.revision))
    BY <1>3, <2>1 DEF Renews
  <2>3. PICK ns \in Seq(HostMessages) :
          o.out = n.out \o ns /\ Carried(ns, all, right, stays) /\ Clear(ns, Stray(h.doc, o.revision))
    BY <1>1, <1>3, <2>1 DEF Renews
  <2>4. wasSo \in BOOLEAN /\ stays \in BOOLEAN /\ so \in BOOLEAN /\ (stays => was \subseteq right) /\ (stays /\ wasSo => so)
    BY <2>1
  <2>5. Carried(ms \o ns, all, right, so) BY <2>2, <2>3, <2>4, CarriedConcat
  <2>6. Stray(h.doc, o.revision) \subseteq Stray(h.doc, n.revision)
    <3>1. SUFFICES ASSUME NEW m \in DraftMessages, m.revision > o.revision PROVE m.revision > n.revision
      BY DEF Stray
    <3> QED BY <1>1, <3>1, DraftMessageIs
  <2>7. PICK stray : stray = Stray(h.doc, o.revision) OBVIOUS
  <2>8. Clear(ms \o ns, stray) BY <2>2, <2>3, <2>6, ClearNarrower, <2>7, ClearConcat
  <2>9. q \in Seq(HostMessages) BY <2>1, RevisionIs
  <2>10. o.out = q \o (ms \o ns) /\ ms \o ns \in Seq(HostMessages)
    BY <2>2, <2>3, <2>9, ConcatTwice, ConcatFacts
  <2> QED BY <2>1, <2>5, <2>7, <2>8, <2>10
<1> QED BY <1>1, <1>2, <1>3 DEF Renews

\* Nothing is told of the drafts, and the revision is the same.
LEMMA RenewsSame ==
    ASSUME NEW h \in SoundHosts, NEW n, NEW kinds, kinds \cap Pagings = {}, Extends(h, n, kinds),
           n.revision = h.revision
    PROVE  Renews(h, n)
<1>1. PICK ms \in Seq(OfType(kinds)) : n.out = h.out \o ms /\ (~h.ready => ms = <<>>) BY DEF Extends
<1>2. ms \in Seq(HostMessages) BY SubSequence DEF OfType
<1>3. Clear(ms, Invalidations(h.doc)) /\ Clear(ms, Stray(h.doc, n.revision))
  BY ClearTypes, ClearNarrower DEF Invalidations, Stray, DraftMessages
<1>4. h \in Hosts /\ h.revision \in Nat /\ h.out \o <<>> = h.out BY RevisionIs, OutIs
<1>5. ~h.ready => n.out = h.out BY <1>1, <1>4
<1>6. Carried(ms, Invalidations(h.doc), OfRevision(h.doc, n.revision), n.revision = h.revision)
  BY <1>3 DEF Carried
<1>7. n.ready = h.ready /\ n.doc = h.doc /\ n.seen = h.seen /\ n.revision \in Nat /\ n.revision >= h.revision
  BY <1>4 DEF Extends
<1> QED BY <1>2, <1>3, <1>5, <1>6, <1>7, <1>1 DEF Renews

\* Hosts that are the same to the documents and their drafts.
SameDrafting(h, n) ==
    n.ready = h.ready /\ n.doc = h.doc /\ n.seen = h.seen /\ n.revision = h.revision /\ n.out = h.out

LEMMA RenewsAlike ==
    ASSUME NEW h, NEW s, NEW n, NEW r, SameDrafting(h, s), SameDrafting(n, r), Renews(s, n)
    PROVE  Renews(h, r)
<1>1. PICK doc, ready, out, seen, revision, more, later :
        /\ doc = h.doc /\ ready = h.ready /\ out = h.out /\ seen = h.seen /\ revision = h.revision
        /\ more = n.out /\ later = n.revision
  OBVIOUS
<1>2. /\ s.doc = doc /\ s.ready = ready /\ s.out = out /\ s.seen = seen /\ s.revision = revision
      /\ r.doc = n.doc /\ r.ready = n.ready /\ r.seen = n.seen /\ r.out = more /\ r.revision = later
  BY <1>1 DEF SameDrafting
<1> QED BY <1>1, <1>2 DEF Renews

LEMMA RenewsSelf ==
    ASSUME NEW h \in SoundHosts
    PROVE  Renews(h, h) /\ SameDrafting(h, h)
<1>1. PICK kinds : kinds = {} OBVIOUS
<1>2. Extends(h, h, kinds) /\ kinds \cap Pagings = {} BY <1>1, ExtendsSelf, RevisionIs
<1> QED BY <1>2, RenewsSame DEF SameDrafting

LEMMA InvalidatedRenews ==
    ASSUME NEW h \in SoundHosts
    PROVE  Renews(h, Invalidated(h)) /\ Invalidated(h).revision = h.revision + 1
<1>1. PICK n, m : n = Invalidated(h) /\ m = [type |-> "invalidated", doc |-> h.doc, revision |-> h.revision + 1]
  OBVIOUS
<1>2. h \in Hosts /\ h.revision \in Nat BY RevisionIs
<1>3. n.revision = h.revision + 1 /\ n.out = IF h.ready THEN h.out \o <<m>> ELSE h.out
  BY <1>1, <1>2, InvalidatedKeeps
<1>4. n.ready = h.ready /\ n.doc = h.doc /\ n.seen = h.seen BY <1>1, InvalidatedIs DEF Extends
<1>5. ASSUME h.ready
      PROVE  \E ms \in Seq(HostMessages) :
                /\ n.out = h.out \o ms
                /\ Carried(ms, Invalidations(h.doc), OfRevision(h.doc, n.revision), n.revision = h.revision)
                /\ Clear(ms, Stray(h.doc, n.revision))
  <2>1. m \in HostMessages /\ m.type = "invalidated" /\ m.doc = h.doc /\ m.revision = n.revision
    BY <1>1, <1>2, <1>3, <1>5 DEF HostMessages, SoundHosts, Hosts
  <2>2. PICK all, right, stray : /\ all = Invalidations(h.doc) /\ right = OfRevision(h.doc, n.revision)
                                 /\ stray = Stray(h.doc, n.revision)
    OBVIOUS
  <2>3. PICK ms : ms = <<m>> OBVIOUS
  <2>4. EndsIn(ms, all, right) /\ Clear(ms, stray) /\ ms \in Seq(HostMessages)
    BY <2>1, <1>2, <1>3, <2>2, <2>3, EndsOne, ClearOne DEF Stray, OfRevision, Invalidations,
       DraftMessages, Pagings
  <2>5. n.out = h.out \o ms BY <1>3, <1>5, <2>3
  <2> QED BY <2>2, <2>4, <2>5 DEF Carried
<1> QED BY <1>1, <1>3, <1>4, <1>5, <1>2 DEF Renews

LEMMA PublishedRenews ==
    ASSUME NEW h \in SoundHosts, NEW next \in SUBSET Uuid
    PROVE  Renews(h, Published(h, next))
<1>1. CASE next = h.resume BY <1>1, RenewsSelf DEF Published
<1>2. CASE next # h.resume
  <2>1. PICK g, m : g = [h EXCEPT !.resume = next] /\ m = [type |-> "resumable", uuids |-> next]
    OBVIOUS
  <2>2. PICK p : p = Posted(g, <<m>>) OBVIOUS
  <2>3. /\ g \in Hosts /\ g.out = h.out /\ g.ready = h.ready /\ g.open = h.open
        /\ g.doc = h.doc /\ g.seen = h.seen /\ g.pending = h.pending /\ g.scan = h.scan
        /\ g.revision = h.revision
    BY <2>1, RevisionIs DEF Hosts
  <2>4. g \in SoundHosts BY <2>3 DEF SoundHosts
  <2>5. m \in OfType({"resumable"}) BY <2>1 DEF HostMessages, OfType
  <2>6. p \in SoundHosts /\ Extends(g, p, {"resumable"}) /\ p.revision = g.revision
    BY <2>2, <2>3, <2>4, <2>5, PostedOne, PostedKeeps
  <2>7. Renews(h, p) BY <2>4, <2>6, RenewsSame, <2>3, RenewsAlike DEF SameDrafting, Pagings
  <2>8. PICK o : o = Invalidated(p) OBVIOUS
  <2> QED BY <1>2, <2>1, <2>2, <2>8, <2>7, <2>6, InvalidatedRenews, RenewsTwice DEF Published
<1> QED BY <1>1, <1>2

LEMMA RefreshedRenews ==
    ASSUME NEW h \in SoundHosts, NEW cand \in SUBSET Uuid
    PROVE  Renews(h, Refreshed(h, cand))
<1>1. PICK s, next, r : s = Superseded(h) /\ next = cand \cap h.resume /\ r = Refreshed(h, cand)
  OBVIOUS
<1>2. PICK n : n = Published(s, next) OBVIOUS
<1>3. SameDrafting(n, r) BY <1>1, <1>2, RefreshedForm DEF SameDrafting
<1> QED BY <1>1, SupersededIs, <1>2, PublishedRenews, <1>3, RenewsAlike DEF Extends, SameDrafting
LEMMA SettledRenews ==
    ASSUME NEW h \in SoundHosts, known \in SUBSET Uuid
    PROVE  Renews(h, Settled(h))
<1>1. PICK n, s, cand : /\ n = [h EXCEPT !.scan = None, !.pending = FALSE] /\ s = Settled(h)
                        /\ cand = Candidates(known, live)
  OBVIOUS
<1>2. /\ n \in SoundHosts /\ n.ready = h.ready /\ n.doc = h.doc /\ n.seen = h.seen
      /\ n.revision = h.revision /\ n.out = h.out
      /\ s = IF h.pending THEN Refreshed(n, cand) ELSE n
  BY <1>1, SettledIs
<1>3. SameDrafting(h, n) /\ SameDrafting(s, s) /\ cand \in SUBSET Uuid
  BY <1>1, <1>2, CandidatesAre DEF SameDrafting
<1> QED BY <1>1, <1>3, <1>2, RefreshedRenews, RenewsSelf, RenewsAlike

LEMMA ScanStepRenews ==
    ASSUME NEW h \in SoundHosts, h.scan # None, known \in SUBSET Uuid
    PROVE  Renews(h, ScanStep(h))
<1>1. PICK scan, s : scan = Checked(h.scan) /\ s = ScanStep(h) OBVIOUS
<1>2. /\ s \in SoundHosts /\ Extends(h, s, Listing)
      /\ h.scan.stale \/ h.scan.todo = {} => s = Settled(h)
      /\ ~h.scan.stale /\ h.scan.todo # {} =>
           /\ scan \in Scans
           /\ scan.todo = {} => s = Settled(Published(h, scan.eligible))
           /\ scan.todo # {} => s.revision = h.revision /\ s.out = h.out
  BY <1>1, ScanStepIs
<1>3. CASE h.scan.stale \/ h.scan.todo = {} BY <1>1, <1>2, <1>3, SettledRenews
<1>4. CASE ~(h.scan.stale \/ h.scan.todo = {}) /\ scan.todo = {}
  <2>1. PICK p, o : p = Published(h, scan.eligible) /\ o = Settled(p) OBVIOUS
  <2> QED
    BY <1>1, <1>2, <1>4, PublishedIs, PublishedRenews, <2>1, SettledRenews, RenewsTwice DEF Scans
<1>5. CASE ~(h.scan.stale \/ h.scan.todo = {}) /\ scan.todo # {}
  <2>1. SameDrafting(h, s) BY <1>2, <1>5 DEF SameDrafting, Extends
  <2> QED BY <1>1, <2>1, RenewsSelf, RenewsAlike
<1> QED BY <1>3, <1>4, <1>5

\* A change of the list is a new revision when conversations come or go.
LEMMA ListsMoveRenews ==
    ASSUME TypesSound, NEW next, NEW selected, ListsMove(next, selected)
    PROVE  Renews(host, host') /\ (Uuids(next) # Uuids(live) => host'.revision > host.revision)
<1>1. host \in SoundHosts /\ live \in Seq(Snapshots) /\ known \in SUBSET Uuid
  BY HostIs DEF LiveSound
<1>2. PICK t, l, d, cand : /\ t = Told(host, next) /\ l = Relisted(host, next)
                           /\ d = Reselected(host, next, selected) /\ cand = Candidates(known, next)
  OBVIOUS
<1>3. PICK r, n : r = Refreshed(d, cand) /\ n = host' OBVIOUS
<1>4. /\ t \in SoundHosts /\ Extends(host, t, Differences)
      /\ l \in SoundHosts
      /\ d \in SoundHosts /\ Extends(l, d, {"active"})
      /\ r \in SoundHosts
      /\ n = IF Gone(next) = <<>> THEN r ELSE [r EXCEPT !.retry = TRUE]
  BY ListsMoveIs, <1>1, <1>2, <1>3, SessionsChangedIs
<1>5. t.revision = host.revision /\ Renews(host, t)
  BY <1>1, <1>4, <1>2, RevisionIs, PostedKeeps, RenewsSame DEF Differences, Pagings, Told
<1>6. Renews(t, l) /\ (Uuids(next) # Uuids(live) => l.revision = t.revision + 1)
  BY <1>2, <1>4, InvalidatedRenews, RenewsSelf DEF Relisted
<1>7. d.revision = l.revision /\ Renews(l, d)
  BY <1>4, <1>2, RevisionIs, PostedKeeps, RenewsSame DEF Pagings, Reselected
<1>8. SameDrafting(r, n) /\ SameDrafting(d, d) BY <1>4, RevisionIs, RetryIs DEF SameDrafting
<1>9. Renews(d, n) BY <1>1, <1>2, <1>3, <1>4, CandidatesAre, RefreshedRenews, <1>8, RenewsAlike
<1>10. Uuids(next) # Uuids(live) => n.revision > host.revision
  <2>1. PICK a, b, c : a = host.revision /\ b = d.revision /\ c = n.revision OBVIOUS
  <2> QED BY <2>1, <1>1, <1>4, <1>9, RevisionIs, <1>5, <1>6, <1>7 DEF Renews
<1> QED BY <1>3, <1>1, <1>9, <1>7, <1>5, <1>6, RenewsTwice, <1>10
--------------------
(* The list of drafts the document has *)

\* The rows a list may have, and must have.
May == {Row(u) : u \in {v \in Uuid \ Uuids(live) : draft[v].text}}
Must == {Row(u) : u \in Recoverable \ Uuids(live)}

Beyond(u, after) == after # None => u > after
Upto(u, last) == last # None => u <= last

\* The rows are what the list may and must have up to this conversation.
Gathers(rows, last, may, must) ==
    /\ rows \subseteq may /\ \A r \in rows : Upto(r.uuid, last)
    /\ \A r \in must : Upto(r.uuid, last) => r \in rows

\* A page has what it may and must have from its cursor to the next.
Answers(m, may, must) ==
    /\ m.rows \subseteq may /\ \A r \in m.rows : Beyond(r.uuid, m.request.after) /\ Upto(r.uuid, m.next)
    /\ \A r \in must : Beyond(r.uuid, m.request.after) /\ Upto(r.uuid, m.next) => r \in m.rows
    /\ m.next # None => Beyond(m.next, m.request.after)

Later(r) == {m \in DraftMessages : m.revision > r}
WrongAnswers(d, r, may, must) ==
    {m \in DraftMessages : m.type = "page" /\ m.doc = d /\ m.revision = r /\ ~Answers(m, may, must)}

\* The request the document waits on, and the answers that it takes.
AskedFor(p) == [type |-> "request", doc |-> p.id, request |-> p.request]
DueFor(p) ==
    {m \in DraftMessages : m.type = "page" /\ m.doc = p.id /\ m.request = p.request /\ m.revision = p.revision}

\* The document has the list, or all of it up to the page it waits on.
Listed(p, out, heard, may, must) ==
    IF p.request = None THEN Gathers(p.rows, None, may, must)
    ELSE /\ Holds(heard, AskedFor(p)) \/ ~Clear(out, DueFor(p))
         /\ IF p.request.after = None THEN p.staging = {}
            ELSE Gathers(p.staging, p.request.after, may, must)

\* A document the host has heard of will hear of the present revision, and
\* one that has heard of it lists the drafts.
Drafted(p, h, heard, may, must) ==
    /\ p.revision # None => p.revision <= h.revision
    /\ Carried(h.out, Invalidations(p.id), OfRevision(p.id, h.revision), p.revision = h.revision)
    /\ Clear(h.out, WrongAnswers(p.id, h.revision, may, must))
    /\ p.revision = h.revision => Listed(p, h.out, heard, may, must)

RequestsFor(d) == {m \in WebviewMessages : m.type = "request" /\ m.doc = d}
DraftsFor(d) == {m \in DraftMessages : m.doc = d}

RecoveryFits(p, h, heard, n, may, must) ==
    /\ Clear(h.out, Later(h.revision))
    /\ \A d \in Documents : d > n => Clear(heard, RequestsFor(d))
    /\ p # None /\ p.id \notin h.seen =>
         /\ p.revision = None
         /\ Clear(h.out, DraftsFor(p.id)) /\ Clear(heard, RequestsFor(p.id))
    /\ p # None /\ p.id \in h.seen => Drafted(p, h, heard, may, must)
RecoverySound == RecoveryFits(page, host, toHost, documents, May, Must)

LEMMA GathersStays ==
    ASSUME NEW rows, NEW last, NEW may, NEW must, NEW mayN, NEW mustN, may \subseteq mayN, mustN \subseteq must,
           Gathers(rows, last, may, must)
    PROVE  Gathers(rows, last, mayN, mustN)
BY DEF Gathers

LEMMA AnswersStays ==
    ASSUME NEW m, NEW may, NEW must, NEW mayN, NEW mustN, may \subseteq mayN, mustN \subseteq must,
           Answers(m, may, must)
    PROVE  Answers(m, mayN, mustN)
BY DEF Answers

LEMMA ListedStays ==
    ASSUME NEW p, NEW out, NEW heard, NEW may, NEW must, NEW more, NEW heardN, NEW mayN, NEW mustN,
           may \subseteq mayN, mustN \subseteq must, Clear(more, DueFor(p)) => Clear(out, DueFor(p)),
           Holds(heard, AskedFor(p)) => Holds(heardN, AskedFor(p)) \/ ~Clear(more, DueFor(p)),
           Listed(p, out, heard, may, must)
    PROVE  Listed(p, more, heardN, mayN, mustN)
BY GathersStays DEF Listed

\* What was told before the host changed, and what it tells then.
LEMMA LaterClear ==
    ASSUME NEW h \in SoundHosts, NEW n, Renews(h, n), Clear(h.out, Later(h.revision))
    PROVE  Clear(n.out, Later(n.revision))
<1>1. PICK later : later = Later(n.revision) OBVIOUS
<1>2. later \subseteq Later(h.revision)
  <2>1. ASSUME NEW m \in later PROVE m \in DraftMessages /\ m.revision > h.revision
    BY <1>1, RevisionIs, <2>1, DraftMessageIs DEF Later, Renews
  <2> QED BY <2>1 DEF Later
<1>3. Clear(h.out, later) BY <1>2, ClearNarrower
<1>4. CASE ~h.ready BY <1>1, <1>3, <1>4 DEF Renews
<1>5. CASE h.ready
  <2>1. PICK ms \in Seq(HostMessages) : n.out = h.out \o ms /\ Clear(ms, Stray(h.doc, n.revision))
    BY <1>5 DEF Renews
  <2>2. PICK q : q = h.out OBVIOUS
  <2> QED BY <1>1, <2>1, <2>2, ClearNarrower, <1>3, RevisionIs, ClearConcat DEF Later, Stray
<1> QED BY <1>4, <1>5

\* Another document than the host's is told nothing.
LEMMA UnheardClear ==
    ASSUME NEW h \in SoundHosts, NEW n, Renews(h, n), NEW d, d # h.doc \/ ~h.ready, Clear(h.out, DraftsFor(d))
    PROVE  Clear(n.out, DraftsFor(d))
<1>1. PICK drafts : drafts = DraftsFor(d) OBVIOUS
<1>2. CASE ~h.ready BY <1>2 DEF Renews
<1>3. CASE h.ready
  <2>1. PICK ms \in Seq(HostMessages) : n.out = h.out \o ms /\ Clear(ms, Stray(h.doc, n.revision))
    BY <1>3 DEF Renews
  <2>2. PICK q : q = h.out OBVIOUS
  <2> QED BY <1>1, <2>1, <2>2, <1>3, ClearNarrower, RevisionIs, ClearConcat DEF DraftsFor, Stray
<1> QED BY <1>2, <1>3

LEMMA DraftedRenews ==
    ASSUME NEW p \in Pages, NEW h \in SoundHosts, NEW n, Renews(h, n), h.ready, h.doc = p.id,
           Clear(h.out, Later(h.revision)), NEW heard, NEW may, NEW must, Drafted(p, h, heard, may, must),
           NEW heardN, NEW mayN, NEW mustN,
           n.revision = h.revision =>
             /\ Holds(heard, AskedFor(p)) => Holds(heardN, AskedFor(p))
             /\ may \subseteq mayN /\ mustN \subseteq must
    PROVE  Drafted(p, n, heardN, mayN, mustN)
<1>1. PICK q, r, rn, d : q = h.out /\ r = h.revision /\ rn = n.revision /\ d = p.id OBVIOUS
<1>2. q \in Seq(HostMessages) /\ r \in Nat /\ rn \in Nat /\ rn >= r /\ p.revision \in Nat \cup {None}
  BY <1>1, RevisionIs DEF Renews, Pages
<1>3. PICK ms \in Seq(HostMessages) :
        /\ n.out = q \o ms /\ Carried(ms, Invalidations(d), OfRevision(d, rn), rn = r)
        /\ Clear(ms, Stray(d, rn))
  BY <1>1 DEF Renews
<1>4. /\ p.revision # None => p.revision <= r
      /\ Carried(q, Invalidations(d), OfRevision(d, r), p.revision = r)
      /\ Clear(q, WrongAnswers(d, r, may, must))
      /\ p.revision = r => Listed(p, q, heard, may, must)
  BY <1>1 DEF Drafted
<1>5. Carried(q \o ms, Invalidations(d), OfRevision(d, rn), p.revision = rn)
  <2>1. PICK all, was, right, wasSo, stays, so :
          /\ all = Invalidations(d) /\ was = OfRevision(d, r) /\ right = OfRevision(d, rn)
          /\ wasSo = (p.revision = r) /\ stays = (rn = r) /\ so = (p.revision = rn)
    OBVIOUS
  <2>2. wasSo \in BOOLEAN /\ stays \in BOOLEAN /\ so \in BOOLEAN /\ (stays => was \subseteq right) /\ (stays /\ wasSo => so)
    BY <2>1
  <2>3. Carried(q, all, was, wasSo) /\ Carried(ms, all, right, stays) BY <1>3, <1>4, <2>1
  <2>4. Carried(q \o ms, all, right, so) BY <1>2, <2>2, <2>3, CarriedConcat
  <2> QED BY <2>1, <2>4
<1>6. PICK wrong : wrong = WrongAnswers(d, rn, mayN, mustN) OBVIOUS
<1>7. Clear(q, wrong)
  <2>1. CASE rn = r
    <3>1. wrong \subseteq WrongAnswers(d, r, may, must)
      <4>1. SUFFICES ASSUME NEW m, Answers(m, may, must) PROVE Answers(m, mayN, mustN)
        BY <1>6, <2>1 DEF WrongAnswers
      <4> QED BY <4>1, <1>1, <2>1, AnswersStays
    <3> QED BY <1>4, <3>1, ClearNarrower
  <2>2. CASE rn # r BY <1>1, <1>2, <1>6, <2>2, ClearNarrower DEF WrongAnswers, Later
  <2> QED BY <2>1, <2>2
<1>8. Clear(ms, wrong) BY <1>3, <1>6, ClearNarrower DEF WrongAnswers, Stray
<1>9. ASSUME p.revision = rn PROVE Listed(p, q \o ms, heardN, mayN, mustN)
  <2>1. PICK due, more : due = DueFor(p) /\ more = q \o ms OBVIOUS
  <2> QED BY <2>1, <1>1, <1>4, <1>9, NoneIs, <1>2, ClearConcat, ListedStays
<1> QED BY <1>1, <1>3, <1>2, <1>4, <1>5, <1>6, <1>7, <1>8, ClearConcat, <1>9 DEF Drafted

LEMMA RecoveryNext ==
    ASSUME NEW p, p = page', NEW h, h = host', NEW heard, heard = toHost', NEW n, n = documents',
           NEW may, may = May', NEW must, must = Must', RecoveryFits(p, h, heard, n, may, must)
    PROVE  RecoverySound'
BY DEF RecoverySound, RecoveryFits, Drafted, Listed, Gathers, Upto, Later, RequestsFor, DraftsFor,
   DraftMessages, Invalidations, OfRevision, WrongAnswers, Answers, Beyond, AskedFor, DueFor, Clear,
   Holds, Carried, EndsIn

\* A queue that is heard: the requests of other documents, or all.
LEMMA HeardClear ==
    ASSUME toHost \in Seq(WebviewMessages), toHost' = toHost \/ (toHost # <<>> /\ toHost' = Tail(toHost)),
           NEW all, Clear(toHost, all)
    PROVE  Clear(toHost', all)
<1>1. PICK q, r : q = toHost /\ r = toHost' OBVIOUS
<1>2. q \in Seq(WebviewMessages) /\ Clear(q, all) /\ (r = q \/ (q # <<>> /\ r = Tail(q))) BY <1>1
<1>3. Clear(r, all) BY <1>2, ClearTail
<1> QED BY <1>1, <1>3

LEMMA HeardHolds ==
    ASSUME toHost \in Seq(WebviewMessages), NEW m, Holds(toHost, m),
           toHost' = toHost \/ (toHost # <<>> /\ Head(toHost) # m /\ toHost' = Tail(toHost))
    PROVE  Holds(toHost', m)
<1>1. PICK q, r, one : q = toHost /\ r = toHost' /\ one = {m} OBVIOUS
<1>2. q \in Seq(WebviewMessages) /\ ~Clear(q, one) /\ (r = q \/ (q # <<>> /\ Head(q) \notin one /\ r = Tail(q)))
  BY <1>1, HoldsClear
<1>3. ~Clear(r, one) BY <1>2, ClearTail
<1> QED BY <1>1, <1>3, HoldsClear

\* A host that tells its document of each new revision, and leaves the drafts alone without.
LEMMA RenewsRecovery ==
    ASSUME TypesSound, DocSound, RecoverySound, Renews(host, host'), page' = page, documents' = documents,
           toHost' = toHost \/ (toHost # <<>> /\ toHost' = Tail(toHost)),
           host'.revision = host.revision =>
             /\ Seen => toHost' = toHost \/ Head(toHost) # AskedFor(page)
             /\ May \subseteq May' /\ Must' \subseteq Must
    PROVE  RecoverySound'
<1>1. PICK h, n, p, may, must, mayN, mustN :
        /\ h = host /\ n = host' /\ p = page /\ may = May /\ must = Must /\ mayN = May' /\ mustN = Must'
  OBVIOUS
<1>2. /\ h \in SoundHosts /\ toHost \in Seq(WebviewMessages) /\ RecoveryFits(p, h, toHost, documents, may, must)
      /\ Renews(h, n) /\ n.seen = h.seen
  BY <1>1, HostIs DEF RecoverySound, Renews
<1>3. ASSUME NEW d \in Documents, d > documents PROVE Clear(toHost', RequestsFor(d))
  BY <1>2, <1>3, HeardClear DEF RecoveryFits
<1>4. ASSUME p # None, p.id \notin n.seen
      PROVE  p.revision = None /\ Clear(n.out, DraftsFor(p.id)) /\ Clear(toHost', RequestsFor(p.id))
  BY <1>2, <1>4, HeardClear, UnheardClear DEF RecoveryFits, SoundHosts
<1>5. ASSUME p # None, p.id \in n.seen PROVE Drafted(p, n, toHost', mayN, mustN)
  <2>1. Seen BY <1>1, <1>2, <1>5 DEF Seen
  <2>2. ASSUME n.revision = h.revision
        PROVE  /\ Holds(toHost, AskedFor(p)) => Holds(toHost', AskedFor(p))
               /\ may \subseteq mayN /\ mustN \subseteq must
    BY <1>1, <2>1, <2>2, <1>2, HeardHolds
  <2> QED BY <1>2, <1>1, <2>1, SeenIs, <1>5, <2>2, DraftedRenews DEF RecoveryFits
<1>6. PICK heard : heard = toHost' OBVIOUS
<1> QED BY <1>1, <1>6, <1>2, LaterClear, <1>3, <1>4, <1>5, RecoveryNext DEF RecoveryFits

\* Steps that leave the drafts alone, but for a change of the list of sessions.
LEMMA RenewsKept ==
    ASSUME TypesSound, DocSound, RecoverySound, Renews(host, host'), page' = page, documents' = documents,
           NEW types, "request" \notin types, toHost' = toHost \/ Takes(types), UNCHANGED <<draft, forgotten>>,
           host'.revision = host.revision => Uuids(live') = Uuids(live)
    PROVE  RecoverySound'
<1>1. ASSUME Uuids(live') = Uuids(live) PROVE May \subseteq May' /\ Must' \subseteq Must
  <2>1. PICK shown : shown = Uuids(live) OBVIOUS
  <2> QED BY <2>1, <1>1 DEF May, Must, Row, Recoverable, Uuids
<1> QED BY <1>1, RenewsRecovery DEF Takes, AskedFor

LEMMA DraftSavedRecovery ==
    ASSUME TypesSound, DocSound, RecoverySound, NEW u \in Uuid, NEW text \in BOOLEAN, DraftSaved(u, text)
    PROVE  RecoverySound'
<1>1. /\ draft' = [draft EXCEPT ![u] = [rev |-> draft[u].rev + 1, text |-> text]]
      /\ UNCHANGED <<live, forgotten, page, documents, toHost>>
      /\ host' = IF draft[u].text /\ text /\ u \in Uuids(live) THEN host ELSE Invalidated(host)
  BY DraftSavedStep DEF DraftSaved
<1>2. host \in SoundHosts /\ host.revision \in Nat BY HostIs, RevisionIs
<1>3. CASE draft[u].text /\ text /\ u \in Uuids(live)
  BY <1>1, <1>2, <1>3, RenewsSelf, RenewsRecovery DEF May, Must, Row, Recoverable, TypesSound,
     WorldSound, Uuids
<1>4. CASE ~(draft[u].text /\ text /\ u \in Uuids(live))
  BY <1>1, <1>2, <1>4, InvalidatedRenews, RenewsRecovery
<1> QED BY <1>3, <1>4

LEMMA ForgetRecovery ==
    ASSUME TypesSound, DocSound, RecoverySound, NEW u \in Uuid, NEW ok \in BOOLEAN,
           ForgetDraft(u) \/ ForgetSettles(u, ok)
    PROVE  RecoverySound'
<1>1. UNCHANGED <<live, page, documents, toHost>> BY DEF ForgetDraft, ForgetSettles
<1>2. host \in SoundHosts /\ host.revision \in Nat BY HostIs, RevisionIs
<1>3. CASE ForgetSettles(u, ok) /\ ok
  BY <1>1, <1>2, <1>3, InvalidatedRenews, RenewsRecovery DEF ForgetSettles
<1>4. CASE ~(ForgetSettles(u, ok) /\ ok)
  BY <1>1, <1>2, RenewsSelf, <1>4, RenewsRecovery DEF May, Must, Row, Recoverable, Uuids,
     ForgetDraft, ForgetSettles
<1> QED BY <1>3, <1>4

LEMMA RefreshRenews ==
    ASSUME TypesSound, NEW h \in SoundHosts, Alike(host, h), NEW cand \in SUBSET Uuid, host' = Refreshed(h, cand)
    PROVE  Renews(host, host')
<1>1. PICK n : n = host' OBVIOUS
<1> QED BY <1>1, RefreshedRenews, RenewsAlike DEF Alike, SameDrafting

\* Steps that look at the saved metadata and the disk, and those that do not concern the provider.
LEMMA LooksRecovery ==
    ASSUME TypesSound, DocSound, RecoverySound,
           \/ \E u \in Uuid : Recorded(u) \/ ForgetMetadata(u) \/ Flush(u)
           \/ ShowView \/ ScanChecks \/ RetryFires \/ RenameRequested
    PROVE  RecoverySound'
<1>1. host \in SoundHosts /\ known \in SUBSET Uuid /\ Alike(host, host) BY HostIs DEF Alike
<1>2. /\ UNCHANGED <<live, draft, forgotten, page, documents>> /\ (toHost' = toHost \/ Takes({"rename"}))
  BY DEF Recorded, ForgetMetadata, MetadataChanged, Flush, ShowView, ScanChecks, RetryFires,
     RenameRequested, composer, store, Arrives, Takes
<1>3. Renews(host, host')
  <2>1. ASSUME NEW u \in Uuid, Recorded(u) \/ ForgetMetadata(u) PROVE Renews(host, host')
    <3>1. PICK cand : cand = Candidates(known', live) OBVIOUS
    <3> QED BY <1>1, <2>1, <3>1, MetadataSteps, CandidatesAre, RefreshRenews
  <2>2. ASSUME NEW u \in Uuid, Flush(u) PROVE Renews(host, host')
    BY <1>1, <2>2, FlushStep, RenewsSelf
  <2>3. PICK cand : cand = Candidates(known, live) OBVIOUS
  <2>4. cand \in SUBSET Uuid BY <1>1, <2>3, CandidatesAre
  <2>5. CASE ShowView BY <1>1, <2>3, <2>4, <2>5, RefreshRenews DEF ShowView
  <2>6. CASE ScanChecks BY <1>1, <2>6, ScanStepRenews DEF ScanChecks
  <2>7. CASE RetryFires
    <3>1. PICK h : h = [host EXCEPT !.retry = FALSE] OBVIOUS
    <3>2. host' = Refreshed(h, cand) BY <2>3, <2>7, <3>1 DEF RetryFires
    <3>3. h \in SoundHosts /\ Alike(host, h) BY <2>7, <3>1, RetryFiresStep DEF Alike
    <3> QED BY <2>4, <3>2, <3>3, RefreshRenews
  <2>8. CASE RenameRequested BY <1>1, <2>8, RenameRequestedStep, RenewsSelf
  <2> QED BY <2>1, <2>2, <2>5, <2>6, <2>7, <2>8
<1>4. PICK types : types = {"rename"} OBVIOUS
<1> QED BY <1>2, <1>3, <1>4, RenewsKept

LEMMA ListsRecovery ==
    ASSUME TypesSound, DocSound, RecoverySound, OnLists \/ RenameAnswered \/ CloseRequested
    PROVE  RecoverySound'
<1>1. host \in SoundHosts /\ host.revision \in Nat BY HostIs, RevisionIs
<1>2. ASSUME NEW next, NEW selected, ListsMove(next, selected), UNCHANGED <<draft, forgotten, page, documents>>,
             toHost' = toHost \/ Takes({"close", "select"})
      PROVE  RecoverySound'
  <2>1. PICK types : types = {"close", "select"} OBVIOUS
  <2> QED BY <1>2, ListsMoveRenews, <1>1, ListsMoveIs, <2>1, RenewsKept
<1>3. ASSUME UNCHANGED <<live, host>>, UNCHANGED <<draft, forgotten, page, documents>>,
             toHost' = toHost \/ Takes({"close", "select"})
      PROVE  RecoverySound'
  <2>1. PICK types : types = {"close", "select"} OBVIOUS
  <2> QED BY <1>3, <1>1, RenewsSelf, <2>1, RenewsKept
<1>4. ASSUME NEW s \in Session, NEW u \in Uuid, Launch(s, u) PROVE RecoverySound'
  <2>1. \E next : ListsMove(next, s) BY <1>4, LaunchIs
  <2> QED BY <1>2, <1>4, <2>1 DEF Launch, composer
<1>5. ASSUME NEW s \in Session, Exit(s) PROVE RecoverySound'
  <2>1. \E next, selected : ListsMove(next, selected) BY <1>5, ExitIs
  <2> QED BY <1>2, <1>5, <2>1 DEF Exit, composer
<1>6. ASSUME NEW s \in Session, Output(s) PROVE RecoverySound'
  <2>1. /\ Extends(host, host', {"data"}) /\ UNCHANGED <<live, draft, forgotten, page, documents, toHost>>
    BY <1>6, OutputIs DEF composer
  <2>2. host'.revision = host.revision
    <3>1. PICK ms, h : ms = <<[type |-> "data", id |-> s, pieces |-> 1]>> /\ h = host OBVIOUS
    <3> QED BY <3>1, <1>6, OutputIs, HostIs, PostedKeeps
  <2>3. PICK kinds, n : kinds = {"data"} /\ n = host' OBVIOUS
  <2> QED BY <2>1, <2>3, <1>1, <2>2, RenewsSame, RenewsKept DEF Pagings
<1>7. ASSUME SameWorld PROVE UNCHANGED <<draft, forgotten, page, documents>>
  BY <1>7 DEF SameWorld, composer
<1>8. Takes({"select"}) \/ Takes({"close"}) => Takes({"close", "select"}) BY DEF Takes
<1>9. CASE Rearranged BY <1>2, <1>7, <1>8, <1>9 DEF Rearranged
<1>10. CASE Reselects BY <1>2, <1>3, <1>7, <1>8, <1>10 DEF Reselects
<1>11. CASE RenameAnswered BY <1>2, <1>3, <1>7, <1>11, AnswerRenameIs
<1>12. CASE CloseRequested BY <1>2, <1>3, <1>7, <1>8, <1>12, CloseIs DEF Arrives, Takes
<1> QED BY <1>4, <1>5, <1>6, <1>9, <1>10, <1>11, <1>12 DEF OnLists

\* An answer has the drafts there are from its cursor to the next.
LEMMA AnswerRight ==
    ASSUME TypesSound, NEW h, NEW request \in Requests
    PROVE  Answers(Answer(h, request), May, Must)
<1>1. PICK m, rest, first, after, next :
        /\ m = Answer(h, request) /\ rest = Rest(request) /\ first = FirstOf(rest)
        /\ after = request.after /\ next = NextOf(request)
  OBVIOUS
<1>2. /\ m.rows = {Row(u) : u \in first \ Uuids(live)} /\ m.request.after = after /\ m.next = next
      /\ next = IF rest = first THEN None ELSE Max(first)
      /\ rest \in SUBSET Uuid /\ rest \subseteq Recoverable /\ first \subseteq rest
  BY <1>1, DraftsAre, AnswerIs DEF Answer, NextOf, FirstOf, Rest, TypesSound
<1>3. \A u \in Recoverable : u \in rest <=> Beyond(u, after) BY <1>1 DEF Rest, Beyond
<1>4. next # None => /\ next \in first
                     /\ \A u \in rest : u \in first <=> u <= next
  BY <1>1, <1>2, FirstPage
<1>5. \A u \in rest : u \in first <=> Upto(u, next)
  <2>1. CASE rest = first BY <1>2, <2>1 DEF Upto
  <2>2. CASE rest # first
    <3>1. next = Max(first) /\ Max(first) \in first BY <1>1, <1>2, <2>2, FirstPage
    <3> QED BY <1>4, <1>2, <3>1, NoneIs DEF Upto
  <2> QED BY <2>1, <2>2
<1>6. \A u : Row(u).uuid = u BY DEF Row
<1>7. ASSUME NEW r \in Must, Beyond(r.uuid, after), Upto(r.uuid, next) PROVE r \in m.rows
  <2>1. PICK u \in Recoverable \ Uuids(live) : r = Row(u) BY <1>7 DEF Must
  <2> QED BY <1>2, <2>1, <1>3, <1>5, <1>6, <1>7
<1> QED BY <1>1, <1>2, <1>3, <1>5, <1>6, <1>7, <1>4 DEF Answers, May, Recoverable

\* A page is added to the queue of the document the host has.
LEMMA AnsweredDrafted ==
    ASSUME NEW p \in Pages, NEW h \in SoundHosts, NEW n, NEW a \in HostMessages, a.type = "page", a.doc = p.id,
           a.revision = h.revision, n.revision = h.revision, n.out = h.out \o <<a>>,
           NEW may, NEW must, Answers(a, may, must), NEW heard, Drafted(p, h, heard, may, must),
           NEW heardN, Holds(heard, AskedFor(p)) => Holds(heardN, AskedFor(p)) \/ a.request = p.request
    PROVE  Drafted(p, n, heardN, may, must)
<1>1. PICK q, r, d, one : q = h.out /\ r = h.revision /\ d = p.id /\ one = <<a>> OBVIOUS
<1>2. q \in Seq(HostMessages) /\ one \in Seq(HostMessages) /\ r \in Nat /\ p.revision \in Nat \cup {None}
  BY <1>1, RevisionIs DEF Pages
<1>3. /\ p.revision # None => p.revision <= r
      /\ Carried(q, Invalidations(d), OfRevision(d, r), p.revision = r)
      /\ Clear(q, WrongAnswers(d, r, may, must))
      /\ p.revision = r => Listed(p, q, heard, may, must)
  BY <1>1 DEF Drafted
<1>4. Carried(q \o one, Invalidations(d), OfRevision(d, r), p.revision = r)
  <2>1. PICK all, right, so : all = Invalidations(d) /\ right = OfRevision(d, r) /\ so = (p.revision = r)
    OBVIOUS
  <2>2. a \notin all /\ Carried(q, all, right, so) /\ so \in BOOLEAN BY <1>3, <2>1 DEF Invalidations
  <2>3. Carried(one, all, right, TRUE) BY <1>1, <2>2, ClearOne DEF Carried
  <2>4. Carried(q \o one, all, right, so) BY <1>2, <2>2, <2>3, CarriedConcat
  <2> QED BY <2>1, <2>4
<1>5. Clear(q \o one, WrongAnswers(d, r, may, must))
  <2>1. PICK wrong : wrong = WrongAnswers(d, r, may, must) OBVIOUS
  <2>2. a \notin wrong /\ Clear(q, wrong) BY <1>3, <2>1 DEF WrongAnswers
  <2>3. Clear(one, wrong) BY <1>1, <2>2, ClearOne
  <2> QED BY <2>1, <1>2, <2>2, <2>3, ClearConcat
<1>6. ASSUME p.revision = r PROVE Listed(p, q \o one, heardN, may, must)
  <2>1. PICK due, more : due = DueFor(p) /\ more = q \o one OBVIOUS
  <2>2. Clear(more, due) <=> (Clear(q, due) /\ Clear(one, due)) BY <1>2, <2>1, ClearConcat
  <2>3. ASSUME a.request = p.request PROVE ~Clear(more, due)
    <3>1. ~Clear(one, due) BY <1>1, <1>6, <2>1, <2>3 DEF Clear, DueFor, DraftMessages, Pagings
    <3> QED BY <2>2, <3>1
  <2> QED BY <2>1, <2>2, <2>3, <1>3, <1>6, ListedStays
<1> QED BY <1>1, <1>3, <1>4, <1>5, <1>6 DEF Drafted

LEMMA RequestedRecovery ==
    ASSUME TypesSound, DocSound, RecoverySound, RecoveryRequested
    PROVE  RecoverySound'
<1>1. PICK q, m, request : q = toHost /\ m = Head(toHost) /\ request = m.request OBVIOUS
<1>2. /\ q # <<>> /\ m \in WebviewMessages /\ m.type = "request" /\ request \in Requests /\ toHost' = Tail(q)
      /\ host' = IF host.ready /\ m.doc = host.doc THEN RecoveryPage(host, request) ELSE host
  BY <1>1, RequestedIs
<1>3. UNCHANGED <<live, draft, forgotten, page, documents>> BY DEF RecoveryRequested, composer
<1>4. May' = May /\ Must' = Must BY <1>3 DEF May, Must, Row, Recoverable, Uuids
<1>5. host \in SoundHosts /\ host \in Hosts /\ q \in Seq(WebviewMessages) /\ draft \in Drafts
  BY <1>1, HostIs, DraftsAre DEF TypesSound
<1>6. CASE ~(host.ready /\ m.doc = host.doc)
  BY <1>1, <1>2, <1>3, <1>4, <1>5, RenewsSelf, <1>6, SeenIs, RenewsRecovery DEF AskedFor
<1>7. CASE host.ready /\ m.doc = host.doc /\ Refused(host, request)
  <2>1. host' = Invalidated(host) BY <1>2, <1>5, <1>7, RecoveryPageIs
  <2> QED BY <1>1, <1>2, <1>3, <1>5, <2>1, InvalidatedRenews, RevisionIs, RenewsRecovery
<1>8. CASE host.ready /\ m.doc = host.doc /\ ~Refused(host, request)
  <2>1. PICK a, c, h, n, p, may, must, heard :
          /\ a = Answer(host, request) /\ c = Paging(host, request) /\ h = host /\ n = host' /\ p = page
          /\ may = May /\ must = Must /\ heard = toHost'
    OBVIOUS
  <2>2. /\ c \in SoundHosts /\ c.ready /\ c.seen = h.seen /\ c.out = h.out /\ c.revision = h.revision
        /\ a \in OfType({"page"}) /\ n = Posted(c, <<a>>)
    BY <1>2, <1>5, <1>8, <2>1, RecoveryPageIs
  <2>3. n.seen = h.seen /\ n.revision = h.revision /\ n.out = h.out \o <<a>>
    <3>1. PICK ms : ms = <<a>> OBVIOUS
    <3>2. c \in Hosts /\ n = Posted(c, ms) BY <2>2, <3>1 DEF SoundHosts
    <3>3. n.seen = c.seen /\ n.revision = c.revision /\ n.out = IF c.ready THEN c.out \o ms ELSE c.out
      BY <3>2, PostedKeeps
    <3> QED BY <2>2, <3>1, <3>3
  <2>4. /\ a \in HostMessages /\ a.type = "page" /\ a.doc = h.doc /\ a.revision = h.revision /\ a.request = request
    BY <2>1, <2>2 DEF OfType, Answer
  <2>5. Answers(a, may, must) BY <1>2, <2>1, AnswerRight
  <2>6. RecoveryFits(p, h, q, documents, may, must) /\ h \in SoundHosts /\ h.out \in Seq(HostMessages) /\ h.revision \in Nat
    BY <1>1, <1>5, <2>1, RevisionIs DEF RecoverySound
  <2>7. PICK one : one = <<a>> OBVIOUS
  <2>8. ASSUME NEW all, a \notin all, Clear(h.out, all) PROVE Clear(n.out, all)
    <3>1. PICK out : out = h.out OBVIOUS
    <3>2. out \in Seq(HostMessages) /\ one \in Seq(HostMessages) /\ Clear(out, all) /\ Clear(one, all)
      BY <2>4, <2>6, <2>7, <2>8, <3>1, ClearOne
    <3>3. Clear(out \o one, all) BY <3>2, ClearConcat
    <3> QED BY <2>3, <2>7, <3>1, <3>3
  <2>9. Clear(n.out, Later(n.revision)) BY <2>3, <2>8, <2>4, <2>6 DEF Later, RecoveryFits
  <2>10. ASSUME NEW d \in Documents, d > documents PROVE Clear(heard, RequestsFor(d))
    BY <1>1, <1>2, <1>5, <2>1, <2>6, <2>10, HeardClear DEF RecoveryFits
  <2>11. ASSUME p # None, p.id \notin n.seen
         PROVE  p.revision = None /\ Clear(n.out, DraftsFor(p.id)) /\ Clear(heard, RequestsFor(p.id))
    <3>1. p.revision = None /\ Clear(h.out, DraftsFor(p.id)) /\ Clear(q, RequestsFor(p.id))
      BY <2>3, <2>6, <2>11 DEF RecoveryFits
    <3>2. a \notin DraftsFor(p.id) BY <1>5, <1>8, <2>1, <2>3, <2>4, <2>11 DEF DraftsFor, SoundHosts
    <3> QED BY <2>8, <3>1, <1>1, <1>2, <1>5, <2>1, HeardClear, <3>2
  <2>12. ASSUME p # None, p.id \in n.seen PROVE Drafted(p, n, heard, may, must)
    <3>1. p \in Pages /\ h.doc = p.id BY <2>1, <2>3, <2>12, SeenIs DEF Seen
    <3>2. Drafted(p, h, q, may, must) BY <2>3, <2>6, <2>12 DEF RecoveryFits
    <3>3. ASSUME Holds(q, AskedFor(p)) PROVE Holds(heard, AskedFor(p)) \/ a.request = p.request
      <4>1. CASE m = AskedFor(p) BY <1>1, <2>4, <4>1 DEF AskedFor
      <4>2. CASE m # AskedFor(p) BY <1>1, <1>2, <1>5, <2>1, <3>3, <4>2, HeardHolds
      <4> QED BY <4>1, <4>2
    <3> QED BY <2>3, <2>4, <2>5, <2>6, <3>1, <3>2, <3>3, AnsweredDrafted
  <2> QED BY <1>3, <1>4, <2>1, <2>9, <2>10, <2>11, <2>12, RecoveryNext DEF RecoveryFits
<1> QED BY <1>6, <1>7, <1>8

\* What a document has gathered once it has another page.
LEMMA StagedGathers ==
    ASSUME NEW staging \in SUBSET Rows, NEW m, m.rows \in SUBSET Rows, NEW after \in Uuid \cup {None},
           m.request.after = after, m.next \in Uuid \cup {None}, NEW may, NEW must, \A r \in must : r.uuid \in Nat,
           IF after = None THEN staging = {} ELSE Gathers(staging, after, may, must), Answers(m, may, must)
    PROVE  Gathers({r \in staging : \A q \in m.rows : q.uuid # r.uuid} \cup m.rows, m.next, may, must)
<1>1. PICK next, rows, kept, staged :
        /\ next = m.next /\ rows = m.rows /\ kept = {r \in staging : \A q \in m.rows : q.uuid # r.uuid}
        /\ staged = kept \cup rows
  OBVIOUS
<1>2. next \in Nat \cup {None} /\ after \in Nat \cup {None} /\ \A r \in Rows : r.uuid \in Nat
  BY <1>1, UuidAssumption DEF Rows
<1>3. /\ rows \subseteq may /\ \A r \in rows : Beyond(r.uuid, after) /\ Upto(r.uuid, next)
      /\ \A r \in must : Beyond(r.uuid, after) /\ Upto(r.uuid, next) => r \in rows
      /\ next # None => Beyond(next, after)
  BY <1>1 DEF Answers
<1>4. ASSUME NEW r \in kept PROVE r \in may /\ Upto(r.uuid, next)
  BY <1>2, <1>1, <1>4, <1>3 DEF Upto, Gathers, Beyond
<1>5. ASSUME NEW r \in must, Upto(r.uuid, next) PROVE r \in staged
  <2>1. CASE Beyond(r.uuid, after) BY <1>1, <1>3, <1>5, <2>1
  <2>2. CASE ~Beyond(r.uuid, after)
    <3>1. after # None /\ after \in Nat /\ r.uuid \in Nat /\ ~(r.uuid > after)
      BY <1>2, <2>2 DEF Beyond
    <3>2. ASSUME NEW q \in rows PROVE q.uuid # r.uuid BY <1>3, <3>1, <3>2 DEF Beyond
    <3> QED BY <1>1, <3>1, <3>2 DEF Gathers, Upto
  <2> QED BY <2>1, <2>2
<1> QED BY <1>1, <1>5, <1>3, <1>4 DEF Gathers

\* The document takes a message that changes nothing of its drafts.
LEMMA TakenDrafted ==
    ASSUME NEW p \in Pages, NEW o, o.id = p.id, o.revision = p.revision, o.request = p.request,
           o.staging = p.staging, o.rows = p.rows,
           NEW h \in SoundHosts, h.out # <<>>, NEW n, n.revision = h.revision, n.out = Tail(h.out),
           Head(h.out) \in OfRevision(p.id, h.revision) => p.revision = h.revision,
           p.revision = h.revision => Head(h.out) \notin DueFor(p),
           NEW heard, NEW may, NEW must, Drafted(p, h, heard, may, must)
    PROVE  Drafted(o, n, heard, may, must)
<1>1. PICK q, r, d, rest : q = h.out /\ r = h.revision /\ d = p.id /\ rest = Tail(h.out) OBVIOUS
<1>2. q \in Seq(HostMessages) /\ q # <<>> /\ rest = Tail(q) BY <1>1, RevisionIs
<1>3. /\ p.revision # None => p.revision <= r
      /\ Carried(q, Invalidations(d), OfRevision(d, r), p.revision = r)
      /\ Clear(q, WrongAnswers(d, r, may, must))
      /\ p.revision = r => Listed(p, q, heard, may, must)
  BY <1>1 DEF Drafted
<1>4. Carried(rest, Invalidations(d), OfRevision(d, r), p.revision = r)
  <2>1. PICK all, right, so : all = Invalidations(d) /\ right = OfRevision(d, r) /\ so = (p.revision = r)
    OBVIOUS
  <2>2. Carried(q, all, right, so) /\ so \in BOOLEAN /\ (Head(q) \in right => so)
    BY <1>1, <1>3, <2>1
  <2>3. Carried(rest, all, right, so) BY <1>2, <2>2, CarriedTail
  <2> QED BY <2>1, <2>3
<1>5. ASSUME p.revision = r PROVE Listed(o, rest, heard, may, must)
  <2>1. PICK due : due = DueFor(p) OBVIOUS
  <2> QED BY <2>1, <1>1, <1>2, <1>5, ClearTail, <1>3, ListedStays DEF Listed, AskedFor, DueFor
<1> QED BY <1>1, <1>3, <1>4, <1>2, ClearTail, <1>5 DEF Drafted

\* It starts over.
LEMMA RestartedDrafted ==
    ASSUME NEW p, NEW o, o.id = p.id, NEW h \in SoundHosts, h.out # <<>>, NEW n, n.revision = h.revision,
           n.out = Tail(h.out), NEW m, m = Head(h.out), m \in Invalidations(p.id), m.revision <= h.revision,
           o.revision = m.revision, o.request # None, o.request.after = None, o.staging = {},
           NEW heard, NEW may, NEW must, Drafted(p, h, heard, may, must),
           NEW heardN, Holds(heardN, AskedFor(o))
    PROVE  Drafted(o, n, heardN, may, must)
<1>1. PICK q, r, d, rest : q = h.out /\ r = h.revision /\ d = p.id /\ rest = Tail(h.out) OBVIOUS
<1>2. q \in Seq(HostMessages) /\ q # <<>> /\ rest = Tail(q) BY <1>1, RevisionIs
<1>3. /\ Carried(q, Invalidations(d), OfRevision(d, r), p.revision = r)
      /\ Clear(q, WrongAnswers(d, r, may, must))
  BY <1>1 DEF Drafted
<1>4. Carried(rest, Invalidations(d), OfRevision(d, r), o.revision = r)
  <2>1. PICK all, right, wasSo, so : /\ all = Invalidations(d) /\ right = OfRevision(d, r)
                                     /\ wasSo = (p.revision = r) /\ so = (o.revision = r)
    OBVIOUS
  <2>2. /\ Carried(q, all, right, wasSo) /\ wasSo \in BOOLEAN /\ so \in BOOLEAN
        /\ Head(q) \in right => so
        /\ Head(q) \in all
    BY <1>1, <1>3, <2>1 DEF OfRevision
  <2>3. Carried(rest, all, right, so) BY <1>2, <2>2, CarriedTail
  <2> QED BY <2>1, <2>3
<1> QED BY <1>1, <1>4, <1>2, <1>3, ClearTail DEF Drafted, Listed

\* It takes a page that it waits for.
LEMMA PagedDrafted ==
    ASSUME NEW p \in Pages, NEW h \in SoundHosts, h.out # <<>>, NEW n, n.revision = h.revision,
           n.out = Tail(h.out), NEW m, m = Head(h.out), m \in DueFor(p),
           NEW staged, staged = {r \in p.staging : \A q \in m.rows : q.uuid # r.uuid} \cup m.rows,
           NEW o, o.id = p.id, o.revision = p.revision,
           NEW heard, NEW may, NEW must, \A r \in must : r.uuid \in Nat, Drafted(p, h, heard, may, must), NEW heardN,
           IF m.next = None THEN o.request = None /\ o.rows = staged
           ELSE /\ o.request # None /\ o.request.after = m.next /\ o.staging = staged
                /\ Holds(heardN, AskedFor(o))
    PROVE  Drafted(o, n, heardN, may, must)
<1>1. PICK q, r, d, rest : q = h.out /\ r = h.revision /\ d = p.id /\ rest = Tail(h.out) OBVIOUS
<1>2. q \in Seq(HostMessages) /\ q # <<>> /\ rest = Tail(q) /\ m = Head(q) BY <1>1, RevisionIs
<1>3. /\ p.revision # None => p.revision <= r
      /\ Carried(q, Invalidations(d), OfRevision(d, r), p.revision = r)
      /\ Clear(q, WrongAnswers(d, r, may, must))
      /\ p.revision = r => Listed(p, q, heard, may, must)
  BY <1>1 DEF Drafted
<1>4. /\ m \in HostMessages /\ m.type = "page" /\ m.doc = d /\ m.request = p.request /\ m.revision = p.revision
  BY <1>1 DEF DueFor, DraftMessages
<1>5. Carried(rest, Invalidations(d), OfRevision(d, r), p.revision = r)
  <2>1. PICK all, right, so : all = Invalidations(d) /\ right = OfRevision(d, r) /\ so = (p.revision = r)
    OBVIOUS
  <2>2. Carried(q, all, right, so) /\ so \in BOOLEAN /\ Head(q) \notin right
    BY <1>2, <1>3, <1>4, <2>1 DEF OfRevision, Invalidations
  <2>3. Carried(rest, all, right, so) BY <1>2, <2>2, CarriedTail
  <2> QED BY <2>1, <2>3
<1>6. Clear(rest, WrongAnswers(d, r, may, must)) /\ m \notin WrongAnswers(d, r, may, must)
  BY <1>2, <1>3, ClearTail
<1>7. ASSUME p.revision = r PROVE Listed(o, rest, heardN, may, must)
  <2>1. Answers(m, may, must) BY <1>4, <1>6, <1>7 DEF WrongAnswers, DraftMessages, Pagings
  <2>2. PICK after : after = p.request.after OBVIOUS
  <2>3. /\ m.request \in Requests /\ m.rows \in SUBSET Rows /\ m.next \in Uuid \cup {None}
    BY <1>4, MessageIs
  <2>4. p.request # None /\ after \in Uuid \cup {None} /\ m.request.after = after /\ p.staging \in SUBSET Rows
    BY <1>4, <2>2, <2>3, NoneIs DEF Requests, Pages
  <2>5. IF after = None THEN p.staging = {} ELSE Gathers(p.staging, after, may, must)
    BY <1>3, <1>7, <2>2, <2>4 DEF Listed
  <2>6. PICK staging : staging = p.staging OBVIOUS
  <2>7. Gathers({x \in staging : \A y \in m.rows : y.uuid # x.uuid} \cup m.rows, m.next, may, must)
    BY <2>1, <2>3, <2>4, <2>5, <2>6, StagedGathers
  <2>8. Gathers(staged, m.next, may, must) BY <2>6, <2>7
  <2>9. CASE m.next = None BY <2>8, <2>9 DEF Listed
  <2>10. CASE m.next # None BY <2>8, <2>10 DEF Listed
  <2> QED BY <2>9, <2>10
<1> QED BY <1>1, <1>3, <1>5, <1>6, <1>7 DEF Drafted

LEMMA MustIs ==
    ASSUME TypesSound
    PROVE  \A r \in Must : r.uuid \in Nat
<1>1. ASSUME NEW r \in Must PROVE r.uuid \in Nat
  <2>1. PICK u \in Recoverable : r = Row(u) BY <1>1 DEF Must
  <2> QED BY UuidAssumption, <2>1 DEF Row, Recoverable
<1> QED BY <1>1

LEMMA HoldsAppended ==
    ASSUME NEW q \in Seq(WebviewMessages), NEW m \in WebviewMessages
    PROVE  Holds(Append(q, m), m)
BY AppendedFacts DEF Holds

\* The document takes a message of the host.
LEMMA ReceivesRecovery ==
    ASSUME TypesSound, DocSound, RecoverySound, DocumentReceives
    PROVE  RecoverySound'
<1>1. PICK m, q, rest, p, o, h, n, heard, next, may, must :
        /\ m = Received /\ q = host.out /\ rest = Tail(host.out) /\ p = page /\ o = page' /\ h = host /\ n = host'
        /\ heard = toHost /\ next = toHost' /\ may = May /\ must = Must
  OBVIOUS
<1>2. ViewSound BY DEF TypesSound
<1>3. /\ Applies(m.type, o) /\ Shows(o, m) BY <1>1, ReceivesIs
<1>4. /\ p \in Pages /\ p # None /\ q \in Seq(HostMessages) /\ q # <<>> /\ m \in HostMessages /\ m = Head(q)
      /\ n.seen = h.seen /\ n.revision = h.revision /\ n.out = rest /\ rest = Tail(q)
      /\ UNCHANGED <<live, draft, forgotten, documents>>
  BY <1>1, <1>2, <1>3, AppliesIs DEF composer, Received
<1>5. o \in Pages /\ o.id = p.id /\ o # None BY <1>1, <1>3, PageIs DEF Shows
<1>6. May' = may /\ Must' = must BY <1>1, <1>4 DEF May, Must, Row, Recoverable, Uuids
<1>7. /\ RecoveryFits(p, h, heard, documents, may, must) /\ h \in SoundHosts /\ h.revision \in Nat
      /\ heard \in Seq(WebviewMessages)
  BY <1>1, HostIs, RevisionIs DEF RecoverySound
<1>8. PICK k : k = RequestOf(o.request) OBVIOUS
<1>9. p.id \in Nat /\ documents \in Nat /\ p.id = documents
  BY <1>1, <1>2, <1>4, PageIs DEF DocSound, ViewSound, Documents
\* What the message does to the drafts.
<1>10. \/ /\ o.revision = p.revision /\ o.request = p.request /\ o.staging = p.staging /\ o.rows = p.rows
          /\ next = heard
          /\ m.type \notin Pagings \/ (m.type = "invalidated" /\ ~Fresh(m)) \/ (m.type = "page" /\ ~Due(m))
       \/ /\ m.type = "invalidated" /\ Fresh(m) /\ o.revision = m.revision
          /\ o.request # None /\ o.request.after = None /\ o.staging = {}
          /\ k \in WebviewMessages /\ next = Append(heard, k)
       \/ /\ m.type = "page" /\ Due(m) /\ o.revision = p.revision
          /\ IF m.next = None THEN o.request = None /\ o.rows = Staged(m) /\ next = heard
             ELSE /\ o.request # None /\ o.request.after = m.next /\ o.staging = Staged(m)
                  /\ k \in WebviewMessages /\ next = Append(heard, k)
  <2>1. CASE RecoveryInvalidated /\ m.type = "invalidated"
    <3>1. m.revision \in Nat BY <1>4, <2>1, MessageIs
    <3>2. PICK new : new = Request(m.revision, None) OBVIOUS
    <3>3. new.after = None /\ new # None BY <1>4, <3>1, <3>2, RequestIs
    <3>4. /\ new \in Requests /\ RequestOf(new) \in WebviewMessages
          /\ Fresh(m) => o.revision = m.revision /\ o.request = new /\ o.staging = {} /\ next = Append(heard, RequestOf(new))
          /\ ~Fresh(m) => o = p /\ next = heard
      BY <1>1, <1>2, <2>1, <3>2, RecoveryInvalidatedIs
    <3> QED BY <1>8, <2>1, <3>3, <3>4
  <2>2. CASE RecoveryPaged /\ m.type = "page"
    <3>1. m.revision \in Nat /\ m.next \in Uuid \cup {None} BY <1>4, <2>2, MessageIs
    <3>2. PICK new : new = Request(m.revision, m.next) OBVIOUS
    <3>3. new.after = m.next /\ new # None BY <1>4, <3>1, <3>2, RequestIs
    <3>4. /\ new \in Requests /\ RequestOf(new) \in WebviewMessages /\ o.revision = p.revision
          /\ Due(m) /\ m.next # None => o.request = new /\ o.staging = Staged(m) /\ next = Append(heard, RequestOf(new))
          /\ Due(m) /\ m.next = None => o.request = None /\ o.rows = Staged(m) /\ next = heard
          /\ ~Due(m) => o = p /\ next = heard
      BY <1>1, <1>2, <2>2, <3>2, RecoveryPagedIs
    <3> QED BY <1>8, <2>2, <3>3, <3>4
  <2>3. CASE SameDrafts(page') /\ toHost' = toHost /\ m.type \notin {"invalidated", "page"}
    BY <1>1, <2>3 DEF SameDrafts, Pagings
  <2> QED BY <1>1, <2>1, <2>2, <2>3, ReceivesEffect
<1>11. Clear(n.out, Later(n.revision)) /\ m \notin Later(h.revision)
  <2>1. PICK later : later = Later(h.revision) OBVIOUS
  <2>2. Clear(q, later) BY <1>1, <1>7, <2>1 DEF RecoveryFits
  <2>3. Head(q) \notin later /\ Clear(Tail(q), later) BY <1>4, <2>2, ClearTail
  <2> QED BY <1>4, <2>1, <2>3
<1>12. k.type = "request" /\ k.doc = p.id /\ k = AskedFor(o)
  BY <1>1, <1>5, <1>8 DEF RequestOf, AskedFor
<1>13. ASSUME NEW d \in Documents, d > documents PROVE Clear(next, RequestsFor(d))
  <2>1. Clear(heard, RequestsFor(d)) BY <1>7, <1>13 DEF RecoveryFits
  <2>2. d # p.id BY <1>9, <1>13 DEF Documents
  <2>3. PICK all : all = RequestsFor(d) OBVIOUS
  <2>4. k \notin all /\ Clear(heard, all) BY <1>12, <2>1, <2>2, <2>3 DEF RequestsFor
  <2>5. k \in WebviewMessages => Clear(Append(heard, k), all) BY <1>7, <2>4, ClearAppend
  <2>6. next = heard \/ (k \in WebviewMessages /\ next = Append(heard, k)) BY <1>10
  <2> QED BY <2>3, <2>4, <2>5, <2>6
<1>14. ASSUME o.id \notin n.seen
       PROVE  o.revision = None /\ Clear(n.out, DraftsFor(o.id)) /\ Clear(next, RequestsFor(o.id))
  <2>1. p.revision = None /\ Clear(q, DraftsFor(p.id)) /\ Clear(heard, RequestsFor(p.id))
    BY <1>1, <1>4, <1>5, <1>7, <1>14 DEF RecoveryFits
  <2>2. m \notin DraftsFor(p.id) /\ Clear(rest, DraftsFor(p.id)) BY <1>4, <2>1, ClearTail
  <2>3. ~(m.type \in Pagings /\ m.doc = p.id) BY <1>4, <2>2 DEF DraftsFor, DraftMessages
  <2>4. o.revision = p.revision /\ next = heard BY <1>1, <1>10, <2>3 DEF Fresh, Due, Pagings
  <2> QED BY <1>4, <1>5, <2>1, <2>2, <2>4
<1>15. ASSUME o.id \in n.seen PROVE Drafted(o, n, next, may, must)
  <2>1. Drafted(p, h, heard, may, must) BY <1>4, <1>5, <1>7, <1>15 DEF RecoveryFits
  <2>2. CASE /\ o.revision = p.revision /\ o.request = p.request /\ o.staging = p.staging /\ o.rows = p.rows
             /\ next = heard
             /\ m.type \notin Pagings \/ (m.type = "invalidated" /\ ~Fresh(m)) \/ (m.type = "page" /\ ~Due(m))
    <3>1. p.revision \in Nat \cup {None} /\ (p.revision # None => p.revision <= h.revision)
      BY <1>4, <2>1 DEF Pages, Drafted
    <3>2. ASSUME m \in OfRevision(p.id, h.revision) PROVE p.revision = h.revision
      <4>1. m.type = "invalidated" /\ m.doc = p.id /\ m.revision = h.revision
        BY <3>2 DEF OfRevision, Invalidations
      <4>2. ~Fresh(m) BY <2>2, <4>1 DEF Pagings
      <4>3. p.revision # None /\ ~(h.revision >= p.revision) BY <1>1, <4>1, <4>2 DEF Fresh
      <4> QED BY <1>7, <3>1, <4>3
    <3>3. m \notin DueFor(p) BY <1>1, <2>2 DEF DueFor, Due, Pagings
    <3>4. /\ h.out # <<>> /\ n.out = Tail(h.out) /\ m = Head(h.out) BY <1>1, <1>4
    <3> QED BY <1>4, <1>5, <1>7, <2>1, <2>2, <3>2, <3>3, <3>4, TakenDrafted
  <2>3. CASE /\ m.type = "invalidated" /\ Fresh(m) /\ o.revision = m.revision
             /\ o.request # None /\ o.request.after = None /\ o.staging = {}
             /\ k \in WebviewMessages /\ next = Append(heard, k)
    <3>1. m \in Invalidations(p.id)
      BY <1>1, <1>4, <2>3 DEF Invalidations, DraftMessages, Pagings, Fresh
    <3>2. m.revision <= h.revision
      <4>1. m.revision \in Nat /\ m \in DraftMessages
        BY <1>4, <2>3, <3>1, MessageIs DEF Invalidations
      <4> QED BY <1>7, <1>11, <4>1 DEF Later
    <3>3. Holds(next, AskedFor(o)) BY <1>7, <1>12, <2>3, HoldsAppended
    <3>4. /\ h.out # <<>> /\ n.out = Tail(h.out) /\ m = Head(h.out) BY <1>1, <1>4
    <3> QED BY <1>4, <1>5, <1>7, <2>1, <2>3, <3>1, <3>2, <3>3, <3>4, RestartedDrafted
  <2>4. CASE /\ m.type = "page" /\ Due(m) /\ o.revision = p.revision
             /\ IF m.next = None THEN o.request = None /\ o.rows = Staged(m) /\ next = heard
                ELSE /\ o.request # None /\ o.request.after = m.next /\ o.staging = Staged(m)
                     /\ k \in WebviewMessages /\ next = Append(heard, k)
    <3>1. m \in DueFor(p) BY <1>1, <1>4, <2>4 DEF DueFor, DraftMessages, Pagings, Due
    <3>2. PICK staged : staged = {r \in p.staging : \A y \in m.rows : y.uuid # r.uuid} \cup m.rows
      OBVIOUS
    <3>3. Staged(m) = staged BY <1>1, <3>2 DEF Staged
    <3>4. m.next # None => Holds(next, AskedFor(o)) BY <1>7, <1>12, <2>4, HoldsAppended
    <3>5. /\ h.out # <<>> /\ n.out = Tail(h.out) /\ m = Head(h.out) BY <1>1, <1>4
    <3>6. \A r \in must : r.uuid \in Nat BY <1>1, MustIs
    <3>7. IF m.next = None THEN o.request = None /\ o.rows = staged
          ELSE /\ o.request # None /\ o.request.after = m.next /\ o.staging = staged
               /\ Holds(next, AskedFor(o))
      BY <2>4, <3>3, <3>4
    <3> QED BY <1>4, <1>5, <1>7, <2>1, <2>4, <3>1, <3>2, <3>5, <3>6, <3>7, PagedDrafted
  <2> QED BY <1>10, <2>2, <2>3, <2>4
<1>16. PICK docs : docs = documents OBVIOUS
<1>17. RecoveryFits(o, n, next, docs, may, must)
  BY <1>11, <1>13, <1>14, <1>15, <1>16 DEF RecoveryFits
<1>18. docs = documents' BY <1>4, <1>16
<1> QED BY <1>1, <1>6, <1>17, <1>18, RecoveryNext

\* The host hears of a document: it tells of a revision of its own.
LEMMA HydratedClear ==
    ASSUME TypesSound, NEW d \in Documents, d \notin host.seen, host.open, host' = Hydrated(host, d),
           NEW all \in SUBSET DraftMessages, Clear(host.out, all),
           [type |-> "invalidated", doc |-> d, revision |-> host.revision + 1] \notin all
    PROVE  Clear(host'.out, all)
<1>1. PICK m, z, ms, q : /\ m = Hydration(host) /\ ms = <<m>> \o Replay /\ q = host.out
                         /\ z = [type |-> "invalidated", doc |-> d, revision |-> host.revision + 1]
  OBVIOUS
<1>2. /\ m \in OfType({"hydrate"}) /\ Replay \in Seq(OfType({"data"})) /\ z \in OfType({"invalidated"})
      /\ ms \in Seq(HostMessages) /\ <<z>> \in Seq(HostMessages)
      /\ host'.out = (q \o ms) \o <<z>>
  BY <1>1, HydratedOut
<1>3. PICK first, last, replay : first = <<m>> /\ last = <<z>> /\ replay = Replay OBVIOUS
<1>4. /\ first \in Seq(HostMessages) /\ last \in Seq(HostMessages) /\ replay \in Seq(HostMessages)
      /\ ms = first \o replay /\ q \in Seq(HostMessages) /\ Clear(q, all)
  BY <1>1, <1>2, <1>3, SubSequence, HostIs DEF OfType
<1>5. Clear(first, all) /\ Clear(last, all)
  BY <1>3, <1>1, <1>2, ClearOne DEF DraftMessages, Pagings, OfType
<1>6. Clear(replay, all)
  <2>1. \A x \in all : x.type \notin {"data"} BY DEF DraftMessages, Pagings
  <2> QED BY <1>2, <1>3, <2>1, ClearTypes
<1>7. Clear(ms, all) BY <1>4, <1>5, <1>6, ClearConcat
<1>8. Clear(q \o ms, all) /\ q \o ms \in Seq(HostMessages)
  BY <1>2, <1>4, <1>7, ClearConcat, ConcatFacts
<1>9. PICK w : w = q \o ms OBVIOUS
<1>10. Clear(w \o last, all) BY <1>4, <1>5, <1>8, <1>9, ClearConcat
<1> QED BY <1>2, <1>3, <1>9, <1>10

LEMMA ReadyRecovery ==
    ASSUME TypesSound, DocSound, RecoverySound, Ready
    PROVE  RecoverySound'
<1>1. PICK h, n, p, q, heard, docs, may, must :
        /\ h = host /\ n = host' /\ p = page /\ q = toHost /\ heard = toHost' /\ docs = documents
        /\ may = May /\ must = Must
  OBVIOUS
<1>2. /\ ~Seen /\ p # None /\ page' = p /\ host.open /\ heard = Tail(q) /\ q # <<>>
      /\ UNCHANGED <<live, draft, forgotten, documents>>
  BY <1>1, ReadySeen, ReadyIs DEF composer
<1>3. May' = may /\ Must' = must BY <1>1, <1>2 DEF May, Must, Row, Recoverable, Uuids
<1>4. /\ RecoveryFits(p, h, q, docs, may, must) /\ h \in SoundHosts /\ h.revision \in Nat
      /\ q \in Seq(WebviewMessages) /\ h.out \in Seq(HostMessages)
  BY <1>1, HostIs, RevisionIs DEF RecoverySound
<1>5. CASE host' = host BY <1>1, <1>2, <1>3, <1>4, <1>5, RenewsSelf, RenewsRecovery
<1>6. ASSUME NEW d \in Documents, d \notin host.seen, host' = Hydrated(host, d)
      PROVE  RecoverySound'
  <2>1. PICK z, r : r = h.revision + 1 /\ z = [type |-> "invalidated", doc |-> d, revision |-> r]
    OBVIOUS
  <2>2. /\ z \in OfType({"invalidated"}) /\ n.revision = r /\ n.seen = h.seen \cup {d} /\ r \in Nat /\ r > h.revision
    <3>1. PICK y : y = [type |-> "invalidated", doc |-> d, revision |-> host.revision + 1] OBVIOUS
    <3>2. /\ y \in OfType({"invalidated"}) /\ host'.revision = host.revision + 1
          /\ host'.seen = host.seen \cup {d}
      BY <1>2, <1>6, <3>1, HydratedOut
    <3> QED BY <1>1, <1>4, <2>1, <3>2, <3>1
  <2>3. ASSUME NEW all \in SUBSET DraftMessages, Clear(h.out, all), z \notin all PROVE Clear(n.out, all)
    BY <1>1, <1>2, <1>6, <2>1, <2>3, HydratedClear
  <2>4. Clear(n.out, Later(n.revision))
    <3>1. PICK later : later = Later(r) OBVIOUS
    <3>2. later \subseteq Later(h.revision)
      <4>1. ASSUME NEW m \in later PROVE m \in DraftMessages /\ m.revision > h.revision
        BY <1>4, <2>2, <3>1, <4>1, DraftMessageIs DEF Later
      <4> QED BY <4>1 DEF Later
    <3> QED BY <2>2, <2>3, <3>1, <2>1, <1>4, <3>2, ClearNarrower DEF Later, RecoveryFits
  <2>5. ASSUME NEW e \in Documents, e > docs PROVE Clear(heard, RequestsFor(e))
    BY <1>1, <1>2, <1>4, <2>5, HeardClear DEF RecoveryFits
  <2>6. p.id \notin h.seen BY <1>1, <1>2 DEF Seen
  <2>7. p.revision = None /\ Clear(h.out, DraftsFor(p.id)) /\ Clear(q, RequestsFor(p.id))
    BY <1>2, <1>4, <2>6 DEF RecoveryFits
  <2>8. ASSUME p.id \notin n.seen
        PROVE  p.revision = None /\ Clear(n.out, DraftsFor(p.id)) /\ Clear(heard, RequestsFor(p.id))
    <3>1. PICK drafts : drafts = DraftsFor(p.id) OBVIOUS
    <3> QED BY <2>3, <2>7, <1>1, <1>2, <1>4, HeardClear, <3>1, <2>1, <2>2, <2>8 DEF DraftsFor
  <2>9. ASSUME p.id \in n.seen PROVE Drafted(p, n, heard, may, must)
    <3>1. PICK all, right, wrong, none :
            /\ all = Invalidations(p.id) /\ right = OfRevision(p.id, r) /\ wrong = WrongAnswers(p.id, r, may, must)
            /\ none = (p.revision = r)
      OBVIOUS
    <3>2. Carried(n.out, all, right, none)
      <4>1. PICK m, ms, w, last : m = Hydration(host) /\ ms = <<m>> \o Replay /\ w = host.out \o ms /\ last = <<z>>
        OBVIOUS
      <4>2. ms \in Seq(HostMessages) /\ last \in Seq(HostMessages) /\ n.out = w \o last
        BY <1>1, <1>2, <1>6, <2>1, <4>1, HydratedOut
      <4>3. w \in Seq(HostMessages) BY <1>1, <1>4, <4>1, <4>2, ConcatFacts
      <4>4. EndsIn(last, all, right)
        BY <2>1, <2>2, <2>6, <2>9, <3>1, <4>1, EndsOne DEF OfRevision, Invalidations, DraftMessages,
           Pagings, OfType
      <4> QED BY <4>2, <4>3, <4>4, EndsConcat DEF Carried
    <3>3. Clear(n.out, wrong) BY <2>3, <2>1, <3>1, <2>7, ClearNarrower DEF WrongAnswers, DraftsFor
    <3> QED BY <2>2, <2>7, <3>1, <3>2, <3>3, NoneIs DEF Drafted
  <2>10. p = page' /\ docs = documents' /\ may = May' /\ must = Must' BY <1>1, <1>2, <1>3
  <2> QED BY <1>1, <2>4, <2>5, <2>8, <2>9, <2>10, RecoveryNext DEF RecoveryFits
<1>7. CASE Seen' BY <1>6, <1>7, ReadySeen
<1>8. CASE ~Seen' BY <1>5, <1>6, <1>8, ReadySeen
<1> QED BY <1>7, <1>8

\* Documents come, go and run.
LEMMA NewDocumentRecovery ==
    ASSUME TypesSound, DocSound, RecoverySound, ResolveView \/ DisposeView \/ ReloadDocument
    PROVE  RecoverySound'
<1>1. PICK h, n, o, q, heard, docs, next, may, must :
        /\ h = host /\ n = host' /\ o = page' /\ q = toHost /\ heard = toHost' /\ docs = documents
        /\ next = documents' /\ may = May' /\ must = Must'
  OBVIOUS
<1>2. RecoveryFits(page, h, q, docs, May, Must) /\ docs \in Nat /\ ~Seen'
  BY <1>1, NewUnseen DEF RecoverySound, TypesSound, ViewSound
<1>3. /\ n.out = <<>> /\ (heard = q \/ heard = <<>>)
      /\ (o = None /\ next = docs) \/ (next = docs + 1 /\ next \in Documents /\ o = Document(next))
  <2>1. CASE ResolveView BY <1>1, <2>1, ResolveViewIs
  <2>2. CASE DisposeView BY <1>1, <2>2, DisposeViewIs
  <2>3. CASE ReloadDocument BY <1>1, <2>3, ReloadDocumentIs
  <2> QED BY <2>1, <2>2, <2>3
<1>4. ASSUME NEW d \in Documents, d > docs PROVE Clear(heard, RequestsFor(d))
  BY <1>3, <1>2, <1>4, ClearEmpty DEF RecoveryFits
<1>5. ASSUME NEW d \in Documents, d > next PROVE Clear(heard, RequestsFor(d))
  BY <1>4, <1>2, <1>3, <1>5 DEF Documents
<1>6. ASSUME o # None PROVE o.id \notin n.seen /\ o.revision = None /\ Clear(heard, RequestsFor(o.id))
  BY <1>4, <1>1, <1>2, <1>3, <1>6, DocumentIs DEF Seen
<1> QED BY <1>1, <1>3, ClearEmpty, <1>5, <1>6, RecoveryNext DEF RecoveryFits

\* A queue from the document that is added to.
LEMMA HoldsAppend ==
    ASSUME NEW q \in Seq(WebviewMessages), NEW m \in WebviewMessages, NEW k, Holds(q, k)
    PROVE  Holds(Append(q, m), k)
BY AppendedFacts DEF Holds

\* The document reports or is clicked on: that says nothing of the drafts.
LEMMA SaysRecovery ==
    ASSUME TypesSound, DocSound, RecoverySound,
           DocumentLoads \/ \E s \in Session : ClickTab(s) \/ ClickClose(s) \/ ClickRename(s)
    PROVE  RecoverySound'
<1>1. PICK h, n, p, o, q, heard, docs, may, must :
        /\ h = host /\ n = host' /\ p = page /\ o = page' /\ q = toHost /\ heard = toHost' /\ docs = documents
        /\ may = May /\ must = Must
  OBVIOUS
<1>2. RecoveryFits(p, h, q, docs, may, must) /\ q \in Seq(WebviewMessages)
  BY <1>1, HostIs DEF RecoverySound
<1>3. /\ UNCHANGED <<live, draft, forgotten, documents>>
      /\ p # None /\ p \in Pages /\ o \in Pages /\ o.id = p.id /\ SameRest(o)
      /\ n.seen = h.seen /\ n.revision = h.revision
      /\ n.out = h.out \/ (DocumentLoads /\ n.out = <<>>)
      /\ \E m \in WebviewMessages : m.type # "request" /\ heard = Append(q, m)
  <2>1. CASE DocumentLoads
    <3>1. PICK m : m = [type |-> "ready", doc |-> page.id] OBVIOUS
    <3> QED BY <1>1, <2>1, <3>1, DocumentLoadsIs DEF composer
  <2>2. ASSUME NEW s \in Session, ClickTab(s) \/ ClickClose(s) \/ ClickRename(s)
        PROVE  /\ UNCHANGED <<live, draft, forgotten, documents, host>>
               /\ p # None /\ p \in Pages /\ o \in Pages /\ o.id = p.id /\ SameRest(o)
               /\ \E m \in WebviewMessages : m.type # "request" /\ heard = Append(q, m)
    <3>1. PICK type \in {"select", "close", "rename"} :
            [type |-> type, id |-> s] \in WebviewMessages /\ toHost' = Append(toHost, [type |-> type, id |-> s])
      BY <2>2, ClickIs
    <3>2. PICK m : m = [type |-> type, id |-> s] OBVIOUS
    <3>3. m \in WebviewMessages /\ m.type # "request" /\ heard = Append(q, m) BY <1>1, <3>1, <3>2
    <3> QED BY <1>1, <2>2, <3>3, ClickIs DEF composer
  <2> QED BY <1>1, <2>1, <2>2
<1>4. o.revision = p.revision /\ o.request = p.request /\ o.staging = p.staging /\ o.rows = p.rows
  BY <1>1, <1>3 DEF SameRest
<1>5. PICK m \in WebviewMessages : m.type # "request" /\ heard = Append(q, m) BY <1>3
<1>6. May' = may /\ Must' = must BY <1>1, <1>3 DEF May, Must, Row, Recoverable, Uuids
<1>7. ASSUME NEW all, Clear(h.out, all) PROVE Clear(n.out, all) BY <1>3, <1>7, ClearEmpty
<1>8. ASSUME NEW d, Clear(q, RequestsFor(d)) PROVE Clear(heard, RequestsFor(d))
  <2>1. PICK all : all = RequestsFor(d) OBVIOUS
  <2> QED BY <1>2, <1>5, <2>1, <1>8, ClearAppend DEF RequestsFor
<1>9. ASSUME o.id \notin n.seen
       PROVE  o.revision = None /\ Clear(n.out, DraftsFor(o.id)) /\ Clear(heard, RequestsFor(o.id))
  BY <1>2, <1>3, <1>4, <1>7, <1>8, <1>9 DEF RecoveryFits
<1>10. ASSUME o.id \in n.seen PROVE Drafted(o, n, heard, may, must)
  <2>1. n.out = h.out BY <1>3, <1>1, <1>10, NewUnseen, PageIs DEF Seen
  <2>2. Drafted(p, h, q, may, must) BY <1>2, <1>3, <1>10 DEF RecoveryFits
  <2>3. ASSUME p.revision = h.revision PROVE Listed(o, n.out, heard, may, must)
    <3>1. Listed(p, h.out, q, may, must) BY <2>2, <2>3 DEF Drafted
    <3> QED
      BY <1>3, <1>4, <2>1, <3>1, <1>2, <1>5, HoldsAppend, ListedStays DEF Listed, AskedFor, DueFor
  <2> QED BY <1>3, <1>4, <2>1, <2>2, <2>3 DEF Drafted
<1>11. RecoveryFits(o, n, heard, docs, may, must)
  BY <1>3, <1>7, <1>2, <1>8, <1>9, <1>10 DEF RecoveryFits
<1>12. docs = documents' BY <1>1, <1>3
<1> QED BY <1>1, <1>6, <1>11, <1>12, RecoveryNext

LEMMA NextKeepsRecovery ==
    ASSUME TypesSound, DocSound, RecoverySound, [Next]_vars
    PROVE  RecoverySound'
<1>1. CASE World
  BY <1>1, DraftSavedRecovery, ForgetRecovery, LooksRecovery, ListsRecovery DEF World, OnLists
<1>2. CASE View BY <1>2, NewDocumentRecovery, LooksRecovery, SaysRecovery, ReceivesRecovery DEF View
<1>3. CASE Provider
  <2>1. CASE SelectRequested BY <2>1, SelectIs, ListsRecovery DEF OnLists, Reselects, Arrives, Takes
  <2> QED BY <1>3, <2>1, LooksRecovery, ReadyRecovery, RequestedRecovery, ListsRecovery DEF Provider
<1>4. CASE UNCHANGED vars
  BY <1>4, HostIs, RenewsSelf, RenewsRecovery DEF May, Must, Row, Recoverable, Uuids, vars,
     composer
<1> QED BY <1>1, <1>2, <1>3, <1>4 DEF Next

--------------------
(* The document agrees with the host *)

\* What holds of the panel in every state that is reached.
PanelSound ==
    /\ TypesSound /\ ScanSound /\ DocSound /\ ResumeSound /\ RemovedSound /\ ContentSound
    /\ SelectedSound /\ RecoverySound

LEMMA InitPanel ==
    ASSUME Init
    PROVE  PanelSound
<1>1. page = None /\ host.out = <<>> /\ toHost = <<>> BY DEF Init
<1>2. RecoverySound BY <1>1, ClearEmpty DEF RecoverySound, RecoveryFits
<1> QED
  BY <1>1, ClearEmpty, <1>2, InitTypes, InitScan, InitDoc DEF PanelSound, ResumeSound, ContentSound,
     SelectedSound, RemovedSound, Seen

LEMMA NextKeepsPanel ==
    ASSUME PanelSound, [Next]_vars
    PROVE  PanelSound'
<1> QED
  BY NextKeepsTypes, NextKeepsScan, NextKeepsDoc, NextKeepsResume, NextKeepsRemoved,
     NextKeepsContent, NextKeepsSelected, NextKeepsRecovery DEF PanelSound

\* Nothing is under way: the document has the list of drafts.
LEMMA ListedDrafts ==
    ASSUME RecoverySound, Seen, host.out = <<>>, toHost = <<>>
    PROVE  Gathers(page.rows, None, May, Must)
<1>1. PICK p, h, r, may, must : p = page /\ h = host /\ r = host.revision /\ may = May /\ must = Must
  OBVIOUS
<1> QED
  BY <1>1, ClearEmpty DEF Listed, Holds, Drafted, Carried, EndsIn, RecoverySound, RecoveryFits, Seen

LEMMA QuietAgrees ==
    ASSUME PanelSound, Quiet
    PROVE  /\ page.tabs = live
           /\ page.active = active \/ (page.active = None /\ page.clicked)
           /\ \A s \in Ids(live) :
                 \/ page.terminal[s] = printed[s]
                 \/ page.hydrates = 2 /\ page.terminal[s] > printed[s]
           /\ page.resume = {u \in Candidates(known, live) : Evidence(u) # "absent"}
           /\ ShownDrafts \ Unerased = {Row(u) : u \in Recoverable \ (Uuids(live) \cup page.resume)}
<1>1. /\ host.open /\ page.loaded /\ host.out = <<>> /\ toHost = <<>> /\ host.scan = None /\ ~host.retry
  BY DEF Quiet
<1>2. page # None /\ page \in Pages BY <1>1 DEF PanelSound, TypesSound, ViewSound
<1>3. Seen BY <1>1, <1>2, ClearEmpty DEF PanelSound, DocSound
<1>4. page.tabs = live /\ \A s \in Ids(live) : \/ page.terminal[s] = printed[s]
                                               \/ page.hydrates = 2 /\ page.terminal[s] > printed[s]
  <2>1. PICK e \in Contents : Leads(Content(page), host.out, e) /\ ShownOf(e, live, printed)
    BY <1>2, <1>3 DEF PanelSound, ContentSound
  <2> QED BY <2>1, <1>1, <1>2, LeadsNone DEF ShownOf, Content, PanelSound, TypesSound, ViewSound
<1>5. page.active = active \/ (page.active = None /\ page.clicked)
  BY <1>3, <1>1 DEF Settles, Holds, Asked, EndsIn, Carried, PanelSound, SelectedSound
<1>6. page.resume = {u \in Candidates(known, live) : Evidence(u) # "absent"}
  BY <1>3, <1>1 DEF Offerable, PanelSound, ScanSound, ScanFits, Carried, EndsIn, ResumeSound
<1>7. ShownDrafts \ Unerased = {Row(u) : u \in Recoverable \ (Uuids(live) \cup page.resume)}
  <2>1. PICK rows, resume, shown : rows = page.rows /\ resume = page.resume /\ shown = Uuids(live)
    OBVIOUS
  <2>2. rows \subseteq May /\ Must \subseteq rows
    BY <1>1, <1>3, <2>1, ListedDrafts DEF Gathers, Upto, PanelSound
  <2>3. \A r : r \in ShownDrafts <=> r \in rows /\ r.uuid \notin resume \cup shown
    BY <1>4, <2>1 DEF ShownDrafts
  <2>4. \A u : Row(u).uuid = u BY DEF Row
  <2>5. ASSUME NEW r \in ShownDrafts \ Unerased
        PROVE  \E u \in Recoverable \ (shown \cup resume) : r = Row(u)
    <3>1. r \in May /\ r.uuid \notin resume \cup shown /\ r \notin Unerased BY <2>2, <2>3, <2>5
    <3>2. PICK u \in Uuid \ shown : draft[u].text /\ r = Row(u) BY <2>1, <3>1 DEF May
    <3> QED BY <2>4, <3>1, <3>2 DEF Recoverable, Unerased
  <2>6. ASSUME NEW u \in Recoverable \ (shown \cup resume) PROVE Row(u) \in ShownDrafts \ Unerased
    <3>1. ASSUME Row(u) \in Unerased PROVE FALSE
      <4>1. PICK v \in forgotten : Row(u) = Row(v) BY <3>1 DEF Unerased
      <4> QED BY <2>6, <4>1, <2>4 DEF Recoverable
    <3> QED BY <2>3, <2>4, <2>6, <2>1, <2>2, <3>1 DEF Must
  <2> QED BY <2>1, <2>5, <2>6
<1> QED BY <1>4, <1>5, <1>6, <1>7

\* When nothing is under way the document shows the sessions, the selection,
\* the output, the conversations to resume and the drafts that there are.
THEOREM PanelAgreesAlways == Spec => []PanelAgrees
<1>1. Init => PanelSound BY InitPanel
<1>2. PanelSound /\ [Next]_vars => PanelSound' BY NextKeepsPanel
<1>3. PanelSound => PanelAgrees BY QuietAgrees DEF PanelAgrees
<1> QED BY <1>1, <1>2, <1>3, PTL DEF Spec
=============================================================================
