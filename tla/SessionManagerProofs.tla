------------------------ MODULE SessionManagerProofs ------------------------
(***************************************************************************)
(* Proofs about SessionManager, for every set of sessions and every bound  *)
(* on the input: type correctness, that no process is left behind, that    *)
(* the selection is live, that input arrives in order, and that the        *)
(* registry implements the abstract SessionLifecycle.                      *)
(***************************************************************************)
EXTENDS SessionManager, TLAPS

----------------------------------------------------------------------------
(* What removeRecord's splice leaves. *)

\* Removing one element of a sequence keeps every other element, in a
\* sequence that is one shorter.
LEMMA RemoveAtFacts ==
    ASSUME NEW S, NEW seq \in Seq(S), NEW i \in 1..Len(seq)
    PROVE  /\ RemoveAt(seq, i) \in Seq(S)
           /\ Len(RemoveAt(seq, i)) = Len(seq) - 1
           /\ \A j \in 1..(Len(seq) - 1) :
                 RemoveAt(seq, i)[j] = IF j < i THEN seq[j] ELSE seq[j + 1]
<1> DEFINE front == SubSeq(seq, 1, i - 1)
           back == SubSeq(seq, i + 1, Len(seq))
<1>1. /\ front \in Seq(S) /\ Len(front) = i - 1
      /\ \A j \in 1..(i - 1) : front[j] = seq[j]
  OBVIOUS
<1>2. /\ back \in Seq(S) /\ Len(back) = Len(seq) - i
      /\ \A j \in 1..(Len(seq) - i) : back[j] = seq[j + i]
  OBVIOUS
<1>3. RemoveAt(seq, i) = front \o back
  BY DEF RemoveAt
<1> HIDE DEF front, back
<1>4. /\ front \o back \in Seq(S)
      /\ Len(front \o back) = Len(seq) - 1
  BY <1>1, <1>2
<1>5. ASSUME NEW j \in 1..(Len(seq) - 1)
      PROVE  (front \o back)[j] = IF j < i THEN seq[j] ELSE seq[j + 1]
  <2>1. CASE j < i
    BY <1>1, <1>2, <2>1
  <2>2. CASE j >= i
    <3>1. (front \o back)[j] = back[j - (i - 1)]
      BY <1>1, <1>2, <2>2
    <3>2. back[j - (i - 1)] = seq[j + 1]
      BY <1>2, <2>2
    <3> QED BY <2>2, <3>1, <3>2
  <2>3. j < i \/ j >= i
    OBVIOUS
  <2> QED BY <2>1, <2>2, <2>3
<1> QED BY <1>3, <1>4, <1>5

\* What removeRecord does to the registry and the selection: every other
\* record stays, nothing is added, and the selection stays live.
LEMMA RemoveRecordFacts ==
    ASSUME NEW s \in Session, records \in Seq(Session), active \in Session \cup {None},
           SelectionLive, RemoveRecord(s)
    PROVE  /\ records' \in Seq(Session)
           /\ active' \in Session \cup {None}
           /\ \A t \in Registered : t # s => t \in Registered'
           /\ Registered' \subseteq Registered
           /\ SelectionLive'
<1>1. CASE s \notin Registered
  BY <1>1 DEF RemoveRecord, SelectionLive, Registered
<1>2. CASE s \in Registered
  <2> DEFINE i == Index(s)
             rest == RemoveAt(records, i)
  <2>1. i \in 1..Len(records) /\ records[i] = s
    BY <1>2 DEF Registered, Index
  <2>2. /\ records' = rest
        /\ active' = IF active = s THEN Replacement(rest, i) ELSE active
    BY <1>2 DEF RemoveRecord
  <2> HIDE DEF i
  <2>3. /\ rest \in Seq(Session)
        /\ Len(rest) = Len(records) - 1
        /\ \A j \in 1..(Len(records) - 1) :
              rest[j] = IF j < i THEN records[j] ELSE records[j + 1]
    BY <2>1, RemoveAtFacts
  <2> HIDE DEF rest
  <2>4. Registered' = {rest[j] : j \in 1..(Len(records) - 1)}
    BY <2>2, <2>3 DEF Registered
  <2>5. ASSUME NEW t \in Registered, t # s PROVE t \in Registered'
    <3>1. PICK j \in 1..Len(records) : records[j] = t
      BY DEF Registered
    <3>2. j # i
      BY <2>1, <2>5, <3>1
    <3>3. Len(records) \in Nat /\ j \in Nat /\ i \in Nat
      BY <2>1
    <3>4. CASE j < i
      BY <2>1, <2>3, <2>4, <3>1, <3>3, <3>4
    <3>5. CASE j > i
      <4>1. j - 1 \in 1..(Len(records) - 1) /\ rest[j - 1] = t
        BY <2>1, <2>3, <3>1, <3>3, <3>5
      <4> QED BY <2>4, <4>1
    <3> QED BY <3>2, <3>3, <3>4, <3>5
  <2>6. Registered' \subseteq Registered
    <3> SUFFICES ASSUME NEW j \in 1..(Len(records) - 1) PROVE rest[j] \in Registered
      BY <2>4
    <3>1. Len(records) \in Nat /\ j \in 1..Len(records) /\ j + 1 \in 1..Len(records)
      OBVIOUS
    <3>2. rest[j] = records[j] \/ rest[j] = records[j + 1]
      BY <2>3
    <3> QED BY <3>1, <3>2 DEF Registered
  <2>7. active' \in Session \cup {None} /\ SelectionLive'
    <3>1. CASE active # s
      <4>1. active \in Registered'
        BY <1>2, <2>5, <3>1 DEF SelectionLive, Registered
      <4> QED BY <2>2, <2>4, <3>1, <4>1 DEF SelectionLive, Registered
    <3>2. CASE active = s /\ Len(records) = 1
      <4>1. rest = <<>> /\ i = 1
        BY <2>1, <2>3, <3>2
      <4>2. active' = None
        BY <2>2, <3>2, <4>1 DEF Replacement
      <4> QED BY <2>2, <4>1, <4>2 DEF SelectionLive
    <3>3. CASE active = s /\ Len(records) # 1
      <4>1. Len(records) \in Nat /\ Len(records) > 1 /\ i \in Nat
        BY <2>1, <3>3
      <4>2. DOMAIN rest = 1..(Len(records) - 1) /\ rest # <<>>
        BY <2>3, <4>1
      <4>3. i \in DOMAIN rest \/ i - 1 \in DOMAIN rest
        BY <2>1, <4>1, <4>2
      <4>4. active' \in Registered'
        BY <2>2, <2>4, <3>3, <4>2, <4>3 DEF Replacement
      <4>5. Registered' \subseteq Session
        BY <2>3, <2>4
      <4> QED BY <2>2, <4>2, <4>4, <4>5 DEF SelectionLive
    <3>4. Len(records) \in Nat
      OBVIOUS
    <3> QED BY <3>1, <3>2, <3>3
  <2> QED BY <2>2, <2>3, <2>5, <2>6, <2>7
<1> QED BY <1>1, <1>2

----------------------------------------------------------------------------
(* The inductive invariant. *)

\* A PTY is adopted by the last step of its launch, never earlier.
AdoptedBySettled == \A s \in Session : owned[s] => launching[s] = "settled"

\* NoOrphanProcess is not inductive alone: a launch that gives up before or
\* while it adopts must know that nobody adopted the PTY already.
IInv == TypeOK /\ SelectionLive /\ NoOrphanProcess /\ AdoptedBySettled

\* undefined is no session id.
LEMMA NoneIsNoSession == None \notin Session
  BY NoneAssumption

USE NoneIsNoSession, InputAssumption

\* What the selection actions choose is a registered session.
LEMMA RegisteredTyped ==
    ASSUME records \in Seq(Session)
    PROVE  Registered \subseteq Session
  BY DEF Registered

\* A registry that has just been made is consistent.
THEOREM InitIInv == Init => IInv
<1> SUFFICES ASSUME Init PROVE IInv
  OBVIOUS
<1>1. TypeOK
  <2>1. <<>> \in Seq(Session) /\ <<>> \in Seq(Nat) /\ 0 \in Nat
    OBVIOUS
  <2>2. /\ pending \in [Session -> Seq(Nat)] /\ delivered \in [Session -> Seq(Nat)]
        /\ typed \in [Session -> Nat]
    BY <2>1 DEF Init
  <2> QED BY <2>1, <2>2
          DEF Init, TypeOK, States, LaunchSteps, CloseSteps, Processes, Kills, Notices
<1>2. SelectionLive /\ NoOrphanProcess /\ AdoptedBySettled
  BY DEF Init, SelectionLive, NoOrphanProcess, AdoptedBySettled
<1> QED BY <1>1, <1>2 DEF IInv

\* A step that touches neither the registry nor the selection.
LEMMA SelectionKept ==
    ASSUME SelectionLive, UNCHANGED <<records, active>>
    PROVE  SelectionLive'
  BY DEF SelectionLive, Registered

\* Every step keeps the types and a live selection.
LEMMA TypeStep ==
    ASSUME IInv, [Next]_vars
    PROVE  TypeOK' /\ SelectionLive'
<1> USE DEF States, LaunchSteps, CloseSteps, Processes, Kills, Notices, Failures,
            registry, recordVars, ptyVars, inputVars
<1> TypeOK /\ SelectionLive
  BY DEF IInv
<1>1. ASSUME NEW s \in Session, NEW w \in BOOLEAN, Launch(s, w)
      PROVE  TypeOK' /\ SelectionLive'
  <2>1. TypeOK'
    BY <1>1 DEF Launch, TypeOK
  <2>2. SelectionLive'
    BY <1>1, SMTT(30) DEF Launch, TypeOK, SelectionLive, Registered
  <2> QED BY <2>1, <2>2
<1>2. ASSUME NEW s \in Session, Prepared(s)
      PROVE  TypeOK' /\ SelectionLive'
  <2>1. CASE UNCHANGED <<records, active>>
    <3>1. TypeOK'
      BY <1>2, <2>1 DEF Prepared, TypeOK
    <3> QED BY <2>1, <3>1, SelectionKept
  <2>2. CASE RemoveRecord(s)
    BY <1>2, <2>2, RemoveRecordFacts DEF Prepared, TypeOK
  <2> QED BY <1>2, <2>1, <2>2 DEF Prepared
<1>3. ASSUME NEW s \in Session, LaunchFailed(s)
      PROVE  TypeOK' /\ SelectionLive'
  BY <1>3, RemoveRecordFacts DEF LaunchFailed, NotifyUnless, TypeOK
<1>4. ASSUME NEW s \in Session, Spawned(s)
      PROVE  TypeOK' /\ SelectionLive'
  <2>1. TypeOK'
    BY <1>4 DEF Spawned, TypeOK
  <2>2. UNCHANGED <<records, active>>
    BY <1>4 DEF Spawned
  <2> QED BY <2>1, <2>2, SelectionKept
<1>5. ASSUME NEW s \in Session, AdoptAbandoned(s)
      PROVE  TypeOK' /\ SelectionLive'
  BY <1>5, RemoveRecordFacts DEF AdoptAbandoned, TerminatePty, Terminated, TypeOK
<1>6. ASSUME NEW s \in Session, AdoptExited(s)
      PROVE  TypeOK' /\ SelectionLive'
  BY <1>6, RemoveRecordFacts
     DEF AdoptExited, Adopting, HandleExit, NotifyUnless, ExitNotice, TypeOK
<1>7. ASSUME NEW s \in Session, AdoptResizeFailed(s)
      PROVE  TypeOK' /\ SelectionLive'
  BY <1>7, RemoveRecordFacts
     DEF AdoptResizeFailed, Adopting, TerminatePty, Terminated, NotifyUnless, TypeOK
<1>8. ASSUME NEW s \in Session, AdoptClosing(s)
      PROVE  TypeOK' /\ SelectionLive'
  <2>1. TypeOK'
    BY <1>8 DEF AdoptClosing, Adopting, CloseStarted, TypeOK
  <2>2. UNCHANGED <<records, active>>
    BY <1>8 DEF AdoptClosing
  <2> QED BY <2>1, <2>2, SelectionKept
<1>9. ASSUME NEW s \in Session, AdoptRunning(s)
      PROVE  TypeOK' /\ SelectionLive'
  <2>1. TypeOK'
    BY <1>9 DEF AdoptRunning, Adopting, TypeOK
  <2>2. UNCHANGED <<records, active>>
    BY <1>9 DEF AdoptRunning
  <2> QED BY <2>1, <2>2, SelectionKept
<1>10. ASSUME NEW s \in Session, AdoptFlushFailed(s)
       PROVE  TypeOK' /\ SelectionLive'
  <2>1. \A q \in Seq(Nat) : \A k \in DOMAIN q : SubSeq(q, 1, k - 1) \in Seq(Nat)
    OBVIOUS
  <2>2. delivered' \in [Session -> Seq(Nat)]
    BY <1>10, <2>1 DEF AdoptFlushFailed, TypeOK
  <2> QED BY <1>10, <2>2, RemoveRecordFacts
          DEF AdoptFlushFailed, Adopting, TerminatePty, Terminated, NotifyUnless, TypeOK
<1>11. ASSUME NEW s \in Session, AdoptFlushClosed(s)
       PROVE  TypeOK' /\ SelectionLive'
  <2>1. \A q \in Seq(Nat) : \A k \in DOMAIN q : SubSeq(q, 1, k) \in Seq(Nat)
    OBVIOUS
  <2>2. delivered' \in [Session -> Seq(Nat)]
    BY <1>11, <2>1 DEF AdoptFlushClosed, TypeOK
  <2>3. TypeOK'
    BY <1>11, <2>2 DEF AdoptFlushClosed, Adopting, CloseStarted, TypeOK
  <2>4. UNCHANGED <<records, active>>
    BY <1>11 DEF AdoptFlushClosed
  <2> QED BY <2>3, <2>4, SelectionKept
<1>12. ASSUME NEW s \in Session, Close(s)
       PROVE  TypeOK' /\ SelectionLive'
  <2>1. TypeOK'
    BY <1>12 DEF Close, CloseStarted, TypeOK
  <2>2. UNCHANGED <<records, active>>
    BY <1>12 DEF Close
  <2> QED BY <2>1, <2>2, SelectionKept
<1>13. CASE TerminateAll
  <2>1. TypeOK'
    BY <1>13 DEF TerminateAll, AllClosing, CloseStarted, TypeOK
  <2>2. UNCHANGED <<records, active>>
    BY <1>13 DEF TerminateAll
  <2> QED BY <2>1, <2>2, SelectionKept
<1>14. CASE Dispose
  <2>1. state' \in [Session -> States] /\ closeOp' \in [Session -> CloseSteps]
    BY <1>14 DEF Dispose, AllClosing, CloseStarted, TypeOK
  <2>2. kill' \in [Session -> Kills] /\ owned' \in [Session -> BOOLEAN]
    BY <1>14 DEF Dispose, Terminated, TypeOK
  <2>3. TypeOK'
    BY <1>14, <2>1, <2>2 DEF Dispose, TypeOK
  <2>4. SelectionLive'
    BY <1>14 DEF Dispose, SelectionLive
  <2> QED BY <2>3, <2>4
<1>15. ASSUME NEW s \in Session, Flushed(s)
       PROVE  TypeOK' /\ SelectionLive'
  <2>1. TypeOK'
    BY <1>15, ZenonT(60) DEF Flushed, Terminated, TypeOK
  <2>2. UNCHANGED <<records, active>>
    BY <1>15 DEF Flushed
  <2> QED BY <2>1, <2>2, SelectionKept
<1>16. ASSUME NEW s \in Session, Killed(s)
       PROVE  TypeOK' /\ SelectionLive'
  <2>1. TypeOK'
    BY <1>16 DEF Killed, TypeOK
  <2>2. UNCHANGED <<records, active>>
    BY <1>16 DEF Killed
  <2> QED BY <2>1, <2>2, SelectionKept
<1>17. ASSUME NEW s \in Session, CloseSettled(s)
       PROVE  TypeOK' /\ SelectionLive'
  <2>1. TypeOK'
    BY <1>17 DEF CloseSettled, TypeOK
  <2>2. UNCHANGED <<records, active>>
    BY <1>17 DEF CloseSettled
  <2> QED BY <2>1, <2>2, SelectionKept
<1>18. ASSUME NEW s \in Session, NEW o \in {"clean", "failed"}, ProcessExit(s, o)
       PROVE  TypeOK' /\ SelectionLive'
  <2>1. CASE owned[s]
    BY <1>18, <2>1, RemoveRecordFacts, ZenonT(60)
       DEF ProcessExit, HandleExit, NotifyUnless, ExitNotice, TypeOK
  <2>2. CASE ~owned[s]
    BY <1>18, <2>2, SMTT(30) DEF ProcessExit, TypeOK, SelectionLive, Registered
  <2> QED BY <2>1, <2>2
<1>19. ASSUME NEW s \in Session, Write(s)
       PROVE  TypeOK' /\ SelectionLive'
  <2>1. TypeOK'
    <3>1. /\ typed[s] + 1 \in Nat
          /\ Append(pending[s], typed[s] + 1) \in Seq(Nat)
          /\ Append(delivered[s], typed[s] + 1) \in Seq(Nat)
      BY DEF TypeOK
    <3>2. /\ typed' \in [Session -> Nat]
          /\ pending' \in [Session -> Seq(Nat)]
          /\ delivered' \in [Session -> Seq(Nat)]
      BY <1>19, <3>1 DEF Write, TypeOK
    <3> QED BY <1>19, <3>2 DEF Write, TypeOK
  <2>2. UNCHANGED <<records, active>>
    BY <1>19 DEF Write
  <2> QED BY <2>1, <2>2, SelectionKept
<1>20. ASSUME NEW s \in Session, Resize(s)
       PROVE  TypeOK' /\ SelectionLive'
  <2>1. TypeOK'
    BY <1>20 DEF Resize, TypeOK
  <2>2. UNCHANGED <<records, active>>
    BY <1>20 DEF Resize
  <2> QED BY <2>1, <2>2, SelectionKept
<1>21. ASSUME NEW s \in Session, Activate(s)
       PROVE  TypeOK' /\ SelectionLive'
  BY <1>21, SMTT(30) DEF Activate, TypeOK, SelectionLive, Registered
<1>22. ASSUME NEW n \in Nat, ActivateRelative(n)
       PROVE  TypeOK' /\ SelectionLive'
  <2>1. Index(active) \in 1..Len(records)
    <3>1. records \in Seq(Session) /\ \E i \in DOMAIN records : records[i] = active
      BY <1>22 DEF ActivateRelative, Registered, TypeOK
    <3>2. DOMAIN records = 1..Len(records)
      BY <3>1
    <3>3. Index(active) \in DOMAIN records
      BY <3>1 DEF Index
    <3> QED
      BY <3>2, <3>3
  <2>2. 1 + ((Index(active) - 1 + n) % Len(records)) \in 1..Len(records)
    <3> DEFINE m == Index(active) - 1 + n
               len == Len(records)
    <3>1. len \in Nat /\ len > 0
      BY <1>22 DEF ActivateRelative, TypeOK
    <3>2. m \in Nat
      BY <2>1, <3>1
    <3> HIDE DEF m, len
    <3>3. m % len \in 0..(len - 1)
      BY <3>1, <3>2
    <3>4. 1 + (m % len) \in 1..len
      BY <3>1, <3>3
    <3> QED BY <3>4 DEF m, len
  <2>3. active' \in Registered /\ records' = records
    BY <1>22, <2>2, SMTT(30) DEF ActivateRelative, Registered, TypeOK
  <2>4. active' \in Session
    BY <2>3, RegisteredTyped DEF TypeOK
  <2>5. TypeOK'
    BY <1>22, <2>3, <2>4 DEF ActivateRelative, TypeOK
  <2>6. SelectionLive'
    BY <1>22, <2>3 DEF ActivateRelative, SelectionLive, Registered
  <2> QED BY <2>5, <2>6
<1>23. CASE ActivateNext
  BY <1>22, <1>23 DEF ActivateNext
<1>24. CASE ActivatePrevious
  <2>1. Len(records) - 1 \in Nat
    BY <1>24 DEF ActivatePrevious, ActivateRelative, TypeOK
  <2> QED BY <1>22, <1>24, <2>1 DEF ActivatePrevious
<1>25. CASE UNCHANGED vars
  BY <1>25 DEF vars, TypeOK, SelectionLive, Registered
<1> QED
  BY <1>1, <1>2, <1>3, <1>4, <1>5, <1>6, <1>7, <1>8, <1>9, <1>10, <1>11, <1>12, <1>13,
     <1>14, <1>15, <1>16, <1>17, <1>18, <1>19, <1>20, <1>21, <1>23, <1>24, <1>25
     DEF Next, LaunchStep, CloseStep, UserStep
----------------------------------------------------------------------------
(* No process is left behind. *)

\* Ownership and the fate of every process are kept by every step.
LEMMA OrphanStep ==
    ASSUME IInv, [Next]_vars
    PROVE  NoOrphanProcess' /\ AdoptedBySettled'
<1> USE DEF registry, recordVars, ptyVars, inputVars
<1>0. /\ TypeOK /\ SelectionLive /\ NoOrphanProcess /\ AdoptedBySettled
      /\ records \in Seq(Session) /\ active \in Session \cup {None}
  BY DEF IInv, TypeOK
<1> DEFINE Kept(t) ==
      /\ process'[t] = "live" => owned'[t] \/ launching'[t] = "spawned" \/ kill'[t] # "idle"
      /\ owned'[t] => t \in Registered' /\ process'[t] = "live" /\ launching'[t] = "settled"
      /\ closeOp'[t] = "killing" => kill'[t] = "pending"
<1> SUFFICES \A t \in Session : Kept(t)
  BY DEF NoOrphanProcess, AdoptedBySettled
\* What removeRecord(s) leaves to the sessions other than s.
<1>r. ASSUME NEW s \in Session, RemoveRecord(s)
      PROVE  \A t \in Registered : t # s => t \in Registered'
  BY <1>0, <1>r, RemoveRecordFacts
<1>k. ASSUME UNCHANGED records PROVE Registered' = Registered
  BY <1>k DEF Registered
<1>1. ASSUME NEW s \in Session, NEW w \in BOOLEAN, Launch(s, w)
      PROVE  \A t \in Session : Kept(t)
  <2>1. Registered \subseteq Registered'
    BY <1>0, <1>1 DEF Launch, Registered
  <2> QED BY <1>0, <1>1, <2>1 DEF Launch, TypeOK, NoOrphanProcess, AdoptedBySettled
<1>2. ASSUME NEW s \in Session, Prepared(s)
      PROVE  \A t \in Session : Kept(t)
  <2>1. \A t \in Registered : t # s => t \in Registered'
    BY <1>2, <1>r, <1>k DEF Prepared
  <2> QED BY <1>0, <1>2, <2>1 DEF Prepared, TypeOK, NoOrphanProcess, AdoptedBySettled
<1>3. ASSUME NEW s \in Session, LaunchFailed(s)
      PROVE  \A t \in Session : Kept(t)
  BY <1>0, <1>3, <1>r DEF LaunchFailed, TypeOK, NoOrphanProcess, AdoptedBySettled
<1>4. ASSUME NEW s \in Session, Spawned(s)
      PROVE  \A t \in Session : Kept(t)
  BY <1>0, <1>4, <1>k DEF Spawned, TypeOK, NoOrphanProcess, AdoptedBySettled
<1>5. ASSUME NEW s \in Session, AdoptAbandoned(s)
      PROVE  \A t \in Session : Kept(t)
  BY <1>0, <1>5, <1>r
     DEF AdoptAbandoned, TerminatePty, Terminated, TypeOK, NoOrphanProcess, AdoptedBySettled
<1>6. ASSUME NEW s \in Session, AdoptExited(s)
      PROVE  \A t \in Session : Kept(t)
  BY <1>0, <1>6, <1>r
     DEF AdoptExited, Adopting, HandleExit, TypeOK, NoOrphanProcess, AdoptedBySettled
<1>7. ASSUME NEW s \in Session, AdoptResizeFailed(s)
      PROVE  \A t \in Session : Kept(t)
  BY <1>0, <1>7, <1>r
     DEF AdoptResizeFailed, Adopting, TerminatePty, Terminated, TypeOK, NoOrphanProcess,
         AdoptedBySettled
<1>8. ASSUME NEW s \in Session, AdoptClosing(s)
      PROVE  \A t \in Session : Kept(t)
  BY <1>0, <1>8, <1>k
     DEF AdoptClosing, Adopting, CloseStarted, TypeOK, NoOrphanProcess, AdoptedBySettled
<1>9. ASSUME NEW s \in Session, AdoptRunning(s)
      PROVE  \A t \in Session : Kept(t)
  BY <1>0, <1>9, <1>k DEF AdoptRunning, Adopting, TypeOK, NoOrphanProcess, AdoptedBySettled
<1>10. ASSUME NEW s \in Session, AdoptFlushFailed(s)
       PROVE  \A t \in Session : Kept(t)
  BY <1>0, <1>10, <1>r
     DEF AdoptFlushFailed, Adopting, TerminatePty, Terminated, TypeOK, NoOrphanProcess,
         AdoptedBySettled
<1>11. ASSUME NEW s \in Session, AdoptFlushClosed(s)
       PROVE  \A t \in Session : Kept(t)
  BY <1>0, <1>11, <1>k DEF AdoptFlushClosed, Adopting, CloseStarted, TypeOK, NoOrphanProcess,
         AdoptedBySettled
<1>12. ASSUME NEW s \in Session, Close(s)
       PROVE  \A t \in Session : Kept(t)
  BY <1>0, <1>12, <1>k DEF Close, CloseStarted, TypeOK, NoOrphanProcess, AdoptedBySettled
<1>13. CASE TerminateAll
  BY <1>0, <1>13, <1>k DEF TerminateAll, AllClosing, CloseStarted, TypeOK, NoOrphanProcess,
         AdoptedBySettled
<1>14. CASE Dispose
  BY <1>0, <1>14 DEF Dispose, Terminated, AllClosing, CloseStarted, TypeOK, NoOrphanProcess,
         AdoptedBySettled
<1>15. ASSUME NEW s \in Session, Flushed(s)
       PROVE  \A t \in Session : Kept(t)
  <2>1. kill[s] \in Kills
    BY <1>0 DEF TypeOK
  <2>2. CASE owned[s]
    BY <1>0, <1>15, <1>k, <2>1, <2>2, ZenonT(60)
       DEF Flushed, Terminated, Kills, TypeOK, NoOrphanProcess, AdoptedBySettled
  <2>3. CASE ~owned[s]
    BY <1>0, <1>15, <1>k, <2>3 DEF Flushed, TypeOK, NoOrphanProcess, AdoptedBySettled
  <2> QED BY <2>2, <2>3
<1>16. ASSUME NEW s \in Session, Killed(s)
       PROVE  \A t \in Session : Kept(t)
  BY <1>0, <1>16, <1>k DEF Killed, TypeOK, NoOrphanProcess, AdoptedBySettled
<1>17. ASSUME NEW s \in Session, CloseSettled(s)
       PROVE  \A t \in Session : Kept(t)
  BY <1>0, <1>17, <1>k DEF CloseSettled, TypeOK, NoOrphanProcess, AdoptedBySettled
<1>18. ASSUME NEW s \in Session, NEW o \in {"clean", "failed"}, ProcessExit(s, o)
       PROVE  \A t \in Session : Kept(t)
  <2>1. \A t \in Registered : t # s \/ ~owned[s] => t \in Registered'
    BY <1>18, <1>r, <1>k DEF ProcessExit, HandleExit
  <2> QED BY <1>0, <1>18, <2>1 DEF ProcessExit, TypeOK, NoOrphanProcess, AdoptedBySettled
<1>19. ASSUME NEW s \in Session, Write(s)
       PROVE  \A t \in Session : Kept(t)
  BY <1>0, <1>19, <1>k DEF Write, TypeOK, NoOrphanProcess, AdoptedBySettled
<1>20. ASSUME NEW s \in Session, Resize(s)
       PROVE  \A t \in Session : Kept(t)
  BY <1>0, <1>20, <1>k DEF Resize, TypeOK, NoOrphanProcess, AdoptedBySettled
<1>21. ASSUME NEW s \in Session, Activate(s)
       PROVE  \A t \in Session : Kept(t)
  BY <1>0, <1>21, <1>k DEF Activate, TypeOK, NoOrphanProcess, AdoptedBySettled
<1>22. CASE ActivateNext \/ ActivatePrevious
  BY <1>0, <1>22, <1>k
     DEF ActivateNext, ActivatePrevious, ActivateRelative, TypeOK, NoOrphanProcess, AdoptedBySettled
<1>23. CASE UNCHANGED vars
  BY <1>0, <1>23, <1>k DEF vars, TypeOK, NoOrphanProcess, AdoptedBySettled
<1> HIDE DEF Kept
<1> QED
  BY <1>1, <1>2, <1>3, <1>4, <1>5, <1>6, <1>7, <1>8, <1>9, <1>10, <1>11, <1>12, <1>13,
     <1>14, <1>15, <1>16, <1>17, <1>18, <1>19, <1>20, <1>21, <1>22, <1>23
     DEF Next, LaunchStep, CloseStep, UserStep

\* The invariant holds in every reachable state.
THEOREM Invariance == Spec => []IInv
<1>1. Init => IInv
  BY InitIInv
<1>2. IInv /\ [Next]_vars => IInv'
  BY TypeStep, OrphanStep DEF IInv
<1> QED BY <1>1, <1>2, PTL DEF Spec

\* Type correctness of the registry, for every set of sessions.
THEOREM TypeCorrect == Spec => []TypeOK
<1>1. IInv => TypeOK
  BY DEF IInv
<1> QED BY <1>1, Invariance, PTL

\* No interleaving of launches, closes, exits and the shutdown leaves a live
\* process without an owner and without a termination (launch's re-checks,
\* removeRecord, abandonPty, dispose).
THEOREM NoProcessOrphaned == Spec => []NoOrphanProcess
<1>1. IInv => NoOrphanProcess
  BY DEF IInv
<1> QED BY <1>1, Invariance, PTL

\* The panel's selection always names a registered session, and there is one
\* whenever there is a session.
THEOREM SelectionStaysLive == Spec => []SelectionLive
<1>1. IInv => SelectionLive
  BY DEF IInv
<1> QED BY <1>1, Invariance, PTL

----------------------------------------------------------------------------
(* What a record, its launch and its process agree on. *)

\* A session has at most one record.
OneRecordEach == \A i, j \in DOMAIN records : records[i] = records[j] => i = j

\* Where the launch stands says what else there is: no record before it, no
\* process before the spawn, no kill before the adoption, and a record that
\* stays is adopted.  A launch loses its record only to the shutdown.
LaunchAgrees(s) ==
    /\ launching[s] = "unborn" => s \notin Registered /\ state[s] = "none"
    /\ launching[s] # "unborn" => state[s] # "none"
    /\ launching[s] \in {"unborn", "preparing", "spawning"} => process[s] = "none"
    /\ launching[s] = "spawned" => process[s] # "none"
    /\ launching[s] # "settled" => kill[s] = "idle"
    /\ launching[s] \in {"preparing", "spawning", "spawned"} => terminal \/ s \in Registered
    /\ state[s] = "running" => launching[s] = "settled"
    /\ s \in Registered /\ launching[s] = "settled" => owned[s] /\ state[s] # "starting"

\* Only a closing session is closed, killed or outlives the shutdown.
CloseAgrees(s) ==
    /\ s \in Registered /\ terminal => state[s] = "closing"
    /\ s \in Registered /\ kill[s] # "idle" => state[s] = "closing"
    /\ closeOp[s] # "none" => state[s] = "closing"

Structure == OneRecordEach /\ \A s \in Session : LaunchAgrees(s) /\ CloseAgrees(s)

\* removeRecord takes exactly the one record of its session.
LEMMA RemoveRecordExact ==
    ASSUME NEW s \in Session, records \in Seq(Session), OneRecordEach, RemoveRecord(s)
    PROVE  OneRecordEach' /\ Registered' = Registered \ {s}
<1>1. CASE s \notin Registered
  BY <1>1 DEF RemoveRecord, OneRecordEach, Registered
<1>2. CASE s \in Registered
  <2> DEFINE i == Index(s)
             rest == RemoveAt(records, i)
  <2>1. i \in 1..Len(records) /\ records[i] = s
    BY <1>2 DEF Registered, Index
  <2>2. records' = rest
    BY <1>2 DEF RemoveRecord
  <2> HIDE DEF i
  <2>3. /\ rest \in Seq(Session)
        /\ Len(rest) = Len(records) - 1
        /\ \A j \in 1..(Len(records) - 1) :
              rest[j] = IF j < i THEN records[j] ELSE records[j + 1]
    BY <2>1, RemoveAtFacts
  <2> HIDE DEF rest
  <2>4. /\ DOMAIN rest = 1..(Len(records) - 1) /\ DOMAIN records = 1..Len(records)
        /\ Len(records) \in Nat
    BY <2>3
  <2>5. OneRecordEach'
    <3> SUFFICES ASSUME NEW j \in DOMAIN rest, NEW k \in DOMAIN rest, rest[j] = rest[k]
                 PROVE  j = k
      BY <2>2 DEF OneRecordEach
    <3> DEFINE At(n) == IF n < i THEN n ELSE n + 1
    <3>1. At(j) \in DOMAIN records /\ At(k) \in DOMAIN records /\ records[At(j)] = records[At(k)]
      BY <2>1, <2>3, <2>4
    <3>2. At(j) = At(k)
      BY <3>1 DEF OneRecordEach
    <3> QED BY <2>1, <2>4, <3>2
  <2>6. Registered' = {rest[j] : j \in DOMAIN rest}
    BY <2>2 DEF Registered
  <2>7. ASSUME NEW j \in DOMAIN rest PROVE rest[j] \in Registered \ {s}
    <3> DEFINE n == IF j < i THEN j ELSE j + 1
    <3>1. n \in DOMAIN records /\ rest[j] = records[n] /\ n # i
      BY <2>1, <2>3, <2>4
    <3> QED BY <2>1, <2>4, <3>1 DEF OneRecordEach, Registered
  <2>8. ASSUME NEW t \in Registered, t # s PROVE \E j \in DOMAIN rest : rest[j] = t
    <3>1. PICK n \in DOMAIN records : records[n] = t
      BY DEF Registered
    <3>2. n # i
      BY <2>1, <2>8, <3>1
    <3> DEFINE j == IF n < i THEN n ELSE n - 1
    <3>3. j \in DOMAIN rest /\ rest[j] = t
      BY <2>1, <2>3, <2>4, <3>1, <3>2
    <3> QED BY <3>3
  <2> QED BY <2>5, <2>6, <2>7, <2>8
<1> QED BY <1>1, <1>2

\* A new registry has no records, launches or processes to disagree.
THEOREM InitStructure == Init => Structure
  BY DEF Init, Structure, OneRecordEach, LaunchAgrees, CloseAgrees, Registered

\* What each step does to the registry, its records being unique.
LEMMA RegistryStep ==
    ASSUME IInv, Structure
    PROVE  /\ UNCHANGED records => Registered' = Registered /\ OneRecordEach'
           /\ \A s \in Session : RemoveRecord(s) => Registered' = Registered \ {s} /\ OneRecordEach'
           /\ \A s \in Session, w \in BOOLEAN :
                 Launch(s, w) => Registered' = Registered \cup {s} /\ OneRecordEach'
           /\ Dispose => Registered' = {} /\ OneRecordEach'
<1>0. records \in Seq(Session) /\ OneRecordEach
  BY DEF IInv, TypeOK, Structure
<1>1. UNCHANGED records => Registered' = Registered /\ OneRecordEach'
  BY <1>0 DEF Registered, OneRecordEach
<1>2. \A s \in Session : RemoveRecord(s) => Registered' = Registered \ {s} /\ OneRecordEach'
  BY <1>0, RemoveRecordExact
<1>3. ASSUME NEW s \in Session, NEW w \in BOOLEAN, Launch(s, w)
      PROVE  Registered' = Registered \cup {s} /\ OneRecordEach'
  <2>1. s \notin Registered /\ records' = Append(records, s)
    BY <1>3 DEF Launch, Structure, LaunchAgrees
  <2>2. /\ DOMAIN records = 1..Len(records) /\ DOMAIN records' = 1..(Len(records) + 1)
        /\ Len(records) \in Nat
        /\ \A i \in DOMAIN records : records'[i] = records[i]
        /\ records'[Len(records) + 1] = s
    BY <1>0, <2>1
  <2>3. OneRecordEach'
    BY <1>0, <2>1, <2>2 DEF OneRecordEach, Registered
  <2>4. Registered' = Registered \cup {s}
    BY <2>2 DEF Registered
  <2> QED BY <2>3, <2>4
<1>4. Dispose => Registered' = {} /\ OneRecordEach'
  BY DEF Dispose, Registered, OneRecordEach
<1> QED BY <1>1, <1>2, <1>3, <1>4

\* Structure is kept by every step.
LEMMA StructureStep ==
    ASSUME IInv, Structure, [Next]_vars
    PROVE  Structure'
<1> USE DEF registry, recordVars, ptyVars, inputVars
<1>0. /\ TypeOK /\ NoOrphanProcess /\ AdoptedBySettled
      /\ \A s \in Session : LaunchAgrees(s) /\ CloseAgrees(s)
  BY DEF IInv, Structure
<1> DEFINE Kept == OneRecordEach' /\ \A t \in Session : LaunchAgrees(t)' /\ CloseAgrees(t)'
<1> SUFFICES Kept
  BY DEF Structure
<1>r. ASSUME NEW s \in Session, RemoveRecord(s)
      PROVE  Registered' = Registered \ {s} /\ OneRecordEach'
  BY <1>r, RegistryStep
<1>k. ASSUME UNCHANGED records PROVE Registered' = Registered /\ OneRecordEach'
  BY <1>k, RegistryStep
<1>1. ASSUME NEW s \in Session, NEW w \in BOOLEAN, Launch(s, w)
      PROVE  Kept
  <2>1. Registered' = Registered \cup {s} /\ OneRecordEach'
    BY <1>1, RegistryStep
  <2> QED BY <1>0, <1>1, <2>1 DEF Launch, LaunchAgrees, CloseAgrees, TypeOK
<1>2. ASSUME NEW s \in Session, Prepared(s)
      PROVE  Kept
  <2>1. CASE ~Cancelled(s) /\ s \in Registered
    BY <1>0, <1>2, <1>k, <2>1
       DEF Prepared, Cancelled, NoOrphanProcess, AdoptedBySettled, LaunchAgrees, CloseAgrees,
           TypeOK
  <2>2. CASE Cancelled(s) \/ s \notin Registered
    BY <1>0, <1>2, <1>r, <2>2
       DEF Prepared, Cancelled, NoOrphanProcess, AdoptedBySettled, LaunchAgrees, CloseAgrees,
           TypeOK
  <2> QED BY <2>1, <2>2
<1>3. ASSUME NEW s \in Session, LaunchFailed(s)
      PROVE  Kept
  BY <1>0, <1>3, <1>r
     DEF LaunchFailed, NoOrphanProcess, AdoptedBySettled, LaunchAgrees, CloseAgrees, TypeOK
<1>4. ASSUME NEW s \in Session, Spawned(s)
      PROVE  Kept
  BY <1>0, <1>4, <1>k
     DEF Spawned, NoOrphanProcess, AdoptedBySettled, LaunchAgrees, CloseAgrees, TypeOK
<1>5. ASSUME NEW s \in Session, AdoptAbandoned(s)
      PROVE  Kept
  BY <1>0, <1>5, <1>r
     DEF AdoptAbandoned, TerminatePty, Terminated, NoOrphanProcess, AdoptedBySettled,
         LaunchAgrees, CloseAgrees, TypeOK
<1>6. ASSUME NEW s \in Session, AdoptExited(s)
      PROVE  Kept
  BY <1>0, <1>6, <1>r
     DEF AdoptExited, Adopting, HandleExit, NoOrphanProcess, AdoptedBySettled, LaunchAgrees,
         CloseAgrees, TypeOK
<1>7. ASSUME NEW s \in Session, AdoptResizeFailed(s)
      PROVE  Kept
  BY <1>0, <1>7, <1>r
     DEF AdoptResizeFailed, Adopting, TerminatePty, Terminated, NoOrphanProcess, AdoptedBySettled,
         LaunchAgrees, CloseAgrees, TypeOK
<1>8. ASSUME NEW s \in Session, AdoptClosing(s)
      PROVE  Kept
  BY <1>0, <1>8, <1>k
     DEF AdoptClosing, Adopting, CloseStarted, NoOrphanProcess, AdoptedBySettled, LaunchAgrees,
         CloseAgrees, TypeOK
<1>9. ASSUME NEW s \in Session, AdoptRunning(s)
      PROVE  Kept
  BY <1>0, <1>9, <1>k
     DEF AdoptRunning, Adopting, NoOrphanProcess, AdoptedBySettled, LaunchAgrees, CloseAgrees,
         TypeOK
<1>10. ASSUME NEW s \in Session, AdoptFlushFailed(s)
      PROVE  Kept
  BY <1>0, <1>10, <1>r
     DEF AdoptFlushFailed, Adopting, TerminatePty, Terminated, NoOrphanProcess, AdoptedBySettled,
         LaunchAgrees, CloseAgrees, TypeOK
<1>11. ASSUME NEW s \in Session, AdoptFlushClosed(s)
      PROVE  Kept
  BY <1>0, <1>11, <1>k
     DEF AdoptFlushClosed, Adopting, CloseStarted, NoOrphanProcess, AdoptedBySettled,
         LaunchAgrees, CloseAgrees, TypeOK
<1>12. ASSUME NEW s \in Session, Close(s)
      PROVE  Kept
  BY <1>0, <1>12, <1>k
     DEF Close, CloseStarted, NoOrphanProcess, AdoptedBySettled, LaunchAgrees, CloseAgrees, TypeOK
<1>13. ASSUME NEW s \in Session, Flushed(s)
      PROVE  Kept
  BY <1>0, <1>13, <1>k
     DEF Flushed, Terminated, NoOrphanProcess, AdoptedBySettled, LaunchAgrees, CloseAgrees, TypeOK
<1>14. ASSUME NEW s \in Session, Killed(s)
      PROVE  Kept
  BY <1>0, <1>14, <1>k
     DEF Killed, NoOrphanProcess, AdoptedBySettled, LaunchAgrees, CloseAgrees, TypeOK
<1>15. ASSUME NEW s \in Session, CloseSettled(s)
      PROVE  Kept
  BY <1>0, <1>15, <1>k
     DEF CloseSettled, NoOrphanProcess, AdoptedBySettled, LaunchAgrees, CloseAgrees, TypeOK
<1>16. ASSUME NEW s \in Session, NEW o \in {"clean", "failed"}, ProcessExit(s, o)
      PROVE  Kept
  <2>1. CASE ~owned[s]
    BY <1>0, <1>16, <1>k, <2>1
       DEF ProcessExit, HandleExit, NoOrphanProcess, AdoptedBySettled, LaunchAgrees, CloseAgrees,
           TypeOK
  <2>2. CASE owned[s]
    BY <1>0, <1>16, <1>r, <2>2
       DEF ProcessExit, HandleExit, NoOrphanProcess, AdoptedBySettled, LaunchAgrees, CloseAgrees,
           TypeOK
  <2> QED BY <2>1, <2>2
<1>17. ASSUME NEW s \in Session, Write(s)
      PROVE  Kept
  BY <1>0, <1>17, <1>k
     DEF Write, NoOrphanProcess, AdoptedBySettled, LaunchAgrees, CloseAgrees, TypeOK
<1>18. ASSUME NEW s \in Session, Resize(s)
      PROVE  Kept
  BY <1>0, <1>18, <1>k
     DEF Resize, NoOrphanProcess, AdoptedBySettled, LaunchAgrees, CloseAgrees, TypeOK
<1>19. ASSUME NEW s \in Session, Activate(s)
      PROVE  Kept
  BY <1>0, <1>19, <1>k
     DEF Activate, NoOrphanProcess, AdoptedBySettled, LaunchAgrees, CloseAgrees, TypeOK
<1>20. CASE TerminateAll
  BY <1>0, <1>20, <1>k
     DEF TerminateAll, AllClosing, CloseStarted, NoOrphanProcess, AdoptedBySettled, LaunchAgrees,
         CloseAgrees, TypeOK
<1>21. CASE Dispose
  <2>1. Registered' = {} /\ OneRecordEach'
    BY <1>21, RegistryStep
  <2> QED
    BY <1>0, <1>21, <2>1
       DEF Dispose, AllClosing, CloseStarted, Terminated, NoOrphanProcess, AdoptedBySettled,
           LaunchAgrees, CloseAgrees, TypeOK
<1>22. CASE ActivateNext \/ ActivatePrevious
  BY <1>0, <1>22, <1>k, SMTT(30)
     DEF ActivateNext, ActivatePrevious, ActivateRelative, NoOrphanProcess, AdoptedBySettled,
         LaunchAgrees, CloseAgrees, TypeOK
<1>23. CASE UNCHANGED vars
  BY <1>0, <1>23, <1>k
     DEF vars, NoOrphanProcess, AdoptedBySettled, LaunchAgrees, CloseAgrees, TypeOK
<1> HIDE DEF Kept
<1> QED
  BY <1>1, <1>2, <1>3, <1>4, <1>5, <1>6, <1>7, <1>8, <1>9, <1>10, <1>11, <1>12, <1>13, <1>14,
     <1>15, <1>16, <1>17, <1>18, <1>19, <1>20, <1>21, <1>22, <1>23
     DEF Next, LaunchStep, CloseStep, UserStep

----------------------------------------------------------------------------
(* Input arrives in order. *)

\* The chunks of a session, in the order they were typed.
Upto(n) == [i \in 1..n |-> i]

\* Chunks in that order, with gaps, of the first n.
Ordered(q, n) ==
    /\ \A i, j \in DOMAIN q : i < j => q[i] < q[j]
    /\ \A i \in DOMAIN q : q[i] <= n

\* The chunks typed so far are a sequence, and one more goes at its end.
LEMMA UptoFacts ==
    ASSUME NEW n \in Nat
    PROVE  /\ Upto(n) \in Seq(Nat) /\ Len(Upto(n)) = n
           /\ Upto(n + 1) = Append(Upto(n), n + 1)
           /\ Upto(0) = <<>>
  BY DEF Upto

\* Whatever part of the buffer is written out, it follows what was delivered.
LEMMA PrefixOrdered ==
    ASSUME NEW d \in Seq(Nat), NEW p \in Seq(Nat), NEW n \in Nat, d \o p = Upto(n),
           NEW k \in 0..Len(p)
    PROVE  d \o SubSeq(p, 1, k) \in Seq(Nat) /\ Ordered(d \o SubSeq(p, 1, k), n)
<1> DEFINE q == d \o SubSeq(p, 1, k)
<1>1. Len(d) + Len(p) = n
  <2>1. Len(d \o p) = Len(d) + Len(p)
    OBVIOUS
  <2> QED BY <2>1, UptoFacts
<1>2. \A i \in 1..n : (d \o p)[i] = i
  BY DEF Upto
<1>3. /\ SubSeq(p, 1, k) \in Seq(Nat) /\ Len(SubSeq(p, 1, k)) = k
      /\ \A i \in 1..k : SubSeq(p, 1, k)[i] = p[i]
  OBVIOUS
<1>4. q \in Seq(Nat) /\ DOMAIN q = 1..(Len(d) + k)
  BY <1>3
<1>5. ASSUME NEW i \in DOMAIN q PROVE i \in 1..n /\ q[i] = i
  <2>1. q[i] = (d \o p)[i]
    BY <1>3, <1>4
  <2> QED BY <1>1, <1>2, <1>4, <2>1
<1> HIDE DEF q
<1>6. Ordered(q, n)
  BY <1>4, <1>5 DEF Ordered
<1> QED BY <1>4, <1>6 DEF q

\* A chunk put at the end of the buffer is at the end of all the input.
LEMMA ConcatAppend ==
    ASSUME NEW d \in Seq(Nat), NEW p \in Seq(Nat), NEW x \in Nat
    PROVE  /\ d \o Append(p, x) = Append(d \o p, x)
           /\ d \o <<>> = d /\ <<>> \o d = d
  OBVIOUS

\* The next chunk keeps the order.
LEMMA AppendOrdered ==
    ASSUME NEW d \in Seq(Nat), NEW n \in Nat, Ordered(d, n)
    PROVE  Ordered(Append(d, n + 1), n + 1) /\ Ordered(d, n + 1)
  BY DEF Ordered

\* Until it is closed, what a session was sent and what waits in its buffer
\* are all its input; afterwards what it was sent is in order still.
InputAgrees(s) ==
    /\ launching[s] = "unborn" => typed[s] = 0 /\ delivered[s] = <<>> /\ pending[s] = <<>>
    /\ s \in Registered /\ state[s] = "running" => pending[s] = <<>>
    /\ Ordered(delivered[s], typed[s])
    /\ s \in Registered /\ state[s] # "closing" => delivered[s] \o pending[s] = Upto(typed[s])

InputsAgree == \A s \in Session : InputAgrees(s)

\* No session of a new registry has had input.
THEOREM InitInputs == Init => InputsAgree
<1> SUFFICES ASSUME Init, NEW s \in Session PROVE InputAgrees(s)
  BY DEF InputsAgree
<1>1. typed[s] = 0 /\ delivered[s] = <<>> /\ pending[s] = <<>> /\ s \notin Registered
  BY DEF Init, Registered
<1>2. Ordered(<<>>, 0)
  BY DEF Ordered
<1> QED BY <1>1, <1>2 DEF InputAgrees

\* A session whose input is left alone: it was born before, and it was as
\* open as it is.
InputAlone(t) ==
    /\ typed'[t] = typed[t] /\ delivered'[t] = delivered[t] /\ pending'[t] = pending[t]
    /\ launching'[t] = "unborn" => launching[t] = "unborn"
    /\ t \in Registered' /\ state'[t] # "closing" => t \in Registered /\ state[t] = state'[t]

\* A session whose input is left alone has its input in order still.
LEMMA InputAloneKept ==
    ASSUME NEW t \in Session, InputAgrees(t), InputAlone(t)
    PROVE  InputAgrees(t)'
  BY DEF InputAgrees, InputAlone

\* The order of the input is kept by every step.
LEMMA InputStep ==
    ASSUME IInv, Structure, InputsAgree, [Next]_vars
    PROVE  InputsAgree'
<1> USE DEF registry, recordVars, ptyVars, inputVars
<1>0. /\ TypeOK /\ NoOrphanProcess /\ AdoptedBySettled
      /\ \A s \in Session : LaunchAgrees(s) /\ CloseAgrees(s) /\ InputAgrees(s)
  BY DEF IInv, Structure, InputsAgree
<1> SUFFICES \A t \in Session : InputAgrees(t)'
  BY DEF InputsAgree
<1>a. (\A t \in Session : InputAlone(t)) => \A t \in Session : InputAgrees(t)'
  BY <1>0, InputAloneKept
<1>r. ASSUME NEW s \in Session, RemoveRecord(s)
      PROVE  Registered' = Registered \ {s}
  BY <1>r, RegistryStep
<1>k. ASSUME UNCHANGED records PROVE Registered' = Registered
  BY <1>k, RegistryStep
<1>1. ASSUME NEW s \in Session, NEW w \in BOOLEAN, Launch(s, w)
      PROVE  \A t \in Session : InputAgrees(t)'
  <2>1. Registered' = Registered \cup {s}
    BY <1>1, RegistryStep
  <2>2. \A t \in Session \ {s} : InputAlone(t)
    BY <1>1, <2>1 DEF Launch, InputAlone, TypeOK
  <2>3. typed[s] = 0 /\ delivered[s] = <<>> /\ pending[s] = <<>>
    BY <1>0, <1>1 DEF Launch, InputAgrees
  <2>4. delivered[s] \o pending[s] = Upto(typed[s])
    <3>1. 0 \in Nat /\ <<>> \o <<>> = <<>>
      OBVIOUS
    <3>2. Upto(0) = <<>>
      BY <3>1, UptoFacts
    <3> QED BY <2>3, <3>1, <3>2
  <2>5. InputAgrees(s)'
    BY <1>0, <1>1, <2>3, <2>4 DEF Launch, InputAgrees, TypeOK
  <2> QED BY <1>0, <2>2, <2>5, InputAloneKept
<1>2. ASSUME NEW s \in Session, Prepared(s)
      PROVE  \A t \in Session : InputAgrees(t)'
  BY <1>0, <1>a, <1>2, <1>r, <1>k DEF Prepared, InputAlone, TypeOK
<1>3. ASSUME NEW s \in Session, LaunchFailed(s)
      PROVE  \A t \in Session : InputAgrees(t)'
  BY <1>0, <1>a, <1>3, <1>r DEF LaunchFailed, InputAlone, TypeOK
<1>4. ASSUME NEW s \in Session, Spawned(s)
      PROVE  \A t \in Session : InputAgrees(t)'
  BY <1>0, <1>a, <1>4, <1>k DEF Spawned, InputAlone, TypeOK
<1>5. ASSUME NEW s \in Session, AdoptAbandoned(s)
      PROVE  \A t \in Session : InputAgrees(t)'
  BY <1>0, <1>a, <1>5, <1>r DEF AdoptAbandoned, InputAlone, TypeOK
<1>6. ASSUME NEW s \in Session, AdoptExited(s)
      PROVE  \A t \in Session : InputAgrees(t)'
  BY <1>0, <1>a, <1>6, <1>r DEF AdoptExited, Adopting, HandleExit, InputAlone, TypeOK
<1>7. ASSUME NEW s \in Session, AdoptResizeFailed(s)
      PROVE  \A t \in Session : InputAgrees(t)'
  BY <1>0, <1>a, <1>7, <1>r DEF AdoptResizeFailed, Adopting, InputAlone, TypeOK
<1>8. ASSUME NEW s \in Session, AdoptClosing(s)
      PROVE  \A t \in Session : InputAgrees(t)'
  BY <1>0, <1>a, <1>8, <1>k DEF AdoptClosing, Adopting, InputAlone, TypeOK
<1>9. ASSUME NEW s \in Session, AdoptRunning(s)
      PROVE  \A t \in Session : InputAgrees(t)'
  <2>1. \A t \in Session \ {s} : InputAlone(t)
    BY <1>0, <1>9, <1>k DEF AdoptRunning, Adopting, InputAlone, TypeOK
  <2>2. delivered[s] \o pending[s] = Upto(typed[s])
    BY <1>0, <1>9 DEF AdoptRunning, Adopting, InputAgrees
  <2>3. SubSeq(pending[s], 1, Len(pending[s])) = pending[s] /\ Len(pending[s]) \in Nat
    BY <1>0 DEF TypeOK
  <2>4. /\ delivered[s] \o pending[s] \in Seq(Nat)
        /\ Ordered(delivered[s] \o pending[s], typed[s])
    <3>1. /\ delivered[s] \in Seq(Nat) /\ pending[s] \in Seq(Nat) /\ typed[s] \in Nat
          /\ Len(pending[s]) \in 0..Len(pending[s])
      BY <1>0 DEF TypeOK
    <3> QED BY <2>2, <2>3, <3>1, PrefixOrdered
  <2>5. (delivered[s] \o pending[s]) \o <<>> = delivered[s] \o pending[s]
    BY <2>4
  <2>6. /\ typed'[s] = typed[s] /\ pending'[s] = <<>> /\ launching'[s] = "settled"
        /\ delivered'[s] = delivered[s] \o pending[s]
    BY <1>0, <1>9 DEF AdoptRunning, Adopting, TypeOK
  <2>7. InputAgrees(s)'
    BY <2>2, <2>4, <2>5, <2>6 DEF InputAgrees
  <2> QED BY <1>0, <2>1, <2>7, InputAloneKept
<1>10. ASSUME NEW s \in Session, AdoptFlushFailed(s)
       PROVE  \A t \in Session : InputAgrees(t)'
  <2>1. \A t \in Session \ {s} : InputAlone(t)
    BY <1>0, <1>10, <1>r DEF AdoptFlushFailed, Adopting, InputAlone, TypeOK
  <2>2. delivered[s] \o pending[s] = Upto(typed[s])
    BY <1>0, <1>10 DEF AdoptFlushFailed, Adopting, InputAgrees
  <2>3. PICK k \in DOMAIN pending[s] :
           delivered' = [delivered EXCEPT ![s] = @ \o SubSeq(pending[s], 1, k - 1)]
    BY <1>10 DEF AdoptFlushFailed
  <2>4. k - 1 \in 0..Len(pending[s])
    BY <1>0 DEF TypeOK
  <2>5. Ordered(delivered[s] \o SubSeq(pending[s], 1, k - 1), typed[s])
    BY <1>0, <2>2, <2>4, PrefixOrdered DEF TypeOK
  <2>6. /\ typed'[s] = typed[s] /\ launching'[s] = "settled" /\ s \notin Registered'
        /\ delivered'[s] = delivered[s] \o SubSeq(pending[s], 1, k - 1)
    BY <1>0, <1>10, <1>r, <2>3 DEF AdoptFlushFailed, Adopting, TypeOK
  <2>7. InputAgrees(s)'
    BY <2>5, <2>6 DEF InputAgrees
  <2> QED BY <1>0, <2>1, <2>7, InputAloneKept
<1>11. ASSUME NEW s \in Session, AdoptFlushClosed(s)
       PROVE  \A t \in Session : InputAgrees(t)'
  <2>1. \A t \in Session \ {s} : InputAlone(t)
    BY <1>0, <1>11, <1>k DEF AdoptFlushClosed, Adopting, InputAlone, TypeOK
  <2>2. delivered[s] \o pending[s] = Upto(typed[s])
    BY <1>0, <1>11 DEF AdoptFlushClosed, Adopting, InputAgrees
  <2>3. PICK k \in DOMAIN pending[s] :
           delivered' = [delivered EXCEPT ![s] = @ \o SubSeq(pending[s], 1, k)]
    BY <1>11 DEF AdoptFlushClosed
  <2>4. k \in 0..Len(pending[s])
    BY <1>0 DEF TypeOK
  <2>5. Ordered(delivered[s] \o SubSeq(pending[s], 1, k), typed[s])
    BY <1>0, <2>2, <2>4, PrefixOrdered DEF TypeOK
  <2>6. /\ typed'[s] = typed[s] /\ launching'[s] = "settled" /\ state'[s] = "closing"
        /\ delivered'[s] = delivered[s] \o SubSeq(pending[s], 1, k)
    BY <1>0, <1>11, <2>3 DEF AdoptFlushClosed, Adopting, TypeOK
  <2>7. InputAgrees(s)'
    BY <2>5, <2>6 DEF InputAgrees
  <2> QED BY <1>0, <2>1, <2>7, InputAloneKept
<1>12. ASSUME NEW s \in Session, Close(s)
      PROVE  \A t \in Session : InputAgrees(t)'
  BY <1>0, <1>a, <1>12, <1>k DEF Close, InputAlone, TypeOK
<1>13. ASSUME NEW s \in Session, Flushed(s)
      PROVE  \A t \in Session : InputAgrees(t)'
  BY <1>0, <1>a, <1>13, <1>k DEF Flushed, InputAlone, TypeOK
<1>14. ASSUME NEW s \in Session, Killed(s)
      PROVE  \A t \in Session : InputAgrees(t)'
  BY <1>0, <1>a, <1>14, <1>k DEF Killed, InputAlone, TypeOK
<1>15. ASSUME NEW s \in Session, CloseSettled(s)
      PROVE  \A t \in Session : InputAgrees(t)'
  BY <1>0, <1>a, <1>15, <1>k DEF CloseSettled, InputAlone, TypeOK
<1>16. ASSUME NEW s \in Session, NEW o \in {"clean", "failed"}, ProcessExit(s, o)
      PROVE  \A t \in Session : InputAgrees(t)'
  BY <1>0, <1>a, <1>16, <1>r, <1>k DEF ProcessExit, HandleExit, InputAlone, TypeOK
<1>17. ASSUME NEW s \in Session, Write(s)
       PROVE  \A t \in Session : InputAgrees(t)'
  <2>1. \A t \in Session \ {s} : InputAlone(t)
    BY <1>0, <1>17, <1>k DEF Write, InputAlone, TypeOK
  <2> DEFINE d == delivered[s]
             p == pending[s]
             n == typed[s]
  <2>2. d \in Seq(Nat) /\ p \in Seq(Nat) /\ n \in Nat
    BY <1>0 DEF TypeOK
  <2>3. /\ typed'[s] = n + 1 /\ s \in Registered /\ s \in Registered'
        /\ state'[s] = state[s] /\ launching'[s] = launching[s] /\ launching[s] # "unborn"
        /\ delivered'[s] = IF owned[s] THEN Append(d, n + 1) ELSE d
        /\ pending'[s] = IF ~owned[s] /\ state[s] = "starting" THEN Append(p, n + 1) ELSE p
    BY <1>0, <1>17, <1>k DEF Write, LaunchAgrees, TypeOK
  <2>4. Ordered(d, n) /\ (state[s] = "running" => p = <<>>)
    BY <1>0, <2>3 DEF InputAgrees
  <2>5. state[s] # "closing" => d \o p = Upto(n)
    BY <1>0, <2>3 DEF InputAgrees
  <2>6. /\ owned[s] => state[s] # "starting"
        /\ state[s] = "running" => owned[s]
        /\ owned[s] \in BOOLEAN /\ state[s] \in {"none", "starting", "running", "closing"}
        /\ state[s] # "none"
    BY <1>0, <2>3 DEF LaunchAgrees, AdoptedBySettled, TypeOK, States
  <2> HIDE DEF d, p, n
  <2>7. Ordered(Append(d, n + 1), n + 1) /\ Ordered(d, n + 1)
    BY <2>2, <2>4, AppendOrdered
  <2>8. Append(d \o p, n + 1) = Upto(n + 1) \/ state[s] = "closing"
    BY <2>2, <2>5, UptoFacts
  <2>9. ASSUME state[s] = "starting" PROVE InputAgrees(s)'
    <3>1. d \o Append(p, n + 1) = Upto(n + 1)
      <4>1. n + 1 \in Nat
        BY <2>2
      <4>2. d \o Append(p, n + 1) = Append(d \o p, n + 1)
        BY <2>2, <4>1, ConcatAppend
      <4>3. Append(d \o p, n + 1) = Upto(n + 1)
        BY <2>8, <2>9
      <4> QED BY <4>2, <4>3
    <3>2. /\ typed'[s] = n + 1 /\ delivered'[s] = d /\ pending'[s] = Append(p, n + 1)
          /\ state'[s] = "starting" /\ launching'[s] # "unborn"
      BY <2>3, <2>6, <2>9
    <3> QED BY <2>7, <3>1, <3>2 DEF InputAgrees
  <2>10. ASSUME state[s] = "running" PROVE InputAgrees(s)'
    <3>1. p = <<>> /\ d \o p = d /\ Append(d, n + 1) \o p = Append(d, n + 1)
      BY <2>2, <2>4, <2>10
    <3> QED BY <2>3, <2>6, <2>7, <2>8, <2>10, <3>1 DEF InputAgrees
  <2>11. ASSUME state[s] = "closing" PROVE InputAgrees(s)'
    BY <2>3, <2>6, <2>7, <2>11 DEF InputAgrees
  <2> QED BY <1>0, <2>1, <2>6, <2>9, <2>10, <2>11, InputAloneKept
<1>18. ASSUME NEW s \in Session, Resize(s)
      PROVE  \A t \in Session : InputAgrees(t)'
  BY <1>0, <1>a, <1>18, <1>k DEF Resize, InputAlone, TypeOK
<1>19. ASSUME NEW s \in Session, Activate(s)
      PROVE  \A t \in Session : InputAgrees(t)'
  BY <1>0, <1>a, <1>19, <1>k DEF Activate, InputAlone, TypeOK
<1>20. CASE TerminateAll
  BY <1>0, <1>a, <1>20, <1>k DEF TerminateAll, AllClosing, InputAlone, TypeOK
<1>21. CASE Dispose
  BY <1>0, <1>a, <1>21, RegistryStep DEF Dispose, InputAlone, TypeOK
<1>22. CASE ActivateNext \/ ActivatePrevious
  BY <1>0, <1>a, <1>22, <1>k
     DEF ActivateNext, ActivatePrevious, ActivateRelative, InputAlone, TypeOK
<1>23. CASE UNCHANGED vars
  BY <1>0, <1>a, <1>23, <1>k DEF vars, InputAlone, TypeOK
<1> QED
  BY <1>1, <1>2, <1>3, <1>4, <1>5, <1>6, <1>7, <1>8, <1>9, <1>10, <1>11, <1>12, <1>13, <1>14,
     <1>15, <1>16, <1>17, <1>18, <1>19, <1>20, <1>21, <1>22, <1>23
     DEF Next, LaunchStep, CloseStep, UserStep

----------------------------------------------------------------------------
(* The registry implements SessionLifecycle. *)

\* What SessionLifecycle sees of a kill and of a notification.
Doomed == [s \in Session |-> kill[s] # "idle"]
Told == [s \in Session |-> notice[s] # None]

\* A step that the abstract life cycle does not see.
Unseen == UNCHANGED <<terminal, Phase, ProcessView, Doomed, Told>>

\* A session whose record is removed is gone; the others stay as they are.
LEMMA PhaseOfRemoved ==
    ASSUME NEW s \in Session, Registered' = Registered \ {s}, launching'[s] # "unborn",
           \A t \in Session \ {s} : launching'[t] = launching[t] /\ state'[t] = state[t]
    PROVE  Phase' = [Phase EXCEPT ![s] = "gone"]
  BY DEF Phase

\* A report, if there is one, is of the session that ends.
LEMMA ToldOf ==
    ASSUME TypeOK, NEW s \in Session, NEW kind \in Failures, NEW quiet,
           NotifyUnless(quiet, s, kind)
    PROVE  Told' = Told \/ (~quiet /\ Told' = [Told EXCEPT ![s] = TRUE])
<1>1. kind # None
  BY NoneAssumption
<1> QED BY <1>1 DEF NotifyUnless, Told, TypeOK

\* A new registry is a lifecycle whose sessions are not born yet.
THEOREM InitLifecycle == Init => SL!Init
  BY SMTT(30), ZenonT(60) DEF Init, SL!Init, Phase, ProcessView, Registered

\* Every step of the registry is a step of the abstract life cycle, or is not
\* seen by it.
LEMMA LifecycleStep ==
    ASSUME IInv, Structure, [Next]_vars
    PROVE  SL!Next \/ Unseen
<1> USE DEF registry, recordVars, ptyVars, inputVars
<1>0. /\ TypeOK /\ NoOrphanProcess /\ AdoptedBySettled
      /\ \A s \in Session : LaunchAgrees(s) /\ CloseAgrees(s)
  BY DEF IInv, Structure
<1>r. ASSUME NEW s \in Session, RemoveRecord(s)
      PROVE  Registered' = Registered \ {s}
  BY <1>r, RegistryStep
<1>k. ASSUME UNCHANGED records PROVE Registered' = Registered
  BY <1>k, RegistryStep
<1>p. ASSUME NEW s \in Session, RemoveRecord(s), launching'[s] # "unborn",
             \A t \in Session \ {s} : launching'[t] = launching[t] /\ state'[t] = state[t]
      PROVE  Phase' = [Phase EXCEPT ![s] = "gone"]
  BY <1>p, <1>r, PhaseOfRemoved
<1>1. ASSUME NEW s \in Session, NEW w \in BOOLEAN, Launch(s, w)
      PROVE  SL!Begin(s)
  <2>1. Registered' = Registered \cup {s}
    BY <1>1, RegistryStep
  <2>2. Phase' = [Phase EXCEPT ![s] = "starting"]
    BY <1>0, <1>1, <2>1 DEF Launch, Phase, TypeOK
  <2>3. Phase[s] = "unborn" /\ ProcessView' = ProcessView
    BY <1>0, <1>1 DEF Launch, Phase, ProcessView, TypeOK
  <2> QED BY <1>1, <2>2, <2>3 DEF Launch, SL!Begin
<1>2. ASSUME NEW s \in Session, Prepared(s)
      PROVE  SL!Order(s) \/ SL!Fail(s)
  <2>1. CASE ~Cancelled(s) /\ s \in Registered
    <3>1. Phase[s] = "starting" /\ Phase' = Phase /\ ~terminal
      BY <1>0, <1>2, <1>k, <2>1
         DEF Prepared, Cancelled, Phase, LaunchAgrees, TypeOK, States
    <3>2. ProcessView[s] = "none" /\ ProcessView' = [ProcessView EXCEPT ![s] = "ordered"]
      BY <1>0, <1>2, <2>1 DEF Prepared, ProcessView, LaunchAgrees, TypeOK
    <3> QED BY <1>2, <2>1, <3>1, <3>2 DEF Prepared, SL!Order
  <2>2. CASE Cancelled(s) \/ s \notin Registered
    <3>1. Phase' = [Phase EXCEPT ![s] = "gone"]
      BY <1>0, <1>2, <1>p, <2>2 DEF Prepared, TypeOK
    <3>3. Phase[s] # "unborn"
      BY <1>0, <1>2 DEF Prepared, Phase, TypeOK, States
    <3>2. ProcessView[s] = "none" /\ ProcessView' = [ProcessView EXCEPT ![s] = "none"]
      BY <1>0, <1>2, <2>2, ZenonT(60) DEF Prepared, ProcessView, LaunchAgrees, TypeOK
    <3> QED BY <1>2, <2>2, <3>1, <3>2, <3>3 DEF Prepared, SL!Fail, SL!MayTell
  <2> QED BY <2>1, <2>2
<1>3. ASSUME NEW s \in Session, LaunchFailed(s)
      PROVE  SL!Fail(s)
  <2>1. Phase' = [Phase EXCEPT ![s] = "gone"]
    BY <1>0, <1>3, <1>p DEF LaunchFailed, TypeOK
  <2>4. Phase[s] # "unborn"
    BY <1>0, <1>3 DEF LaunchFailed, Phase, TypeOK, States
  <2>2. ProcessView[s] \in {"none", "ordered"} /\ ProcessView' = [ProcessView EXCEPT ![s] = "none"]
    BY <1>0, <1>3 DEF LaunchFailed, ProcessView, LaunchAgrees, TypeOK
  <2>3. SL!MayTell(s)
    <3>1. Told' = Told \/ (~Cancelled(s) /\ Told' = [Told EXCEPT ![s] = TRUE])
      BY <1>0, <1>3, ToldOf DEF LaunchFailed, Failures
    <3>2. ~Cancelled(s) => ~terminal /\ Phase[s] = "starting" /\ Phase'[s] = "gone"
      BY <1>0, <1>3, <2>1 DEF LaunchFailed, Cancelled, Phase, LaunchAgrees, TypeOK, States
    <3> QED BY <3>1, <3>2 DEF SL!MayTell, Told
  <2> QED BY <1>3, <2>1, <2>2, <2>3, <2>4 DEF LaunchFailed, SL!Fail
<1>4. ASSUME NEW s \in Session, Spawned(s)
      PROVE  SL!Arrive(s)
  <2>1. Phase' = Phase
    BY <1>0, <1>4, <1>k DEF Spawned, Phase, TypeOK
  <2>2. ProcessView[s] = "ordered" /\ ProcessView' = [ProcessView EXCEPT ![s] = "live"]
    BY <1>0, <1>4 DEF Spawned, ProcessView, LaunchAgrees, TypeOK
  <2> QED BY <1>4, <2>1, <2>2 DEF Spawned, SL!Arrive
<1>5. ASSUME NEW s \in Session, AdoptAbandoned(s)
      PROVE  SL!Retire(s) \/ SL!Condemn(s) \/ Unseen
  <2>1. ProcessView[s] \in {"live", "dead"} /\ ProcessView' = ProcessView
    BY <1>0, <1>5 DEF AdoptAbandoned, ProcessView, LaunchAgrees, TypeOK, Processes
  <2>2. Doomed' = [Doomed EXCEPT ![s] = @ \/ ProcessView[s] = "live"]
    BY <1>0, <1>5 DEF AdoptAbandoned, TerminatePty, Terminated, Doomed, ProcessView, TypeOK, Kills
  <2>3. UNCHANGED <<terminal, Told>>
    BY <1>5 DEF AdoptAbandoned, Told
  <2>4. Phase' = [Phase EXCEPT ![s] = "gone"]
    BY <1>0, <1>5, <1>p DEF AdoptAbandoned, TypeOK
  <2>5. CASE s \in Registered
    <3>1. Phase[s] = "closing"
      BY <1>0, <1>5, <2>5 DEF AdoptAbandoned, Phase, CloseAgrees
    <3> QED BY <2>1, <2>2, <2>3, <2>4, <3>1 DEF Doomed, Told, SL!Retire, SL!MayTell
  <2>6. CASE s \notin Registered
    <3>1. Phase[s] = "gone" /\ Phase' = Phase
      BY <1>5, <2>4, <2>6 DEF AdoptAbandoned, Phase
    <3>2. CASE ProcessView[s] = "live"
      BY <2>1, <2>2, <2>3, <3>1, <3>2 DEF Doomed, Told, SL!Condemn
    <3>3. CASE ProcessView[s] = "dead"
      <4>1. Doomed' = Doomed
        BY <2>2, <3>3 DEF Doomed
      <4> QED BY <2>1, <2>3, <3>1, <4>1 DEF Unseen
    <3> QED BY <2>1, <3>2, <3>3
  <2> QED BY <2>5, <2>6
<1>6. ASSUME NEW s \in Session, AdoptExited(s)
      PROVE  SL!Retire(s)
  <2>1. Phase' = [Phase EXCEPT ![s] = "gone"] /\ Phase[s] \in {"starting", "closing"} /\ Phase'[s] = "gone"
    <3>1. Phase' = [Phase EXCEPT ![s] = "gone"]
      BY <1>0, <1>6, <1>p DEF AdoptExited, Adopting, HandleExit, TypeOK
    <3>2. Phase[s] \in {"starting", "closing"} /\ DOMAIN Phase = Session
      BY <1>0, <1>6 DEF AdoptExited, Adopting, HandleExit, Phase, LaunchAgrees, TypeOK, States
    <3> QED BY <3>1, <3>2
  <2>2. ProcessView[s] \in {"live", "dead"} /\ ProcessView' = ProcessView
    BY <1>0, <1>6
       DEF AdoptExited, Adopting, HandleExit, ProcessView, LaunchAgrees, TypeOK, Processes
  <2>3. Doomed' = [Doomed EXCEPT ![s] = @ \/ ProcessView[s] = "live"]
    BY <1>0, <1>6
       DEF AdoptExited, Adopting, HandleExit, TerminatePty, Terminated, Doomed, ProcessView,
           LaunchAgrees, TypeOK, Kills
  <2>4. SL!MayTell(s)
    <3>1. Told' = Told \/ (~Cancelled(s) /\ Told' = [Told EXCEPT ![s] = TRUE])
      BY <1>0, <1>6, ToldOf DEF AdoptExited, HandleExit, ExitNotice, Failures
    <3>2. ~Cancelled(s) => ~terminal /\ Phase[s] = "starting"
      BY <1>6, <2>1 DEF AdoptExited, Adopting, Cancelled, Phase
    <3> QED BY <2>1, <3>1, <3>2 DEF SL!MayTell, Told
  <2> QED BY <1>6, <2>1, <2>2, <2>3, <2>4 DEF AdoptExited, Adopting, HandleExit, Doomed, SL!Retire
<1>7. ASSUME NEW s \in Session, AdoptResizeFailed(s)
      PROVE  SL!Retire(s)
  <2>1. Phase' = [Phase EXCEPT ![s] = "gone"] /\ Phase[s] \in {"starting", "closing"} /\ Phase'[s] = "gone"
    <3>1. Phase' = [Phase EXCEPT ![s] = "gone"]
      BY <1>0, <1>7, <1>p DEF AdoptResizeFailed, Adopting, TypeOK
    <3>2. Phase[s] \in {"starting", "closing"} /\ DOMAIN Phase = Session
      BY <1>0, <1>7 DEF AdoptResizeFailed, Adopting, Phase, LaunchAgrees, TypeOK, States
    <3> QED BY <3>1, <3>2
  <2>2. ProcessView[s] \in {"live", "dead"} /\ ProcessView' = ProcessView
    BY <1>0, <1>7 DEF AdoptResizeFailed, Adopting, ProcessView, LaunchAgrees, TypeOK, Processes
  <2>3. Doomed' = [Doomed EXCEPT ![s] = @ \/ ProcessView[s] = "live"]
    BY <1>0, <1>7
       DEF AdoptResizeFailed, Adopting, TerminatePty, Terminated, Doomed, ProcessView,
           LaunchAgrees, TypeOK, Kills
  <2>4. SL!MayTell(s)
    <3>1. Told' = Told \/ (~Cancelled(s) /\ Told' = [Told EXCEPT ![s] = TRUE])
      BY <1>0, <1>7, ToldOf DEF AdoptResizeFailed, Failures
    <3>2. ~Cancelled(s) => ~terminal /\ Phase[s] = "starting"
      BY <1>7, <2>1 DEF AdoptResizeFailed, Adopting, Cancelled, Phase
    <3> QED BY <2>1, <3>1, <3>2 DEF SL!MayTell, Told
  <2> QED BY <1>7, <2>1, <2>2, <2>3, <2>4 DEF AdoptResizeFailed, Adopting, Doomed, SL!Retire
<1>8. ASSUME NEW s \in Session, AdoptClosing(s)
      PROVE  Unseen
  BY <1>0, <1>8, <1>k
     DEF AdoptClosing, Adopting, LaunchAgrees, Unseen, Phase, ProcessView, Doomed, Told, TypeOK
<1>9. ASSUME NEW s \in Session, AdoptRunning(s)
      PROVE  SL!Promote(s)
  <2>1. Phase[s] = "starting" /\ Phase' = [Phase EXCEPT ![s] = "running"]
    <3>1. Phase[s] = "starting" /\ Registered' = Registered /\ s \in Registered
      BY <1>9, <1>k DEF AdoptRunning, Adopting, Phase
    <3>2. launching' = [launching EXCEPT ![s] = "settled"] /\ launching[s] # "unborn"
      BY <1>9 DEF AdoptRunning, Adopting
    <3>3. state' = [state EXCEPT ![s] = "running"]
      BY <1>9 DEF AdoptRunning
    <3>4. ASSUME NEW t \in Session
          PROVE  Phase'[t] = IF t = s THEN "running" ELSE Phase[t]
      BY <1>0, <3>1, <3>2, <3>3 DEF Phase, TypeOK
    <3>5. Phase' \in [Session -> {Phase'[t] : t \in Session}] /\ DOMAIN Phase = Session
      BY DEF Phase
    <3> QED BY <3>1, <3>4, <3>5
  <2>2. ProcessView[s] = "live" /\ ProcessView' = ProcessView /\ ~Doomed[s]
    BY <1>0, <1>9 DEF AdoptRunning, Adopting, ProcessView, Doomed, LaunchAgrees, TypeOK
  <2> QED BY <1>9, <2>1, <2>2 DEF AdoptRunning, Adopting, Doomed, SL!Promote
<1>10. ASSUME NEW s \in Session, AdoptFlushFailed(s)
      PROVE  SL!Retire(s)
  <2>1. Phase' = [Phase EXCEPT ![s] = "gone"] /\ Phase[s] \in {"starting", "closing"} /\ Phase'[s] = "gone"
    <3>1. Phase' = [Phase EXCEPT ![s] = "gone"]
      BY <1>0, <1>10, <1>p DEF AdoptFlushFailed, Adopting, TypeOK
    <3>2. Phase[s] \in {"starting", "closing"} /\ DOMAIN Phase = Session
      BY <1>0, <1>10 DEF AdoptFlushFailed, Adopting, Phase, LaunchAgrees, TypeOK, States
    <3> QED BY <3>1, <3>2
  <2>2. ProcessView[s] \in {"live", "dead"} /\ ProcessView' = ProcessView
    BY <1>0, <1>10 DEF AdoptFlushFailed, Adopting, ProcessView, LaunchAgrees, TypeOK, Processes
  <2>3. Doomed' = [Doomed EXCEPT ![s] = @ \/ ProcessView[s] = "live"]
    BY <1>0, <1>10
       DEF AdoptFlushFailed, Adopting, TerminatePty, Terminated, Doomed, ProcessView,
           LaunchAgrees, TypeOK, Kills
  <2>4. SL!MayTell(s)
    <3>1. Told' = Told \/ Told' = [Told EXCEPT ![s] = TRUE]
      BY <1>0, <1>10, ToldOf DEF AdoptFlushFailed, Failures
    <3>2. ~terminal /\ Phase[s] = "starting"
      BY <1>10 DEF AdoptFlushFailed, Adopting, Phase
    <3> QED BY <2>1, <3>1, <3>2 DEF SL!MayTell, Told
  <2> QED BY <1>10, <2>1, <2>2, <2>3, <2>4 DEF AdoptFlushFailed, Adopting, Doomed, SL!Retire
<1>11. ASSUME NEW s \in Session, AdoptFlushClosed(s)
       PROVE  SL!BeginClose({s})
  <2>1. Phase[s] = "starting"
    BY <1>11 DEF AdoptFlushClosed, Adopting, Phase
  <2>2. Phase' = [t \in Session |-> IF t \in {s} THEN "closing" ELSE Phase[t]]
    BY <1>0, <1>11, <1>k DEF AdoptFlushClosed, Adopting, Phase, TypeOK
  <2>3. ProcessView' = ProcessView
    BY <1>0, <1>11 DEF AdoptFlushClosed, Adopting, ProcessView, LaunchAgrees, TypeOK
  <2> QED BY <1>11, <2>1, <2>2, <2>3 DEF AdoptFlushClosed, SL!BeginClose, SL!Open
<1>12. ASSUME NEW s \in Session, Close(s)
       PROVE  SL!BeginClose({s})
  <2>1. Phase[s] \in {"starting", "running", "closing"}
    BY <1>0, <1>12 DEF Close, Phase, LaunchAgrees, TypeOK, States
  <2>2. Phase' = [t \in Session |-> IF t \in {s} THEN "closing" ELSE Phase[t]]
    BY <1>0, <1>12, <1>k DEF Close, Phase, LaunchAgrees, TypeOK
  <2>3. ProcessView' = ProcessView
    BY <1>12 DEF Close, ProcessView
  <2> QED BY <1>12, <2>1, <2>2, <2>3 DEF Close, SL!BeginClose, SL!Open
<1>13. ASSUME TerminateAll
       PROVE  SL!BeginClose(Registered) /\ Registered \in SUBSET Session
  <2>1. \A t \in Registered : t \in Session /\ Phase[t] \in {"starting", "running", "closing"}
    BY <1>0, RegisteredTyped DEF Phase, LaunchAgrees, TypeOK, States
  <2>2. \A t \in Session \ Registered : Phase[t] \in {"unborn", "gone"}
    BY DEF Phase
  <2>3. Phase' = [t \in Session |-> IF t \in Registered THEN "closing" ELSE Phase[t]]
    BY <1>0, <1>13, <1>k DEF TerminateAll, AllClosing, Phase, LaunchAgrees, TypeOK
  <2>4. ProcessView' = ProcessView
    BY <1>13 DEF TerminateAll, ProcessView
  <2>5. Registered = {t \in Session : Phase[t] \in {"starting", "running", "closing"}}
    BY <2>1, <2>2
  <2> QED BY <1>13, <2>1, <2>3, <2>4, <2>5 DEF TerminateAll, SL!BeginClose, SL!Open
<1>14. ASSUME Dispose
       PROVE  SL!Abandon
  <2>1. Registered' = {}
    BY <1>14, RegistryStep
  <2>2. Phase' = [t \in Session |-> IF Phase[t] = "unborn" THEN "unborn" ELSE "gone"]
    BY <1>0, <1>14, <2>1 DEF Dispose, Phase, TypeOK, States
  <2>3. ProcessView' = ProcessView
    BY <1>14 DEF Dispose, ProcessView
  <2>4. ASSUME NEW t \in Session
        PROVE  /\ Doomed[t] => Doomed'[t]
               /\ Doomed'[t] => Doomed[t] \/ ProcessView[t] = "live"
               /\ Phase[t] = "running" => Doomed'[t]
    BY <1>0, <1>14 DEF Dispose, Terminated, Doomed, Phase, ProcessView, LaunchAgrees,
          NoOrphanProcess, TypeOK, Kills
  <2> QED BY <1>14, <2>2, <2>3, <2>4 DEF Dispose, Doomed, SL!Abandon
<1>15. ASSUME NEW s \in Session, Flushed(s)
       PROVE  SL!Condemn(s) \/ Unseen
  <2>1. Phase' = Phase /\ ProcessView' = ProcessView
    BY <1>15, <1>k DEF Flushed, Phase, ProcessView
  <2>2. CASE owned[s]
    <3>1. Phase[s] \in {"closing", "gone"} /\ ProcessView[s] = "live"
      BY <1>0, <1>15, <2>2 DEF Flushed, Phase, ProcessView, CloseAgrees, AdoptedBySettled,
            NoOrphanProcess
    <3>2. Doomed' = [Doomed EXCEPT ![s] = TRUE]
      BY <1>0, <1>15, <2>2 DEF Flushed, Terminated, Doomed, TypeOK, Kills
    <3> QED BY <1>15, <2>1, <3>1, <3>2 DEF Flushed, Doomed, SL!Condemn
  <2>3. CASE ~owned[s]
    BY <1>15, <2>1, <2>3 DEF Flushed, Doomed, Told, Unseen
  <2> QED BY <2>2, <2>3
<1>16. ASSUME NEW s \in Session, Killed(s)
      PROVE  Unseen
  BY <1>0, <1>16, <1>k DEF Killed, Unseen, Phase, ProcessView, Doomed, Told, TypeOK
<1>17. ASSUME NEW s \in Session, CloseSettled(s)
      PROVE  Unseen
  BY <1>0, <1>17, <1>k DEF CloseSettled, Unseen, Phase, ProcessView, Doomed, Told, TypeOK
<1>18. ASSUME NEW s \in Session, NEW o \in {"clean", "failed"}, ProcessExit(s, o)
       PROVE  SL!Die(s)
  <2>1. ProcessView[s] = "live" /\ ProcessView' = [ProcessView EXCEPT ![s] = "dead"]
    BY <1>0, <1>18 DEF ProcessExit, ProcessView, TypeOK
  <2>2. CASE owned[s]
    <3>1. Phase' = [Phase EXCEPT ![s] = "gone"] /\ DOMAIN Phase = Session
      BY <1>0, <1>18, <1>p, <2>2 DEF ProcessExit, HandleExit, AdoptedBySettled, Phase
    <3>2. Told' = Told \/ (~Cancelled(s) /\ Told' = [Told EXCEPT ![s] = TRUE])
      BY <1>0, <1>18, <2>2, ToldOf DEF ProcessExit, HandleExit, ExitNotice, Failures
    <3>3. ~Cancelled(s) => ~terminal /\ Phase[s] \in {"starting", "running"}
      BY <1>0, <1>18, <2>2
         DEF Cancelled, Phase, LaunchAgrees, AdoptedBySettled, NoOrphanProcess, TypeOK, States
    <3>4. SL!MayTell(s)
      BY <3>1, <3>2, <3>3 DEF SL!MayTell, Told
    <3> QED BY <1>18, <2>1, <3>1, <3>4 DEF ProcessExit, SL!Die
  <2>3. CASE ~owned[s]
    <3>1. Phase' = Phase /\ Phase[s] # "running"
      BY <1>0, <1>18, <1>k, <2>3 DEF ProcessExit, Phase, LaunchAgrees
    <3> QED BY <1>18, <2>1, <2>3, <3>1 DEF ProcessExit, SL!Die, SL!MayTell
  <2> QED BY <2>2, <2>3
<1>19. ASSUME NEW s \in Session, Write(s)
      PROVE  Unseen
  BY <1>0, <1>19, <1>k DEF Write, Unseen, Phase, ProcessView, Doomed, Told, TypeOK
<1>20. ASSUME NEW s \in Session, Resize(s)
      PROVE  Unseen
  BY <1>0, <1>20, <1>k DEF Resize, Unseen, Phase, ProcessView, Doomed, Told, TypeOK
<1>21. ASSUME NEW s \in Session, Activate(s)
      PROVE  Unseen
  BY <1>0, <1>21, <1>k DEF Activate, Unseen, Phase, ProcessView, Doomed, Told, TypeOK
<1>22. ASSUME ActivateNext \/ ActivatePrevious
       PROVE  Unseen
  BY <1>0, <1>22, <1>k
     DEF ActivateNext, ActivatePrevious, ActivateRelative, Unseen, Phase, ProcessView, Doomed,
         Told, TypeOK
<1>23. ASSUME UNCHANGED vars
       PROVE  Unseen
  BY <1>0, <1>23, <1>k DEF vars, Unseen, Phase, ProcessView, Doomed, Told, TypeOK
<1> HIDE DEF Unseen
<1> QED
  BY <1>1, <1>2, <1>3, <1>4, <1>5, <1>6, <1>7, <1>8, <1>9, <1>10, <1>11, <1>12, <1>13, <1>14,
     <1>15, <1>16, <1>17, <1>18, <1>19, <1>20, <1>21, <1>22, <1>23
     DEF Next, LaunchStep, CloseStep, UserStep, SL!Next

\* The structure of the registry and the order of the input hold in every
\* reachable state.
THEOREM Consistency == Spec => [](Structure /\ InputsAgree)
<1>1. Init => Structure /\ InputsAgree
  BY InitStructure, InitInputs
<1>2. IInv /\ Structure /\ InputsAgree /\ [Next]_vars => Structure' /\ InputsAgree'
  BY StructureStep, InputStep
<1> QED BY <1>1, <1>2, Invariance, PTL DEF Spec

\* Whatever a session is sent while it starts and while it runs reaches its
\* PTY in the order it was typed, and until the session is closed without a
\* gap: no order of launch, adoption and write loses, repeats or swaps a
\* chunk (write, flushPending).
THEOREM InputArrivesInOrder == Spec => []InputInOrder
<1>1. InputsAgree => InputInOrder
  BY DEF InputsAgree, InputAgrees, InputInOrder, Ordered, Upto
<1> QED BY <1>1, Consistency, PTL

\* The registry, with its coroutines, promise chains and records, implements
\* the abstract life cycle of a session (sessionManager.ts).
THEOREM LifecycleImplemented == Spec => Lifecycle
<1>1. Init => SL!Init
  BY InitLifecycle
<1>2. IInv /\ Structure /\ [Next]_vars => [SL!Next]_(SL!vars)
  BY LifecycleStep DEF Unseen, Doomed, Told, SL!vars
<1> QED BY <1>1, <1>2, Invariance, Consistency, PTL DEF Spec, Lifecycle, SL!Spec
=============================================================================
