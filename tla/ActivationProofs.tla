-------------------------- MODULE ActivationProofs --------------------------
(***************************************************************************)
(* Proofs about what the extension host of a window sets up at activation: *)
(*  - HostChannels, for any number of extension hosts, process ids and     *)
(*    launches: that a window's channels stand as long as it uses them,    *)
(*    that bindings and their directories follow the sessions, and that    *)
(*    what hosts that are gone have left is swept;                         *)
(*  - AttentionNotifications, for any number of sessions, toasts,          *)
(*    registrations, answers and helper processes.                         *)
(***************************************************************************)
EXTENDS HostChannels, AttentionNotifications, FiniteSetTheorems, WellFoundedInduction, TLAPS

----------------------------------------------------------------------------
(* HostChannels: the inductive invariant *)

\* A host that has its attention channel open is past opening it.
OpenedUp == \A h \in opened : step[h] \in {"up", "sweeping", "making", "ready"}

\* A launch that is under way has a host that lives, and a session only while
\* its host does not close; its directory was made in that of its host, and is
\* there for a session that still is the target.
LaunchesPlaced ==
    \A l \in Launch :
        /\ launch[l] = "idle" => by[l] = Nil /\ session[l] = "none" /\ l \notin dirs
        /\ launch[l] # "idle" => by[l] \in Host
        /\ launch[l] \notin {"idle", "over"} => Alive(by[l])
        /\ session[l] \in {"open", "closing"} => closing[by[l]] = "no"
        /\ l \in bound => closing[by[l]] \in {"no", "flushing"}
        /\ launch[l] = "connecting" /\ Target(l) => l \in dirs
        /\ l \in dirs => step[by[l]] \in {"ready", "gone"}

\* What a host owes is of hosts that are gone for good, and as long as it is
\* there the listing has it.
Listed ==
    \A h \in Host : \A v \in owed[h] :
        /\ step[v] = "gone"
        /\ step[h] = "pruning" /\ attention[v] # "none" =>
              [of |-> v, name |-> attention[v]] \in found[h]
        /\ step[h] = "sweeping" /\ composer[v] = "owned" => [of |-> v, name |-> "open"] \in found[h]

ChannelsInv ==
    /\ ChannelsTypeOK /\ OpenedUp /\ LaunchesPlaced /\ Listed
    /\ ChannelsStand /\ BridgesFollow /\ LeftoversSwept

\* No step leaves the types.
LEMMA TypeStep ==
    ASSUME ChannelsTypeOK, [ChannelsNext]_channelVars
    PROVE  ChannelsTypeOK'
<1> USE ChannelAssumption DEF hosts, listing, launches, history
<1>1. ASSUME NEW h \in Host, Start(h)
       PROVE  ChannelsTypeOK'
  BY <1>1 DEF Start, Goes, InUse, Alive, ChannelsTypeOK, Entries
<1>2. ASSUME NEW h \in Host, Prune(h)
       PROVE  ChannelsTypeOK'
  BY <1>2 DEF Prune, Judged, Left, Orphaned, Unreadable, InUse, Alive, ChannelsTypeOK, Entries
<1>3. ASSUME NEW h \in Host, Stage(h)
       PROVE  ChannelsTypeOK'
  BY <1>3 DEF Stage, Goes, ChannelsTypeOK, Entries
<1>4. ASSUME NEW h \in Host, Publish(h)
       PROVE  ChannelsTypeOK'
  BY <1>4 DEF Publish, Goes, ChannelsTypeOK, Entries
<1>5. ASSUME NEW h \in Host, OpenFails(h)
       PROVE  ChannelsTypeOK'
  BY <1>5 DEF OpenFails, Goes, ChannelsTypeOK, Entries
<1>6. ASSUME NEW h \in Host, Sweep(h)
       PROVE  ChannelsTypeOK'
  BY <1>6 DEF Sweep, Judged, Left, Orphaned, InUse, Alive, Of, ChannelsTypeOK, Entries
<1>7. ASSUME NEW h \in Host, MakeDirectory(h)
       PROVE  ChannelsTypeOK'
  BY <1>7 DEF MakeDirectory, Goes, ChannelsTypeOK, Entries
<1>8. ASSUME NEW h \in Host, OwnDirectory(h)
       PROVE  ChannelsTypeOK'
  BY <1>8 DEF OwnDirectory, Goes, ChannelsTypeOK, Entries
<1>9. ASSUME NEW h \in Host, DirectoryFails(h)
       PROVE  ChannelsTypeOK'
  BY <1>9 DEF DirectoryFails, Goes, ChannelsTypeOK, Entries
<1>10. ASSUME NEW h \in Host, Unbind(h)
       PROVE  ChannelsTypeOK'
  BY <1>10 DEF Unbind, Closes, Of, Alive, ChannelsTypeOK, Entries
<1>11. ASSUME NEW h \in Host, EraseDirectory(h)
       PROVE  ChannelsTypeOK'
  BY <1>11 DEF EraseDirectory, Closes, Of, ChannelsTypeOK, Entries
<1>12. ASSUME NEW h \in Host, CloseAttention(h)
       PROVE  ChannelsTypeOK'
  BY <1>12 DEF CloseAttention, Closes, Alive, ChannelsTypeOK, Entries
<1>13. ASSUME NEW h \in Host, Close(h)
       PROVE  ChannelsTypeOK'
  BY <1>13 DEF Close, Closes, Of, ChannelsTypeOK, Entries
<1>14. ASSUME NEW h \in Host, Die(h)
       PROVE  ChannelsTypeOK'
  BY <1>14 DEF Die, Goes, Of, Alive, ChannelsTypeOK, Entries
<1>15. ASSUME NEW l \in Launch, Admit(l)
       PROVE  ChannelsTypeOK'
  BY <1>15 DEF Admit, Goes, Moves, Target, ChannelsTypeOK, Entries
<1>16. ASSUME NEW l \in Launch, MakeChannel(l)
       PROVE  ChannelsTypeOK'
  BY <1>16 DEF MakeChannel, Moves, ChannelsTypeOK, Entries
<1>17. ASSUME NEW l \in Launch, Connect(l)
       PROVE  ChannelsTypeOK'
  BY <1>17 DEF Connect, Moves, Target, Removed, ChannelsTypeOK, Entries
<1>18. ASSUME NEW l \in Launch, Dispose(l)
       PROVE  ChannelsTypeOK'
  BY <1>18 DEF Dispose, Disposes, ChannelsTypeOK, Entries
<1>19. ASSUME NEW l \in Launch, Erase(l)
       PROVE  ChannelsTypeOK'
  BY <1>19 DEF Erase, Moves, Removed, ChannelsTypeOK, Entries
<1>20. ASSUME NEW l \in Launch, EndSession(l)
       PROVE  ChannelsTypeOK'
  BY <1>20 DEF EndSession, ChannelsTypeOK, Entries
<1>21. ASSUME NEW l \in Launch, NEW h \in Host, Prepare(l, h)
       PROVE  ChannelsTypeOK'
  BY <1>21 DEF Prepare, Moves, ChannelsTypeOK, Entries
<1>22. CASE UNCHANGED channelVars
  BY <1>22 DEF channelVars, ChannelsTypeOK, Entries
<1> QED
  BY <1>1, <1>2, <1>3, <1>4, <1>5, <1>6, <1>7, <1>8, <1>9, <1>10, <1>11, <1>12,
     <1>13, <1>14, <1>15, <1>16, <1>17, <1>18, <1>19, <1>20, <1>21, <1>22
     DEF ChannelsNext, HostStep, LaunchStep

\* A host opens its attention channel once.
LEMMA OpenedStep ==
    ASSUME ChannelsTypeOK, OpenedUp, [ChannelsNext]_channelVars
    PROVE  OpenedUp'
<1> USE ChannelAssumption DEF hosts, listing, launches, history
<1>1. ASSUME NEW h \in Host, Start(h)
       PROVE  OpenedUp'
  BY <1>1 DEF Start, Goes, InUse, Alive, ChannelsTypeOK, OpenedUp
<1>2. ASSUME NEW h \in Host, Prune(h)
       PROVE  OpenedUp'
  BY <1>2 DEF Prune, Judged, Left, Orphaned, Unreadable, InUse, Alive, ChannelsTypeOK, OpenedUp
<1>3. ASSUME NEW h \in Host, Stage(h)
       PROVE  OpenedUp'
  BY <1>3 DEF Stage, Goes, ChannelsTypeOK, OpenedUp
<1>4. ASSUME NEW h \in Host, Publish(h)
       PROVE  OpenedUp'
  BY <1>4 DEF Publish, Goes, ChannelsTypeOK, OpenedUp
<1>5. ASSUME NEW h \in Host, OpenFails(h)
       PROVE  OpenedUp'
  BY <1>5 DEF OpenFails, Goes, ChannelsTypeOK, OpenedUp
<1>6. ASSUME NEW h \in Host, Sweep(h)
       PROVE  OpenedUp'
  BY <1>6 DEF Sweep, Judged, Left, Orphaned, InUse, Alive, Of, ChannelsTypeOK, OpenedUp
<1>7. ASSUME NEW h \in Host, MakeDirectory(h)
       PROVE  OpenedUp'
  BY <1>7 DEF MakeDirectory, Goes, ChannelsTypeOK, OpenedUp
<1>8. ASSUME NEW h \in Host, OwnDirectory(h)
       PROVE  OpenedUp'
  BY <1>8 DEF OwnDirectory, Goes, ChannelsTypeOK, OpenedUp
<1>9. ASSUME NEW h \in Host, DirectoryFails(h)
       PROVE  OpenedUp'
  BY <1>9 DEF DirectoryFails, Goes, ChannelsTypeOK, OpenedUp
<1>10. ASSUME NEW h \in Host, Unbind(h)
       PROVE  OpenedUp'
  BY <1>10 DEF Unbind, Closes, Of, Alive, ChannelsTypeOK, OpenedUp
<1>11. ASSUME NEW h \in Host, EraseDirectory(h)
       PROVE  OpenedUp'
  BY <1>11 DEF EraseDirectory, Closes, Of, ChannelsTypeOK, OpenedUp
<1>12. ASSUME NEW h \in Host, CloseAttention(h)
       PROVE  OpenedUp'
  BY <1>12 DEF CloseAttention, Closes, Alive, ChannelsTypeOK, OpenedUp
<1>13. ASSUME NEW h \in Host, Close(h)
       PROVE  OpenedUp'
  BY <1>13 DEF Close, Closes, Of, ChannelsTypeOK, OpenedUp
<1>14. ASSUME NEW h \in Host, Die(h)
       PROVE  OpenedUp'
  BY <1>14 DEF Die, Goes, Of, Alive, ChannelsTypeOK, OpenedUp
<1>15. ASSUME NEW l \in Launch, Admit(l)
       PROVE  OpenedUp'
  BY <1>15 DEF Admit, Goes, Moves, Target, ChannelsTypeOK, OpenedUp
<1>16. ASSUME NEW l \in Launch, MakeChannel(l)
       PROVE  OpenedUp'
  BY <1>16 DEF MakeChannel, Moves, ChannelsTypeOK, OpenedUp
<1>17. ASSUME NEW l \in Launch, Connect(l)
       PROVE  OpenedUp'
  BY <1>17 DEF Connect, Moves, Target, Removed, ChannelsTypeOK, OpenedUp
<1>18. ASSUME NEW l \in Launch, Dispose(l)
       PROVE  OpenedUp'
  BY <1>18 DEF Dispose, Disposes, ChannelsTypeOK, OpenedUp
<1>19. ASSUME NEW l \in Launch, Erase(l)
       PROVE  OpenedUp'
  BY <1>19 DEF Erase, Moves, Removed, ChannelsTypeOK, OpenedUp
<1>20. ASSUME NEW l \in Launch, EndSession(l)
       PROVE  OpenedUp'
  BY <1>20 DEF EndSession, ChannelsTypeOK, OpenedUp
<1>21. ASSUME NEW l \in Launch, NEW h \in Host, Prepare(l, h)
       PROVE  OpenedUp'
  BY <1>21 DEF Prepare, Moves, ChannelsTypeOK, OpenedUp
<1>22. CASE UNCHANGED channelVars
  BY <1>22 DEF channelVars, ChannelsTypeOK, OpenedUp
<1> QED
  BY <1>1, <1>2, <1>3, <1>4, <1>5, <1>6, <1>7, <1>8, <1>9, <1>10, <1>11, <1>12,
     <1>13, <1>14, <1>15, <1>16, <1>17, <1>18, <1>19, <1>20, <1>21, <1>22
     DEF ChannelsNext, HostStep, LaunchStep

\* No step takes the host of a launch away from under it.
LEMMA PlacedStep ==
    ASSUME ChannelsTypeOK, LaunchesPlaced, ChannelsStand, [ChannelsNext]_channelVars
    PROVE  LaunchesPlaced'
<1> USE ChannelAssumption DEF hosts, listing, launches, history
<1>1. ASSUME NEW h \in Host, Start(h)
       PROVE  LaunchesPlaced'
  BY <1>1 DEF Start, Goes, InUse, Alive, ChannelsTypeOK, LaunchesPlaced, Target
<1>2. ASSUME NEW h \in Host, Prune(h)
       PROVE  LaunchesPlaced'
  BY <1>2
     DEF Prune, Judged, Left, Orphaned, Unreadable, InUse, Alive, ChannelsTypeOK, LaunchesPlaced, Target
<1>3. ASSUME NEW h \in Host, Stage(h)
       PROVE  LaunchesPlaced'
  BY <1>3 DEF Stage, Goes, ChannelsTypeOK, LaunchesPlaced, Target, Alive
<1>4. ASSUME NEW h \in Host, Publish(h)
       PROVE  LaunchesPlaced'
  BY <1>4 DEF Publish, Goes, ChannelsTypeOK, LaunchesPlaced, Target, Alive
<1>5. ASSUME NEW h \in Host, OpenFails(h)
       PROVE  LaunchesPlaced'
  BY <1>5 DEF OpenFails, Goes, ChannelsTypeOK, LaunchesPlaced, Target, Alive
<1>6. ASSUME NEW h \in Host, Sweep(h)
       PROVE  LaunchesPlaced'
  BY <1>6 DEF Sweep, Judged, Left, Orphaned, InUse, Alive, Of, ChannelsTypeOK, LaunchesPlaced, Target
<1>7. ASSUME NEW h \in Host, MakeDirectory(h)
       PROVE  LaunchesPlaced'
  BY <1>7 DEF MakeDirectory, Goes, ChannelsTypeOK, LaunchesPlaced, Target, Alive
<1>8. ASSUME NEW h \in Host, OwnDirectory(h)
       PROVE  LaunchesPlaced'
  BY <1>8 DEF OwnDirectory, Goes, ChannelsTypeOK, LaunchesPlaced, Target, Alive
<1>9. ASSUME NEW h \in Host, DirectoryFails(h)
       PROVE  LaunchesPlaced'
  BY <1>9 DEF DirectoryFails, Goes, ChannelsTypeOK, LaunchesPlaced, Target, Alive
<1>10. ASSUME NEW h \in Host, Unbind(h)
       PROVE  LaunchesPlaced'
  BY <1>10 DEF Unbind, Closes, Of, Alive, ChannelsTypeOK, LaunchesPlaced, Target
<1>11. ASSUME NEW h \in Host, EraseDirectory(h)
       PROVE  LaunchesPlaced'
  BY <1>11 DEF EraseDirectory, Closes, Of, ChannelsTypeOK, LaunchesPlaced, Target, Alive
<1>12. ASSUME NEW h \in Host, CloseAttention(h)
       PROVE  LaunchesPlaced'
  BY <1>12 DEF CloseAttention, Closes, Alive, ChannelsTypeOK, LaunchesPlaced, Target
<1>13. ASSUME NEW h \in Host, Close(h)
       PROVE  LaunchesPlaced'
  <2> SUFFICES ASSUME NEW l \in Launch
               PROVE  /\ session'[l] \in {"open", "closing"} => closing'[by[l]] = "no"
                      /\ launch[l] = "idle" => session'[l] = "none"
                      /\ l \in bound => closing'[by[l]] \in {"no", "flushing"}
                      /\ session'[l] = "open" => session[l] = "open"
    BY <1>13 DEF Close, LaunchesPlaced, Target, Alive, ChannelsTypeOK
  <2>1. CASE by[l] = h
    <3>1. session'[l] = IF session[l] # "removed" THEN "over" ELSE session[l]
      BY <1>13, <2>1 DEF Close, Of
    <3>2. launch[l] # "idle"
      BY <2>1 DEF LaunchesPlaced
    <3> QED BY <1>13, <2>1, <3>1, <3>2 DEF Close, Closes, LaunchesPlaced, ChannelsTypeOK
  <2>2. CASE by[l] # h
    <3>1. session'[l] = session[l]
      BY <1>13, <2>2 DEF Close, Of, ChannelsTypeOK
    <3>2. by[l] \in Host => closing'[by[l]] = closing[by[l]]
      BY <1>13, <2>2 DEF Close, Closes, ChannelsTypeOK
    <3> QED BY <3>1, <3>2 DEF LaunchesPlaced, ChannelsTypeOK
  <2> QED BY <2>1, <2>2
<1>14. ASSUME NEW h \in Host, Die(h)
       PROVE  LaunchesPlaced'
  BY <1>14 DEF Die, Goes, Of, Alive, ChannelsTypeOK, LaunchesPlaced, Target
<1>15. ASSUME NEW l \in Launch, Admit(l)
       PROVE  LaunchesPlaced'
  BY <1>15 DEF Admit, Goes, Moves, Target, ChannelsTypeOK, LaunchesPlaced, Alive
<1>16. ASSUME NEW l \in Launch, MakeChannel(l)
       PROVE  LaunchesPlaced'
  BY <1>16 DEF MakeChannel, Moves, ChannelsTypeOK, LaunchesPlaced, Target, Alive
<1>17. ASSUME NEW l \in Launch, Connect(l)
       PROVE  LaunchesPlaced'
  BY <1>17 DEF Connect, Moves, Target, Removed, ChannelsTypeOK, LaunchesPlaced, Alive
<1>18. ASSUME NEW l \in Launch, Dispose(l)
       PROVE  LaunchesPlaced'
  BY <1>18 DEF Dispose, Disposes, ChannelsTypeOK, LaunchesPlaced, Target, Alive
<1>19. ASSUME NEW l \in Launch, Erase(l)
       PROVE  LaunchesPlaced'
  BY <1>19 DEF Erase, Moves, Removed, ChannelsTypeOK, LaunchesPlaced, Target, Alive
<1>20. ASSUME NEW l \in Launch, EndSession(l)
       PROVE  LaunchesPlaced'
  BY <1>20 DEF EndSession, ChannelsTypeOK, LaunchesPlaced, Target, Alive
<1>21. ASSUME NEW l \in Launch, NEW h \in Host, Prepare(l, h)
       PROVE  LaunchesPlaced'
  BY <1>21 DEF Prepare, Moves, ChannelsTypeOK, LaunchesPlaced, Target, Alive
<1>22. CASE UNCHANGED channelVars
  BY <1>22 DEF channelVars, ChannelsTypeOK, LaunchesPlaced, Target, Alive
<1> QED
  BY <1>1, <1>2, <1>3, <1>4, <1>5, <1>6, <1>7, <1>8, <1>9, <1>10, <1>11, <1>12,
     <1>13, <1>14, <1>15, <1>16, <1>17, <1>18, <1>19, <1>20, <1>21, <1>22
     DEF ChannelsNext, HostStep, LaunchStep

\* No step takes a channel from a window that uses it.
LEMMA StandStep ==
    ASSUME ChannelsTypeOK, OpenedUp, LaunchesPlaced, ChannelsStand, [ChannelsNext]_channelVars
    PROVE  ChannelsStand'
<1> USE ChannelAssumption DEF hosts, listing, launches, history
<1>1. ASSUME NEW h \in Host, Start(h)
       PROVE  ChannelsStand'
  BY <1>1 DEF Start, Goes, InUse, Alive, ChannelsTypeOK, OpenedUp, LaunchesPlaced, ChannelsStand
<1>2. ASSUME NEW h \in Host, Prune(h)
       PROVE  ChannelsStand'
  BY <1>2
     DEF Prune, Judged, Left, Orphaned, Unreadable, InUse, Alive, ChannelsTypeOK, OpenedUp,
         LaunchesPlaced, ChannelsStand
<1>3. ASSUME NEW h \in Host, Stage(h)
       PROVE  ChannelsStand'
  BY <1>3 DEF Stage, Goes, ChannelsTypeOK, OpenedUp, LaunchesPlaced, ChannelsStand, Alive
<1>4. ASSUME NEW h \in Host, Publish(h)
       PROVE  ChannelsStand'
  BY <1>4 DEF Publish, Goes, ChannelsTypeOK, OpenedUp, LaunchesPlaced, ChannelsStand, Alive
<1>5. ASSUME NEW h \in Host, OpenFails(h)
       PROVE  ChannelsStand'
  BY <1>5 DEF OpenFails, Goes, ChannelsTypeOK, OpenedUp, LaunchesPlaced, ChannelsStand, Alive
<1>6. ASSUME NEW h \in Host, Sweep(h)
       PROVE  ChannelsStand'
  BY <1>6
     DEF Sweep, Judged, Left, Orphaned, InUse, Alive, Of, ChannelsTypeOK, OpenedUp, LaunchesPlaced,
         ChannelsStand
<1>7. ASSUME NEW h \in Host, MakeDirectory(h)
       PROVE  ChannelsStand'
  BY <1>7 DEF MakeDirectory, Goes, ChannelsTypeOK, OpenedUp, LaunchesPlaced, ChannelsStand, Alive
<1>8. ASSUME NEW h \in Host, OwnDirectory(h)
       PROVE  ChannelsStand'
  BY <1>8 DEF OwnDirectory, Goes, ChannelsTypeOK, OpenedUp, LaunchesPlaced, ChannelsStand, Alive
<1>9. ASSUME NEW h \in Host, DirectoryFails(h)
       PROVE  ChannelsStand'
  BY <1>9 DEF DirectoryFails, Goes, ChannelsTypeOK, OpenedUp, LaunchesPlaced, ChannelsStand, Alive
<1>10. ASSUME NEW h \in Host, Unbind(h)
       PROVE  ChannelsStand'
  BY <1>10 DEF Unbind, Closes, Of, Alive, ChannelsTypeOK, OpenedUp, LaunchesPlaced, ChannelsStand
<1>11. ASSUME NEW h \in Host, EraseDirectory(h)
       PROVE  ChannelsStand'
  BY <1>11 DEF EraseDirectory, Closes, Of, ChannelsTypeOK, OpenedUp, LaunchesPlaced, ChannelsStand, Alive
<1>12. ASSUME NEW h \in Host, CloseAttention(h)
       PROVE  ChannelsStand'
  BY <1>12 DEF CloseAttention, Closes, Alive, ChannelsTypeOK, OpenedUp, LaunchesPlaced, ChannelsStand
<1>13. ASSUME NEW h \in Host, Close(h)
       PROVE  ChannelsStand'
  BY <1>13 DEF Close, Closes, Of, ChannelsTypeOK, OpenedUp, LaunchesPlaced, ChannelsStand, Alive
<1>14. ASSUME NEW h \in Host, Die(h)
       PROVE  ChannelsStand'
  BY <1>14 DEF Die, Goes, Of, Alive, ChannelsTypeOK, OpenedUp, LaunchesPlaced, ChannelsStand
<1>15. ASSUME NEW l \in Launch, Admit(l)
       PROVE  ChannelsStand'
  BY <1>15 DEF Admit, Goes, Moves, Target, ChannelsTypeOK, OpenedUp, LaunchesPlaced, ChannelsStand, Alive
<1>16. ASSUME NEW l \in Launch, MakeChannel(l)
       PROVE  ChannelsStand'
  BY <1>16 DEF MakeChannel, Moves, ChannelsTypeOK, OpenedUp, LaunchesPlaced, ChannelsStand, Alive
<1>17. ASSUME NEW l \in Launch, Connect(l)
       PROVE  ChannelsStand'
  BY <1>17
     DEF Connect, Moves, Target, Removed, ChannelsTypeOK, OpenedUp, LaunchesPlaced, ChannelsStand, Alive
<1>18. ASSUME NEW l \in Launch, Dispose(l)
       PROVE  ChannelsStand'
  BY <1>18 DEF Dispose, Disposes, ChannelsTypeOK, OpenedUp, LaunchesPlaced, ChannelsStand, Alive
<1>19. ASSUME NEW l \in Launch, Erase(l)
       PROVE  ChannelsStand'
  BY <1>19 DEF Erase, Moves, Removed, ChannelsTypeOK, OpenedUp, LaunchesPlaced, ChannelsStand, Alive
<1>20. ASSUME NEW l \in Launch, EndSession(l)
       PROVE  ChannelsStand'
  BY <1>20 DEF EndSession, ChannelsTypeOK, OpenedUp, LaunchesPlaced, ChannelsStand, Alive
<1>21. ASSUME NEW l \in Launch, NEW h \in Host, Prepare(l, h)
       PROVE  ChannelsStand'
  BY <1>21 DEF Prepare, Moves, ChannelsTypeOK, OpenedUp, LaunchesPlaced, ChannelsStand, Alive
<1>22. CASE UNCHANGED channelVars
  BY <1>22 DEF channelVars, ChannelsTypeOK, OpenedUp, LaunchesPlaced, ChannelsStand, Alive
<1> QED
  BY <1>1, <1>2, <1>3, <1>4, <1>5, <1>6, <1>7, <1>8, <1>9, <1>10, <1>11, <1>12,
     <1>13, <1>14, <1>15, <1>16, <1>17, <1>18, <1>19, <1>20, <1>21, <1>22
     DEF ChannelsNext, HostStep, LaunchStep

\* No step tells Claude of a channel that is not bound, or leaves one behind.
LEMMA BridgeStep ==
    ASSUME ChannelsTypeOK, LaunchesPlaced, BridgesFollow, [ChannelsNext]_channelVars
    PROVE  BridgesFollow'
<1> USE ChannelAssumption DEF hosts, listing, launches, history
<1>1. ASSUME NEW h \in Host, Start(h)
       PROVE  BridgesFollow'
  BY <1>1 DEF Start, Goes, InUse, Alive, ChannelsTypeOK, LaunchesPlaced, BridgesFollow, Target
<1>2. ASSUME NEW h \in Host, Prune(h)
       PROVE  BridgesFollow'
  BY <1>2
     DEF Prune, Judged, Left, Orphaned, Unreadable, InUse, Alive, ChannelsTypeOK, LaunchesPlaced,
         BridgesFollow, Target
<1>3. ASSUME NEW h \in Host, Stage(h)
       PROVE  BridgesFollow'
  BY <1>3 DEF Stage, Goes, ChannelsTypeOK, LaunchesPlaced, BridgesFollow, Target, Alive
<1>4. ASSUME NEW h \in Host, Publish(h)
       PROVE  BridgesFollow'
  BY <1>4 DEF Publish, Goes, ChannelsTypeOK, LaunchesPlaced, BridgesFollow, Target, Alive
<1>5. ASSUME NEW h \in Host, OpenFails(h)
       PROVE  BridgesFollow'
  BY <1>5 DEF OpenFails, Goes, ChannelsTypeOK, LaunchesPlaced, BridgesFollow, Target, Alive
<1>6. ASSUME NEW h \in Host, Sweep(h)
       PROVE  BridgesFollow'
  BY <1>6
     DEF Sweep, Judged, Left, Orphaned, InUse, Alive, Of, ChannelsTypeOK, LaunchesPlaced, BridgesFollow,
         Target
<1>7. ASSUME NEW h \in Host, MakeDirectory(h)
       PROVE  BridgesFollow'
  BY <1>7 DEF MakeDirectory, Goes, ChannelsTypeOK, LaunchesPlaced, BridgesFollow, Target, Alive
<1>8. ASSUME NEW h \in Host, OwnDirectory(h)
       PROVE  BridgesFollow'
  BY <1>8 DEF OwnDirectory, Goes, ChannelsTypeOK, LaunchesPlaced, BridgesFollow, Target, Alive
<1>9. ASSUME NEW h \in Host, DirectoryFails(h)
       PROVE  BridgesFollow'
  BY <1>9 DEF DirectoryFails, Goes, ChannelsTypeOK, LaunchesPlaced, BridgesFollow, Target, Alive
<1>10. ASSUME NEW h \in Host, Unbind(h)
       PROVE  BridgesFollow'
  BY <1>10 DEF Unbind, Closes, Of, Alive, ChannelsTypeOK, LaunchesPlaced, BridgesFollow, Target
<1>11. ASSUME NEW h \in Host, EraseDirectory(h)
       PROVE  BridgesFollow'
  <2>1. /\ launch' = launch /\ by' = by /\ session' = session /\ bound' = bound /\ step' = step
        /\ closing[h] = "erasing" /\ closing' = [closing EXCEPT ![h] = "erased"]
        /\ step[h] \in {"up", "ready"} /\ refused \subseteq refused' /\ dirs' \subseteq dirs
    BY <1>11 DEF EraseDirectory, Closes
  <2>2. \A l \in dirs' : by[l] = h => h \in refused'
    BY <1>11 DEF EraseDirectory, Of, LaunchesPlaced, ChannelsTypeOK
  <2>3. \A l \in bound : session[l] # "over" \/ closing'[by[l]] = "flushing"
    BY <2>1 DEF BridgesFollow, LaunchesPlaced, ChannelsTypeOK
  <2>4. ASSUME NEW l \in dirs', Alive(by[l])
        PROVE  \/ l \in bound \/ launch[l] \in {"connecting", "erasing"}
               \/ closing'[by[l]] = "erasing"
               \/ refused' \cap {l, by[l]} # {}
    <3>1. l \in dirs /\ l \in Launch
      BY <2>1 DEF ChannelsTypeOK
    <3>2. CASE by[l] = h
      BY <2>2, <3>2
    <3>3. CASE by[l] # h
      <4>1. by[l] \in Host
        BY <3>1 DEF LaunchesPlaced
      <4>2. closing'[by[l]] = closing[by[l]]
        BY <2>1, <3>3, <4>1 DEF ChannelsTypeOK
      <4> QED BY <2>1, <2>4, <3>1, <4>2 DEF BridgesFollow
    <3> QED BY <3>2, <3>3
  <2> QED BY <2>1, <2>3, <2>4 DEF BridgesFollow, Target, Alive
<1>12. ASSUME NEW h \in Host, CloseAttention(h)
       PROVE  BridgesFollow'
  BY <1>12 DEF CloseAttention, Closes, Alive, ChannelsTypeOK, LaunchesPlaced, BridgesFollow, Target
<1>13. ASSUME NEW h \in Host, Close(h)
       PROVE  BridgesFollow'
  BY <1>13 DEF Close, Closes, Of, ChannelsTypeOK, LaunchesPlaced, BridgesFollow, Target, Alive
<1>14. ASSUME NEW h \in Host, Die(h)
       PROVE  BridgesFollow'
  BY <1>14 DEF Die, Goes, Of, Alive, ChannelsTypeOK, LaunchesPlaced, BridgesFollow, Target
<1>15. ASSUME NEW l \in Launch, Admit(l)
       PROVE  BridgesFollow'
  BY <1>15 DEF Admit, Goes, Moves, Target, ChannelsTypeOK, LaunchesPlaced, BridgesFollow, Alive
<1>16. ASSUME NEW l \in Launch, MakeChannel(l)
       PROVE  BridgesFollow'
  BY <1>16 DEF MakeChannel, Moves, ChannelsTypeOK, LaunchesPlaced, BridgesFollow, Target, Alive
<1>17. ASSUME NEW l \in Launch, Connect(l)
       PROVE  BridgesFollow'
  <2>1. /\ launch[l] = "connecting" /\ by' = by /\ session' = session /\ step' = step
        /\ closing' = closing /\ refused \subseteq refused' /\ dirs' \subseteq dirs
        /\ bound \subseteq bound' /\ bound' \subseteq bound \cup {l}
        /\ \A k \in Launch : k # l => launch'[k] = launch[k]
    BY <1>17 DEF Connect, Moves, Removed, ChannelsTypeOK
  <2>2. \/ l \in bound' /\ Target(l)
        \/ launch'[l] = "plain" /\ (l \in dirs' => l \in refused') /\ bound' = bound
    BY <1>17 DEF Connect, Moves, Removed, ChannelsTypeOK
  <2>3. ASSUME NEW k \in Launch, launch'[k] = "bridged", Target(k)
        PROVE  k \in bound'
    BY <2>1, <2>2, <2>3 DEF BridgesFollow
  <2>4. ASSUME NEW k \in bound'
        PROVE  session[k] # "over" \/ closing[by[k]] = "flushing"
    BY <2>1, <2>2, <2>4 DEF BridgesFollow, Target, ChannelsTypeOK
  <2>5. ASSUME NEW k \in dirs', Alive(by[k])
        PROVE  \/ k \in bound' \/ launch'[k] \in {"connecting", "erasing"}
               \/ closing[by[k]] = "erasing"
               \/ refused' \cap {k, by[k]} # {}
    <3>1. CASE k = l
      BY <2>2, <2>5, <3>1
    <3>2. CASE k # l
      BY <2>1, <2>5, <3>2 DEF BridgesFollow, ChannelsTypeOK
    <3> QED BY <3>1, <3>2
  <2> QED BY <2>1, <2>3, <2>4, <2>5 DEF BridgesFollow, Target, Alive
<1>18. ASSUME NEW l \in Launch, Dispose(l)
       PROVE  BridgesFollow'
  BY <1>18 DEF Dispose, Disposes, ChannelsTypeOK, LaunchesPlaced, BridgesFollow, Target, Alive
<1>19. ASSUME NEW l \in Launch, Erase(l)
       PROVE  BridgesFollow'
  <2>1. /\ launch[l] = "erasing" /\ launch' = [launch EXCEPT ![l] = "over"] /\ by' = by
        /\ session' = session /\ bound' = bound /\ step' = step /\ closing' = closing
        /\ refused \subseteq refused' /\ dirs' \subseteq dirs
        /\ l \in dirs' => l \in refused'
    BY <1>19 DEF Erase, Moves, Removed, ChannelsTypeOK
  <2>2. \A k \in Launch : k # l => launch'[k] = launch[k]
    BY <2>1 DEF ChannelsTypeOK
  <2>3. ASSUME NEW k \in dirs', Alive(by[k])
        PROVE  \/ k \in bound \/ launch'[k] \in {"connecting", "erasing"}
               \/ closing[by[k]] = "erasing"
               \/ refused' \cap {k, by[k]} # {}
    BY <2>1, <2>2, <2>3 DEF BridgesFollow, ChannelsTypeOK
  <2>4. \A k \in Launch : launch'[k] = "bridged" => launch[k] = "bridged"
    BY <2>1 DEF ChannelsTypeOK
  <2> QED BY <2>1, <2>3, <2>4 DEF BridgesFollow, Target, Alive
<1>20. ASSUME NEW l \in Launch, EndSession(l)
       PROVE  BridgesFollow'
  BY <1>20 DEF EndSession, ChannelsTypeOK, LaunchesPlaced, BridgesFollow, Target, Alive
<1>21. ASSUME NEW l \in Launch, NEW h \in Host, Prepare(l, h)
       PROVE  BridgesFollow'
  BY <1>21 DEF Prepare, Moves, ChannelsTypeOK, LaunchesPlaced, BridgesFollow, Target, Alive
<1>22. CASE UNCHANGED channelVars
  BY <1>22 DEF channelVars, ChannelsTypeOK, LaunchesPlaced, BridgesFollow, Target, Alive
<1> QED
  BY <1>1, <1>2, <1>3, <1>4, <1>5, <1>6, <1>7, <1>8, <1>9, <1>10, <1>11, <1>12,
     <1>13, <1>14, <1>15, <1>16, <1>17, <1>18, <1>19, <1>20, <1>21, <1>22
     DEF ChannelsNext, HostStep, LaunchStep

\* What is listed stays listed until it is judged.
LEMMA SweptStep ==
    ASSUME ChannelsTypeOK, Listed, LeftoversSwept, [ChannelsNext]_channelVars
    PROVE  Listed' /\ LeftoversSwept'
<1> USE ChannelAssumption DEF hosts, listing, launches, history
<1>1. ASSUME NEW h \in Host, Start(h)
       PROVE  Listed' /\ LeftoversSwept'
  BY <1>1 DEF Start, Goes, InUse, Alive, ChannelsTypeOK, Listed, LeftoversSwept
<1>2. ASSUME NEW h \in Host, Prune(h)
       PROVE  Listed' /\ LeftoversSwept'
  <2>1. PICK entry \in found[h] :
           /\ step[h] = "pruning" /\ step' = step /\ composer' = composer
           /\ found' = [found EXCEPT ![h] = @ \ {entry}]
           /\ \/ owed' = [owed EXCEPT ![h] = @ \ {entry.of}] /\ attention' = attention
              \/ /\ owed' = owed
                 /\ attention' = IF attention[entry.of] = entry.name
                                 THEN [attention EXCEPT ![entry.of] = "none"] ELSE attention
    BY <1>2 DEF Prune, Judged, Left
  <2> SUFFICES ASSUME NEW k \in Host, NEW v \in owed'[k]
               PROVE  /\ step[v] = "gone"
                      /\ step[k] = "pruning" /\ attention'[v] # "none" =>
                            [of |-> v, name |-> attention'[v]] \in found'[k]
                      /\ step[k] = "sweeping" /\ composer[v] = "owned" =>
                            [of |-> v, name |-> "open"] \in found'[k]
                      /\ step[k] = "staging" => attention'[v] = "none"
                      /\ step[k] \in {"making", "ready"} => composer[v] # "owned"
    BY <2>1 DEF Listed, LeftoversSwept
  <2>2. v \in owed[k] /\ v \in Host
    BY <2>1 DEF ChannelsTypeOK
  <2>3. /\ step[v] = "gone"
        /\ step[k] = "pruning" /\ attention[v] # "none" => [of |-> v, name |-> attention[v]] \in found[k]
        /\ step[k] = "sweeping" /\ composer[v] = "owned" => [of |-> v, name |-> "open"] \in found[k]
        /\ step[k] = "staging" => attention[v] = "none"
        /\ step[k] \in {"making", "ready"} => composer[v] # "owned"
    BY <2>2 DEF Listed, LeftoversSwept
  <2>4. attention'[v] \in {attention[v], "none"} /\ entry.of \in Host
    BY <2>1, <2>2 DEF ChannelsTypeOK, Entries
  <2>5. CASE k = h
    <3>1. attention'[v] # "none" => entry # [of |-> v, name |-> attention[v]]
      <4> SUFFICES ASSUME entry = [of |-> v, name |-> attention[v]], attention'[v] # "none"
                   PROVE  FALSE
        OBVIOUS
      <4>1. entry.of = v /\ entry.name = attention[v]
        OBVIOUS
      <4> QED BY <2>1, <2>2, <2>5, <4>1 DEF ChannelsTypeOK
    <3> QED BY <2>1, <2>3, <2>4, <2>5, <3>1 DEF ChannelsTypeOK
  <2>6. CASE k # h
    <3>1. found'[k] = found[k]
      BY <2>1, <2>6 DEF ChannelsTypeOK
    <3> QED BY <2>3, <2>4, <3>1
  <2> QED BY <2>5, <2>6
<1>3. ASSUME NEW h \in Host, Stage(h)
       PROVE  Listed' /\ LeftoversSwept'
  <2>1. /\ step[h] = "pruning" /\ found[h] = {} /\ step' = [step EXCEPT ![h] = "staging"]
        /\ attention' = [attention EXCEPT ![h] = "creating"]
        /\ UNCHANGED <<found, owed, composer>>
    BY <1>3 DEF Stage, Goes, ChannelsTypeOK
  <2> SUFFICES ASSUME NEW k \in Host, NEW v \in owed'[k]
               PROVE  /\ step'[v] = "gone"
                      /\ step'[k] = "pruning" /\ attention'[v] # "none" =>
                            [of |-> v, name |-> attention'[v]] \in found'[k]
                      /\ step'[k] = "sweeping" /\ composer'[v] = "owned" =>
                            [of |-> v, name |-> "open"] \in found'[k]
                      /\ step'[k] = "staging" => attention'[v] = "none"
                      /\ step'[k] \in {"making", "ready"} => composer'[v] # "owned"
    BY DEF Listed, LeftoversSwept
  <2>2. v \in owed[k] /\ v \in Host /\ step[v] = "gone" /\ v # h
    BY <2>1 DEF Listed, ChannelsTypeOK
  <2>3. /\ step[k] = "pruning" /\ attention[v] # "none" => [of |-> v, name |-> attention[v]] \in found[k]
        /\ step[k] = "sweeping" /\ composer[v] = "owned" => [of |-> v, name |-> "open"] \in found[k]
        /\ step[k] = "staging" => attention[v] = "none"
        /\ step[k] \in {"making", "ready"} => composer[v] # "owned"
    BY <2>2 DEF Listed, LeftoversSwept
  <2> QED BY <2>1, <2>2, <2>3 DEF ChannelsTypeOK
<1>4. ASSUME NEW h \in Host, Publish(h)
       PROVE  Listed' /\ LeftoversSwept'
  <2>1. /\ step[h] = "staging" /\ step' = [step EXCEPT ![h] = "up"]
        /\ attention' = [attention EXCEPT ![h] = "open"]
        /\ UNCHANGED <<found, owed, composer>>
    BY <1>4 DEF Publish, Goes, ChannelsTypeOK
  <2> SUFFICES ASSUME NEW k \in Host, NEW v \in owed'[k]
               PROVE  /\ step'[v] = "gone"
                      /\ step'[k] = "pruning" /\ attention'[v] # "none" =>
                            [of |-> v, name |-> attention'[v]] \in found'[k]
                      /\ step'[k] = "sweeping" /\ composer'[v] = "owned" =>
                            [of |-> v, name |-> "open"] \in found'[k]
                      /\ step'[k] = "staging" => attention'[v] = "none"
                      /\ step'[k] \in {"making", "ready"} => composer'[v] # "owned"
    BY DEF Listed, LeftoversSwept
  <2>2. v \in owed[k] /\ v \in Host /\ step[v] = "gone" /\ v # h
    BY <2>1 DEF Listed, ChannelsTypeOK
  <2>3. /\ step[k] = "pruning" /\ attention[v] # "none" => [of |-> v, name |-> attention[v]] \in found[k]
        /\ step[k] = "sweeping" /\ composer[v] = "owned" => [of |-> v, name |-> "open"] \in found[k]
        /\ step[k] = "staging" => attention[v] = "none"
        /\ step[k] \in {"making", "ready"} => composer[v] # "owned"
    BY <2>2 DEF Listed, LeftoversSwept
  <2> QED BY <2>1, <2>2, <2>3 DEF ChannelsTypeOK
<1>5. ASSUME NEW h \in Host, OpenFails(h)
       PROVE  Listed' /\ LeftoversSwept'
  <2>1. /\ step[h] \in {"pruning", "staging"} /\ step' = [step EXCEPT ![h] = "up"]
        /\ attention' \in {attention, [attention EXCEPT ![h] = "none"]}
        /\ found' = [found EXCEPT ![h] = {}] /\ owed' = [owed EXCEPT ![h] = {}]
        /\ composer' = composer
    BY <1>5 DEF OpenFails, Goes, ChannelsTypeOK
  <2> SUFFICES ASSUME NEW k \in Host, NEW v \in owed'[k]
               PROVE  /\ step'[v] = "gone"
                      /\ step'[k] = "pruning" /\ attention'[v] # "none" =>
                            [of |-> v, name |-> attention'[v]] \in found'[k]
                      /\ step'[k] = "sweeping" /\ composer'[v] = "owned" =>
                            [of |-> v, name |-> "open"] \in found'[k]
                      /\ step'[k] = "staging" => attention'[v] = "none"
                      /\ step'[k] \in {"making", "ready"} => composer'[v] # "owned"
    BY DEF Listed, LeftoversSwept
  <2>2. v \in owed[k] /\ v \in Host /\ step[v] = "gone" /\ v # h
    <3>1. k # h /\ owed'[k] = owed[k]
      BY <2>1 DEF ChannelsTypeOK
    <3> QED BY <2>1, <3>1 DEF Listed, ChannelsTypeOK
  <2>3. /\ step[k] = "pruning" /\ attention[v] # "none" => [of |-> v, name |-> attention[v]] \in found[k]
        /\ step[k] = "sweeping" /\ composer[v] = "owned" => [of |-> v, name |-> "open"] \in found[k]
        /\ step[k] = "staging" => attention[v] = "none"
        /\ step[k] \in {"making", "ready"} => composer[v] # "owned"
    BY <2>2 DEF Listed, LeftoversSwept
  <2> QED BY <2>1, <2>2, <2>3 DEF ChannelsTypeOK
<1>6. ASSUME NEW h \in Host, Sweep(h)
       PROVE  Listed' /\ LeftoversSwept'
  BY <1>6 DEF Sweep, Judged, Left, Orphaned, InUse, Alive, Of, ChannelsTypeOK, Listed, LeftoversSwept
<1>7. ASSUME NEW h \in Host, MakeDirectory(h)
       PROVE  Listed' /\ LeftoversSwept'
  <2>1. /\ step[h] = "sweeping" /\ found[h] = {} /\ step' = [step EXCEPT ![h] = "making"]
        /\ composer' = [composer EXCEPT ![h] = "bare"]
        /\ UNCHANGED <<found, owed, attention>>
    BY <1>7 DEF MakeDirectory, Goes, ChannelsTypeOK
  <2> SUFFICES ASSUME NEW k \in Host, NEW v \in owed'[k]
               PROVE  /\ step'[v] = "gone"
                      /\ step'[k] = "pruning" /\ attention'[v] # "none" =>
                            [of |-> v, name |-> attention'[v]] \in found'[k]
                      /\ step'[k] = "sweeping" /\ composer'[v] = "owned" =>
                            [of |-> v, name |-> "open"] \in found'[k]
                      /\ step'[k] = "staging" => attention'[v] = "none"
                      /\ step'[k] \in {"making", "ready"} => composer'[v] # "owned"
    BY DEF Listed, LeftoversSwept
  <2>2. v \in owed[k] /\ v \in Host /\ step[v] = "gone" /\ v # h
    BY <2>1 DEF Listed, ChannelsTypeOK
  <2>3. /\ step[k] = "pruning" /\ attention[v] # "none" => [of |-> v, name |-> attention[v]] \in found[k]
        /\ step[k] = "sweeping" /\ composer[v] = "owned" => [of |-> v, name |-> "open"] \in found[k]
        /\ step[k] = "staging" => attention[v] = "none"
        /\ step[k] \in {"making", "ready"} => composer[v] # "owned"
    BY <2>2 DEF Listed, LeftoversSwept
  <2> QED BY <2>1, <2>2, <2>3 DEF ChannelsTypeOK
<1>8. ASSUME NEW h \in Host, OwnDirectory(h)
       PROVE  Listed' /\ LeftoversSwept'
  <2>1. /\ step[h] = "making" /\ step' = [step EXCEPT ![h] = "ready"]
        /\ composer' = [composer EXCEPT ![h] = "owned"]
        /\ UNCHANGED <<found, owed, attention>>
    BY <1>8 DEF OwnDirectory, Goes, ChannelsTypeOK
  <2> SUFFICES ASSUME NEW k \in Host, NEW v \in owed'[k]
               PROVE  /\ step'[v] = "gone"
                      /\ step'[k] = "pruning" /\ attention'[v] # "none" =>
                            [of |-> v, name |-> attention'[v]] \in found'[k]
                      /\ step'[k] = "sweeping" /\ composer'[v] = "owned" =>
                            [of |-> v, name |-> "open"] \in found'[k]
                      /\ step'[k] = "staging" => attention'[v] = "none"
                      /\ step'[k] \in {"making", "ready"} => composer'[v] # "owned"
    BY DEF Listed, LeftoversSwept
  <2>2. v \in owed[k] /\ v \in Host /\ step[v] = "gone" /\ v # h
    BY <2>1 DEF Listed, ChannelsTypeOK
  <2>3. /\ step[k] = "pruning" /\ attention[v] # "none" => [of |-> v, name |-> attention[v]] \in found[k]
        /\ step[k] = "sweeping" /\ composer[v] = "owned" => [of |-> v, name |-> "open"] \in found[k]
        /\ step[k] = "staging" => attention[v] = "none"
        /\ step[k] \in {"making", "ready"} => composer[v] # "owned"
    BY <2>2 DEF Listed, LeftoversSwept
  <2> QED BY <2>1, <2>2, <2>3 DEF ChannelsTypeOK
<1>9. ASSUME NEW h \in Host, DirectoryFails(h)
       PROVE  Listed' /\ LeftoversSwept'
  BY <1>9 DEF DirectoryFails, Goes, ChannelsTypeOK, Listed, LeftoversSwept
<1>10. ASSUME NEW h \in Host, Unbind(h)
       PROVE  Listed' /\ LeftoversSwept'
  BY <1>10 DEF Unbind, Closes, Of, Alive, ChannelsTypeOK, Listed, LeftoversSwept
<1>11. ASSUME NEW h \in Host, EraseDirectory(h)
       PROVE  Listed' /\ LeftoversSwept'
  BY <1>11 DEF EraseDirectory, Closes, Of, ChannelsTypeOK, Listed, LeftoversSwept
<1>12. ASSUME NEW h \in Host, CloseAttention(h)
       PROVE  Listed' /\ LeftoversSwept'
  <2>1. /\ Alive(h) /\ step' = step
        /\ attention' \in {attention, [attention EXCEPT ![h] = "none"]}
        /\ UNCHANGED <<found, owed, composer>>
    BY <1>12 DEF CloseAttention, ChannelsTypeOK
  <2> SUFFICES ASSUME NEW k \in Host, NEW v \in owed'[k]
               PROVE  /\ step'[v] = "gone"
                      /\ step'[k] = "pruning" /\ attention'[v] # "none" =>
                            [of |-> v, name |-> attention'[v]] \in found'[k]
                      /\ step'[k] = "sweeping" /\ composer'[v] = "owned" =>
                            [of |-> v, name |-> "open"] \in found'[k]
                      /\ step'[k] = "staging" => attention'[v] = "none"
                      /\ step'[k] \in {"making", "ready"} => composer'[v] # "owned"
    BY DEF Listed, LeftoversSwept
  <2>2. v \in owed[k] /\ v \in Host /\ step[v] = "gone" /\ v # h
    BY <2>1, ZenonT(60) DEF Listed, Alive, ChannelsTypeOK
  <2>3. /\ step[k] = "pruning" /\ attention[v] # "none" => [of |-> v, name |-> attention[v]] \in found[k]
        /\ step[k] = "sweeping" /\ composer[v] = "owned" => [of |-> v, name |-> "open"] \in found[k]
        /\ step[k] = "staging" => attention[v] = "none"
        /\ step[k] \in {"making", "ready"} => composer[v] # "owned"
    BY <2>2 DEF Listed, LeftoversSwept
  <2> QED BY <2>1, <2>2, <2>3 DEF ChannelsTypeOK
<1>13. ASSUME NEW h \in Host, Close(h)
       PROVE  Listed' /\ LeftoversSwept'
  BY <1>13 DEF Close, Closes, Of, ChannelsTypeOK, Listed, LeftoversSwept
<1>14. ASSUME NEW h \in Host, Die(h)
       PROVE  Listed' /\ LeftoversSwept'
  BY <1>14 DEF Die, Goes, Of, Alive, ChannelsTypeOK, Listed, LeftoversSwept
<1>15. ASSUME NEW l \in Launch, Admit(l)
       PROVE  Listed' /\ LeftoversSwept'
  BY <1>15 DEF Admit, Goes, Moves, Target, ChannelsTypeOK, Listed, LeftoversSwept
<1>16. ASSUME NEW l \in Launch, MakeChannel(l)
       PROVE  Listed' /\ LeftoversSwept'
  BY <1>16 DEF MakeChannel, Moves, ChannelsTypeOK, Listed, LeftoversSwept
<1>17. ASSUME NEW l \in Launch, Connect(l)
       PROVE  Listed' /\ LeftoversSwept'
  BY <1>17 DEF Connect, Moves, Target, Removed, ChannelsTypeOK, Listed, LeftoversSwept
<1>18. ASSUME NEW l \in Launch, Dispose(l)
       PROVE  Listed' /\ LeftoversSwept'
  BY <1>18 DEF Dispose, Disposes, ChannelsTypeOK, Listed, LeftoversSwept
<1>19. ASSUME NEW l \in Launch, Erase(l)
       PROVE  Listed' /\ LeftoversSwept'
  BY <1>19 DEF Erase, Moves, Removed, ChannelsTypeOK, Listed, LeftoversSwept
<1>20. ASSUME NEW l \in Launch, EndSession(l)
       PROVE  Listed' /\ LeftoversSwept'
  BY <1>20 DEF EndSession, ChannelsTypeOK, Listed, LeftoversSwept
<1>21. ASSUME NEW l \in Launch, NEW h \in Host, Prepare(l, h)
       PROVE  Listed' /\ LeftoversSwept'
  BY <1>21 DEF Prepare, Moves, ChannelsTypeOK, Listed, LeftoversSwept
<1>22. CASE UNCHANGED channelVars
  BY <1>22 DEF channelVars, ChannelsTypeOK, Listed, LeftoversSwept
<1> QED
  BY <1>1, <1>2, <1>3, <1>4, <1>5, <1>6, <1>7, <1>8, <1>9, <1>10, <1>11, <1>12,
     <1>13, <1>14, <1>15, <1>16, <1>17, <1>18, <1>19, <1>20, <1>21, <1>22
     DEF ChannelsNext, HostStep, LaunchStep

----------------------------------------------------------------------------
(* The theorems *)

\* The first window finds what earlier hosts have left, and nothing else.
LEMMA InitIInv == ChannelsInit => ChannelsInv
<1> SUFFICES ASSUME ChannelsInit PROVE ChannelsInv
  OBVIOUS
<1> USE ChannelAssumption DEF ChannelsInit
<1>1. \A h \in Host : ~Alive(h)
  BY DEF Alive
<1>2. ChannelsTypeOK
  <2>1. (CHOOSE p \in Pid : TRUE) \in Pid
    OBVIOUS
  <2>2. pid \in [Host -> Pid \cup {Nil}]
    BY <2>1
  <2>3. step \in [Host -> {"off", "pruning", "staging", "up", "sweeping", "making", "ready", "gone"}]
    OBVIOUS
  <2>4. \A h \in Host : step[h] \in {"off", "gone"} /\ found[h] = {}
    OBVIOUS
  <2> QED BY <2>2, <2>3, <2>4 DEF ChannelsTypeOK
<1>3. OpenedUp /\ LaunchesPlaced /\ Listed
  BY DEF OpenedUp, LaunchesPlaced, Listed, Target, Alive
<1>4. ChannelsStand /\ BridgesFollow /\ LeftoversSwept
  BY <1>1 DEF ChannelsStand, BridgesFollow, LeftoversSwept, Target
<1> QED BY <1>2, <1>3, <1>4 DEF ChannelsInv

\* The invariant holds in every reachable state.
THEOREM ChannelsInvariance == ChannelsSpec => []ChannelsInv
<1>1. ChannelsInv /\ [ChannelsNext]_channelVars => ChannelsInv'
  BY TypeStep, OpenedStep, PlacedStep, StandStep, BridgeStep, SweptStep DEF ChannelsInv
<1> QED BY InitIInv, <1>1, PTL DEF ChannelsSpec

\* Type correctness of the channels, for any hosts, process ids and launches.
THEOREM ChannelsTyped == ChannelsSpec => []ChannelsTypeOK
<1>1. ChannelsInv => ChannelsTypeOK
  BY DEF ChannelsInv
<1> QED BY <1>1, ChannelsInvariance, PTL

\* No window takes the channel of another for a leftover, and a binding has its
\* directory (removeOrphanedChannels, pruneDeadComposerChannels).
THEOREM ChannelsSafe == ChannelsSpec => []ChannelsStand
<1>1. ChannelsInv => ChannelsStand
  BY DEF ChannelsInv
<1> QED BY <1>1, ChannelsInvariance, PTL

\* Claude is told of no channel that is not bound, and neither binding nor
\* directory outlasts its session (prepareLaunch, ComposerController.close).
THEOREM BridgesEndWithSessions == ChannelsSpec => []BridgesFollow
<1>1. ChannelsInv => BridgesFollow
  BY DEF ChannelsInv
<1> QED BY <1>1, ChannelsInvariance, PTL

\* What hosts that were gone have left is gone when a window has pruned and
\* swept, but for what it could not remove.
THEOREM LeftoversGo == ChannelsSpec => []LeftoversSwept
<1>1. ChannelsInv => LeftoversSwept
  BY DEF ChannelsInv
<1> QED BY <1>1, ChannelsInvariance, PTL

----------------------------------------------------------------------------
(* AttentionNotifications: the inductive invariant *)

\* A slot has a helper, or will have one.
Covered(a, k) == a.retries[k] \/ a.slots[k] # None

\* The helper of a slot stays; whoever stays has the slot or is about to be
\* retired; whoever was replaced is known to one helper at most, which has it to
\* fall back on.
Slots(a) ==
    /\ \A k \in Slot : LET w == a.slots[k] IN
         w # None => Kept(a, w) /\ a.workers[w].slot = k /\ ~a.workers[w].retiring
    /\ \A w \in Helper : Kept(a, w) => a.slots[a.workers[w].slot] = w \/ a.workers[w].retiring

Priors(a) ==
    /\ \A w \in Helper : Kept(a, w) => LET p == a.workers[w].previous IN
         p # None => Kept(a, p) /\ a.workers[p].retiring /\ a.workers[p].slot = a.workers[w].slot
    /\ \A v, w \in Helper :
         /\ Kept(a, v) /\ Kept(a, w) /\ a.workers[v].previous # None
         /\ a.workers[v].previous = a.workers[w].previous
         => v = w

\* An activator that does not work has no helper to keep and no timer.
Resting(a) ==
    /\ ~a.active => /\ ~a.renewing
                    /\ \A k \in Slot : ~Covered(a, k)
                    /\ \A w \in Helper : ~Kept(a, w)
    /\ a.disposed => ~a.active

Sound(a) == a \in Activators /\ Slots(a) /\ Priors(a) /\ Resting(a)

\* One that works will renew its helpers, and has both or will have.
Works(a) == a.active => a.renewing /\ \A k \in Slot : Covered(a, k)

\* What there is before the window serves, and after.
Phased ==
    /\ phase # "ready" \/ mode # "selectable" => registry = {}
    /\ phase \in {"waiting", "installing"} => mode = "silent"
    /\ phase \notin {"ready", "disposed"} => \A t \in Toast : toasts[t].shown = "unraised"
    /\ phase = "disposed" <=> activator.disposed

Installed ==
    /\ phase = "waiting" => installer.child = "none" /\ ~installer.staged
    /\ installer.child = "running" /\ ~installer.settled => phase = "installing"
    /\ installer.settled /\ installer.child # "running" /\ installer.staged => installer.refused

\* What is answered was raised, and toasts are raised in order; what was answered for good is gone.
Raised ==
    /\ \A t \in Toast : /\ toasts[t].shown = "unraised" <=> toasts[t].of = None
                        /\ toasts[t].of # None => sessions[toasts[t].of] # "none"
    /\ \A t, u \in Toast : u < t /\ toasts[u].shown = "unraised" => toasts[t].shown = "unraised"
    /\ \A t \in registry \cup clicked : toasts[t].shown # "unraised"
    /\ \A c \in callbacks : IF c.action = "timedout" THEN toasts[c.toast].shown # "unraised"
                            ELSE toasts[c.toast].shown = "gone"
    /\ clicked \cap registry = {}

\* What a toast that is seen has to show for it.
Newer(t) == {u \in Toast : u > t /\ toasts[u].of # None}
Selectable ==
    Serving /\ mode = "selectable" =>
        \A t \in Toast : toasts[t].shown = "shown" /\ sessions[toasts[t].of] = "live" =>
            t \in registry \/ Cardinality(Newer(t)) >= MaxRegistrations

IInv ==
    /\ TypeOK /\ Sound(activator) /\ Works(activator) /\ (Pending => activator.active)
    /\ Phased /\ Installed /\ Raised /\ Selectable

----------------------------------------------------------------------------
(* What the functions of the activator do to it *)

\* Who is kept has a worker's record.
LEMMA KeptWorker ==
    ASSUME NEW a \in Activators, NEW w \in Helper
    PROVE  /\ Kept(a, w) <=> a.workers[w] \in Staying
           /\ Kept(a, w) => /\ a.workers[w].slot \in Slot
                            /\ a.workers[w].previous \in Helper \cup {None}
                            /\ a.workers[w].retiring \in BOOLEAN
BY WorkerAssumption DEF Kept, Activators, Workers, Staying

\* An activator that is stopped rests; what was disposed stays so.
LEMMA StoppedSound ==
    ASSUME NEW a \in Activators
    PROVE  /\ Sound(Stopped(a)) /\ Works(Stopped(a))
           /\ ~Stopped(a).active /\ Stopped(a).disposed = a.disposed
<1> DEFINE b == Stopped(a)
<1>1. /\ b.active = FALSE /\ b.disposed = a.disposed /\ b.renewing = FALSE /\ b.next = a.next
      /\ b.slots = [k \in Slot |-> None] /\ b.retries = [k \in Slot |-> FALSE]
      /\ b.workers = [w \in Helper |-> StoppedWorker(a.workers[w])]
  BY DEF Stopped, Activators
<1>2. \A w \in Helper : StoppedWorker(a.workers[w]) \in {None, Stopping}
  BY DEF StoppedWorker
<1>3. b \in Activators
  BY <1>2 DEF Stopped, Activators, Workers
<1> HIDE DEF b
<1>4. \A w \in Helper : ~Kept(b, w)
  BY <1>1, <1>2 DEF Kept
<1>5. \A k \in Slot : ~Covered(b, k) /\ b.slots[k] = None
  BY <1>1 DEF Covered
<1>6. Sound(b) /\ Works(b)
  BY <1>1, <1>3, <1>4, <1>5 DEF Sound, Works, Slots, Priors, Resting
<1> QED
  BY <1>1, <1>6 DEF b

\* Disposing of one that is stopped keeps it stopped.
LEMMA DisposedSound ==
    ASSUME NEW a \in Activators
    PROVE  LET b == [Stopped(a) EXCEPT !.disposed = TRUE]
           IN  Sound(b) /\ Works(b) /\ ~b.active /\ b.disposed
<1> DEFINE c == Stopped(a)
           b == [c EXCEPT !.disposed = TRUE]
<1>1. Sound(c) /\ ~c.active
  BY StoppedSound
<1> HIDE DEF c
<1>2. /\ b \in Activators /\ b.disposed = TRUE /\ b.active = c.active /\ b.renewing = c.renewing
      /\ b.slots = c.slots /\ b.retries = c.retries /\ b.workers = c.workers
  BY <1>1 DEF Sound, Activators
<1> HIDE DEF b
<1>3. Sound(b) /\ Works(b)
  BY <1>1, <1>2 DEF Sound, Works, Slots, Priors, Resting, Covered, Kept
<1> QED
  BY <1>1, <1>2, <1>3 DEF b, c

\* A retry covers its slot and changes nothing else.
LEMMA RetriedSound ==
    ASSUME NEW a, Sound(a), a.active, NEW k \in Slot
    PROVE  LET b == Retried(a, k)
           IN  /\ Sound(b) /\ b.active /\ b.disposed = a.disposed /\ b.renewing = a.renewing
               /\ Covered(b, k) /\ \A j \in Slot : Covered(a, j) => Covered(b, j)
<1> DEFINE b == Retried(a, k)
<1>1. /\ b \in Activators /\ b.disposed = a.disposed /\ b.active = a.active /\ b.renewing = a.renewing
      /\ b.slots = a.slots /\ b.workers = a.workers /\ b.retries = [a.retries EXCEPT ![k] = TRUE]
  BY DEF Retried, Sound, Activators
<1> HIDE DEF b
<1>2. Covered(b, k) /\ \A j \in Slot : Covered(a, j) => Covered(b, j)
  BY <1>1 DEF Covered, Sound, Activators
<1>3. Sound(b)
  BY <1>1 DEF Sound, Slots, Priors, Resting, Kept
<1> QED
  BY <1>1, <1>2, <1>3 DEF b

\* A launch gives the slot a helper, which has the one it replaces to fall back on.
LEMMA ReplacedSound ==
    ASSUME NEW a, Sound(a), a.active, NEW k \in Slot, Free(a) # {}
    PROVE  LET b == Replaced(a, k)
           IN  /\ Sound(b) /\ b.active /\ b.disposed = a.disposed /\ b.renewing = a.renewing
               /\ Covered(b, k) /\ \A j \in Slot : Covered(a, j) => Covered(b, j)
<1> USE NoneAssumption, WorkerAssumption
<1> DEFINE b == Replaced(a, k)
           w == CHOOSE v \in Free(a) : TRUE
           p == a.slots[k]
           x == Worker(k, p)
           retired == IF p = None THEN a.workers ELSE [a.workers EXCEPT ![p].retiring = TRUE]
<1>1. w \in Helper /\ a.workers[w] = None /\ ~Kept(a, w)
  BY DEF Free, Kept
<1>2. a \in Activators /\ Slots(a) /\ Priors(a) /\ Resting(a)
  BY DEF Sound
<1>3. p \in Helper \cup {None} /\ (p # None => Kept(a, p) /\ a.workers[p].slot = k /\ ~a.workers[p].retiring)
  BY <1>2 DEF Slots, Activators
<1>4. p # w
  BY <1>1, <1>3
<1>5. /\ b.active = a.active /\ b.disposed = a.disposed /\ b.renewing = a.renewing /\ b.next = a.next
      /\ b.retries = a.retries /\ b.slots = [a.slots EXCEPT ![k] = w]
      /\ b.workers = [retired EXCEPT ![w] = x]
      /\ b = [a EXCEPT !.slots = b.slots, !.workers = b.workers]
  BY <1>2 DEF Replaced, Activators
<1>6. x \in Staying /\ x.slot = k /\ x.previous = p /\ x.retiring = FALSE
  BY <1>3 DEF Worker, Staying
<1> HIDE DEF b, w, p, x
<1>7. /\ retired \in [Helper -> Workers \cup {None}]
      /\ \A v \in Helper : v # p => retired[v] = a.workers[v]
      /\ p # None => retired[p] = [a.workers[p] EXCEPT !.retiring = TRUE]
  <2>1. CASE p = None
    BY <1>2, <2>1 DEF Activators
  <2>2. CASE p # None
    <3>1. a.workers[p] \in Staying /\ p \in Helper
      BY <1>2, <1>3, <2>2, KeptWorker
    <3>2. [a.workers[p] EXCEPT !.retiring = TRUE] \in Workers
      BY <3>1 DEF Staying, Workers
    <3> QED
      BY <1>2, <2>2, <3>1, <3>2 DEF Activators
  <2> QED
    BY <2>1, <2>2
<1> HIDE DEF retired
<1>8. /\ b.workers \in [Helper -> Workers \cup {None}] /\ b.workers[w] = x
      /\ \A v \in Helper \ {w, p} : b.workers[v] = a.workers[v]
      /\ p # None => b.workers[p] = [a.workers[p] EXCEPT !.retiring = TRUE]
  BY <1>1, <1>3, <1>4, <1>5, <1>6, <1>7 DEF Workers
<1>9. /\ b.slots \in [Slot -> Helper \cup {None}] /\ b.slots[k] = w
      /\ \A j \in Slot : j # k => b.slots[j] = a.slots[j]
  BY <1>1, <1>2, <1>5 DEF Activators
<1>10. b \in Activators
  BY <1>2, <1>5, <1>8, <1>9 DEF Activators
<1>11. /\ Kept(b, w) /\ \A v \in Helper \ {w} : Kept(b, v) <=> Kept(a, v)
       /\ p # None => /\ Kept(b, p) /\ b.workers[p].slot = k /\ b.workers[p].retiring = TRUE
                      /\ b.workers[p].previous = a.workers[p].previous
  <2>1. p # None => a.workers[p] \in Staying /\ p \in Helper
    BY <1>2, <1>3, KeptWorker
  <2>2. p # None => [a.workers[p] EXCEPT !.retiring = TRUE] \in Staying
    BY <2>1 DEF Staying
  <2>3. p # None => /\ b.workers[p].slot = k /\ b.workers[p].retiring = TRUE
                    /\ b.workers[p].previous = a.workers[p].previous
    BY <1>3, <1>8, <2>1 DEF Staying
  <2>4. p # None => Kept(b, p) /\ Kept(a, p)
    BY <1>3, <1>8, <2>2 DEF Kept
  <2> QED
    BY <1>6, <1>8, <2>3, <2>4 DEF Kept
<1>12. \A v \in Helper \ {w} : Kept(a, v) =>
         /\ a.workers[v].previous = b.workers[v].previous /\ a.workers[v].slot = b.workers[v].slot
         /\ a.workers[v].retiring => b.workers[v].retiring
         /\ v # p => b.workers[v].retiring = a.workers[v].retiring
  BY <1>3, <1>8, <1>11
<1>13. Slots(b)
  <2>1. ASSUME NEW j \in Slot, b.slots[j] # None
        PROVE  Kept(b, b.slots[j]) /\ b.workers[b.slots[j]].slot = j /\ ~b.workers[b.slots[j]].retiring
    <3>1. CASE j = k
      BY <3>1, <1>6, <1>8, <1>9, <1>11
    <3>2. CASE j # k
      <4>1. b.slots[j] = a.slots[j] /\ a.slots[j] \in Helper
        BY <1>2, <1>9, <2>1, <3>2 DEF Activators
      <4>2. Kept(a, a.slots[j]) /\ a.workers[a.slots[j]].slot = j /\ ~a.workers[a.slots[j]].retiring
        BY <1>2, <2>1, <4>1 DEF Slots
      <4>3. a.slots[j] # p /\ a.slots[j] # w
        BY <1>1, <1>3, <3>2, <4>1, <4>2
      <4> QED
        BY <1>11, <1>12, <4>1, <4>2, <4>3
    <3> QED
      BY <3>1, <3>2
  <2>2. ASSUME NEW v \in Helper, Kept(b, v)
        PROVE  b.slots[b.workers[v].slot] = v \/ b.workers[v].retiring
    <3>1. CASE v = w
      BY <3>1, <1>6, <1>8, <1>9
    <3>2. CASE v # w
      <4>1. Kept(a, v) /\ a.workers[v].slot \in Slot
        BY <1>2, <1>11, <2>2, <3>2, KeptWorker
      <4>2. a.slots[a.workers[v].slot] = v \/ a.workers[v].retiring
        BY <1>2, <4>1 DEF Slots
      <4>3. CASE v = p
        <5>1. p # None
          BY <4>3, <2>2
        <5> QED
          BY <4>3, <5>1, <1>11
      <4>4. CASE v # p
        <5>1. a.slots[a.workers[v].slot] = v => a.workers[v].slot # k
          BY <4>4 DEF p
        <5> QED
          BY <1>9, <1>12, <3>2, <4>1, <4>2, <5>1
      <4> QED
        BY <4>3, <4>4
    <3> QED
      BY <3>1, <3>2
  <2> QED
    BY <2>1, <2>2 DEF Slots
<1>14. Priors(b)
  <2>1. ASSUME NEW v \in Helper, Kept(b, v), b.workers[v].previous # None
        PROVE  LET q == b.workers[v].previous IN
               Kept(b, q) /\ b.workers[q].retiring /\ b.workers[q].slot = b.workers[v].slot
    <3>1. CASE v = w
      BY <2>1, <3>1, <1>6, <1>8, <1>11
    <3>2. CASE v # w
      <4> DEFINE q == a.workers[v].previous
      <4>1. Kept(a, v) /\ b.workers[v].previous = q /\ b.workers[v].slot = a.workers[v].slot /\ q \in Helper
        BY <1>2, <1>11, <1>12, <2>1, <3>2, KeptWorker
      <4> HIDE DEF q
      <4>2. Kept(a, q) /\ a.workers[q].retiring /\ a.workers[q].slot = a.workers[v].slot
        BY <1>2, <2>1, <4>1 DEF Priors, q
      <4>3. q # w
        BY <1>1, <4>2
      <4> QED
        BY <1>11, <1>12, <4>1, <4>2, <4>3
    <3> QED
      BY <3>1, <3>2
  <2>2. ASSUME NEW u \in Helper, NEW v \in Helper, Kept(b, u), Kept(b, v),
               b.workers[u].previous # None, b.workers[u].previous = b.workers[v].previous
        PROVE  u = v
    <3>1. \A z \in Helper \ {w} : Kept(b, z) /\ b.workers[z].previous # None => b.workers[z].previous # p
      <4> SUFFICES ASSUME NEW z \in Helper \ {w}, Kept(b, z), b.workers[z].previous # None
                   PROVE  b.workers[z].previous # p
        OBVIOUS
      <4>1. Kept(a, z) /\ a.workers[z].previous = b.workers[z].previous
        BY <1>11, <1>12
      <4>2. a.workers[a.workers[z].previous].retiring
        BY <1>2, <4>1 DEF Priors
      <4> QED
        BY <1>3, <4>1, <4>2
    <3>2. CASE u = w /\ v # w
      BY <2>2, <3>1, <3>2, <1>6, <1>8
    <3>3. CASE v = w /\ u # w
      BY <2>2, <3>1, <3>3, <1>6, <1>8
    <3>4. CASE u # w /\ v # w
      <4>1. Kept(a, u) /\ Kept(a, v) /\ a.workers[u].previous # None
            /\ a.workers[u].previous = a.workers[v].previous
        BY <1>11, <1>12, <2>2, <3>4
      <4> QED
        BY <1>2, <4>1 DEF Priors
    <3> QED
      BY <3>2, <3>3, <3>4
  <2> QED
    BY <2>1, <2>2 DEF Priors
<1>15. Resting(b)
  BY <1>2, <1>5 DEF Resting
<1>16. Covered(b, k) /\ \A j \in Slot : Covered(a, j) => Covered(b, j)
  BY <1>1, <1>5, <1>9 DEF Covered
<1> QED
  BY <1>5, <1>10, <1>13, <1>14, <1>15, <1>16 DEF Sound, b

\* startWorker while something is pending.
Launched(a, k, launched) == StartedWorker(a, k, TRUE, launched)

\* b works as a does, and has the slot covered too.
Covers(a, b, k) ==
    /\ Sound(b) /\ b.disposed = a.disposed /\ b.active /\ b.renewing = a.renewing
    /\ \A j \in Slot : j = k \/ Covered(a, j) => Covered(b, j)

\* It covers its slot,
LEMMA LaunchedSound ==
    ASSUME NEW a, Sound(a), a.active, NEW k \in Slot, NEW launched,
           NEW b, b = Launched(a, k, launched)
    PROVE  Covers(a, b, k)
<1> USE DEF Covers
<1> DEFINE ready == [a EXCEPT !.retries[k] = FALSE]
<1>1. /\ ready \in Activators /\ ready.active = a.active /\ ready.disposed = a.disposed
      /\ ready.renewing = a.renewing /\ ready.slots = a.slots /\ ready.workers = a.workers
      /\ ready.retries = [a.retries EXCEPT ![k] = FALSE]
  BY DEF Sound, Activators
<1>2. b = Retried(ready, k) \/ (b = Replaced(ready, k) /\ Free(a) # {})
  BY DEF StartedWorker, Launched
<1> HIDE DEF ready
<1>3. Sound(ready) /\ ready.active
  BY <1>1 DEF Sound, Slots, Priors, Resting, Kept
<1>4. \A j \in Slot : j # k /\ Covered(a, j) => Covered(ready, j)
  BY <1>1 DEF Covered, Sound, Activators
<1>5. CASE b = Retried(ready, k)
  <2> DEFINE c == Retried(ready, k)
  <2>1. /\ Sound(c) /\ c.active /\ c.disposed = ready.disposed /\ c.renewing = ready.renewing
        /\ Covered(c, k) /\ \A j \in Slot : Covered(ready, j) => Covered(c, j)
    BY <1>3, RetriedSound
  <2> HIDE DEF c
  <2>2. b = c
    BY <1>5 DEF c
  <2> QED
    BY <1>1, <1>4, <2>1, <2>2
<1>6. CASE b = Replaced(ready, k) /\ Free(a) # {}
  <2>1. Free(ready) # {}
    BY <1>1, <1>6 DEF Free
  <2> DEFINE c == Replaced(ready, k)
  <2>2. /\ Sound(c) /\ c.active /\ c.disposed = ready.disposed /\ c.renewing = ready.renewing
        /\ Covered(c, k) /\ \A j \in Slot : Covered(ready, j) => Covered(c, j)
    BY <1>3, <2>1, ReplacedSound
  <2> HIDE DEF c
  <2>3. b = c
    BY <1>6 DEF c
  <2> QED
    BY <1>1, <1>4, <2>2, <2>3
<1> QED
  BY <1>2, <1>5, <1>6

\* and stops the activator otherwise.
LEMMA StartedSound ==
    ASSUME NEW a, Sound(a), Works(a), a.active, NEW k \in Slot, NEW pending \in BOOLEAN, NEW launched \in BOOLEAN
    PROVE  LET b == StartedWorker(a, k, pending, launched)
           IN  Sound(b) /\ Works(b) /\ b.disposed = a.disposed /\ (b.active <=> pending)
<1> DEFINE b == StartedWorker(a, k, pending, launched)
           c == Launched(a, k, launched)
<1>1. CASE pending
  <2>1. b = c
    BY <1>1 DEF StartedWorker, Launched
  <2>2. c = Launched(a, k, launched)
    OBVIOUS
  <2> HIDE DEF b, c
  <2>3. Covers(a, c, k)
    BY <2>2, LaunchedSound
  <2>4. Works(c)
    BY <2>3 DEF Works, Covers
  <2> QED
    BY <1>1, <2>1, <2>3, <2>4 DEF b, Covers
<1>2. CASE ~pending
  <2>1. b = Stopped(a)
    BY <1>2 DEF StartedWorker, Launched
  <2>2. a \in Activators
    BY DEF Sound
  <2> QED
    BY <1>2, <2>1, <2>2, StoppedSound
<1> QED
  BY <1>1, <1>2

\* ensureRunning: the activator works if something is pending.
LEMMA EnsuredSound ==
    ASSUME NEW a, Sound(a), Works(a), NEW pending \in BOOLEAN, NEW launched \in [Slot -> BOOLEAN]
    PROVE  LET b == Ensured(a, pending, launched)
           IN  /\ Sound(b) /\ Works(b) /\ b.disposed = a.disposed
               /\ pending /\ ~a.disposed => b.active
<1> DEFINE b == Ensured(a, pending, launched)
           start == [a EXCEPT !.active = TRUE, !.next = 0]
           first == Launched(start, 0, launched[0])
           second == Launched(first, 1, launched[1])
<1>1. a \in Activators /\ a.disposed \in BOOLEAN /\ a.active \in BOOLEAN
  BY DEF Sound, Activators
<1>2. CASE a.disposed \/ (pending /\ a.active)
  <2>1. b = a
    BY <1>2 DEF Ensured
  <2> QED
    BY <1>2, <2>1
<1>3. CASE ~a.disposed /\ ~pending
  <2>1. b = Stopped(a)
    BY <1>3 DEF Ensured
  <2> QED
    BY <1>1, <1>3, <2>1, StoppedSound
<1>4. CASE ~a.disposed /\ pending /\ ~a.active
  <2>1. b = [second EXCEPT !.renewing = TRUE]
    BY <1>4 DEF Ensured, Launched
  <2>2. /\ start \in Activators /\ start.active = TRUE /\ start.disposed = a.disposed
        /\ start.slots = a.slots /\ start.workers = a.workers /\ start.retries = a.retries
    BY <1>1 DEF Activators, Slot
  <2> HIDE DEF start, b
  <2>3. Sound(start)
    BY <1>4, <2>2 DEF Sound, Slots, Priors, Resting, Kept
  <2>4. 0 \in Slot /\ 1 \in Slot /\ Slot = {0, 1}
    BY DEF Slot
  <2>5. Covers(start, first, 0)
    BY <2>2, <2>3, <2>4, LaunchedSound
  <2> HIDE DEF first
  <2>6. Sound(first) /\ first.disposed = a.disposed /\ first.active /\ Covered(first, 0)
    BY <2>2, <2>4, <2>5 DEF Covers
  <2>7. Covers(first, second, 1)
    BY <2>4, <2>6, LaunchedSound
  <2>8. /\ Sound(second) /\ second.disposed = a.disposed /\ second.active
        /\ Covered(second, 0) /\ Covered(second, 1)
    BY <2>4, <2>6, <2>7 DEF Covers
  <2> HIDE DEF second
  <2>9. /\ b \in Activators /\ b.active /\ b.disposed = a.disposed /\ b.renewing = TRUE
        /\ b.slots = second.slots /\ b.workers = second.workers /\ b.retries = second.retries
    BY <2>1, <2>8 DEF Sound, Activators
  <2>10. Sound(b)
    BY <1>4, <2>8, <2>9 DEF Sound, Slots, Priors, Resting, Kept
  <2>11. Works(b)
    BY <2>4, <2>8, <2>9 DEF Works, Covered
  <2> QED
    BY <2>9, <2>10, <2>11 DEF b
<1> QED
  BY <1>1, <1>2, <1>3, <1>4

\* renew covers the slot whose turn it is.
LEMMA RenewedSound ==
    ASSUME NEW a, Sound(a), Works(a), a.renewing, NEW pending \in BOOLEAN, NEW launched \in BOOLEAN
    PROVE  LET b == Renewed(a, pending, launched)
           IN  Sound(b) /\ Works(b) /\ b.disposed = a.disposed /\ (pending => b.active)
<1> DEFINE b == Renewed(a, pending, launched)
           k == a.next
           started == Launched(a, k, launched)
<1>1. a \in Activators /\ k \in Slot
  BY DEF Sound, Activators
<1>2. a.active
  BY DEF Sound, Resting, Activators
<1>3. CASE ~pending
  BY <1>1, <1>3, StoppedSound DEF Renewed
<1>4. CASE pending
  <2>1. b = [started EXCEPT !.next = 1 - @]
    BY <1>4 DEF Renewed, Launched
  <2>2. started = Launched(a, k, launched)
    OBVIOUS
  <2> HIDE DEF started, k, b
  <2>3. Covers(a, started, k)
    BY <1>1, <1>2, <2>2, LaunchedSound
  <2>4. /\ Sound(started) /\ started.disposed = a.disposed /\ started.active
        /\ started.renewing = a.renewing /\ \A j \in Slot : Covered(a, j) => Covered(started, j)
    BY <2>3 DEF Covers
  <2>5. started \in Activators /\ 1 - started.next \in Slot
    BY <2>4 DEF Sound, Activators, Slot
  <2>6. /\ b \in Activators /\ b.active /\ b.disposed = a.disposed /\ b.renewing = a.renewing
        /\ b.slots = started.slots /\ b.workers = started.workers /\ b.retries = started.retries
    BY <2>1, <2>4, <2>5 DEF Activators
  <2>7. Sound(b)
    BY <2>4, <2>6 DEF Sound, Slots, Priors, Resting, Kept, Covered
  <2>8. Works(b)
    BY <1>1, <1>2, <2>4, <2>6 DEF Works, Covered
  <2> QED
    BY <2>6, <2>7, <2>8 DEF b
<1> QED
  BY <1>3, <1>4

\* A helper that ends, or is asked to, is nobody's to fall back on.
LEMMA WithWorkerFacts ==
    ASSUME NEW a \in Activators, NEW w \in Helper, NEW x \in {None, Stopping}
    PROVE  LET f == WithWorker(a, w, x) IN
           /\ f \in [Helper -> Workers \cup {None}] /\ f[w] = x
           /\ \A v \in Helper : v # w =>
                /\ f[v] \notin {None, Stopping} <=> Kept(a, v)
                /\ Kept(a, v) => /\ f[v].slot = a.workers[v].slot /\ f[v].retiring = a.workers[v].retiring
                                 /\ f[v].previous = IF a.workers[v].previous = w THEN None
                                                    ELSE a.workers[v].previous
<1> DEFINE f == WithWorker(a, w, x)
<1>1. f[w] = x
  BY DEF WithWorker
<1>2. ASSUME NEW v \in Helper, v # w
      PROVE  /\ f[v] \in Workers \cup {None}
             /\ f[v] \notin {None, Stopping} <=> Kept(a, v)
             /\ Kept(a, v) => /\ f[v].slot = a.workers[v].slot /\ f[v].retiring = a.workers[v].retiring
                              /\ f[v].previous = IF a.workers[v].previous = w THEN None
                                                 ELSE a.workers[v].previous
  <2>1. CASE ~Kept(a, v)
    <3>1. f[v] = a.workers[v]
      BY <1>2, <2>1 DEF WithWorker
    <3> QED
      BY <2>1, <3>1 DEF Kept, Activators
  <2>2. CASE Kept(a, v) /\ a.workers[v].previous = w
    <3>1. f[v] = [a.workers[v] EXCEPT !.previous = None]
      BY <1>2, <2>2 DEF WithWorker
    <3>2. a.workers[v] \in Staying
      BY <2>2, KeptWorker
    <3>3. f[v] \in Staying /\ f[v].slot = a.workers[v].slot /\ f[v].retiring = a.workers[v].retiring
          /\ f[v].previous = None
      BY <3>1, <3>2 DEF Staying
    <3> QED
      BY <2>2, <3>3, WorkerAssumption DEF Workers
  <2>3. CASE Kept(a, v) /\ a.workers[v].previous # w
    <3>1. f[v] = a.workers[v]
      BY <1>2, <2>3 DEF WithWorker
    <3> QED
      BY <2>3, <3>1 DEF Kept, Activators
  <2> QED
    BY <2>1, <2>2, <2>3
<1>3. f \in [Helper -> Workers \cup {None}]
  <2>1. x \in Workers \cup {None}
    BY DEF Workers
  <2>2. f = [v \in Helper |-> f[v]]
    BY DEF WithWorker
  <2> HIDE DEF f
  <2> QED
    BY <1>1, <1>2, <2>1, <2>2
<1> QED
  BY <1>1, <1>2, <1>3

\* A helper that does not have its slot ends, or is asked to: the slots stay.
LEMMA LeavesSound ==
    ASSUME NEW a, Sound(a), Works(a), NEW w \in Helper, NEW x \in {None, Stopping},
           \A k \in Slot : a.slots[k] # w,
           NEW b, b = [a EXCEPT !.workers = WithWorker(a, w, x)]
    PROVE  Sound(b) /\ Works(b) /\ b.disposed = a.disposed /\ b.active = a.active
<1> USE NoneAssumption
<1>1. a \in Activators /\ Slots(a) /\ Priors(a) /\ Resting(a)
  BY DEF Sound
<1> DEFINE f == WithWorker(a, w, x)
<1>2. /\ f \in [Helper -> Workers \cup {None}] /\ f[w] = x
      /\ \A v \in Helper : v # w =>
           /\ f[v] \notin {None, Stopping} <=> Kept(a, v)
           /\ Kept(a, v) => /\ f[v].slot = a.workers[v].slot /\ f[v].retiring = a.workers[v].retiring
                            /\ f[v].previous = IF a.workers[v].previous = w THEN None
                                               ELSE a.workers[v].previous
  BY <1>1, WithWorkerFacts
<1> HIDE DEF f
<1>3. /\ b \in Activators /\ b.active = a.active /\ b.disposed = a.disposed /\ b.renewing = a.renewing
      /\ b.slots = a.slots /\ b.retries = a.retries /\ b.workers = f
  BY <1>1, <1>2 DEF Activators, f
<1>4. ~Kept(b, w) /\ \A v \in Helper : v # w => (Kept(b, v) <=> Kept(a, v))
  BY <1>2, <1>3 DEF Kept
<1>5. \A v \in Helper : Kept(b, v) =>
        /\ Kept(a, v) /\ v # w
        /\ b.workers[v].slot = a.workers[v].slot /\ b.workers[v].retiring = a.workers[v].retiring
        /\ b.workers[v].previous = IF a.workers[v].previous = w THEN None ELSE a.workers[v].previous
  BY <1>2, <1>3, <1>4
<1>6. Slots(b)
  <2>1. \A k \in Slot : b.slots[k] # None => b.slots[k] \in Helper /\ b.slots[k] # w /\ Kept(a, b.slots[k])
    BY <1>1, <1>3 DEF Slots, Activators
  <2> QED
    BY <1>1, <1>3, <1>4, <1>5, <2>1 DEF Slots
<1>7. Priors(b)
  <2>1. ASSUME NEW v \in Helper, Kept(b, v), b.workers[v].previous # None
        PROVE  LET p == b.workers[v].previous IN
               /\ p = a.workers[v].previous /\ p \in Helper
               /\ Kept(b, p) /\ b.workers[p].retiring /\ b.workers[p].slot = b.workers[v].slot
    <3> DEFINE p == a.workers[v].previous
    <3>1. p # w /\ b.workers[v].previous = p /\ Kept(a, v)
      BY <1>5, <2>1
    <3>2. p \in Helper
      BY <1>1, <2>1, <3>1, KeptWorker
    <3> HIDE DEF p
    <3>3. Kept(a, p) /\ a.workers[p].retiring /\ a.workers[p].slot = a.workers[v].slot
      BY <1>1, <2>1, <3>1 DEF Priors, p
    <3> QED
      BY <1>4, <1>5, <2>1, <3>1, <3>2, <3>3 DEF p
  <2>2. ASSUME NEW u \in Helper, NEW v \in Helper, Kept(b, u), Kept(b, v),
               b.workers[u].previous # None, b.workers[u].previous = b.workers[v].previous
        PROVE  u = v
    BY <1>1, <1>5, <2>1, <2>2 DEF Priors
  <2> QED
    BY <2>1, <2>2 DEF Priors
<1>8. Resting(b) /\ Works(b)
  BY <1>1, <1>3, <1>5 DEF Resting, Works, Covered
<1> QED
  BY <1>3, <1>6, <1>7, <1>8 DEF Sound

\* The helper of a slot ends: the slot falls back on the one it had replaced, or
\* is retried; without anything pending the activator is stopped.
LEMMA EndedCurrentSound ==
    ASSUME NEW a, Sound(a), Works(a), NEW w \in Helper, w \in {a.slots[k] : k \in Slot},
           NEW pending \in BOOLEAN
    PROVE  LET b == EndedCurrent(a, w, pending)
           IN  Sound(b) /\ Works(b) /\ b.disposed = a.disposed /\ (b.active <=> pending)
<1> USE NoneAssumption
<1>1. a \in Activators /\ Slots(a) /\ Priors(a) /\ Resting(a)
  BY DEF Sound
<1> DEFINE worker == a.workers[w]
           k == worker.slot
           p == worker.previous
           rest == WithWorker(a, w, None)
           back == IF p # None THEN [rest EXCEPT ![p].retiring = FALSE] ELSE rest
           b == [a EXCEPT !.slots[k] = IF p # None THEN p ELSE None, !.workers = back]
<1>2. /\ k \in Slot /\ a.slots[k] = w /\ Kept(a, w) /\ ~worker.retiring
      /\ p \in Helper \cup {None} /\ a.active
  <2>1. PICK i \in Slot : a.slots[i] = w
    OBVIOUS
  <2>2. w # None
    OBVIOUS
  <2>3. Kept(a, w) /\ worker.slot = i /\ ~worker.retiring
    BY <1>1, <2>1, <2>2 DEF Slots
  <2>4. p \in Helper \cup {None}
    BY <1>1, <2>3, KeptWorker
  <2> QED
    BY <1>1, <2>1, <2>3, <2>4 DEF Resting
<1>3. p # None => Kept(a, p) /\ a.workers[p].retiring /\ a.workers[p].slot = k /\ p # w /\ p \in Helper
  BY <1>1, <1>2 DEF Priors
<1>4. \A v \in Helper : Kept(a, v) => a.workers[v].previous # w
  BY <1>1, <1>2 DEF Priors
<1>5. /\ rest \in [Helper -> Workers \cup {None}] /\ rest[w] = None
      /\ \A v \in Helper : v # w =>
           /\ rest[v] \notin {None, Stopping} <=> Kept(a, v)
           /\ Kept(a, v) => /\ rest[v].slot = a.workers[v].slot /\ rest[v].retiring = a.workers[v].retiring
                            /\ rest[v].previous = a.workers[v].previous
  BY <1>1, <1>4, WithWorkerFacts
<1> HIDE DEF rest, worker, k, p
<1>6. /\ back \in [Helper -> Workers \cup {None}] /\ back[w] = None
      /\ \A v \in Helper : v # w /\ v # p => back[v] = rest[v]
      /\ p # None => /\ back[p] \notin {None, Stopping} /\ back[p].slot = k /\ back[p].retiring = FALSE
                     /\ back[p].previous = a.workers[p].previous
  <2>1. CASE p = None
    BY <1>5, <2>1
  <2>2. CASE p # None
    <3>1. rest[p] \in Staying /\ rest[p].slot = k /\ rest[p].previous = a.workers[p].previous
      BY <1>3, <1>5, <2>2 DEF Workers
    <3> DEFINE x == [rest[p] EXCEPT !.retiring = FALSE]
    <3>2. x \in Staying /\ x.slot = k /\ x.retiring = FALSE /\ x.previous = a.workers[p].previous
      BY <3>1 DEF Staying
    <3>3. back = [rest EXCEPT ![p] = x]
      BY <2>2
    <3> HIDE DEF x, back
    <3> QED
      BY <1>3, <1>5, <2>2, <3>2, <3>3, WorkerAssumption DEF Workers
  <2> QED
    BY <2>1, <2>2
<1> HIDE DEF back
<1>7. /\ b \in Activators /\ b.active = a.active /\ b.disposed = a.disposed /\ b.renewing = a.renewing
      /\ b.retries = a.retries /\ b.workers = back /\ b.slots[k] = p
      /\ \A j \in Slot : j # k => b.slots[j] = a.slots[j]
  BY <1>1, <1>2, <1>6 DEF Activators
<1> HIDE DEF b
<1>8. /\ ~Kept(b, w) /\ \A v \in Helper : v # w => (Kept(b, v) <=> Kept(a, v))
      /\ \A v \in Helper : Kept(b, v) => b.workers[v].slot = a.workers[v].slot
                                         /\ b.workers[v].previous = a.workers[v].previous
      /\ \A v \in Helper : Kept(b, v) /\ v # p => b.workers[v].retiring = a.workers[v].retiring
  <2>1. ~Kept(b, w)
    BY <1>6, <1>7 DEF Kept
  <2>2. ASSUME NEW v \in Helper, v # w
        PROVE  /\ Kept(b, v) <=> Kept(a, v)
               /\ Kept(b, v) => b.workers[v].slot = a.workers[v].slot
                                /\ b.workers[v].previous = a.workers[v].previous
               /\ Kept(b, v) /\ v # p => b.workers[v].retiring = a.workers[v].retiring
    <3>1. Kept(b, v) <=> back[v] \notin {None, Stopping}
      BY <1>7 DEF Kept
    <3>2. CASE v = p
      <4>1. p # None
        BY <3>2
      <4> QED
        BY <1>3, <1>6, <1>7, <3>1, <3>2, <4>1
    <3>3. CASE v # p
      BY <1>5, <1>6, <1>7, <2>2, <3>1, <3>3
    <3> QED
      BY <3>2, <3>3
  <2> QED
    BY <2>1, <2>2
<1>9. Slots(b)
  <2>1. ASSUME NEW j \in Slot, b.slots[j] # None
        PROVE  Kept(b, b.slots[j]) /\ b.workers[b.slots[j]].slot = j /\ ~b.workers[b.slots[j]].retiring
    <3>1. CASE j = k
      BY <1>3, <1>6, <1>7, <1>8, <2>1, <3>1
    <3>2. CASE j # k
      <4> DEFINE v == a.slots[j]
      <4>1. b.slots[j] = v /\ v \in Helper
        BY <1>1, <1>7, <2>1, <3>2 DEF Activators
      <4> HIDE DEF v
      <4>2. Kept(a, v) /\ a.workers[v].slot = j /\ ~a.workers[v].retiring
        BY <1>1, <2>1, <4>1 DEF Slots, v
      <4>3. v # p /\ v # w
        BY <1>2, <1>3, <3>2, <4>1, <4>2 DEF k, worker
      <4> QED
        BY <1>8, <4>1, <4>2, <4>3
    <3> QED
      BY <3>1, <3>2
  <2>2. ASSUME NEW v \in Helper, Kept(b, v)
        PROVE  b.slots[b.workers[v].slot] = v \/ b.workers[v].retiring
    <3>1. v # w /\ Kept(a, v) /\ a.workers[v].slot \in Slot /\ b.workers[v].slot = a.workers[v].slot
      BY <1>1, <1>8, <2>2, KeptWorker
    <3>2. CASE v = p
      BY <1>3, <1>7, <3>1, <3>2
    <3>3. CASE v # p
      <4>1. b.workers[v].retiring = a.workers[v].retiring
        BY <1>8, <2>2, <3>3
      <4>2. a.slots[a.workers[v].slot] = v \/ a.workers[v].retiring
        BY <1>1, <3>1 DEF Slots
      <4>3. a.slots[a.workers[v].slot] = v => a.workers[v].slot # k
        BY <1>2, <3>1
      <4> QED
        BY <1>7, <3>1, <4>1, <4>2, <4>3
    <3> QED
      BY <3>2, <3>3
  <2> QED
    BY <2>1, <2>2 DEF Slots
<1>10. Priors(b)
  <2>1. ASSUME NEW v \in Helper, Kept(b, v), b.workers[v].previous # None
        PROVE  LET q == b.workers[v].previous IN
               Kept(b, q) /\ b.workers[q].retiring /\ b.workers[q].slot = b.workers[v].slot
    <3> DEFINE q == a.workers[v].previous
    <3>1. Kept(a, v) /\ v # w /\ b.workers[v].previous = q /\ b.workers[v].slot = a.workers[v].slot
      BY <1>8, <2>1
    <3>2. q \in Helper /\ q # w
      BY <1>1, <1>4, <2>1, <3>1, KeptWorker
    <3>3. Kept(a, q) /\ a.workers[q].retiring /\ a.workers[q].slot = a.workers[v].slot
      BY <1>1, <2>1, <3>1 DEF Priors
    <3>4. q # p
      BY <1>1, <1>2, <2>1, <3>1 DEF Priors, p, worker
    <3> HIDE DEF q
    <3> QED
      BY <1>8, <3>1, <3>2, <3>3, <3>4
  <2>2. ASSUME NEW u \in Helper, NEW v \in Helper, Kept(b, u), Kept(b, v),
               b.workers[u].previous # None, b.workers[u].previous = b.workers[v].previous
        PROVE  u = v
    <3>1. /\ Kept(a, u) /\ Kept(a, v) /\ a.workers[u].previous # None
          /\ a.workers[u].previous = a.workers[v].previous
      BY <1>8, <2>2
    <3> QED
      BY <1>1, <3>1 DEF Priors
  <2> QED
    BY <2>1, <2>2 DEF Priors
<1>11. Sound(b) /\ b.active
  BY <1>2, <1>7, <1>9, <1>10, <1>1 DEF Sound, Resting
<1>12. \A j \in Slot : j # k /\ Covered(a, j) => Covered(b, j)
  BY <1>7 DEF Covered
<1>13. CASE pending
  <2> DEFINE c == Retried(b, k)
  <2>1. /\ Sound(c) /\ c.active /\ c.disposed = b.disposed /\ c.renewing = b.renewing
        /\ Covered(c, k) /\ \A j \in Slot : Covered(b, j) => Covered(c, j)
    BY <1>2, <1>11, RetriedSound
  <2>2. EndedCurrent(a, w, pending) = c
    BY <1>2, <1>13, Zenon DEF EndedCurrent, b, back, rest, p, k, worker
  <2> HIDE DEF c
  <2>3. Works(c)
    BY <1>2, <1>7, <1>12, <2>1 DEF Works
  <2> QED
    BY <1>7, <1>13, <2>1, <2>2, <2>3
<1>14. CASE ~pending
  <2>1. EndedCurrent(a, w, pending) = Stopped(b)
    BY <1>2, <1>14, Zenon DEF EndedCurrent, b, back, rest, p, k, worker
  <2> QED
    BY <1>7, <1>14, <2>1, StoppedSound
<1> QED
  BY <1>13, <1>14

\* ended, of whichever helper.
LEMMA EndedSound ==
    ASSUME NEW a, Sound(a), Works(a), NEW w \in Helper, NEW pending \in BOOLEAN, pending => a.active
    PROVE  LET b == Ended(a, w, pending)
           IN  Sound(b) /\ Works(b) /\ b.disposed = a.disposed /\ (pending => b.active)
<1> DEFINE b == Ended(a, w, pending)
<1>1. CASE w \in {a.slots[k] : k \in Slot}
  <2>1. b = EndedCurrent(a, w, pending)
    BY <1>1 DEF Ended
  <2> HIDE DEF b
  <2> QED
    BY <1>1, <2>1, EndedCurrentSound DEF b
<1>2. CASE w \notin {a.slots[k] : k \in Slot}
  <2>1. b = [a EXCEPT !.workers = WithWorker(a, w, None)]
    BY <1>2 DEF Ended
  <2>2. \A k \in Slot : a.slots[k] # w
    BY <1>2
  <2> HIDE DEF b
  <2> QED
    BY <2>1, <2>2, LeavesSound DEF b
<1> QED
  BY <1>1, <1>2

\* A helper that is retired does not have its slot any more.
LEMMA RetiredSound ==
    ASSUME NEW a, Sound(a), Works(a), NEW w \in Helper, Kept(a, w), a.workers[w].retiring
    PROVE  LET b == Retired(a, w)
           IN  Sound(b) /\ Works(b) /\ b.disposed = a.disposed /\ b.active = a.active
<1> DEFINE b == Retired(a, w)
<1>1. a \in Activators /\ Slots(a)
  BY DEF Sound
<1>2. \A k \in Slot : a.slots[k] # w
  BY NoneAssumption, <1>1 DEF Slots
<1>3. [k \in Slot |-> IF a.slots[k] = w THEN None ELSE a.slots[k]] = a.slots
  BY <1>1, <1>2 DEF Activators
<1>4. b = [a EXCEPT !.workers = WithWorker(a, w, Stopping)]
  BY <1>1, <1>3 DEF Retired, Activators
<1> HIDE DEF b
<1> QED
  BY <1>2, <1>4, LeavesSound DEF b

----------------------------------------------------------------------------
(* The registry *)

\* A set of natural numbers that is not empty has a least element.
LEMMA Least ==
    ASSUME NEW T \in SUBSET Nat, T # {}
    PROVE  \E x \in T : \A y \in T : x <= y
<1>1. PICK x \in T : \A y \in T : ~(<<y, x>> \in OpToRel(<, Nat))
  BY NatLessThanWellFounded, WFMin, Zenon
<1>2. \A y \in T : ~(y < x)
  BY <1>1, Zenon DEF OpToRel
<1> QED
  BY <1>2

\* Any set of toasts is finite.
LEMMA ToastsFinite ==
    ASSUME NEW T \in SUBSET Toast
    PROVE  /\ IsFiniteSet(T) /\ Cardinality(T) \in Nat
           /\ \A S \in SUBSET T : Cardinality(S) <= Cardinality(T)
<1>1. IsFiniteSet(Toast)
  BY BoundsAssumption, FS_Interval DEF Toast
<1>2. IsFiniteSet(T)
  BY <1>1, FS_Subset
<1> QED
  BY <1>2, FS_Subset, FS_CardinalityType

\* register keeps to the limit; what makes room is older than all it leaves.
LEMMA RegisteredFacts ==
    ASSUME NEW reg \in SUBSET Toast, Cardinality(reg) <= MaxRegistrations, NEW t \in Toast
    PROVE  /\ Registered(reg, t) \subseteq reg \cup {t} /\ t \in Registered(reg, t)
           /\ Cardinality(Registered(reg, t)) <= MaxRegistrations
           /\ \A u \in reg : u # t /\ u \notin Registered(reg, t) =>
                /\ \A v \in reg : u <= v
                /\ t \notin reg => Cardinality((reg \ {u}) \cup {t}) >= MaxRegistrations
<1>1. IsFiniteSet(reg) /\ Cardinality(reg) \in Nat /\ MaxRegistrations \in Nat \ {0}
  BY ToastsFinite, BoundsAssumption
<1>2. CASE Cardinality(reg) < MaxRegistrations
  <2>1. Registered(reg, t) = reg \cup {t}
    BY <1>2 DEF Registered
  <2>2. Cardinality(reg \cup {t}) = IF t \in reg THEN Cardinality(reg) ELSE Cardinality(reg) + 1
    BY <1>1, FS_AddElement
  <2> QED
    BY <1>1, <1>2, <2>1, <2>2
<1>3. CASE ~(Cardinality(reg) < MaxRegistrations)
  <2> DEFINE o == Oldest(reg)
             rest == reg \ {o}
  <2>1. Cardinality(reg) = MaxRegistrations
    BY <1>1, <1>3
  <2>2. reg # {}
    BY <1>1, <2>1, FS_EmptySet
  <2>3. \E x \in reg : \A y \in reg : x <= y
    BY <2>2, Least DEF Toast
  <2>4. o \in reg /\ \A v \in reg : o <= v
    BY <2>3, Zenon DEF Oldest
  <2>5. Registered(reg, t) = rest \cup {t}
    BY <1>3 DEF Registered
  <2> HIDE DEF o
  <2>6. IsFiniteSet(rest) /\ Cardinality(rest) = MaxRegistrations - 1
    BY <1>1, <2>1, <2>4, FS_RemoveElement
  <2>7. Cardinality(rest \cup {t}) = IF t \in rest THEN Cardinality(rest) ELSE Cardinality(rest) + 1
    BY <2>6, FS_AddElement
  <2>8. ASSUME NEW u \in reg, u # t, u \notin Registered(reg, t)
        PROVE  /\ \A v \in reg : u <= v
               /\ t \notin reg => Cardinality((reg \ {u}) \cup {t}) >= MaxRegistrations
    <3>1. u = o
      BY <2>5, <2>8
    <3>2. t \notin reg => Cardinality(rest \cup {t}) = MaxRegistrations
      BY <1>1, <2>6, <2>7
    <3> QED
      BY <1>1, <2>4, <3>1, <3>2
  <2>9. Registered(reg, t) \subseteq reg \cup {t} /\ t \in Registered(reg, t)
    BY <2>5
  <2>10. Cardinality(Registered(reg, t)) <= MaxRegistrations
    BY <1>1, <2>5, <2>6, <2>7
  <2> QED
    BY <2>8, <2>9, <2>10
<1> QED
  BY <1>2, <1>3

----------------------------------------------------------------------------
(* The steps *)

\* What Windows, the installer and the start of the watcher do to the phase and
\* to what is installed; the toasts, the answers and the sessions are left alone.
LEMMA ActivationStep == IInv /\ Activation => IInv'
<1> SUFFICES ASSUME IInv, Activation PROVE IInv'
  OBVIOUS
<1> USE DEF IInv
<1> DEFINE Toasting == UNCHANGED <<sessions, toasts, callbacks, clicked>>
           Quiet == UNCHANGED <<registry, activator>>
<1>1. /\ phase' \in Phases /\ mode' \in Modes /\ Toasting
      /\ installer' \in [child : {"none", "running", "ended"}, settled : BOOLEAN,
                         staged : BOOLEAN, refused : BOOLEAN]
  <2> USE DEF TypeOK, Phases, Modes, toastVars
  <2>1. CASE InstallBegins
    BY <2>1 DEF InstallBegins
  <2>2. CASE InstallerWrites
    BY <2>2 DEF InstallerWrites
  <2>3. CASE InstallTimesOut
    BY <2>3 DEF InstallTimesOut, InstallFails, CleanedUp
  <2>4. CASE InstallerEnds
    BY <2>4 DEF InstallerEnds, InstallFails, CleanedUp
  <2>5. CASE ServerOpens
    BY <2>5 DEF ServerOpens
  <2>6. CASE WatcherStarts
    BY <2>6 DEF WatcherStarts
  <2>7. CASE Deactivates
    BY <2>7 DEF Deactivates
  <2> QED
    BY <2>1, <2>2, <2>3, <2>4, <2>5, <2>6, <2>7 DEF Activation
<1>2. Installed'
  <2> USE DEF TypeOK, Installed
  <2>1. CASE InstallBegins
    BY <2>1 DEF InstallBegins
  <2>2. CASE InstallerWrites
    BY <2>2 DEF InstallerWrites
  <2>3. CASE InstallTimesOut
    BY <2>3 DEF InstallTimesOut, InstallFails, CleanedUp
  <2>4. CASE InstallerEnds
    BY <2>4 DEF InstallerEnds, InstallFails, CleanedUp
  <2>5. CASE ServerOpens
    BY <2>5 DEF ServerOpens
  <2>6. CASE WatcherStarts
    BY <2>6 DEF WatcherStarts
  <2>7. CASE Deactivates
    BY <2>7 DEF Deactivates
  <2> QED
    BY <2>1, <2>2, <2>3, <2>4, <2>5, <2>6, <2>7 DEF Activation
<1>3. \/ Quiet /\ phase' = phase /\ mode' = mode
      \/ /\ Quiet /\ phase \notin {"ready", "disposed"} /\ phase' # "disposed"
         /\ phase' \in {"waiting", "installing"} => mode' = "silent"
      \/ phase' = "disposed" /\ Disposed
  <2> USE DEF Installed, Phased, toastVars
  <2>1. CASE InstallBegins
    BY <2>1 DEF InstallBegins
  <2>2. CASE InstallerWrites
    BY <2>2 DEF InstallerWrites
  <2>3. CASE InstallTimesOut
    BY <2>3 DEF InstallTimesOut, InstallFails
  <2>4. CASE InstallerEnds
    BY <2>4 DEF InstallerEnds, InstallFails
  <2>5. CASE ServerOpens
    BY <2>5 DEF ServerOpens
  <2>6. CASE WatcherStarts
    BY <2>6 DEF WatcherStarts
  <2>7. CASE Deactivates
    BY <2>7 DEF Deactivates
  <2> QED
    BY <2>1, <2>2, <2>3, <2>4, <2>5, <2>6, <2>7 DEF Activation
<1>4. CASE Quiet
  <2>1. TypeOK'
    BY <1>1, <1>4 DEF TypeOK
  <2>2. Sound(activator') /\ Works(activator') /\ (Pending' => activator'.active)
    BY <1>1, <1>4 DEF Pending, Pruned
  <2>3. Raised'
    BY <1>1, <1>4 DEF Raised
  <2>4. Phased' /\ Selectable'
    <3>1. CASE phase' = phase /\ mode' = mode
      BY <1>1, <1>4, <3>1 DEF Phased, Selectable, Serving, Newer
    <3>2. CASE /\ phase \notin {"ready", "disposed"} /\ phase' # "disposed"
               /\ phase' \in {"waiting", "installing"} => mode' = "silent"
      BY <1>1, <1>4, <3>2 DEF Phased, Selectable
    <3>3. CASE phase' = "disposed" /\ activator'.disposed
      BY <1>1, <1>4, <3>3 DEF Phased, Selectable, Serving
    <3>4. phase' = "disposed" /\ Disposed => activator'.disposed
      BY DisposedSound DEF Disposed, Sound
    <3> QED
      BY <1>3, <3>1, <3>2, <3>3, <3>4
  <2> QED
    BY <1>2, <2>1, <2>2, <2>3, <2>4
<1>5. CASE phase' = "disposed" /\ Disposed
  <2>1. registry' = {} /\ Sound(activator') /\ Works(activator') /\ activator'.disposed
    BY <1>5, DisposedSound DEF Disposed, Sound
  <2>2. Cardinality({}) = 0 /\ MaxRegistrations \in Nat
    BY FS_EmptySet, BoundsAssumption
  <2>3. TypeOK'
    BY <1>1, <2>1, <2>2 DEF TypeOK, Sound
  <2>4. ~Pending'
    BY <2>1 DEF Pending, Pruned
  <2>5. Raised' /\ Phased' /\ Selectable'
    BY <1>1, <1>5, <2>1 DEF Raised, Phased, Selectable, Serving
  <2> QED
    BY <1>2, <2>1, <2>3, <2>4, <2>5
<1> QED
  BY <1>3, <1>4, <1>5

\* Whoever still is registered after a pruning was before.
LEMMA PrunedFacts ==
    ASSUME NEW reg \in SUBSET Toast, Cardinality(reg) <= MaxRegistrations, NEW present
    PROVE  /\ Pruned(reg, present) \subseteq reg
           /\ Cardinality(Pruned(reg, present)) <= MaxRegistrations
<1>1. Pruned(reg, present) \in SUBSET reg
  BY DEF Pruned
<1> HIDE DEF Pruned
<1>2. /\ Cardinality(Pruned(reg, present)) \in Nat /\ Cardinality(reg) \in Nat /\ MaxRegistrations \in Nat
      /\ Cardinality(Pruned(reg, present)) <= Cardinality(reg)
  BY <1>1, ToastsFinite, BoundsAssumption
<1> QED
  BY <1>1, <1>2

\* A timer or a helper's end: the activator is what the lemmas above say.
LEMMA BecomesStep ==
    ASSUME IInv, NEW next, Becomes(next), Sound(next), Works(next),
           next.disposed = activator.disposed, Pending => next.active
    PROVE  IInv'
<1> DEFINE reg == Pruned(registry, sessions)
<1>1. /\ activator' = next /\ registry' = reg
      /\ UNCHANGED <<phase, mode, installer, sessions, toasts, callbacks, clicked>>
  BY DEF Becomes
<1>2. registry \in SUBSET Toast /\ Cardinality(registry) <= MaxRegistrations
  BY DEF IInv, TypeOK
<1>3. reg \subseteq registry /\ Cardinality(reg) <= MaxRegistrations
  BY <1>2, PrunedFacts
<1>4. \A t \in registry : sessions[toasts[t].of] = "live" => t \in reg
  BY DEF Pruned
<1> HIDE DEF reg
<1>5. TypeOK'
  BY <1>1, <1>3 DEF IInv, TypeOK, Sound
<1>6. Sound(activator') /\ Works(activator')
  BY <1>1
<1>7. Pending' => activator'.active
  <2>1. Pending' => Pending
    BY <1>1, <1>3 DEF Pending, Pruned
  <2> QED
    BY <1>1, <2>1
<1>8. Phased' /\ Installed' /\ Raised'
  BY <1>1, <1>3 DEF IInv, Phased, Installed, Raised
<1>9. Selectable'
  BY <1>1, <1>4 DEF IInv, Selectable, Serving, Newer
<1> QED
  BY <1>5, <1>6, <1>7, <1>8, <1>9 DEF IInv

\* The activator's timers and the helpers' ends.
LEMMA HelpingStep == IInv /\ Helping => IInv'
<1> SUFFICES ASSUME IInv, Helping PROVE IInv'
  OBVIOUS
<1>1. Sound(activator) /\ Works(activator) /\ (Pending => activator.active) /\ Pending \in BOOLEAN
  BY DEF IInv, Pending
<1>2. CASE Renews
  <2>1. PICK launched \in BOOLEAN : Becomes(Renewed(activator, Pending, launched))
    BY <1>2 DEF Renews
  <2>2. activator.renewing
    BY <1>2 DEF Renews
  <2> QED
    BY <1>1, <2>1, <2>2, RenewedSound, BecomesStep
<1>3. ASSUME NEW k \in Slot, Retries(k)
      PROVE  IInv'
  <2>1. PICK launched \in BOOLEAN : Becomes(StartedWorker(activator, k, Pending, launched))
    BY <1>3 DEF Retries
  <2>2. activator.active
    BY <1>1, <1>3 DEF Retries, Sound, Resting, Covered
  <2> QED
    BY <1>1, <2>1, <2>2, StartedSound, BecomesStep
<1>4. ASSUME NEW w \in Helper, Retires(w)
      PROVE  IInv'
  <2>1. Kept(activator, w) /\ activator.workers[w].retiring /\ Becomes(Retired(activator, w))
    BY <1>4 DEF Retires
  <2> QED
    BY <1>1, <2>1, RetiredSound, BecomesStep
<1>5. ASSUME NEW w \in Helper, HelperEnds(w)
      PROVE  IInv'
  <2>1. Becomes(Ended(activator, w, Pending))
    BY <1>5 DEF HelperEnds
  <2> QED
    BY <1>1, <2>1, EndedSound, BecomesStep
<1> QED
  BY <1>2, <1>3, <1>4, <1>5 DEF Helping

\* A toast that fails is gone; it loses its registration, as one that is a week old.
LEMMA ToastStep ==
    ASSUME IInv, NEW t \in Toast, ToastFails(t) \/ Expires(t)
    PROVE  IInv'
<1> USE DEF IInv
<1>1. PICK after \in {"old", "gone"} :
         /\ toasts[t].shown = "gone" => after = "gone"
         /\ toasts' = [toasts EXCEPT ![t].shown = after] /\ registry' = registry \ {t}
         /\ UNCHANGED <<phase, mode, installer, sessions, callbacks, clicked, activator>>
  <2>1. toasts[t].shown \in {"unraised", "shown", "old", "gone"}
    BY DEF TypeOK, Toasts
  <2> QED
    BY <2>1 DEF ToastFails, Expires, Released, Raised
<1>2. toasts[t].shown # "unraised"
  BY DEF ToastFails, Expires, Raised, Visible
<1>3. toasts \in [Toast -> Toasts] /\ registry \in SUBSET Toast /\ Cardinality(registry) <= MaxRegistrations
  BY DEF TypeOK
<1>4. /\ toasts' \in [Toast -> Toasts] /\ toasts'[t].shown = after /\ toasts'[t].of = toasts[t].of
      /\ \A u \in Toast : u # t => toasts'[u] = toasts[u]
  BY <1>1, <1>3 DEF Toasts
<1>5. \A u \in Toast : toasts'[u].of = toasts[u].of
                       /\ (toasts'[u].shown = "unraised" <=> toasts[u].shown = "unraised")
  BY <1>2, <1>4
<1>6. TypeOK'
  <2>1. registry' \in SUBSET Toast /\ Cardinality(registry') <= MaxRegistrations
    BY <1>1, <1>3, ToastsFinite, BoundsAssumption
  <2> QED
    BY <1>1, <1>4, <2>1 DEF TypeOK
<1>7. Sound(activator') /\ Works(activator') /\ (Pending' => activator'.active)
  <2>1. Pending' => Pending
    BY <1>1, <1>3, <1>5 DEF Pending, Pruned
  <2> QED
    BY <1>1, <2>1
<1>8. Phased' /\ Installed'
  BY <1>1, <1>5 DEF Phased, Installed
<1>9. Raised'
  <2>1. /\ \A u \in Toast : /\ toasts'[u].shown = "unraised" <=> toasts'[u].of = None
                            /\ toasts'[u].of # None => sessions'[toasts'[u].of] # "none"
        /\ \A u, v \in Toast : v < u /\ toasts'[v].shown = "unraised" => toasts'[u].shown = "unraised"
        /\ \A u \in registry' \cup clicked' : toasts'[u].shown # "unraised"
        /\ clicked' \cap registry' = {}
    BY <1>1, <1>3, <1>5 DEF Raised, TypeOK
  <2>2. \A c \in callbacks' : IF c.action = "timedout" THEN toasts'[c.toast].shown # "unraised"
                              ELSE toasts'[c.toast].shown = "gone"
    <3>1. \A c \in callbacks : c.toast \in Toast
      BY DEF TypeOK
    <3> QED
      BY <1>1, <1>4, <1>5, <3>1 DEF Raised
  <2> QED
    BY <2>1, <2>2 DEF Raised
<1>10. Selectable'
  <2>1. \A u \in Toast : Newer(u)' = Newer(u)
    BY <1>5 DEF Newer
  <2> QED
    BY <1>1, <1>4, <2>1 DEF Selectable, Serving
<1> QED
  BY <1>6, <1>7, <1>8, <1>9, <1>10

\* What the user does with a toast, and whether that is told.
LEMMA AnsweredStep ==
    ASSUME IInv, NEW t \in Toast, NEW action \in Answers, Answered(t, action)
    PROVE  IInv'
<1> USE DEF IInv
<1> DEFINE c0 == [toast |-> t, action |-> action]
<1>1. /\ toasts' = [toasts EXCEPT ![t].shown = IF action = "timedout" THEN @ ELSE "gone"]
      /\ callbacks' \subseteq callbacks \cup {c0} /\ toasts[t].shown \in {"shown", "old"}
      /\ UNCHANGED <<phase, mode, installer, sessions, registry, clicked, activator>>
  BY DEF Answered, Visible
<1>2. toasts \in [Toast -> Toasts] /\ registry \subseteq Toast /\ callbacks \subseteq [toast : Toast, action : Answers]
  BY DEF TypeOK
<1>3. /\ toasts' \in [Toast -> Toasts]
      /\ toasts'[t].shown = IF action = "timedout" THEN toasts[t].shown ELSE "gone"
      /\ \A u \in Toast : toasts'[u].of = toasts[u].of /\ (u # t => toasts'[u] = toasts[u])
  BY <1>1, <1>2 DEF Toasts
<1>4. \A u \in Toast : /\ toasts'[u].shown = "unraised" <=> toasts[u].shown = "unraised"
                       /\ toasts'[u].shown = "shown" => toasts[u].shown = "shown"
  BY <1>1, <1>3
<1>5. c0 \in [toast : Toast, action : Answers] /\ c0.toast = t /\ c0.action = action
  OBVIOUS
<1>6. TypeOK'
  BY <1>1, <1>2, <1>3, <1>5 DEF TypeOK
<1>7. Sound(activator') /\ Works(activator') /\ (Pending' => activator'.active)
  <2>1. Pending' => Pending
    BY <1>1, <1>2, <1>3 DEF Pending, Pruned
  <2> QED
    BY <1>1, <2>1
<1>8. Phased' /\ Installed'
  BY <1>1, <1>4 DEF Phased, Installed
<1>9. Raised'
  <2>1. /\ \A u \in Toast : /\ toasts'[u].shown = "unraised" <=> toasts'[u].of = None
                            /\ toasts'[u].of # None => sessions'[toasts'[u].of] # "none"
        /\ \A u, v \in Toast : v < u /\ toasts'[v].shown = "unraised" => toasts'[u].shown = "unraised"
        /\ \A u \in registry' \cup clicked' : toasts'[u].shown # "unraised"
        /\ clicked' \cap registry' = {}
    BY <1>1, <1>2, <1>3, <1>4 DEF Raised, TypeOK
  <2>2. ASSUME NEW c \in callbacks'
        PROVE  IF c.action = "timedout" THEN toasts'[c.toast].shown # "unraised"
               ELSE toasts'[c.toast].shown = "gone"
    <3> HIDE DEF c0
    <3>1. CASE c = c0
      BY <1>1, <1>3, <1>5, <3>1
    <3>2. CASE c \in callbacks
      <4>1. c.toast \in Toast
        BY <1>2, <3>2
      <4>2. c.action # "timedout" => c.toast # t
        BY <1>1, <3>2 DEF Raised
      <4> QED
        BY <1>3, <1>4, <3>2, <4>1, <4>2 DEF Raised
    <3> QED
      BY <1>1, <3>1, <3>2
  <2> QED
    BY <2>1, <2>2 DEF Raised
<1>10. Selectable'
  <2>1. \A u \in Toast : Newer(u)' = Newer(u)
    BY <1>3 DEF Newer
  <2> QED
    BY <1>1, <1>3, <1>4, <2>1 DEF Selectable, Serving
<1> QED
  BY <1>6, <1>7, <1>8, <1>9, <1>10

\* An answer uses up at most the registration of its own toast.
LEMMA AcceptsStep ==
    ASSUME IInv, NEW c \in callbacks, Accepts(c)
    PROVE  IInv'
<1> USE DEF IInv
<1> DEFINE reg == Pruned(registry, sessions)
<1>1. /\ Serving /\ mode = "selectable" /\ callbacks' \subseteq callbacks
      /\ registry' = ReleasedBy(reg, c)
      /\ clicked' = IF c.toast \in reg /\ c.action = "clicked" THEN clicked \cup {c.toast} ELSE clicked
      /\ UNCHANGED <<phase, mode, installer, sessions, toasts, activator>>
  BY DEF Accepts
<1>2. registry \in SUBSET Toast /\ Cardinality(registry) <= MaxRegistrations /\ c.toast \in Toast
  BY DEF TypeOK
<1>3. reg \subseteq registry /\ Cardinality(reg) <= MaxRegistrations
  BY <1>2, PrunedFacts
<1>4. \A t \in registry : sessions[toasts[t].of] = "live" => t \in reg
  BY DEF Pruned
<1> HIDE DEF reg
<1>5. /\ registry' \subseteq reg
      /\ \A t \in reg : t \notin registry' => t = c.toast /\ toasts[t].shown = "gone"
      /\ c.action = "clicked" => c.toast \notin registry'
  BY <1>1 DEF ReleasedBy, Released, Raised
<1>6. TypeOK'
  <2>1. registry' \in SUBSET Toast /\ reg \in SUBSET Toast /\ registry' \in SUBSET reg
    BY <1>2, <1>3, <1>5
  <2>2. /\ Cardinality(registry') \in Nat /\ Cardinality(reg) \in Nat
        /\ Cardinality(registry') <= Cardinality(reg) /\ MaxRegistrations \in Nat
    BY <2>1, ToastsFinite, BoundsAssumption
  <2>3. Cardinality(registry') <= MaxRegistrations
    BY <1>3, <2>2
  <2> QED
    BY <1>1, <1>2, <2>1, <2>3 DEF TypeOK
<1>7. Sound(activator') /\ Works(activator') /\ (Pending' => activator'.active)
  <2>1. Pending' => Pending
    BY <1>1, <1>3, <1>5 DEF Pending, Pruned
  <2> QED
    BY <1>1, <2>1
<1>8. Phased' /\ Installed'
  BY <1>1, <1>3, <1>5 DEF Phased, Installed, Serving
<1>9. Raised'
  BY <1>1, <1>2, <1>3, <1>5 DEF Raised
<1>10. Selectable'
  BY <1>1, <1>4, <1>5 DEF Selectable, Serving, Newer
<1> QED
  BY <1>6, <1>7, <1>8, <1>9, <1>10

\* ensureRunning in a window that serves: the activator works if something is pending.
LEMMA EnsuredStep ==
    ASSUME IInv, Serving, NEW pending \in BOOLEAN, NEW launched \in Launches
    PROVE  LET b == Ensured(activator, pending, launched)
           IN  Sound(b) /\ Works(b) /\ ~b.disposed /\ (pending => b.active)
<1>1. Sound(activator) /\ Works(activator) /\ ~activator.disposed
  BY DEF IInv, Phased, Serving
<1>2. launched \in [Slot -> BOOLEAN]
  BY DEF Launches
<1>3. LET b == Ensured(activator, pending, launched)
      IN  Sound(b) /\ Works(b) /\ b.disposed = activator.disposed /\ (pending /\ ~activator.disposed => b.active)
  BY <1>1, <1>2, EnsuredSound
<1> QED
  BY <1>1, <1>3

\* A session starts, begins to close or ends.
LEMMA SessionStep ==
    ASSUME IInv, NEW s \in Session, SessionStarts(s) \/ SessionCloses(s) \/ SessionEnds(s)
    PROVE  IInv'
<1> USE DEF IInv
<1>1. PICK from, to : /\ SessionChanges(s, from, to) /\ to \in {"live", "closing", "gone"}
                      /\ to = "live" => from = {"none"}
  <2>1. CASE SessionStarts(s)
    BY <2>1 DEF SessionStarts
  <2>2. CASE SessionCloses(s)
    BY <2>2 DEF SessionCloses
  <2>3. CASE SessionEnds(s)
    BY <2>3 DEF SessionEnds
  <2> QED
    BY <2>1, <2>2, <2>3
<1> DEFINE present == [sessions EXCEPT ![s] = to]
           reg == Pruned(registry, present)
<1>2. /\ Serving /\ sessions[s] \in from /\ sessions' = present
      /\ \E launched \in Launches :
            IF mode = "selectable"
            THEN registry' = reg /\ activator' = Ensured(activator, reg # {}, launched)
            ELSE UNCHANGED <<registry, activator>>
      /\ UNCHANGED <<phase, mode, installer, toasts, callbacks, clicked>>
  BY <1>1 DEF SessionChanges
<1>3. /\ registry \in SUBSET Toast /\ Cardinality(registry) <= MaxRegistrations
      /\ toasts \in [Toast -> Toasts] /\ sessions \in [Session -> {"none", "gone"} \cup Present]
  BY DEF TypeOK
<1>4. /\ present \in [Session -> {"none", "gone"} \cup Present] /\ present[s] = to
      /\ \A r \in Session : r # s => present[r] = sessions[r]
  BY <1>1, <1>3 DEF Present
<1>5. reg \subseteq registry /\ Cardinality(reg) <= MaxRegistrations
  BY <1>3, PrunedFacts
<1>6. \A t \in registry : present[toasts[t].of] = "live" => t \in reg
  BY DEF Pruned
<1>7. mode = "selectable" => registry' = reg
  BY <1>2
<1>8. mode # "selectable" => registry = {} /\ registry' = registry
  BY <1>2 DEF Phased
<1>9. registry' \subseteq registry /\ Cardinality(registry') <= MaxRegistrations
  BY <1>3, <1>5, <1>7, <1>8
<1>10. /\ Sound(activator') /\ Works(activator') /\ ~activator'.disposed
       /\ mode = "selectable" => (reg # {} => activator'.active)
  <2>1. CASE mode = "selectable"
    <3>1. PICK launched \in Launches : activator' = Ensured(activator, reg # {}, launched)
      BY <1>2, <2>1
    <3>2. (reg # {}) \in BOOLEAN
      OBVIOUS
    <3> HIDE DEF reg
    <3> QED
      BY <1>2, <2>1, <3>1, <3>2, EnsuredStep
  <2>2. CASE mode # "selectable"
    BY <1>2, <2>2 DEF Phased, Serving
  <2> QED
    BY <2>1, <2>2
<1> HIDE DEF reg, present
<1>11. \A t \in Toast : toasts[t].of # None =>
         /\ toasts[t].of \in Session /\ present[toasts[t].of] # "none"
         /\ present[toasts[t].of] = "live" => sessions[toasts[t].of] = "live"
  <2> SUFFICES ASSUME NEW t \in Toast, toasts[t].of # None
               PROVE  /\ toasts[t].of \in Session /\ present[toasts[t].of] # "none"
                      /\ present[toasts[t].of] = "live" => sessions[toasts[t].of] = "live"
    OBVIOUS
  <2>1. toasts[t].of \in Session
    BY <1>3 DEF Toasts
  <2>2. sessions[toasts[t].of] # "none"
    BY DEF Raised
  <2> QED
    BY <1>1, <1>2, <1>4, <2>1, <2>2
<1>12. TypeOK'
  BY <1>2, <1>3, <1>4, <1>9, <1>10 DEF TypeOK, Sound
<1>13. Pending' => activator'.active
  <2>1. Pending' => registry' # {}
    BY DEF Pending, Pruned
  <2> QED
    BY <1>7, <1>8, <1>10, <2>1
<1>14. Phased' /\ Installed'
  BY <1>2, <1>8, <1>10 DEF Phased, Installed, Serving
<1>15. Raised'
  BY <1>2, <1>9, <1>11 DEF Raised
<1>16. Selectable'
  BY <1>2, <1>6, <1>7, <1>11 DEF Selectable, Serving, Newer, Raised
<1> QED
  BY <1>10, <1>12, <1>13, <1>14, <1>15, <1>16

\* A toast is raised: if its registration pushes another out, there are as many
\* newer ones as the registry holds.
LEMMA RaiseStep ==
    ASSUME IInv, NEW s \in Session, Raises(s)
    PROVE  IInv'
<1> USE DEF IInv
<1> DEFINE t == CHOOSE t \in Unraised : \A u \in Unraised : t <= u
           old == Pruned(registry, sessions)
           reg == Registered(old, t)
           kept == IF sessions[s] = "live" THEN reg ELSE Released(reg, t)
<1>1. /\ Serving /\ sessions[s] \in Present /\ mode # "silent" /\ Unraised # {}
      /\ toasts' = [toasts EXCEPT ![t].of = s, ![t].shown = "shown"]
      /\ \E launched \in Launches :
            IF mode = "selectable"
            THEN registry' = kept /\ activator' = Ensured(activator, kept # {}, launched)
            ELSE UNCHANGED <<registry, activator>>
      /\ UNCHANGED <<phase, mode, installer, sessions, callbacks, clicked>>
  BY DEF Raises
<1>2. t \in Toast /\ toasts[t].shown = "unraised" /\ \A u \in Unraised : t <= u
  <2>1. Unraised \in SUBSET Nat
    BY DEF Unraised, Toast
  <2>2. \E x \in Unraised : \A u \in Unraised : x <= u
    BY <1>1, <2>1, Least
  <2>3. t \in Unraised /\ \A u \in Unraised : t <= u
    BY <2>2, Zenon
  <2> QED
    BY <2>3 DEF Unraised
<1>3. /\ registry \in SUBSET Toast /\ Cardinality(registry) <= MaxRegistrations
      /\ toasts \in [Toast -> Toasts] /\ clicked \subseteq Toast
      /\ callbacks \subseteq [toast : Toast, action : Answers]
  BY DEF TypeOK
<1>4. old \subseteq registry /\ Cardinality(old) <= MaxRegistrations
  BY <1>3, PrunedFacts
<1>5. \A u \in registry : sessions[toasts[u].of] = "live" => u \in old
  BY DEF Pruned
<1> HIDE DEF t, old
<1>6. t \notin registry /\ t \notin clicked
  BY <1>2 DEF Raised
<1>7. /\ reg \subseteq old \cup {t} /\ t \in reg /\ Cardinality(reg) <= MaxRegistrations
      /\ \A u \in old : u \notin reg =>
           /\ \A v \in old : u <= v
           /\ Cardinality((old \ {u}) \cup {t}) >= MaxRegistrations
  <2>1. old \in SUBSET Toast
    BY <1>3, <1>4
  <2>2. t \notin old
    BY <1>4, <1>6
  <2> HIDE DEF reg
  <2> QED
    BY <1>2, <1>4, <2>1, <2>2, RegisteredFacts DEF reg
<1> HIDE DEF reg
<1>8. /\ kept \subseteq reg /\ (sessions[s] = "live" => t \in kept) /\ \A u \in reg : u # t => u \in kept
      /\ Cardinality(kept) <= MaxRegistrations
  <2>1. kept \in SUBSET reg /\ reg \in SUBSET Toast
    BY <1>2, <1>3, <1>4, <1>7 DEF Released
  <2>2. /\ Cardinality(kept) \in Nat /\ Cardinality(reg) \in Nat /\ MaxRegistrations \in Nat
        /\ Cardinality(kept) <= Cardinality(reg)
    BY <2>1, ToastsFinite, BoundsAssumption
  <2> QED
    BY <1>7, <2>1, <2>2 DEF Released
<1>9. /\ mode = "selectable" => registry' = kept
      /\ mode # "selectable" => registry = {} /\ registry' = registry
  BY <1>1 DEF Phased
<1>10. /\ Sound(activator') /\ Works(activator') /\ ~activator'.disposed
       /\ mode = "selectable" => (kept # {} => activator'.active)
  <2>1. CASE mode = "selectable"
    <3>1. PICK launched \in Launches : activator' = Ensured(activator, kept # {}, launched)
      BY <1>1, <2>1
    <3>2. (kept # {}) \in BOOLEAN
      OBVIOUS
    <3> HIDE DEF kept
    <3> QED
      BY <1>1, <2>1, <3>1, <3>2, EnsuredStep
  <2>2. CASE mode # "selectable"
    BY <1>1, <2>2 DEF Phased, Serving
  <2> QED
    BY <2>1, <2>2
<1> HIDE DEF kept
<1>11. registry' \subseteq registry \cup {t} /\ Cardinality(registry') <= MaxRegistrations
  BY <1>3, <1>4, <1>7, <1>8, <1>9
<1>12. /\ toasts' \in [Toast -> Toasts] /\ toasts'[t].of = s /\ toasts'[t].shown = "shown"
       /\ \A u \in Toast : u # t => toasts'[u] = toasts[u]
  BY <1>1, <1>2, <1>3 DEF Toasts
<1>13. TypeOK'
  BY <1>1, <1>2, <1>3, <1>10, <1>11, <1>12 DEF TypeOK, Sound
<1>14. Pending' => activator'.active
  <2>1. Pending' => registry' # {}
    BY DEF Pending, Pruned
  <2> QED
    BY <1>9, <1>10, <2>1
<1>15. Phased' /\ Installed'
  BY <1>1, <1>9, <1>10 DEF Phased, Installed, Serving
<1>16. Raised'
  <2>1. s # None /\ sessions[s] # "none"
    BY <1>1, NoneAssumption DEF Present
  <2>2. \A u \in Toast : /\ toasts'[u].shown = "unraised" <=> toasts'[u].of = None
                         /\ toasts'[u].of # None => sessions'[toasts'[u].of] # "none"
    BY <1>1, <1>12, <2>1 DEF Raised
  <2>3. ASSUME NEW u \in Toast, NEW v \in Toast, v < u, toasts'[v].shown = "unraised"
        PROVE  toasts'[u].shown = "unraised"
    <3>1. v # t /\ toasts[v].shown = "unraised"
      BY <1>12, <2>3
    <3>2. t <= v
      BY <1>2, <3>1 DEF Unraised
    <3>3. u # t
      BY <1>2, <2>3, <3>2 DEF Toast
    <3> QED
      BY <1>12, <2>3, <3>1, <3>3 DEF Raised
  <2>4. /\ \A u \in registry' \cup clicked' : toasts'[u].shown # "unraised"
        /\ clicked' \cap registry' = {}
    BY <1>1, <1>3, <1>6, <1>11, <1>12 DEF Raised
  <2>5. \A c \in callbacks' : IF c.action = "timedout" THEN toasts'[c.toast].shown # "unraised"
                              ELSE toasts'[c.toast].shown = "gone"
    <3>1. \A c \in callbacks : c.toast \in Toast /\ c.toast # t
      BY <1>2, <1>3 DEF Raised
    <3> QED
      BY <1>1, <1>12, <3>1 DEF Raised
  <2> QED
    BY <2>2, <2>3, <2>4, <2>5 DEF Raised
<1>17. Selectable'
  <2> SUFFICES ASSUME mode = "selectable", NEW u \in Toast, toasts'[u].shown = "shown",
                      sessions[toasts'[u].of] = "live", u \notin registry'
               PROVE  Cardinality(Newer(u)') >= MaxRegistrations
    BY <1>1 DEF Selectable
  <2>1. u # t
    BY <1>8, <1>9, <1>12
  <2>2. toasts[u].shown = "shown" /\ sessions[toasts[u].of] = "live"
    BY <1>12, <2>1
  <2>3. Newer(u) \subseteq Newer(u)' /\ Newer(u)' \in SUBSET Toast
    BY <1>2, <1>12, NoneAssumption DEF Newer
  <2>4. CASE u \in registry
    <3>1. u \in old /\ u \notin reg
      BY <1>5, <1>8, <1>9, <2>1, <2>2, <2>4
    <3>2. (old \ {u}) \cup {t} \subseteq Newer(u)'
      <4>1. ASSUME NEW v \in old \ {u}
            PROVE  v \in Newer(u)'
        <5>1. u <= v /\ v \in Toast /\ v \in registry
          BY <1>3, <1>4, <1>7, <3>1
        <5>2. v > u
          BY <5>1 DEF Toast
        <5>3. toasts[v].of # None
          BY <5>1 DEF Raised
        <5> QED
          BY <1>6, <1>12, <5>1, <5>2, <5>3 DEF Newer
      <4>2. t > u
        <5>1. ~(t < u)
          BY <1>2, <2>2 DEF Raised
        <5> QED
          BY <1>2, <2>1, <5>1 DEF Toast
      <4>3. t \in Newer(u)'
        BY <1>2, <1>12, <4>2, NoneAssumption DEF Newer
      <4> QED
        BY <4>1, <4>3
    <3>3. Cardinality((old \ {u}) \cup {t}) >= MaxRegistrations
      BY <1>7, <3>1
    <3> DEFINE pushing == (old \ {u}) \cup {t}
               newer == Newer(u)'
    <3>4. pushing \in SUBSET newer /\ newer \in SUBSET Toast
      BY <2>3, <3>2
    <3> HIDE DEF pushing, newer
    <3>5. /\ Cardinality(pushing) <= Cardinality(newer)
          /\ Cardinality(pushing) \in Nat /\ Cardinality(newer) \in Nat /\ MaxRegistrations \in Nat
      BY <3>4, ToastsFinite, BoundsAssumption
    <3> QED
      BY <3>3, <3>5 DEF pushing, newer
  <2>5. CASE u \notin registry
    <3>1. Cardinality(Newer(u)) >= MaxRegistrations
      BY <1>1, <2>2, <2>5 DEF Selectable
    <3> DEFINE before == Newer(u)
               newer == Newer(u)'
    <3>2. before \in SUBSET newer /\ newer \in SUBSET Toast
      BY <2>3
    <3> HIDE DEF before, newer
    <3>3. /\ Cardinality(before) <= Cardinality(newer)
          /\ Cardinality(before) \in Nat /\ Cardinality(newer) \in Nat /\ MaxRegistrations \in Nat
      BY <3>2, ToastsFinite, BoundsAssumption
    <3> QED
      BY <3>1, <3>3 DEF before, newer
  <2> QED
    BY <2>4, <2>5
<1> QED
  BY <1>10, <1>13, <1>14, <1>15, <1>16, <1>17

----------------------------------------------------------------------------
(* The theorems *)

\* The first state has nothing raised, nothing registered and an activator at rest.
LEMMA InitInv == Init => IInv
<1> SUFFICES ASSUME Init PROVE IInv
  OBVIOUS
<1> USE DEF Init
<1>1. Idle \in Activators /\ ~Idle.active /\ ~Idle.disposed /\ ~Idle.renewing
      /\ (\A w \in Helper : ~Kept(Idle, w)) /\ \A k \in Slot : ~Covered(Idle, k) /\ Idle.slots[k] = None
  BY DEF Idle, Activators, Kept, Covered, Slot
<1>2. Sound(activator) /\ Works(activator)
  BY <1>1 DEF Sound, Works, Slots, Priors, Resting
<1>3. TypeOK
  <2>1. Cardinality({}) = 0 /\ MaxRegistrations \in Nat
    BY FS_EmptySet, BoundsAssumption
  <2> QED
    BY <1>1, <2>1 DEF TypeOK, Phases, Modes, Toasts
<1>4. ~Pending
  BY DEF Pending, Pruned
<1>5. Phased /\ Installed /\ Raised /\ Selectable
  BY <1>1 DEF Phased, Installed, Raised, Selectable, Serving
<1> QED
  BY <1>2, <1>3, <1>4, <1>5 DEF IInv

\* Every step keeps the invariant.
LEMMA StepInv == IInv /\ [Next]_vars => IInv'
<1> SUFFICES ASSUME IInv, [Next]_vars PROVE IInv'
  OBVIOUS
<1>1. CASE Activation
  BY <1>1, ActivationStep
<1>2. CASE Waiting
  <2>1. ASSUME NEW s \in Session, SessionStarts(s) \/ SessionCloses(s) \/ SessionEnds(s)
        PROVE  IInv'
    BY <2>1, SessionStep
  <2>2. ASSUME NEW s \in Session, Raises(s)
        PROVE  IInv'
    BY <2>2, RaiseStep
  <2>3. ASSUME NEW t \in Toast, ToastFails(t) \/ Expires(t)
        PROVE  IInv'
    BY <2>3, ToastStep
  <2>4. ASSUME NEW t \in Toast, NEW action \in Answers, Answered(t, action)
        PROVE  IInv'
    BY <2>4, AnsweredStep
  <2>5. ASSUME NEW c \in callbacks, Accepts(c)
        PROVE  IInv'
    BY <2>5, AcceptsStep
  <2> QED
    BY <1>2, <2>1, <2>2, <2>3, <2>4, <2>5 DEF Waiting
<1>3. CASE Helping
  BY <1>3, HelpingStep
<1>4. CASE UNCHANGED vars
  BY <1>4 DEF IInv, vars, toastVars, TypeOK, Pending, Pruned, Phased, Installed, Raised, Selectable, Serving, Newer
<1> QED
  BY <1>1, <1>2, <1>3, <1>4 DEF Next

\* The inductive invariant holds throughout.
THEOREM Invariance == Spec => []IInv
<1>1. Init => IInv
  BY InitInv
<1>2. IInv /\ [Next]_vars => IInv'
  BY StepInv
<1> QED
  BY <1>1, <1>2, PTL DEF Spec

\* Types, and the limit on registrations.
THEOREM TypeCorrect == Spec => []TypeOK
<1>1. IInv => TypeOK
  BY DEF IInv
<1> QED
  BY <1>1, Invariance, PTL

\* The helpers follow what is pending and no staging link is left, however
\* launches fail, helpers end and the installer ends.
THEOREM NothingLeft == Spec => []NothingLeftBehind
<1>1. IInv => NothingLeftBehind
  <2> SUFFICES ASSUME IInv PROVE NothingLeftBehind
    OBVIOUS
  <2> USE DEF IInv
  <2>1. activator.active => activator.renewing /\
        \A k \in Slot :
          \/ activator.retries[k]
          \/ LET w == activator.slots[k] IN w # None /\ Kept(activator, w) /\ ~activator.workers[w].retiring
    BY DEF Works, Covered, Sound, Slots
  <2>2. ~activator.active => ~activator.renewing /\ \A k \in Slot : ~activator.retries[k]
    BY DEF Sound, Resting, Covered
  <2>3. \A w \in Helper : Kept(activator, w) =>
          activator.active /\ (activator.slots[activator.workers[w].slot] = w \/ activator.workers[w].retiring)
    BY DEF Sound, Resting, Slots
  <2> QED
    BY <2>1, <2>2, <2>3 DEF NothingLeftBehind, Installed
<1> QED
  BY <1>1, Invariance, PTL

\* A toast that can be seen leads to its session while that lives, unless newer
\* ones filled the registry; and no toast selects twice.
THEOREM ToastsLead == Spec => []ToastsSelectable
<1>1. IInv => ToastsSelectable
  BY DEF IInv, ToastsSelectable, Selectable, Newer, Raised
<1> QED
  BY <1>1, Invariance, PTL
=============================================================================
