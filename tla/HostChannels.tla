----------------------------- MODULE HostChannels -----------------------------
(***************************************************************************)
(* The private directories through which an extension host talks to the    *)
(* hooks inside Claude: its attention channel (attentionChannel.ts), opened *)
(* by the activation, and its composer directory with one channel for each *)
(* launch (claudeComposerAdapter.ts, prepared for by composerRuntime.ts).  *)
(*                                                                         *)
(* Every window has a host and all hosts share the storage. A host removes *)
(* what hosts that are gone have left, and can itself be gone at any       *)
(* moment; the system gives its process id to a later one. A session may   *)
(* end, and the window close, while its channel is being made.             *)
(***************************************************************************)
EXTENDS FiniteSets

CONSTANTS
    Host,      \* extension hosts, in the course of time
    Earlier,   \* those of them that are gone at the start
    Pid,       \* process ids
    Launch,    \* launches of sessions
    Nil       \* undefined

ASSUME ChannelAssumption ==
    /\ Nil \notin Host \cup Pid /\ Host \cap Launch = {} /\ Earlier \subseteq Host
    /\ Pid # {}

VARIABLES
    step,       \* host: how far it has come
    pid,        \* host: its process id
    found,      \* host: the entries of its listing it has yet to judge
    owed,       \* host: what it listed of hosts that were gone, less what it had to leave (history)
    closing,    \* host: how far deactivate has come
    opened,     \* the hosts that have an attention channel
    attention,  \* disk: the attention channel of each host
    composer,   \* disk: the composer directory of each host
    dirs,       \* disk: the launches whose channel is in the composer directory
    launch,     \* launch: how far prepareLaunch has come
    by,         \* launch: its host
    session,    \* launch: its session, as the composer runtime knows it
    bound,      \* launches with a binding, of the adapter and of the broker
    refused,    \* the launches' and hosts' composer directories that could not be removed (history)
    misread     \* hosts whose owner file could not be read (history)

hosts == <<step, pid, closing, opened>>
listing == <<found, owed>>
launches == <<launch, by, session, bound>>
history == <<refused, misread>>
channelVars == <<hosts, listing, attention, composer, dirs, launches, history>>

Entries == [of : Host, name : {"creating", "open"}]

ChannelsTypeOK ==
    /\ step \in [Host -> {"off", "pruning", "staging", "up", "sweeping", "making", "ready", "gone"}]
    /\ pid \in [Host -> Pid \cup {Nil}]
    /\ found \in [Host -> SUBSET Entries] /\ owed \in [Host -> SUBSET Host]
    /\ closing \in [Host -> {"no", "flushing", "erasing", "erased", "over"}]
    /\ opened \subseteq Host
    /\ attention \in [Host -> {"none", "creating", "open"}]
    /\ composer \in [Host -> {"none", "bare", "owned"}]
    /\ launch \in [Launch -> {"idle", "admitting", "hosting", "connecting", "bridged", "plain", "erasing", "over"}]
    /\ by \in [Launch -> Host \cup {Nil}]
    /\ session \in [Launch -> {"none", "open", "closing", "removed", "over"}]
    /\ dirs \subseteq Launch /\ bound \subseteq {l \in Launch : launch[l] = "bridged"}
    /\ refused \subseteq Host \cup Launch /\ misread \subseteq Host
    /\ \A h, k \in Host : h # k /\ step[h] \notin {"off", "gone"} /\ step[k] \notin {"off", "gone"} => pid[h] # pid[k]
    /\ \A h \in Host : step[h] \notin {"pruning", "sweeping"} => found[h] = {}

\* What the earlier hosts had open is there; ids are only compared, theirs is any.
ChannelsInit ==
    /\ step = [h \in Host |-> IF h \in Earlier THEN "gone" ELSE "off"]
    /\ pid = [h \in Host |-> IF h \in Earlier THEN CHOOSE p \in Pid : TRUE ELSE Nil]
    /\ attention \in {a \in [Host -> {"none", "creating", "open"}] : \A h \in Host : a[h] = "none" <=> h \notin Earlier}
    /\ composer \in {c \in [Host -> {"none", "bare", "owned"}] : \A h \in Host : c[h] = "none" <=> h \notin Earlier}
    /\ found = [h \in Host |-> {}] /\ owed = [h \in Host |-> {}]
    /\ closing = [h \in Host |-> "no"] /\ opened = {} /\ dirs = {}
    /\ launch = [l \in Launch |-> "idle"] /\ by = [l \in Launch |-> Nil]
    /\ session = [l \in Launch |-> "none"] /\ bound = {}
    /\ refused = {} /\ misread = {}

Alive(h) == step[h] \notin {"off", "gone"}

\* process.kill(pid, 0): some process has that id.
InUse(p) == \E h \in Host : Alive(h) /\ pid[h] = p

Of(h) == {l \in Launch : by[l] = h}

Goes(h, to) == step' = [step EXCEPT ![h] = to]

----------------------------------------------------------------------------
(* openAttentionChannel *)

\* The window is opened: its host lists the channels there are.
Start(h) ==
    /\ step[h] = "off" /\ Goes(h, "pruning")
    /\ \E p \in Pid : ~InUse(p) /\ pid' = [pid EXCEPT ![h] = p]
    /\ found' = [found EXCEPT ![h] = {[of |-> v, name |-> attention[v]] : v \in {u \in Host : attention[u] # "none"}}]
    /\ owed' = [owed EXCEPT ![h] = {v \in Host : step[v] = "gone"}]
    /\ UNCHANGED <<closing, opened, attention, composer, dirs, launches, history>>

\* Mutant: a channel that is being created is a leftover.
StagingIsOrphaned(entry) == entry.name = "creating" \/ ~InUse(pid[entry.of])

\* The owner of an entry, named by the staging directory or by the owner file, is gone.
Orphaned(entry) == ~InUse(pid[entry.of])

\* A channel whose owner file cannot be read has no owner.
Unreadable(entry) == entry.name = "open"

Judged(h, entry) == found' = [found EXCEPT ![h] = @ \ {entry}]

\* The entry stays: its owner may live, or its removal has failed.
Left(h, entry) == owed' = [owed EXCEPT ![h] = @ \ {entry.of}]

\* Mutant: the first removal that fails ends the pruning.
PruneUntilFailure(h) ==
    /\ step[h] = "pruning"
    /\ \E entry \in found[h] :
         \/ Orphaned(entry) /\ Left(h, entry) /\ found' = [found EXCEPT ![h] = {}] /\ UNCHANGED <<attention, misread>>
         \/ ~Orphaned(entry) /\ Left(h, entry) /\ Judged(h, entry) /\ UNCHANGED <<attention, misread>>
    /\ UNCHANGED <<hosts, composer, dirs, launches, refused>>

\* removeOrphanedChannels, one entry; the removal may fail, or come too late.
Prune(h) ==
    /\ step[h] = "pruning"
    /\ \E entry \in found[h] :
         LET v == entry.of IN
         /\ Judged(h, entry)
         /\ \/ Left(h, entry) /\ UNCHANGED <<attention, misread>>
            \/ /\ Orphaned(entry) \/ Unreadable(entry)
               /\ attention' = IF attention[v] = entry.name THEN [attention EXCEPT ![v] = "none"] ELSE attention
               /\ misread' = IF Orphaned(entry) THEN misread ELSE misread \cup {v}
               /\ UNCHANGED owed
    /\ UNCHANGED <<hosts, composer, dirs, launches, refused>>

\* The channel is created under a name that says whose it is.
Stage(h) ==
    /\ step[h] = "pruning" /\ found[h] = {} /\ Goes(h, "staging")
    /\ attention' = [attention EXCEPT ![h] = "creating"]
    /\ UNCHANGED <<pid, closing, opened, listing, composer, dirs, launches, history>>

\* The owner file is in it: it gets its own name, at once.
Publish(h) ==
    /\ step[h] = "staging" /\ Goes(h, "up")
    /\ attention' = [attention EXCEPT ![h] = "open"]
    /\ opened' = opened \cup {h}
    /\ UNCHANGED <<pid, closing, listing, composer, dirs, launches, history>>

\* Any of these steps fails: the window does without, and the staging directory may stay.
OpenFails(h) ==
    /\ step[h] \in {"pruning", "staging"} /\ Goes(h, "up")
    /\ attention' \in {attention, [attention EXCEPT ![h] = "none"]}
    /\ found' = [found EXCEPT ![h] = {}] /\ owed' = [owed EXCEPT ![h] = {}]
    /\ UNCHANGED <<pid, closing, opened, composer, dirs, launches, history>>

----------------------------------------------------------------------------
(* The composer directory of a host *)

\* pruneDeadComposerChannels, one entry: without a readable owner it is left alone.
Sweep(h) ==
    /\ step[h] = "sweeping"
    /\ \E entry \in found[h] :
         LET v == entry.of IN
         /\ Judged(h, entry)
         /\ \/ Left(h, entry) /\ UNCHANGED <<composer, dirs>>
            \/ /\ composer[v] = "owned" /\ Orphaned(entry)
               /\ composer' = [composer EXCEPT ![v] = "none"]
               /\ dirs' = dirs \ Of(v)
               /\ UNCHANGED owed
    /\ UNCHANGED <<hosts, attention, launches, history>>

\* mkdtemp.
MakeDirectory(h) ==
    /\ step[h] = "sweeping" /\ found[h] = {} /\ Goes(h, "making")
    /\ composer' = [composer EXCEPT ![h] = "bare"]
    /\ UNCHANGED <<pid, closing, opened, listing, attention, dirs, launches, history>>

\* The owner file is written.
OwnDirectory(h) ==
    /\ step[h] = "making" /\ Goes(h, "ready")
    /\ composer' = [composer EXCEPT ![h] = "owned"]
    /\ UNCHANGED <<pid, closing, opened, listing, attention, dirs, launches, history>>

\* Any of these steps fails, for all that wait for the directory; the next launch tries again.
DirectoryFails(h) ==
    /\ step[h] \in {"sweeping", "making"} /\ Goes(h, "up")
    /\ composer' \in {composer, [composer EXCEPT ![h] = "none"]}
    /\ found' = [found EXCEPT ![h] = {}] /\ owed' = [owed EXCEPT ![h] = {}]
    /\ launch' = [l \in Launch |-> IF by[l] = h /\ launch[l] = "hosting" THEN "plain" ELSE launch[l]]
    /\ UNCHANGED <<pid, closing, opened, attention, dirs, by, session, bound, history>>

----------------------------------------------------------------------------
(* A launch *)

\* targetFor: the session is there and is not closing.
Target(l) == session[l] = "open"

Moves(l, to) == launch' = [launch EXCEPT ![l] = to]

\* A session is registered; its spawn waits for prepareLaunch.
Prepare(l, h) ==
    /\ launch[l] = "idle" /\ Moves(l, "admitting")
    /\ step[h] \in {"up", "sweeping", "making", "ready"} /\ closing[h] = "no"
    /\ by' = [by EXCEPT ![l] = h]
    /\ session' = [session EXCEPT ![l] = "open"]
    /\ UNCHANGED <<hosts, listing, attention, composer, dirs, bound, history>>

\* Claude's capabilities are known.  The first launch has the directory made.
Admit(l) ==
    /\ launch[l] = "admitting"
    /\ \/ Moves(l, "plain") /\ UNCHANGED <<step, listing>>
       \/ /\ Target(l)
          /\ Moves(l, "hosting")
          /\ IF step[by[l]] = "up"
             THEN /\ Goes(by[l], "sweeping")
                  /\ found' = [found EXCEPT ![by[l]] = {[of |-> v, name |-> "open"] : v \in {u \in Host : composer[u] # "none"}}]
                  /\ owed' = [owed EXCEPT ![by[l]] = {v \in Host : step[v] = "gone"}]
             ELSE UNCHANGED <<step, listing>>
    /\ UNCHANGED <<pid, closing, opened, attention, composer, dirs, by, session, bound, history>>

\* The launch's own directory is made, if its parent is there.
MakeChannel(l) ==
    /\ launch[l] = "hosting" /\ step[by[l]] = "ready"
    /\ \/ composer[by[l]] = "owned" /\ dirs' = dirs \cup {l} /\ Moves(l, "connecting")
       \/ Moves(l, "plain") /\ UNCHANGED dirs
    /\ UNCHANGED <<hosts, listing, attention, composer, by, session, bound, history>>

Removed(l) ==
    \/ dirs' = dirs \ {l} /\ UNCHANGED history
    \/ l \in dirs /\ refused' = refused \cup {l} /\ UNCHANGED <<dirs, misread>>

\* Mutant: the session is not looked at again.
ConnectUnchecked(l) ==
    /\ launch[l] = "connecting"
    /\ bound' = bound \cup {l} /\ Moves(l, "bridged")
    /\ UNCHANGED <<hosts, listing, attention, composer, dirs, by, session, history>>

\* The transport is there: Claude is told of the channel if its session still is the target.
Connect(l) ==
    /\ launch[l] = "connecting"
    /\ \/ Target(l) /\ bound' = bound \cup {l} /\ Moves(l, "bridged") /\ UNCHANGED <<dirs, history>>
       \/ Removed(l) /\ Moves(l, "plain") /\ UNCHANGED bound
    /\ UNCHANGED <<hosts, listing, attention, composer, by, session>>

\* The session is being closed, or leaves the registry; the runtime hears of it.
EndSession(l) ==
    /\ session[l] \in {"open", "closing"} /\ closing[by[l]] = "no"
    /\ \E to \in {"closing", "removed"} \ {session[l]} : session' = [session EXCEPT ![l] = to]
    /\ UNCHANGED <<hosts, listing, attention, composer, dirs, launch, by, bound, history>>

Disposes(l) ==
    /\ session[l] = "removed" /\ session' = [session EXCEPT ![l] = "over"]
    /\ UNCHANGED <<hosts, listing, attention, composer, dirs, by, history>>

\* Mutant: the binding is not taken out before its directory goes.
DisposeKeepsBinding(l) ==
    /\ Disposes(l) /\ UNCHANGED bound
    /\ launch' = IF l \in bound THEN [launch EXCEPT ![l] = "erasing"] ELSE launch

\* Mutant: only the broker forgets the session.
DisposeBrokerOnly(l) == Disposes(l) /\ bound' = bound \ {l} /\ UNCHANGED launch

\* ComposerController.close, its drafts flushed: the binding goes, then its directory.
Dispose(l) ==
    /\ Disposes(l)
    /\ bound' = bound \ {l}
    /\ launch' = IF l \in bound THEN [launch EXCEPT ![l] = "erasing"] ELSE launch

Erase(l) ==
    /\ launch[l] = "erasing"
    /\ Removed(l) /\ Moves(l, "over")
    /\ UNCHANGED <<hosts, listing, attention, composer, by, session, bound>>

----------------------------------------------------------------------------
(* The end of a host *)

Closes(h, to) == closing' = [closing EXCEPT ![h] = to]

\* ComposerRuntime.close: no session is a target any more.
Close(h) ==
    /\ closing[h] = "no" /\ step[h] \in {"up", "sweeping", "making", "ready"}
    /\ Closes(h, "flushing")
    /\ session' = [l \in Launch |-> IF l \in Of(h) /\ session[l] # "removed" THEN "over" ELSE session[l]]
    /\ UNCHANGED <<step, pid, opened, listing, attention, composer, dirs, launch, by, bound, history>>

\* The adapter's close: every binding goes ...
Unbind(h) ==
    /\ closing[h] = "flushing" /\ Alive(h) /\ Closes(h, "erasing")
    /\ bound' = bound \ Of(h)
    /\ UNCHANGED <<step, pid, opened, listing, attention, composer, dirs, launch, by, session, history>>

\* ... then the directory, once it has been made.
EraseDirectory(h) ==
    /\ closing[h] = "erasing" /\ step[h] \in {"up", "ready"} /\ Closes(h, "erased")
    /\ IF step[h] = "up" THEN UNCHANGED <<composer, dirs, history>>
       ELSE \/ /\ composer' = [composer EXCEPT ![h] = "none"]
               /\ dirs' = dirs \ Of(h)
               /\ UNCHANGED history
            \/ refused' = refused \cup {h} /\ UNCHANGED <<composer, dirs, misread>>
    /\ UNCHANGED <<step, pid, opened, listing, attention, launches>>

\* The attention channel is the last.
CloseAttention(h) ==
    /\ closing[h] = "erased" /\ Alive(h) /\ Closes(h, "over")
    /\ opened' = opened \ {h}
    /\ attention' \in {attention} \cup (IF h \in opened THEN {[attention EXCEPT ![h] = "none"]} ELSE {})
    /\ UNCHANGED <<step, pid, listing, composer, dirs, launches, history>>

\* The host ends, having closed or not: its memory is gone, the storage stays.
Die(h) ==
    /\ Alive(h) /\ Goes(h, "gone")
    /\ found' = [found EXCEPT ![h] = {}] /\ owed' = [owed EXCEPT ![h] = {}]
    /\ opened' = opened \ {h}
    /\ launch' = [l \in Launch |-> IF by[l] = h THEN "over" ELSE launch[l]]
    /\ session' = [l \in Launch |-> IF by[l] = h THEN "over" ELSE session[l]]
    /\ bound' = bound \ Of(h)
    /\ UNCHANGED <<pid, closing, attention, composer, dirs, by, history>>

----------------------------------------------------------------------------
HostStep(h) ==
    \/ Prune(h) \/ Stage(h) \/ Publish(h) \/ OpenFails(h)
    \/ Sweep(h) \/ MakeDirectory(h) \/ OwnDirectory(h) \/ DirectoryFails(h)
    \/ Unbind(h) \/ EraseDirectory(h) \/ CloseAttention(h)

LaunchStep(l) == Admit(l) \/ MakeChannel(l) \/ Connect(l) \/ Dispose(l) \/ Erase(l)

ChannelsNext ==
    \/ \E h \in Host : Start(h) \/ HostStep(h) \/ Close(h) \/ Die(h)
    \/ \E l \in Launch, h \in Host : Prepare(l, h)
    \/ \E l \in Launch : LaunchStep(l) \/ EndSession(l)

ChannelsSpec == ChannelsInit /\ [][ChannelsNext]_channelVars

\* What a host has begun goes on while it lives; it need not live.
FairSpec == ChannelsSpec /\ (\A h \in Host : WF_channelVars(HostStep(h))) /\ (\A l \in Launch : WF_channelVars(LaunchStep(l)))

----------------------------------------------------------------------------
(* A window's channels stand as long as it lives and uses them: no other   *)
(* window takes them for leftovers, neither while they are being created,  *)
(* nor when the process ids of the dead are given again; and a binding     *)
(* always has its directory.  The exception is what removeOrphanedChannels *)
(* does with an attention channel whose owner file cannot be read.         *)
ChannelsStand ==
    /\ \A h \in Host : Alive(h) =>
          /\ step[h] = "staging" => attention[h] = "creating"
          /\ h \in opened => attention[h] = "open" \/ h \in misread
          /\ step[h] = "making" => composer[h] = "bare"
          /\ step[h] = "ready" /\ closing[h] \notin {"erased", "over"} => composer[h] = "owned"
    /\ bound \subseteq dirs

(* A composer channel lasts as long as its session: Claude is told of none *)
(* that is not bound, however the end of the session, the close of the     *)
(* window and the steps of prepareLaunch overlap, and no binding and no    *)
(* directory is left behind by a host that lives, unless a removal failed. *)
BridgesFollow ==
    /\ \A l \in Launch : launch[l] = "bridged" /\ Target(l) => l \in bound
    /\ \A l \in bound : session[l] # "over" \/ closing[by[l]] = "flushing"
    /\ \A l \in dirs : Alive(by[l]) =>
          \/ l \in bound \/ launch[l] \in {"connecting", "erasing"}
          \/ closing[by[l]] = "erasing"
          \/ refused \cap {l, by[l]} # {}

(* What a crash leaves is removed by the next window, whoever else crashes *)
(* or prunes meanwhile and whichever removals fail: when it has pruned, no *)
(* attention channel of a host that was gone when it began is left, and    *)
(* when it has swept no composer directory with an owner, but those it     *)
(* could not remove or whose process id has a new owner.                   *)
LeftoversSwept ==
    \A h \in Host : \A v \in owed[h] :
        /\ step[h] = "staging" => attention[v] = "none"
        /\ step[h] \in {"making", "ready"} => composer[v] # "owned"

(* While its host lives, the channel of a session that has left goes.      *)
ChannelsGo ==
    \A l \in Launch :
        l \in dirs /\ session[l] \in {"removed", "over"}
            ~> l \notin dirs \/ refused \cap {l, by[l]} # {} \/ ~Alive(by[l])
=============================================================================
