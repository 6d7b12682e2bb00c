---------------------------- MODULE WorkspaceSetup ---------------------------
(***************************************************************************)
(* Which folders a session may be given: the configuration kept in the     *)
(* workspace state (configurationStore.ts, workspaceConfig.ts) and the     *)
(* popup that asks for it (setupController.ts), started by the activation, *)
(* by a change of the workspace's folders, by the command and by every     *)
(* launch.                                                                 *)
(*                                                                         *)
(* Setups run one at a time in the order they were asked for, each for the *)
(* folders of the moment it was asked for. Every update of the state is a  *)
(* step of its own: the window can be reloaded, or the update fail, after  *)
(* each.                                                                   *)
(***************************************************************************)
EXTENDS Integers, FiniteSets, SequencesExt

CONSTANTS
    Root,              \* workspace folders
    Undefined,         \* no folder, no configuration, no error
    FolderLists,       \* the folder lists the workspace file may name
    Selections,        \* bound: what the user may choose, [auto, override, imports]
    Caller,            \* who waits for a configuration: launches
    MaxEvents          \* bound: edits of the folder list, uses of the command, reloads and failures

Configs == [schema : {1, 2}, auto : BOOLEAN, roots : FolderLists,
            override : Root \cup {Undefined}, imports : [Root -> SUBSET Root]]

ASSUME SetupAssumption ==
    /\ Undefined \notin Root \cup Configs /\ Caller \cap {"ensure", "configure"} = {}
    /\ FolderLists \subseteq Seq(Root) /\ \A l \in FolderLists : IsInjective(l)
    /\ Selections \subseteq [auto : BOOLEAN, override : Root \cup {Undefined}, imports : [Root -> SUBSET Root]]
    /\ MaxEvents \in Nat

VARIABLES
    folders,   \* the workspace: its folders, in order
    saved,     \* the workspace: it has a file (WorkspaceModel.isEligible)
    mem,       \* the workspace state: the configuration and setupPending, as this window reads it
    disk,      \* ... and as the next window will
    queue,     \* SetupController.operationTail: the setups asked for, the running one first
    setup,     \* the running setup
    events,    \* the events that happened
    failed     \* an update of the workspace state has failed

setupVars == <<folders, saved, mem, disk, queue, setup, events, failed>>

Chosen(schema, roots, choice) ==
    [schema |-> schema, auto |-> choice.auto, roots |-> roots,
     override |-> choice.override, imports |-> choice.imports]

(* parseWorkspaceConfig: only a configuration about the roots it lists is  *)
(* accepted; one of the first schema never imported the default root.      *)
Parsed(raw) ==
    IF /\ raw # Undefined
       /\ raw.override \in ToSet(raw.roots) \cup {Undefined}
       /\ \A r \in Root : raw.imports[r] \subseteq IF r \in ToSet(raw.roots) THEN ToSet(raw.roots) \ {r} ELSE {}
    THEN [raw EXCEPT !.schema = 2, !.auto = raw.schema = 2 /\ raw.auto]
    ELSE Undefined

Safe(roots) ==
    [schema |-> 2, auto |-> FALSE, roots |-> roots, override |-> Undefined, imports |-> [r \in Root |-> {}]]

(* reconcileConfig: what still concerns the current roots. *)
Reconciled(config, roots) ==
    LET current == ToSet(roots)
    IN  [config EXCEPT
            !.roots = roots,
            !.override = IF @ \in current THEN @ ELSE Undefined,
            !.imports = [r \in Root |-> IF r \in current THEN @[r] \cap (current \ {r}) ELSE {}]]

\* The access the user agreed to when the configuration was last answered or dismissed (ghost).
Agreed(config) == IF Parsed(config) = Undefined THEN Safe(<<>>) ELSE Parsed(config)

NoSetup == [step |-> "load", config |-> Undefined, ask |-> FALSE]

States == [config : Configs \cup {Undefined}, pending : BOOLEAN, agreed : Configs \cup {Safe(<<>>)}]

SetupTypeOK ==
    /\ folders \in FolderLists /\ saved \in BOOLEAN
    /\ mem \in States /\ disk \in States
    /\ queue \in Seq([by : Caller \cup {"ensure", "configure"}, roots : FolderLists])
    /\ setup \in [step : {"load", "mark", "store", "ask", "save", "clear", "done"},
                  config : Configs \cup {Undefined}, ask : BOOLEAN]
    /\ setup.step # "load" =>
         /\ queue # <<>> /\ setup.config \in Configs
         /\ setup.config.roots = Head(queue).roots /\ Parsed(setup.config) = setup.config
    /\ events \in 0..MaxEvents /\ failed \in BOOLEAN

Asked(by) == Append(queue, [by |-> by, roots |-> folders])

\* activateWorkspace: the first setup is asked for at once.
Activated(state) ==
    /\ folders \in FolderLists /\ saved \in BOOLEAN
    /\ mem = state /\ disk = state
    /\ queue = IF saved THEN <<[by |-> "ensure", roots |-> folders]>> ELSE <<>>
    /\ setup = NoSetup

SetupInit ==
    /\ \E config \in {Chosen(s, l, c) : s \in {1, 2}, l \in FolderLists, c \in Selections} \cup {Undefined}, pending \in BOOLEAN :
           Activated([config |-> config, pending |-> pending, agreed |-> Agreed(config)])
    /\ events = 0 /\ failed = FALSE

----------------------------------------------------------------------------
(* Asking for a setup *)

ChangeFolders ==
    /\ events < MaxEvents
    /\ folders' \in FolderLists \ {folders}
    /\ queue' = IF saved THEN Append(queue, [by |-> "ensure", roots |-> folders']) ELSE queue
    /\ events' = events + 1 /\ UNCHANGED failed
    /\ UNCHANGED <<saved, mem, disk, setup>>

Configure ==
    /\ events < MaxEvents /\ saved
    /\ queue' = Asked("configure")
    /\ events' = events + 1 /\ UNCHANGED failed
    /\ UNCHANGED <<folders, saved, mem, disk, setup>>

EnsureConfigured(caller) ==
    /\ saved
    /\ queue' = Asked(caller)
    /\ UNCHANGED <<folders, saved, mem, disk, setup, events, failed>>

----------------------------------------------------------------------------
(* ConfigurationStore.load *)

Loading == queue # <<>> /\ setup.step = "load"
Wanted == Head(queue).roots
Asks == setup.ask \/ Head(queue).by = "configure"

GoesTo(step, config, ask) ==
    /\ setup' = [step |-> step, config |-> config, ask |-> ask]
    /\ UNCHANGED <<folders, saved, mem, disk, queue, events, failed>>

\* Nothing is stored, or nothing that can be used; the automatic import is preset on first use only.
LoadUnusable ==
    /\ Loading /\ Parsed(mem.config) = Undefined
    /\ GoesTo("mark", [Safe(Wanted) EXCEPT !.auto = mem.config = Undefined], TRUE)

\* Mutant: the configuration is stored before setup is marked pending.
LoadChangedStoresFirst ==
    /\ Loading /\ Parsed(mem.config) # Undefined /\ Parsed(mem.config).roots # Wanted
    /\ GoesTo("store", Reconciled(Parsed(mem.config), Wanted), TRUE)

LoadChanged ==
    /\ Loading /\ Parsed(mem.config) # Undefined /\ Parsed(mem.config).roots # Wanted
    /\ GoesTo("mark", Reconciled(Parsed(mem.config), Wanted), TRUE)

LoadMatching ==
    /\ Loading /\ Parsed(mem.config) # Undefined /\ Parsed(mem.config).roots = Wanted
    /\ GoesTo(IF mem.config.schema = 1 THEN "store"
              ELSE IF mem.pending \/ Head(queue).by = "configure" THEN "ask" ELSE "done",
              Reconciled(Parsed(mem.config), Wanted), mem.pending)

----------------------------------------------------------------------------
(* Updates of the workspace state *)

\* The state with the key of the update in progress replaced.
Stored(state) ==
    CASE setup.step = "mark" -> [state EXCEPT !.pending = TRUE]
      [] setup.step = "store" -> [state EXCEPT !.config = setup.config]
      [] setup.step = "save" -> [config |-> setup.config, pending |-> state.pending, agreed |-> setup.config]
      [] setup.step = "clear" -> [state EXCEPT !.pending = FALSE]

Updates(next) ==
    /\ mem' = Stored(mem) /\ disk' = Stored(disk)
    /\ setup' = [setup EXCEPT !.step = next]
    /\ UNCHANGED <<folders, saved, queue, events, failed>>

MarkPending == setup.step = "mark" /\ Updates("store")

StoreLoaded == setup.step = "store" /\ Updates(IF Asks THEN "ask" ELSE "done")

SaveAnswer == setup.step = "save" /\ Updates("clear")

ClearPending == setup.step = "clear" /\ Updates("done")

\* The update is refused; this window may read the new value all the same. The setup ends.
UpdateFails ==
    /\ setup.step \in {"mark", "store", "save", "clear"}
    /\ events < MaxEvents
    /\ mem' \in {mem, Stored(mem)}
    /\ queue' = Tail(queue) /\ setup' = NoSetup
    /\ events' = events + 1 /\ failed' = TRUE
    /\ UNCHANGED <<folders, saved, disk>>

----------------------------------------------------------------------------
(* SetupController.configureNow: the popups *)

\* A popup is open; nothing else of the queue happens until it is accepted or hidden.
Asking == setup.step = "ask"

\* Only the folders of the setup are offered, and none to itself.
Offered(roots) == {choice \in Selections : Parsed(Chosen(2, roots, choice)) # Undefined}

Answer ==
    /\ Asking
    /\ \E choice \in Offered(Wanted) : GoesTo("save", Chosen(2, Wanted, choice), setup.ask)

\* Any popup of the command is dismissed: what is stored stays.
DismissCommand ==
    /\ Asking /\ Head(queue).by = "configure"
    /\ GoesTo("done", setup.config, setup.ask)

\* Mutant: dismissing a needed setup keeps what load prepared.
DismissSetupKeeps ==
    /\ Asking /\ Head(queue).by # "configure"
    /\ GoesTo("done", setup.config, setup.ask)

\* Any popup of a needed setup is dismissed: every import is taken back.
DismissSetup ==
    /\ Asking /\ Head(queue).by # "configure"
    /\ GoesTo("save", Safe(Wanted), setup.ask)

\* The configuration goes to whoever asked.
Done ==
    /\ setup.step = "done"
    /\ queue' = Tail(queue) /\ setup' = NoSetup
    /\ UNCHANGED <<folders, saved, mem, disk, events, failed>>

\* The window is reloaded; the workspace may be another version of its file.
ReloadWindow ==
    /\ events < MaxEvents
    /\ folders' \in FolderLists /\ saved' \in BOOLEAN
    /\ mem' = disk /\ UNCHANGED disk
    /\ queue' = IF saved' THEN <<[by |-> "ensure", roots |-> folders']>> ELSE <<>>
    /\ setup' = NoSetup
    /\ events' = events + 1 /\ UNCHANGED failed

SetupSteps ==
    \/ ChangeFolders \/ Configure
    \/ LoadUnusable \/ LoadChanged \/ LoadMatching
    \/ MarkPending \/ StoreLoaded \/ SaveAnswer \/ ClearPending
    \/ Answer \/ DismissCommand \/ DismissSetup

----------------------------------------------------------------------------
(***************************************************************************)
(* The folder list is put to the user: a stored configuration that no      *)
(* setup is pending for is one whose folder list the user answered (or     *)
(* dismissed) a setup for. load marks before it stores, save stores before *)
(* it clears the mark; any of the updates may be the last before a reload. *)
(* And setup keeps up with the folders: once every setup has ended, and    *)
(* unless an update failed, the stored configuration is about the folders  *)
(* the workspace has now, although each setup works on the list of the     *)
(* moment it was asked for and may wait for the user meanwhile.            *)
(***************************************************************************)
FoldersAnswered ==
    /\ \A state \in {mem, disk} :
          Parsed(state.config) # Undefined /\ ~state.pending =>
              Parsed(state.config).roots = state.agreed.roots
    /\ saved /\ queue = <<>> /\ ~failed => mem.config # Undefined /\ mem.config.roots = folders

=============================================================================
