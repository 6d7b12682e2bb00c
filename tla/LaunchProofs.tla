---------------------------- MODULE LaunchProofs ----------------------------
(***************************************************************************)
(* Proofs about the launch of sessions:                                    *)
(*  - WorkspaceSetup and LaunchPlanner, for any folders, launches and      *)
(*    events, and whatever the user may choose: no access without          *)
(*    agreement;                                                           *)
(*  - ResumeControl, for any number of conversations, operations and       *)
(*    sessions: that no conversation runs twice, that nothing comes to     *)
(*    life under an operation that holds a reservation, that no            *)
(*    reservation leaks, and that tab and store agree on the name.         *)
(***************************************************************************)
EXTENDS LaunchPlanner, ResumeControl, FiniteSetTheorems, WellFoundedInduction, TLAPS

----------------------------------------------------------------------------
(* Configurations *)

\* A stored configuration that no setup is pending for is the one agreed to.
Agreement(state) ==
    Parsed(state.config) # Undefined /\ ~state.pending => Parsed(state.config) = state.agreed

\* What can be used of a configuration is one that can be used as it is.
LEMMA ParsedClean ==
    ASSUME NEW raw \in Configs, Parsed(raw) # Undefined
    PROVE  /\ Parsed(raw) \in Configs /\ Parsed(Parsed(raw)) = Parsed(raw)
           /\ Parsed(raw).roots = raw.roots /\ Parsed(raw).schema = 2
<1> USE SetupAssumption DEF Configs
<1>1. Parsed(raw) = [raw EXCEPT !.schema = 2, !.auto = raw.schema = 2 /\ raw.auto]
  BY DEF Parsed
<1>2. /\ raw.override \in ToSet(raw.roots) \cup {Undefined}
      /\ \A r \in Root : raw.imports[r] \subseteq IF r \in ToSet(raw.roots) THEN ToSet(raw.roots) \ {r} ELSE {}
  BY DEF Parsed
<1>3. Parsed(raw) \in Configs /\ Parsed(raw).roots = raw.roots /\ Parsed(raw).schema = 2
      /\ Parsed(raw).override = raw.override /\ Parsed(raw).imports = raw.imports
  BY <1>1
<1> DEFINE p == Parsed(raw)
<1>4. Parsed(p) = [p EXCEPT !.schema = 2, !.auto = p.schema = 2 /\ p.auto]
  BY <1>2, <1>3 DEF Parsed
<1> HIDE DEF p
<1>5. p \in Configs /\ p.schema = 2
  BY <1>3 DEF p
<1>6. [p EXCEPT !.schema = 2, !.auto = p.schema = 2 /\ p.auto] = p
  BY <1>5
<1> QED
  BY <1>3, <1>4, <1>6 DEF p

\* The safe configuration is a configuration, which parses to itself.
LEMMA SafeItself ==
    ASSUME NEW roots \in FolderLists
    PROVE  /\ Safe(roots) \in Configs /\ Parsed(Safe(roots)) = Safe(roots)
           /\ Safe(roots).roots = roots /\ Safe(roots).schema = 2
  BY SetupAssumption DEF Safe, Configs, Parsed

\* So is the safe configuration with either answer to the import of resumable
\* sessions.
LEMMA SafeClean ==
    ASSUME NEW roots \in FolderLists, NEW auto \in BOOLEAN
    PROVE  LET config == [Safe(roots) EXCEPT !.auto = auto] IN
           /\ config \in Configs /\ Parsed(config) = config /\ config.roots = roots /\ config.schema = 2
<1> USE SetupAssumption DEF Configs
<1> DEFINE config == [Safe(roots) EXCEPT !.auto = auto]
<1>1. /\ Safe(roots) \in Configs /\ Safe(roots).roots = roots /\ Safe(roots).schema = 2
      /\ Safe(roots).override = Undefined /\ \A r \in Root : Safe(roots).imports[r] = {}
  BY DEF Safe
<1>2. /\ config \in Configs /\ config.roots = roots /\ config.schema = 2
      /\ config.override = Undefined /\ \A r \in Root : config.imports[r] = {}
  BY <1>1
<1> HIDE DEF config
<1>3. Parsed(config) = [config EXCEPT !.schema = 2, !.auto = config.schema = 2 /\ config.auto]
  BY <1>2 DEF Parsed
<1>4. [config EXCEPT !.schema = 2, !.auto = config.schema = 2 /\ config.auto] = config
  BY <1>2
<1> QED
  BY <1>2, <1>3, <1>4 DEF config

\* Reconciling makes a configuration about the roots, and changes none that is.
LEMMA ReconciledClean ==
    ASSUME NEW config \in Configs, Parsed(config) = config, NEW roots \in FolderLists
    PROVE  /\ Reconciled(config, roots) \in Configs
           /\ Parsed(Reconciled(config, roots)) = Reconciled(config, roots)
           /\ Reconciled(config, roots).roots = roots /\ Reconciled(config, roots).schema = 2
           /\ roots = config.roots => Reconciled(config, roots) = config
<1> USE SetupAssumption DEF Configs
<1>0. config # Undefined
  OBVIOUS
<1>1. /\ config.override \in ToSet(config.roots) \cup {Undefined}
      /\ \A r \in Root : config.imports[r] \subseteq IF r \in ToSet(config.roots) THEN ToSet(config.roots) \ {r} ELSE {}
      /\ config = [config EXCEPT !.schema = 2, !.auto = config.schema = 2 /\ config.auto]
  BY <1>0 DEF Parsed
<1>2. config.schema = 2
  BY <1>1
<1> DEFINE current == ToSet(roots)
           over == IF config.override \in current THEN config.override ELSE Undefined
           imports == [r \in Root |-> IF r \in current THEN config.imports[r] \cap (current \ {r}) ELSE {}]
           new == Reconciled(config, roots)
<1>3. new = [config EXCEPT !.roots = roots, !.override = over, !.imports = imports]
  BY DEF Reconciled
<1>4. over \in Root \cup {Undefined} /\ imports \in [Root -> SUBSET Root]
  OBVIOUS
<1>5. over \in current \cup {Undefined} /\ \A r \in Root : imports[r] \subseteq IF r \in current THEN current \ {r} ELSE {}
  OBVIOUS
<1>6. roots = config.roots => over = config.override /\ imports = config.imports
  BY <1>1
<1> HIDE DEF over, imports, new, current
<1>7. new \in Configs /\ new.roots = roots /\ new.schema = 2 /\ new.override = over /\ new.imports = imports
  BY <1>2, <1>3, <1>4
<1>8. Parsed(new) = [new EXCEPT !.schema = 2, !.auto = new.schema = 2 /\ new.auto]
  BY <1>5, <1>7 DEF Parsed, current
<1>9. [new EXCEPT !.schema = 2, !.auto = new.schema = 2 /\ new.auto] = new
  BY <1>7
<1>10. roots = config.roots => new = config
  BY <1>3, <1>6
<1> QED
  BY <1>7, <1>8, <1>9, <1>10 DEF new

\* What the user chose for the folders is a configuration of these folders; where
\* its parser takes it, it takes it as it is.
LEMMA ChosenClean ==
    ASSUME NEW roots \in FolderLists, NEW choice \in Selections, NEW schema \in {1, 2}
    PROVE  /\ Chosen(schema, roots, choice) \in Configs /\ Chosen(schema, roots, choice).roots = roots
           /\ schema = 2 /\ Parsed(Chosen(schema, roots, choice)) # Undefined =>
                Parsed(Chosen(schema, roots, choice)) = Chosen(schema, roots, choice)
<1> USE SetupAssumption DEF Configs
<1> DEFINE config == Chosen(schema, roots, choice)
<1>1. choice \in [auto : BOOLEAN, override : Root \cup {Undefined}, imports : [Root -> SUBSET Root]]
  OBVIOUS
<1>2. config \in Configs /\ config.roots = roots /\ config.schema = schema
  BY <1>1 DEF Chosen
<1> HIDE DEF config
<1>3. Parsed(config) # Undefined => Parsed(config) = [config EXCEPT !.schema = 2, !.auto = config.schema = 2 /\ config.auto]
  BY DEF Parsed
<1>4. schema = 2 => [config EXCEPT !.schema = 2, !.auto = config.schema = 2 /\ config.auto] = config
  BY <1>2
<1> QED
  BY <1>2, <1>3, <1>4 DEF config

----------------------------------------------------------------------------
(* The setups *)

\* What is about to be stored, or was, is what is agreed to, unless a setup is
\* pending; a configuration of the first schema is stored as it was loaded.
UpdatesSound ==
    /\ Agreement(mem) /\ Agreement(disk)
    /\ mem.config # Undefined /\ mem.config.schema = 1 => disk.config = mem.config
    /\ setup.step = "mark" => setup.ask
    /\ setup.step = "store" =>
         /\ mem.pending \/ mem.agreed = setup.config
         /\ disk.pending \/ disk.agreed = setup.config
         /\ setup.ask \/ mem.agreed = setup.config
    /\ setup.step = "clear" =>
         /\ mem.config = setup.config /\ mem.agreed = setup.config
         /\ disk.config = setup.config /\ disk.agreed = setup.config

\* A launch is handed what is agreed to.
HandsAgreed ==
    setup.step = "done" /\ Head(queue).by \in Caller => setup.config = mem.agreed

\* What is stored is about the folders of the setup that stored it, and the
\* last setup is about those the workspace has.
KeepsUp ==
    /\ setup.step \in {"ask", "save", "clear", "done"} =>
         mem.config # Undefined /\ mem.config.roots = Head(queue).roots
    /\ saved /\ ~failed =>
         IF queue = <<>> THEN mem.config # Undefined /\ mem.config.roots = folders
         ELSE queue[Len(queue)].roots = folders

SetupInv == SetupTypeOK /\ UpdatesSound /\ HandsAgreed /\ KeepsUp

\* The setup's invariant holds of a host that has just started.
LEMMA SetupInitInv == SetupInit => SetupInv
<1> SUFFICES ASSUME SetupInit PROVE SetupInv
  OBVIOUS
<1> USE SetupAssumption
<1>f. events \in 0..MaxEvents
  BY DEF SetupInit
<1>d. failed \in BOOLEAN
  BY DEF SetupInit
<1>1. PICK config \in {Chosen(s, l, c) : s \in {1, 2}, l \in FolderLists, c \in Selections} \cup {Undefined},
           pending \in BOOLEAN : Activated([config |-> config, pending |-> pending, agreed |-> Agreed(config)])
  BY DEF SetupInit
<1>2. config \in Configs \cup {Undefined}
  BY <1>1, ChosenClean
<1>3. Agreed(config) \in Configs \cup {Safe(<<>>)} /\ (Parsed(config) # Undefined => Parsed(config) = Agreed(config))
  <2>1. CASE config = Undefined
    BY <2>1 DEF Agreed, Parsed
  <2>2. CASE config # Undefined
    BY <1>2, <2>2, ParsedClean DEF Agreed
  <2> QED
    BY <2>1, <2>2
<1> DEFINE state == [config |-> config, pending |-> pending, agreed |-> Agreed(config)]
<1>4. state \in States /\ Agreement(state)
  BY <1>2, <1>3 DEF States, Agreement
<1>5. /\ folders \in FolderLists /\ saved \in BOOLEAN /\ mem = state /\ disk = state /\ setup = NoSetup
      /\ queue = IF saved THEN <<[by |-> "ensure", roots |-> folders]>> ELSE <<>>
  BY <1>1 DEF Activated
<1>6. events = 0 /\ failed = FALSE
  BY DEF SetupInit
<1> HIDE DEF state
<1> DEFINE E == [by : Caller \cup {"ensure", "configure"}, roots : FolderLists]
           entry == [by |-> "ensure", roots |-> folders]
<1>a. entry \in E /\ entry.roots = folders
  BY <1>5
<1> HIDE DEF E, entry
<1>b. queue = IF saved THEN <<entry>> ELSE <<>>
  BY <1>5 DEF entry
<1>7. /\ queue \in Seq(E)
      /\ saved => queue # <<>> /\ Len(queue) = 1 /\ queue[1].roots = folders
  BY <1>a, <1>b
<1>8. setup.step = "load" /\ setup.config = Undefined /\ setup.ask = FALSE
      /\ setup \in [step : {"load", "mark", "store", "ask", "save", "clear", "done"}, config : Configs \cup {Undefined}, ask : BOOLEAN]
  BY <1>5 DEF NoSetup
<1>e. mem \in States /\ disk \in States
  BY <1>4, <1>5
<1>9. SetupTypeOK
  <2>1. folders \in FolderLists /\ saved \in BOOLEAN
    BY <1>5
  <2>2. setup.step = "load"
    BY <1>8
  <2>3. setup \in [step : {"load", "mark", "store", "ask", "save", "clear", "done"}, config : Configs \cup {Undefined}, ask : BOOLEAN]
    BY <1>8
  <2>4. queue \in Seq([by : Caller \cup {"ensure", "configure"}, roots : FolderLists])
    BY <1>7 DEF E
  <2> QED
    BY <2>1, <2>2, <2>3, <2>4, <1>d, <1>e, <1>f DEF SetupTypeOK
<1>10. UpdatesSound /\ HandsAgreed /\ KeepsUp
  BY <1>4, <1>5, <1>6, <1>7, <1>8 DEF UpdatesSound, HandsAgreed, KeepsUp
<1> QED
  BY <1>9, <1>10 DEF SetupInv

\* A setup that is asked for comes last.
LEMMA QueueGrows ==
    ASSUME SetupInv, NEW entry \in [by : Caller \cup {"ensure", "configure"}, roots : FolderLists],
           queue' = Append(queue, entry), entry.roots = folders',
           folders' \in FolderLists, saved' = saved, mem' = mem, disk' = disk, setup' = setup,
           events' \in 0..MaxEvents, failed' = failed
    PROVE  SetupInv'
<1> DEFINE E == [by : Caller \cup {"ensure", "configure"}, roots : FolderLists]
<1>1. queue \in Seq(E)
  BY DEF SetupInv, SetupTypeOK
<1> HIDE DEF E
<1>2. /\ queue' \in Seq(E) /\ queue' # <<>> /\ queue'[Len(queue')] = entry
      /\ queue # <<>> => Head(queue') = Head(queue)
  BY <1>1 DEF E
<1>3. SetupTypeOK'
  BY <1>2 DEF SetupInv, SetupTypeOK, E
<1>4. setup.step # "load" => queue # <<>>
  BY DEF SetupInv, SetupTypeOK
<1>5. UpdatesSound'
  BY DEF SetupInv, UpdatesSound, Agreement
<1>6. HandsAgreed' /\ KeepsUp'
  BY <1>2, <1>4 DEF SetupInv, HandsAgreed, KeepsUp
<1> QED
  BY <1>3, <1>5, <1>6 DEF SetupInv

\* The setup goes on without an update.
LEMMA GoesToStep ==
    ASSUME SetupInv, queue # <<>>, NEW config \in Configs, NEW ask \in BOOLEAN,
           NEW step \in {"mark", "store", "ask", "save", "done"}, GoesTo(step, config, ask),
           config.roots = Wanted, Parsed(config) = config,
           step = "mark" => ask,
           step = "store" => /\ mem.pending \/ mem.agreed = config
                             /\ disk.pending \/ disk.agreed = config
                             /\ ask \/ mem.agreed = config,
           step \in {"ask", "save", "done"} => mem.config # Undefined /\ mem.config.roots = Wanted,
           step = "done" /\ Head(queue).by \in Caller => config = mem.agreed
    PROVE  SetupInv'
<1>1. /\ setup'.step = step /\ setup'.config = config /\ setup'.ask = ask
      /\ setup' \in [step : {"load", "mark", "store", "ask", "save", "clear", "done"},
                     config : Configs \cup {Undefined}, ask : BOOLEAN]
      /\ UNCHANGED <<folders, saved, mem, disk, queue, events, failed>>
  BY DEF GoesTo
<1>2. SetupTypeOK'
  BY <1>1 DEF SetupInv, SetupTypeOK, Wanted
<1>3. UpdatesSound'
  BY <1>1 DEF SetupInv, UpdatesSound, Agreement
<1>4. HandsAgreed' /\ KeepsUp'
  BY <1>1 DEF SetupInv, HandsAgreed, KeepsUp, Wanted
<1> QED
  BY <1>2, <1>3, <1>4 DEF SetupInv

\* What the update in progress makes of a state.
LEMMA StoredTypes ==
    ASSUME SetupTypeOK, NEW state \in States, setup.step \in {"mark", "store", "save", "clear"}
    PROVE  /\ Stored(state) \in States
           /\ setup.step = "mark" => Stored(state).pending = TRUE /\ Stored(state).config = state.config
                                     /\ Stored(state).agreed = state.agreed
           /\ setup.step = "store" => Stored(state).pending = state.pending /\ Stored(state).config = setup.config
                                      /\ Stored(state).agreed = state.agreed
           /\ setup.step = "save" => Stored(state).config = setup.config /\ Stored(state).agreed = setup.config
           /\ setup.step = "clear" => Stored(state).config = state.config /\ Stored(state).agreed = state.agreed
<1>1. setup.config \in Configs
  BY DEF SetupTypeOK
<1>2. CASE setup.step = "mark"
  BY <1>2 DEF Stored, States
<1>3. CASE setup.step = "store"
  BY <1>1, <1>3 DEF Stored, States
<1>4. CASE setup.step = "save"
  BY <1>1, <1>4 DEF Stored, States
<1>5. CASE setup.step = "clear"
  BY <1>5 DEF Stored, States
<1> QED
  BY <1>2, <1>3, <1>4, <1>5

\* After an update, made in this window and perhaps in storage, what is agreed to stands.
LEMMA StoredAgreement ==
    ASSUME SetupInv, setup.step \in {"mark", "store", "save", "clear"}
    PROVE  /\ Agreement(Stored(mem)) /\ Agreement(Stored(disk))
           /\ Stored(mem).config # Undefined /\ Stored(mem).config.schema = 1 =>
                setup.step \in {"mark", "clear"} /\ mem.config # Undefined /\ mem.config.schema = 1
<1>1. mem \in States /\ disk \in States /\ setup.config \in Configs /\ Parsed(setup.config) = setup.config
  BY DEF SetupInv, SetupTypeOK
<1>2. setup.config # Undefined /\ setup.config.schema = 2
  BY <1>1, ParsedClean, SetupAssumption
<1>3. SetupTypeOK /\ UpdatesSound
  BY DEF SetupInv
<1>4. CASE setup.step = "mark"
  BY <1>1, <1>3, <1>4, StoredTypes DEF Agreement
<1>5. CASE setup.step = "store"
  BY <1>1, <1>2, <1>3, <1>5, StoredTypes DEF Agreement, UpdatesSound
<1>6. CASE setup.step = "save"
  BY <1>1, <1>2, <1>3, <1>6, StoredTypes DEF Agreement
<1>7. CASE setup.step = "clear"
  BY <1>1, <1>2, <1>3, <1>7, StoredTypes DEF Agreement, UpdatesSound
<1> QED
  BY <1>4, <1>5, <1>6, <1>7

\* An update of the stored values that lands keeps the invariant.
LEMMA UpdateStep ==
    ASSUME SetupInv, NEW next \in {"store", "ask", "done", "clear"}, Updates(next),
           \/ setup.step = "mark" /\ next = "store"
           \/ setup.step = "store" /\ next = IF Asks THEN "ask" ELSE "done"
           \/ setup.step = "save" /\ next = "clear"
           \/ setup.step = "clear" /\ next = "done"
    PROVE  SetupInv'
<1>0. setup.step \in {"mark", "store", "save", "clear"}
  OBVIOUS
<1>1. /\ mem \in States /\ disk \in States /\ setup.config \in Configs /\ Parsed(setup.config) = setup.config
      /\ queue # <<>> /\ setup.config.roots = Head(queue).roots
      /\ setup \in [step : {"load", "mark", "store", "ask", "save", "clear", "done"},
                    config : Configs \cup {Undefined}, ask : BOOLEAN]
  BY <1>0 DEF SetupInv, SetupTypeOK
<1>2. setup.config # Undefined /\ setup.config.schema = 2
  BY <1>1, ParsedClean, SetupAssumption
<1>3. SetupTypeOK /\ UpdatesSound /\ HandsAgreed /\ KeepsUp
  BY DEF SetupInv
<1>4. /\ mem' = Stored(mem) /\ disk' = Stored(disk)
      /\ setup'.step = next /\ setup'.config = setup.config /\ setup'.ask = setup.ask
      /\ setup' \in [step : {"load", "mark", "store", "ask", "save", "clear", "done"},
                     config : Configs \cup {Undefined}, ask : BOOLEAN]
      /\ UNCHANGED <<folders, saved, queue, events, failed>>
  BY <1>1 DEF Updates
<1>5. mem' \in States /\ disk' \in States
  BY <1>0, <1>1, <1>3, <1>4, StoredTypes
<1>6. SetupTypeOK'
  BY <1>1, <1>3, <1>4, <1>5 DEF SetupTypeOK
<1>7. Agreement(mem)' /\ Agreement(disk)'
  BY <1>0, <1>4, StoredAgreement DEF Agreement
<1>8. mem'.config # Undefined /\ mem'.config.schema = 1 => disk'.config = mem'.config
  <2>1. SUFFICES ASSUME mem'.config # Undefined, mem'.config.schema = 1 PROVE disk'.config = mem'.config
    OBVIOUS
  <2>2. setup.step \in {"mark", "clear"} /\ mem.config # Undefined /\ mem.config.schema = 1
    BY <1>0, <1>4, <2>1, StoredAgreement
  <2> QED
    BY <1>1, <1>3, <1>4, <2>2, StoredTypes DEF UpdatesSound
<1>9. CASE setup.step = "mark" /\ next = "store"
  <2>1. mem'.pending = TRUE /\ disk'.pending = TRUE /\ mem'.config = mem.config
    BY <1>1, <1>3, <1>4, <1>9, StoredTypes
  <2>2. setup'.ask
    BY <1>3, <1>4, <1>9 DEF UpdatesSound
  <2> QED
    BY <1>3, <1>4, <1>6, <1>7, <1>8, <1>9, <2>1, <2>2
       DEF SetupInv, UpdatesSound, HandsAgreed, KeepsUp
<1>10. CASE setup.step = "store" /\ next = IF Asks THEN "ask" ELSE "done"
  <2>1. mem'.config = setup.config /\ mem'.agreed = mem.agreed
    BY <1>1, <1>3, <1>4, <1>10, StoredTypes
  <2>2. setup'.step = "done" /\ Head(queue).by \in Caller => setup.config = mem.agreed
    BY <1>3, <1>4, <1>10 DEF Asks, UpdatesSound
  <2>3. setup'.step \in {"ask", "done"}
    BY <1>4, <1>10
  <2> QED
    BY <1>1, <1>2, <1>3, <1>4, <1>6, <1>7, <1>8, <2>1, <2>2, <2>3
       DEF SetupInv, UpdatesSound, HandsAgreed, KeepsUp
<1>11. CASE setup.step = "save" /\ next = "clear"
  <2>1. /\ mem'.config = setup.config /\ mem'.agreed = setup.config
        /\ disk'.config = setup.config /\ disk'.agreed = setup.config
    BY <1>1, <1>3, <1>4, <1>11, StoredTypes
  <2> QED
    BY <1>1, <1>2, <1>3, <1>4, <1>6, <1>7, <1>8, <1>11, <2>1
       DEF SetupInv, UpdatesSound, HandsAgreed, KeepsUp
<1>12. CASE setup.step = "clear" /\ next = "done"
  <2>1. mem'.config = setup.config /\ mem'.agreed = setup.config
    BY <1>1, <1>3, <1>4, <1>12, StoredTypes DEF UpdatesSound
  <2> QED
    BY <1>1, <1>2, <1>3, <1>4, <1>6, <1>7, <1>8, <1>12, <2>1
       DEF SetupInv, UpdatesSound, HandsAgreed, KeepsUp
<1> QED
  BY <1>9, <1>10, <1>11, <1>12

\* So does one that fails: the caller is told, or the older value serves.
LEMMA UpdateFailsStep ==
    ASSUME SetupInv, UpdateFails
    PROVE  SetupInv'
<1>0. setup.step \in {"mark", "store", "save", "clear"}
  BY DEF UpdateFails
<1>1. SetupTypeOK /\ UpdatesSound
  BY DEF SetupInv
<1>2. mem \in States /\ disk \in States /\ Stored(mem) \in States /\ queue # <<>>
  BY <1>0, <1>1, StoredTypes DEF SetupTypeOK
<1>3. /\ mem' \in {mem, Stored(mem)} /\ disk' = disk /\ folders' = folders /\ saved' = saved
      /\ queue' = Tail(queue) /\ setup' = NoSetup /\ failed' = TRUE
      /\ events < MaxEvents /\ events' = events + 1
  BY DEF UpdateFails
<1>4. setup'.step = "load"
      /\ setup' \in [step : {"load", "mark", "store", "ask", "save", "clear", "done"},
                     config : Configs \cup {Undefined}, ask : BOOLEAN]
  BY <1>3 DEF NoSetup
<1>5. events' \in 0..MaxEvents /\ failed' \in BOOLEAN
  BY <1>1, <1>3, SetupAssumption DEF SetupTypeOK
<1>6. queue' \in Seq([by : Caller \cup {"ensure", "configure"}, roots : FolderLists])
  <2> DEFINE E == [by : Caller \cup {"ensure", "configure"}, roots : FolderLists]
  <2>1. queue \in Seq(E)
    BY <1>1 DEF SetupTypeOK
  <2> HIDE DEF E
  <2>2. queue' \in Seq(E)
    BY <1>2, <1>3, <2>1
  <2> QED
    BY <2>2 DEF E
<1>7. SetupTypeOK'
  BY <1>1, <1>2, <1>3, <1>4, <1>5, <1>6 DEF SetupTypeOK
<1>8. UpdatesSound'
  <2>1. CASE mem' = mem
    BY <1>1, <1>3, <1>4, <2>1 DEF UpdatesSound, Agreement
  <2>2. CASE mem' = Stored(mem)
    <3>1. Agreement(mem)' /\ Agreement(disk)'
      BY <1>0, <1>1, <1>3, <2>2, StoredAgreement DEF UpdatesSound, Agreement
    <3>2. ASSUME mem'.config # Undefined, mem'.config.schema = 1 PROVE disk'.config = mem'.config
      <4>1. setup.step \in {"mark", "clear"} /\ mem.config # Undefined /\ mem.config.schema = 1
        BY <1>0, <2>2, <3>2, StoredAgreement
      <4> QED
        BY <1>1, <1>2, <1>3, <2>2, <4>1, StoredTypes DEF UpdatesSound
    <3> QED
      BY <1>4, <3>1, <3>2 DEF UpdatesSound
  <2> QED
    BY <1>3, <2>1, <2>2
<1>9. HandsAgreed' /\ KeepsUp'
  BY <1>3, <1>4 DEF HandsAgreed, KeepsUp
<1> QED
  BY <1>7, <1>8, <1>9 DEF SetupInv

\* The caller at the head of the queue is answered, for the folders that are open.
LEMMA DoneStep ==
    ASSUME SetupInv, Done
    PROVE  SetupInv'
<1> DEFINE E == [by : Caller \cup {"ensure", "configure"}, roots : FolderLists]
<1>1. SetupTypeOK /\ UpdatesSound /\ KeepsUp
  BY DEF SetupInv
<1>2. queue \in Seq(E) /\ queue # <<>>
  BY <1>1 DEF SetupTypeOK, Done
<1>3. /\ setup.step = "done" /\ queue' = Tail(queue) /\ setup' = NoSetup
      /\ UNCHANGED <<folders, saved, mem, disk, events, failed>>
  BY DEF Done
<1>4. setup'.step = "load"
      /\ setup' \in [step : {"load", "mark", "store", "ask", "save", "clear", "done"},
                     config : Configs \cup {Undefined}, ask : BOOLEAN]
  BY <1>3 DEF NoSetup
<1> HIDE DEF E
<1>5. /\ queue' \in Seq(E)
      /\ queue' = <<>> => Len(queue) = 1 /\ Head(queue) = queue[Len(queue)]
      /\ queue' # <<>> => queue'[Len(queue')] = queue[Len(queue)]
  <2>1. Tail(queue) \in Seq(E) /\ Len(Tail(queue)) = Len(queue) - 1 /\ Len(queue) \in Nat \ {0}
    BY <1>2
  <2>2. Tail(queue) = <<>> => Len(queue) = 1 /\ Head(queue) = queue[1]
    BY <1>2, <2>1
  <2>3. ASSUME Tail(queue) # <<>> PROVE Tail(queue)[Len(Tail(queue))] = queue[Len(queue)]
    <3>1. Len(queue) - 1 \in 1..(Len(queue) - 1)
      BY <2>1, <2>3
    <3>2. Tail(queue)[Len(queue) - 1] = queue[Len(queue) - 1 + 1]
      BY <1>2, <2>1, <3>1
    <3>3. Len(queue) - 1 + 1 = Len(queue)
      BY <2>1
    <3>4. queue[Len(queue) - 1 + 1] = queue[Len(queue)]
      BY <3>3, Zenon
    <3>5. Tail(queue)[Len(Tail(queue))] = Tail(queue)[Len(queue) - 1]
      BY <2>1, Zenon
    <3> QED
      BY <3>2, <3>4, <3>5, Zenon
  <2> QED
    BY <1>3, <2>1, <2>2, <2>3
<1>6. SetupTypeOK'
  BY <1>1, <1>3, <1>4, <1>5 DEF SetupTypeOK, E
<1>7. UpdatesSound'
  BY <1>1, <1>3, <1>4 DEF UpdatesSound, Agreement
<1>8. HandsAgreed' /\ KeepsUp'
  <2>1. mem.config # Undefined /\ mem.config.roots = Head(queue).roots
    BY <1>1, <1>3 DEF KeepsUp
  <2>2. saved /\ ~failed => queue[Len(queue)].roots = folders
    BY <1>1, <1>2 DEF KeepsUp
  <2> QED
    BY <1>3, <1>4, <1>5, <2>1, <2>2 DEF HandsAgreed, KeepsUp
<1> QED
  BY <1>6, <1>7, <1>8 DEF SetupInv

\* A reload forgets the callers and keeps what is stored.
LEMMA ReloadStep ==
    ASSUME SetupInv, ReloadWindow
    PROVE  SetupInv'
<1> DEFINE E == [by : Caller \cup {"ensure", "configure"}, roots : FolderLists]
           entry == [by |-> "ensure", roots |-> folders']
<1>1. SetupTypeOK /\ UpdatesSound /\ KeepsUp
  BY DEF SetupInv
<1>2. /\ folders' \in FolderLists /\ saved' \in BOOLEAN /\ mem' = disk /\ disk' = disk
      /\ queue' = IF saved' THEN <<entry>> ELSE <<>>
      /\ setup' = NoSetup /\ events < MaxEvents /\ events' = events + 1 /\ failed' = failed
  BY DEF ReloadWindow
<1>3. entry \in E /\ entry.roots = folders'
  BY <1>2
<1> HIDE DEF E, entry
<1>4. queue' \in Seq(E) /\ (saved' => queue' # <<>> /\ queue'[Len(queue')].roots = folders')
  BY <1>2, <1>3
<1>5. setup'.step = "load"
      /\ setup' \in [step : {"load", "mark", "store", "ask", "save", "clear", "done"},
                     config : Configs \cup {Undefined}, ask : BOOLEAN]
  BY <1>2 DEF NoSetup
<1>6. events' \in 0..MaxEvents
  BY <1>1, <1>2, SetupAssumption DEF SetupTypeOK
<1>7. SetupTypeOK'
  BY <1>1, <1>2, <1>4, <1>5, <1>6 DEF SetupTypeOK, E
<1>8. UpdatesSound'
  BY <1>1, <1>2, <1>5 DEF UpdatesSound, Agreement
<1>9. HandsAgreed' /\ KeepsUp'
  BY <1>2, <1>4, <1>5 DEF HandsAgreed, KeepsUp
<1> QED
  BY <1>7, <1>8, <1>9 DEF SetupInv

\* One more caller queues.
LEMMA AskedStep ==
    ASSUME SetupInv, NEW by \in Caller \cup {"ensure", "configure"}, EnsureConfigured(by)
    PROVE  SetupInv'
<1>1. /\ [by |-> by, roots |-> folders] \in [by : Caller \cup {"ensure", "configure"}, roots : FolderLists]
      /\ [by |-> by, roots |-> folders].roots = folders'
      /\ folders' \in FolderLists /\ events' \in 0..MaxEvents
  BY DEF SetupInv, SetupTypeOK, EnsureConfigured
<1> QED
  BY <1>1, QueueGrows DEF EnsureConfigured, Asked

\* The stored configuration is read: it is unusable, for other folders, or right.
LEMMA LoadStep ==
    ASSUME SetupInv, LoadUnusable \/ LoadChanged \/ LoadMatching
    PROVE  SetupInv'
<1> USE SetupAssumption
<1>1. /\ queue # <<>> /\ setup.step = "load" /\ mem \in States /\ disk \in States
      /\ SetupTypeOK /\ UpdatesSound
  BY DEF SetupInv, SetupTypeOK, LoadUnusable, LoadChanged, LoadMatching, Loading
<1>2. Wanted \in FolderLists
  <2> DEFINE E == [by : Caller \cup {"ensure", "configure"}, roots : FolderLists]
  <2>1. queue \in Seq(E)
    BY <1>1 DEF SetupTypeOK
  <2> HIDE DEF E
  <2>2. Head(queue) \in E
    BY <1>1, <2>1
  <2> QED
    BY <2>2 DEF Wanted, E
<1>3. mem.config \in Configs \cup {Undefined} /\ mem.pending \in BOOLEAN
  BY <1>1 DEF States
<1>4. CASE LoadUnusable
  <2> DEFINE preset == mem.config = Undefined
             config == [Safe(Wanted) EXCEPT !.auto = preset]
  <2>1. config \in Configs /\ Parsed(config) = config /\ config.roots = Wanted
    BY <1>2, SafeClean
  <2>2. GoesTo("mark", config, TRUE)
    BY <1>4 DEF LoadUnusable
  <2> HIDE DEF config
  <2> QED
    BY <1>1, <2>1, <2>2, GoesToStep
<1>5. ASSUME LoadChanged \/ LoadMatching
      PROVE  /\ Parsed(mem.config) # Undefined /\ mem.config \in Configs /\ mem.config # Undefined
             /\ Parsed(mem.config) \in Configs /\ Parsed(Parsed(mem.config)) = Parsed(mem.config)
             /\ Parsed(mem.config).roots = mem.config.roots
  <2>1. Parsed(mem.config) # Undefined
    BY <1>5 DEF LoadChanged, LoadMatching
  <2>2. mem.config # Undefined
    BY <2>1 DEF Parsed
  <2> QED
    BY <1>3, <2>1, <2>2, ParsedClean
<1> DEFINE config == Reconciled(Parsed(mem.config), Wanted)
<1>6. ASSUME LoadChanged \/ LoadMatching
      PROVE  /\ config \in Configs /\ Parsed(config) = config /\ config.roots = Wanted
             /\ Wanted = Parsed(mem.config).roots => config = Parsed(mem.config)
  BY <1>2, <1>5, <1>6, ReconciledClean
<1>7. CASE LoadChanged
  <2>1. GoesTo("mark", config, TRUE)
    BY <1>7 DEF LoadChanged
  <2> HIDE DEF config
  <2> QED
    BY <1>1, <1>6, <1>7, <2>1, GoesToStep
<1>8. CASE LoadMatching
  <2> DEFINE step == IF mem.config.schema = 1 THEN "store"
                     ELSE IF mem.pending \/ Head(queue).by = "configure" THEN "ask" ELSE "done"
  <2>1. GoesTo(step, config, mem.pending) /\ Parsed(mem.config).roots = Wanted
    BY <1>8 DEF LoadMatching
  <2>2. config = Parsed(mem.config) /\ config.roots = Wanted /\ mem.config.roots = Wanted
    BY <1>5, <1>6, <1>8, <2>1
  <2>3. Agreement(mem) /\ Agreement(disk) /\ (mem.config.schema = 1 => disk.config = mem.config)
    BY <1>1, <1>5, <1>8 DEF UpdatesSound
  <2>4. mem.pending \/ mem.agreed = config
    BY <1>5, <1>8, <2>2, <2>3 DEF Agreement
  <2>5. mem.config.schema = 1 => disk.pending \/ disk.agreed = config
    BY <1>5, <1>8, <2>2, <2>3 DEF Agreement
  <2>6. Head(queue).by \in Caller => Head(queue).by # "configure"
    OBVIOUS
  <2>7. step \in {"mark", "store", "ask", "save", "done"}
    OBVIOUS
  <2>8. /\ step # "mark"
        /\ step = "store" => /\ mem.pending \/ mem.agreed = config
                             /\ disk.pending \/ disk.agreed = config
        /\ step = "done" => ~mem.pending
    BY <2>4, <2>5
  <2> HIDE DEF config, step
  <2> QED
    BY <1>1, <1>3, <1>5, <1>6, <1>8, <2>1, <2>2, <2>4, <2>7, <2>8, GoesToStep
<1> QED
  BY <1>4, <1>7, <1>8

\* The user answers or dismisses the setup.
LEMMA PopupStep ==
    ASSUME SetupInv, Answer \/ DismissCommand \/ DismissSetup
    PROVE  SetupInv'
<1> USE SetupAssumption
<1>1. /\ setup.step = "ask" /\ SetupTypeOK /\ KeepsUp
  BY DEF SetupInv, Answer, DismissCommand, DismissSetup, Asking
<1>2. /\ queue # <<>> /\ setup.ask \in BOOLEAN /\ setup.config \in Configs
      /\ setup.config.roots = Wanted /\ Parsed(setup.config) = setup.config
      /\ mem.config # Undefined /\ mem.config.roots = Wanted
  BY <1>1 DEF SetupTypeOK, KeepsUp, Wanted
<1>3. Wanted \in FolderLists
  BY <1>2 DEF Configs
<1>4. CASE Answer
  <2>1. PICK choice \in Offered(Wanted) : GoesTo("save", Chosen(2, Wanted, choice), setup.ask)
    BY <1>4 DEF Answer
  <2> DEFINE config == Chosen(2, Wanted, choice)
  <2>2. choice \in Selections /\ Parsed(config) # Undefined
    BY DEF Offered
  <2>3. config \in Configs /\ config.roots = Wanted /\ Parsed(config) = config
    BY <1>3, <2>2, ChosenClean
  <2> HIDE DEF config
  <2>4. GoesTo("save", config, setup.ask)
    BY <2>1 DEF config
  <2> QED
    BY <1>2, <2>3, <2>4, GoesToStep
<1>5. CASE DismissCommand
  <2>1. GoesTo("done", setup.config, setup.ask) /\ Head(queue).by \notin Caller
    BY <1>5 DEF DismissCommand
  <2> QED
    BY <1>2, <2>1, GoesToStep
<1>6. CASE DismissSetup
  <2>1. GoesTo("save", Safe(Wanted), setup.ask)
    BY <1>6 DEF DismissSetup
  <2>2. Safe(Wanted) \in Configs /\ Parsed(Safe(Wanted)) = Safe(Wanted) /\ Safe(Wanted).roots = Wanted
    BY <1>3, SafeItself
  <2> DEFINE config == Safe(Wanted)
  <2>3. GoesTo("save", config, setup.ask) /\ config \in Configs /\ Parsed(config) = config /\ config.roots = Wanted
    BY <2>1, <2>2
  <2> HIDE DEF config
  <2> QED
    BY <1>2, <2>3, GoesToStep
<1> QED
  BY <1>4, <1>5, <1>6

\* Every step of the setup keeps its invariant.
LEMMA SetupStepsStep ==
    ASSUME SetupInv, SetupSteps
    PROVE  SetupInv'
<1>1. CASE ChangeFolders
  <2>1. /\ folders' \in FolderLists /\ saved' = saved /\ mem' = mem /\ disk' = disk /\ setup' = setup
        /\ failed' = failed /\ events < MaxEvents /\ events' = events + 1
        /\ queue' = IF saved THEN Append(queue, [by |-> "ensure", roots |-> folders']) ELSE queue
    BY <1>1 DEF ChangeFolders
  <2>2. events' \in 0..MaxEvents
    BY <2>1, SetupAssumption DEF SetupInv, SetupTypeOK
  <2>3. CASE saved
    BY <2>1, <2>2, <2>3, QueueGrows
  <2>4. CASE ~saved
    BY <2>1, <2>2, <2>4 DEF SetupInv, SetupTypeOK, UpdatesSound, Agreement, HandsAgreed, KeepsUp
  <2> QED
    BY <2>3, <2>4
<1>2. CASE Configure
  <2>1. /\ folders' = folders /\ saved' = saved /\ mem' = mem /\ disk' = disk /\ setup' = setup
        /\ failed' = failed /\ events < MaxEvents /\ events' = events + 1
        /\ queue' = Append(queue, [by |-> "configure", roots |-> folders])
    BY <1>2 DEF Configure, Asked
  <2>2. events' \in 0..MaxEvents /\ folders \in FolderLists
    BY <2>1, SetupAssumption DEF SetupInv, SetupTypeOK
  <2> QED
    BY <2>1, <2>2, QueueGrows
<1>3. CASE LoadUnusable \/ LoadChanged \/ LoadMatching
  BY <1>3, LoadStep
<1>4. CASE MarkPending
  BY <1>4, UpdateStep DEF MarkPending
<1>5. CASE StoreLoaded
  <2> DEFINE next == IF Asks THEN "ask" ELSE "done"
  <2>1. setup.step = "store" /\ Updates(next) /\ next \in {"store", "ask", "done", "clear"}
    BY <1>5 DEF StoreLoaded
  <2>2. setup.step = "store" /\ next = IF Asks THEN "ask" ELSE "done"
    BY <2>1
  <2> HIDE DEF next
  <2> QED
    BY <2>1, <2>2, UpdateStep
<1>6. CASE SaveAnswer
  BY <1>6, UpdateStep DEF SaveAnswer
<1>7. CASE ClearPending
  BY <1>7, UpdateStep DEF ClearPending
<1>8. CASE Answer \/ DismissCommand \/ DismissSetup
  BY <1>8, PopupStep
<1> QED
  BY <1>1, <1>2, <1>3, <1>4, <1>5, <1>6, <1>7, <1>8 DEF SetupSteps

----------------------------------------------------------------------------
(* The order of the folders, and the plan *)

\* A set of natural numbers that is not empty has a least element.
LEMMA Least ==
    ASSUME NEW T \in SUBSET Nat, T # {}
    PROVE  \E x \in T : \A y \in T : x <= y
<1>1. PICK x \in T : \A y \in T : ~(<<y, x>> \in OpToRel(<, Nat))
  BY NatLessThanWellFounded, WFMin, Zenon
<1>2. \A y \in T : ~(y < x)
  BY <1>1, Zenon DEF OpToRel
<1> QED
  BY <1>2

\* At most k have fewer than k before them.
LEMMA Early ==
    ASSUME NEW S, IsFiniteSet(S), NEW p \in [S -> Nat], \A x, y \in S : p[x] = p[y] => x = y,
           NEW before \in [S -> SUBSET S], \A x, y \in S : y \in before[x] <=> p[y] < p[x],
           NEW k \in Nat, NEW first \in SUBSET S, \A x \in first : Cardinality(before[x]) < k
    PROVE  IsFiniteSet(first) /\ Cardinality(first) <= k
<1> DEFINE f == [x \in first |-> Cardinality(before[x])]
<1>1. \A x \in S : IsFiniteSet(before[x]) /\ Cardinality(before[x]) \in Nat
  BY FS_Subset, FS_CardinalityType
<1>2. \A x, y \in S : p[x] < p[y] => Cardinality(before[x]) < Cardinality(before[y])
  <2> SUFFICES ASSUME NEW x \in S, NEW y \in S, p[x] < p[y] PROVE Cardinality(before[x]) < Cardinality(before[y])
    OBVIOUS
  <2>1. p[x] \in Nat /\ p[y] \in Nat /\ \A z \in S : p[z] \in Nat
    OBVIOUS
  <2>2. before[x] \subseteq before[y] /\ x \in before[y] /\ x \notin before[x]
    BY <2>1
  <2>3. before[x] # before[y]
    BY <2>2
  <2> QED
    BY <1>1, <2>2, <2>3, FS_Subset
<1>3. f \in Injection(first, 0..(k - 1))
  <2>1. f \in [first -> 0..(k - 1)]
    BY <1>1
  <2>2. ASSUME NEW x \in first, NEW y \in first, f[x] = f[y] PROVE x = y
    <3>1. x \in S /\ y \in S /\ p[x] \in Nat /\ p[y] \in Nat
      OBVIOUS
    <3>2. Cardinality(before[x]) = Cardinality(before[y])
      BY <2>2
    <3>3. ~(p[x] < p[y]) /\ ~(p[y] < p[x])
      BY <1>1, <1>2, <3>1, <3>2
    <3> QED
      BY <3>1, <3>3
  <2> QED
    BY <2>1, <2>2 DEF Injection, IsInjective
<1>4. IsFiniteSet(0..(k - 1)) /\ Cardinality(0..(k - 1)) = k
  BY FS_Interval
<1> QED
  BY <1>3, <1>4, FS_Injection

\* A list has finitely many members, each at some place of it.
LEMMA ListFinite ==
    ASSUME NEW roots \in Seq(Root)
    PROVE  /\ IsFiniteSet(ToSet(roots)) /\ ToSet(roots) \subseteq Root
           /\ \A r : r \in ToSet(roots) <=> \E i \in 1..Len(roots) : roots[i] = r
<1>1. \A r : r \in ToSet(roots) <=> \E i \in 1..Len(roots) : roots[i] = r
  BY DEF ToSet
<1>2. ToSet(roots) \subseteq Root
  BY <1>1
<1>3. IsFiniteSet(1..Len(roots))
  BY FS_Interval
<1>4. [i \in 1..Len(roots) |-> roots[i]] \in Surjection(1..Len(roots), ToSet(roots))
  BY <1>1 DEF Surjection
<1> QED
  BY <1>1, <1>2, <1>3, <1>4, FS_Surjection

\* Each folder of the list has a place of its own; the one asked for is first.
LEMMA Places ==
    ASSUME NEW request, NEW roots \in Seq(Root), NEW config \in Configs
    PROVE  /\ \A r \in ToSet(roots) : Place(request, roots, config, r) \in Nat
           /\ \A r, s \in ToSet(roots) :
                Place(request, roots, config, r) = Place(request, roots, config, s) => r = s
           /\ \A r : r = (IF request \in Root THEN request ELSE config.override) => Place(request, roots, config, r) = 0
<1> DEFINE At(r) == CHOOSE i \in DOMAIN roots : roots[i] = r
           head == IF request \in Root THEN request ELSE config.override
           next == PreferredDefault(roots, config)
           second == request \in Root /\ config.auto
<1>1. \A r \in ToSet(roots) : At(r) \in 1..Len(roots) /\ roots[At(r)] = r
  BY ListFinite
<1>2. \A r : Place(request, roots, config, r) =
               IF r = head THEN 0 ELSE IF second /\ r = next THEN 1 ELSE 1 + At(r)
  BY DEF Place
<1> HIDE DEF At, head, next, second
<1>3. \A r \in ToSet(roots) : Place(request, roots, config, r) \in Nat
  BY <1>1, <1>2
<1>4. ASSUME NEW r \in ToSet(roots), NEW s \in ToSet(roots),
             Place(request, roots, config, r) = Place(request, roots, config, s)
      PROVE  r = s
  <2>1. /\ At(r) \in 1..Len(roots) /\ roots[At(r)] = r
        /\ At(s) \in 1..Len(roots) /\ roots[At(s)] = s
    BY <1>1
  <2>2. CASE r = head \/ s = head
    BY <1>2, <1>4, <2>1, <2>2
  <2>3. CASE r # head /\ s # head
    BY <1>2, <1>4, <2>1, <2>3
  <2> QED
    BY <2>2, <2>3
<1>5. \A r : r = head => Place(request, roots, config, r) = 0
  BY <1>2
<1> QED
  BY <1>3, <1>4, <1>5 DEF head

\* The default folder is one of the folders, or none.
LEMMA DefaultType ==
    ASSUME NEW roots \in Seq(Root), NEW config \in Configs, NEW avail \in SUBSET Root
    PROVE  DefaultRoot(roots, config, avail) \in Root \cup {Undefined}
<1> DEFINE T == {i \in DOMAIN roots : roots[i] \in avail}
           First(i) == roots[i] \in avail /\ \A j \in 1..(i - 1) : roots[j] \notin avail
<1>1. CASE T = {}
  BY <1>1 DEF DefaultRoot, FirstOf
<1>2. CASE T # {}
  <2>1. T \subseteq Nat /\ DOMAIN roots = 1..Len(roots) /\ Len(roots) \in Nat
    OBVIOUS
  <2>2. PICK i \in T : \A j \in T : i <= j
    BY <1>2, <2>1, Least
  <2>3. i \in DOMAIN roots /\ First(i)
    BY <2>1, <2>2
  <2> DEFINE chosen == CHOOSE k \in DOMAIN roots : First(k)
  <2>4. chosen \in DOMAIN roots
    BY <2>3, Zenon
  <2>5. roots[chosen] \in Root
    BY <2>1, <2>4
  <2>6. FirstOf(roots, avail) \in {Undefined, roots[chosen]}
    BY DEF FirstOf
  <2> QED
    BY <2>5, <2>6 DEF DefaultRoot
<1> QED
  BY <1>1, <1>2

\* A launch may tell that a default folder, configured, did not answer.
MayFallBack(request, config) == (request \notin Root \/ config.auto) /\ config.override # Undefined

\* A plan for a folder that gives only what is wanted and answered.
PlansFor(plan, request, root, roots, config, avail) ==
    /\ plan \in Plans /\ plan.error = Undefined /\ plan.root = root
    /\ plan.imports \subseteq MayImport(config, root, DefaultRoot(roots, config, avail))
    /\ plan.fallback => MayFallBack(request, config)

\* The plan for a folder that answered is such a plan.
LEMMA PlannedSound ==
    ASSUME NEW request \in Requests, NEW roots \in Seq(Root), NEW config \in Configs, NEW avail \in SUBSET Root,
           NEW root \in Root
    PROVE  PlansFor(Planned(request, root, roots, config, avail), request, root, roots, config, avail)
<1>0. PICK plan : plan = Planned(request, root, roots, config, avail)
  OBVIOUS
<1> DEFINE default == DefaultRoot(roots, config, avail)
           wanted == config.imports[root] \cup (IF config.auto THEN {default} \ {Undefined, root} ELSE {})
           usable == avail \cap ToSet(roots)
           fallback == /\ request \notin Root \/ config.auto
                       /\ default # Undefined /\ config.override \notin {Undefined, default}
<1>1. default \in Root \cup {Undefined} /\ config.imports[root] \subseteq Root
  BY DefaultType DEF Configs
<1>2. wanted \subseteq Root /\ usable \subseteq Root
  BY <1>1
<1>3. wanted \subseteq MayImport(config, root, DefaultRoot(roots, config, avail))
  BY DEF MayImport
<1>4. plan = [root |-> root, imports |-> wanted \cap usable, skipped |-> wanted \ usable,
              fallback |-> fallback, error |-> Undefined]
  BY <1>0 DEF Planned
<1>5. fallback \in BOOLEAN /\ (fallback => MayFallBack(request, config))
  BY DEF MayFallBack
<1> HIDE DEF default, wanted, usable, fallback
<1>6. plan \in Plans /\ plan.error = Undefined /\ plan.fallback = fallback /\ plan.root = root
      /\ plan.imports = wanted \cap usable
  BY <1>2, <1>4, <1>5 DEF Plans
<1>7. PlansFor(plan, request, root, roots, config, avail)
  BY <1>3, <1>5, <1>6 DEF PlansFor
<1> QED
  BY <1>0, <1>7

\* A plan is for a folder that may be imported from, says a folder is unavailable
\* only of an open one, and falls back only where the configuration lets it.
LEMMA PlanSound ==
    ASSUME NEW request \in Requests, NEW roots \in Seq(Root), NEW config \in Configs, NEW avail \in SUBSET Root,
           NEW plan, plan = Plan(request, roots, config, avail)
    PROVE  /\ plan \in Plans
           /\ plan.root # Undefined =>
                plan.imports \subseteq MayImport(config, plan.root, DefaultRoot(roots, config, avail))
           /\ plan.error = "root-unavailable" => request \in ToSet(roots)
           /\ plan.fallback => MayFallBack(request, config)
<1> USE PlannerAssumption, SetupAssumption
<1> DEFINE default == DefaultRoot(roots, config, avail)
<1>1. default \in Root \cup {Undefined}
  BY DefaultType
<1>2. \A error \in {"invalid-request", "root-unavailable", "no-root-available"} :
        /\ Refused(error) \in Plans /\ Refused(error).root = Undefined /\ Refused(error).error = error
        /\ Refused(error).fallback = FALSE
  BY DEF Refused, Plans
<1>3. CASE plan = Refused("invalid-request") \/ plan = Refused("no-root-available")
  BY <1>2, <1>3
<1>4. CASE plan = Refused("root-unavailable") /\ request \in ToSet(roots)
  BY <1>2, <1>4
<1>5. ASSUME NEW root \in Root, plan = Planned(request, root, roots, config, avail)
      PROVE  /\ plan \in Plans /\ plan.error = Undefined /\ plan.root = root
             /\ plan.imports \subseteq MayImport(config, root, DefaultRoot(roots, config, avail))
             /\ plan.fallback => MayFallBack(request, config)
  <2>1. PlansFor(Planned(request, root, roots, config, avail), request, root, roots, config, avail)
    BY PlannedSound, Zenon
  <2>2. PlansFor(plan, request, root, roots, config, avail)
    BY ONLY <1>5, <2>1
  <2> QED
    BY ONLY <2>2 DEF PlansFor
<1>6. CASE \E root \in Root : plan = Planned(request, root, roots, config, avail)
  <2>1. PICK root \in Root : plan = Planned(request, root, roots, config, avail)
    BY <1>6
  <2> QED
    BY <1>5, <2>1
<1>7. \/ plan = Refused("invalid-request") \/ plan = Refused("no-root-available")
      \/ plan = Refused("root-unavailable") /\ request \in ToSet(roots)
      \/ \E root \in Root : plan = Planned(request, root, roots, config, avail)
  <2>1. CASE request \in Root /\ request \in ToSet(roots) /\ request \in avail
    <3>1. plan = Planned(request, request, roots, config, avail)
      BY <2>1 DEF Plan
    <3> QED
      BY <2>1, <3>1
  <2>2. CASE request \in Root /\ (request \notin ToSet(roots) \/ request \notin avail)
    BY <2>2 DEF Plan
  <2>3. CASE request \notin Root /\ default # Undefined
    <3>1. plan = Planned(request, default, roots, config, avail)
      BY <2>3 DEF Plan
    <3> HIDE DEF default
    <3> QED
      BY <1>1, <2>3, <3>1
  <2>4. CASE request \notin Root /\ default = Undefined
    BY <2>4 DEF Plan
  <2> QED
    BY <2>1, <2>2, <2>3, <2>4
<1> QED
  BY <1>3, <1>4, <1>6, <1>7

----------------------------------------------------------------------------
(* The launches *)

\* What a launch works with is what is agreed to, and the folder it must have is looked at.
Consulted(at) ==
    /\ at.config = at.terms /\ at.config.roots = at.roots
    /\ at.request \in ToSet(at.roots) => at.request \in at.probed
    /\ MayFallBack(at.request, at.config) /\ (at.request \notin Root \/ MaxConcurrency > 1) =>
         at.config.override \in at.probed

Bounded(at) ==
    /\ at.left \subseteq ToSet(at.roots) /\ IsFiniteSet(at.active)
    /\ Cardinality(at.active) \in 0..MaxConcurrency
    /\ Cardinality(at.active) + at.retired <= MaxOutstanding
    /\ at.avail \cup at.active \subseteq at.probed

LaunchSound(at) ==
    /\ at \in {NotAsked, Failed} \cup Waits \cup Looks \cup Ready
    /\ at.step = "probing" => at.active # {} /\ Bounded(at) /\ Consulted(at)
    /\ at.step = "planned" => Consulted(at) /\ at.plan = Plan(at.request, at.roots, at.config, at.avail)

\* A launch that has its configuration.
Going(at) == LaunchSound(at) /\ at.step \in {"probing", "planned"}

\* The launches that wait are those that the setups are asked for by, one each.
Awaited ==
    /\ \A l \in Caller : launch[l].step = "configuring" =>
         \E i \in 1..Len(queue) : queue[i] = [by |-> l, roots |-> launch[l].roots]
    /\ \A i \in 1..Len(queue) : queue[i].by \in Caller =>
         /\ launch[queue[i].by].step = "configuring" /\ launch[queue[i].by].roots = queue[i].roots
         /\ \A j \in 1..Len(queue) : queue[j].by = queue[i].by => j = i

PlannerInv ==
    /\ SetupInv
    /\ launch \in [Caller -> {NotAsked, Failed} \cup Waits \cup Looks \cup Ready]
    /\ \A l \in Caller : LaunchSound(launch[l])
    /\ Awaited

\* A worker that starts to look keeps the look within its bounds.
LEMMA LookingSound ==
    ASSUME NEW at \in Looks, Bounded(at), Consulted(at)
    PROVE  Going(Looking(at))
<1> USE SetupAssumption
<1>1. at.step = "probing"
  BY DEF Looks
<1>2. CASE at.active # {}
  <2>1. Looking(at) = at
    BY <1>2 DEF Looking
  <2> QED
    BY <1>1, <1>2, <2>1 DEF LaunchSound, Going
<1>3. CASE at.active = {}
  <2> DEFINE plan == Plan(at.request, at.roots, at.config, at.avail)
             new == [step |-> "planned", request |-> at.request, roots |-> at.roots, config |-> at.config,
                     terms |-> at.terms, probed |-> at.probed, avail |-> at.avail, plan |-> plan]
  <2>1. Looking(at) = new
    BY <1>3 DEF Looking
  <2>2. /\ at.request \in Requests /\ at.roots \in FolderLists /\ at.config \in Configs /\ at.terms \in Configs
        /\ at.probed \in SUBSET Root /\ at.avail \in SUBSET Root
    BY DEF Looks
  <2>3. at.roots \in Seq(Root)
    BY <2>2
  <2>4. plan \in Plans
    BY <2>2, <2>3, PlanSound
  <2> HIDE DEF plan
  <2>5. /\ new \in Ready /\ new.step = "planned" /\ new.request = at.request /\ new.roots = at.roots
        /\ new.config = at.config /\ new.terms = at.terms /\ new.probed = at.probed /\ new.avail = at.avail
        /\ new.plan = plan
    BY <2>2, <2>4 DEF Ready
  <2> HIDE DEF new
  <2>6. Consulted(new)
    BY <2>5 DEF Consulted
  <2> QED
    BY <2>1, <2>5, <2>6 DEF LaunchSound, Going, plan
<1> QED
  BY <1>2, <1>3

\* So does a worker that takes the next folder.
LEMMA TakingSound ==
    ASSUME NEW at \in Looks, Bounded(at), Consulted(at), at.left # {},
           Cardinality(at.active) < MaxConcurrency, Cardinality(at.active) + at.retired < MaxOutstanding
    PROVE  Going(Taking(at))
<1> USE SetupAssumption, PlannerAssumption
<1> DEFINE next == CHOOSE root \in at.left : \A r \in at.left : PlaceOf(at, root) <= PlaceOf(at, r)
           new == [at EXCEPT !.left = @ \ {next}, !.active = @ \cup {next}, !.probed = @ \cup {next}]
<1>1. /\ at.request \in Requests /\ at.roots \in Seq(Root) /\ at.config \in Configs /\ at.terms \in Configs
      /\ at.probed \in SUBSET Root /\ at.avail \in SUBSET Root /\ at.left \in SUBSET Root
      /\ at.active \in SUBSET Root /\ at.retired \in Nat /\ at.late \in BOOLEAN /\ at.step = "probing"
  BY DEF Looks
<1>2. next \in at.left
  <2> DEFINE p == [r \in ToSet(at.roots) |-> PlaceOf(at, r)]
             T == {p[r] : r \in at.left}
  <2>1. \A r \in at.left : r \in ToSet(at.roots) /\ p[r] = PlaceOf(at, r) /\ p[r] \in Nat
    BY <1>1, Places DEF PlaceOf, Bounded
  <2> HIDE DEF p
  <2>2. T \in SUBSET Nat /\ T # {}
    BY <2>1
  <2>3. PICK x \in T : \A y \in T : x <= y
    BY <2>2, Least
  <2>4. PICK root \in at.left : p[root] = x
    OBVIOUS
  <2>5. \A r \in at.left : PlaceOf(at, root) <= PlaceOf(at, r)
    BY <2>1, <2>3, <2>4
  <2> QED
    BY <2>5, Zenon
<1>3. next \in Root
  BY <1>1, <1>2
<1>4. Taking(at) = new
  BY DEF Taking
<1> HIDE DEF next
<1>6. /\ new \in Looks /\ new.step = "probing" /\ new.request = at.request /\ new.roots = at.roots
      /\ new.config = at.config /\ new.terms = at.terms /\ new.left = at.left \ {next}
      /\ new.active = at.active \cup {next} /\ new.probed = at.probed \cup {next}
      /\ new.retired = at.retired /\ new.avail = at.avail
  BY <1>1, <1>3 DEF Looks
<1> HIDE DEF new
<1>7. IsFiniteSet(new.active) /\ Cardinality(new.active) \in Nat /\ Cardinality(at.active) \in Nat
      /\ Cardinality(new.active) <= Cardinality(at.active) + 1
  <2>1. IsFiniteSet(at.active)
    BY DEF Bounded
  <2>2. IsFiniteSet(at.active \cup {next}) /\ Cardinality(at.active) \in Nat
    BY <2>1, FS_AddElement, FS_CardinalityType
  <2>3. Cardinality(at.active \cup {next}) \in {Cardinality(at.active), Cardinality(at.active) + 1}
    BY <2>1, FS_AddElement
  <2> QED
    BY <1>6, <2>2, <2>3
<1>8. Bounded(new)
  BY <1>1, <1>6, <1>7 DEF Bounded
<1>9. Consulted(new)
  BY <1>6 DEF Consulted
<1> QED
  BY <1>4, <1>6, <1>8, <1>9 DEF LaunchSound, Going

\* A worker that is done with a folder goes on to the next, or the plan is made.
LEMMA NextFolderSound ==
    ASSUME NEW at \in Looks, Bounded(at), Consulted(at), Cardinality(at.active) < MaxConcurrency
    PROVE  Going(NextFolder(at))
<1>1. CASE at.left = {} \/ at.late \/ Cardinality(at.active) + at.retired >= MaxOutstanding
  BY <1>1, LookingSound DEF NextFolder
<1>2. CASE ~(at.left = {} \/ at.late \/ Cardinality(at.active) + at.retired >= MaxOutstanding)
  <2>1. Cardinality(at.active) \in Nat /\ at.retired \in Nat /\ MaxOutstanding \in Nat
    BY PlannerAssumption DEF Bounded, Looks
  <2>2. at.left # {} /\ Cardinality(at.active) + at.retired < MaxOutstanding
    BY <1>2, <2>1
  <2> QED
    BY <1>2, <2>2, TakingSound DEF NextFolder
<1> QED
  BY <1>1, <1>2

\* The folder the launch must have is among the first ones.
LEMMA BeginSound ==
    ASSUME NEW at \in Waits, NEW config \in Configs, Parsed(config) = config, config.roots = at.roots,
           mem.agreed = config
    PROVE  Going(BeginLooking(at, config))
<1> USE SetupAssumption, PlannerAssumption
<1> DEFINE roots == at.roots
           Rank(r) == Place(at.request, at.roots, config, r)
           Before(root) == {r \in ToSet(at.roots) : Rank(r) < Rank(root)}
           first == {root \in ToSet(at.roots) : Cardinality(Before(root)) < MaxConcurrency}
           new == [step |-> "probing", request |-> at.request, roots |-> at.roots, config |-> config,
                   terms |-> mem.agreed, left |-> ToSet(at.roots) \ first,
                   active |-> first, probed |-> first, retired |-> 0, avail |-> {}, late |-> FALSE]
<1>1. at.request \in Requests /\ at.roots \in FolderLists /\ at.roots \in Seq(Root)
  BY DEF Waits
<1>2. BeginLooking(at, config) = Looking(new)
  BY DEF BeginLooking
<1>3. IsFiniteSet(ToSet(at.roots)) /\ ToSet(at.roots) \subseteq Root
  BY <1>1, ListFinite
<1>4. /\ \A r \in ToSet(at.roots) : Rank(r) \in Nat
      /\ \A r, s \in ToSet(at.roots) : Rank(r) = Rank(s) => r = s
      /\ \A r : r = (IF at.request \in Root THEN at.request ELSE config.override) => Rank(r) = 0
  BY <1>1, Places
<1>5. IsFiniteSet(first) /\ Cardinality(first) \in 0..MaxConcurrency
  <2> DEFINE p == [r \in ToSet(at.roots) |-> Rank(r)]
             before == [r \in ToSet(at.roots) |-> Before(r)]
  <2>1. p \in [ToSet(at.roots) -> Nat] /\ \A r \in ToSet(at.roots) : p[r] = Rank(r)
    BY <1>4
  <2>2. \A r, s \in ToSet(at.roots) : p[r] = p[s] => r = s
    BY <1>4, <2>1
  <2>3. before \in [ToSet(at.roots) -> SUBSET ToSet(at.roots)]
    OBVIOUS
  <2>4. \A r, s \in ToSet(at.roots) : s \in before[r] <=> p[s] < p[r]
    BY <2>1
  <2>5. first \in SUBSET ToSet(at.roots) /\ \A r \in first : Cardinality(before[r]) < MaxConcurrency
    OBVIOUS
  <2>6. MaxConcurrency \in Nat
    OBVIOUS
  <2> HIDE DEF p, before, Rank, first, Before
  <2>7. IsFiniteSet(first) /\ Cardinality(first) <= MaxConcurrency
    BY <1>3, <2>1, <2>2, <2>3, <2>4, <2>5, <2>6, Early
  <2> QED
    BY <2>6, <2>7, FS_CardinalityType
<1>6. \A r \in ToSet(at.roots) : Rank(r) = 0 => r \in first
  <2> SUFFICES ASSUME NEW r \in ToSet(at.roots), Rank(r) = 0 PROVE r \in first
    OBVIOUS
  <2>1. Before(r) = {}
    BY <1>4
  <2>2. Cardinality(Before(r)) = 0
    BY <2>1, FS_EmptySet, Zenon
  <2> HIDE DEF Before
  <2> QED
    BY <2>2
<1>7. at.request \in ToSet(at.roots) => at.request \in first
  BY <1>3, <1>4, <1>6
<1>8. config.override # Undefined => config.override \in ToSet(at.roots)
  <2>1. config # Undefined
    OBVIOUS
  <2> QED
    BY <2>1 DEF Parsed
<1>9. ASSUME MayFallBack(at.request, config), at.request \notin Root \/ MaxConcurrency > 1
      PROVE  config.override \in first
  <2>1. config.override \in ToSet(at.roots) /\ config.override # Undefined
    BY <1>8, <1>9 DEF MayFallBack
  <2>2. CASE at.request \notin Root \/ at.request = config.override
    <3>1. Rank(config.override) = 0
      BY <1>4, <2>2
    <3> QED
      BY <1>6, <2>1, <3>1
  <2>3. CASE at.request \in Root /\ at.request # config.override
    <3>1. config.auto /\ MaxConcurrency > 1
      BY <1>9, <2>3 DEF MayFallBack
    <3>2. Rank(config.override) = 1 /\ Rank(at.request) = 0
      BY <2>1, <2>3, <3>1 DEF Place, PreferredDefault
    <3>3. Before(config.override) \subseteq {at.request}
      <4> SUFFICES ASSUME NEW r \in ToSet(at.roots), Rank(r) < Rank(config.override) PROVE r = at.request
        OBVIOUS
      <4>1. Rank(r) = 0
        BY <1>4, <3>2
      <4>2. \E i \in DOMAIN at.roots : at.roots[i] = r
        BY <1>1, ListFinite
      <4> DEFINE i == CHOOSE i \in DOMAIN at.roots : at.roots[i] = r
      <4>3. i \in Nat \ {0}
        BY <1>1, <4>2
      <4> HIDE DEF i
      <4>4. r # at.request /\ r # config.override => Rank(r) = 1 + i
        BY <2>1, <2>3, <3>1 DEF Place, PreferredDefault, i
      <4> QED
        BY <3>2, <4>1, <4>3, <4>4
    <3>4. Cardinality(Before(config.override)) <= 1
      <4> DEFINE B == Before(config.override)
      <4>1. B \in SUBSET {at.request}
        BY <3>3
      <4> HIDE DEF B
      <4>2. IsFiniteSet({at.request}) /\ Cardinality({at.request}) = 1
        BY FS_Singleton, Zenon
      <4>3. Cardinality(B) <= Cardinality({at.request})
        BY <4>1, <4>2, FS_Subset, Zenon
      <4> QED
        BY <4>2, <4>3 DEF B
    <3>5. Cardinality(Before(config.override)) \in Nat
      <4> DEFINE B == Before(config.override)
      <4>1. B \in SUBSET ToSet(at.roots)
        OBVIOUS
      <4> HIDE DEF B
      <4>2. Cardinality(B) \in Nat
        BY <1>3, <4>1, FS_Subset, FS_CardinalityType
      <4> QED
        BY <4>2 DEF B
    <3> HIDE DEF Before, Rank
    <3> QED
      BY <2>1, <3>1, <3>4, <3>5
  <2> QED
    BY <2>2, <2>3
<1> HIDE DEF first
<1>f. first \subseteq ToSet(at.roots)
  BY DEF first
<1>10. /\ new \in Looks /\ new.step = "probing" /\ new.request = at.request /\ new.roots = at.roots
       /\ new.config = config /\ new.terms = config /\ new.left = ToSet(at.roots) \ first
       /\ new.active = first /\ new.probed = first /\ new.retired = 0 /\ new.avail = {}
  BY <1>1, <1>3, <1>f DEF Looks
<1> HIDE DEF new
<1>11. Bounded(new)
  BY <1>5, <1>10 DEF Bounded
<1>12. Consulted(new)
  BY <1>7, <1>9, <1>10 DEF Consulted
<1> QED
  BY <1>2, <1>10, <1>11, <1>12, LookingSound

----------------------------------------------------------------------------
(* The steps of the launches *)

\* The invariant holds of a planner that has just started.
LEMMA InitInv == LaunchInit => PlannerInv
<1> SUFFICES ASSUME LaunchInit PROVE PlannerInv
  OBVIOUS
<1>1. SetupInv /\ launch = [l \in Caller |-> NotAsked]
  BY SetupInitInv DEF LaunchInit
<1>2. NotAsked.step = "idle"
  BY DEF NotAsked
<1>3. \A l \in Caller : launch[l] = NotAsked
  BY <1>1
<1>4. \A l \in Caller : LaunchSound(launch[l])
  BY <1>2, <1>3 DEF LaunchSound
<1>5. Awaited
  <2> DEFINE entry == [by |-> "ensure", roots |-> folders]
  <2>1. queue = IF saved THEN <<entry>> ELSE <<>>
    BY DEF LaunchInit, SetupInit, Activated
  <2>2. entry.by \notin Caller
    BY SetupAssumption
  <2> HIDE DEF entry
  <2>3. \A i \in 1..Len(queue) : queue[i].by \notin Caller
    BY <2>1, <2>2
  <2> QED
    BY <1>2, <1>3, <2>3 DEF Awaited
<1> QED
  BY <1>1, <1>4, <1>5 DEF PlannerInv

\* The queue is left alone, or grows by a setup that no launch waits for.
LEMMA AwaitedStands ==
    ASSUME PlannerInv, launch' = launch,
           \/ queue' = queue
           \/ \E entry : queue' = Append(queue, entry) /\ entry.by \notin Caller
    PROVE  Awaited'
<1> DEFINE E == [by : Caller \cup {"ensure", "configure"}, roots : FolderLists]
<1>1. queue \in Seq(E) /\ Awaited
  BY DEF PlannerInv, SetupInv, SetupTypeOK
<1> HIDE DEF E
<1>2. CASE queue' = queue
  BY <1>1, <1>2 DEF Awaited
<1>3. ASSUME NEW entry, queue' = Append(queue, entry), entry.by \notin Caller
      PROVE  Awaited'
  <2>1. /\ Len(queue) \in Nat /\ Len(queue') = Len(queue) + 1
        /\ \A i \in 1..Len(queue) : i \in 1..Len(queue') /\ queue'[i] = queue[i]
        /\ queue'[Len(queue) + 1] = entry
    BY <1>1, <1>3
  <2>2. \A i \in 1..Len(queue') : queue'[i].by \in Caller => i \in 1..Len(queue)
    BY <1>3, <2>1
  <2> QED
    BY <1>1, <2>1, <2>2 DEF Awaited
<1> QED
  BY <1>2, <1>3

\* A launch asks for the configuration and waits.
LEMMA AsksStep ==
    ASSUME PlannerInv, NEW l \in Caller, Launch(l)
    PROVE  PlannerInv'
<1> DEFINE E == [by : Caller \cup {"ensure", "configure"}, roots : FolderLists]
<1>1. PICK request \in Requests :
        launch' = [launch EXCEPT ![l] = [step |-> "configuring", request |-> request, roots |-> folders]]
  BY DEF Launch
<1> DEFINE at == [step |-> "configuring", request |-> request, roots |-> folders]
           entry == [by |-> l, roots |-> folders]
<1>2. /\ SetupInv /\ Awaited /\ launch[l] = NotAsked /\ EnsureConfigured(l) /\ queue' = Append(queue, entry)
      /\ queue \in Seq(E) /\ folders \in FolderLists
  BY DEF PlannerInv, SetupInv, SetupTypeOK, Launch, EnsureConfigured, Asked
<1>3. SetupInv'
  BY <1>2, AskedStep
<1>4. at \in Waits /\ at.step = "configuring" /\ at.roots = folders
  BY <1>2 DEF Waits
<1>5. entry.by = l /\ entry.roots = folders /\ entry \in E
  BY <1>2
<1>6. /\ launch \in [Caller -> {NotAsked, Failed} \cup Waits \cup Looks \cup Ready]
      /\ \A k \in Caller : LaunchSound(launch[k])
  BY DEF PlannerInv
<1> HIDE DEF at
<1>7. /\ launch' \in [Caller -> {NotAsked, Failed} \cup Waits \cup Looks \cup Ready]
      /\ launch'[l] = at /\ \A k \in Caller : k # l => launch'[k] = launch[k]
  BY <1>1, <1>4, <1>6 DEF at
<1>8. \A k \in Caller : LaunchSound(launch'[k])
  BY <1>4, <1>6, <1>7 DEF LaunchSound
<1>9. \A i \in 1..Len(queue) : queue[i].by # l
  BY <1>2 DEF Awaited, NotAsked
<1>i. launch[l].step # "configuring"
  BY <1>2 DEF NotAsked
<1> HIDE DEF E
<1>10. /\ Len(queue) \in Nat /\ Len(queue') = Len(queue) + 1
       /\ \A i \in 1..Len(queue) : i \in 1..Len(queue') /\ queue'[i] = queue[i]
       /\ Len(queue) + 1 \in 1..Len(queue') /\ queue'[Len(queue) + 1] = entry
  BY <1>2
<1>11. \A i \in 1..Len(queue') : i \in 1..Len(queue) \/ i = Len(queue) + 1
  BY <1>10
<1>12. Awaited'
  <2>1. ASSUME NEW k \in Caller, launch'[k].step = "configuring"
        PROVE  \E i \in 1..Len(queue') : queue'[i] = [by |-> k, roots |-> launch'[k].roots]
    <3>1. CASE k = l
      BY <1>4, <1>7, <1>10, <3>1
    <3>2. CASE k # l
      <4>1. PICK i \in 1..Len(queue) : queue[i] = [by |-> k, roots |-> launch[k].roots]
        BY <1>2, <1>7, <2>1, <3>2 DEF Awaited
      <4> QED
        BY <1>7, <1>10, <3>2, <4>1
    <3> QED
      BY <3>1, <3>2
  <2>2. ASSUME NEW i \in 1..Len(queue'), queue'[i].by \in Caller
        PROVE  /\ launch'[queue'[i].by].step = "configuring" /\ launch'[queue'[i].by].roots = queue'[i].roots
               /\ \A j \in 1..Len(queue') : queue'[j].by = queue'[i].by => j = i
    <3> HIDE DEF entry
    <3>1. CASE i \in 1..Len(queue)
      BY <1>2, <1>5, <1>7, <1>9, <1>10, <1>11, <2>2, <3>1 DEF Awaited
    <3>2. CASE i = Len(queue) + 1
      BY <1>4, <1>5, <1>7, <1>9, <1>10, <1>11, <3>2
    <3> QED
      BY <1>11, <3>1, <3>2
  <2> QED
    BY <2>1, <2>2 DEF Awaited
<1> QED
  BY <1>3, <1>7, <1>8, <1>12 DEF PlannerInv

\* The first setup ends; the launch that waited for it goes on.
LEMMA AwaitedEnds ==
    ASSUME SetupInv, Awaited, queue # <<>>, queue' = Tail(queue),
           \A k \in Caller : IF Head(queue).by = k THEN launch'[k].step # "configuring" ELSE launch'[k] = launch[k]
    PROVE  Awaited'
<1> DEFINE E == [by : Caller \cup {"ensure", "configure"}, roots : FolderLists]
<1>1. queue \in Seq(E)
  BY DEF SetupInv, SetupTypeOK
<1> HIDE DEF E
<1>2. /\ Len(queue) \in Nat \ {0} /\ Len(queue') = Len(queue) - 1 /\ Head(queue) = queue[1]
      /\ \A i \in 1..Len(queue') : i \in 1..Len(queue) /\ i + 1 \in 1..Len(queue) /\ queue'[i] = queue[i + 1]
      /\ \A i \in 1..Len(queue) : i # 1 => i - 1 \in 1..Len(queue') /\ queue'[i - 1] = queue[i]
  <2>1. Len(queue) \in Nat \ {0} /\ Tail(queue) \in Seq(E) /\ Len(Tail(queue)) = Len(queue) - 1 /\ Head(queue) = queue[1]
    BY <1>1
  <2>2. \A i \in 1..(Len(queue) - 1) : Tail(queue)[i] = queue[i + 1]
    BY <1>1, <2>1
  <2>3. \A i \in 1..Len(queue) : i # 1 => i - 1 \in 1..(Len(queue) - 1) /\ Tail(queue)[i - 1] = queue[i]
    <3> TAKE i \in 1..Len(queue)
    <3> HAVE i # 1
    <3>1. i - 1 \in 1..(Len(queue) - 1) /\ i - 1 + 1 = i
      BY <2>1
    <3>2. Tail(queue)[i - 1] = queue[i - 1 + 1]
      BY <2>2, <3>1
    <3>3. queue[i - 1 + 1] = queue[i]
      BY <3>1, Zenon
    <3> QED
      BY <3>1, <3>2, <3>3, Zenon
  <2> QED
    BY <2>1, <2>2, <2>3
<1>3. ASSUME NEW k \in Caller, launch'[k].step = "configuring"
      PROVE  \E i \in 1..Len(queue') : queue'[i] = [by |-> k, roots |-> launch'[k].roots]
  <2>1. Head(queue).by # k /\ launch'[k] = launch[k]
    BY <1>3
  <2>2. PICK i \in 1..Len(queue) : queue[i] = [by |-> k, roots |-> launch[k].roots]
    BY <1>3, <2>1 DEF Awaited
  <2>3. queue[i].by = k
    BY <2>2
  <2>4. i # 1
    BY <1>2, <2>1, <2>3
  <2>5. i - 1 \in 1..Len(queue') /\ queue'[i - 1] = queue[i]
    BY <1>2, <2>4
  <2> QED
    BY <2>1, <2>2, <2>5
<1>4. ASSUME NEW i \in 1..Len(queue'), queue'[i].by \in Caller
      PROVE  /\ launch'[queue'[i].by].step = "configuring" /\ launch'[queue'[i].by].roots = queue'[i].roots
             /\ \A j \in 1..Len(queue') : queue'[j].by = queue'[i].by => j = i
  <2>1. i + 1 \in 1..Len(queue) /\ queue'[i] = queue[i + 1] /\ i \in Nat \ {0}
    BY <1>2
  <2>2. /\ launch[queue[i + 1].by].step = "configuring" /\ launch[queue[i + 1].by].roots = queue[i + 1].roots
        /\ \A j \in 1..Len(queue) : queue[j].by = queue[i + 1].by => j = i + 1
    BY <1>4, <2>1 DEF Awaited
  <2>3. queue[1].by # queue[i + 1].by
    BY <1>2, <2>1, <2>2
  <2>4. launch'[queue[i + 1].by] = launch[queue[i + 1].by]
    BY <1>2, <1>4, <2>1, <2>3
  <2>5. \A j \in 1..Len(queue') : queue'[j].by = queue'[i].by => j = i
    <3> TAKE j \in 1..Len(queue')
    <3> HAVE queue'[j].by = queue'[i].by
    <3>1. j + 1 \in 1..Len(queue) /\ queue'[j] = queue[j + 1] /\ j \in Nat
      BY <1>2
    <3>2. j + 1 = i + 1
      BY <2>1, <2>2, <3>1
    <3> QED
      BY <2>1, <3>1, <3>2
  <2> QED
    BY <2>1, <2>2, <2>4, <2>5
<1> QED
  BY <1>3, <1>4 DEF Awaited

\* The configuration is handed to the launch that waits for it.
LEMMA HandedStep ==
    ASSUME PlannerInv, NEW l \in Caller, Configured(l)
    PROVE  PlannerInv'
<1> DEFINE at == launch[l]
<1>1. /\ SetupInv /\ SetupTypeOK /\ HandsAgreed /\ Awaited /\ Done /\ setup.step = "done"
      /\ Head(queue).by = l /\ queue' = Tail(queue)
      /\ launch \in [Caller -> {NotAsked, Failed} \cup Waits \cup Looks \cup Ready]
      /\ \A k \in Caller : LaunchSound(launch[k])
  BY DEF PlannerInv, SetupInv, Configured, Done
<1>2. /\ queue # <<>> /\ setup.config \in Configs /\ Parsed(setup.config) = setup.config
      /\ setup.config.roots = Head(queue).roots /\ mem.agreed = setup.config
  BY <1>1 DEF SetupTypeOK, HandsAgreed
<1>3. at.step = "configuring" /\ at.roots = Head(queue).roots
  <2> DEFINE E == [by : Caller \cup {"ensure", "configure"}, roots : FolderLists]
  <2>1. queue \in Seq(E)
    BY <1>1 DEF SetupTypeOK
  <2> HIDE DEF E
  <2>2. 1 \in 1..Len(queue) /\ Head(queue) = queue[1]
    BY <1>2, <2>1
  <2> QED
    BY <1>1, <2>2 DEF Awaited
<1>4. at \in Waits
  BY <1>1, <1>3 DEF NotAsked, Failed, Looks, Ready
<1> DEFINE new == BeginLooking(at, setup.config)
<1>5. LaunchSound(new) /\ new.step # "configuring"
  BY <1>2, <1>3, <1>4, BeginSound DEF Going
<1>6. launch' = [launch EXCEPT ![l] = new]
  BY DEF Configured
<1> HIDE DEF new
<1>7. /\ launch' \in [Caller -> {NotAsked, Failed} \cup Waits \cup Looks \cup Ready]
      /\ launch'[l] = new /\ \A k \in Caller : k # l => launch'[k] = launch[k]
  BY <1>1, <1>5, <1>6 DEF LaunchSound
<1>8. \A k \in Caller : LaunchSound(launch'[k])
  BY <1>1, <1>5, <1>7
<1>9. SetupInv'
  BY <1>1, DoneStep
<1>10. Awaited'
  BY <1>1, <1>2, <1>5, <1>7, AwaitedEnds
<1> QED
  BY <1>7, <1>8, <1>9, <1>10 DEF PlannerInv, LaunchSound

\* The setup answers a caller that is not a launch.
LEMMA EndsStep ==
    ASSUME PlannerInv, Done, Head(queue).by \notin Caller, launch' = launch
    PROVE  PlannerInv'
<1>1. /\ SetupInv /\ Awaited /\ queue # <<>> /\ queue' = Tail(queue)
  BY DEF PlannerInv, SetupInv, SetupTypeOK, Done
<1>2. SetupInv'
  BY <1>1, DoneStep
<1>3. Awaited'
  BY <1>1, AwaitedEnds
<1> QED
  BY <1>2, <1>3 DEF PlannerInv, LaunchSound

\* A failed setup fails the launch that waits for it, and no other.
LEMMA SetupFailsStep ==
    ASSUME PlannerInv, SetupFails
    PROVE  PlannerInv'
<1>1. /\ SetupInv /\ Awaited /\ UpdateFails /\ queue' = Tail(queue) /\ queue # <<>>
      /\ launch' = [l \in Caller |-> IF Head(queue).by = l THEN Failed ELSE launch[l]]
      /\ launch \in [Caller -> {NotAsked, Failed} \cup Waits \cup Looks \cup Ready]
      /\ \A k \in Caller : LaunchSound(launch[k])
  BY DEF PlannerInv, SetupInv, SetupTypeOK, SetupFails, UpdateFails
<1>2. SetupInv'
  BY <1>1, UpdateFailsStep
<1>3. \A k \in Caller : launch'[k] = IF Head(queue).by = k THEN Failed ELSE launch[k]
  BY <1>1
<1>4. LaunchSound(Failed) /\ Failed.step # "configuring"
  BY DEF LaunchSound, Failed
<1>5. /\ launch' \in [Caller -> {NotAsked, Failed} \cup Waits \cup Looks \cup Ready]
      /\ \A k \in Caller : LaunchSound(launch'[k])
  BY <1>1, <1>3, <1>4
<1>6. Awaited'
  BY <1>1, <1>3, <1>4, AwaitedEnds
<1> QED
  BY <1>2, <1>5, <1>6 DEF PlannerInv, LaunchSound

\* A reload forgets the launches.
LEMMA ReloadedStep ==
    ASSUME PlannerInv, ReloadWindow, launch' = [l \in Caller |-> NotAsked]
    PROVE  PlannerInv'
<1>1. SetupInv'
  BY ReloadStep DEF PlannerInv
<1>2. LaunchSound(NotAsked) /\ NotAsked.step # "configuring"
  BY DEF LaunchSound, NotAsked
<1>3. \A l \in Caller : launch'[l] = NotAsked
  OBVIOUS
<1>4. Awaited'
  <2> DEFINE entry == [by |-> "ensure", roots |-> folders']
  <2>1. queue' = IF saved' THEN <<entry>> ELSE <<>>
    BY DEF ReloadWindow
  <2>2. entry.by \notin Caller
    BY SetupAssumption
  <2> HIDE DEF entry
  <2>3. \A i \in 1..Len(queue') : queue'[i].by \notin Caller
    BY <2>1, <2>2
  <2> QED
    BY <1>2, <1>3, <2>3 DEF Awaited
<1> QED
  BY <1>1, <1>2, <1>3, <1>4 DEF PlannerInv, LaunchSound

\* A probe is over, one way or another.
LEMMA ProbeStep ==
    ASSUME PlannerInv, NEW l \in Caller, Probing(l)
    PROVE  PlannerInv'
<1> USE PlannerAssumption
<1> DEFINE at == launch[l]
<1>1. /\ SetupInv /\ Awaited /\ at.step = "probing" /\ LaunchSound(at)
      /\ launch \in [Caller -> {NotAsked, Failed} \cup Waits \cup Looks \cup Ready]
      /\ \A k \in Caller : LaunchSound(launch[k])
      /\ UNCHANGED setupVars
  BY DEF PlannerInv, Probing
<1>2. at \in Looks /\ at.active # {} /\ Bounded(at) /\ Consulted(at)
  BY <1>1 DEF LaunchSound, NotAsked, Failed, Waits, Ready
<1>3. ASSUME NEW new, launch' = [launch EXCEPT ![l] = new], Going(new)
      PROVE  PlannerInv'
  <2>1. SetupInv'
    BY <1>1 DEF setupVars, SetupInv, SetupTypeOK, UpdatesSound, Agreement, HandsAgreed, KeepsUp
  <2>2. /\ launch' \in [Caller -> {NotAsked, Failed} \cup Waits \cup Looks \cup Ready]
        /\ launch'[l] = new /\ \A k \in Caller : k # l => launch'[k] = launch[k]
    BY <1>1, <1>3 DEF LaunchSound, Going
  <2>3. \A k \in Caller : LaunchSound(launch'[k])
    BY <1>1, <1>3, <2>2 DEF Going
  <2>4. \A i \in 1..Len(queue) : queue[i].by # l
    BY <1>1 DEF Awaited
  <2>5. queue' = queue /\ new.step # "configuring"
    BY <1>1, <1>3 DEF setupVars, Going
  <2>6. Awaited'
    BY <1>1, <2>2, <2>4, <2>5 DEF Awaited
  <2> QED
    BY <2>1, <2>2, <2>3, <2>6 DEF PlannerInv
<1>4. ASSUME NEW root \in at.active, NEW answered \in SUBSET {root}, NEW unanswered \in 0..1,
             ProbeEnds(l, root, answered, unanswered)
      PROVE  PlannerInv'
  <2> DEFINE settled == Settled(at, root, answered, unanswered)
             next == NextFolder(settled)
  <2>1. IsFiniteSet(at.active) /\ Cardinality(at.active) \in 0..MaxConcurrency /\ MaxConcurrency \in Nat
    BY <1>2 DEF Bounded
  <2>2. at.retired \in Nat /\ MaxOutstanding \in Nat /\ at.active \in SUBSET Root /\ root \in Root
    BY <1>2 DEF Looks
  <2>3. /\ settled \in Looks
        /\ settled.active = at.active \ {root} /\ settled.left = at.left /\ settled.roots = at.roots
        /\ settled.request = at.request /\ settled.config = at.config /\ settled.terms = at.terms
        /\ settled.probed = at.probed /\ settled.avail = at.avail \cup answered
        /\ settled.retired = at.retired + unanswered
    <3>1. /\ at.active \ {root} \in SUBSET Root /\ at.avail \cup answered \in SUBSET Root
          /\ at.retired + unanswered \in Nat
      BY <1>2, <2>2 DEF Looks
    <3>2. settled = [at EXCEPT !.active = at.active \ {root}, !.avail = at.avail \cup answered,
                               !.retired = at.retired + unanswered]
      BY DEF Settled
    <3> HIDE DEF settled
    <3> QED
      BY <1>2, <3>1, <3>2 DEF Looks
  <2>4. launch' = [launch EXCEPT ![l] = next]
    BY <1>4 DEF ProbeEnds
  <2> HIDE DEF settled
  <2>5. IsFiniteSet(settled.active) /\ Cardinality(settled.active) = Cardinality(at.active) - 1
    BY <2>1, <2>3, FS_RemoveElement, SMTT(30)
  <2>6. Cardinality(settled.active) \in Nat
    BY <2>5, FS_CardinalityType
  <2>7. /\ Cardinality(settled.active) \in 0..MaxConcurrency /\ Cardinality(settled.active) < MaxConcurrency
        /\ Cardinality(settled.active) + settled.retired <= MaxOutstanding
    BY <1>2, <2>1, <2>2, <2>3, <2>5, <2>6 DEF Bounded
  <2>8. Bounded(settled)
    BY <1>2, <2>3, <2>5, <2>7 DEF Bounded
  <2>9. Consulted(settled)
    BY <1>2, <2>3 DEF Consulted
  <2>10. Going(next)
    BY <2>3, <2>7, <2>8, <2>9, NextFolderSound
  <2> HIDE DEF next
  <2> QED
    BY <1>3, <2>4, <2>10
<1>5. CASE ProbeAnswers(l)
  BY <1>4, <1>5 DEF ProbeAnswers
<1>6. CASE ProbeFails(l)
  BY <1>4, <1>6 DEF ProbeFails
<1>7. CASE ProbeRetired(l)
  BY <1>4, <1>7 DEF ProbeRetired
<1>8. CASE DeadlinePasses(l)
  <2> DEFINE new == [at EXCEPT !.late = TRUE]
  <2>1. launch' = [launch EXCEPT ![l] = new]
    BY <1>8 DEF DeadlinePasses
  <2>2. /\ new \in Looks /\ new.step = "probing"
        /\ new.active = at.active /\ new.left = at.left /\ new.roots = at.roots
        /\ new.request = at.request /\ new.config = at.config /\ new.terms = at.terms
        /\ new.probed = at.probed /\ new.avail = at.avail /\ new.retired = at.retired
    BY <1>1, <1>2 DEF Looks
  <2> HIDE DEF new
  <2>3. Going(new)
    BY <1>2, <2>2 DEF Going, LaunchSound, Bounded, Consulted
  <2> QED
    BY <1>3, <2>1, <2>3
<1> QED
  BY <1>5, <1>6, <1>7, <1>8 DEF Probing

\* The setup goes on while the launches wait.
LEMMA SetsUpStep ==
    ASSUME PlannerInv, SetupSteps, launch' = launch
    PROVE  PlannerInv'
<1>1. SetupInv'
  BY SetupStepsStep DEF PlannerInv
<1>2. queue' = queue \/ \E entry : queue' = Append(queue, entry) /\ entry.by \notin Caller
  <2>1. CASE ChangeFolders
    <3> DEFINE entry == [by |-> "ensure", roots |-> folders']
    <3>1. entry.by \notin Caller /\ (queue' = queue \/ queue' = Append(queue, entry))
      BY <2>1, SetupAssumption DEF ChangeFolders
    <3> QED
      BY <3>1
  <2>2. CASE Configure
    <3> DEFINE entry == [by |-> "configure", roots |-> folders]
    <3>1. entry.by \notin Caller /\ queue' = Append(queue, entry)
      BY <2>2, SetupAssumption DEF Configure, Asked
    <3> QED
      BY <3>1
  <2>3. CASE LoadUnusable \/ LoadChanged \/ LoadMatching \/ Answer \/ DismissCommand \/ DismissSetup
    BY <2>3
       DEF LoadUnusable, LoadChanged, LoadMatching, Answer, DismissCommand, DismissSetup, GoesTo
  <2>4. CASE MarkPending \/ StoreLoaded \/ SaveAnswer \/ ClearPending
    BY <2>4 DEF MarkPending, StoreLoaded, SaveAnswer, ClearPending, Updates
  <2> QED
    BY <2>1, <2>2, <2>3, <2>4 DEF SetupSteps
<1>3. Awaited'
  BY <1>2, AwaitedStands
<1> QED
  BY <1>1, <1>3 DEF PlannerInv, LaunchSound

\* Every step keeps the planner's invariant.
LEMMA NextInv == PlannerInv /\ [LaunchNext]_launchVars => PlannerInv'
<1> SUFFICES ASSUME PlannerInv, [LaunchNext]_launchVars PROVE PlannerInv'
  OBVIOUS
<1>1. CASE SetupSteps /\ UNCHANGED launch
  BY <1>1, SetsUpStep
<1>2. CASE Done /\ Head(queue).by \notin Caller /\ UNCHANGED launch
  BY <1>2, EndsStep
<1>3. CASE SetupFails
  BY <1>3, SetupFailsStep
<1>4. CASE ReloadWindow /\ launch' = [l \in Caller |-> NotAsked]
  BY <1>4, ReloadedStep
<1>5. ASSUME NEW l \in Caller, Launch(l) \/ Configured(l) \/ Probing(l)
      PROVE  PlannerInv'
  BY <1>5, AsksStep, HandedStep, ProbeStep
<1>6. CASE UNCHANGED launchVars
  <2>1. SetupInv'
    BY <1>6
       DEF PlannerInv, launchVars, setupVars, SetupInv, SetupTypeOK, UpdatesSound, Agreement,
           HandsAgreed, KeepsUp
  <2>2. launch' = launch /\ queue' = queue
    BY <1>6 DEF launchVars, setupVars
  <2>3. Awaited'
    BY <2>2, AwaitedStands
  <2> QED
    BY <2>1, <2>2, <2>3 DEF PlannerInv, LaunchSound
<1> QED
  BY <1>1, <1>2, <1>3, <1>4, <1>5, <1>6 DEF LaunchNext

----------------------------------------------------------------------------
(* The theorems *)

\* What the setup and the launches keep between them through every step: the setup's
\* stored values, its queue, and what each launch has looked at.
THEOREM PlannerInvariance == LaunchSpec => []PlannerInv
  BY InitInv, NextInv, PTL DEF LaunchSpec

\* The invariant has the types.
LEMMA Typed == PlannerInv => LaunchTypeOK
<1> SUFFICES ASSUME PlannerInv PROVE LaunchTypeOK
  OBVIOUS
<1> USE PlannerAssumption
<1>1. /\ SetupTypeOK /\ launch \in [Caller -> {NotAsked, Failed} \cup Waits \cup Looks \cup Ready]
      /\ Awaited /\ \A l \in Caller : LaunchSound(launch[l])
  BY DEF PlannerInv, SetupInv
<1>2. ASSUME NEW l \in Caller, launch[l].step = "probing"
      PROVE  /\ launch[l].config.roots = launch[l].roots
             /\ Cardinality(launch[l].active) \in 1..MaxConcurrency
             /\ Cardinality(launch[l].active) + launch[l].retired <= MaxOutstanding
             /\ launch[l].avail \cup launch[l].active \subseteq launch[l].probed
  <2>1. launch[l].active # {} /\ Bounded(launch[l]) /\ Consulted(launch[l])
    BY <1>1, <1>2 DEF LaunchSound
  <2>2. Cardinality(launch[l].active) # 0
    BY <2>1, FS_EmptySet DEF Bounded
  <2> QED
    BY <2>1, <2>2 DEF Bounded, Consulted
<1> QED
  BY <1>1, <1>2 DEF LaunchTypeOK, Awaited

\* The probes of a launch stay within both limits, every folder it counts on was
\* looked at, and the setups and the launches that wait for them belong together,
\* for any folders, launches, limits and whatever the user may choose
\* (findAvailableRootIds, SetupController).
THEOREM LaunchTypeCorrect == LaunchSpec => []LaunchTypeOK
  BY PlannerInvariance, Typed, PTL

\* No update, and no reload or refused update between two of them, leaves a stored
\* configuration about folders the user was not asked about, and once the setups
\* are over it is about those the workspace has (ConfigurationStore, SetupController).
THEOREM ListPutToUser == LaunchSpec => []FoldersAnswered
<1>1. PlannerInv => FoldersAnswered
  BY DEF PlannerInv, SetupInv, UpdatesSound, Agreement, KeepsUp, FoldersAnswered
<1> QED
  BY <1>1, PlannerInvariance, PTL

\* A session is given only folders the user agreed to, and no launch is refused for
\* a folder that was not looked at, however many folders there are and however many
\* of them hang (planLaunch, prioritizeRequestedRoot).
THEOREM AccessAgreed == LaunchSpec => []PlansJustified
<1>1. PlannerInv => PlansJustified
  <2> SUFFICES ASSUME PlannerInv, NEW l \in Caller, launch[l].step = "planned"
               PROVE  LET at == launch[l]
                          default == DefaultRoot(at.roots, at.terms, at.avail)
                      IN  /\ at.plan.root # Undefined => at.plan.imports \subseteq MayImport(at.terms, at.plan.root, default)
                          /\ at.plan.error = "root-unavailable" => at.request \in at.probed
                          /\ at.plan.fallback /\ (at.request \notin Root \/ MaxConcurrency > 1) =>
                               at.config.override \in at.probed
    BY DEF PlansJustified
  <2> DEFINE at == launch[l]
  <2>1. /\ at \in {NotAsked, Failed} \cup Waits \cup Looks \cup Ready /\ Consulted(at)
        /\ at.plan = Plan(at.request, at.roots, at.config, at.avail)
    BY DEF PlannerInv, LaunchSound
  <2>2. at \in Ready
    BY <2>1 DEF NotAsked, Failed, Waits, Looks
  <2>3. at.request \in Requests /\ at.roots \in Seq(Root) /\ at.config \in Configs /\ at.avail \in SUBSET Root
    BY <2>2, SetupAssumption DEF Ready
  <2> HIDE DEF at
  <2>4. /\ at.plan.root # Undefined =>
             at.plan.imports \subseteq MayImport(at.config, at.plan.root, DefaultRoot(at.roots, at.config, at.avail))
        /\ at.plan.error = "root-unavailable" => at.request \in ToSet(at.roots)
        /\ at.plan.fallback => MayFallBack(at.request, at.config)
    BY <2>1, <2>3, PlanSound
  <2> QED
    BY <2>1, <2>4 DEF Consulted, at
<1> QED
  BY <1>1, PlannerInvariance, PTL

----------------------------------------------------------------------------
(* The inductive invariant *)

\* An operation that stands between the reservation of its conversation and
\* the release.
Holder(o) ==
    \/ op[o].kind = "forget" /\ op[o].step \in {"deleting", "erasing", "asking"}
    \/ op[o].kind = "restore" /\ op[o].step \in {"planning", "launching", "saving"}
    \/ op[o].kind = "resume" /\ op[o].step \in {"planning", "preparing", "launching", "saving"}

\* Whatever is stored, running, queued to be written or to be restored was
\* minted.
MintedFirst ==
    /\ \A u \in Uuid : stored[u] # None => u \in minted
    /\ \A r \in Run : run[r] # Unborn => run[r].uuid \in minted
    /\ \A i \in DOMAIN chain : chain[i].kind # "forget" => chain[i].uuid \in minted
    /\ \A o \in Op : Holder(o) \/ op[o].kind = "restore" => op[o].uuid \in minted

\* Which operations reach which steps.
StepsOfKinds ==
    \A o \in Op :
        /\ op[o].step \in {"launching", "saving"} =>
              op[o].kind \in {"new", "resume", "restore"} /\ op[o].run \in Run
        /\ op[o].step = "asking" => op[o].kind = "forget"
        /\ op[o].step = "moving" => op[o].kind = "restore"
        /\ op[o].step = "erasing" => op[o].kind \in {"forget", "discard", "offered"}

\* A holder's conversation is reserved, and no two holders share one.
HoldersReserve ==
    /\ \A o \in Op : Holder(o) =>
          op[o].uuid \in (IF op[o].kind = "forget" THEN forgetting ELSE resuming)
    /\ \A o, p \in Op : Holder(o) /\ Holder(p) /\ op[o].uuid = op[p].uuid => o = p

\* A queued mutation that an operation waits for finds the operation waiting,
\* and no operation waits for two.
WaitedFor ==
    /\ \A i \in DOMAIN chain : chain[i].by # None =>
          IF chain[i].kind = "forget"
          THEN op[chain[i].by].kind \in {"forget", "offered"} /\ op[chain[i].by].step = "deleting"
          ELSE op[chain[i].by].step = "saving"
    /\ \A i, j \in DOMAIN chain : chain[i].by # None /\ chain[i].by = chain[j].by => i = j

\* The launch of a new session whose record is still to be queued.
Unrecorded(o) == op[o].kind \in {"new", "restore"} /\ op[o].step = "launching"

\* The record of a new session, queued or still to be queued, is the first of
\* its conversation: nothing of it is stored or forgotten, and it is the only one.
RecordedOnce ==
    /\ dropped \subseteq minted
    /\ \A o \in Op : Unrecorded(o) =>
          /\ run[op[o].run] # Unborn
          /\ stored[run[op[o].run].uuid] = None /\ run[op[o].run].uuid \notin dropped
    /\ \A o, p \in Op :
          Unrecorded(o) /\ Unrecorded(p) /\ run[op[o].run].uuid = run[op[p].run].uuid => o = p
    /\ \A i \in DOMAIN chain : chain[i].kind = "upsert" =>
          /\ stored[chain[i].uuid] = None /\ chain[i].uuid \notin dropped
          /\ \A o \in Op : Unrecorded(o) => run[op[o].run].uuid # chain[i].uuid
    /\ \A i, j \in DOMAIN chain :
          /\ chain[i].kind = "upsert" /\ chain[j].kind = "upsert"
          /\ chain[i].uuid = chain[j].uuid
          => i = j

Structure == MintedFirst /\ StepsOfKinds /\ HoldersReserve /\ WaitedFor /\ RecordedOnce

IInv == /\ TypeOK /\ Structure
        /\ OneLivePerConversation /\ ExclusiveUse
        /\ ForgottenStaysForgotten

----------------------------------------------------------------------------
(* What the helpers of the actions do to an operation, a session, the chain *)

\* Begin replaces an idle operation.
LEMMA BeginFacts ==
    ASSUME op \in [Op -> Ops],
           NEW o \in Op, NEW kind \in Kinds, NEW u \in Uuid, NEW step \in Steps,
           NEW name \in Names, Begin(o, kind, u, step, name)
    PROVE  /\ op' \in [Op -> Ops]
           /\ op[o].kind = "none" /\ op[o].step = "idle"
           /\ op'[o].kind = kind /\ op'[o].uuid = u /\ op'[o].step = step
           /\ op'[o].name = name
           /\ \A p \in Op : p # o => op'[p] = op[p]
BY DEF Begin, Ops, Idle

\* GoTo changes the step of an operation that is not idle.
LEMMA GoToFacts ==
    ASSUME op \in [Op -> Ops],
           NEW o \in Op, NEW step \in Steps, op[o] # Idle, GoTo(o, step)
    PROVE  /\ op' \in [Op -> Ops]
           /\ op'[o].kind = op[o].kind /\ op'[o].uuid = op[o].uuid /\ op'[o].run = op[o].run
           /\ op'[o].step = step /\ op'[o].name = op[o].name
           /\ \A p \in Op : p # o => op'[p] = op[p]
BY DEF GoTo, Ops

\* Finish leaves an idle operation.
LEMMA FinishFacts ==
    ASSUME op \in [Op -> Ops], NEW o \in Op, Finish(o)
    PROVE  /\ op' \in [Op -> Ops]
           /\ op'[o].kind = "none" /\ op'[o].step = "idle"
           /\ \A p \in Op : p # o => op'[p] = op[p]
BY DEF Finish, Ops, Idle

\* An operation that is somewhere has a conversation.
LEMMA OpFacts ==
    ASSUME NEW e \in Ops, e.kind # "none" \/ e.step # "idle"
    PROVE  e # Idle /\ e.kind \in Kinds /\ e.uuid \in Uuid /\ e.name \in Names
BY DEF Ops, Idle

\* Publish starts a session that was not there.
LEMMA PublishFacts ==
    ASSUME run \in [Run -> Runs],
           NEW r \in Run, NEW u \in Uuid, NEW name \in Names, NEW resumed \in BOOLEAN,
           Publish(r, u, name, resumed)
    PROVE  /\ run' \in [Run -> Runs]
           /\ run[r] = Unborn /\ run[r].state = "unborn"
           /\ run'[r].uuid = u /\ run'[r].state = "starting" /\ run'[r] # Unborn
           /\ run'[r].name = name
           /\ \A q \in Run : q # r => run'[q] = run[q]
BY DEF Publish, Runs, Unborn

\* A change of state leaves the rest of a session alone.
LEMMA StateFacts ==
    ASSUME run \in [Run -> Runs], NEW r \in Run, run[r].state # "unborn",
           NEW st \in {"starting", "running", "closing", "gone"},
           run' = [run EXCEPT ![r].state = st]
    PROVE  /\ run' \in [Run -> Runs]
           /\ run'[r].uuid = run[r].uuid /\ run'[r].state = st /\ run'[r].name = run[r].name
           /\ run[r] # Unborn
           /\ \A q \in Run : q # r => run'[q] = run[q]
BY DEF Runs, Unborn

\* A session that was launched has a conversation and a name.
LEMMA RunFacts ==
    ASSUME NEW e \in Runs, e.state # "unborn"
    PROVE  e # Unborn /\ e.uuid \in Uuid /\ e.name \in Names
BY DEF Runs, Unborn

\* Enqueue puts a mutation behind the others.
LEMMA EnqueueFacts ==
    ASSUME chain \in Seq(Mutations),
           NEW kind \in {"upsert", "update", "rename", "forget"}, NEW u \in Uuid,
           NEW name \in Names, NEW by \in Op \cup {None}, Enqueue(kind, u, name, by)
    PROVE  /\ chain' \in Seq(Mutations)
           /\ Len(chain) \in Nat /\ Len(chain') = Len(chain) + 1
           /\ DOMAIN chain' = 1..Len(chain')
           /\ DOMAIN chain = 1..Len(chain)
           /\ \A i \in DOMAIN chain : chain'[i] = chain[i]
           /\ chain'[Len(chain')].kind = kind /\ chain'[Len(chain')].uuid = u
           /\ chain'[Len(chain')].by = by /\ chain'[Len(chain')].name = name
BY DEF Enqueue, Mutations

----------------------------------------------------------------------------
(* Type correctness *)

\* Launched keeps the operations and the reservations well typed.
LEMMA LaunchedTypes ==
    ASSUME TypeOK, NEW o \in Op, op[o] # Idle, Launched(o)
    PROVE  op' \in [Op -> Ops] /\ resuming' \subseteq Uuid /\ restoring' \subseteq Uuid
BY GoToFacts, FinishFacts DEF Launched, TypeOK, Steps

\* No step of Next leaves the types.
LEMMA TypeStep ==
    ASSUME TypeOK, Structure, [Next]_vars
    PROVE  TypeOK'
<1> USE NoneAssumption, RenameAssumption DEF TypeOK, history, reservations, composer
<1>0. \A o \in Op : op[o] \in Ops
  OBVIOUS
<1>r. \A r \in Run : run[r] \in Runs
  OBVIOUS
<1>1. ASSUME NEW o \in Op, NEW r \in Run, NEW u \in Uuid, NewSession(o, r, u)
       PROVE  TypeOK'
  <2>1. op[o].kind = "none" /\ op'\in [Op -> Ops]
    BY <1>1 DEF NewSession, Ops, Idle, Kinds, Steps, Names
  <2>2. run' \in [Run -> Runs]
    <3>1. 0 \in Names
      BY DEF Names
    <3> QED BY <1>1, <3>1, PublishFacts DEF NewSession
  <2> QED BY <1>1, <2>1, <2>2 DEF NewSession
<1>2. ASSUME NEW o \in Op, NEW u \in Uuid, Resume(o, u)
       PROVE  TypeOK'
  <2>1. op' \in [Op -> Ops]
    BY <1>2, BeginFacts DEF Resume, Kinds, Steps, Names
  <2> QED BY <1>2, <2>1 DEF Resume
<1>3. ASSUME NEW o \in Op, ResumeRefused(o)
       PROVE  TypeOK'
  <2>1. op[o] # Idle /\ op[o].uuid \in Uuid
    BY <1>3, <1>0, OpFacts DEF ResumeRefused
  <2>2. op' \in [Op -> Ops]
    BY <1>3, <2>1, GoToFacts, FinishFacts DEF ResumeRefused, Steps
  <2> QED BY <1>3, <2>1, <2>2 DEF ResumeRefused
<1>4. ASSUME NEW o \in Op, ResumePlanned(o)
       PROVE  TypeOK'
  <2>1. op[o] # Idle /\ op[o].uuid \in Uuid
    BY <1>4, <1>0, OpFacts DEF ResumePlanned
  <2>2. op' \in [Op -> Ops]
    BY <1>4, <2>1, GoToFacts, FinishFacts DEF ResumePlanned, Steps
  <2> QED BY <1>4, <2>1, <2>2 DEF ResumePlanned
<1>5. ASSUME NEW o \in Op, NEW r \in Run, ResumeLaunch(o, r)
       PROVE  TypeOK'
  <2>1. op[o] # Idle /\ op[o].uuid \in Uuid /\ op[o].name \in Names
    BY <1>5, <1>0, OpFacts DEF ResumeLaunch
  <2>2. run' \in [Run -> Runs]
    BY <1>5, <2>1, PublishFacts DEF ResumeLaunch
  <2>3. op' \in [Op -> Ops]
    BY <1>5, <1>0, <2>1, ZenonT(60) DEF ResumeLaunch, Ops, Steps
  <2> QED BY <1>5, <2>2, <2>3 DEF ResumeLaunch
<1>6. ASSUME NEW o \in Op, NEW u \in Uuid, Restore(o, u)
       PROVE  TypeOK'
  <2>1. op' \in [Op -> Ops]
    BY <1>6, BeginFacts DEF Restore, Kinds, Steps, Names
  <2> QED BY <1>6, <2>1 DEF Restore
<1>7. ASSUME NEW o \in Op, RestoreFailed(o)
       PROVE  TypeOK'
  <2>1. op[o] # Idle /\ op[o].uuid \in Uuid
    BY <1>7, <1>0, OpFacts DEF RestoreFailed
  <2>2. op' \in [Op -> Ops]
    BY <1>7, <2>1, GoToFacts, FinishFacts DEF RestoreFailed, Steps
  <2> QED BY <1>7, <2>1, <2>2 DEF RestoreFailed
<1>8. ASSUME NEW o \in Op, RestoreReserved(o)
       PROVE  TypeOK'
  <2>1. op[o] # Idle /\ op[o].uuid \in Uuid
    BY <1>8, <1>0, OpFacts DEF RestoreReserved
  <2>2. op' \in [Op -> Ops]
    BY <1>8, <2>1, GoToFacts, FinishFacts DEF RestoreReserved, Steps
  <2> QED BY <1>8, <2>1, <2>2 DEF RestoreReserved
<1>9. ASSUME NEW o \in Op, NEW r \in Run, NEW u \in Uuid, RestoreLaunch(o, r, u)
       PROVE  TypeOK'
  <2>1. op[o] # Idle /\ op' = [op EXCEPT ![o].step = "launching", ![o].run = r]
    BY <1>9, <1>0, OpFacts DEF RestoreLaunch
  <2>2. run' \in [Run -> Runs]
    <3>1. 0 \in Names
      BY DEF Names
    <3> QED BY <1>9, <3>1, PublishFacts DEF RestoreLaunch
  <2>3. op' \in [Op -> Ops]
    BY <1>0, <2>1, ZenonT(60) DEF Ops, Steps
  <2> QED BY <1>9, <2>2, <2>3 DEF RestoreLaunch
<1>10. ASSUME NEW o \in Op, RestoreMoved(o)
       PROVE  TypeOK'
  <2>1. op[o] # Idle /\ op[o].uuid \in Uuid
    BY <1>10, <1>0, OpFacts DEF RestoreMoved
  <2>2. op' \in [Op -> Ops]
    BY <1>10, <2>1, GoToFacts, FinishFacts DEF RestoreMoved, Steps
  <2> QED BY <1>10, <2>1, <2>2 DEF RestoreMoved
<1>11. ASSUME NEW o \in Op, SessionRuns(o)
       PROVE  TypeOK'
  <2>1. op[o] # Idle /\ op[o].kind \in Kinds /\ op[o].run \in Run
    BY <1>11, <1>0, OpFacts DEF SessionRuns, Structure, StepsOfKinds
  <2>2. run[op[o].run].uuid \in Uuid /\ SavedName(o) \in Names
    BY <1>11, <1>r, <2>1, RunFacts DEF SessionRuns, SavedName
  <2>3. run' \in [Run -> Runs]
    BY <1>11, <2>1, StateFacts DEF SessionRuns
  <2>4. chain' \in Seq(Mutations)
    <3>1. (IF op[o].kind = "resume" THEN "update" ELSE "upsert")
             \in {"upsert", "update", "rename", "forget"}
      OBVIOUS
    <3> QED BY <1>11, <2>2, <3>1, EnqueueFacts DEF SessionRuns
  <2>5. op' \in [Op -> Ops]
    BY <1>11, <2>1, GoToFacts DEF SessionRuns, Steps
  <2> QED BY <1>11, <2>3, <2>4, <2>5 DEF SessionRuns
<1>12. ASSUME NEW o \in Op, LaunchReturned(o)
       PROVE  TypeOK'
  <2>1. op[o] # Idle /\ op[o].uuid \in Uuid
    BY <1>12, <1>0, OpFacts DEF LaunchReturned
  <2>2. op' \in [Op -> Ops] /\ resuming' \subseteq Uuid /\ restoring' \subseteq Uuid
    BY <1>12, <2>1, LaunchedTypes DEF LaunchReturned
  <2> QED BY <1>12, <2>2 DEF LaunchReturned
<1>13. ASSUME NEW r \in Run, SessionCloses(r)
       PROVE  TypeOK'
  <2>1. run[r].state # "unborn" /\ run[r].uuid \in Uuid
    BY <1>13, <1>r, RunFacts DEF SessionCloses, Registered
  <2>2. run' \in [Run -> Runs]
    BY <1>13, <2>1, StateFacts DEF SessionCloses
  <2> QED BY <1>13, <2>1, <2>2 DEF SessionCloses
<1>14. ASSUME NEW r \in Run, SessionEnds(r)
       PROVE  TypeOK'
  <2>1. run[r].state # "unborn" /\ run[r].uuid \in Uuid
    BY <1>14, <1>r, RunFacts DEF SessionEnds, Registered
  <2>2. run' \in [Run -> Runs]
    BY <1>14, <2>1, StateFacts DEF SessionEnds
  <2> QED BY <1>14, <2>1, <2>2 DEF SessionEnds
<1>15. ASSUME NEW r \in Run, Rename(r)
       PROVE  TypeOK'
  <2>1. renames' \in Names
    BY <1>15 DEF Rename, Names
  <2>2. run[r] # Unborn /\ run[r].uuid \in Uuid
    BY <1>15, <1>r, RunFacts DEF Rename, Registered
  <2>3. run' \in [Run -> Runs]
    BY <1>15, <1>r, <2>1, <2>2 DEF Rename, Runs
  <2>4. chain' \in Seq(Mutations)
    BY <1>15, <2>1, <2>2, EnqueueFacts DEF Rename
  <2> QED BY <1>15, <2>1, <2>3, <2>4 DEF Rename
<1>16. ASSUME NEW o \in Op, NEW u \in Uuid, Forget(o, u)
       PROVE  TypeOK'
  <2>1. op' \in [Op -> Ops]
    BY <1>16, BeginFacts DEF Forget, Kinds, Steps, Names
  <2>2. chain' \in Seq(Mutations)
    BY <1>16, EnqueueFacts DEF Forget, Names
  <2> QED BY <1>16, <2>1, <2>2 DEF Forget
<1>17. ASSUME NEW o \in Op, NEW u \in Uuid, Discard(o, u)
       PROVE  TypeOK'
  <2>1. op' \in [Op -> Ops]
    BY <1>17, BeginFacts DEF Discard, Kinds, Steps, Names
  <2> QED BY <1>17, <2>1 DEF Discard
<1>18. ASSUME NEW o \in Op, NEW u \in Uuid, TakeOffer(o, u)
       PROVE  TypeOK'
  <2>1. op' \in [Op -> Ops]
    BY <1>18, BeginFacts DEF TakeOffer, Kinds, Steps, Names
  <2>2. chain' \in Seq(Mutations)
    BY <1>18, EnqueueFacts DEF TakeOffer, Names
  <2> QED BY <1>18, <2>1, <2>2 DEF TakeOffer
<1>19. ASSUME NEW u \in Uuid, DismissOffer(u)
       PROVE  TypeOK'
  BY <1>19 DEF DismissOffer
<1>20. ASSUME NEW o \in Op, Erased(o)
       PROVE  TypeOK'
  <2>1. op[o] # Idle /\ op[o].uuid \in Uuid
    BY <1>20, <1>0, OpFacts DEF Erased
  <2>2. op' \in [Op -> Ops]
    BY <1>20, <2>1, GoToFacts, FinishFacts DEF Erased, Steps
  <2> QED BY <1>20, <2>1, <2>2 DEF Erased
<1>21. ASSUME NEW o \in Op, Answered(o)
       PROVE  TypeOK'
  <2>1. op[o] # Idle /\ op[o].uuid \in Uuid
    BY <1>21, <1>0, OpFacts DEF Answered
  <2>2. op' \in [Op -> Ops]
    BY <1>21, <2>1, GoToFacts, FinishFacts DEF Answered, Steps
  <2> QED BY <1>21, <2>1, <2>2 DEF Answered
<1>22. ASSUME NEW ok \in BOOLEAN, StoreStep(ok)
       PROVE  TypeOK'
  <2>1. PICK m \in Mutations : m = Head(chain)
    BY <1>22 DEF StoreStep
  <2>2. chain' \in Seq(Mutations)
    BY <1>22 DEF StoreStep
  <2>3. stored' \in [Uuid -> Names \cup {None}] /\ dropped' \subseteq Uuid /\ unsaved' \subseteq Uuid
    BY <1>22, <2>1 DEF StoreStep, Mutations
  <2>4. /\ op' \in [Op -> Ops] /\ resuming' \subseteq Uuid /\ restoring' \subseteq Uuid
        /\ durable \subseteq forgotten' /\ forgotten' \subseteq Uuid
    <3>1. CASE m.by = None
      BY <1>22, <2>1, <3>1 DEF StoreStep
    <3>2. ASSUME m.by # None PROVE m.by \in Op /\ op[m.by] # Idle /\ op[m.by].uuid \in Uuid
      <4>1. m.by \in Op
        BY <3>2 DEF Mutations
      <4>2. 1 \in DOMAIN chain /\ chain[1] = m
        BY <1>22, <2>1 DEF StoreStep
      <4>3. op[m.by].step # "idle"
        BY <3>2, <4>2 DEF Structure, WaitedFor
      <4> QED BY <1>0, <4>1, <4>3, OpFacts
    <3>3. CASE m.by # None /\ m.kind = "forget"
      <4>1. Deleted(m.by, ok)
        BY <1>22, <2>1, <3>3 DEF StoreStep
      <4> QED BY <3>2, <3>3, <4>1, GoToFacts, FinishFacts DEF Deleted, Steps
    <3>4. CASE m.by # None /\ m.kind # "forget"
      <4>1. Launched(m.by) /\ UNCHANGED forgotten
        BY <1>22, <2>1, <3>4 DEF StoreStep
      <4> QED BY <3>2, <3>4, <4>1, LaunchedTypes
    <3> QED BY <3>1, <3>3, <3>4
  <2> QED BY <1>22, <2>2, <2>3, <2>4 DEF StoreStep
<1>23. CASE Reload
  <2>1. run' \in [Run -> Runs]
    BY <1>23, <1>r DEF Reload, Registered, Runs, Unborn
  <2>2. op' \in [Op -> Ops]
    BY <1>23 DEF Reload, Ops
  <2> QED BY <1>23, <2>1, <2>2 DEF Reload, LoadedTombstones
<1>24. CASE UNCHANGED vars
  BY <1>24 DEF vars
<1> QED
  BY <1>1, <1>2, <1>3, <1>4, <1>5, <1>6, <1>7, <1>8, <1>9, <1>10, <1>11, <1>12, <1>13, <1>14,
     <1>15, <1>16, <1>17, <1>18, <1>19, <1>20, <1>21, <1>22, <1>23, <1>24
     DEF Next, UserStep, PlanStep, LaunchStep

----------------------------------------------------------------------------
(* Reservations and liveness *)

\* What remains of an operation whose launch is over: nothing, or the
\* transfer of its draft; its reservation is released.
Released(o) ==
    /\ \/ /\ op'[o].step = "idle" /\ op'[o].kind = "none"
          /\ restoring' = IF op[o].kind = "restore" THEN restoring \ {op[o].uuid} ELSE restoring
       \/ /\ op'[o].step = "moving" /\ op'[o].kind = "restore"
          /\ op[o].kind = "restore" /\ op'[o].uuid = op[o].uuid
          /\ restoring' = restoring
    /\ resuming' = IF op[o].kind = "new" THEN resuming ELSE resuming \ {op[o].uuid}
    /\ \A p \in Op : p # o => op'[p] = op[p]

\* The end of a launch (Launched) releases its reservation.
LEMMA ReleasedFacts ==
    ASSUME TypeOK, NEW o \in Op, op[o] # Idle, Launched(o)
    PROVE  Released(o)
<1>1. Idle.kind = "none" /\ Idle.step = "idle"
  BY DEF Idle
<1> QED BY <1>1, GoToFacts, FinishFacts DEF Launched, Released, TypeOK, Steps

\* What follows the store's part of a forget: the composer's part, the
\* question whether it failed, or nothing.
Forgotten(o) ==
    /\ \/ op'[o].kind = "none" /\ op'[o].step = "idle" /\ op[o].kind # "forget"
       \/ /\ op'[o].kind = op[o].kind /\ op'[o].uuid = op[o].uuid
          /\ op'[o].step \in {"erasing", "asking"}
          /\ op'[o].step = "asking" => op[o].kind = "forget"
    /\ resuming' = resuming /\ restoring' = restoring
    /\ \A p \in Op : p # o => op'[p] = op[p]

\* A step that stores and forgets nothing, and neither launches nor queues a
\* record, leaves the records to come as they are.
LEMMA RecordedKept ==
    ASSUME RecordedOnce, StepsOfKinds,
           stored' = stored, dropped' = dropped, minted' = minted,
           \A r \in Run : run[r] # Unborn => run'[r] # Unborn /\ run'[r].uuid = run[r].uuid,
           \A o \in Op : Unrecorded(o)' => Unrecorded(o) /\ op'[o].run = op[o].run,
           \A i \in DOMAIN chain' :
              chain'[i].kind = "upsert" => i \in DOMAIN chain /\ chain'[i] = chain[i]
    PROVE  RecordedOnce'
<1>1. \A o \in Op : Unrecorded(o)' => run'[op'[o].run].uuid = run[op[o].run].uuid
  BY DEF RecordedOnce, StepsOfKinds, Unrecorded
<1>2. \A o \in Op : Unrecorded(o)' => Unrecorded(o) /\ run'[op'[o].run] # Unborn
  BY DEF RecordedOnce, StepsOfKinds, Unrecorded
<1> HIDE DEF Unrecorded
<1> QED BY <1>1, <1>2 DEF RecordedOnce

\* The launch of a session under a new UUID is the first of its records.
LEMMA RecordedNew ==
    ASSUME TypeOK, MintedFirst, StepsOfKinds, RecordedOnce,
           NEW o \in Op, NEW r \in Run, NEW u \in Uuid,
           u \notin minted, minted' = minted \cup {u},
           stored' = stored, dropped' = dropped, chain' = chain,
           run[r].state = "unborn", run'[r].uuid = u, run'[r] # Unborn,
           \A q \in Run : q # r => run'[q] = run[q],
           op'[o].run = r, ~Unrecorded(o),
           \A p \in Op : p # o => op'[p] = op[p]
    PROVE  RecordedOnce'
<1>1. \A p \in Op : p # o /\ Unrecorded(p)' =>
         /\ Unrecorded(p)
         /\ run'[op'[p].run] = run[op[p].run]
         /\ run[op[p].run].uuid \in minted
  <2> SUFFICES ASSUME NEW p \in Op, p # o, Unrecorded(p)'
               PROVE  /\ Unrecorded(p)
                      /\ run'[op'[p].run] = run[op[p].run]
                      /\ run[op[p].run].uuid \in minted
    OBVIOUS
  <2>1. Unrecorded(p) /\ op'[p].run = op[p].run
    BY DEF Unrecorded
  <2>2. op[p].run \in Run /\ run[op[p].run] # Unborn
    BY <2>1 DEF StepsOfKinds, Unrecorded, RecordedOnce
  <2>3. r # op[p].run
    BY <2>1, <2>2, RunFacts DEF TypeOK, Runs, Unborn
  <2> QED BY <2>1, <2>2, <2>3 DEF MintedFirst
<1>2. run'[op'[o].run].uuid = u /\ run'[op'[o].run] # Unborn
  OBVIOUS
<1>3. stored[u] = None /\ u \notin dropped
  BY DEF MintedFirst, RecordedOnce
<1>4. \A i \in DOMAIN chain : chain[i].kind = "upsert" => chain[i].uuid # u
  BY DEF MintedFirst
<1> HIDE DEF Unrecorded
<1> QED
  <2>1. dropped' \subseteq minted'
    BY DEF RecordedOnce
  <2>2. \A p \in Op : Unrecorded(p)' =>
          /\ run'[op'[p].run] # Unborn
          /\ stored[run'[op'[p].run].uuid] = None /\ run'[op'[p].run].uuid \notin dropped
    BY <1>1, <1>2, <1>3 DEF RecordedOnce
  <2>3. \A p, q \in Op :
           Unrecorded(p)' /\ Unrecorded(q)' /\ run'[op'[p].run].uuid = run'[op'[q].run].uuid
           => p = q
    BY <1>1, <1>2 DEF RecordedOnce
  <2>4. \A i \in DOMAIN chain : chain[i].kind = "upsert" =>
           \A p \in Op : Unrecorded(p)' => run'[op'[p].run].uuid # chain[i].uuid
    BY <1>1, <1>2, <1>4 DEF RecordedOnce
  <2> QED BY <2>1, <2>2, <2>3, <2>4 DEF RecordedOnce

\* A conversation that is neither stored nor forgotten after the step.
Unsettled(u) == stored'[u] = None /\ u \notin dropped'

\* No step of Next breaks the structure, runs a conversation twice, or brings one
\* to life under an operation.
LEMMA HoldStep ==
    ASSUME IInv, TypeOK', [Next]_vars
    PROVE  Structure' /\ OneLivePerConversation' /\ ExclusiveUse' /\ ForgottenStaysForgotten'
<1> USE DEF IInv
<1> USE NoneAssumption, RenameAssumption DEF TypeOK, history, reservations, composer
<1>0. \A o \in Op : op[o] \in Ops
  OBVIOUS
<1>r. \A r \in Run : run[r] \in Runs /\ (run[r].state # "unborn" => run[r] # Unborn)
  BY RunFacts
<1>c. \A i \in DOMAIN chain : chain[i].by \in Op \cup {None} /\ chain[i].uuid \in Uuid
  <2> SUFFICES ASSUME NEW i \in DOMAIN chain PROVE chain[i] \in Mutations
    BY DEF Mutations
  <2> QED OBVIOUS
<1>1. ASSUME NEW o \in Op, NEW r \in Run, NEW u \in Uuid, NewSession(o, r, u)
       PROVE  Structure' /\ OneLivePerConversation' /\ ExclusiveUse' /\ ForgottenStaysForgotten'
  <2>1. /\ op'[o].kind = "new" /\ op'[o].step = "launching" /\ op'[o].uuid = u
        /\ op'[o].run = r /\ op[o].step = "idle"
        /\ \A p \in Op : p # o => op'[p] = op[p]
    BY <1>1, <1>0 DEF NewSession, Ops, Idle
  <2>2. /\ run[r] = Unborn /\ run[r].state = "unborn"
        /\ run'[r].uuid = u /\ run'[r].state = "starting" /\ run'[r] # Unborn
        /\ \A q \in Run : q # r => run'[q] = run[q]
    <3>1. 0 \in Names
      BY DEF Names
    <3> QED BY <1>1, <3>1, PublishFacts DEF NewSession
  <2>4. MintedFirst'
    BY <1>1, <1>c, <2>1, <2>2 DEF NewSession, Structure, MintedFirst, Holder
  <2>5. StepsOfKinds'
    BY <1>1, <2>1, <2>2 DEF NewSession, Structure, StepsOfKinds
  <2>6. HoldersReserve'
    BY <1>1, <2>1, <2>2
       DEF NewSession, Structure, HoldersReserve, StepsOfKinds, Holder, Pending
  <2>7. WaitedFor'
    BY <1>1, <1>c, <2>1, <2>2 DEF NewSession, Structure, WaitedFor
  <2>8. OneLivePerConversation'
    BY <1>1, <2>1, <2>2
       DEF NewSession, Structure, OneLivePerConversation, Registered, MintedFirst,
           ExclusiveUse, Live
  <2>9. ExclusiveUse'
    BY <1>1, <2>1, <2>2
       DEF NewSession, Structure, ExclusiveUse, Live, Registered, MintedFirst, HoldersReserve,
           Holder
  <2>10. RecordedOnce'
    BY <1>1, <2>1, <2>2, RecordedNew DEF NewSession, Structure, Unrecorded
  <2>11. ForgottenStaysForgotten'
    BY <1>1, <2>1, <2>2
       DEF NewSession, ForgottenStaysForgotten, Structure, RecordedOnce, Moot
  <2> QED BY <2>4, <2>5, <2>6, <2>7, <2>8, <2>9, <2>10, <2>11 DEF Structure
<1>2. ASSUME NEW o \in Op, NEW u \in Uuid, Resume(o, u)
       PROVE  Structure' /\ OneLivePerConversation' /\ ExclusiveUse' /\ ForgottenStaysForgotten'
  <2>1. /\ op[o].kind = "none" /\ op[o].step = "idle"
        /\ op'[o].kind = "resume" /\ op'[o].uuid = u /\ op'[o].step = "planning"
        /\ \A p \in Op : p # o => op'[p] = op[p]
    BY <1>2, BeginFacts DEF Resume, Kinds, Steps, Names
  <2>4. MintedFirst'
    BY <1>2, <1>c, <2>1 DEF Resume, Structure, MintedFirst, Holder
  <2>5. StepsOfKinds'
    BY <1>2, <2>1 DEF Resume, Structure, StepsOfKinds
  <2>6. HoldersReserve'
    BY <1>2, <2>1 DEF Resume, Structure, HoldersReserve, StepsOfKinds, Holder, Pending
  <2>7. WaitedFor'
    BY <1>2, <1>c, <2>1 DEF Resume, Structure, WaitedFor
  <2>8. OneLivePerConversation'
    BY <1>2, <2>1
       DEF Resume, Structure, OneLivePerConversation, Registered, MintedFirst, ExclusiveUse, Live
  <2>9. ExclusiveUse'
    BY <1>2, <2>1
       DEF Resume, Structure, ExclusiveUse, Live, Registered, MintedFirst, HoldersReserve, Holder
  <2>10. RecordedOnce'
    BY <1>2, <1>c, <2>1
       DEF Resume, Structure, RecordedOnce, Unrecorded, MintedFirst, StepsOfKinds
  <2>11. ForgottenStaysForgotten'
    BY <1>2, <2>1 DEF Resume, ForgottenStaysForgotten, Structure, RecordedOnce, Moot
  <2> QED BY <2>4, <2>5, <2>6, <2>7, <2>8, <2>9, <2>10, <2>11 DEF Structure
<1>3. ASSUME NEW o \in Op, ResumeRefused(o)
       PROVE  Structure' /\ OneLivePerConversation' /\ ExclusiveUse' /\ ForgottenStaysForgotten'
  <2>0. op[o] # Idle /\ op[o].uuid \in Uuid
    BY <1>3, <1>0, OpFacts DEF ResumeRefused
  <2>1. /\ op'[o].kind = "none" /\ op'[o].step = "idle"
        /\ \A p \in Op : p # o => op'[p] = op[p]
    BY <1>3, FinishFacts DEF ResumeRefused
  <2>4. MintedFirst'
    BY <1>3, <1>c, <2>0, <2>1 DEF ResumeRefused, Structure, MintedFirst, Holder
  <2>5. StepsOfKinds'
    BY <1>3, <2>0, <2>1 DEF ResumeRefused, Structure, StepsOfKinds
  <2>6. HoldersReserve'
    BY <1>3, <2>0, <2>1
       DEF ResumeRefused, Structure, HoldersReserve, StepsOfKinds, Holder, Pending
  <2>7. WaitedFor'
    BY <1>3, <1>c, <2>0, <2>1 DEF ResumeRefused, Structure, WaitedFor
  <2>8. OneLivePerConversation'
    BY <1>3, <2>0, <2>1
       DEF ResumeRefused, Structure, OneLivePerConversation, Registered, MintedFirst,
           ExclusiveUse, Live
  <2>9. ExclusiveUse'
    BY <1>3, <2>0, <2>1
       DEF ResumeRefused, Structure, ExclusiveUse, Live, Registered, MintedFirst,
           HoldersReserve, Holder
  <2>10. RecordedOnce'
    BY <1>3, <1>c, <2>0, <2>1
       DEF ResumeRefused, Structure, RecordedOnce, Unrecorded, MintedFirst, StepsOfKinds
  <2>11. ForgottenStaysForgotten'
    BY <1>3, <2>0, <2>1
       DEF ResumeRefused, ForgottenStaysForgotten, Structure, RecordedOnce, Moot
  <2> QED BY <2>4, <2>5, <2>6, <2>7, <2>8, <2>9, <2>10, <2>11 DEF Structure
<1>4. ASSUME NEW o \in Op, ResumePlanned(o)
       PROVE  Structure' /\ OneLivePerConversation' /\ ExclusiveUse' /\ ForgottenStaysForgotten'
  <2>0. op[o] # Idle /\ op[o].uuid \in Uuid
    BY <1>4, <1>0, OpFacts DEF ResumePlanned
  <2>1. /\ \/ op'[o].kind = "none" /\ op'[o].step = "idle" /\ resuming' = resuming \ {op[o].uuid}
           \/ /\ op'[o].kind = op[o].kind /\ op'[o].uuid = op[o].uuid /\ op'[o].step = "preparing"
              /\ resuming' = resuming
              /\ ~Live(op[o].uuid)
        /\ \A p \in Op : p # o => op'[p] = op[p]
    BY <1>4, <2>0, GoToFacts, FinishFacts DEF ResumePlanned, Steps
  <2>4. MintedFirst'
    BY <1>4, <1>c, <2>0, <2>1 DEF ResumePlanned, Structure, MintedFirst, Holder
  <2>5. StepsOfKinds'
    BY <1>4, <2>0, <2>1 DEF ResumePlanned, Structure, StepsOfKinds
  <2>6. HoldersReserve'
    BY <1>4, <2>0, <2>1
       DEF ResumePlanned, Structure, HoldersReserve, StepsOfKinds, Holder, Pending
  <2>7. WaitedFor'
    BY <1>4, <1>c, <2>0, <2>1 DEF ResumePlanned, Structure, WaitedFor
  <2>8. OneLivePerConversation'
    BY <1>4, <2>0, <2>1
       DEF ResumePlanned, Structure, OneLivePerConversation, Registered, MintedFirst,
           ExclusiveUse, Live
  <2>9. ExclusiveUse'
    BY <1>4, <2>0, <2>1
       DEF ResumePlanned, Structure, ExclusiveUse, Live, Registered, MintedFirst,
           HoldersReserve, Holder
  <2>10. RecordedOnce'
    BY <1>4, <1>c, <2>0, <2>1
       DEF ResumePlanned, Structure, RecordedOnce, Unrecorded, MintedFirst, StepsOfKinds
  <2>11. ForgottenStaysForgotten'
    BY <1>4, <2>0, <2>1
       DEF ResumePlanned, ForgottenStaysForgotten, Structure, RecordedOnce, Moot
  <2> QED BY <2>4, <2>5, <2>6, <2>7, <2>8, <2>9, <2>10, <2>11 DEF Structure
<1>5. ASSUME NEW o \in Op, NEW r \in Run, ResumeLaunch(o, r)
       PROVE  Structure' /\ OneLivePerConversation' /\ ExclusiveUse' /\ ForgottenStaysForgotten'
  <2>0. op[o] # Idle /\ op[o].uuid \in Uuid /\ op[o].name \in Names
    BY <1>5, <1>0, OpFacts DEF ResumeLaunch
  <2>1. /\ op'[o].kind = "resume" /\ op'[o].step = "launching" /\ op'[o].uuid = op[o].uuid
        /\ op'[o].run = r
        /\ \A p \in Op : p # o => op'[p] = op[p]
    BY <1>5, <1>0, <2>0 DEF ResumeLaunch, Ops, Idle
  <2>2. /\ run[r] = Unborn /\ run[r].state = "unborn"
        /\ run'[r].uuid = op[o].uuid /\ run'[r].state = "starting" /\ run'[r] # Unborn
        /\ \A q \in Run : q # r => run'[q] = run[q]
    <3>1. 0 \in Names
      BY DEF Names
    <3> QED BY <1>5, <2>0, <3>1, PublishFacts DEF ResumeLaunch
  <2>4. MintedFirst'
    BY <1>5, <1>c, <2>0, <2>1, <2>2 DEF ResumeLaunch, Structure, MintedFirst, Holder
  <2>5. StepsOfKinds'
    BY <1>5, <2>0, <2>1, <2>2 DEF ResumeLaunch, Structure, StepsOfKinds
  <2>6. HoldersReserve'
    BY <1>5, <2>0, <2>1, <2>2
       DEF ResumeLaunch, Structure, HoldersReserve, StepsOfKinds, Holder, Pending
  <2>7. WaitedFor'
    BY <1>5, <1>c, <2>0, <2>1, <2>2 DEF ResumeLaunch, Structure, WaitedFor
  <2>8. OneLivePerConversation'
    BY <1>5, <2>0, <2>1, <2>2
       DEF ResumeLaunch, Structure, OneLivePerConversation, Registered, MintedFirst,
           ExclusiveUse, Live
  <2>9. ExclusiveUse'
    BY <1>5, <2>0, <2>1, <2>2
       DEF ResumeLaunch, Structure, ExclusiveUse, Live, Registered, MintedFirst,
           HoldersReserve, Holder
  <2>10. RecordedOnce'
    <3>1. stored' = stored /\ dropped' = dropped /\ minted' = minted
      BY <1>5 DEF ResumeLaunch
    <3>2. \A q \in Run : run[q] # Unborn => run'[q] # Unborn /\ run'[q].uuid = run[q].uuid
      BY <1>5, <1>r, <2>0, <2>1, <2>2 DEF ResumeLaunch, Unborn
    <3>3. \A p \in Op : Unrecorded(p)' => Unrecorded(p) /\ op'[p].run = op[p].run
      BY <1>5, <2>0, <2>1, <2>2 DEF ResumeLaunch, Unrecorded
    <3>4. \A i \in DOMAIN chain' :
             chain'[i].kind = "upsert" => i \in DOMAIN chain /\ chain'[i] = chain[i]
      BY <1>5, <2>0, <2>1, <2>2 DEF ResumeLaunch
    <3> QED BY <3>1, <3>2, <3>3, <3>4, RecordedKept DEF Structure
  <2>11. ForgottenStaysForgotten'
    BY <1>5, <2>0, <2>1, <2>2
       DEF ResumeLaunch, ForgottenStaysForgotten, Structure, RecordedOnce, Moot
  <2> QED BY <2>4, <2>5, <2>6, <2>7, <2>8, <2>9, <2>10, <2>11 DEF Structure
<1>6. ASSUME NEW o \in Op, NEW u \in Uuid, Restore(o, u)
       PROVE  Structure' /\ OneLivePerConversation' /\ ExclusiveUse' /\ ForgottenStaysForgotten'
  <2>1. /\ op[o].kind = "none" /\ op[o].step = "idle"
        /\ op'[o].kind = "restore" /\ op'[o].uuid = u /\ op'[o].step = "validating"
        /\ \A p \in Op : p # o => op'[p] = op[p]
    BY <1>6, BeginFacts DEF Restore, Kinds, Steps, Names
  <2>4. MintedFirst'
    BY <1>6, <1>c, <2>1 DEF Restore, Structure, MintedFirst, Holder
  <2>5. StepsOfKinds'
    BY <1>6, <2>1 DEF Restore, Structure, StepsOfKinds
  <2>6. HoldersReserve'
    BY <1>6, <2>1 DEF Restore, Structure, HoldersReserve, StepsOfKinds, Holder, Pending
  <2>7. WaitedFor'
    BY <1>6, <1>c, <2>1 DEF Restore, Structure, WaitedFor
  <2>8. OneLivePerConversation'
    BY <1>6, <2>1
       DEF Restore, Structure, OneLivePerConversation, Registered, MintedFirst, ExclusiveUse, Live
  <2>9. ExclusiveUse'
    BY <1>6, <2>1
       DEF Restore, Structure, ExclusiveUse, Live, Registered, MintedFirst, HoldersReserve, Holder
  <2>10. RecordedOnce'
    BY <1>6, <1>c, <2>1
       DEF Restore, Structure, RecordedOnce, Unrecorded, MintedFirst, StepsOfKinds
  <2>11. ForgottenStaysForgotten'
    BY <1>6, <2>1 DEF Restore, ForgottenStaysForgotten, Structure, RecordedOnce, Moot
  <2> QED BY <2>4, <2>5, <2>6, <2>7, <2>8, <2>9, <2>10, <2>11 DEF Structure
<1>7. ASSUME NEW o \in Op, RestoreFailed(o)
       PROVE  Structure' /\ OneLivePerConversation' /\ ExclusiveUse' /\ ForgottenStaysForgotten'
  <2>0. op[o] # Idle /\ op[o].uuid \in Uuid
    BY <1>7, <1>0, OpFacts DEF RestoreFailed
  <2>1. /\ op'[o].kind = "none" /\ op'[o].step = "idle"
        /\ \A p \in Op : p # o => op'[p] = op[p]
    BY <1>7, FinishFacts DEF RestoreFailed
  <2>4. MintedFirst'
    BY <1>7, <1>c, <2>0, <2>1 DEF RestoreFailed, Structure, MintedFirst, Holder
  <2>5. StepsOfKinds'
    BY <1>7, <2>0, <2>1 DEF RestoreFailed, Structure, StepsOfKinds
  <2>6. HoldersReserve'
    BY <1>7, <2>0, <2>1
       DEF RestoreFailed, Structure, HoldersReserve, StepsOfKinds, Holder, Pending
  <2>7. WaitedFor'
    BY <1>7, <1>c, <2>0, <2>1 DEF RestoreFailed, Structure, WaitedFor
  <2>8. OneLivePerConversation'
    BY <1>7, <2>0, <2>1
       DEF RestoreFailed, Structure, OneLivePerConversation, Registered, MintedFirst,
           ExclusiveUse, Live
  <2>9. ExclusiveUse'
    BY <1>7, <2>0, <2>1
       DEF RestoreFailed, Structure, ExclusiveUse, Live, Registered, MintedFirst,
           HoldersReserve, Holder
  <2>10. RecordedOnce'
    BY <1>7, <1>c, <2>0, <2>1
       DEF RestoreFailed, Structure, RecordedOnce, Unrecorded, MintedFirst, StepsOfKinds
  <2>11. ForgottenStaysForgotten'
    BY <1>7, <2>0, <2>1
       DEF RestoreFailed, ForgottenStaysForgotten, Structure, RecordedOnce, Moot
  <2> QED BY <2>4, <2>5, <2>6, <2>7, <2>8, <2>9, <2>10, <2>11 DEF Structure
<1>8. ASSUME NEW o \in Op, RestoreReserved(o)
       PROVE  Structure' /\ OneLivePerConversation' /\ ExclusiveUse' /\ ForgottenStaysForgotten'
  <2>0. op[o] # Idle /\ op[o].uuid \in Uuid
    BY <1>8, <1>0, OpFacts DEF RestoreReserved
  <2>1. /\ op'[o].kind = op[o].kind /\ op'[o].uuid = op[o].uuid /\ op'[o].step = "planning"
        /\ op'[o].run = op[o].run
        /\ \A p \in Op : p # o => op'[p] = op[p]
    BY <1>8, <2>0, GoToFacts DEF RestoreReserved, Steps
  <2>4. MintedFirst'
    BY <1>8, <1>c, <2>0, <2>1 DEF RestoreReserved, Structure, MintedFirst, Holder
  <2>5. StepsOfKinds'
    BY <1>8, <2>0, <2>1 DEF RestoreReserved, Structure, StepsOfKinds
  <2>6. HoldersReserve'
    BY <1>8, <2>0, <2>1
       DEF RestoreReserved, Structure, HoldersReserve, StepsOfKinds, Holder, Pending
  <2>7. WaitedFor'
    BY <1>8, <1>c, <2>0, <2>1 DEF RestoreReserved, Structure, WaitedFor
  <2>8. OneLivePerConversation'
    BY <1>8, <2>0, <2>1
       DEF RestoreReserved, Structure, OneLivePerConversation, Registered, MintedFirst,
           ExclusiveUse, Live
  <2>9. ExclusiveUse'
    BY <1>8, <2>0, <2>1
       DEF RestoreReserved, Structure, ExclusiveUse, Live, Registered, MintedFirst,
           HoldersReserve, Holder
  <2>10. RecordedOnce'
    BY <1>8, <1>c, <2>0, <2>1
       DEF RestoreReserved, Structure, RecordedOnce, Unrecorded, MintedFirst, StepsOfKinds
  <2>11. ForgottenStaysForgotten'
    BY <1>8, <2>0, <2>1
       DEF RestoreReserved, ForgottenStaysForgotten, Structure, RecordedOnce, Moot
  <2> QED BY <2>4, <2>5, <2>6, <2>7, <2>8, <2>9, <2>10, <2>11 DEF Structure
<1>9. ASSUME NEW o \in Op, NEW r \in Run, NEW u \in Uuid, RestoreLaunch(o, r, u)
       PROVE  Structure' /\ OneLivePerConversation' /\ ExclusiveUse' /\ ForgottenStaysForgotten'
  <2>0. op[o] # Idle /\ op[o].uuid \in Uuid
    BY <1>9, <1>0, OpFacts DEF RestoreLaunch
  <2>1. /\ op'[o].kind = "restore" /\ op'[o].step = "launching" /\ op'[o].uuid = op[o].uuid
        /\ op'[o].run = r
        /\ \A p \in Op : p # o => op'[p] = op[p]
    BY <1>9, <1>0, <2>0 DEF RestoreLaunch, Ops, Idle
  <2>2. /\ run[r] = Unborn /\ run[r].state = "unborn"
        /\ run'[r].uuid = u /\ run'[r].state = "starting" /\ run'[r] # Unborn
        /\ \A q \in Run : q # r => run'[q] = run[q]
    <3>1. 0 \in Names
      BY DEF Names
    <3> QED BY <1>9, <2>0, <3>1, PublishFacts DEF RestoreLaunch
  <2>4. MintedFirst'
    BY <1>9, <1>c, <2>0, <2>1, <2>2 DEF RestoreLaunch, Structure, MintedFirst, Holder
  <2>5. StepsOfKinds'
    BY <1>9, <2>0, <2>1, <2>2 DEF RestoreLaunch, Structure, StepsOfKinds
  <2>6. HoldersReserve'
    BY <1>9, <2>0, <2>1, <2>2
       DEF RestoreLaunch, Structure, HoldersReserve, StepsOfKinds, Holder, Pending
  <2>7. WaitedFor'
    BY <1>9, <1>c, <2>0, <2>1, <2>2 DEF RestoreLaunch, Structure, WaitedFor
  <2>8. OneLivePerConversation'
    BY <1>9, <2>0, <2>1, <2>2
       DEF RestoreLaunch, Structure, OneLivePerConversation, Registered, MintedFirst,
           ExclusiveUse, Live
  <2>9. ExclusiveUse'
    BY <1>9, <2>0, <2>1, <2>2
       DEF RestoreLaunch, Structure, ExclusiveUse, Live, Registered, MintedFirst,
           HoldersReserve, Holder
  <2>10. RecordedOnce'
    BY <1>9, <2>0, <2>1, <2>2, RecordedNew DEF RestoreLaunch, Structure, Unrecorded
  <2>11. ForgottenStaysForgotten'
    BY <1>9, <2>0, <2>1, <2>2
       DEF RestoreLaunch, ForgottenStaysForgotten, Structure, RecordedOnce, Moot
  <2> QED BY <2>4, <2>5, <2>6, <2>7, <2>8, <2>9, <2>10, <2>11 DEF Structure
<1>10. ASSUME NEW o \in Op, RestoreMoved(o)
       PROVE  Structure' /\ OneLivePerConversation' /\ ExclusiveUse' /\ ForgottenStaysForgotten'
  <2>0. op[o] # Idle /\ op[o].uuid \in Uuid
    BY <1>10, <1>0, OpFacts DEF RestoreMoved
  <2>1. /\ op'[o].kind = "none" /\ op'[o].step = "idle"
        /\ \A p \in Op : p # o => op'[p] = op[p]
    BY <1>10, FinishFacts DEF RestoreMoved
  <2>4. MintedFirst'
    BY <1>10, <1>c, <2>0, <2>1 DEF RestoreMoved, Structure, MintedFirst, Holder
  <2>5. StepsOfKinds'
    BY <1>10, <2>0, <2>1 DEF RestoreMoved, Structure, StepsOfKinds
  <2>6. HoldersReserve'
    BY <1>10, <2>0, <2>1, SMTT(30)
       DEF RestoreMoved, Structure, HoldersReserve, StepsOfKinds, Holder, Pending
  <2>w. op[o].step = "moving" /\ chain' = chain /\ WaitedFor
    BY <1>10 DEF RestoreMoved, Structure
  <2>7. WaitedFor'
    <3>1. \A i \in DOMAIN chain : chain[i].by # o
      BY <1>c, <2>w DEF WaitedFor
    <3> QED BY <1>c, <2>1, <2>w, <3>1, SMTT(30) DEF WaitedFor
  <2>8. OneLivePerConversation'
    BY <1>10, <2>0, <2>1
       DEF RestoreMoved, Structure, OneLivePerConversation, Registered, MintedFirst,
           ExclusiveUse, Live
  <2>9. ExclusiveUse'
    BY <1>10, <2>0, <2>1
       DEF RestoreMoved, Structure, ExclusiveUse, Live, Registered, MintedFirst,
           HoldersReserve, Holder
  <2>10. RecordedOnce'
    BY <1>10, <1>c, <2>0, <2>1
       DEF RestoreMoved, Structure, RecordedOnce, Unrecorded, MintedFirst, StepsOfKinds
  <2>11. ForgottenStaysForgotten'
    BY <1>10, <2>0, <2>1
       DEF RestoreMoved, ForgottenStaysForgotten, Structure, RecordedOnce, Moot
  <2> QED BY <2>4, <2>5, <2>6, <2>7, <2>8, <2>9, <2>10, <2>11 DEF Structure
<1>11. ASSUME NEW o \in Op, SessionRuns(o)
       PROVE  Structure' /\ OneLivePerConversation' /\ ExclusiveUse' /\ ForgottenStaysForgotten'
  <2>0. op[o] # Idle /\ op[o].uuid \in Uuid /\ op[o].run \in Run
        /\ op[o].kind \in {"new", "resume", "restore"}
    BY <1>11, <1>0, OpFacts DEF SessionRuns, Structure, StepsOfKinds
  <2>1. /\ op'[o].kind = op[o].kind /\ op'[o].uuid = op[o].uuid /\ op'[o].step = "saving"
        /\ op'[o].run = op[o].run
        /\ \A p \in Op : p # o => op'[p] = op[p]
    BY <1>11, <2>0, GoToFacts DEF SessionRuns, Steps
  <2>2. /\ run'[op[o].run].uuid = run[op[o].run].uuid /\ run'[op[o].run].state = "running"
        /\ run[op[o].run] # Unborn /\ run[op[o].run].state = "starting"
        /\ \A q \in Run : q # op[o].run => run'[q] = run[q]
    BY <1>11, <2>0, StateFacts DEF SessionRuns
  <2>3. /\ DOMAIN chain = 1..Len(chain) /\ Len(chain) \in Nat
        /\ DOMAIN chain' = 1..(Len(chain) + 1)
        /\ \A i \in DOMAIN chain : chain'[i] = chain[i]
        /\ \A i \in DOMAIN chain' : i \in DOMAIN chain \/ i = Len(chain) + 1
        /\ chain'[Len(chain) + 1].kind # "forget"
        /\ chain'[Len(chain) + 1].uuid = run[op[o].run].uuid
        /\ chain'[Len(chain) + 1].by = o
    <3> DEFINE kind == IF op[o].kind = "resume" THEN "update" ELSE "upsert"
    <3>1. kind \in {"upsert", "update", "rename", "forget"} /\ kind # "forget"
      OBVIOUS
    <3>2. run[op[o].run].uuid \in Uuid /\ SavedName(o) \in Names
      BY <1>11, <1>r, <2>0, RunFacts DEF SessionRuns, SavedName
    <3>3. Enqueue(kind, run[op[o].run].uuid, SavedName(o), o)
      BY <1>11 DEF SessionRuns
    <3> HIDE DEF kind
    <3> QED BY <3>1, <3>2, <3>3, EnqueueFacts
  <2>l. \A u : Live(u)' => Live(u)
    BY <2>2 DEF Live, Registered
  <2>4. MintedFirst'
    BY <1>11, <1>c, <2>0, <2>1, <2>2, <2>3 DEF SessionRuns, Structure, MintedFirst, Holder
  <2>5. StepsOfKinds'
    BY <1>11, <2>0, <2>1, <2>2, <2>3 DEF SessionRuns, Structure, StepsOfKinds
  <2>6. HoldersReserve'
    <3>1. \A p \in Op : Holder(p)' => Holder(p) /\ op'[p].kind = op[p].kind /\ op'[p].uuid = op[p].uuid
      BY <1>11, <2>0, <2>1 DEF SessionRuns, Holder
    <3> QED BY <1>11, <3>1 DEF SessionRuns, Structure, HoldersReserve
  <2>7. WaitedFor'
    <3>1. \A i \in DOMAIN chain : chain[i].by # None => chain[i].by \in Op /\ chain[i].by # o
      BY <1>11, <1>c, <2>1 DEF SessionRuns, Structure, WaitedFor
    <3>2. \A i \in DOMAIN chain : chain'[i].by # None => op'[chain'[i].by] = op[chain[i].by]
      BY <2>1, <2>3, <3>1
    <3>3. \A i \in DOMAIN chain' : chain'[i].by # None =>
             IF chain'[i].kind = "forget"
             THEN op'[chain'[i].by].kind \in {"forget", "offered"}
                  /\ op'[chain'[i].by].step = "deleting"
             ELSE op'[chain'[i].by].step = "saving"
      BY <2>1, <2>3, <3>2 DEF Structure, WaitedFor
    <3>4. \A i, j \in DOMAIN chain' :
             chain'[i].by # None /\ chain'[i].by = chain'[j].by => i = j
      BY <2>3, <3>1 DEF Structure, WaitedFor
    <3> QED BY <3>3, <3>4 DEF WaitedFor
  <2>8. OneLivePerConversation'
    BY <1>11, <2>0, <2>1, <2>2, <2>3
       DEF SessionRuns, Structure, OneLivePerConversation, Registered, MintedFirst,
           ExclusiveUse, Live
  <2>9. ExclusiveUse'
    <3>1. \A p \in Op : op'[p].kind = op[p].kind /\ op'[p].uuid = op[p].uuid
      BY <2>1
    <3>2. \A p \in Op : op'[p].step = op[p].step \/ (op'[p].step = "saving" /\ op[p].step = "launching")
      BY <1>11, <2>1 DEF SessionRuns
    <3> QED BY <2>l, <3>1, <3>2 DEF ExclusiveUse
  <2>10. RecordedOnce'
    <3> DEFINE u == run[op[o].run].uuid
    <3>1. /\ stored' = stored /\ dropped' = dropped /\ minted' = minted
          /\ op[o].step = "launching"
      BY <1>11 DEF SessionRuns
    <3>2. \A p \in Op : Unrecorded(p)' => p # o /\ Unrecorded(p) /\ op'[p] = op[p]
      BY <2>1 DEF Unrecorded
    <3>3. \A q \in Run : run[q] # Unborn => run'[q] # Unborn /\ run'[q].uuid = run[q].uuid
      BY <2>2 DEF Unborn
    <3>4. \A p \in Op : Unrecorded(p)' =>
             /\ run'[op'[p].run] # Unborn /\ run'[op'[p].run].uuid = run[op[p].run].uuid
             /\ Unrecorded(p)
      BY <3>2, <3>3 DEF Structure, RecordedOnce, StepsOfKinds, Unrecorded
    <3>5. chain'[Len(chain) + 1].kind = "upsert" => Unrecorded(o)
      <4>1. chain'[Len(chain) + 1].kind = IF op[o].kind = "resume" THEN "update" ELSE "upsert"
        BY <1>11, <2>3 DEF SessionRuns, Enqueue
      <4> QED BY <2>0, <3>1, <4>1 DEF Unrecorded
    <3>6. \A i \in DOMAIN chain' : chain'[i].kind = "upsert" =>
             \/ i \in DOMAIN chain /\ chain[i].kind = "upsert" /\ chain'[i].uuid = chain[i].uuid
             \/ i = Len(chain) + 1 /\ chain'[i].uuid = u /\ Unrecorded(o)
      BY <2>3, <3>5
    <3>a. Unrecorded(o) => stored[u] = None /\ u \notin dropped
      BY DEF Structure, RecordedOnce
    <3>b. Unrecorded(o) => \A i \in DOMAIN chain : chain[i].kind = "upsert" => chain[i].uuid # u
      BY DEF Structure, RecordedOnce
    <3>c. Unrecorded(o) =>
             \A p \in Op : p # o /\ Unrecorded(p) => run[op[p].run].uuid # u
      BY DEF Structure, RecordedOnce
    <3> HIDE DEF Unrecorded, u
    <3>7. \A i \in DOMAIN chain' : chain'[i].kind = "upsert" =>
             /\ stored[chain'[i].uuid] = None /\ chain'[i].uuid \notin dropped
             /\ \A p \in Op : Unrecorded(p)' => run'[op'[p].run].uuid # chain'[i].uuid
      BY <3>2, <3>4, <3>6, <3>a, <3>c DEF Structure, RecordedOnce
    <3>8. \A i, j \in DOMAIN chain' :
             /\ chain'[i].kind = "upsert" /\ chain'[j].kind = "upsert"
             /\ chain'[i].uuid = chain'[j].uuid
             => i = j
      BY <3>6, <3>b DEF Structure, RecordedOnce
    <3>9. \A p \in Op : Unrecorded(p)' =>
             /\ run'[op'[p].run] # Unborn
             /\ stored[run'[op'[p].run].uuid] = None /\ run'[op'[p].run].uuid \notin dropped
      BY <3>4 DEF Structure, RecordedOnce
    <3>d. \A p, q \in Op :
             Unrecorded(p)' /\ Unrecorded(q)' /\ run'[op'[p].run].uuid = run'[op'[q].run].uuid
             => p = q
      BY <3>4 DEF Structure, RecordedOnce
    <3>e. dropped' \subseteq minted'
      BY <3>1 DEF Structure, RecordedOnce
    <3> QED BY <3>1, <3>7, <3>8, <3>9, <3>d, <3>e DEF RecordedOnce
  <2>11. ForgottenStaysForgotten'
    BY <1>11, <2>0, <2>1, <2>2, <2>3
       DEF SessionRuns, ForgottenStaysForgotten, Structure, RecordedOnce, Moot
  <2> QED BY <2>4, <2>5, <2>6, <2>7, <2>8, <2>9, <2>10, <2>11 DEF Structure
<1>12. ASSUME NEW o \in Op, LaunchReturned(o)
       PROVE  Structure' /\ OneLivePerConversation' /\ ExclusiveUse' /\ ForgottenStaysForgotten'
  <2>0. op[o] # Idle /\ op[o].uuid \in Uuid /\ op[o].kind \in {"new", "resume", "restore"}
    BY <1>12, <1>0, OpFacts DEF LaunchReturned, Structure, StepsOfKinds
  <2>1. Released(o)
    BY <1>12, <2>0, ReleasedFacts DEF LaunchReturned
  <2>4. MintedFirst'
    BY <1>12, <1>c, <2>0, <2>1 DEF LaunchReturned, Released, Structure, MintedFirst, Holder
  <2>5. StepsOfKinds'
    BY <1>12, <2>0, <2>1 DEF LaunchReturned, Released, Structure, StepsOfKinds
  <2>6. HoldersReserve'
    BY <1>12, <2>0, <2>1
       DEF LaunchReturned, Released, Structure, HoldersReserve, StepsOfKinds, Holder, Pending
  <2>7. WaitedFor'
    BY <1>12, <1>c, <2>0, <2>1 DEF LaunchReturned, Released, Structure, WaitedFor
  <2>8. OneLivePerConversation'
    BY <1>12, <2>0, <2>1
       DEF LaunchReturned, Released, Structure, OneLivePerConversation, Registered,
           MintedFirst, ExclusiveUse, Live
  <2>9. ExclusiveUse'
    BY <1>12, <2>0, <2>1
       DEF LaunchReturned, Released, Structure, ExclusiveUse, Live, Registered, MintedFirst,
           HoldersReserve, Holder
  <2>10. RecordedOnce'
    BY <1>12, <1>c, <2>0, <2>1
       DEF LaunchReturned, Released, Structure, RecordedOnce, Unrecorded, MintedFirst,
           StepsOfKinds
  <2>11. ForgottenStaysForgotten'
    BY <1>12, <2>0, <2>1
       DEF LaunchReturned, Released, ForgottenStaysForgotten, Structure, RecordedOnce, Moot
  <2> QED BY <2>4, <2>5, <2>6, <2>7, <2>8, <2>9, <2>10, <2>11 DEF Structure
<1>13. ASSUME NEW r \in Run, SessionCloses(r)
       PROVE  Structure' /\ OneLivePerConversation' /\ ExclusiveUse' /\ ForgottenStaysForgotten'
  <2>2. /\ run'[r].uuid = run[r].uuid /\ run'[r].state = "closing"
        /\ run[r] # Unborn
        /\ \A q \in Run : q # r => run'[q] = run[q]
    BY <1>13, StateFacts DEF SessionCloses, Registered
  <2>4. MintedFirst'
    BY <1>13, <1>c, <2>2 DEF SessionCloses, Structure, MintedFirst, Holder
  <2>5. StepsOfKinds'
    BY <1>13, <2>2 DEF SessionCloses, Structure, StepsOfKinds
  <2>6. HoldersReserve'
    BY <1>13, <2>2
       DEF SessionCloses, Structure, HoldersReserve, StepsOfKinds, Holder, Pending
  <2>7. WaitedFor'
    BY <1>13, <1>c, <2>2 DEF SessionCloses, Structure, WaitedFor
  <2>8. OneLivePerConversation'
    BY <1>13, <2>2
       DEF SessionCloses, Structure, OneLivePerConversation, Registered, MintedFirst,
           ExclusiveUse, Live
  <2>9. ExclusiveUse'
    BY <1>13, <2>2
       DEF SessionCloses, Structure, ExclusiveUse, Live, Registered, MintedFirst,
           HoldersReserve, Holder
  <2>10. RecordedOnce'
    <3>1. stored' = stored /\ dropped' = dropped /\ minted' = minted
      BY <1>13 DEF SessionCloses
    <3>2. \A q \in Run : run[q] # Unborn => run'[q] # Unborn /\ run'[q].uuid = run[q].uuid
      BY <1>13, <1>r, <2>2 DEF SessionCloses, Unborn
    <3>3. \A p \in Op : Unrecorded(p)' => Unrecorded(p) /\ op'[p].run = op[p].run
      BY <1>13, <2>2 DEF SessionCloses, Unrecorded
    <3>4. \A i \in DOMAIN chain' :
             chain'[i].kind = "upsert" => i \in DOMAIN chain /\ chain'[i] = chain[i]
      BY <1>13, <2>2 DEF SessionCloses
    <3> QED BY <3>1, <3>2, <3>3, <3>4, RecordedKept DEF Structure
  <2>11. ForgottenStaysForgotten'
    BY <1>13, <2>2 DEF SessionCloses, ForgottenStaysForgotten, Structure, RecordedOnce, Moot
  <2> QED BY <2>4, <2>5, <2>6, <2>7, <2>8, <2>9, <2>10, <2>11 DEF Structure
<1>14. ASSUME NEW r \in Run, SessionEnds(r)
       PROVE  Structure' /\ OneLivePerConversation' /\ ExclusiveUse' /\ ForgottenStaysForgotten'
  <2>2. /\ run'[r].uuid = run[r].uuid /\ run'[r].state = "gone"
        /\ run[r] # Unborn
        /\ \A q \in Run : q # r => run'[q] = run[q]
    BY <1>14, StateFacts DEF SessionEnds, Registered
  <2>4. MintedFirst'
    BY <1>14, <1>c, <2>2 DEF SessionEnds, Structure, MintedFirst, Holder
  <2>5. StepsOfKinds'
    BY <1>14, <2>2 DEF SessionEnds, Structure, StepsOfKinds
  <2>6. HoldersReserve'
    BY <1>14, <2>2 DEF SessionEnds, Structure, HoldersReserve, StepsOfKinds, Holder, Pending
  <2>7. WaitedFor'
    BY <1>14, <1>c, <2>2 DEF SessionEnds, Structure, WaitedFor
  <2>8. OneLivePerConversation'
    BY <1>14, <2>2
       DEF SessionEnds, Structure, OneLivePerConversation, Registered, MintedFirst,
           ExclusiveUse, Live
  <2>9. ExclusiveUse'
    BY <1>14, <2>2
       DEF SessionEnds, Structure, ExclusiveUse, Live, Registered, MintedFirst, HoldersReserve,
           Holder
  <2>10. RecordedOnce'
    <3>1. stored' = stored /\ dropped' = dropped /\ minted' = minted
      BY <1>14 DEF SessionEnds
    <3>2. \A q \in Run : run[q] # Unborn => run'[q] # Unborn /\ run'[q].uuid = run[q].uuid
      BY <1>14, <1>r, <2>2 DEF SessionEnds, Unborn
    <3>3. \A p \in Op : Unrecorded(p)' => Unrecorded(p) /\ op'[p].run = op[p].run
      BY <1>14, <2>2 DEF SessionEnds, Unrecorded
    <3>4. \A i \in DOMAIN chain' :
             chain'[i].kind = "upsert" => i \in DOMAIN chain /\ chain'[i] = chain[i]
      BY <1>14, <2>2 DEF SessionEnds
    <3> QED BY <3>1, <3>2, <3>3, <3>4, RecordedKept DEF Structure
  <2>11. ForgottenStaysForgotten'
    BY <1>14, <2>2 DEF SessionEnds, ForgottenStaysForgotten, Structure, RecordedOnce, Moot
  <2> QED BY <2>4, <2>5, <2>6, <2>7, <2>8, <2>9, <2>10, <2>11 DEF Structure
<1>15. ASSUME NEW r \in Run, Rename(r)
       PROVE  Structure' /\ OneLivePerConversation' /\ ExclusiveUse' /\ ForgottenStaysForgotten'
  <2>1. renames' \in Names /\ run[r].state # "unborn" /\ run[r].uuid \in Uuid
    BY <1>15, <1>r, RunFacts DEF Rename, Registered
  <2>2. /\ run'[r].uuid = run[r].uuid /\ run'[r].state = run[r].state
        /\ run[r] # Unborn
        /\ \A q \in Run : q # r => run'[q] = run[q]
    BY <1>15, <1>r, <2>1 DEF Rename, Runs, Unborn
  <2>3. /\ DOMAIN chain = 1..Len(chain) /\ Len(chain) \in Nat
        /\ DOMAIN chain' = 1..(Len(chain) + 1)
        /\ \A i \in DOMAIN chain : chain'[i] = chain[i]
        /\ \A i \in DOMAIN chain' : i \in DOMAIN chain \/ i = Len(chain) + 1
        /\ chain'[Len(chain) + 1].kind = "rename" /\ chain'[Len(chain) + 1].uuid = run[r].uuid
        /\ chain'[Len(chain) + 1].by = None
    BY <1>15, <2>1, EnqueueFacts DEF Rename
  <2>4. MintedFirst'
    BY <1>15, <1>c, <2>1, <2>2, <2>3 DEF Rename, Structure, MintedFirst, Holder
  <2>5. StepsOfKinds'
    BY <1>15, <2>1, <2>2, <2>3 DEF Rename, Structure, StepsOfKinds
  <2>6. HoldersReserve'
    BY <1>15, <2>1, <2>2, <2>3
       DEF Rename, Structure, HoldersReserve, StepsOfKinds, Holder, Pending
  <2>7. WaitedFor'
    BY <1>15, <1>c, <2>1, <2>2, <2>3 DEF Rename, Structure, WaitedFor
  <2>8. OneLivePerConversation'
    BY <1>15, <2>1, <2>2, <2>3
       DEF Rename, Structure, OneLivePerConversation, Registered, MintedFirst, ExclusiveUse, Live
  <2>9. ExclusiveUse'
    BY <1>15, <2>1, <2>2, <2>3
       DEF Rename, Structure, ExclusiveUse, Live, Registered, MintedFirst, HoldersReserve, Holder
  <2>10. RecordedOnce'
    <3>1. stored' = stored /\ dropped' = dropped /\ minted' = minted
      BY <1>15 DEF Rename
    <3>2. \A q \in Run : run[q] # Unborn => run'[q] # Unborn /\ run'[q].uuid = run[q].uuid
      BY <1>15, <1>r, <2>1, <2>2, <2>3 DEF Rename, Unborn
    <3>3. \A p \in Op : Unrecorded(p)' => Unrecorded(p) /\ op'[p].run = op[p].run
      BY <1>15, <2>1, <2>2, <2>3 DEF Rename, Unrecorded
    <3>4. \A i \in DOMAIN chain' :
             chain'[i].kind = "upsert" => i \in DOMAIN chain /\ chain'[i] = chain[i]
      BY <1>15, <2>1, <2>2, <2>3 DEF Rename
    <3> QED BY <3>1, <3>2, <3>3, <3>4, RecordedKept DEF Structure
  <2>11. ForgottenStaysForgotten'
    BY <1>15, <2>1, <2>2, <2>3
       DEF Rename, ForgottenStaysForgotten, Structure, RecordedOnce, Moot
  <2> QED BY <2>4, <2>5, <2>6, <2>7, <2>8, <2>9, <2>10, <2>11 DEF Structure
<1>16. ASSUME NEW o \in Op, NEW u \in Uuid, Forget(o, u)
       PROVE  Structure' /\ OneLivePerConversation' /\ ExclusiveUse' /\ ForgottenStaysForgotten'
  <2>1. /\ op[o].kind = "none" /\ op[o].step = "idle"
        /\ op'[o].kind = "forget" /\ op'[o].uuid = u /\ op'[o].step = "deleting"
        /\ \A p \in Op : p # o => op'[p] = op[p]
    BY <1>16, BeginFacts DEF Forget, Kinds, Steps, Names
  <2>3. /\ DOMAIN chain = 1..Len(chain) /\ Len(chain) \in Nat
        /\ DOMAIN chain' = 1..(Len(chain) + 1)
        /\ \A i \in DOMAIN chain : chain'[i] = chain[i]
        /\ \A i \in DOMAIN chain' : i \in DOMAIN chain \/ i = Len(chain) + 1
        /\ chain'[Len(chain) + 1].kind = "forget" /\ chain'[Len(chain) + 1].uuid = u
        /\ chain'[Len(chain) + 1].by = o
    <3>1. 0 \in Names
      BY DEF Names
    <3>2. Enqueue("forget", u, 0, o)
      BY <1>16 DEF Forget
    <3> QED BY <3>1, <3>2, EnqueueFacts
  <2>4. MintedFirst'
    BY <1>16, <1>c, <2>1, <2>3 DEF Forget, Structure, MintedFirst, Holder
  <2>5. StepsOfKinds'
    BY <1>16, <2>1, <2>3 DEF Forget, Structure, StepsOfKinds
  <2>6. HoldersReserve'
    BY <1>16, <2>1, <2>3
       DEF Forget, Structure, HoldersReserve, StepsOfKinds, Holder, Pending
  <2>7. WaitedFor'
    <3>1. \A i \in DOMAIN chain : chain[i].by # None => chain[i].by \in Op /\ chain[i].by # o
      BY <1>16, <1>c, <2>1 DEF Forget, Structure, WaitedFor
    <3>2. \A i \in DOMAIN chain : chain'[i].by # None => op'[chain'[i].by] = op[chain[i].by]
      BY <2>1, <2>3, <3>1
    <3>3. \A i \in DOMAIN chain' : chain'[i].by # None =>
             IF chain'[i].kind = "forget"
             THEN op'[chain'[i].by].kind \in {"forget", "offered"}
                  /\ op'[chain'[i].by].step = "deleting"
             ELSE op'[chain'[i].by].step = "saving"
      BY <2>1, <2>3, <3>2 DEF Structure, WaitedFor
    <3>4. \A i, j \in DOMAIN chain' :
             chain'[i].by # None /\ chain'[i].by = chain'[j].by => i = j
      BY <2>3, <3>1 DEF Structure, WaitedFor
    <3> QED BY <3>3, <3>4 DEF WaitedFor
  <2>8. OneLivePerConversation'
    BY <1>16, <2>1, <2>3
       DEF Forget, Structure, OneLivePerConversation, Registered, MintedFirst, ExclusiveUse, Live
  <2>9. ExclusiveUse'
    BY <1>16, <2>1, <2>3
       DEF Forget, Structure, ExclusiveUse, Live, Registered, MintedFirst, HoldersReserve, Holder
  <2>10. RecordedOnce'
    <3>1. stored' = stored /\ dropped' = dropped /\ minted' = minted
      BY <1>16 DEF Forget
    <3>2. \A q \in Run : run[q] # Unborn => run'[q] # Unborn /\ run'[q].uuid = run[q].uuid
      BY <1>16, <1>r, <2>1, <2>3 DEF Forget, Unborn
    <3>3. \A p \in Op : Unrecorded(p)' => Unrecorded(p) /\ op'[p].run = op[p].run
      BY <1>16, <2>1, <2>3 DEF Forget, Unrecorded
    <3>4. \A i \in DOMAIN chain' :
             chain'[i].kind = "upsert" => i \in DOMAIN chain /\ chain'[i] = chain[i]
      BY <1>16, <2>1, <2>3 DEF Forget
    <3> QED BY <3>1, <3>2, <3>3, <3>4, RecordedKept DEF Structure
  <2>11. ForgottenStaysForgotten'
    BY <1>16, <2>1, <2>3 DEF Forget, ForgottenStaysForgotten, Structure, RecordedOnce, Moot
  <2> QED BY <2>4, <2>5, <2>6, <2>7, <2>8, <2>9, <2>10, <2>11 DEF Structure
<1>17. ASSUME NEW o \in Op, NEW u \in Uuid, Discard(o, u)
       PROVE  Structure' /\ OneLivePerConversation' /\ ExclusiveUse' /\ ForgottenStaysForgotten'
  <2>1. /\ op[o].kind = "none" /\ op[o].step = "idle"
        /\ op'[o].kind = "discard" /\ op'[o].uuid = u /\ op'[o].step = "erasing"
        /\ \A p \in Op : p # o => op'[p] = op[p]
    BY <1>17, BeginFacts DEF Discard, Kinds, Steps, Names
  <2>4. MintedFirst'
    BY <1>17, <1>c, <2>1 DEF Discard, Structure, MintedFirst, Holder
  <2>5. StepsOfKinds'
    BY <1>17, <2>1 DEF Discard, Structure, StepsOfKinds
  <2>6. HoldersReserve'
    BY <1>17, <2>1 DEF Discard, Structure, HoldersReserve, StepsOfKinds, Holder, Pending
  <2>7. WaitedFor'
    BY <1>17, <1>c, <2>1 DEF Discard, Structure, WaitedFor
  <2>8. OneLivePerConversation'
    BY <1>17, <2>1
       DEF Discard, Structure, OneLivePerConversation, Registered, MintedFirst, ExclusiveUse, Live
  <2>9. ExclusiveUse'
    BY <1>17, <2>1
       DEF Discard, Structure, ExclusiveUse, Live, Registered, MintedFirst, HoldersReserve, Holder
  <2>10. RecordedOnce'
    BY <1>17, <1>c, <2>1
       DEF Discard, Structure, RecordedOnce, Unrecorded, MintedFirst, StepsOfKinds
  <2>11. ForgottenStaysForgotten'
    BY <1>17, <2>1 DEF Discard, ForgottenStaysForgotten, Structure, RecordedOnce, Moot
  <2> QED BY <2>4, <2>5, <2>6, <2>7, <2>8, <2>9, <2>10, <2>11 DEF Structure
<1>18. ASSUME NEW o \in Op, NEW u \in Uuid, TakeOffer(o, u)
       PROVE  Structure' /\ OneLivePerConversation' /\ ExclusiveUse' /\ ForgottenStaysForgotten'
  <2>1. /\ op[o].kind = "none" /\ op[o].step = "idle"
        /\ op'[o].kind = "offered" /\ op'[o].uuid = u /\ op'[o].step = "deleting"
        /\ \A p \in Op : p # o => op'[p] = op[p]
    BY <1>18, BeginFacts DEF TakeOffer, Kinds, Steps, Names
  <2>3. /\ DOMAIN chain = 1..Len(chain) /\ Len(chain) \in Nat
        /\ DOMAIN chain' = 1..(Len(chain) + 1)
        /\ \A i \in DOMAIN chain : chain'[i] = chain[i]
        /\ \A i \in DOMAIN chain' : i \in DOMAIN chain \/ i = Len(chain) + 1
        /\ chain'[Len(chain) + 1].kind = "forget" /\ chain'[Len(chain) + 1].uuid = u
        /\ chain'[Len(chain) + 1].by = o
    <3>1. 0 \in Names
      BY DEF Names
    <3>2. Enqueue("forget", u, 0, o)
      BY <1>18 DEF TakeOffer
    <3> QED BY <3>1, <3>2, EnqueueFacts
  <2>4. MintedFirst'
    BY <1>18, <1>c, <2>1, <2>3, SMTT(30) DEF TakeOffer, Structure, MintedFirst, Holder
  <2>5. StepsOfKinds'
    BY <1>18, <2>1, <2>3 DEF TakeOffer, Structure, StepsOfKinds
  <2>6. HoldersReserve'
    <3>1. \A p \in Op : Holder(p)' => Holder(p) /\ op'[p] = op[p]
      BY <2>1 DEF Holder
    <3> QED BY <1>18, <3>1 DEF TakeOffer, Structure, HoldersReserve
  <2>7. WaitedFor'
    <3>1. \A i \in DOMAIN chain : chain[i].by # None => chain[i].by \in Op /\ chain[i].by # o
      BY <1>18, <1>c, <2>1 DEF TakeOffer, Structure, WaitedFor
    <3>2. \A i \in DOMAIN chain : chain'[i].by # None => op'[chain'[i].by] = op[chain[i].by]
      BY <2>1, <2>3, <3>1
    <3>3. \A i \in DOMAIN chain' : chain'[i].by # None =>
             IF chain'[i].kind = "forget"
             THEN op'[chain'[i].by].kind \in {"forget", "offered"}
                  /\ op'[chain'[i].by].step = "deleting"
             ELSE op'[chain'[i].by].step = "saving"
      BY <2>1, <2>3, <3>2 DEF Structure, WaitedFor
    <3>4. \A i, j \in DOMAIN chain' :
             chain'[i].by # None /\ chain'[i].by = chain'[j].by => i = j
      BY <2>3, <3>1 DEF Structure, WaitedFor
    <3> QED BY <3>3, <3>4 DEF WaitedFor
  <2>8. OneLivePerConversation'
    BY <1>18, <2>1, <2>3
       DEF TakeOffer, Structure, OneLivePerConversation, Registered, MintedFirst, ExclusiveUse,
           Live
  <2>9. ExclusiveUse'
    BY <1>18, <2>1, <2>3
       DEF TakeOffer, Structure, ExclusiveUse, Live, Registered, MintedFirst, HoldersReserve,
           Holder
  <2>10. RecordedOnce'
    <3>1. stored' = stored /\ dropped' = dropped /\ minted' = minted
      BY <1>18 DEF TakeOffer
    <3>2. \A q \in Run : run[q] # Unborn => run'[q] # Unborn /\ run'[q].uuid = run[q].uuid
      BY <1>18, <1>r, <2>1, <2>3 DEF TakeOffer, Unborn
    <3>3. \A p \in Op : Unrecorded(p)' => Unrecorded(p) /\ op'[p].run = op[p].run
      BY <1>18, <2>1, <2>3 DEF TakeOffer, Unrecorded
    <3>4. \A i \in DOMAIN chain' :
             chain'[i].kind = "upsert" => i \in DOMAIN chain /\ chain'[i] = chain[i]
      BY <1>18, <2>1, <2>3 DEF TakeOffer
    <3> QED BY <3>1, <3>2, <3>3, <3>4, RecordedKept DEF Structure
  <2>11. ForgottenStaysForgotten'
    BY <1>18, <2>1, <2>3
       DEF TakeOffer, ForgottenStaysForgotten, Structure, RecordedOnce, Moot
  <2> QED BY <2>4, <2>5, <2>6, <2>7, <2>8, <2>9, <2>10, <2>11 DEF Structure
<1>19. ASSUME NEW u \in Uuid, DismissOffer(u)
       PROVE  Structure' /\ OneLivePerConversation' /\ ExclusiveUse' /\ ForgottenStaysForgotten'
  BY <1>19
     DEF DismissOffer, Structure, MintedFirst, StepsOfKinds, HoldersReserve, WaitedFor,
         RecordedOnce, Holder, Unrecorded, OneLivePerConversation, ExclusiveUse,
            ForgottenStaysForgotten, Live, Registered
<1>20. ASSUME NEW o \in Op, Erased(o)
       PROVE  Structure' /\ OneLivePerConversation' /\ ExclusiveUse' /\ ForgottenStaysForgotten'
  <2>0. op[o] # Idle /\ op[o].uuid \in Uuid
    BY <1>20, <1>0, OpFacts DEF Erased
  <2>1. /\ \/ op'[o].kind = "none" /\ op'[o].step = "idle"
           \/ /\ op'[o].kind = op[o].kind /\ op'[o].uuid = op[o].uuid /\ op'[o].step = "asking"
              /\ op[o].kind = "forget" /\ forgetting' = forgetting
        /\ op[o].kind # "forget" => forgetting' = forgetting
        /\ forgetting \ {op[o].uuid} \subseteq forgetting'
        /\ \A p \in Op : p # o => op'[p] = op[p]
    BY <1>20, <2>0, GoToFacts, FinishFacts DEF Erased, Steps
  <2>4. MintedFirst'
    BY <1>20, <1>c, <2>0, <2>1 DEF Erased, Structure, MintedFirst, Holder
  <2>5. StepsOfKinds'
    BY <1>20, <2>0, <2>1 DEF Erased, Structure, StepsOfKinds
  <2>6. HoldersReserve'
    BY <1>20, <2>0, <2>1
       DEF Erased, Structure, HoldersReserve, StepsOfKinds, Holder, Pending
  <2>7. WaitedFor'
    BY <1>20, <1>c, <2>0, <2>1 DEF Erased, Structure, WaitedFor
  <2>8. OneLivePerConversation'
    BY <1>20, <2>0, <2>1
       DEF Erased, Structure, OneLivePerConversation, Registered, MintedFirst, ExclusiveUse, Live
  <2>9. ExclusiveUse'
    BY <1>20, <2>0, <2>1
       DEF Erased, Structure, ExclusiveUse, Live, Registered, MintedFirst, HoldersReserve, Holder
  <2>10. RecordedOnce'
    BY <1>20, <1>c, <2>0, <2>1
       DEF Erased, Structure, RecordedOnce, Unrecorded, MintedFirst, StepsOfKinds
  <2>11. ForgottenStaysForgotten'
    BY <1>20, <2>0, <2>1 DEF Erased, ForgottenStaysForgotten, Structure, RecordedOnce, Moot
  <2> QED BY <2>4, <2>5, <2>6, <2>7, <2>8, <2>9, <2>10, <2>11 DEF Structure
<1>21. ASSUME NEW o \in Op, Answered(o)
       PROVE  Structure' /\ OneLivePerConversation' /\ ExclusiveUse' /\ ForgottenStaysForgotten'
  <2>0. op[o] # Idle /\ op[o].uuid \in Uuid
    BY <1>21, <1>0, OpFacts DEF Answered
  <2>1. /\ op'[o].kind = "none" /\ op'[o].step = "idle"
        /\ \A p \in Op : p # o => op'[p] = op[p]
    BY <1>21, FinishFacts DEF Answered
  <2>4. MintedFirst'
    BY <1>21, <1>c, <2>0, <2>1 DEF Answered, Structure, MintedFirst, Holder
  <2>5. StepsOfKinds'
    BY <1>21, <2>0, <2>1 DEF Answered, Structure, StepsOfKinds
  <2>6. HoldersReserve'
    BY <1>21, <2>0, <2>1
       DEF Answered, Structure, HoldersReserve, StepsOfKinds, Holder, Pending
  <2>7. WaitedFor'
    BY <1>21, <1>c, <2>0, <2>1 DEF Answered, Structure, WaitedFor
  <2>8. OneLivePerConversation'
    BY <1>21, <2>0, <2>1
       DEF Answered, Structure, OneLivePerConversation, Registered, MintedFirst, ExclusiveUse,
           Live
  <2>9. ExclusiveUse'
    BY <1>21, <2>0, <2>1
       DEF Answered, Structure, ExclusiveUse, Live, Registered, MintedFirst, HoldersReserve,
           Holder
  <2>10. RecordedOnce'
    BY <1>21, <1>r, <1>c, <2>0, <2>1
       DEF Answered, Structure, RecordedOnce, Unrecorded, MintedFirst, StepsOfKinds
  <2>11. ForgottenStaysForgotten'
    BY <1>21, <2>0, <2>1
       DEF Answered, ForgottenStaysForgotten, Structure, RecordedOnce, Moot
  <2> QED BY <2>4, <2>5, <2>6, <2>7, <2>8, <2>9, <2>10, <2>11 DEF Structure
<1>22. ASSUME NEW ok \in BOOLEAN, StoreStep(ok)
       PROVE  Structure' /\ OneLivePerConversation' /\ ExclusiveUse' /\ ForgottenStaysForgotten'
  <2> DEFINE m == Head(chain)
  <2>1. /\ m \in Mutations /\ m = chain[1] /\ 1 \in DOMAIN chain
        /\ DOMAIN chain = 1..Len(chain) /\ Len(chain) \in Nat
        /\ DOMAIN chain' = 1..(Len(chain) - 1)
        /\ \A i \in DOMAIN chain' : chain'[i] = chain[i + 1]
    BY <1>22 DEF StoreStep
  <2>2. /\ run' = run /\ minted' = minted /\ forgetting' = forgetting
        /\ \A u \in Uuid : stored'[u] # None =>
              stored[u] # None \/ (m.kind # "forget" /\ m.uuid = u)
    BY <1>22, <2>1 DEF StoreStep, Mutations
  <2>m. m.by # None => m.by \in Op /\ op[m.by] # Idle /\ op[m.by].uuid \in Uuid
    <3> SUFFICES ASSUME m.by # None PROVE op[m.by] # Idle /\ op[m.by].uuid \in Uuid
      BY <2>1 DEF Mutations
    <3>1. m.by \in Op /\ op[m.by].step # "idle"
      BY <2>1 DEF Structure, WaitedFor, Mutations
    <3> QED BY <1>0, <3>1, OpFacts
  <2>3. \/ op' = op /\ resuming' = resuming /\ m.by = None
        \/ /\ m.by \in Op /\ Forgotten(m.by)
           /\ op[m.by].kind \in {"forget", "offered"} /\ op[m.by].step = "deleting"
        \/ /\ m.by \in Op /\ Released(m.by)
           /\ op[m.by].kind \in {"new", "resume", "restore"} /\ op[m.by].step = "saving"
    <3>1. CASE m.by = None
      BY <1>22, <3>1 DEF StoreStep
    <3>2. CASE m.by # None /\ m.kind = "forget"
      <4>1. op[m.by].kind \in {"forget", "offered"} /\ op[m.by].step = "deleting"
        BY <2>1, <3>2 DEF Structure, WaitedFor
      <4>2. Deleted(m.by, ok)
        BY <1>22, <3>2 DEF StoreStep
      <4>3. Forgotten(m.by)
        BY <2>m, <3>2, <4>2, GoToFacts, FinishFacts DEF Deleted, Forgotten, Steps
      <4> QED BY <2>m, <3>2, <4>1, <4>3
    <3>3. CASE m.by # None /\ m.kind # "forget"
      <4>1. op[m.by].step = "saving"
        BY <2>1, <3>3 DEF Structure, WaitedFor
      <4>2. op[m.by].kind \in {"new", "resume", "restore"}
        BY <2>m, <3>3, <4>1 DEF Structure, StepsOfKinds
      <4>3. Launched(m.by)
        BY <1>22, <2>1, <3>3 DEF StoreStep
      <4>4. Released(m.by)
        BY <2>m, <3>3, <4>2, <4>3, ReleasedFacts
      <4> QED BY <2>m, <3>3, <4>1, <4>2, <4>4
    <3> QED BY <3>1, <3>2, <3>3
  <2>u. \/ stored' = stored /\ dropped' = dropped
        \/ /\ m.kind = "upsert" /\ dropped' = dropped
           /\ \A u \in Uuid : u # m.uuid => stored'[u] = stored[u]
        \/ /\ m.kind = "forget" /\ stored[m.uuid] # None
           /\ dropped' = dropped \cup {m.uuid} /\ stored'[m.uuid] = None
           /\ \A u \in Uuid : u # m.uuid => stored'[u] = stored[u]
        \/ /\ m.kind \notin {"upsert", "forget"} /\ stored[m.uuid] # None /\ dropped' = dropped
           /\ \A u \in Uuid : u # m.uuid => stored'[u] = stored[u]
    BY <1>22, <2>1 DEF StoreStep, Moot, Mutations
  <2> HIDE DEF m
  <2>4. MintedFirst'
    <3> DEFINE Mine(o) == Holder(o) \/ op[o].kind = "restore"
    <3>1. MintedFirst
      BY DEF Structure
    <3>2. ASSUME NEW o \in Op PROVE Mine(o)' => Mine(o) /\ op'[o].uuid = op[o].uuid
      BY <2>1, <2>3, SMTT(30) DEF Released, Forgotten, Holder
    <3>3. \A o \in Op : Mine(o)' => op'[o].uuid \in minted'
      BY <2>2, <3>1, <3>2 DEF MintedFirst
    <3> HIDE DEF Mine
    <3>4. /\ \A u \in Uuid : stored'[u] # None => u \in minted'
          /\ \A r \in Run : run'[r] # Unborn => run'[r].uuid \in minted'
          /\ \A i \in DOMAIN chain' : chain'[i].kind # "forget" => chain'[i].uuid \in minted'
      BY <1>c, <2>1, <2>2, <3>1, SMTT(30) DEF MintedFirst
    <3> QED BY <3>3, <3>4 DEF MintedFirst, Mine
  <2>5. StepsOfKinds'
    BY <2>1, <2>2, <2>3 DEF Released, Forgotten, Structure, StepsOfKinds
  <2>6. HoldersReserve'
    BY <2>1, <2>2, <2>3
       DEF Released, Forgotten, Structure, HoldersReserve, StepsOfKinds, Holder, Pending
  <2>7. WaitedFor'
    <3>1. \A i \in DOMAIN chain' : i + 1 \in DOMAIN chain /\ i + 1 # 1 /\ chain'[i] = chain[i + 1]
      BY <2>1
    <3>2. \A i \in DOMAIN chain' : chain'[i].by # None =>
             chain'[i].by \in Op /\ chain'[i].by # m.by
      BY <1>c, <2>1, <3>1 DEF Structure, WaitedFor
    <3>3. \A i \in DOMAIN chain' : chain'[i].by # None => op'[chain'[i].by] = op[chain[i + 1].by]
      BY <2>3, <3>1, <3>2 DEF Released, Forgotten
    <3>4. \A i \in DOMAIN chain' : chain'[i].by # None =>
             IF chain'[i].kind = "forget"
             THEN op'[chain'[i].by].kind \in {"forget", "offered"}
                  /\ op'[chain'[i].by].step = "deleting"
             ELSE op'[chain'[i].by].step = "saving"
      BY <3>1, <3>3 DEF Structure, WaitedFor
    <3>5. \A i, j \in DOMAIN chain' :
             chain'[i].by # None /\ chain'[i].by = chain'[j].by => i = j
      <4> SUFFICES ASSUME NEW i \in DOMAIN chain', NEW j \in DOMAIN chain',
                          chain'[i].by # None, chain'[i].by = chain'[j].by
                   PROVE  i = j
        OBVIOUS
      <4>1. i + 1 = j + 1
        BY <3>1 DEF Structure, WaitedFor
      <4> QED BY <2>1, <4>1
    <3> QED BY <3>4, <3>5 DEF WaitedFor
  <2>8. OneLivePerConversation'
    BY <2>1, <2>2, <2>3
       DEF Released, Forgotten, Structure, OneLivePerConversation, Registered, MintedFirst,
           ExclusiveUse, Live
  <2>9. ExclusiveUse'
    BY <2>1, <2>2, <2>3
       DEF Released, Forgotten, Structure, ExclusiveUse, Live, Registered, MintedFirst,
           HoldersReserve, Holder
  <2>10. RecordedOnce'
    <3>1. \A i \in DOMAIN chain' : i + 1 \in DOMAIN chain /\ i + 1 # 1 /\ chain'[i] = chain[i + 1]
      BY <2>1
    <3>2. \A p \in Op : Unrecorded(p)' => Unrecorded(p) /\ op'[p].run = op[p].run
      BY <2>3 DEF Unrecorded, Released, Forgotten
    <3> HIDE DEF Unrecorded
    <3>u. ASSUME NEW u \in Uuid, stored[u] = None, u \notin dropped,
       m.kind = "upsert" => u # m.uuid
          PROVE  Unsettled(u)
      BY <2>u, <3>u DEF Unsettled
    <3>3. \A p \in Op : Unrecorded(p) => Unsettled(run[op[p].run].uuid)
      <4> SUFFICES ASSUME NEW p \in Op, Unrecorded(p) PROVE Unsettled(run[op[p].run].uuid)
        OBVIOUS
      <4>1. op[p].run \in Run
        BY DEF Structure, StepsOfKinds, Unrecorded
      <4>2. run[op[p].run].uuid \in Uuid
        BY <1>r, <4>1 DEF Structure, RecordedOnce, Runs
      <4> QED BY <2>1, <3>u, <4>2 DEF Structure, RecordedOnce
    <3>4. \A i \in DOMAIN chain' : chain'[i].kind = "upsert" => Unsettled(chain'[i].uuid)
      <4> SUFFICES ASSUME NEW i \in DOMAIN chain', chain'[i].kind = "upsert"
                   PROVE  Unsettled(chain'[i].uuid)
        OBVIOUS
      <4>1. chain'[i].uuid \in Uuid
        BY <1>c, <3>1
      <4>2. stored[chain'[i].uuid] = None /\ chain'[i].uuid \notin dropped
        BY <3>1 DEF Structure, RecordedOnce
      <4>3. m.kind = "upsert" => chain'[i].uuid # m.uuid
        BY <2>1, <3>1 DEF Structure, RecordedOnce
      <4> QED BY <3>u, <4>1, <4>2, <4>3
    <3>5. dropped' \subseteq minted'
      BY <2>1, <2>2, <2>u, <1>c DEF Structure, RecordedOnce, MintedFirst
    <3>6. \A p \in Op : Unrecorded(p)' =>
             /\ run'[op'[p].run] # Unborn
             /\ stored'[run'[op'[p].run].uuid] = None /\ run'[op'[p].run].uuid \notin dropped'
      BY <2>2, <3>2, <3>3 DEF Structure, RecordedOnce, Unsettled
    <3>7. \A p, q \in Op :
             Unrecorded(p)' /\ Unrecorded(q)' /\ run'[op'[p].run].uuid = run'[op'[q].run].uuid
             => p = q
      BY <2>2, <3>2 DEF Structure, RecordedOnce
    <3>8. \A i \in DOMAIN chain' : chain'[i].kind = "upsert" =>
             /\ stored'[chain'[i].uuid] = None /\ chain'[i].uuid \notin dropped'
             /\ \A p \in Op : Unrecorded(p)' => run'[op'[p].run].uuid # chain'[i].uuid
      BY <2>2, <3>1, <3>2, <3>4 DEF Structure, RecordedOnce, Unsettled
    <3>9. \A i, j \in DOMAIN chain' :
             /\ chain'[i].kind = "upsert" /\ chain'[j].kind = "upsert"
             /\ chain'[i].uuid = chain'[j].uuid
             => i = j
      <4> SUFFICES ASSUME NEW i \in DOMAIN chain', NEW j \in DOMAIN chain',
                          chain'[i].kind = "upsert", chain'[j].kind = "upsert",
                          chain'[i].uuid = chain'[j].uuid
                   PROVE  i = j
        OBVIOUS
      <4>1. i + 1 = j + 1
        BY <3>1 DEF Structure, RecordedOnce
      <4> QED BY <2>1, <4>1
    <3> QED BY <3>5, <3>6, <3>7, <3>8, <3>9 DEF RecordedOnce
  <2>11. ForgottenStaysForgotten'
    <3>1. m.kind = "upsert" => m.uuid \notin dropped
      BY <2>1 DEF Structure, RecordedOnce
    <3>2. ASSUME NEW u \in dropped' PROVE stored'[u] = None
      BY <2>u, <3>1, <3>2 DEF ForgottenStaysForgotten
    <3> QED BY <3>2 DEF ForgottenStaysForgotten
  <2> QED BY <2>4, <2>5, <2>6, <2>7, <2>8, <2>9, <2>10, <2>11 DEF Structure
<1>23. CASE Reload
  <2>0. \A o \in Op : op'[o].kind = "none" /\ op'[o].step = "idle"
    BY <1>23 DEF Reload, Idle
  <2>1. DOMAIN chain' = {}
    BY <1>23 DEF Reload
  <2>2. /\ \A r \in Run : run'[r].state \notin {"starting", "running", "closing"}
        /\ \A r \in Run : run'[r] # Unborn => run[r] # Unborn /\ run'[r].uuid = run[r].uuid
    <3> SUFFICES ASSUME NEW r \in Run
                 PROVE  /\ run'[r].state \notin {"starting", "running", "closing"}
                        /\ run'[r] # Unborn => run[r] # Unborn /\ run'[r].uuid = run[r].uuid
      OBVIOUS
    <3>1. run'[r] = IF run[r].state \in {"starting", "running", "closing"}
                    THEN [run[r] EXCEPT !.state = "gone"] ELSE run[r]
      BY <1>23 DEF Reload, Registered
    <3> QED BY <1>r, <3>1 DEF Runs, Unborn
  <2>4. MintedFirst'
    BY <1>23, <1>c, <2>0, <2>1, <2>2 DEF Reload, Structure, MintedFirst, Holder
  <2>5. StepsOfKinds'
    BY <1>23, <2>0, <2>1, <2>2 DEF Reload, Structure, StepsOfKinds
  <2>6. HoldersReserve'
    BY <1>23, <2>0, <2>1, <2>2
       DEF Reload, Structure, HoldersReserve, StepsOfKinds, Holder, Pending
  <2>7. WaitedFor'
    BY <1>23, <1>c, <2>0, <2>1, <2>2 DEF Reload, Structure, WaitedFor
  <2>8. OneLivePerConversation'
    BY <1>23, <2>0, <2>1, <2>2
       DEF Reload, Structure, OneLivePerConversation, Registered, MintedFirst, ExclusiveUse, Live
  <2>9. ExclusiveUse'
    BY <1>23, <2>0, <2>1, <2>2
       DEF Reload, Structure, ExclusiveUse, Live, Registered, MintedFirst, HoldersReserve, Holder
  <2>10. RecordedOnce'
    BY <1>23, <1>c, <2>0, <2>1, <2>2
       DEF Reload, Structure, RecordedOnce, Unrecorded, MintedFirst, StepsOfKinds
  <2>11. ForgottenStaysForgotten'
    BY <1>23, <2>0, <2>1, <2>2
       DEF Reload, ForgottenStaysForgotten, Structure, RecordedOnce, Moot
  <2> QED BY <2>4, <2>5, <2>6, <2>7, <2>8, <2>9, <2>10, <2>11 DEF Structure
<1>24. CASE UNCHANGED vars
  BY <1>24
     DEF vars, Structure, MintedFirst, StepsOfKinds, HoldersReserve, WaitedFor, RecordedOnce,
         Holder, Unrecorded, OneLivePerConversation, ExclusiveUse, ForgottenStaysForgotten,
            Live, Registered
<1> QED
  BY <1>1, <1>2, <1>3, <1>4, <1>5, <1>6, <1>7, <1>8, <1>9, <1>10, <1>11, <1>12, <1>13, <1>14,
     <1>15, <1>16, <1>17, <1>18, <1>19, <1>20, <1>21, <1>22, <1>23, <1>24
     DEF Next, UserStep, PlanStep, LaunchStep

----------------------------------------------------------------------------
(* No reservation is leaked *)

\* Whoever is kept off a conversation is kept off by an operation on it.
KeptOff ==
    /\ \A u \in resuming : \E o \in Op :
          /\ op[o].uuid = u
          /\ \/ op[o].kind = "resume"
             \/ op[o].kind = "restore" /\ op[o].step \in {"planning", "launching", "saving"}
    /\ \A u \in forgetting : \E o \in Op : op[o].uuid = u /\ op[o].kind = "forget"
    /\ \A u \in restoring : \E o \in Op : op[o].uuid = u /\ op[o].kind = "restore"
    /\ \A u \in erasing : \E o \in Op : op[o].uuid = u /\ op[o].kind \in {"forget", "discard"}

\* An operation that waits for a write has it in the chain.
WritesQueued ==
    \A o \in Op : op[o].step \in {"saving", "deleting"} => \E i \in DOMAIN chain : chain[i].by = o

\* ReservationHeld in two parts: the conversations are kept off, the awaited writes
\* are queued.
LEMMA HeldParts == ReservationHeld <=> KeptOff /\ WritesQueued
BY DEF ReservationHeld, KeptOff, WritesQueued

\* No step of Next leaks a reservation, or drops a write somebody waits for.
LEMMA HeldStep ==
    ASSUME IInv, KeptOff, WritesQueued, [Next]_vars
    PROVE  KeptOff' /\ WritesQueued'
<1> USE DEF IInv
<1> USE NoneAssumption, RenameAssumption DEF TypeOK, history, reservations, composer
<1>0. \A o \in Op : op[o] \in Ops
  OBVIOUS
<1>r. \A r \in Run : run[r] \in Runs /\ (run[r].state # "unborn" => run[r] # Unborn)
  BY RunFacts
<1>c. \A i \in DOMAIN chain : chain[i].by \in Op \cup {None} /\ chain[i].uuid \in Uuid
  <2> SUFFICES ASSUME NEW i \in DOMAIN chain PROVE chain[i] \in Mutations
    BY DEF Mutations
  <2> QED OBVIOUS
<1>1. ASSUME NEW o \in Op, NEW r \in Run, NEW u \in Uuid, NewSession(o, r, u)
       PROVE  KeptOff' /\ WritesQueued'
  <2>1. /\ op'[o].kind = "new" /\ op'[o].step = "launching" /\ op'[o].uuid = u
        /\ op'[o].run = r /\ op[o].step = "idle" /\ op[o].kind = "none"
        /\ \A p \in Op : p # o => op'[p] = op[p]
    BY <1>1, <1>0 DEF NewSession, Ops, Idle
  <2>4. KeptOff'
    BY <1>1, <2>1 DEF NewSession, KeptOff, Structure, StepsOfKinds
  <2>5. WritesQueued'
    BY <1>1, <2>1 DEF NewSession, WritesQueued, Structure, StepsOfKinds
  <2> QED BY <2>4, <2>5
<1>2. ASSUME NEW o \in Op, NEW u \in Uuid, Resume(o, u)
       PROVE  KeptOff' /\ WritesQueued'
  <2>1. /\ op[o].kind = "none" /\ op[o].step = "idle"
        /\ op'[o].kind = "resume" /\ op'[o].uuid = u /\ op'[o].step = "planning"
        /\ \A p \in Op : p # o => op'[p] = op[p]
    BY <1>2, BeginFacts DEF Resume, Kinds, Steps, Names
  <2>4. KeptOff'
    BY <1>2, <2>1 DEF Resume, KeptOff, Structure, StepsOfKinds
  <2>5. WritesQueued'
    BY <1>2, <2>1 DEF Resume, WritesQueued, Structure, StepsOfKinds
  <2> QED BY <2>4, <2>5
<1>3. ASSUME NEW o \in Op, ResumeRefused(o)
       PROVE  KeptOff' /\ WritesQueued'
  <2>0. op[o] # Idle /\ op[o].uuid \in Uuid
    BY <1>3, <1>0, OpFacts DEF ResumeRefused
  <2>1. /\ op'[o].kind = "none" /\ op'[o].step = "idle"
        /\ \A p \in Op : p # o => op'[p] = op[p]
    BY <1>3, FinishFacts DEF ResumeRefused
  <2>4. KeptOff'
    BY <1>3, <2>0, <2>1 DEF ResumeRefused, KeptOff, Structure, StepsOfKinds
  <2>5. WritesQueued'
    BY <1>3, <2>0, <2>1 DEF ResumeRefused, WritesQueued, Structure, StepsOfKinds
  <2> QED BY <2>4, <2>5
<1>4. ASSUME NEW o \in Op, ResumePlanned(o)
       PROVE  KeptOff' /\ WritesQueued'
  <2>0. op[o] # Idle /\ op[o].uuid \in Uuid
    BY <1>4, <1>0, OpFacts DEF ResumePlanned
  <2>1. /\ \/ op'[o].kind = "none" /\ op'[o].step = "idle" /\ resuming' = resuming \ {op[o].uuid}
           \/ /\ op'[o].kind = op[o].kind /\ op'[o].uuid = op[o].uuid /\ op'[o].step = "preparing"
              /\ resuming' = resuming
              /\ ~Live(op[o].uuid)
        /\ \A p \in Op : p # o => op'[p] = op[p]
    BY <1>4, <2>0, GoToFacts, FinishFacts DEF ResumePlanned, Steps
  <2>4. KeptOff'
    BY <1>4, <2>0, <2>1 DEF ResumePlanned, KeptOff, Structure, StepsOfKinds
  <2>5. WritesQueued'
    BY <1>4, <2>0, <2>1 DEF ResumePlanned, WritesQueued, Structure, StepsOfKinds
  <2> QED BY <2>4, <2>5
<1>5. ASSUME NEW o \in Op, NEW r \in Run, ResumeLaunch(o, r)
       PROVE  KeptOff' /\ WritesQueued'
  <2>0. op[o] # Idle /\ op[o].uuid \in Uuid /\ op[o].name \in Names
    BY <1>5, <1>0, OpFacts DEF ResumeLaunch
  <2>1. /\ op'[o].kind = "resume" /\ op'[o].step = "launching" /\ op'[o].uuid = op[o].uuid
        /\ op'[o].run = r
        /\ \A p \in Op : p # o => op'[p] = op[p]
    BY <1>5, <1>0, <2>0 DEF ResumeLaunch, Ops, Idle
  <2>4. KeptOff'
    BY <1>5, <2>0, <2>1 DEF ResumeLaunch, KeptOff, Structure, StepsOfKinds
  <2>5. WritesQueued'
    BY <1>5, <2>0, <2>1 DEF ResumeLaunch, WritesQueued, Structure, StepsOfKinds
  <2> QED BY <2>4, <2>5
<1>6. ASSUME NEW o \in Op, NEW u \in Uuid, Restore(o, u)
       PROVE  KeptOff' /\ WritesQueued'
  <2>1. /\ op[o].kind = "none" /\ op[o].step = "idle"
        /\ op'[o].kind = "restore" /\ op'[o].uuid = u /\ op'[o].step = "validating"
        /\ \A p \in Op : p # o => op'[p] = op[p]
    BY <1>6, BeginFacts DEF Restore, Kinds, Steps, Names
  <2>4. KeptOff'
    BY <1>6, <2>1 DEF Restore, KeptOff, Structure, StepsOfKinds
  <2>5. WritesQueued'
    BY <1>6, <2>1 DEF Restore, WritesQueued, Structure, StepsOfKinds
  <2> QED BY <2>4, <2>5
<1>7. ASSUME NEW o \in Op, RestoreFailed(o)
       PROVE  KeptOff' /\ WritesQueued'
  <2>0. op[o] # Idle /\ op[o].uuid \in Uuid
    BY <1>7, <1>0, OpFacts DEF RestoreFailed
  <2>1. /\ op'[o].kind = "none" /\ op'[o].step = "idle"
        /\ \A p \in Op : p # o => op'[p] = op[p]
    BY <1>7, FinishFacts DEF RestoreFailed
  <2>4. KeptOff'
    BY <1>7, <2>0, <2>1 DEF RestoreFailed, KeptOff, Structure, StepsOfKinds
  <2>5. WritesQueued'
    BY <1>7, <2>0, <2>1 DEF RestoreFailed, WritesQueued, Structure, StepsOfKinds
  <2> QED BY <2>4, <2>5
<1>8. ASSUME NEW o \in Op, RestoreReserved(o)
       PROVE  KeptOff' /\ WritesQueued'
  <2>0. op[o] # Idle /\ op[o].uuid \in Uuid
    BY <1>8, <1>0, OpFacts DEF RestoreReserved
  <2>1. /\ op'[o].kind = op[o].kind /\ op'[o].uuid = op[o].uuid /\ op'[o].step = "planning"
        /\ op'[o].run = op[o].run
        /\ \A p \in Op : p # o => op'[p] = op[p]
    BY <1>8, <2>0, GoToFacts DEF RestoreReserved, Steps
  <2>4. KeptOff'
    BY <1>8, <2>0, <2>1 DEF RestoreReserved, KeptOff, Structure, StepsOfKinds
  <2>5. WritesQueued'
    BY <1>8, <2>0, <2>1 DEF RestoreReserved, WritesQueued, Structure, StepsOfKinds
  <2> QED BY <2>4, <2>5
<1>9. ASSUME NEW o \in Op, NEW r \in Run, NEW u \in Uuid, RestoreLaunch(o, r, u)
       PROVE  KeptOff' /\ WritesQueued'
  <2>0. op[o] # Idle /\ op[o].uuid \in Uuid
    BY <1>9, <1>0, OpFacts DEF RestoreLaunch
  <2>1. /\ op'[o].kind = "restore" /\ op'[o].step = "launching" /\ op'[o].uuid = op[o].uuid
        /\ op'[o].run = r
        /\ \A p \in Op : p # o => op'[p] = op[p]
    BY <1>9, <1>0, <2>0 DEF RestoreLaunch, Ops, Idle
  <2>4. KeptOff'
    BY <1>9, <2>0, <2>1 DEF RestoreLaunch, KeptOff, Structure, StepsOfKinds
  <2>5. WritesQueued'
    BY <1>9, <2>0, <2>1 DEF RestoreLaunch, WritesQueued, Structure, StepsOfKinds
  <2> QED BY <2>4, <2>5
<1>10. ASSUME NEW o \in Op, RestoreMoved(o)
       PROVE  KeptOff' /\ WritesQueued'
  <2>0. op[o] # Idle /\ op[o].uuid \in Uuid
    BY <1>10, <1>0, OpFacts DEF RestoreMoved
  <2>1. /\ op'[o].kind = "none" /\ op'[o].step = "idle"
        /\ \A p \in Op : p # o => op'[p] = op[p]
    BY <1>10, FinishFacts DEF RestoreMoved
  <2>4. KeptOff'
    BY <1>10, <2>0, <2>1 DEF RestoreMoved, KeptOff, Structure, StepsOfKinds
  <2>5. WritesQueued'
    BY <1>10, <2>0, <2>1 DEF RestoreMoved, WritesQueued, Structure, StepsOfKinds
  <2> QED BY <2>4, <2>5
<1>11. ASSUME NEW o \in Op, SessionRuns(o)
       PROVE  KeptOff' /\ WritesQueued'
  <2>0. op[o] # Idle /\ op[o].uuid \in Uuid /\ op[o].run \in Run
        /\ op[o].kind \in {"new", "resume", "restore"}
    BY <1>11, <1>0, OpFacts DEF SessionRuns, Structure, StepsOfKinds
  <2>1. /\ op'[o].kind = op[o].kind /\ op'[o].uuid = op[o].uuid /\ op'[o].step = "saving"
        /\ op'[o].run = op[o].run
        /\ \A p \in Op : p # o => op'[p] = op[p]
    BY <1>11, <2>0, GoToFacts DEF SessionRuns, Steps
  <2>3. /\ DOMAIN chain = 1..Len(chain) /\ Len(chain) \in Nat
        /\ DOMAIN chain' = 1..(Len(chain) + 1)
        /\ \A i \in DOMAIN chain : chain'[i] = chain[i]
        /\ \A i \in DOMAIN chain' : i \in DOMAIN chain \/ i = Len(chain) + 1
        /\ chain'[Len(chain) + 1].kind # "forget"
        /\ chain'[Len(chain) + 1].uuid = run[op[o].run].uuid
        /\ chain'[Len(chain) + 1].by = o
    <3> DEFINE kind == IF op[o].kind = "resume" THEN "update" ELSE "upsert"
    <3>1. kind \in {"upsert", "update", "rename", "forget"} /\ kind # "forget"
      OBVIOUS
    <3>2. run[op[o].run].uuid \in Uuid /\ SavedName(o) \in Names
      BY <1>11, <1>r, <2>0, RunFacts DEF SessionRuns, SavedName
    <3>3. Enqueue(kind, run[op[o].run].uuid, SavedName(o), o)
      BY <1>11 DEF SessionRuns
    <3> HIDE DEF kind
    <3> QED BY <3>1, <3>2, <3>3, EnqueueFacts
  <2>4. KeptOff'
    <3>1. /\ resuming' = resuming /\ forgetting' = forgetting
          /\ restoring' = restoring /\ erasing' = erasing
      BY <1>11 DEF SessionRuns
    <3>2. \A p \in Op : op'[p].uuid = op[p].uuid /\ op'[p].kind = op[p].kind
      BY <2>1
    <3>3. \A p \in Op : op[p].step \in {"planning", "launching", "saving"} =>
             op'[p].step \in {"planning", "launching", "saving"}
      BY <2>1
    <3> QED BY <3>1, <3>2, <3>3 DEF KeptOff
  <2>5. WritesQueued'
    <3>1. Len(chain) + 1 \in DOMAIN chain' /\ \A i \in DOMAIN chain : i \in DOMAIN chain'
      BY <2>3
    <3> QED BY <2>1, <2>3, <3>1 DEF WritesQueued
  <2> QED BY <2>4, <2>5
<1>12. ASSUME NEW o \in Op, LaunchReturned(o)
       PROVE  KeptOff' /\ WritesQueued'
  <2>0. op[o] # Idle /\ op[o].uuid \in Uuid /\ op[o].kind \in {"new", "resume", "restore"}
    BY <1>12, <1>0, OpFacts DEF LaunchReturned, Structure, StepsOfKinds
  <2>1. Released(o)
    BY <1>12, <2>0, ReleasedFacts DEF LaunchReturned
  <2>4. KeptOff'
    BY <1>12, <2>0, <2>1, SMTT(30) DEF LaunchReturned, Released, KeptOff, Structure, StepsOfKinds
  <2>5. WritesQueued'
    BY <1>12, <2>0, <2>1 DEF LaunchReturned, Released, WritesQueued, Structure, StepsOfKinds
  <2> QED BY <2>4, <2>5
<1>13. ASSUME NEW r \in Run, SessionCloses(r)
       PROVE  KeptOff' /\ WritesQueued'
  BY <1>13 DEF SessionCloses, KeptOff, WritesQueued
<1>14. ASSUME NEW r \in Run, SessionEnds(r)
       PROVE  KeptOff' /\ WritesQueued'
  BY <1>14 DEF SessionEnds, KeptOff, WritesQueued
<1>15. ASSUME NEW r \in Run, Rename(r)
       PROVE  KeptOff' /\ WritesQueued'
  <2>1. renames' \in Names /\ run[r].state # "unborn" /\ run[r].uuid \in Uuid
    BY <1>15, <1>r, RunFacts DEF Rename, Registered, Names
  <2>3. /\ DOMAIN chain = 1..Len(chain) /\ Len(chain) \in Nat
        /\ DOMAIN chain' = 1..(Len(chain) + 1)
        /\ \A i \in DOMAIN chain : chain'[i] = chain[i]
        /\ \A i \in DOMAIN chain' : i \in DOMAIN chain \/ i = Len(chain) + 1
        /\ chain'[Len(chain) + 1].kind = "rename" /\ chain'[Len(chain) + 1].uuid = run[r].uuid
        /\ chain'[Len(chain) + 1].by = None
    BY <1>15, <2>1, EnqueueFacts DEF Rename
  <2>4. KeptOff'
    BY <1>15, <2>1, <2>3 DEF Rename, KeptOff, Structure, StepsOfKinds
  <2>5. WritesQueued'
    BY <1>15, <2>1, <2>3 DEF Rename, WritesQueued, Structure, StepsOfKinds
  <2> QED BY <2>4, <2>5
<1>16. ASSUME NEW o \in Op, NEW u \in Uuid, Forget(o, u)
       PROVE  KeptOff' /\ WritesQueued'
  <2>1. /\ op[o].kind = "none" /\ op[o].step = "idle"
        /\ op'[o].kind = "forget" /\ op'[o].uuid = u /\ op'[o].step = "deleting"
        /\ \A p \in Op : p # o => op'[p] = op[p]
    BY <1>16, BeginFacts DEF Forget, Kinds, Steps, Names
  <2>3. /\ DOMAIN chain = 1..Len(chain) /\ Len(chain) \in Nat
        /\ DOMAIN chain' = 1..(Len(chain) + 1)
        /\ \A i \in DOMAIN chain : chain'[i] = chain[i]
        /\ \A i \in DOMAIN chain' : i \in DOMAIN chain \/ i = Len(chain) + 1
        /\ chain'[Len(chain) + 1].kind = "forget" /\ chain'[Len(chain) + 1].uuid = u
        /\ chain'[Len(chain) + 1].by = o
    <3>1. 0 \in Names
      BY DEF Names
    <3>2. Enqueue("forget", u, 0, o)
      BY <1>16 DEF Forget
    <3> QED BY <3>1, <3>2, EnqueueFacts
  <2>4. KeptOff'
    BY <1>16, <2>1, <2>3 DEF Forget, KeptOff, Structure, StepsOfKinds
  <2>5. WritesQueued'
    BY <1>16, <2>1, <2>3 DEF Forget, WritesQueued, Structure, StepsOfKinds
  <2> QED BY <2>4, <2>5
<1>17. ASSUME NEW o \in Op, NEW u \in Uuid, Discard(o, u)
       PROVE  KeptOff' /\ WritesQueued'
  <2>1. /\ op[o].kind = "none" /\ op[o].step = "idle"
        /\ op'[o].kind = "discard" /\ op'[o].uuid = u /\ op'[o].step = "erasing"
        /\ \A p \in Op : p # o => op'[p] = op[p]
    BY <1>17, BeginFacts DEF Discard, Kinds, Steps, Names
  <2>4. KeptOff'
    BY <1>17, <2>1 DEF Discard, KeptOff, Structure, StepsOfKinds
  <2>5. WritesQueued'
    BY <1>17, <2>1 DEF Discard, WritesQueued, Structure, StepsOfKinds
  <2> QED BY <2>4, <2>5
<1>18. ASSUME NEW o \in Op, NEW u \in Uuid, TakeOffer(o, u)
       PROVE  KeptOff' /\ WritesQueued'
  <2>1. /\ op[o].kind = "none" /\ op[o].step = "idle"
        /\ op'[o].kind = "offered" /\ op'[o].uuid = u /\ op'[o].step = "deleting"
        /\ \A p \in Op : p # o => op'[p] = op[p]
    BY <1>18, BeginFacts DEF TakeOffer, Kinds, Steps, Names
  <2>3. /\ DOMAIN chain = 1..Len(chain) /\ Len(chain) \in Nat
        /\ DOMAIN chain' = 1..(Len(chain) + 1)
        /\ \A i \in DOMAIN chain : chain'[i] = chain[i]
        /\ \A i \in DOMAIN chain' : i \in DOMAIN chain \/ i = Len(chain) + 1
        /\ chain'[Len(chain) + 1].kind = "forget" /\ chain'[Len(chain) + 1].uuid = u
        /\ chain'[Len(chain) + 1].by = o
    <3>1. 0 \in Names
      BY DEF Names
    <3>2. Enqueue("forget", u, 0, o)
      BY <1>18 DEF TakeOffer
    <3> QED BY <3>1, <3>2, EnqueueFacts
  <2>4. KeptOff'
    BY <1>18, <2>1, <2>3 DEF TakeOffer, KeptOff, Structure, StepsOfKinds
  <2>5. WritesQueued'
    BY <1>18, <2>1, <2>3 DEF TakeOffer, WritesQueued, Structure, StepsOfKinds
  <2> QED BY <2>4, <2>5
<1>19. ASSUME NEW u \in Uuid, DismissOffer(u)
       PROVE  KeptOff' /\ WritesQueued'
  BY <1>19 DEF DismissOffer, KeptOff, WritesQueued
<1>20. ASSUME NEW o \in Op, Erased(o)
       PROVE  KeptOff' /\ WritesQueued'
  <2>0. op[o] # Idle /\ op[o].uuid \in Uuid
    BY <1>20, <1>0, OpFacts DEF Erased
  <2>1. \A p \in Op : p # o => op'[p] = op[p]
    BY <1>20, <2>0, GoToFacts, FinishFacts DEF Erased, Steps
  <2>2. \/ /\ op'[o].kind = "none" /\ op'[o].step = "idle"
           /\ forgetting' = IF op[o].kind = "forget" THEN forgetting \ {op[o].uuid} ELSE forgetting
           /\ erasing' = IF op[o].kind = "offered" THEN erasing ELSE erasing \ {op[o].uuid}
        \/ /\ op'[o].kind = op[o].kind /\ op'[o].uuid = op[o].uuid /\ op'[o].step = "asking"
           /\ forgetting' = forgetting /\ erasing' = erasing
    <3>1. Idle.kind = "none" /\ Idle.step = "idle"
      BY DEF Idle
    <3> QED BY <1>20, <2>0, <3>1, GoToFacts, FinishFacts DEF Erased, Steps
  <2>3. op[o].kind \in {"forget", "discard", "offered"} /\ resuming' = resuming /\ restoring' = restoring
    BY <1>20 DEF Erased, Structure, StepsOfKinds
  <2>4. KeptOff'
    BY <2>1, <2>2, <2>3 DEF KeptOff
  <2>5. WritesQueued'
    BY <1>20, <2>1, <2>2 DEF Erased, WritesQueued, Structure, StepsOfKinds
  <2> QED BY <2>4, <2>5
<1>21. ASSUME NEW o \in Op, Answered(o)
       PROVE  KeptOff' /\ WritesQueued'
  <2>0. op[o] # Idle /\ op[o].uuid \in Uuid
    BY <1>21, <1>0, OpFacts DEF Answered
  <2>1. /\ op'[o].kind = "none" /\ op'[o].step = "idle"
        /\ \A p \in Op : p # o => op'[p] = op[p]
    BY <1>21, FinishFacts DEF Answered
  <2>4. KeptOff'
    BY <1>21, <2>0, <2>1 DEF Answered, KeptOff, Structure, StepsOfKinds
  <2>5. WritesQueued'
    BY <1>21, <2>0, <2>1 DEF Answered, WritesQueued, Structure, StepsOfKinds
  <2> QED BY <2>4, <2>5
<1>22. ASSUME NEW ok \in BOOLEAN, StoreStep(ok)
       PROVE  KeptOff' /\ WritesQueued'
  <2> DEFINE m == Head(chain)
  <2>1. /\ m \in Mutations /\ m = chain[1] /\ 1 \in DOMAIN chain
        /\ DOMAIN chain = 1..Len(chain) /\ Len(chain) \in Nat
        /\ DOMAIN chain' = 1..(Len(chain) - 1)
        /\ \A i \in DOMAIN chain' : chain'[i] = chain[i + 1]
    BY <1>22 DEF StoreStep
  <2>2. /\ run' = run /\ minted' = minted /\ forgetting' = forgetting
        /\ \A u \in Uuid : stored'[u] # None =>
              stored[u] # None \/ (m.kind # "forget" /\ m.uuid = u)
    BY <1>22, <2>1 DEF StoreStep, Mutations
  <2>m. m.by # None => m.by \in Op /\ op[m.by] # Idle /\ op[m.by].uuid \in Uuid
    <3> SUFFICES ASSUME m.by # None PROVE op[m.by] # Idle /\ op[m.by].uuid \in Uuid
      BY <2>1 DEF Mutations
    <3>1. m.by \in Op /\ op[m.by].step # "idle"
      BY <2>1 DEF Structure, WaitedFor, Mutations
    <3> QED BY <1>0, <3>1, OpFacts
  <2>3. \/ op' = op /\ resuming' = resuming /\ m.by = None
        \/ /\ m.by \in Op /\ Forgotten(m.by)
           /\ op[m.by].kind \in {"forget", "offered"} /\ op[m.by].step = "deleting"
        \/ /\ m.by \in Op /\ Released(m.by)
           /\ op[m.by].kind \in {"new", "resume", "restore"} /\ op[m.by].step = "saving"
    <3>1. CASE m.by = None
      BY <1>22, <3>1 DEF StoreStep
    <3>2. CASE m.by # None /\ m.kind = "forget"
      <4>1. op[m.by].kind \in {"forget", "offered"} /\ op[m.by].step = "deleting"
        BY <2>1, <3>2 DEF Structure, WaitedFor
      <4>2. Deleted(m.by, ok)
        BY <1>22, <3>2 DEF StoreStep
      <4>3. Forgotten(m.by)
        BY <2>m, <3>2, <4>2, GoToFacts, FinishFacts DEF Deleted, Forgotten, Steps
      <4> QED BY <2>m, <3>2, <4>1, <4>3
    <3>3. CASE m.by # None /\ m.kind # "forget"
      <4>1. op[m.by].step = "saving"
        BY <2>1, <3>3 DEF Structure, WaitedFor
      <4>2. op[m.by].kind \in {"new", "resume", "restore"}
        BY <2>m, <3>3, <4>1 DEF Structure, StepsOfKinds
      <4>3. Launched(m.by)
        BY <1>22, <2>1, <3>3 DEF StoreStep
      <4>4. Released(m.by)
        BY <2>m, <3>3, <4>2, <4>3, ReleasedFacts
      <4> QED BY <2>m, <3>3, <4>1, <4>2, <4>4
    <3> QED BY <3>1, <3>2, <3>3
  <2> HIDE DEF m
  <2>4. KeptOff'
    BY <1>22, <2>1, <2>2, <2>3 DEF StoreStep, Released, Forgotten, KeptOff
  <2>5. WritesQueued'
    <3>1. \A p \in Op : p # m.by => op'[p] = op[p]
      BY <2>3 DEF Released, Forgotten
    <3>2. m.by \in Op => op'[m.by].step \notin {"saving", "deleting"}
      BY <2>3 DEF Released, Forgotten
    <3>3. \A i \in DOMAIN chain : chain[i].by # m.by => i - 1 \in DOMAIN chain' /\ chain'[i - 1] = chain[i]
      BY <2>1
    <3> QED BY <3>1, <3>2, <3>3 DEF WritesQueued
  <2> QED BY <2>4, <2>5
<1>23. CASE Reload
  BY <1>23 DEF Reload, KeptOff, WritesQueued, Idle
<1>24. CASE UNCHANGED vars
  BY <1>24 DEF vars, KeptOff, WritesQueued
<1> QED
  BY <1>1, <1>2, <1>3, <1>4, <1>5, <1>6, <1>7, <1>8, <1>9, <1>10, <1>11, <1>12, <1>13, <1>14,
     <1>15, <1>16, <1>17, <1>18, <1>19, <1>20, <1>21, <1>22, <1>23, <1>24
     DEF Next, UserStep, PlanStep, LaunchStep

----------------------------------------------------------------------------
(* The name a conversation will be saved under *)

\* A mutation that may give u a name.
Naming(m, u) == m.kind # "forget" /\ m.uuid = u

\* Nothing queued names u.
Unnamed(u) == \A i \in DOMAIN chain : ~Naming(chain[i], u)

\* When the chain has drained, u is stored under name n, or not at all: the last
\* mutation that names it says n, or it is what is stored and there is none.
SavedAs(u, n) ==
    /\ \A i \in DOMAIN chain :
          Naming(chain[i], u) /\ (\A j \in DOMAIN chain : j > i => ~Naming(chain[j], u))
          => chain[i].name = n
    /\ Unnamed(u) => stored[u] \in {None, n}

Excused(u) == u \in unsaved \cup misread

\* A resume that is still to launch its session.
Resuming(o) == op[o].kind = "resume" /\ op[o].step \in {"planning", "preparing"}

\* The sessions, and the resumes that will launch one, have the name their
\* conversation will be saved under; nothing is queued under a resume.
RunsNamed == \A r \in Registered : ~Excused(run[r].uuid) => SavedAs(run[r].uuid, run[r].name)

ResumesNamed ==
    \A o \in Op : Resuming(o) /\ ~Excused(op[o].uuid) =>
        Unnamed(op[o].uuid) /\ SavedAs(op[o].uuid, op[o].name)

\* An update in the chain is that of a resume of the same conversation.
UpdatesOfResumes ==
    /\ \A o \in Op : op[o].kind = "resume" /\ op[o].step = "launching" =>
          run[op[o].run] # Unborn /\ run[op[o].run].uuid = op[o].uuid
    /\ \A i \in DOMAIN chain : chain[i].kind = "update" =>
          /\ chain[i].by \in Op
          /\ op[chain[i].by].kind = "resume" /\ op[chain[i].by].uuid = chain[i].uuid

NamesFollow == RunsNamed /\ ResumesNamed /\ UpdatesOfResumes

\* A step that launches and names nothing keeps all names as they are.
LEMMA NamesKept ==
    ASSUME TypeOK, NamesFollow, StepsOfKinds,
           Registered' \subseteq Registered,
           \A q \in Run : run[q] # Unborn =>
              run'[q] # Unborn /\ run'[q].uuid = run[q].uuid /\ run'[q].name = run[q].name,
           \A p \in Op :
              \/ op'[p] = op[p]
              \/ Resuming(p) /\ Resuming(p)' /\ op'[p].uuid = op[p].uuid /\ op'[p].name = op[p].name
              \/ op'[p].kind # "resume",
           \A u \in Uuid : ~Excused(u)' =>
              /\ ~Excused(u)
              /\ Unnamed(u) => Unnamed(u)'
              /\ \A n \in Names : SavedAs(u, n) => SavedAs(u, n)',
           \A i \in DOMAIN chain' : chain'[i].kind = "update" =>
              \E j \in DOMAIN chain :
                 chain'[i] = chain[j] /\ op'[chain[j].by] = op[chain[j].by]
    PROVE  NamesFollow'
<1>1. RunsNamed'
  <2> SUFFICES ASSUME NEW r \in Registered', ~Excused(run[r].uuid)'
               PROVE  SavedAs(run[r].uuid, run[r].name)'
    BY DEF RunsNamed
  <2>1. r \in Registered /\ r \in Run /\ run[r] \in Runs /\ run[r].state # "unborn"
    BY DEF Registered, TypeOK
  <2>2. run[r] # Unborn /\ run[r].uuid \in Uuid /\ run[r].name \in Names
    BY <2>1, RunFacts
  <2>3. run'[r].uuid = run[r].uuid /\ run'[r].name = run[r].name
    BY <2>1, <2>2
  <2>4. ~Excused(run[r].uuid)
    BY <2>2, <2>3 DEF Excused
  <2>5. SavedAs(run[r].uuid, run[r].name)
    BY <2>1, <2>4 DEF NamesFollow, RunsNamed
  <2> QED BY <2>2, <2>3, <2>5 DEF SavedAs, Unnamed, Naming, Excused
<1>2. ResumesNamed'
  <2> SUFFICES ASSUME NEW p \in Op, Resuming(p)', ~Excused(op[p].uuid)'
               PROVE  Unnamed(op[p].uuid)' /\ SavedAs(op[p].uuid, op[p].name)'
    BY DEF ResumesNamed
  <2>1. Resuming(p) /\ op'[p].uuid = op[p].uuid /\ op'[p].name = op[p].name
    BY DEF Resuming
  <2>2. op[p].uuid \in Uuid /\ op[p].name \in Names
    BY <2>1, OpFacts DEF Resuming, TypeOK
  <2>3. ~Excused(op[p].uuid)
    BY <2>1, <2>2 DEF Excused
  <2>4. Unnamed(op[p].uuid) /\ SavedAs(op[p].uuid, op[p].name)
    BY <2>1, <2>3 DEF NamesFollow, ResumesNamed
  <2> QED BY <2>1, <2>2, <2>4 DEF SavedAs, Unnamed, Naming, Excused
<1>3. UpdatesOfResumes'
  <2>1. ASSUME NEW p \in Op, op'[p].kind = "resume", op'[p].step = "launching"
        PROVE  run'[op'[p].run] # Unborn /\ run'[op'[p].run].uuid = op'[p].uuid
    <3>1. op'[p] = op[p]
      BY <2>1 DEF Resuming
    <3>2. op[p].run \in Run
      BY <2>1, <3>1 DEF StepsOfKinds
    <3> QED BY <2>1, <3>1, <3>2 DEF NamesFollow, UpdatesOfResumes
  <2>2. ASSUME NEW i \in DOMAIN chain', chain'[i].kind = "update"
        PROVE  /\ chain'[i].by \in Op
               /\ op'[chain'[i].by].kind = "resume" /\ op'[chain'[i].by].uuid = chain'[i].uuid
    BY <2>2 DEF NamesFollow, UpdatesOfResumes
  <2> QED BY <2>1, <2>2 DEF UpdatesOfResumes
<1> QED BY <1>1, <1>2, <1>3 DEF NamesFollow

\* A step that leaves the store and its chain alone keeps all names.
LEMMA NamesIdle ==
    ASSUME TypeOK, NamesFollow, StepsOfKinds, WaitedFor,
           UNCHANGED <<stored, chain, unsaved, misread>>,
           Registered' \subseteq Registered,
           \A q \in Run : run[q] # Unborn =>
              run'[q] # Unborn /\ run'[q].uuid = run[q].uuid /\ run'[q].name = run[q].name,
           \A p \in Op :
              \/ op'[p] = op[p]
              \/ /\ op[p].step # "saving"
                 /\ \/ /\ Resuming(p) /\ Resuming(p)'
                       /\ op'[p].uuid = op[p].uuid /\ op'[p].name = op[p].name
                    \/ op'[p].kind # "resume"
    PROVE  NamesFollow'
<1>1. \A u \in Uuid :
         /\ Excused(u)' <=> Excused(u)
         /\ Unnamed(u)' <=> Unnamed(u)
         /\ \A n \in Names : SavedAs(u, n)' <=> SavedAs(u, n)
  BY DEF Excused, Unnamed, SavedAs
<1>2. ASSUME NEW i \in DOMAIN chain', chain'[i].kind = "update"
      PROVE  chain'[i] = chain[i] /\ op'[chain[i].by] = op[chain[i].by]
  <2>1. chain'[i] = chain[i] /\ i \in DOMAIN chain /\ chain[i].by \in Op
    BY <1>2 DEF NamesFollow, UpdatesOfResumes
  <2>2. op[chain[i].by].step = "saving"
    BY <1>2, <2>1, NoneAssumption DEF WaitedFor
  <2>3. op[chain[i].by].kind = "resume"
    BY <1>2, <2>1 DEF NamesFollow, UpdatesOfResumes
  <2> QED BY <2>1, <2>2
<1> HIDE DEF Excused, Unnamed, SavedAs, Resuming
<1> QED BY <1>1, <1>2, NamesKept

\* A session that is launched under a UUID of its own has its first name.
LEMMA NamesNew ==
    ASSUME TypeOK, MintedFirst, NamesFollow, StepsOfKinds, WaitedFor,
           NEW o \in Op, NEW r \in Run, NEW u \in Uuid,
           u \notin minted,
           UNCHANGED <<stored, chain, unsaved, misread>>,
           run[r] = Unborn, run'[r].uuid = u,
           \A q \in Run : q # r => run'[q] = run[q],
           op[o].step # "saving", op'[o].kind # "resume",
           \A p \in Op : p # o => op'[p] = op[p]
    PROVE  NamesFollow'
<1>1. Unnamed(u) /\ stored[u] = None
  BY DEF MintedFirst, Unnamed, Naming
<1>2. RunsNamed'
  <2> SUFFICES ASSUME NEW q \in Registered', ~Excused(run[q].uuid)'
               PROVE  SavedAs(run[q].uuid, run[q].name)'
    BY DEF RunsNamed
  <2>1. CASE q = r
    BY <1>1, <2>1 DEF SavedAs, Unnamed, Naming
  <2>2. CASE q # r
    <3>1. q \in Registered /\ run'[q] = run[q]
      BY <2>2 DEF Registered
    <3>2. ~Excused(run[q].uuid)
      BY <3>1 DEF Excused
    <3>3. SavedAs(run[q].uuid, run[q].name)
      BY <3>1, <3>2 DEF NamesFollow, RunsNamed
    <3> QED BY <3>1, <3>3 DEF SavedAs, Unnamed, Naming
  <2> QED BY <2>1, <2>2
<1>3. ResumesNamed'
  <2> SUFFICES ASSUME NEW p \in Op, Resuming(p)', ~Excused(op[p].uuid)'
               PROVE  Unnamed(op[p].uuid)' /\ SavedAs(op[p].uuid, op[p].name)'
    BY DEF ResumesNamed
  <2>1. op'[p] = op[p] /\ Resuming(p)
    BY DEF Resuming
  <2>2. Unnamed(op[p].uuid) /\ SavedAs(op[p].uuid, op[p].name)
    BY <2>1 DEF NamesFollow, ResumesNamed, Excused
  <2> QED BY <2>1, <2>2 DEF SavedAs, Unnamed, Naming
<1>4. UpdatesOfResumes'
  <2>1. ASSUME NEW p \in Op, op'[p].kind = "resume", op'[p].step = "launching"
        PROVE  run'[op'[p].run] # Unborn /\ run'[op'[p].run].uuid = op'[p].uuid
    <3>1. op'[p] = op[p]
      BY <2>1
    <3>2. op[p].run \in Run /\ run[op[p].run] # Unborn
      BY <2>1, <3>1 DEF StepsOfKinds, NamesFollow, UpdatesOfResumes
    <3> QED BY <2>1, <3>1, <3>2 DEF NamesFollow, UpdatesOfResumes
  <2>2. ASSUME NEW i \in DOMAIN chain', chain'[i].kind = "update"
        PROVE  /\ chain'[i].by \in Op
               /\ op'[chain'[i].by].kind = "resume" /\ op'[chain'[i].by].uuid = chain'[i].uuid
    <3>1. i \in DOMAIN chain /\ chain'[i] = chain[i] /\ chain[i].by \in Op
      BY <2>2 DEF NamesFollow, UpdatesOfResumes
    <3>2. chain[i].by # o
      BY <2>2, <3>1, NoneAssumption DEF WaitedFor
    <3> QED BY <2>2, <3>1, <3>2 DEF NamesFollow, UpdatesOfResumes
  <2> QED BY <2>1, <2>2 DEF UpdatesOfResumes
<1> QED BY <1>2, <1>3, <1>4 DEF NamesFollow

\* What is queued last leaves the other conversations' names alone, and names
\* its own unless it is a forget.
LEMMA NamesQueued ==
    ASSUME TypeOK, NEW kind, NEW v \in Uuid, NEW name, NEW by,
           stored' = stored,
           DOMAIN chain = 1..Len(chain), Len(chain) \in Nat,
           DOMAIN chain' = 1..(Len(chain) + 1),
           \A i \in DOMAIN chain : chain'[i] = chain[i],
           chain'[Len(chain) + 1].kind = kind, chain'[Len(chain) + 1].uuid = v,
           chain'[Len(chain) + 1].name = name
    PROVE  /\ \A u : u # v \/ kind = "forget" =>
                 /\ Unnamed(u) => Unnamed(u)'
                 /\ \A n : SavedAs(u, n) => SavedAs(u, n)'
           /\ kind # "forget" => SavedAs(v, name)'
<1> DEFINE last == Len(chain) + 1
<1>1. /\ last \in DOMAIN chain'
      /\ \A i \in DOMAIN chain' : i = last \/ (i \in DOMAIN chain /\ i < last)
      /\ \A i \in DOMAIN chain : i \in DOMAIN chain'
  OBVIOUS
<1>2. ASSUME NEW u, u # v \/ kind = "forget"
      PROVE  ~Naming(chain'[last], u)
  BY <1>2 DEF Naming
<1>3. ASSUME NEW u, u # v \/ kind = "forget"
      PROVE  Unnamed(u)' <=> Unnamed(u)
  BY <1>1, <1>2, <1>3 DEF Unnamed
<1>4. ASSUME NEW u, u # v \/ kind = "forget", NEW n, SavedAs(u, n)
      PROVE  SavedAs(u, n)'
  <2>1. ASSUME NEW i \in DOMAIN chain', Naming(chain'[i], u),
               \A j \in DOMAIN chain' : j > i => ~Naming(chain'[j], u)
        PROVE  chain'[i].name = n
    <3>1. i \in DOMAIN chain /\ chain'[i] = chain[i]
      BY <1>1, <1>2, <1>4, <2>1
    <3>2. \A j \in DOMAIN chain : j > i => ~Naming(chain[j], u)
      BY <1>1, <2>1
    <3> QED BY <1>4, <2>1, <3>1, <3>2 DEF SavedAs
  <2> QED BY <1>3, <1>4, <2>1 DEF SavedAs
<1>5. ASSUME kind # "forget"
      PROVE  SavedAs(v, name)'
  <2>1. Naming(chain'[last], v)
    BY <1>5 DEF Naming
  <2>2. ~Unnamed(v)'
    BY <1>1, <2>1 DEF Unnamed
  <2> QED BY <1>1, <2>1, <2>2 DEF SavedAs
<1> QED BY <1>3, <1>4, <1>5

\* No step of Next parts the name of a session from the one it will be saved
\* under, unless a write fails or a resume reads a name about to change.
LEMMA FollowStep ==
    ASSUME IInv, NamesFollow, [Next]_vars
    PROVE  NamesFollow'
<1> USE DEF IInv
<1> USE NoneAssumption, RenameAssumption DEF TypeOK, history, reservations, composer
<1>0. \A o \in Op : op[o] \in Ops
  OBVIOUS
<1>r. \A r \in Run : run[r] \in Runs /\ (run[r].state # "unborn" => run[r] # Unborn)
  BY RunFacts
<1>c. \A i \in DOMAIN chain : chain[i].by \in Op \cup {None} /\ chain[i].uuid \in Uuid
  <2> SUFFICES ASSUME NEW i \in DOMAIN chain PROVE chain[i] \in Mutations
    BY DEF Mutations
  <2> QED OBVIOUS
<1>1. ASSUME NEW o \in Op, NEW r \in Run, NEW u \in Uuid, NewSession(o, r, u)
       PROVE  NamesFollow'
  <2>1. /\ op'[o].kind = "new" /\ op'[o].step = "launching" /\ op'[o].uuid = u
        /\ op'[o].run = r /\ op[o].step = "idle"
        /\ \A p \in Op : p # o => op'[p] = op[p]
    BY <1>1, <1>0 DEF NewSession, Ops, Idle
  <2>2. /\ run[r] = Unborn /\ run[r].state = "unborn"
        /\ run'[r].uuid = u /\ run'[r].state = "starting" /\ run'[r] # Unborn
        /\ \A q \in Run : q # r => run'[q] = run[q]
    <3>1. 0 \in Names
      BY DEF Names
    <3> QED BY <1>1, <3>1, PublishFacts DEF NewSession
  <2> QED BY <1>1, <2>1, <2>2, NamesNew DEF NewSession, Structure
<1>2. ASSUME NEW o \in Op, NEW u \in Uuid, Resume(o, u)
       PROVE  NamesFollow'
  <2>1. /\ op[o].kind = "none" /\ op[o].step = "idle"
        /\ op'[o].kind = "resume" /\ op'[o].uuid = u /\ op'[o].step = "planning"
        /\ op'[o].name = stored[u]
        /\ \A p \in Op : p # o => op'[p] = op[p]
    BY <1>2, BeginFacts DEF Resume, Kinds, Steps, Names
  <2>2. /\ UNCHANGED <<stored, chain, unsaved, run>> /\ misread \subseteq misread'
        /\ u \notin misread' => ~RenamePending(u)
        /\ stored[u] # None /\ u \notin resuming
    BY <1>2 DEF Resume, Pending
  <2>3. u \notin misread' => Unnamed(u)
    <3> SUFFICES ASSUME u \notin misread', NEW i \in DOMAIN chain, Naming(chain[i], u)
                 PROVE  FALSE
      BY DEF Unnamed
    <3>1. chain[i].kind \in {"upsert", "update"} /\ chain[i].uuid = u
      <4>1. chain[i] \in Mutations
        OBVIOUS
      <4> QED BY <2>2, <4>1 DEF Naming, RenamePending, Mutations
    <3>2. chain[i].kind # "upsert"
      BY <2>2, <3>1 DEF Structure, RecordedOnce
    <3>3. /\ chain[i].by \in Op /\ op[chain[i].by].kind = "resume"
          /\ op[chain[i].by].uuid = u /\ op[chain[i].by].step = "saving"
      BY <3>1, <3>2 DEF NamesFollow, UpdatesOfResumes, Structure, WaitedFor
    <3> QED BY <2>2, <3>3 DEF Structure, HoldersReserve, Holder
  <2>4. \A v : /\ Excused(v) => Excused(v)'
               /\ Unnamed(v)' <=> Unnamed(v)
               /\ \A n : SavedAs(v, n)' <=> SavedAs(v, n)
    BY <2>2 DEF Excused, SavedAs, Unnamed
  <2>5. RunsNamed'
    <3> SUFFICES ASSUME NEW r \in Registered, ~Excused(run[r].uuid)'
                 PROVE  SavedAs(run[r].uuid, run[r].name)'
      BY <2>2 DEF RunsNamed, Registered
    <3>1. ~Excused(run[r].uuid)
      BY <2>2 DEF Excused
    <3>2. SavedAs(run[r].uuid, run[r].name)
      BY <3>1 DEF NamesFollow, RunsNamed
    <3> QED BY <2>2, <3>2 DEF SavedAs, Unnamed
  <2>6. ResumesNamed'
    <3> SUFFICES ASSUME NEW p \in Op, Resuming(p)', ~Excused(op[p].uuid)'
                 PROVE  Unnamed(op[p].uuid)' /\ SavedAs(op[p].uuid, op[p].name)'
      BY DEF ResumesNamed
    <3>1. CASE p = o
      <4>1. Unnamed(u)
        BY <2>1, <2>3, <3>1 DEF Excused
      <4> QED BY <2>1, <2>2, <3>1, <4>1 DEF SavedAs, Unnamed
    <3>2. CASE p # o
      <4>1. op'[p] = op[p] /\ Resuming(p) /\ ~Excused(op[p].uuid)
        BY <2>1, <2>2, <3>2 DEF Resuming, Excused
      <4>2. Unnamed(op[p].uuid) /\ SavedAs(op[p].uuid, op[p].name)
        BY <4>1 DEF NamesFollow, ResumesNamed
      <4> QED BY <2>2, <4>1, <4>2 DEF SavedAs, Unnamed
    <3> QED BY <3>1, <3>2
  <2>7. UpdatesOfResumes'
    BY <1>c, <2>1, <2>2 DEF NamesFollow, UpdatesOfResumes, Structure, WaitedFor
  <2> QED BY <2>5, <2>6, <2>7 DEF NamesFollow
<1>3. ASSUME NEW o \in Op, ResumeRefused(o)
       PROVE  NamesFollow'
  <2>0. op[o] # Idle /\ op[o].uuid \in Uuid
    BY <1>3, <1>0, OpFacts DEF ResumeRefused
  <2>1. /\ op'[o].kind = "none" /\ op'[o].step = "idle"
        /\ \A p \in Op : p # o => op'[p] = op[p]
    BY <1>3, FinishFacts DEF ResumeRefused
  <2>4. /\ UNCHANGED <<stored, chain, unsaved, misread>>
        /\ run' = run /\ Registered' = Registered /\ op[o].step # "saving"
    BY <1>3, <2>0, <2>1 DEF ResumeRefused, Registered
  <2>5. \/ op'[o].kind # "resume"
        \/ /\ Resuming(o) /\ Resuming(o)'
           /\ op'[o].uuid = op[o].uuid /\ op'[o].name = op[o].name
    BY <1>3, <2>0, <2>1 DEF ResumeRefused, Resuming, Structure, StepsOfKinds
  <2> QED BY <2>1, <2>4, <2>5, NamesIdle DEF Structure
<1>4. ASSUME NEW o \in Op, ResumePlanned(o)
       PROVE  NamesFollow'
  <2>0. op[o] # Idle /\ op[o].uuid \in Uuid
    BY <1>4, <1>0, OpFacts DEF ResumePlanned
  <2>1. /\ \/ op'[o].kind = "none" /\ op'[o].step = "idle" /\ resuming' = resuming \ {op[o].uuid}
           \/ /\ op'[o].kind = op[o].kind /\ op'[o].uuid = op[o].uuid /\ op'[o].step = "preparing"
              /\ op'[o].name = op[o].name
              /\ resuming' = resuming
              /\ ~Live(op[o].uuid)
        /\ \A p \in Op : p # o => op'[p] = op[p]
    BY <1>4, <2>0, GoToFacts, FinishFacts DEF ResumePlanned, Steps
  <2>4. /\ UNCHANGED <<stored, chain, unsaved, misread>>
        /\ run' = run /\ Registered' = Registered /\ op[o].step # "saving"
    BY <1>4, <2>0, <2>1 DEF ResumePlanned, Registered
  <2>5. \/ op'[o].kind # "resume"
        \/ /\ Resuming(o) /\ Resuming(o)'
           /\ op'[o].uuid = op[o].uuid /\ op'[o].name = op[o].name
    BY <1>4, <2>0, <2>1 DEF ResumePlanned, Resuming, Structure, StepsOfKinds
  <2> QED BY <2>1, <2>4, <2>5, NamesIdle DEF Structure
<1>5. ASSUME NEW o \in Op, NEW r \in Run, ResumeLaunch(o, r)
       PROVE  NamesFollow'
  <2>0. op[o] # Idle /\ op[o].uuid \in Uuid /\ op[o].name \in Names
    BY <1>5, <1>0, OpFacts DEF ResumeLaunch
  <2>1. /\ op'[o].kind = "resume" /\ op'[o].step = "launching" /\ op'[o].uuid = op[o].uuid
        /\ op'[o].run = r
        /\ \A p \in Op : p # o => op'[p] = op[p]
    BY <1>5, <1>0, <2>0 DEF ResumeLaunch, Ops, Idle
  <2>2. /\ run[r] = Unborn /\ run[r].state = "unborn"
        /\ run'[r].uuid = op[o].uuid /\ run'[r].name = op[o].name
        /\ run'[r].state = "starting" /\ run'[r] # Unborn
        /\ \A q \in Run : q # r => run'[q] = run[q]
    <3>1. 0 \in Names
      BY DEF Names
    <3> QED BY <1>5, <2>0, <3>1, PublishFacts DEF ResumeLaunch
  <2>3. UNCHANGED <<stored, chain, unsaved, misread>> /\ Resuming(o)
    BY <1>5 DEF ResumeLaunch, Resuming
  <2>4. RunsNamed'
    <3> SUFFICES ASSUME NEW q \in Registered', ~Excused(run[q].uuid)'
                 PROVE  SavedAs(run[q].uuid, run[q].name)'
      BY DEF RunsNamed
    <3>1. CASE q = r
      <4>1. SavedAs(op[o].uuid, op[o].name)
        BY <2>2, <2>3, <3>1 DEF NamesFollow, ResumesNamed, Excused
      <4> QED BY <2>2, <2>3, <3>1, <4>1 DEF SavedAs, Unnamed
    <3>2. CASE q # r
      <4>1. q \in Registered /\ run'[q] = run[q] /\ ~Excused(run[q].uuid)
        BY <2>2, <2>3, <3>2 DEF Registered, Excused
      <4>2. SavedAs(run[q].uuid, run[q].name)
        BY <4>1 DEF NamesFollow, RunsNamed
      <4> QED BY <2>3, <4>1, <4>2 DEF SavedAs, Unnamed
    <3> QED BY <3>1, <3>2
  <2>5. ResumesNamed'
    <3> SUFFICES ASSUME NEW p \in Op, Resuming(p)', ~Excused(op[p].uuid)'
                 PROVE  Unnamed(op[p].uuid)' /\ SavedAs(op[p].uuid, op[p].name)'
      BY DEF ResumesNamed
    <3>1. op'[p] = op[p] /\ Resuming(p) /\ ~Excused(op[p].uuid)
      BY <2>1, <2>3 DEF Resuming, Excused
    <3>2. Unnamed(op[p].uuid) /\ SavedAs(op[p].uuid, op[p].name)
      BY <3>1 DEF NamesFollow, ResumesNamed
    <3> QED BY <2>3, <3>1, <3>2 DEF SavedAs, Unnamed
  <2>6. UpdatesOfResumes'
    <3>1. \A p \in Op : p # o /\ op[p].kind = "resume" /\ op[p].step = "launching" =>
             op[p].run \in Run /\ op[p].run # r
      BY <2>2 DEF NamesFollow, UpdatesOfResumes, Structure, StepsOfKinds
    <3>2. \A i \in DOMAIN chain : chain[i].kind = "update" => chain[i].by # o
      BY <1>c, <2>3 DEF NamesFollow, UpdatesOfResumes, Structure, WaitedFor, Resuming
    <3> QED BY <1>c, <2>1, <2>2, <2>3, <3>1, <3>2 DEF NamesFollow, UpdatesOfResumes
  <2> QED BY <2>4, <2>5, <2>6 DEF NamesFollow
<1>6. ASSUME NEW o \in Op, NEW u \in Uuid, Restore(o, u)
       PROVE  NamesFollow'
  <2>1. /\ op[o].kind = "none" /\ op[o].step = "idle"
        /\ op'[o].kind = "restore" /\ op'[o].uuid = u /\ op'[o].step = "validating"
        /\ \A p \in Op : p # o => op'[p] = op[p]
    BY <1>6, BeginFacts DEF Restore, Kinds, Steps, Names
  <2>4. /\ UNCHANGED <<stored, chain, unsaved, misread>>
        /\ run' = run /\ Registered' = Registered /\ op[o].step # "saving"
    BY <1>6, <2>1 DEF Restore, Registered
  <2>5. \/ op'[o].kind # "resume"
        \/ /\ Resuming(o) /\ Resuming(o)'
           /\ op'[o].uuid = op[o].uuid /\ op'[o].name = op[o].name
    BY <1>6, <2>1 DEF Restore, Resuming, Structure, StepsOfKinds
  <2> QED BY <2>1, <2>4, <2>5, NamesIdle DEF Structure
<1>7. ASSUME NEW o \in Op, RestoreFailed(o)
       PROVE  NamesFollow'
  <2>0. op[o] # Idle /\ op[o].uuid \in Uuid
    BY <1>7, <1>0, OpFacts DEF RestoreFailed
  <2>1. /\ op'[o].kind = "none" /\ op'[o].step = "idle"
        /\ \A p \in Op : p # o => op'[p] = op[p]
    BY <1>7, FinishFacts DEF RestoreFailed
  <2>4. /\ UNCHANGED <<stored, chain, unsaved, misread>>
        /\ run' = run /\ Registered' = Registered /\ op[o].step # "saving"
    BY <1>7, <2>0, <2>1 DEF RestoreFailed, Registered
  <2>5. \/ op'[o].kind # "resume"
        \/ /\ Resuming(o) /\ Resuming(o)'
           /\ op'[o].uuid = op[o].uuid /\ op'[o].name = op[o].name
    BY <1>7, <2>0, <2>1 DEF RestoreFailed, Resuming, Structure, StepsOfKinds
  <2> QED BY <2>1, <2>4, <2>5, NamesIdle DEF Structure
<1>8. ASSUME NEW o \in Op, RestoreReserved(o)
       PROVE  NamesFollow'
  <2>0. op[o] # Idle /\ op[o].uuid \in Uuid
    BY <1>8, <1>0, OpFacts DEF RestoreReserved
  <2>1. /\ op'[o].kind = op[o].kind /\ op'[o].uuid = op[o].uuid /\ op'[o].step = "planning"
        /\ op'[o].run = op[o].run
        /\ \A p \in Op : p # o => op'[p] = op[p]
    BY <1>8, <2>0, GoToFacts DEF RestoreReserved, Steps
  <2>4. /\ UNCHANGED <<stored, chain, unsaved, misread>>
        /\ run' = run /\ Registered' = Registered /\ op[o].step # "saving"
    BY <1>8, <2>0, <2>1 DEF RestoreReserved, Registered
  <2>5. \/ op'[o].kind # "resume"
        \/ /\ Resuming(o) /\ Resuming(o)'
           /\ op'[o].uuid = op[o].uuid /\ op'[o].name = op[o].name
    BY <1>8, <2>0, <2>1 DEF RestoreReserved, Resuming, Structure, StepsOfKinds
  <2> QED BY <2>1, <2>4, <2>5, NamesIdle DEF Structure
<1>9. ASSUME NEW o \in Op, NEW r \in Run, NEW u \in Uuid, RestoreLaunch(o, r, u)
       PROVE  NamesFollow'
  <2>0. op[o] # Idle /\ op[o].uuid \in Uuid
    BY <1>9, <1>0, OpFacts DEF RestoreLaunch
  <2>1. /\ op'[o].kind = "restore" /\ op'[o].step = "launching" /\ op'[o].uuid = op[o].uuid
        /\ op'[o].run = r
        /\ \A p \in Op : p # o => op'[p] = op[p]
    BY <1>9, <1>0, <2>0 DEF RestoreLaunch, Ops, Idle
  <2>2. /\ run[r] = Unborn /\ run[r].state = "unborn"
        /\ run'[r].uuid = u /\ run'[r].state = "starting" /\ run'[r] # Unborn
        /\ \A q \in Run : q # r => run'[q] = run[q]
    <3>1. 0 \in Names
      BY DEF Names
    <3> QED BY <1>9, <2>0, <3>1, PublishFacts DEF RestoreLaunch
  <2> QED BY <1>9, <2>0, <2>1, <2>2, NamesNew DEF RestoreLaunch, Structure
<1>10. ASSUME NEW o \in Op, RestoreMoved(o)
       PROVE  NamesFollow'
  <2>0. op[o] # Idle /\ op[o].uuid \in Uuid
    BY <1>10, <1>0, OpFacts DEF RestoreMoved
  <2>1. /\ op'[o].kind = "none" /\ op'[o].step = "idle"
        /\ \A p \in Op : p # o => op'[p] = op[p]
    BY <1>10, FinishFacts DEF RestoreMoved
  <2>4. /\ UNCHANGED <<stored, chain, unsaved, misread>>
        /\ run' = run /\ Registered' = Registered /\ op[o].step # "saving"
    BY <1>10, <2>0, <2>1 DEF RestoreMoved, Registered
  <2>5. \/ op'[o].kind # "resume"
        \/ /\ Resuming(o) /\ Resuming(o)'
           /\ op'[o].uuid = op[o].uuid /\ op'[o].name = op[o].name
    BY <1>10, <2>0, <2>1 DEF RestoreMoved, Resuming, Structure, StepsOfKinds
  <2> QED BY <2>1, <2>4, <2>5, NamesIdle DEF Structure
<1>11. ASSUME NEW o \in Op, SessionRuns(o)
       PROVE  NamesFollow'
  <2>0. op[o] # Idle /\ op[o].uuid \in Uuid /\ op[o].run \in Run
        /\ op[o].kind \in {"new", "resume", "restore"}
    BY <1>11, <1>0, OpFacts DEF SessionRuns, Structure, StepsOfKinds
  <2>1. /\ op'[o].kind = op[o].kind /\ op'[o].uuid = op[o].uuid /\ op'[o].step = "saving"
        /\ op[o].step = "launching"
        /\ op'[o].run = op[o].run
        /\ \A p \in Op : p # o => op'[p] = op[p]
    BY <1>11, <2>0, GoToFacts DEF SessionRuns, Steps
  <2>2. /\ run'[op[o].run].uuid = run[op[o].run].uuid
        /\ run'[op[o].run].name = run[op[o].run].name /\ run'[op[o].run].state = "running"
        /\ run[op[o].run] # Unborn /\ run[op[o].run].state = "starting"
        /\ \A q \in Run : q # op[o].run => run'[q] = run[q]
    BY <1>11, <2>0, StateFacts DEF SessionRuns
  <2>3. /\ DOMAIN chain = 1..Len(chain) /\ Len(chain) \in Nat
        /\ DOMAIN chain' = 1..(Len(chain) + 1)
        /\ \A i \in DOMAIN chain : chain'[i] = chain[i]
        /\ \A i \in DOMAIN chain' : i \in DOMAIN chain \/ i = Len(chain) + 1
        /\ chain'[Len(chain) + 1].kind = IF op[o].kind = "resume" THEN "update" ELSE "upsert"
        /\ chain'[Len(chain) + 1].name = run[op[o].run].name
        /\ chain'[Len(chain) + 1].uuid = run[op[o].run].uuid
        /\ chain'[Len(chain) + 1].by = o
    <3> DEFINE kind == IF op[o].kind = "resume" THEN "update" ELSE "upsert"
    <3>1. kind \in {"upsert", "update", "rename", "forget"} /\ kind # "forget"
      OBVIOUS
    <3>2. run[op[o].run].uuid \in Uuid /\ SavedName(o) \in Names
      BY <1>11, <1>r, <2>0, RunFacts DEF SessionRuns, SavedName
    <3>3. Enqueue(kind, run[op[o].run].uuid, SavedName(o), o)
      BY <1>11 DEF SessionRuns
    <3>4. kind = IF op[o].kind = "resume" THEN "update" ELSE "upsert"
      OBVIOUS
    <3>5. SavedName(o) = run[op[o].run].name
      BY DEF SavedName
    <3> HIDE DEF kind
    <3> QED BY <3>1, <3>2, <3>3, <3>4, <3>5, EnqueueFacts
  <2>q. PICK q \in Run : q = op[o].run
    BY <2>0
  <2>4. UNCHANGED <<stored, unsaved, misread>> /\ q \in Registered /\ Registered' = Registered
    BY <1>11, <2>0, <2>2, <2>q DEF SessionRuns, Registered
  <2>5. PICK u \in Uuid : u = run[q].uuid
    BY <1>r, <2>2, <2>q, RunFacts
  <2>n. PICK n \in Names : n = run[q].name
    BY <1>r, <2>2, <2>q, RunFacts
  <2>6. /\ SavedAs(u, n)'
        /\ \A v : v # u => (Unnamed(v) => Unnamed(v)') /\ \A k : SavedAs(v, k) => SavedAs(v, k)'
    <3>1. chain'[Len(chain) + 1].uuid = u /\ chain'[Len(chain) + 1].name = n
      BY <2>3, <2>q, <2>5, <2>n
    <3>2. chain'[Len(chain) + 1].kind # "forget"
      BY <2>3
    <3> QED BY <2>3, <2>4, <3>1, <3>2, NamesQueued
  <2>7. RunsNamed'
    <3> SUFFICES ASSUME NEW r \in Registered, ~Excused(run[r].uuid)'
                 PROVE  SavedAs(run[r].uuid, run[r].name)'
      BY <2>4 DEF RunsNamed
    <3>0. run'[r].uuid = run[r].uuid /\ run'[r].name = run[r].name /\ r \in Run
      BY <2>2, <2>q DEF Registered
    <3>1. CASE r = q
      BY <2>5, <2>n, <2>6, <3>0, <3>1 DEF SavedAs, Unnamed
    <3>2. CASE r # q
      <4>1. run[r].uuid # u /\ ~Excused(run[r].uuid)
        BY <2>4, <2>5, <2>q, <3>0, <3>2 DEF OneLivePerConversation, Excused
      <4>2. SavedAs(run[r].uuid, run[r].name)
        BY <4>1 DEF NamesFollow, RunsNamed
      <4> QED BY <2>6, <3>0, <4>1, <4>2 DEF SavedAs, Unnamed
    <3> QED BY <3>1, <3>2
  <2>8. ResumesNamed'
    <3> SUFFICES ASSUME NEW p \in Op, Resuming(p)', ~Excused(op[p].uuid)'
                 PROVE  Unnamed(op[p].uuid)' /\ SavedAs(op[p].uuid, op[p].name)'
      BY DEF ResumesNamed
    <3>1. op'[p] = op[p] /\ Resuming(p) /\ ~Excused(op[p].uuid)
      BY <2>1, <2>4 DEF Resuming, Excused
    <3>2. op[p].uuid # u
      BY <2>4, <2>5, <2>q, <3>1 DEF ExclusiveUse, Live, Resuming
    <3>3. Unnamed(op[p].uuid) /\ SavedAs(op[p].uuid, op[p].name)
      BY <3>1 DEF NamesFollow, ResumesNamed
    <3> QED BY <2>6, <3>1, <3>2, <3>3 DEF SavedAs, Unnamed
  <2>9. UpdatesOfResumes'
    <3>1. ASSUME NEW p \in Op, op'[p].kind = "resume", op'[p].step = "launching"
          PROVE  run'[op'[p].run] # Unborn /\ run'[op'[p].run].uuid = op'[p].uuid
      <4>1. op'[p] = op[p] /\ op[p].run \in Run
        BY <2>1, <3>1 DEF Structure, StepsOfKinds
      <4>2. run[op[p].run] # Unborn /\ run[op[p].run].uuid = op[p].uuid
        BY <3>1, <4>1 DEF NamesFollow, UpdatesOfResumes
      <4>3. run'[q].state = "running"
        BY <2>2, <2>q
      <4> QED BY <2>2, <2>q, <4>1, <4>2, <4>3 DEF Unborn
    <3>2. ASSUME NEW i \in DOMAIN chain', chain'[i].kind = "update"
          PROVE  /\ chain'[i].by \in Op
                 /\ op'[chain'[i].by].kind = "resume"
                 /\ op'[chain'[i].by].uuid = chain'[i].uuid
      <4>1. CASE i = Len(chain) + 1
        <5>1. op[o].kind = "resume" /\ chain'[i].by = o /\ chain'[i].uuid = u
          BY <2>3, <2>5, <2>q, <3>2, <4>1
        <5>2. u = op[o].uuid
          BY <2>1, <2>5, <2>q, <5>1 DEF NamesFollow, UpdatesOfResumes
        <5> QED BY <2>1, <5>1, <5>2
      <4>2. CASE i \in DOMAIN chain
        <5>1. /\ chain'[i] = chain[i] /\ chain[i].by \in Op
              /\ op[chain[i].by].kind = "resume" /\ op[chain[i].by].uuid = chain[i].uuid
          BY <2>3, <3>2, <4>2 DEF NamesFollow, UpdatesOfResumes
        <5> QED BY <2>1, <5>1
      <4> QED BY <2>3, <4>1, <4>2
    <3> QED BY <3>1, <3>2 DEF UpdatesOfResumes
  <2> QED BY <2>7, <2>8, <2>9 DEF NamesFollow
<1>12. ASSUME NEW o \in Op, LaunchReturned(o)
       PROVE  NamesFollow'
  <2>0. op[o] # Idle /\ op[o].uuid \in Uuid /\ op[o].kind \in {"new", "resume", "restore"}
    BY <1>12, <1>0, OpFacts DEF LaunchReturned, Structure, StepsOfKinds
  <2>1. Released(o)
    BY <1>12, <2>0, ReleasedFacts DEF LaunchReturned
  <2>4. /\ UNCHANGED <<stored, chain, unsaved, misread>>
        /\ run' = run /\ Registered' = Registered /\ op[o].step # "saving"
    BY <1>12, <2>0, <2>1 DEF LaunchReturned, Registered
  <2>5. \/ op'[o].kind # "resume"
        \/ /\ Resuming(o) /\ Resuming(o)'
           /\ op'[o].uuid = op[o].uuid /\ op'[o].name = op[o].name
    BY <1>12, <2>0, <2>1 DEF LaunchReturned, Released, Resuming, Structure, StepsOfKinds
  <2> QED BY <2>1, <2>4, <2>5, NamesIdle DEF Released, Structure
<1>13. ASSUME NEW r \in Run, SessionCloses(r)
       PROVE  NamesFollow'
  <2>2. /\ run'[r].uuid = run[r].uuid /\ run'[r].name = run[r].name
         /\ run'[r].state = "closing"
        /\ run[r] # Unborn
        /\ \A q \in Run : q # r => run'[q] = run[q]
    BY <1>13, StateFacts DEF SessionCloses, Registered
  <2>3. UNCHANGED <<stored, chain, unsaved, misread, op>>
    BY <1>13 DEF SessionCloses
  <2>4. Registered' \subseteq Registered
    BY <1>13, <2>2 DEF SessionCloses, Registered
  <2>5. \A q \in Run : run[q] # Unborn =>
           run'[q] # Unborn /\ run'[q].uuid = run[q].uuid /\ run'[q].name = run[q].name
    BY <1>13, <1>r, <2>2 DEF SessionCloses, Unborn
  <2> QED BY <2>3, <2>4, <2>5, NamesIdle DEF Structure
<1>14. ASSUME NEW r \in Run, SessionEnds(r)
       PROVE  NamesFollow'
  <2>2. /\ run'[r].uuid = run[r].uuid /\ run'[r].name = run[r].name
         /\ run'[r].state = "gone"
        /\ run[r] # Unborn
        /\ \A q \in Run : q # r => run'[q] = run[q]
    BY <1>14, StateFacts DEF SessionEnds, Registered
  <2>3. UNCHANGED <<stored, chain, unsaved, misread, op>>
    BY <1>14 DEF SessionEnds
  <2>4. Registered' \subseteq Registered
    BY <1>14, <2>2 DEF SessionEnds, Registered
  <2>5. \A q \in Run : run[q] # Unborn =>
           run'[q] # Unborn /\ run'[q].uuid = run[q].uuid /\ run'[q].name = run[q].name
    BY <1>14, <1>r, <2>2 DEF SessionEnds, Unborn
  <2> QED BY <2>3, <2>4, <2>5, NamesIdle DEF Structure
<1>15. ASSUME NEW r \in Run, Rename(r)
       PROVE  NamesFollow'
  <2>1. renames' \in Names /\ run[r].state # "unborn" /\ run[r].uuid \in Uuid
    BY <1>15, <1>r, RunFacts DEF Rename, Registered, Names
  <2>2. /\ run'[r].uuid = run[r].uuid /\ run'[r].name = renames'
        /\ run'[r].state = run[r].state
        /\ run[r] # Unborn
        /\ \A q \in Run : q # r => run'[q] = run[q]
    BY <1>15, <1>r, <2>1 DEF Rename, Runs, Unborn
  <2>3. /\ DOMAIN chain = 1..Len(chain) /\ Len(chain) \in Nat
        /\ DOMAIN chain' = 1..(Len(chain) + 1)
        /\ \A i \in DOMAIN chain : chain'[i] = chain[i]
        /\ \A i \in DOMAIN chain' : i \in DOMAIN chain \/ i = Len(chain) + 1
        /\ chain'[Len(chain) + 1].kind = "rename" /\ chain'[Len(chain) + 1].uuid = run[r].uuid
        /\ chain'[Len(chain) + 1].by = None /\ chain'[Len(chain) + 1].name = renames'
    BY <1>15, <2>1, EnqueueFacts DEF Rename
  <2>u. PICK u \in Uuid : u = run[r].uuid
    BY <2>1
  <2>n. PICK n \in Names : n = renames'
    BY <2>1
  <2>4. /\ UNCHANGED <<stored, unsaved, misread, op>> /\ r \in Registered
        /\ Registered' = Registered
    BY <1>15, <2>2 DEF Rename, Registered
  <2>6. /\ SavedAs(u, n)'
        /\ \A v : v # u => (Unnamed(v) => Unnamed(v)') /\ \A k : SavedAs(v, k) => SavedAs(v, k)'
    <3>1. chain'[Len(chain) + 1].uuid = u /\ chain'[Len(chain) + 1].name = n
      BY <2>3, <2>u, <2>n
    <3> QED BY <2>3, <2>4, <3>1, NamesQueued
  <2>7. RunsNamed'
    <3> SUFFICES ASSUME NEW q \in Registered, ~Excused(run[q].uuid)'
                 PROVE  SavedAs(run[q].uuid, run[q].name)'
      BY <2>4 DEF RunsNamed
    <3>1. CASE q = r
      BY <2>2, <2>u, <2>n, <2>6, <3>1 DEF SavedAs, Unnamed
    <3>2. CASE q # r
      <4>0. run'[q] = run[q] /\ q \in Run
        BY <2>2, <3>2 DEF Registered
      <4>1. run[q].uuid # u /\ ~Excused(run[q].uuid)
        BY <2>4, <2>u, <3>2, <4>0 DEF OneLivePerConversation, Excused
      <4>2. SavedAs(run[q].uuid, run[q].name)
        BY <4>1 DEF NamesFollow, RunsNamed
      <4>3. PICK v, k : v = run[q].uuid /\ k = run[q].name
        OBVIOUS
      <4>4. SavedAs(v, k)'
        BY <2>6, <4>1, <4>2, <4>3
      <4> QED BY <4>0, <4>3, <4>4 DEF SavedAs, Unnamed
    <3> QED BY <3>1, <3>2
  <2>8. ResumesNamed'
    <3> SUFFICES ASSUME NEW p \in Op, Resuming(p)', ~Excused(op[p].uuid)'
                 PROVE  Unnamed(op[p].uuid)' /\ SavedAs(op[p].uuid, op[p].name)'
      BY DEF ResumesNamed
    <3>1. op'[p] = op[p] /\ Resuming(p) /\ ~Excused(op[p].uuid)
      BY <2>4 DEF Resuming, Excused
    <3>2. op[p].uuid # u
      BY <2>4, <2>u, <3>1 DEF ExclusiveUse, Live, Resuming
    <3>3. Unnamed(op[p].uuid) /\ SavedAs(op[p].uuid, op[p].name)
      BY <3>1 DEF NamesFollow, ResumesNamed
    <3> QED BY <2>6, <3>1, <3>2, <3>3 DEF SavedAs, Unnamed
  <2>9. UpdatesOfResumes'
    <3>1. ASSUME NEW q \in Run, run[q] # Unborn
          PROVE  run'[q] # Unborn /\ run'[q].uuid = run[q].uuid
      BY <1>r, <2>1, <2>2, <3>1 DEF Unborn
    <3>2. \A i \in DOMAIN chain' : chain'[i].kind = "update" =>
             i \in DOMAIN chain /\ chain'[i] = chain[i]
      BY <2>3
    <3> QED BY <2>4, <3>1, <3>2 DEF NamesFollow, UpdatesOfResumes, Structure, StepsOfKinds
  <2> QED BY <2>7, <2>8, <2>9 DEF NamesFollow
<1>16. ASSUME NEW o \in Op, NEW u \in Uuid, Forget(o, u)
       PROVE  NamesFollow'
  <2>1. /\ op[o].kind = "none" /\ op[o].step = "idle"
        /\ op'[o].kind = "forget" /\ op'[o].uuid = u /\ op'[o].step = "deleting"
        /\ \A p \in Op : p # o => op'[p] = op[p]
    BY <1>16, BeginFacts DEF Forget, Kinds, Steps, Names
  <2>3. /\ DOMAIN chain = 1..Len(chain) /\ Len(chain) \in Nat
        /\ DOMAIN chain' = 1..(Len(chain) + 1)
        /\ \A i \in DOMAIN chain : chain'[i] = chain[i]
        /\ \A i \in DOMAIN chain' : i \in DOMAIN chain \/ i = Len(chain) + 1
        /\ chain'[Len(chain) + 1].kind = "forget" /\ chain'[Len(chain) + 1].uuid = u
        /\ chain'[Len(chain) + 1].by = o
    <3>1. 0 \in Names
      BY DEF Names
    <3>2. Enqueue("forget", u, 0, o)
      BY <1>16 DEF Forget
    <3> QED BY <3>1, <3>2, EnqueueFacts
  <2>4. UNCHANGED <<stored, unsaved, misread, run>> /\ Registered' = Registered
    BY <1>16 DEF Forget, Registered
  <2>5. \A v \in Uuid :
           /\ Excused(v)' <=> Excused(v)
           /\ Unnamed(v) => Unnamed(v)'
           /\ \A n \in Names : SavedAs(v, n) => SavedAs(v, n)'
    BY <2>3, <2>4, NamesQueued DEF Excused
  <2>6. ASSUME NEW i \in DOMAIN chain', chain'[i].kind = "update"
        PROVE  /\ i \in DOMAIN chain /\ chain'[i] = chain[i]
               /\ op'[chain[i].by] = op[chain[i].by]
    <3>1. i \in DOMAIN chain /\ chain'[i] = chain[i]
      BY <2>3, <2>6
    <3>2. chain[i].by \in Op /\ chain[i].by # o
      BY <1>c, <2>1, <2>6, <3>1 DEF NamesFollow, UpdatesOfResumes
    <3> QED BY <2>1, <3>1, <3>2
  <2>7. \A p \in Op : op'[p] = op[p] \/ op'[p].kind # "resume"
    BY <2>1
  <2> HIDE DEF Excused, Unnamed, SavedAs, Resuming
  <2> QED BY <2>4, <2>5, <2>6, <2>7, NamesKept DEF Structure
<1>17. ASSUME NEW o \in Op, NEW u \in Uuid, Discard(o, u)
       PROVE  NamesFollow'
  <2>1. /\ op[o].kind = "none" /\ op[o].step = "idle"
        /\ op'[o].kind = "discard" /\ op'[o].uuid = u /\ op'[o].step = "erasing"
        /\ \A p \in Op : p # o => op'[p] = op[p]
    BY <1>17, BeginFacts DEF Discard, Kinds, Steps, Names
  <2>4. /\ UNCHANGED <<stored, chain, unsaved, misread>>
        /\ run' = run /\ Registered' = Registered /\ op[o].step # "saving"
    BY <1>17, <2>1 DEF Discard, Registered
  <2>5. \/ op'[o].kind # "resume"
        \/ /\ Resuming(o) /\ Resuming(o)'
           /\ op'[o].uuid = op[o].uuid /\ op'[o].name = op[o].name
    BY <1>17, <2>1 DEF Discard, Resuming, Structure, StepsOfKinds
  <2> QED BY <2>1, <2>4, <2>5, NamesIdle DEF Structure
<1>18. ASSUME NEW o \in Op, NEW u \in Uuid, TakeOffer(o, u)
       PROVE  NamesFollow'
  <2>1. /\ op[o].kind = "none" /\ op[o].step = "idle"
        /\ op'[o].kind = "offered" /\ op'[o].uuid = u /\ op'[o].step = "deleting"
        /\ \A p \in Op : p # o => op'[p] = op[p]
    BY <1>18, BeginFacts DEF TakeOffer, Kinds, Steps, Names
  <2>3. /\ DOMAIN chain = 1..Len(chain) /\ Len(chain) \in Nat
        /\ DOMAIN chain' = 1..(Len(chain) + 1)
        /\ \A i \in DOMAIN chain : chain'[i] = chain[i]
        /\ \A i \in DOMAIN chain' : i \in DOMAIN chain \/ i = Len(chain) + 1
        /\ chain'[Len(chain) + 1].kind = "forget" /\ chain'[Len(chain) + 1].uuid = u
        /\ chain'[Len(chain) + 1].by = o
    <3>1. 0 \in Names
      BY DEF Names
    <3>2. Enqueue("forget", u, 0, o)
      BY <1>18 DEF TakeOffer
    <3> QED BY <3>1, <3>2, EnqueueFacts
  <2>4. UNCHANGED <<stored, unsaved, misread, run>> /\ Registered' = Registered
    BY <1>18 DEF TakeOffer, Registered
  <2>5. \A v \in Uuid :
           /\ Excused(v)' <=> Excused(v)
           /\ Unnamed(v) => Unnamed(v)'
           /\ \A n \in Names : SavedAs(v, n) => SavedAs(v, n)'
    BY <2>3, <2>4, NamesQueued DEF Excused
  <2>6. ASSUME NEW i \in DOMAIN chain', chain'[i].kind = "update"
        PROVE  /\ i \in DOMAIN chain /\ chain'[i] = chain[i]
               /\ op'[chain[i].by] = op[chain[i].by]
    <3>1. i \in DOMAIN chain /\ chain'[i] = chain[i]
      BY <2>3, <2>6
    <3>2. chain[i].by \in Op /\ chain[i].by # o
      BY <1>c, <2>1, <2>6, <3>1 DEF NamesFollow, UpdatesOfResumes
    <3> QED BY <2>1, <3>1, <3>2
  <2>7. \A p \in Op : op'[p] = op[p] \/ op'[p].kind # "resume"
    BY <2>1
  <2> HIDE DEF Excused, Unnamed, SavedAs, Resuming
  <2> QED BY <2>4, <2>5, <2>6, <2>7, NamesKept DEF Structure
<1>19. ASSUME NEW u \in Uuid, DismissOffer(u)
       PROVE  NamesFollow'
  <2>1. /\ UNCHANGED <<stored, chain, unsaved, misread, op>>
        /\ run' = run /\ Registered' = Registered
    BY <1>19 DEF DismissOffer, Registered
  <2> QED BY <2>1, NamesIdle DEF Structure
<1>20. ASSUME NEW o \in Op, Erased(o)
       PROVE  NamesFollow'
  <2>0. op[o] # Idle /\ op[o].uuid \in Uuid
    BY <1>20, <1>0, OpFacts DEF Erased
  <2>1. /\ \/ op'[o].kind = "none" /\ op'[o].step = "idle"
           \/ /\ op'[o].kind = op[o].kind /\ op'[o].uuid = op[o].uuid /\ op'[o].step = "asking"
              /\ op[o].kind = "forget" /\ forgetting' = forgetting
        /\ op[o].kind # "forget" => forgetting' = forgetting
        /\ forgetting \ {op[o].uuid} \subseteq forgetting'
        /\ \A p \in Op : p # o => op'[p] = op[p]
    BY <1>20, <2>0, GoToFacts, FinishFacts DEF Erased, Steps
  <2>4. /\ UNCHANGED <<stored, chain, unsaved, misread>>
        /\ run' = run /\ Registered' = Registered /\ op[o].step # "saving"
    BY <1>20, <2>0, <2>1 DEF Erased, Registered
  <2>5. \/ op'[o].kind # "resume"
        \/ /\ Resuming(o) /\ Resuming(o)'
           /\ op'[o].uuid = op[o].uuid /\ op'[o].name = op[o].name
    BY <1>20, <2>0, <2>1 DEF Erased, Resuming, Structure, StepsOfKinds
  <2> QED BY <2>1, <2>4, <2>5, NamesIdle DEF Structure
<1>21. ASSUME NEW o \in Op, Answered(o)
       PROVE  NamesFollow'
  <2>0. op[o] # Idle /\ op[o].uuid \in Uuid
    BY <1>21, <1>0, OpFacts DEF Answered
  <2>1. /\ op'[o].kind = "none" /\ op'[o].step = "idle"
        /\ \A p \in Op : p # o => op'[p] = op[p]
    BY <1>21, FinishFacts DEF Answered
  <2>4. /\ UNCHANGED <<stored, chain, unsaved, misread>>
        /\ run' = run /\ Registered' = Registered /\ op[o].step # "saving"
    BY <1>21, <2>0, <2>1 DEF Answered, Registered
  <2>5. \/ op'[o].kind # "resume"
        \/ /\ Resuming(o) /\ Resuming(o)'
           /\ op'[o].uuid = op[o].uuid /\ op'[o].name = op[o].name
    BY <1>21, <2>0, <2>1 DEF Answered, Resuming, Structure, StepsOfKinds
  <2> QED BY <2>1, <2>4, <2>5, NamesIdle DEF Structure
<1>22. ASSUME NEW ok \in BOOLEAN, StoreStep(ok)
       PROVE  NamesFollow'
  <2> DEFINE m == Head(chain)
  <2>1. /\ m \in Mutations /\ m = chain[1] /\ 1 \in DOMAIN chain
        /\ DOMAIN chain = 1..Len(chain) /\ Len(chain) \in Nat
        /\ DOMAIN chain' = 1..(Len(chain) - 1)
        /\ \A i \in DOMAIN chain' : chain'[i] = chain[i + 1]
    BY <1>22 DEF StoreStep
  <2>2. /\ run' = run /\ minted' = minted /\ forgetting' = forgetting
        /\ \A u \in Uuid : stored'[u] # None =>
              stored[u] # None \/ (m.kind # "forget" /\ m.uuid = u)
    BY <1>22, <2>1 DEF StoreStep, Mutations
  <2>m. m.by # None => m.by \in Op /\ op[m.by] # Idle /\ op[m.by].uuid \in Uuid
    <3> SUFFICES ASSUME m.by # None PROVE op[m.by] # Idle /\ op[m.by].uuid \in Uuid
      BY <2>1 DEF Mutations
    <3>1. m.by \in Op /\ op[m.by].step # "idle"
      BY <2>1 DEF Structure, WaitedFor, Mutations
    <3> QED BY <1>0, <3>1, OpFacts
  <2>3. \/ op' = op /\ resuming' = resuming /\ m.by = None
        \/ /\ m.by \in Op /\ Forgotten(m.by)
           /\ op[m.by].kind \in {"forget", "offered"} /\ op[m.by].step = "deleting"
        \/ /\ m.by \in Op /\ Released(m.by)
           /\ op[m.by].kind \in {"new", "resume", "restore"} /\ op[m.by].step = "saving"
    <3>1. CASE m.by = None
      BY <1>22, <3>1 DEF StoreStep
    <3>2. CASE m.by # None /\ m.kind = "forget"
      <4>1. op[m.by].kind \in {"forget", "offered"} /\ op[m.by].step = "deleting"
        BY <2>1, <3>2 DEF Structure, WaitedFor
      <4>2. Deleted(m.by, ok)
        BY <1>22, <3>2 DEF StoreStep
      <4>3. Forgotten(m.by)
        BY <2>m, <3>2, <4>2, GoToFacts, FinishFacts DEF Deleted, Forgotten, Steps
      <4> QED BY <2>m, <3>2, <4>1, <4>3
    <3>3. CASE m.by # None /\ m.kind # "forget"
      <4>1. op[m.by].step = "saving"
        BY <2>1, <3>3 DEF Structure, WaitedFor
      <4>2. op[m.by].kind \in {"new", "resume", "restore"}
        BY <2>m, <3>3, <4>1 DEF Structure, StepsOfKinds
      <4>3. Launched(m.by)
        BY <1>22, <2>1, <3>3 DEF StoreStep
      <4>4. Released(m.by)
        BY <2>m, <3>3, <4>2, <4>3, ReleasedFacts
      <4> QED BY <2>m, <3>3, <4>1, <4>2, <4>4
    <3> QED BY <3>1, <3>2, <3>3
  <2>4. /\ unsaved' = (IF ok THEN unsaved ELSE unsaved \cup {m.uuid}) /\ misread' = misread
        /\ Registered' = Registered
        /\ \A u \in Uuid : u # m.uuid => stored'[u] = stored[u]
        /\ ok /\ m.kind = "forget" => stored'[m.uuid] \in {None, stored[m.uuid]}
        /\ ok /\ m.kind # "forget" => stored'[m.uuid] \in {None, m.name}
    <3>1. m.uuid \in Uuid /\ m.kind \in {"upsert", "update", "rename", "forget"}
      BY <2>1 DEF Mutations
    <3> HIDE DEF m
    <3>2. stored' = IF ok /\ ~Moot(m)
                    THEN [stored EXCEPT ![m.uuid] = IF m.kind = "forget" THEN None ELSE m.name]
                    ELSE stored
      BY <1>22 DEF StoreStep, m
    <3>3. ok /\ m.kind # "forget" /\ Moot(m) => stored[m.uuid] \in {None, m.name}
      BY <3>1 DEF Moot
    <3> QED BY <1>22, <2>1, <2>2, <3>1, <3>2, <3>3 DEF StoreStep, Registered, m
  <2> HIDE DEF m
  <2>5. \A i \in DOMAIN chain' : i + 1 \in DOMAIN chain /\ i + 1 # 1 /\ chain'[i] = chain[i + 1]
    BY <2>1
  <2>6. \A i \in DOMAIN chain : i = 1 \/ (i - 1 \in DOMAIN chain' /\ chain'[i - 1] = chain[i])
    BY <2>1
  <2>7. ASSUME NEW u \in Uuid, ~Excused(u)'
        PROVE  /\ ~Excused(u)
               /\ Unnamed(u) => Unnamed(u)'
               /\ \A n \in Names : SavedAs(u, n) => SavedAs(u, n)'
    <3>1. ~Excused(u) /\ (u = m.uuid => ok)
      BY <2>4, <2>7 DEF Excused
    <3>2. Unnamed(u) => Unnamed(u)'
      BY <2>5 DEF Unnamed
    <3>3. ASSUME NEW n \in Names, SavedAs(u, n)
          PROVE  SavedAs(u, n)'
      <4>1. ASSUME NEW i \in DOMAIN chain', Naming(chain'[i], u),
                   \A j \in DOMAIN chain' : j > i => ~Naming(chain'[j], u)
            PROVE  chain'[i].name = n
        <5>1. \A j \in DOMAIN chain : j > i + 1 => ~Naming(chain[j], u)
          <6> SUFFICES ASSUME NEW j \in DOMAIN chain, j > i + 1
                       PROVE  ~Naming(chain[j], u)
            OBVIOUS
          <6>1. j - 1 \in DOMAIN chain' /\ j - 1 > i /\ chain'[j - 1] = chain[j]
            BY <2>1, <2>6
          <6> QED BY <4>1, <6>1
        <5> QED BY <2>5, <3>3, <4>1, <5>1 DEF SavedAs
      <4>2. ASSUME Unnamed(u)'
            PROVE  stored'[u] \in {None, n}
        <5>1. \A j \in DOMAIN chain : j # 1 => ~Naming(chain[j], u)
          BY <2>6, <4>2 DEF Unnamed
        <5>2. CASE Naming(m, u)
          <6>1. m.name = n
            BY <2>1, <3>3, <5>1, <5>2 DEF SavedAs
          <6> QED BY <2>4, <3>1, <5>2, <6>1 DEF Naming
        <5>3. CASE ~Naming(m, u)
          <6>1. stored[u] \in {None, n}
            BY <2>1, <3>3, <5>1, <5>3 DEF SavedAs, Unnamed
          <6> QED BY <2>4, <3>1, <5>3, <6>1 DEF Naming
        <5> QED BY <5>2, <5>3
      <4> QED BY <4>1, <4>2 DEF SavedAs
    <3> QED BY <3>1, <3>2, <3>3
  <2>8. ASSUME NEW i \in DOMAIN chain', chain'[i].kind = "update"
        PROVE  \E j \in DOMAIN chain :
                  chain'[i] = chain[j] /\ op'[chain[j].by] = op[chain[j].by]
    <3>1. i + 1 \in DOMAIN chain /\ i + 1 # 1 /\ chain'[i] = chain[i + 1]
      BY <2>5
    <3>2. chain[i + 1].by \in Op
      BY <2>8, <3>1 DEF NamesFollow, UpdatesOfResumes
    <3>3. chain[i + 1].by # m.by
      BY <2>1, <3>1, <3>2 DEF Structure, WaitedFor
    <3>4. op'[chain[i + 1].by] = op[chain[i + 1].by]
      BY <2>3, <3>2, <3>3 DEF Released, Forgotten
    <3> QED BY <3>1, <3>4
  <2>9. \A p \in Op : op'[p] = op[p] \/ op'[p].kind # "resume"
    BY <2>3 DEF Released, Forgotten
  <2> HIDE DEF Excused, Unnamed, SavedAs, Resuming
  <2> QED BY <2>2, <2>4, <2>7, <2>8, <2>9, NamesKept DEF Structure
<1>23. CASE Reload
  <2>1. Registered' = {}
    <3> SUFFICES ASSUME NEW r \in Run
                 PROVE  run'[r].state \notin {"starting", "running", "closing"}
      BY DEF Registered
    <3>1. run'[r] = IF run[r].state \in {"starting", "running", "closing"}
                    THEN [run[r] EXCEPT !.state = "gone"] ELSE run[r]
      BY <1>23 DEF Reload, Registered
    <3> QED BY <1>r, <3>1 DEF Runs, Unborn
  <2>2. \A o \in Op : op'[o].kind = "none"
    BY <1>23 DEF Reload, Idle
  <2>3. DOMAIN chain' = {}
    BY <1>23 DEF Reload
  <2> QED BY <2>1, <2>2, <2>3 DEF NamesFollow, RunsNamed, ResumesNamed, UpdatesOfResumes, Resuming
<1>24. CASE UNCHANGED vars
  <2>1. /\ UNCHANGED <<stored, chain, unsaved, misread, op>>
        /\ run' = run /\ Registered' = Registered
    BY <1>24 DEF vars, Registered
  <2> QED BY <2>1, NamesIdle DEF Structure
<1> QED
  BY <1>1, <1>2, <1>3, <1>4, <1>5, <1>6, <1>7, <1>8, <1>9, <1>10, <1>11, <1>12, <1>13, <1>14,
     <1>15, <1>16, <1>17, <1>18, <1>19, <1>20, <1>21, <1>22, <1>23, <1>24
     DEF Next, UserStep, PlanStep, LaunchStep

----------------------------------------------------------------------------
(* The theorems *)

\* A window that has just opened satisfies the invariant: nothing runs.
LEMMA InitIInv == Init => IInv
<1> SUFFICES ASSUME Init PROVE IInv
  OBVIOUS
<1>1. /\ \A o \in Op : op[o] = Idle
      /\ \A r \in Run : run[r] = Unborn
      /\ chain = <<>> /\ DOMAIN chain = {} /\ dropped = {}
  BY DEF Init
<1>2. Registered = {}
  BY <1>1 DEF Registered, Unborn
<1>3. TypeOK
  <2>1. stored \in [Uuid -> Names \cup {None}]
    BY RenameAssumption DEF Init, Names
  <2>2. renames \in Names
    BY RenameAssumption DEF Init, Names
  <2>3. op \in [Op -> Ops] /\ run \in [Run -> Runs] /\ chain \in Seq(Mutations)
    BY DEF Init, Ops, Runs
  <2> QED BY <2>1, <2>2, <2>3 DEF Init, TypeOK
<1>4. Structure
  BY <1>1 DEF Init, Structure, MintedFirst, StepsOfKinds, HoldersReserve, WaitedFor, RecordedOnce,
              Holder, Unrecorded, Idle
<1>5. OneLivePerConversation /\ ExclusiveUse /\ ForgottenStaysForgotten
  BY <1>1, <1>2 DEF OneLivePerConversation, ExclusiveUse, ForgottenStaysForgotten, Live
<1> QED BY <1>3, <1>4, <1>5 DEF IInv

\* So are the reservations, of which there are none, and the names.
LEMMA InitHeld == Init => KeptOff /\ WritesQueued /\ NamesFollow
<1> SUFFICES ASSUME Init PROVE KeptOff /\ WritesQueued /\ NamesFollow
  OBVIOUS
<1>1. /\ \A o \in Op : op[o] = Idle
      /\ \A r \in Run : run[r] = Unborn
      /\ DOMAIN chain = {}
      /\ resuming = {} /\ forgetting = {} /\ restoring = {} /\ erasing = {}
  BY DEF Init
<1>2. KeptOff /\ WritesQueued
  BY <1>1 DEF KeptOff, WritesQueued, Idle
<1>3. NamesFollow
  BY <1>1 DEF NamesFollow, RunsNamed, ResumesNamed, UpdatesOfResumes, Resuming, Registered,
              Unborn, Idle
<1> QED BY <1>2, <1>3

\* The invariant holds in every reachable state: what the operations have
\* reserved, what they wait for, and the names that are on their way.
THEOREM Invariance == Spec => [](IInv /\ KeptOff /\ WritesQueued /\ NamesFollow)
<1> DEFINE All == IInv /\ KeptOff /\ WritesQueued /\ NamesFollow
<1>1. Init => All
  BY InitIInv, InitHeld
<1>2. All /\ [Next]_vars => All'
  <2> SUFFICES ASSUME All, [Next]_vars PROVE All'
    OBVIOUS
  <2>1. TypeOK'
    BY TypeStep DEF IInv
  <2>2. IInv'
    BY <2>1, HoldStep DEF IInv
  <2>3. KeptOff' /\ WritesQueued' /\ NamesFollow'
    BY HeldStep, FollowStep
  <2> QED BY <2>2, <2>3
<1> QED BY <1>1, <1>2, PTL DEF Spec

\* Type correctness of launch control, for any number of conversations,
\* operations and sessions.
THEOREM TypeCorrect == Spec => []TypeOK
<1>1. IInv => TypeOK
  BY DEF IInv
<1> QED BY <1>1, Invariance, PTL

\* Two Claude processes never run on one conversation, however resumes,
\* restores, closes, forgets and reloads overlap (resumeSession,
\* launchDraftRestore: "Reserve before any asynchronous boundary").
THEOREM NeverTwiceLive == Spec => []OneLivePerConversation
<1>1. IInv => OneLivePerConversation
  BY DEF IInv
<1> QED BY <1>1, Invariance, PTL

\* What an operation found not live before it waited is not live when it acts
\* (pendingResumes and pendingForgets).
THEOREM ReservationsExclude == Spec => []ExclusiveUse
<1>1. IInv => ExclusiveUse
  BY DEF IInv
<1> QED BY <1>1, Invariance, PTL

\* Metadata that was forgotten is never written again, whatever was queued
\* behind its deletion (ResumableSessionStore.updateExisting, rename).
THEOREM ForgettingIsFinal == Spec => []ForgottenStaysForgotten
<1>1. IInv => ForgottenStaysForgotten
  BY DEF IInv
<1> QED BY <1>1, Invariance, PTL

\* No path through resume, restore and forget leaks a reservation, and whoever
\* waits for a write has it in the chain (the finally blocks of resumeSession,
\* launchDraftRestore, forgetSession and ComposerRuntime).
THEOREM NoReservationLeaked == Spec => []ReservationHeld
<1>1. KeptOff /\ WritesQueued => ReservationHeld
  BY HeldParts
<1> QED BY <1>1, Invariance, PTL

\* When no write failed, a running conversation is stored under the name its
\* tab shows as soon as the chain has drained, however its launch, its record
\* and its renames overlap (renameSession, recordLaunch).
THEOREM TabAndStoreAgree == Spec => []NamesAgree
<1>1. NamesFollow => NamesAgree
  <2> SUFFICES ASSUME NamesFollow, chain = <<>>, NEW r \in Registered,
                      run[r].uuid \notin unsaved \cup misread
               PROVE  stored[run[r].uuid] \in {None, run[r].name}
    BY DEF NamesAgree
  <2>1. SavedAs(run[r].uuid, run[r].name)
    BY DEF NamesFollow, RunsNamed, Excused
  <2> QED BY <2>1 DEF SavedAs, Unnamed
<1> QED BY <1>1, Invariance, PTL
=============================================================================
