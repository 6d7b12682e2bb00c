---------------------------- MODULE LaunchPlanner ----------------------------
(***************************************************************************)
(* Where a session starts and which folders it is given (launchPlanner.ts, *)
(* called by LaunchController.plan): the launch waits for the workspace's  *)
(* configuration, looks at a bounded number of folders at a time whether   *)
(* they answer, and plans with those that did. The configuration may be    *)
(* edited, the folders may change and the window may be reloaded           *)
(* meanwhile.                                                              *)
(***************************************************************************)
EXTENDS WorkspaceSetup

CONSTANTS
    MaxConcurrency,  \* folders looked at together (4)
    MaxOutstanding   \* probes that may be unanswered, those given up included (8)

ASSUME PlannerAssumption ==
    /\ {MaxConcurrency, MaxOutstanding} \subseteq Nat \ {0} /\ MaxConcurrency <= MaxOutstanding
    /\ "default" \notin Root /\ Undefined \notin {"default", "root-unavailable"}

VARIABLE launch  \* the launches

launchVars == <<setupVars, launch>>

NotAsked == [step |-> "idle"]
Failed == [step |-> "failed"]
Requests == Root \cup {"default"}

\* A launch that waits for its configuration, looks at folders, or has its plan.
Waits == [step : {"configuring"}, request : Requests, roots : FolderLists]
Looks == [step : {"probing"}, request : Requests, roots : FolderLists, config : Configs,
          terms : Configs, left : SUBSET Root, active : SUBSET Root,
          probed : SUBSET Root, retired : Nat, avail : SUBSET Root, late : BOOLEAN]
Plans == [root : Root \cup {Undefined}, imports : SUBSET Root, skipped : SUBSET Root,
          fallback : BOOLEAN, error : {"invalid-request", "root-unavailable", "no-root-available", Undefined}]
Ready == [step : {"planned"}, request : Requests, roots : FolderLists, config : Configs,
          terms : Configs, probed : SUBSET Root, avail : SUBSET Root, plan : Plans]

LaunchTypeOK ==
    /\ SetupTypeOK
    /\ launch \in [Caller -> {NotAsked, Failed} \cup Waits \cup Looks \cup Ready]
    /\ \A l \in Caller :
         LET at == launch[l] IN
         /\ at.step = "configuring" => \E i \in 1..Len(queue) : queue[i] = [by |-> l, roots |-> at.roots]
         /\ at.step = "probing" =>
              /\ at.config.roots = at.roots
              /\ Cardinality(at.active) \in 1..MaxConcurrency
              /\ Cardinality(at.active) + at.retired <= MaxOutstanding
              /\ at.avail \cup at.active \subseteq at.probed

LaunchInit == SetupInit /\ launch = [l \in Caller |-> NotAsked]

----------------------------------------------------------------------------
(* The pure parts *)

\* The override, or the first folder.
PreferredDefault(roots, config) ==
    IF config.override # Undefined THEN config.override ELSE IF roots = <<>> THEN Undefined ELSE Head(roots)

\* The first of the folders that is in the set, Undefined if there is none.
FirstOf(roots, set) ==
    IF \A i \in DOMAIN roots : roots[i] \notin set THEN Undefined
    ELSE roots[CHOOSE i \in DOMAIN roots : roots[i] \in set /\ \A j \in 1..(i - 1) : roots[j] \notin set]

(* prioritizeRequestedRoot: the folder asked for first, then the default   *)
(* one if it is to be imported, then the others as they are listed.        *)
Place(request, roots, config, root) ==
    IF root = (IF request \in Root THEN request ELSE config.override) THEN 0
    ELSE IF request \in Root /\ config.auto /\ root = PreferredDefault(roots, config) THEN 1
    ELSE 1 + CHOOSE i \in DOMAIN roots : roots[i] = root

\* selectRoot for the default folder: the override if it answered, else the first that did.
DefaultRoot(roots, config, avail) ==
    IF config.override \in avail \cap ToSet(roots) THEN config.override ELSE FirstOf(roots, avail)

Refused(error) == [root |-> Undefined, imports |-> {}, skipped |-> {}, fallback |-> FALSE, error |-> error]

(* planLaunch in a folder that answered: with an automatic import, or in   *)
(* the default folder, it tells of a default folder that did not answer.   *)
Planned(request, root, roots, config, avail) ==
    LET default == DefaultRoot(roots, config, avail)
        wanted == config.imports[root] \cup (IF config.auto THEN {default} \ {Undefined, root} ELSE {})
        usable == avail \cap ToSet(roots)
    IN  [root |-> root, imports |-> wanted \cap usable, skipped |-> wanted \ usable,
         fallback |-> /\ request \notin Root \/ config.auto
                      /\ default # Undefined /\ config.override \notin {Undefined, default},
         error |-> Undefined]

Plan(request, roots, config, avail) ==
    LET default == DefaultRoot(roots, config, avail)
    IN  IF request \in Root
        THEN IF request \notin ToSet(roots) THEN Refused("invalid-request")
             ELSE IF request \notin avail THEN Refused("root-unavailable")
             ELSE Planned(request, request, roots, config, avail)
        ELSE IF default = Undefined THEN Refused("no-root-available")
             ELSE Planned(request, default, roots, config, avail)

----------------------------------------------------------------------------
(* A launch *)

Launch(l) ==
    /\ launch[l] = NotAsked
    /\ \E request \in Requests :
           launch' = [launch EXCEPT ![l] = [step |-> "configuring", request |-> request, roots |-> folders]]
    /\ EnsureConfigured(l)

\* The next step of a launch whose workers look at the folders "active".
Looking(at) ==
    IF at.active # {} THEN at
    ELSE [step |-> "planned", request |-> at.request, roots |-> at.roots, config |-> at.config,
          terms |-> at.terms, probed |-> at.probed, avail |-> at.avail,
          plan |-> Plan(at.request, at.roots, at.config, at.avail)]

PlaceOf(at, root) == Place(at.request, at.roots, at.config, root)

(* findAvailableRootIds: the workers start together, with the first folders. *)
BeginLooking(at, config) ==
    LET Before(root) == {r \in ToSet(at.roots) : Place(at.request, at.roots, config, r)
                                                   < Place(at.request, at.roots, config, root)}
        first == {root \in ToSet(at.roots) : Cardinality(Before(root)) < MaxConcurrency}
    IN  Looking([step |-> "probing", request |-> at.request, roots |-> at.roots, config |-> config,
                 terms |-> mem.agreed, left |-> ToSet(at.roots) \ first,
                 active |-> first, probed |-> first, retired |-> 0, avail |-> {}, late |-> FALSE])

Configured(l) ==
    /\ Done /\ Head(queue).by = l
    /\ launch' = [launch EXCEPT ![l] = BeginLooking(@, setup.config)]

\* A worker takes the next folder.
Taking(at) ==
    LET next == CHOOSE root \in at.left : \A r \in at.left : PlaceOf(at, root) <= PlaceOf(at, r)
    IN  [at EXCEPT !.left = @ \ {next}, !.active = @ \cup {next}, !.probed = @ \cup {next}]

\* Mutant: probes that were given up do not count.
NextFolderUnbounded(at) ==
    IF at.left = {} \/ at.late \/ Cardinality(at.active) >= MaxOutstanding THEN Looking(at) ELSE Taking(at)

(* A worker whose probe is over takes the next folder, unless the time is  *)
(* up or too many probes are unanswered.                                   *)
NextFolder(at) ==
    IF at.left = {} \/ at.late \/ Cardinality(at.active) + at.retired >= MaxOutstanding
    THEN Looking(at) ELSE Taking(at)

Settled(at, root, answered, unanswered) ==
    [at EXCEPT !.active = @ \ {root}, !.avail = @ \cup answered, !.retired = @ + unanswered]

ProbeEnds(l, root, answered, unanswered) ==
    launch' = [launch EXCEPT ![l] = NextFolder(Settled(launch[l], root, answered, unanswered))]

\* isAvailableWithinTimeout: the folder answers, fails, ends when told to, or is given up.
ProbeAnswers(l) == \E root \in launch[l].active : ProbeEnds(l, root, {root}, 0)

ProbeFails(l) == \E root \in launch[l].active : ProbeEnds(l, root, {}, 0)

ProbeRetired(l) == \E root \in launch[l].active : ProbeEnds(l, root, {}, 1)

DeadlinePasses(l) == ~launch[l].late /\ launch' = [launch EXCEPT ![l].late = TRUE]

Probing(l) ==
    /\ launch[l].step = "probing"
    /\ ProbeAnswers(l) \/ ProbeFails(l) \/ ProbeRetired(l) \/ DeadlinePasses(l)
    /\ UNCHANGED setupVars

\* The setup a launch waits for fails, and with it the launch.
SetupFails ==
    /\ UpdateFails
    /\ launch' = [l \in Caller |-> IF Head(queue).by = l THEN Failed ELSE launch[l]]

LaunchNext ==
    \/ SetupSteps /\ UNCHANGED launch
    \/ Done /\ Head(queue).by \notin Caller /\ UNCHANGED launch
    \/ SetupFails
    \/ ReloadWindow /\ launch' = [l \in Caller |-> NotAsked]
    \/ \E l \in Caller : Launch(l) \/ Configured(l) \/ Probing(l)

LaunchSpec == LaunchInit /\ [][LaunchNext]_launchVars

----------------------------------------------------------------------------
\* What a configuration lets a folder import, the default folder being this one.
MayImport(config, root, default) == config.imports[root] \cup (IF config.auto THEN {default} ELSE {})

(***************************************************************************)
(* No access without agreement: a planned session is given only folders    *)
(* that the last answer of the user, at the time the configuration was     *)
(* handed to the launch, lets its folder import, or the default folder if  *)
(* the user agreed to that; a dismissed setup takes all of it back, and    *)
(* what load presets on first use is no answer. And no refusal unlooked: a *)
(* launch is refused for its folder, or told that the configured default   *)
(* did not answer, only when that folder was looked at: folders that hang  *)
(* and use up the probes or the time never keep it from being asked (of    *)
(* the default of an explicit launch this is true from two workers on).    *)
(***************************************************************************)
PlansJustified ==
    \A l \in Caller : launch[l].step = "planned" =>
        LET at == launch[l]
            default == DefaultRoot(at.roots, at.terms, at.avail)
        IN  /\ at.plan.root # Undefined =>
                 at.plan.imports \subseteq MayImport(at.terms, at.plan.root, default)
            /\ at.plan.error = "root-unavailable" => at.request \in at.probed
            /\ at.plan.fallback /\ (at.request \notin Root \/ MaxConcurrency > 1) => at.config.override \in at.probed
=============================================================================
