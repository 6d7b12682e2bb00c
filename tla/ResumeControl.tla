---------------------------- MODULE ResumeControl ----------------------------
(***************************************************************************)
(* Launching, resuming, restoring and forgetting conversations: the launch *)
(* controller (launchController.ts), the store of resumable sessions it    *)
(* writes to (resumableSessionStore.ts) and the composer's guards in front *)
(* of forget and restore (composerRuntime.ts).                             *)
(*                                                                         *)
(* A conversation is named by its Claude UUID and outlives the sessions    *)
(* that run it.  Every operation is a coroutine that reads the store and   *)
(* the registry, waits (for planning, probes, a spawn, a write), and acts  *)
(* on what it read; pendingResumes and pendingForgets keep two of them off *)
(* the same conversation.  The session registry is seen through what the   *)
(* controller reads of it; SessionManager has its inside.                  *)
(***************************************************************************)
EXTENDS Naturals, Sequences, FiniteSets

CONSTANTS
    Uuid,         \* Claude session ids, stored or still to be minted
    Op,           \* bound: operations in progress at a time
    Run,          \* bound: sessions launched
    None,         \* undefined
    MaxRename     \* bound: renames, each to a name not used before

ASSUME NoneAssumption == None \notin Uuid \cup Op \cup Run \cup Nat
ASSUME RenameAssumption == MaxRename \in Nat

VARIABLES
    stored,       \* store.sessions: the saved name of each conversation
    chain,        \* store.writeChain: mutations waiting for their turn
    minted,       \* UUIDs ever created
    resuming,     \* pendingResumes
    forgetting,   \* pendingForgets
    restoring,    \* composerRuntime.restoring
    erasing,      \* composerRuntime.forgetting
    forgotten,    \* tombstones of the composer store
    durable,      \* the tombstones that were written out
    offers,       \* failed resumes whose "Forget Session" button is on screen
    op,           \* the operations in progress
    run,          \* the sessions, past and present
    dropped,      \* conversations whose metadata was forgotten (history)
    unsaved,      \* conversations with a failed write (history)
    misread,      \* resumed under a name that was about to change (history)
    renames       \* names given so far

reservations == <<resuming, forgetting, restoring, erasing>>
composer == <<forgotten, durable>>
history == <<dropped, unsaved, misread>>
vars == <<stored, chain, minted, reservations, composer, offers, op, run, history, renames>>

Names == 0..MaxRename
Kinds == {"new", "resume", "restore", "forget", "discard", "offered"}
Steps == {"validating", "planning", "preparing", "launching", "saving", "moving",
          "deleting", "erasing", "asking"}
Idle == [kind |-> "none", uuid |-> None, step |-> "idle", run |-> None, name |-> 0]
Unborn == [uuid |-> None, state |-> "unborn", name |-> 0, resumed |-> FALSE]
Mutations == [kind : {"upsert", "update", "rename", "forget"}, uuid : Uuid, name : Names,
              by : Op \cup {None}]
Ops == {Idle} \cup [kind : Kinds, uuid : Uuid, step : Steps, run : Run \cup {None}, name : Names]
Runs == {Unborn} \cup [uuid : Uuid, state : {"starting", "running", "closing", "gone"},
                       name : Names, resumed : BOOLEAN]

TypeOK ==
    /\ stored \in [Uuid -> Names \cup {None}]
    /\ chain \in Seq(Mutations)
    /\ minted \subseteq Uuid
    /\ resuming \subseteq Uuid /\ forgetting \subseteq Uuid
    /\ restoring \subseteq Uuid /\ erasing \subseteq Uuid
    /\ durable \subseteq forgotten /\ forgotten \subseteq Uuid
    /\ offers \subseteq Uuid
    /\ op \in [Op -> Ops]
    /\ run \in [Run -> Runs]
    /\ dropped \subseteq Uuid /\ unsaved \subseteq Uuid /\ misread \subseteq Uuid
    /\ renames \in Names

\* A window opens with whatever earlier ones stored: some conversations have
\* metadata, others only a draft.
Init ==
    /\ stored \in [Uuid -> {0, None}]
    /\ chain = <<>>
    /\ minted \in {M \in SUBSET Uuid : \A u \in Uuid : stored[u] # None => u \in M}
    /\ resuming = {} /\ forgetting = {} /\ restoring = {} /\ erasing = {}
    /\ forgotten = {} /\ durable = {}
    /\ offers = {}
    /\ op = [o \in Op |-> Idle]
    /\ run = [r \in Run |-> Unborn]
    /\ dropped = {} /\ unsaved = {} /\ misread = {}
    /\ renames = 0

----------------------------------------------------------------------------
(* Reading the registry and the reservations *)

Registered == {r \in Run : run[r].state \in {"starting", "running", "closing"}}

\* isLive: starting and closing sessions count.
Live(u) == \E r \in Registered : run[r].uuid = u

\* isSessionOperationPending
Pending(u) == u \in resuming \cup forgetting

\* Bound: an operation starts only if a session is left for it to launch.
RunAvailable ==
    Cardinality({r \in Run : run[r] = Unborn}) >
        Cardinality({o \in Op : op[o].step \in {"validating", "planning", "preparing"}})

Begin(o, kind, u, step, name) ==
    /\ op[o] = Idle
    /\ op' = [op EXCEPT ![o] =
                 [kind |-> kind, uuid |-> u, step |-> step, run |-> None, name |-> name]]

GoTo(o, step) == op' = [op EXCEPT ![o].step = step]

Finish(o) == op' = [op EXCEPT ![o] = Idle]

Enqueue(kind, u, name, by) ==
    chain' = Append(chain, [kind |-> kind, uuid |-> u, name |-> name, by |-> by])

\* manager.launch: the record is in the registry before anything is awaited.
Publish(r, u, name, resumed) ==
    /\ run[r] = Unborn
    /\ run' = [run EXCEPT ![r] = [uuid |-> u, state |-> "starting", name |-> name,
                                  resumed |-> resumed]]

----------------------------------------------------------------------------
(* New sessions *)

\* launch, once planned: a UUID nobody has used yet.
NewSession(o, r, u) ==
    /\ RunAvailable
    /\ op[o] = Idle
    /\ u \notin minted
    /\ minted' = minted \cup {u}
    /\ Publish(r, u, 0, FALSE)
    /\ op' = [op EXCEPT ![o] = [kind |-> "new", uuid |-> u, step |-> "launching", run |-> r,
                                name |-> 0]]
    /\ UNCHANGED <<stored, chain, reservations, composer, offers, history, renames>>

----------------------------------------------------------------------------
(* resumeSession *)

RenamePending(u) == \E i \in DOMAIN chain : chain[i].kind = "rename" /\ chain[i].uuid = u

\* Mutation: the conversation is not reserved before the first await.
ResumeUnreserved(o, u) ==
    /\ RunAvailable
    /\ stored[u] # None
    /\ ~Pending(u) /\ ~Live(u)
    /\ Begin(o, "resume", u, "planning", stored[u])
    /\ UNCHANGED <<stored, chain, minted, reservations, composer, offers, run, history, renames>>

Resume(o, u) ==
    /\ RunAvailable
    /\ stored[u] # None
    /\ ~Pending(u) /\ ~Live(u)
    /\ resuming' = resuming \cup {u}
    /\ Begin(o, "resume", u, "planning", stored[u])
    /\ misread' = IF RenamePending(u) THEN misread \cup {u} ELSE misread
    /\ UNCHANGED <<stored, chain, minted, forgetting, restoring, erasing, composer, offers, run,
                   dropped, unsaved, renames>>

\* The root is gone, the CLI cannot resume, or planning failed: the failure
\* is reported, with a "Forget Session" button, and the reservation released.
ResumeRefused(o) ==
    /\ op[o].kind = "resume" /\ op[o].step = "planning"
    /\ offers' = offers \cup {op[o].uuid}
    /\ resuming' = resuming \ {op[o].uuid}
    /\ Finish(o)
    /\ UNCHANGED <<stored, chain, minted, forgetting, restoring, erasing, composer, run, history,
                   renames>>

\* The store and the registry are read again after planning.
ResumePlanned(o) ==
    /\ op[o].kind = "resume" /\ op[o].step = "planning"
    /\ IF stored[op[o].uuid] = None \/ Live(op[o].uuid)
       THEN Finish(o) /\ resuming' = resuming \ {op[o].uuid}
       ELSE GoTo(o, "preparing") /\ UNCHANGED resuming
    /\ UNCHANGED <<stored, chain, minted, forgetting, restoring, erasing, composer, offers, run,
                   history, renames>>

\* Hooks and plugin are settled: launch under the name read at the start.
ResumeLaunch(o, r) ==
    /\ op[o].kind = "resume" /\ op[o].step = "preparing"
    /\ Publish(r, op[o].uuid, op[o].name, TRUE)
    /\ op' = [op EXCEPT ![o].step = "launching", ![o].run = r]
    /\ UNCHANGED <<stored, chain, minted, reservations, composer, offers, history, renames>>

----------------------------------------------------------------------------
(* Restoring a draft into a new session (ComposerRuntime.handle,           *)
(* performRestore, launchDraftRestore)                                     *)

Restore(o, u) ==
    /\ RunAvailable
    /\ u \in minted \ (restoring \cup erasing \cup forgotten)
    /\ ~Pending(u) /\ ~Live(u)
    /\ restoring' = restoring \cup {u}
    /\ Begin(o, "restore", u, "validating", 0)
    /\ UNCHANGED <<stored, chain, minted, resuming, forgetting, erasing, composer, offers, run,
                   history, renames>>

RestoreFailed(o) ==
    /\ op[o].kind = "restore" /\ op[o].step \in {"validating", "planning"}
    /\ restoring' = restoring \ {op[o].uuid}
    /\ resuming' = IF op[o].step = "planning" THEN resuming \ {op[o].uuid} ELSE resuming
    /\ Finish(o)
    /\ UNCHANGED <<stored, chain, minted, forgetting, erasing, composer, offers, run, history,
                   renames>>

\* Mutation: the guards are read but nothing is reserved.
RestoreUnreserved(o) ==
    /\ op[o].kind = "restore" /\ op[o].step = "validating"
    /\ op[o].uuid \notin forgotten
    /\ ~Pending(op[o].uuid) /\ ~Live(op[o].uuid)
    /\ GoTo(o, "planning")
    /\ UNCHANGED <<stored, chain, minted, reservations, composer, offers, run, history, renames>>

\* The draft is durable; launchDraftRestore reads the guards once more.
RestoreReserved(o) ==
    /\ op[o].kind = "restore" /\ op[o].step = "validating"
    /\ op[o].uuid \notin forgotten
    /\ ~Pending(op[o].uuid) /\ ~Live(op[o].uuid)
    /\ resuming' = resuming \cup {op[o].uuid}
    /\ GoTo(o, "planning")
    /\ UNCHANGED <<stored, chain, minted, forgetting, restoring, erasing, composer, offers, run,
                   history, renames>>

\* The session that receives the draft has a UUID of its own.
RestoreLaunch(o, r, u) ==
    /\ op[o].kind = "restore" /\ op[o].step = "planning"
    /\ ~Live(op[o].uuid)
    /\ u \notin minted
    /\ minted' = minted \cup {u}
    /\ Publish(r, u, 0, FALSE)
    /\ op' = [op EXCEPT ![o].step = "launching", ![o].run = r]
    /\ UNCHANGED <<stored, chain, reservations, composer, offers, history, renames>>

\* transferDraft: one write moves the draft and tombstones its source, or
\* fails, or finds the source gone.
RestoreMoved(o) ==
    /\ op[o].step = "moving"
    /\ \/ /\ op[o].uuid \notin forgotten
          /\ forgotten' = forgotten \cup {op[o].uuid}
          /\ durable' = forgotten'
       \/ UNCHANGED composer
    /\ restoring' = restoring \ {op[o].uuid}
    /\ Finish(o)
    /\ UNCHANGED <<stored, chain, minted, resuming, forgetting, erasing, offers, run, history,
                   renames>>

----------------------------------------------------------------------------
(* The sessions, as the controller hears of them *)

\* Mutation: the name read before the launch is written back.
SavedNameStale(o) == op[o].name

\* session.displayName of the snapshot launch returned.
SavedName(o) == run[op[o].run].name

\* The session runs and launch returns its snapshot: the launch is recorded.
SessionRuns(o) ==
    /\ op[o].step = "launching"
    /\ run[op[o].run].state = "starting"
    /\ run' = [run EXCEPT ![op[o].run].state = "running"]
    /\ Enqueue(IF op[o].kind = "resume" THEN "update" ELSE "upsert",
               run[op[o].run].uuid, SavedName(o), o)
    /\ GoTo(o, "saving")
    /\ UNCHANGED <<stored, minted, reservations, composer, offers, history, renames>>

\* What follows a launch whose record needs no (more) saving: the caller of a
\* restore goes on to move the draft as long as the session is there.
Launched(o) ==
    /\ resuming' = IF op[o].kind = "new" THEN resuming ELSE resuming \ {op[o].uuid}
    /\ IF op[o].kind = "restore" /\ op[o].run \in Registered
       THEN GoTo(o, "moving") /\ UNCHANGED restoring
       ELSE /\ Finish(o)
            /\ restoring' = IF op[o].kind = "restore" THEN restoring \ {op[o].uuid} ELSE restoring

\* Mutation: a launch that was cancelled or failed keeps its reservation.
LaunchReturnedReserved(o) ==
    /\ op[o].step = "launching"
    /\ run[op[o].run].state \in {"closing", "gone"}
    /\ Finish(o)
    /\ UNCHANGED <<stored, chain, minted, reservations, composer, offers, run, history, renames>>

\* The session was closed, or failed, while it was starting.
LaunchReturned(o) ==
    /\ op[o].step = "launching"
    /\ run[op[o].run].state \in {"closing", "gone"}
    /\ Launched(o)
    /\ UNCHANGED <<stored, chain, minted, forgetting, erasing, composer, offers, run, history,
                   renames>>

SessionCloses(r) ==
    /\ run[r].state \in {"starting", "running"}
    /\ run' = [run EXCEPT ![r].state = "closing"]
    /\ UNCHANGED <<stored, chain, minted, reservations, composer, offers, op, history, renames>>

\* The failure of a resumed session that nobody closed is reported too.
SessionEnds(r) ==
    /\ r \in Registered
    /\ run' = [run EXCEPT ![r].state = "gone"]
    /\ \/ UNCHANGED offers
       \/ /\ run[r].resumed /\ run[r].state # "closing"
          /\ offers' = offers \cup {run[r].uuid}
    /\ UNCHANGED <<stored, chain, minted, reservations, composer, op, history, renames>>

\* renameSession: the registry first, then the store.
Rename(r) ==
    /\ r \in Registered
    /\ renames < MaxRename
    /\ renames' = renames + 1
    /\ run' = [run EXCEPT ![r].name = renames']
    /\ Enqueue("rename", run[r].uuid, renames', None)
    /\ UNCHANGED <<stored, minted, reservations, composer, offers, op, history>>

----------------------------------------------------------------------------
(* Forgetting *)

\* ComposerRuntime.forget of a conversation with metadata, as far as the
\* write of LaunchController.forgetSession.
Forget(o, u) ==
    /\ stored[u] # None
    /\ u \notin restoring \cup erasing
    /\ ~Pending(u) /\ ~Live(u)
    /\ forgetting' = forgetting \cup {u}
    /\ erasing' = erasing \cup {u}
    /\ Enqueue("forget", u, 0, o)
    /\ Begin(o, "forget", u, "deleting", 0)
    /\ UNCHANGED <<stored, minted, resuming, restoring, composer, offers, run, history, renames>>

\* The same for a saved draft without metadata.
Discard(o, u) ==
    /\ stored[u] = None
    /\ u \in minted \ (restoring \cup erasing \cup forgotten)
    /\ ~Pending(u) /\ ~Live(u)
    /\ erasing' = erasing \cup {u}
    /\ forgotten' = forgotten \cup {u}
    /\ Begin(o, "discard", u, "erasing", 0)
    /\ UNCHANGED <<stored, chain, minted, resuming, forgetting, restoring, durable, offers, run,
                   history, renames>>

\* handleResumeAction, "Forget Session" of a failed resume's notification:
\* neither the reservations nor the registry are looked at.
TakeOffer(o, u) ==
    /\ u \in offers
    /\ offers' = offers \ {u}
    /\ Enqueue("forget", u, 0, o)
    /\ Begin(o, "offered", u, "deleting", 0)
    /\ UNCHANGED <<stored, minted, reservations, composer, run, history, renames>>

DismissOffer(u) ==
    /\ u \in offers
    /\ offers' = offers \ {u}
    /\ UNCHANGED <<stored, chain, minted, reservations, composer, op, run, history, renames>>

\* The composer's deletion was written out, with every tombstone known by
\* now, or failed; only the panel's forget reports a failure.
Erased(o) ==
    /\ op[o].step = "erasing"
    /\ \/ /\ durable' = forgotten
          /\ Finish(o)
          /\ forgetting' = IF op[o].kind = "forget" THEN forgetting \ {op[o].uuid} ELSE forgetting
          /\ erasing' = IF op[o].kind = "offered" THEN erasing ELSE erasing \ {op[o].uuid}
       \/ /\ op[o].kind = "forget"
          /\ GoTo(o, "asking")
          /\ UNCHANGED <<durable, forgetting, erasing>>
       \/ /\ op[o].kind # "forget"
          /\ Finish(o)
          /\ erasing' = IF op[o].kind = "offered" THEN erasing ELSE erasing \ {op[o].uuid}
          /\ UNCHANGED <<durable, forgetting>>
    /\ UNCHANGED <<stored, chain, minted, resuming, restoring, forgotten, offers, run, history,
                   renames>>

\* "Claude session could not be forgotten." is on screen until answered, and
\* the reservations are held that long; then the composer looks again.
Answered(o) ==
    /\ op[o].step = "asking"
    /\ forgetting' = forgetting \ {op[o].uuid}
    /\ erasing' = erasing \ {op[o].uuid}
    /\ forgotten' = IF stored[op[o].uuid] = None /\ op[o].uuid \notin resuming /\ ~Live(op[o].uuid)
                    THEN forgotten \cup {op[o].uuid} ELSE forgotten
    /\ Finish(o)
    /\ UNCHANGED <<stored, chain, minted, resuming, restoring, durable, offers, run, history,
                   renames>>

----------------------------------------------------------------------------
(* The store's chain of writes *)

\* Mutation: a resume writes its metadata back whatever happened to it.
MootUpsert(m) ==
    CASE m.kind \in {"upsert", "update"} -> FALSE
      [] m.kind = "forget" -> stored[m.uuid] = None
      [] m.kind = "rename" -> stored[m.uuid] \in {None, m.name}

\* Nothing to write: decided when the mutation's turn comes.
Moot(m) ==
    CASE m.kind = "upsert" -> FALSE
      [] m.kind \in {"update", "forget"} -> stored[m.uuid] = None
      [] m.kind = "rename" -> stored[m.uuid] \in {None, m.name}

\* The operation that waits for its forget: on to the composer, or stop.
Deleted(o, ok) ==
    /\ UNCHANGED <<resuming, restoring>>
    /\ IF ok
       THEN GoTo(o, "erasing") /\ forgotten' = forgotten \cup {op[o].uuid}
       ELSE /\ IF op[o].kind = "forget" THEN GoTo(o, "asking") ELSE Finish(o)
            /\ UNCHANGED forgotten

\* One mutation: a write that succeeds is published with it, one that fails
\* changes nothing; who waits for it goes on in either case.
StoreStep(ok) ==
    /\ chain # <<>>
    /\ chain' = Tail(chain)
    /\ LET m == Head(chain)
           written == ok /\ ~Moot(m)
       IN  /\ ~ok => ~Moot(m)
           /\ stored' = IF written
                        THEN [stored EXCEPT ![m.uuid] = IF m.kind = "forget" THEN None ELSE m.name]
                        ELSE stored
           /\ dropped' = IF written /\ m.kind = "forget" THEN dropped \cup {m.uuid} ELSE dropped
           /\ UNCHANGED misread
           /\ unsaved' = IF ok THEN unsaved ELSE unsaved \cup {m.uuid}
           /\ CASE m.by = None -> UNCHANGED <<op, resuming, restoring, forgotten>>
                [] m.by # None /\ m.kind = "forget" -> Deleted(m.by, ok)
                [] OTHER -> Launched(m.by) /\ UNCHANGED forgotten
    /\ UNCHANGED <<minted, forgetting, erasing, durable, offers, run, renames>>

\* Mutation: the tombstones of the stored document are not read.
LoadedWithoutTombstones == {}

\* ComposerStore.load: the tombstones that were written out.
LoadedTombstones == durable

\* The window is reloaded: sessions, promises, notifications and what was
\* never written are gone.
Reload ==
    /\ run' = [r \in Run |-> IF r \in Registered THEN [run[r] EXCEPT !.state = "gone"] ELSE run[r]]
    /\ op' = [o \in Op |-> Idle]
    /\ chain' = <<>>
    /\ resuming' = {} /\ forgetting' = {} /\ restoring' = {} /\ erasing' = {}
    /\ offers' = {}
    /\ forgotten' = LoadedTombstones
    /\ unsaved' = {} /\ misread' = {}
    /\ UNCHANGED <<stored, minted, durable, dropped, renames>>

----------------------------------------------------------------------------
UserStep(o, u) == Resume(o, u) \/ Restore(o, u) \/ Forget(o, u) \/ Discard(o, u) \/ TakeOffer(o, u)

PlanStep(o) == ResumeRefused(o) \/ ResumePlanned(o) \/ RestoreFailed(o) \/ RestoreReserved(o)

LaunchStep(o) == SessionRuns(o) \/ LaunchReturned(o)

Next ==
    \/ \E o \in Op, u \in Uuid : UserStep(o, u)
    \/ \E o \in Op, r \in Run, u \in Uuid : NewSession(o, r, u) \/ RestoreLaunch(o, r, u)
    \/ \E o \in Op, r \in Run : ResumeLaunch(o, r)
    \/ \E o \in Op : PlanStep(o) \/ LaunchStep(o) \/ RestoreMoved(o) \/ Erased(o) \/ Answered(o)
    \/ \E r \in Run : SessionCloses(r) \/ SessionEnds(r) \/ Rename(r)
    \/ \E u \in Uuid : DismissOffer(u)
    \/ \E ok \in BOOLEAN : StoreStep(ok)
    \/ Reload

Spec == Init /\ [][Next]_vars

----------------------------------------------------------------------------
(* Safety *)

\* However resumes, restores, closes and forgets of one conversation overlap,
\* two Claude processes never run on the same conversation
\* ("Reserve before any asynchronous boundary", resumeSession).
OneLivePerConversation ==
    \A r, q \in Registered : r # q => run[r].uuid # run[q].uuid

\* An operation that reads "not live" and then waits still finds it so when
\* it acts: nothing comes to life under a panel forget, under a restore that
\* is launching its target, or beside a resume (pendingResumes,
\* pendingForgets and the composer's own two sets together).
ExclusiveUse ==
    \A o \in Op :
        \/ /\ op[o].kind = "forget"
           /\ op[o].step \in {"deleting", "erasing", "asking"}
        \/ /\ op[o].kind = "restore"
           /\ op[o].step \in {"planning", "launching", "saving"}
        \/ /\ op[o].kind = "resume"
           /\ op[o].step \in {"planning", "preparing"}
        => ~Live(op[o].uuid)

\* Forgotten metadata never returns: not by the update of a resume that was
\* under way, not by a rename behind it in the chain, not after a reload
\* (updateExisting's re-check when its turn comes).
ForgottenStaysForgotten == \A u \in dropped : stored[u] = None

\* When the chain has drained and no write failed, the saved name of a
\* running conversation is the one its tab shows, whenever it was renamed:
\* while starting, while running, while the launch was being recorded; only a
\* resume that read a name about to change may differ.
NamesAgree ==
    chain = <<>> =>
        \A r \in Registered :
            \/ stored[run[r].uuid] \in {None, run[r].name}
            \/ run[r].uuid \in unsaved \cup misread

\* No path through resume, restore and forget, the failing ones included,
\* leaks a reservation: whoever is kept off a conversation is kept off by an
\* operation still under way on it (the finally blocks of resumeSession,
\* launchDraftRestore, forgetSession and ComposerRuntime), and an operation
\* that waits for a write has one in the chain.
ReservationHeld ==
    /\ \A u \in resuming : \E o \in Op :
          /\ op[o].uuid = u
          /\ \/ op[o].kind = "resume"
             \/ op[o].kind = "restore" /\ op[o].step \in {"planning", "launching", "saving"}
    /\ \A u \in forgetting : \E o \in Op : op[o].uuid = u /\ op[o].kind = "forget"
    /\ \A u \in restoring : \E o \in Op : op[o].uuid = u /\ op[o].kind = "restore"
    /\ \A u \in erasing : \E o \in Op : op[o].uuid = u /\ op[o].kind \in {"forget", "discard"}
    /\ \A o \in Op : op[o].step \in {"saving", "deleting"} =>
          \E i \in DOMAIN chain : chain[i].by = o
=============================================================================
