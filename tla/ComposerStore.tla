---------------------------- MODULE ComposerStore ----------------------------
(***************************************************************************)
(* Drafts: the store that keeps them in workspace state (composerStore.ts) *)
(* under the controller that types, submits, clears, forgets and moves     *)
(* them (composerController.ts).                                           *)
(*                                                                         *)
(* The store runs its operations one at a time, each with one write of the *)
(* whole document, which may fail and during which anything else may       *)
(* happen.  What happens meanwhile can take the reason for the write away: *)
(* then the previous document is written again.  Two copies of the truth   *)
(* matter: what the store shows (shown) and what a reload would find       *)
(* (disk).                                                                 *)
(***************************************************************************)
EXTENDS Naturals, Sequences, FiniteSets

CONSTANTS
    Uuid,         \* conversations
    None,         \* undefined
    MaxTyped,     \* bound: edits, over all conversations
    MaxOpen,      \* bound: sessions opened on each conversation
    LateSaves     \* whether a conversation may be resumed before the save of
                  \* its ended session is over (the code does not prevent it)

ASSUME NoneAssumption == None \notin Uuid \cup Nat
ASSUME BoundAssumption == MaxTyped \in Nat /\ MaxOpen \in Nat /\ LateSaves \in BOOLEAN

VARIABLES
    shown,        \* ComposerStore.sessions
    forgotten,    \* ComposerStore.forgotten, the tombstones
    failed,       \* failedDrafts: drafts whose write failed
    queue,        \* the chain of operations, the running one first
    writing,      \* the document being written for the first of them
    disk,         \* the document a reload would find
    opened,       \* the generation of each conversation's last session
    live,         \* conversations with a session
    working,      \* the controller's current draft of each conversation
    dirty,        \* drafts the save timer is running for
    status,       \* the draft status shown for the current draft
    sending,      \* the submission in progress for each conversation
    restoring,    \* the draft being restored, its session being launched
    typed,        \* edits so far, which are also their texts
    erased        \* conversations whose deletion was confirmed (history)

store == <<shown, forgotten, failed>>
io == <<queue, writing, disk>>
editor == <<working, dirty, status>>
session == <<opened, live>>
vars == <<store, io, session, editor, sending, restoring, typed, erased>>

\* A draft is a revision and a text; text 0 is the empty one.
Drafts == [rev : Nat, text : 0..MaxTyped]
Empty == [rev |-> 0, text |-> 0]
Records == [draft : Drafts, recent : SUBSET (1..MaxTyped)]
Documents == [sessions : [Uuid -> Records \cup {None}], forgotten : SUBSET Uuid]
Operations == [kind : {"save", "resave", "record", "clear", "forget", "transfer"},
               uuid : Uuid, draft : Drafts, gen : 0..MaxOpen, to : Uuid \cup {None}]
Sendings == [step : {"sent", "saving", "recording", "clearing"}, draft : Drafts, gen : 0..MaxOpen]

ASSUME NoneIsNoRecord == None \notin Drafts \cup Records \cup Sendings

TypeOK ==
    /\ shown \in [Uuid -> Records \cup {None}]
    /\ forgotten \subseteq Uuid
    /\ failed \in [Uuid -> Drafts \cup {None}]
    /\ queue \in Seq(Operations)
    /\ writing \in [document : Documents, undo : BOOLEAN] \cup {None}
    /\ disk \in Documents
    /\ opened \in [Uuid -> 0..MaxOpen]
    /\ live \subseteq Uuid
    /\ working \in [Uuid -> Drafts]
    /\ dirty \subseteq live
    /\ status \in [Uuid -> {"none", "unsaved", "saving", "saved", "error"}]
    /\ sending \in [Uuid -> Sendings \cup {None}]
    /\ restoring \in [uuid : Uuid, draft : Drafts, fresh : SUBSET Uuid] \cup {None}
    /\ typed \in 0..MaxTyped
    /\ erased \subseteq Uuid

Init ==
    /\ shown = [u \in Uuid |-> None]
    /\ forgotten = {}
    /\ failed = [u \in Uuid |-> None]
    /\ queue = <<>>
    /\ writing = None
    /\ disk = [sessions |-> shown, forgotten |-> {}]
    /\ opened = [u \in Uuid |-> 0]
    /\ live = {}
    /\ working = [u \in Uuid |-> Empty]
    /\ dirty = {}
    /\ status = [u \in Uuid |-> "none"]
    /\ sending = [u \in Uuid |-> None]
    /\ restoring = None
    /\ typed = 0
    /\ erased = {}

----------------------------------------------------------------------------
(* Reading the store *)

\* get
Get(u) == IF u \in forgotten THEN None ELSE shown[u]

\* getRecoverable: a draft whose write failed hides the durable one.
Recoverable(u) ==
    CASE u \in forgotten -> None
      [] u \notin forgotten /\ failed[u] # None -> failed[u]
      [] OTHER -> IF shown[u] = None THEN None ELSE shown[u].draft

\* current(target): the session is the one the caller means, not forgotten.
Current(u, gen) == u \in live /\ opened[u] = gen /\ u \notin forgotten

Op(kind, u, draft, gen, to) == [kind |-> kind, uuid |-> u, draft |-> draft, gen |-> gen, to |-> to]

SaveOp(kind, u) == Op(kind, u, working[u], opened[u], None)

Newer(a, b) == a # None /\ a.rev > b.rev

----------------------------------------------------------------------------
(* The controller *)

\* hydrate: how safe the draft is that the view now shows.
Safety(u) ==
    CASE Get(u) # None /\ Get(u).draft = working[u] -> "saved"
      [] Recoverable(u) = working[u] -> "error"
      [] OTHER -> "unsaved"

\* select on a new session: the draft is what the store can recover now.
Open(u) ==
    /\ u \notin live
    /\ opened[u] < MaxOpen
    /\ LateSaves \/ \A i \in DOMAIN queue : queue[i].uuid # u
    /\ opened' = [opened EXCEPT ![u] = @ + 1]
    /\ live' = live \cup {u}
    /\ working' = [working EXCEPT ![u] = IF Recoverable(u) = None THEN Empty ELSE Recoverable(u)]
    /\ UNCHANGED <<store, io, dirty, sending, restoring, typed, erased>>
    /\ status' = [status EXCEPT ![u] = Safety(u)']

\* select on the session again: a newer recoverable draft is taken.
Reselect(u) ==
    /\ Current(u, opened[u])
    /\ working' = [working EXCEPT ![u] = IF Newer(Recoverable(u), @) THEN Recoverable(u) ELSE @]
    /\ UNCHANGED <<store, io, session, dirty, sending, restoring, typed, erased>>
    /\ status' = [status EXCEPT ![u] = Safety(u)']

\* updateDraft
Type(u) ==
    /\ Current(u, opened[u])
    /\ typed < MaxTyped
    /\ typed' = typed + 1
    /\ working' = [working EXCEPT ![u] = [rev |-> @.rev + 1, text |-> typed']]
    /\ status' = [status EXCEPT ![u] = "saving"]
    /\ dirty' = dirty \cup {u}
    /\ UNCHANGED <<store, io, session, sending, restoring, erased>>

\* save: the timer fires or a flush pre-empts it.
Save(u) ==
    /\ u \in dirty
    /\ dirty' = dirty \ {u}
    /\ queue' = Append(queue, SaveOp("save", u))
    /\ UNCHANGED <<store, writing, disk, session, working, status, sending, restoring, typed, erased>>

\* Mutant: the save timer outlives the session.
CloseKeepsTimer(u) ==
    /\ u \in live
    /\ live' = live \ {u}
    /\ status' = [status EXCEPT ![u] = "none"]
    /\ UNCHANGED <<store, io, opened, working, dirty, sending, restoring, typed, erased>>

\* close: the session is gone, its draft is flushed on the way out ...
Close(u) ==
    /\ u \in live
    /\ live' = live \ {u}
    /\ dirty' = dirty \ {u}
    /\ queue' = IF u \in dirty THEN Append(queue, SaveOp("save", u)) ELSE queue
    /\ status' = [status EXCEPT ![u] = "none"]
    /\ UNCHANGED <<store, writing, disk, opened, working, sending, restoring, typed, erased>>

\* ... and only then the working copy dropped, unless a new session has taken it over.
Closed(u) ==
    /\ u \notin live /\ working[u] # Empty
    /\ \A i \in DOMAIN queue : queue[i].uuid # u
    /\ working' = [working EXCEPT ![u] = Empty]
    /\ UNCHANGED <<store, io, session, dirty, status, sending, restoring, typed, erased>>

\* performSubmit up to the adapter: everything typed was flushed, and the
\* draft is still the one to send.
Submit(u) ==
    /\ Current(u, opened[u])
    /\ sending[u] = None
    /\ working[u].text # 0
    /\ u \notin dirty
    /\ \A i \in DOMAIN queue : queue[i].uuid # u
    /\ sending' = [sending EXCEPT ![u] = [step |-> "sent", draft |-> working[u], gen |-> opened[u]]]
    /\ UNCHANGED <<store, io, session, editor, restoring, typed, erased>>

NotAccepted(u) ==
    /\ sending[u] # None /\ sending[u].step = "sent"
    /\ sending' = [sending EXCEPT ![u] = None]
    /\ UNCHANGED <<store, io, session, editor, restoring, typed, erased>>

RecordOp(u) == Op("record", u, sending[u].draft, sending[u].gen, None)

\* Mutant: the accepted draft is cleared without being recorded.
AcceptedUnrecorded(u) ==
    /\ sending[u] # None /\ sending[u].step = "sent"
    /\ Current(u, sending[u].gen)
    /\ queue' = Append(queue, [RecordOp(u) EXCEPT !.kind = "clear"])
    /\ sending' = [sending EXCEPT ![u].step = "clearing"]
    /\ UNCHANGED <<store, writing, disk, session, editor, restoring, typed, erased>>

\* The prompt was accepted: save the draft if it is not, then record it.
Accepted(u) ==
    /\ sending[u] # None /\ sending[u].step = "sent"
    /\ LET unsaved == Get(u) = None \/ Get(u).draft.rev # working[u].rev
       IN  IF Current(u, sending[u].gen)
           THEN /\ queue' = Append(queue, IF unsaved THEN SaveOp("resave", u) ELSE RecordOp(u))
                /\ sending' = [sending EXCEPT ![u].step = IF unsaved THEN "saving" ELSE "recording"]
           ELSE sending' = [sending EXCEPT ![u] = None] /\ UNCHANGED queue
    /\ UNCHANGED <<store, writing, disk, session, editor, restoring, typed, erased>>

\* forget: the tombstone at once, the deletion in its turn.
Forget(u) ==
    /\ opened[u] > 0
    /\ u \notin forgotten
    /\ forgotten' = forgotten \cup {u}
    /\ failed' = [failed EXCEPT ![u] = None]
    /\ dirty' = dirty \ {u}
    /\ working' = [working EXCEPT ![u] = Empty]
    /\ status' = [status EXCEPT ![u] = "none"]
    /\ queue' = Append(queue, Op("forget", u, Empty, 0, None))
    /\ UNCHANGED <<shown, writing, disk, session, sending, restoring, typed, erased>>

\* performRestore: everything flushed, the ended session's draft is durable
\* and a session is launched for it.
RestoreBegins(u) ==
    /\ restoring = None
    /\ u \notin live
    /\ \A i \in DOMAIN queue : queue[i].uuid # u
    /\ Get(u) # None /\ Get(u).draft = Recoverable(u) /\ Get(u).draft.text # 0
    /\ restoring' = [uuid |-> u, draft |-> Get(u).draft, fresh |-> {v \in Uuid : opened[v] = 0}]
    /\ UNCHANGED <<store, io, session, editor, sending, typed, erased>>

\* That session is v, of a new conversation, and may be over already: move
\* the draft, or give up.
RestoreMoves(v) ==
    /\ restoring # None /\ v \in restoring.fresh
    /\ opened[v] > 0
    /\ restoring' = None
    /\ queue' = Append(queue, Op("transfer", restoring.uuid, restoring.draft, opened[v], v))
    /\ UNCHANGED <<store, writing, disk, session, editor, sending, typed, erased>>

RestoreFails ==
    /\ restoring # None
    /\ restoring' = None
    /\ UNCHANGED <<store, io, session, editor, sending, typed, erased>>

----------------------------------------------------------------------------
(* One operation of the store: nothing to do, or a write of the document,  *)
(* then what it returns to the controller.                                 *)

Unchanged(op) == Current(op.uuid, op.gen) /\ working[op.uuid] = op.draft

\* The destination has nothing typed, or its working copy is gone.
DestinationUnchanged(op) == working[op.to] = Empty

\* Mutant: the destination's tombstone is overlooked.
AvailableThoughForgotten(op) == shown[op.to] = None

Available(op) == op.to \notin forgotten /\ shown[op.to] = None

\* What the operation finds when its turn comes.
Wanted(op) ==
    LET saved == Get(op.uuid) IN
    CASE op.kind \in {"save", "resave"} ->
            /\ op.uuid \notin forgotten
            /\ ~Newer(failed[op.uuid], op.draft)
            /\ shown[op.uuid] # None => op.draft.rev > shown[op.uuid].draft.rev
      [] op.kind = "record" -> saved # None /\ Current(op.uuid, op.gen)
      [] op.kind = "clear" -> saved # None /\ saved.draft.rev = op.draft.rev /\ Unchanged(op)
      [] op.kind = "forget" -> TRUE
      [] op.kind = "transfer" ->
            /\ saved # None /\ saved.draft.rev = op.draft.rev
            /\ Available(op) /\ DestinationUnchanged(op)

\* One replacement deletes the source and creates the destination.
Moved(u, v) == [shown EXCEPT ![u] = None, ![v] = [draft |-> shown[u].draft, recent |-> {}]]

\* The sessions as the operation leaves them.
Replaced(op) ==
    LET u == op.uuid IN
    CASE op.kind \in {"save", "resave"} ->
            [shown EXCEPT ![u] = [draft |-> op.draft, recent |-> IF @ = None THEN {} ELSE @.recent]]
      [] op.kind = "record" -> [shown EXCEPT ![u].recent = @ \cup {op.draft.text}]
      [] op.kind = "clear" -> [shown EXCEPT ![u].draft = [rev |-> @.rev + 1, text |-> 0]]
      [] op.kind = "forget" -> [shown EXCEPT ![u] = None]
      [] op.kind = "transfer" -> Moved(u, op.to)

Tombstones(op) == IF op.kind = "transfer" THEN forgotten \cup {op.uuid} ELSE forgotten

\* What made the operation right may have gone while the document was written.
StillValid(op) ==
    CASE op.kind = "record" -> Current(op.uuid, op.gen)
      [] op.kind = "clear" -> op.uuid \notin forgotten /\ Unchanged(op)
      [] op.kind = "transfer" -> {op.uuid, op.to} \cap forgotten = {} /\ DestinationUnchanged(op)
      [] OTHER -> TRUE

\* What the controller does with the outcome: done, refused or failed.
Over(op) ==
    /\ queue' = Tail(queue)
    /\ sending' = IF op.kind \in {"resave", "record", "clear"}
                  THEN [sending EXCEPT ![op.uuid] = None] ELSE sending

Continue(op, step, next) ==
    /\ queue' = Append(Tail(queue), next)
    /\ sending' = [sending EXCEPT ![op.uuid].step = step]
    /\ UNCHANGED <<working, status>>

\* composerDraftStatus: the view takes it for the revision it shows.
Report(op, answer) ==
    /\ Over(op)
    /\ status' = IF Current(op.uuid, op.gen) /\ working[op.uuid].rev = op.draft.rev
                 THEN [status EXCEPT ![op.uuid] = answer] ELSE status
    /\ UNCHANGED working

\* The controller takes the drafts there now are and shows that of u.
Adopt(op, u, drafts) ==
    /\ Over(op)
    /\ working' = drafts
    /\ status' = [v \in Uuid |-> IF v = u THEN Safety(v)' ELSE status[v]]

Return(op, outcome) ==
    \/ op.kind = "save" /\ Report(op, IF outcome = "done" THEN "saved" ELSE "error")
    \/ op.kind = "resave" /\ outcome = "done" /\ Continue(op, "recording", RecordOp(op.uuid))
    \/ op.kind = "resave" /\ outcome # "done" /\ Report(op, "error")
    \/ op.kind = "record" /\ outcome # "failed" /\ Continue(op, "clearing", [op EXCEPT !.kind = "clear"])
    \/ op.kind = "record" /\ outcome = "failed" /\ Report(op, "error")
    \/ op.kind = "clear" /\ outcome = "failed" /\ Report(op, "error")
    \/ /\ op.kind = "clear" /\ outcome # "failed"
       /\ IF Current(op.uuid, op.gen) /\ Get(op.uuid) # None
          THEN Adopt(op, op.uuid, IF outcome = "done"
                                  THEN [working EXCEPT ![op.uuid] = shown'[op.uuid].draft] ELSE working)
          ELSE Over(op) /\ UNCHANGED <<working, status>>
    \/ /\ op.kind = "transfer" /\ outcome = "done"
       /\ LET rest == [working EXCEPT ![op.uuid] = Empty]
          IN  IF op.to \in live THEN Adopt(op, op.to, [rest EXCEPT ![op.to] = shown'[op.to].draft])
              ELSE Over(op) /\ working' = rest /\ UNCHANGED status
    \/ /\ op.kind = "forget" \/ (op.kind = "transfer" /\ outcome # "done")
       /\ Over(op) /\ UNCHANGED <<working, status>>

\* The operation ends without a write.
Skip ==
    /\ queue # <<>> /\ writing = None
    /\ LET op == Head(queue)
           same == /\ op.kind \in {"save", "resave"} /\ op.uuid \notin forgotten
                   /\ ~Newer(failed[op.uuid], op.draft)
                   /\ shown[op.uuid] # None /\ shown[op.uuid].draft = op.draft
       IN  /\ ~Wanted(op)
           /\ UNCHANGED <<store, writing, disk, session, dirty, restoring, typed, erased>>
           /\ Return(op, IF same THEN "done" ELSE "refused")

\* Mutant: the change is published before it is stored.
WritePublishesFirst ==
    /\ queue # <<>> /\ writing = None
    /\ LET op == Head(queue)
       IN  /\ Wanted(op)
           /\ writing' = [document |-> [sessions |-> Replaced(op), forgotten |-> Tombstones(op)],
                          undo |-> FALSE]
           /\ shown' = Replaced(op)
    /\ UNCHANGED <<forgotten, failed, queue, disk, session, editor, sending, restoring, typed, erased>>

\* persist: the document is taken now, tombstones included.
Write ==
    /\ queue # <<>> /\ writing = None
    /\ LET op == Head(queue)
       IN  /\ Wanted(op)
           /\ writing' = [document |-> [sessions |-> Replaced(op), forgotten |-> Tombstones(op)],
                          undo |-> FALSE]
    /\ UNCHANGED <<store, queue, disk, session, editor, sending, restoring, typed, erased>>

\* retainFailed
Retained(op) ==
    IF op.kind \in {"save", "resave"} /\ op.uuid \notin forgotten /\ ~Newer(Recoverable(op.uuid), op.draft)
    THEN [failed EXCEPT ![op.uuid] = op.draft] ELSE failed

\* Storage refuses the write, be it of the change or of its undoing.
WriteFails ==
    /\ writing # None
    /\ writing' = None
    /\ LET op == Head(queue)
       IN  /\ failed' = Retained(op)
           /\ UNCHANGED <<shown, forgotten, disk, session, dirty, restoring, typed, erased>>
           /\ Return(op, IF op.kind = "clear" /\ ~StillValid(op) THEN "refused" ELSE "failed")

\* The document is stored, but no longer right: write the previous one.
WriteUndone ==
    /\ writing # None /\ ~writing.undo
    /\ ~StillValid(Head(queue))
    /\ disk' = writing.document
    /\ writing' = [document |-> [sessions |-> shown, forgotten |-> forgotten], undo |-> TRUE]
    /\ UNCHANGED <<store, queue, session, editor, sending, restoring, typed, erased>>

\* Failed drafts that this write made durable, or that were forgotten, go.
Superseded(v, sessions) ==
    v \in forgotten \/ (sessions[v] # None /\ failed[v] # None /\ sessions[v].draft.rev >= failed[v].rev)

Landed(op) ==
    CASE writing.undo -> IF op.kind = "clear" THEN "refused" ELSE "failed"
      [] op.kind \in {"save", "resave"} /\ op.uuid \in forgotten -> "refused"
      [] OTHER -> "done"

\* The document is stored and published.
WriteLands ==
    /\ writing # None
    /\ LET op == Head(queue)
           sessions == writing.document.sessions
           gone == IF ~writing.undo /\ op.kind = "transfer" THEN {op.uuid} ELSE {}
       IN  /\ writing.undo \/ StillValid(op)
           /\ disk' = writing.document
           /\ writing' = None
           /\ shown' = sessions
           /\ failed' = [v \in Uuid |-> IF Superseded(v, sessions) THEN None ELSE failed[v]]
           /\ forgotten' = forgotten \cup gone
           /\ erased' = erased \cup (IF op.kind = "forget" THEN {op.uuid} ELSE gone)
           /\ UNCHANGED <<session, dirty, restoring, typed>>
           /\ Return(op, Landed(op))

\* load: the window reloads.
Reload ==
    /\ shown' = [u \in Uuid |-> IF u \in disk.forgotten THEN None ELSE disk.sessions[u]]
    /\ forgotten' = disk.forgotten
    /\ failed' = [u \in Uuid |-> None]
    /\ queue' = <<>> /\ writing' = None
    /\ live' = {} /\ dirty' = {}
    /\ working' = [u \in Uuid |-> Empty]
    /\ status' = [u \in Uuid |-> "none"]
    /\ sending' = [u \in Uuid |-> None]
    /\ restoring' = None
    /\ UNCHANGED <<disk, opened, typed, erased>>

Store == Skip \/ Write \/ WriteFails \/ WriteUndone \/ WriteLands

Next ==
    \/ \E u \in Uuid : \/ Open(u) \/ Reselect(u) \/ Type(u) \/ Save(u) \/ Close(u) \/ Closed(u)
                       \/ Submit(u) \/ NotAccepted(u) \/ Accepted(u) \/ Forget(u)
                       \/ RestoreBegins(u) \/ RestoreMoves(u)
    \/ RestoreFails
    \/ Store
    \/ Reload

Spec == Init /\ [][Next]_vars

----------------------------------------------------------------------------
(* Properties *)

\* Where a document has a text: as a draft, or as a recent prompt of u.
Has(sessions, u, text) ==
    \/ \E v \in Uuid : sessions[v] # None /\ sessions[v].draft.text = text
    \/ sessions[u] # None /\ text \in sessions[u].recent

\* "Saved" is true of the disk: the draft of a live session shown as saved is
\* the one the store has published, and the text of every draft the store shows
\* survives a reload, whatever write is under way, fails or is undone.  And
\* while the host lives, the text of an open draft is never only in the view:
\* once nothing is under way, saved or not, reopening the conversation finds it.
SavedSurvives ==
    /\ \A u \in live \ forgotten :
         status[u] = "saved" => shown[u] # None /\ shown[u].draft = working[u]
    /\ \A u \in Uuid \ forgotten : (shown[u] # None /\ shown[u].draft.text # 0) =>
         /\ Has(disk.sessions, u, shown[u].draft.text)
         /\ disk.sessions[u] = None => u \in disk.forgotten
    /\ \A u \in live \ forgotten :
         (queue = <<>> /\ u \notin dirty /\ sending[u] = None /\ working[u].text # 0)
             => Recoverable(u) = working[u]

\* A published text goes only for a newer text of its conversation, into its
\* recent prompts, with a conversation it is restored to, or with the
\* conversation that the user forgot.
DraftsKept ==
    [][\A u \in Uuid : (shown[u] # None /\ shown[u].draft.text # 0 /\ u \notin forgotten) =>
          LET text == shown[u].draft.text
          IN  \/ Has(shown', u, text)
              \/ shown'[u] # None /\ shown'[u].draft.text > text]_vars

\* A draft that was moved or forgotten is nowhere else.  A transferred draft is
\* never in two conversations, neither in storage nor in what the store shows;
\* and once its deletion is confirmed, nothing of a forgotten conversation comes
\* back: not by an operation that was already under way, nor by a reload.
NoSecondCopy ==
    /\ \A sessions \in {disk.sessions, shown} : \A u, v \in Uuid :
         (u # v /\ sessions[u] # None /\ sessions[v] # None /\ sessions[u].draft.text # 0)
             => sessions[u].draft.text # sessions[v].draft.text
    /\ \A u \in erased : /\ u \in forgotten /\ u \in disk.forgotten
                         /\ shown[u] = None /\ disk.sessions[u] = None
=============================================================================
