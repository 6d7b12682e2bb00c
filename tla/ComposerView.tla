---------------------------- MODULE ComposerView ----------------------------
(***************************************************************************)
(* The prompt editor of the session view (composer/view.ts) and the host's *)
(* side of it (composerController.ts, routed by composerRuntime.ts).  Each *)
(* holds a copy of the draft and may change it: the user types while the   *)
(* host clears a prompt that was accepted, recalls an old one or imports   *)
(* what stands in Claude's own input box.  Messages go through two queues, *)
(* and revisions decide which copy wins.                                   *)
(*                                                                         *)
(* A text is the set of the pieces of which it is made; moving the cursor  *)
(* is a change that keeps them all.  Storage (ComposerStore) and Claude    *)
(* (PromptDelivery) answer in one step.  All conversations are live and    *)
(* can be sent to.                                                         *)
(***************************************************************************)
EXTENDS Naturals, FiniteSets, Sequences, SequencesExt

CONSTANTS
    Conv,           \* conversations, one session each
    None,
    MaxPieces,      \* bound: pieces that are typed
    MaxEvents,      \* bound: whatever else the user, the window and failures begin
    MaxUp           \* bound: messages the user's doings leave on their way to the host

ASSUME BoundsAssumption == MaxPieces \in Nat \ {0} /\ MaxEvents \in Nat \ {0}
                            /\ MaxUp \in Nat \ {0}

VARIABLES
    drafts,         \* ComposerController.working
    stored,         \* the drafts that are saved
    saving,         \* ComposerController.pending, writing
    active,         \* the active session, and the controller's selection
    visible,        \* ComposerController.visible
    sends,          \* sendChains: submissions of a conversation, one at a time
    uncertainties,  \* ComposerController.uncertainties
    recent,         \* the latest prompt in the history of recent ones
    imports,        \* ComposerController.imports
    native,         \* what stands in Claude's input box
    view,           \* createComposerView
    up, down,       \* messages to the host and to the view
    typed,          \* where each piece was typed
    fate,           \* ghost: what became of pieces other than staying in a draft
    left,           \* ghost: conversations the view left while an edit was on its way
    events

host == <<drafts, stored, saving, active, visible, sends, uncertainties, recent, imports>>
ghost == <<typed, fate, left>>
vars == <<host, native, view, up, down, ghost, events>>

Piece == 1..MaxPieces
Text == SUBSET Piece
Draft == [rev : Nat, text : Text]
Id == 1..MaxEvents
Outcomes == {"accepted", "rejected", "unconfirmed"}
Fates == {"sent", "erased", "unseen", "crossed"}

\* importNativeDraft: the text read from Claude's box, and whether it is still wanted.
Copies == [draft : Draft, stale : BOOLEAN, step : {"reading", "saving", "clearing"}]

ASSUME NoneAssumption == None \notin Conv /\ None \notin Copies

TypeOK ==
    /\ drafts \in [Conv -> Draft] /\ stored \in [Conv -> Draft \cup {None}]
    /\ saving \subseteq Conv /\ active \in Conv /\ visible \in BOOLEAN
    /\ \A c \in Conv : \A i \in DOMAIN sends[c] :
         sends[c][i] \in [id : Id, draft : Draft, uncertainty : Nat,
                          step : {"queued", "delivering", "clearing"}]
    /\ uncertainties \in [Conv -> Nat] /\ recent \in [Conv -> Text]
    /\ imports \in [Conv -> {None} \cup Copies]
    /\ native \in [Conv -> Text]
    /\ view \in [target : Conv \cup {None}, visible : BOOLEAN, draft : Draft, 
                 pending : Id \cup {None}, uncertain : Text \cup {None}, label : {"unsaved", "saving", "saved"}]
    /\ typed \in Seq(Conv) /\ Len(typed) <= MaxPieces
    /\ fate \in [Fates -> Text] /\ left \subseteq Conv
    /\ events \in 0..MaxEvents

Empty == [rev |-> 0, text |-> {}]

Fresh ==
    [target |-> None, visible |-> FALSE, draft |-> Empty, pending |-> None, uncertain |-> None,
     label |-> "unsaved"]

Init ==
    /\ drafts = [c \in Conv |-> Empty] /\ stored = [c \in Conv |-> None]
    /\ saving = {} /\ active \in Conv /\ visible = TRUE
    /\ sends = [c \in Conv |-> <<>>] /\ uncertainties = [c \in Conv |-> 0]
    /\ recent = [c \in Conv |-> {}] /\ imports = [c \in Conv |-> None]
    /\ native = [c \in Conv |-> {}]
    /\ view = Fresh
    /\ up = <<[kind |-> "ready"]>> /\ down = <<>>
    /\ typed = <<>> /\ fate = [f \in Fates |-> {}] /\ left = {} /\ events = 0

Happens == events < MaxEvents /\ events' = events + 1
Becomes(f, text) == fate' = [fate EXCEPT ![f] = @ \cup text]

----------------------------------------------------------------------------
(* What the host tells *)

\* Mutant: the view is told what is saved, not the working copy.
HydrationOfStore(c, draft, durable) ==
    [kind |-> "hydrate", conv |-> c, draft |-> durable, visible |-> visible, label |-> "saved"]

\* hydrate: the draft, and whether it is the one that is saved.
Hydration(c, draft, durable) ==
    [kind |-> "hydrate", conv |-> c, draft |-> draft, visible |-> visible,
     label |-> IF draft = durable THEN "saved" ELSE "unsaved"]

Status(c, rev, label) == [kind |-> "status", conv |-> c, rev |-> rev, label |-> label]
Result(c, id, status) == [kind |-> "result", conv |-> c, id |-> id, status |-> status]

\* importNativeDraft: begun for an empty draft, unless one is under way or the editor is hidden.
Imports(c, shown, before) ==
    IF drafts[c].text = {} /\ before[c] = None /\ shown
    THEN [before EXCEPT ![c] = [draft |-> drafts[c], stale |-> FALSE, step |-> "reading"]]
    ELSE before

\* What was begun before a selection, a hiding or a new document does not go on.
OutOfDate ==
    [c \in Conv |-> IF imports[c] = None THEN None ELSE [imports[c] EXCEPT !.stale = TRUE]]

\* select: the view is told the draft of the session that is shown.
Selects(c) ==
    /\ active' = c
    /\ down' = Append(down, Hydration(c, drafts[c], stored[c]))
    /\ imports' = Imports(c, visible, OutOfDate)
    /\ UNCHANGED <<drafts, stored, saving, visible, sends, uncertainties, recent>>

\* setVisible: so is a view that is shown or hidden, and its empty draft is filled.
Shows(value) ==
    /\ visible' = value
    /\ down' = Append(down, [Hydration(active, drafts[active], stored[active])
                              EXCEPT !.visible = value])
    /\ imports' = Imports(active, value, IF value THEN imports ELSE OutOfDate)
    /\ UNCHANGED <<drafts, stored, saving, active, sends, uncertainties, recent>>

----------------------------------------------------------------------------
(* What the host is told *)

\* updateDraft: an older revision, or another text of the same one, is not taken.
Stale(c, draft) ==
    draft.rev < drafts[c].rev \/ (draft.rev = drafts[c].rev /\ draft # drafts[c])

Updates(c, draft, told) ==
    /\ drafts' = [drafts EXCEPT ![c] = draft]
    /\ saving' = saving \cup {c}
    /\ down' = down \o <<Status(c, draft.rev, "saving")>> \o told

\* Mutant: edits are taken only of the session that is shown (isActive for isOwned).
EditedIfActive(c, draft) ==
    /\ IF c # active \/ Stale(c, draft) THEN UNCHANGED <<drafts, saving, down>>
       ELSE Updates(c, draft, <<>>)
    /\ UNCHANGED <<stored, active, visible, sends, uncertainties, recent, imports, fate, left>>

\* composerDraftChanged: taken of any session, the one the view has left included.
Edited(c, draft) ==
    /\ IF Stale(c, draft) THEN UNCHANGED <<drafts, saving, down>> ELSE Updates(c, draft, <<>>)
    /\ left' = IF Stale(c, draft) /\ c # view.target THEN left \cup {c} ELSE left
    /\ UNCHANGED <<stored, active, visible, sends, uncertainties, recent, imports, fate>>

\* recallHistory: only into the draft the user saw when choosing.
Recalled(c, m) ==
    LET text == IF m.append THEN drafts[c].text \cup recent[c] ELSE recent[c]
        draft == [rev |-> m.rev + 1, text |-> text]
    IN  /\ IF c = active /\ drafts[c].rev = m.rev
           THEN /\ Updates(c, draft, <<Hydration(c, draft, stored[c])>>)
                /\ Becomes("erased", drafts[c].text \ text)
           ELSE UNCHANGED <<drafts, saving, down, fate>>
        /\ UNCHANGED <<stored, active, visible, sends, uncertainties, recent, imports, left>>

\* submit: what comes for a session that is not shown is dropped.
Submitted(c, m) ==
    /\ sends' = IF c # active THEN sends
                ELSE [sends EXCEPT ![c] = Append(@,
                        [id |-> m.id, draft |-> m.draft, uncertainty |-> uncertainties[c],
                         step |-> "queued"])]
    /\ UNCHANGED <<drafts, stored, saving, active, visible, uncertainties, recent, imports, down, fate, left>>

\* documentReady: a new document is told all.
Ready == Selects(active)

\* ComposerRuntime.handle, and the selection that the session view asks for.
Handles ==
    /\ up # <<>> /\ up' = Tail(up)
    /\ LET m == Head(up)
       IN  \/ m.kind = "ready" /\ Ready /\ UNCHANGED <<fate, left>>
           \/ m.kind = "activate" /\ UNCHANGED <<fate, left>>
              /\ IF m.conv = active THEN UNCHANGED <<host, down>> ELSE Selects(m.conv)
           \/ m.kind = "visible" /\ Shows(m.value) /\ UNCHANGED <<fate, left>>
           \/ m.kind = "edit" /\ Edited(m.conv, m.draft)
           \/ m.kind = "recall" /\ Recalled(m.conv, m)
           \/ m.kind = "send" /\ Submitted(m.conv, m)
    /\ UNCHANGED <<native, view, typed, events>>

\* The selection changes by a command, or because another session starts.
Switches ==
    /\ Happens
    /\ \E c \in Conv \ {active} : Selects(c)
    /\ UNCHANGED <<native, view, up, ghost>>

----------------------------------------------------------------------------
(* Saving, sending and importing *)

\* save: the timer fires, or a flush does not wait for it.  The write of an import goes first.
Saves(c) ==
    /\ c \in saving /\ (imports[c] # None => imports[c].step # "saving")
    /\ saving' = saving \ {c}
    /\ \/ /\ stored' = [stored EXCEPT ![c] = drafts[c]]
          /\ down' = Append(down, Status(c, drafts[c].rev, "saved"))
          /\ UNCHANGED events
       \/ /\ Happens /\ UNCHANGED stored
          /\ down' = Append(down, Status(c, drafts[c].rev, "unsaved"))
    /\ UNCHANGED <<drafts, active, visible, sends, uncertainties, recent, imports, native, view, up, ghost>>

Flushed == saving = {} /\ \A c \in Conv : imports[c] # None => imports[c].step # "saving"

\* performSubmit: once the import is over and all is written, for the draft that was shown only.
SendStarts(c) ==
    /\ sends[c] # <<>> /\ sends[c][1].step = "queued"
    /\ imports[c] = None /\ Flushed
    /\ LET s == sends[c][1]
       IN  IF drafts[c] = s.draft /\ uncertainties[c] = s.uncertainty
           THEN sends' = [sends EXCEPT ![c][1].step = "delivering"] /\ UNCHANGED down
           ELSE /\ sends' = [sends EXCEPT ![c] = Tail(@)]
                /\ down' = Append(down, Result(c, s.id, "rejected"))
    /\ UNCHANGED <<drafts, stored, saving, active, visible, uncertainties, recent, imports,
                   native, view, up, ghost, events>>

\* The adapter answers; an unconfirmed delivery puts in doubt what is queued behind it.
SendEnds(c, outcome) ==
    /\ sends[c] # <<>> /\ sends[c][1].step = "delivering"
    /\ LET s == sends[c][1]
       IN  IF outcome = "accepted"
           THEN /\ sends' = [sends EXCEPT ![c][1].step = "clearing"]
                /\ Becomes("sent", s.draft.text)
                /\ UNCHANGED down
           ELSE /\ sends' = [sends EXCEPT ![c] = Tail(@)]
                /\ down' = Append(down, Result(c, s.id, outcome))
                /\ UNCHANGED fate
    /\ uncertainties' = IF outcome = "unconfirmed"
                        THEN [uncertainties EXCEPT ![c] = sends[c][1].uncertainty + 1]
                        ELSE uncertainties
    /\ UNCHANGED <<drafts, stored, saving, active, visible, recent, imports, native, view, up, typed,
                   left, events>>

\* What was accepted is cleared, under a revision of its own, unless it was changed meanwhile.
SendClears(c) ==
    /\ sends[c] # <<>> /\ sends[c][1].step = "clearing"
    /\ sends' = [sends EXCEPT ![c] = Tail(@)]
    /\ LET s == sends[c][1]
           result == Result(c, s.id, "accepted")
           cleared == drafts[c] = s.draft
           draft == IF cleared THEN [rev |-> s.draft.rev + 1, text |-> {}] ELSE drafts[c]
           durable == IF cleared \/ stored[c] = None \/ stored[c].rev # draft.rev
                      THEN draft ELSE stored[c]
           shown == IF c = active THEN <<Hydration(c, draft, durable)>> ELSE <<>>
       IN  \/ /\ drafts' = [drafts EXCEPT ![c] = draft]
              /\ stored' = [stored EXCEPT ![c] = durable]
              /\ recent' = [recent EXCEPT ![c] = s.draft.text]
              /\ down' = down \o (IF cleared THEN <<Status(c, draft.rev, "saved")>> ELSE <<>>)
                              \o shown \o <<result>>
              /\ UNCHANGED events
           \/ /\ Happens
              /\ down' = down \o <<Status(c, s.draft.rev, "unsaved"), result>>
              /\ UNCHANGED <<drafts, stored, recent>>
    /\ UNCHANGED <<saving, active, visible, uncertainties, imports, native, view, up, ghost>>

Importing(c, step) == imports[c] # None /\ imports[c].step = step
ImportOver(c) == imports' = [imports EXCEPT ![c] = None]

\* Claude's box was read; it is taken if nothing was selected, or typed here, since.
ImportReads(c) ==
    /\ Importing(c, "reading")
    /\ IF imports[c].stale \/ native[c] = {} \/ drafts[c] # imports[c].draft
       THEN ImportOver(c) /\ UNCHANGED <<drafts, down>>
       ELSE LET draft == [rev |-> drafts[c].rev + 1, text |-> native[c]]
            IN  /\ imports' = [imports EXCEPT ![c].step = "saving", ![c].draft = draft]
                /\ drafts' = [drafts EXCEPT ![c] = draft]
                /\ down' = down \o <<Status(c, draft.rev, "saving"),
                                     Hydration(c, draft, stored[c])>>
    /\ UNCHANGED <<stored, saving, active, visible, sends, uncertainties, recent, native, view, up,
                   ghost, events>>

\* The copy is saved; copyCurrent: the box is cleared only while the editor still holds it ...
ImportSaves(c) ==
    /\ Importing(c, "saving")
    /\ LET draft == imports[c].draft
           current == ~imports[c].stale /\ drafts[c].text = draft.text
       IN  \/ /\ stored' = [stored EXCEPT ![c] = draft]
              /\ down' = Append(down, Status(c, draft.rev, "saved"))
              /\ IF current THEN imports' = [imports EXCEPT ![c].step = "clearing"]
                            ELSE ImportOver(c)
              /\ UNCHANGED events
           \/ /\ Happens /\ ImportOver(c) /\ UNCHANGED stored
              /\ down' = Append(down, Status(c, draft.rev, "unsaved"))
    /\ UNCHANGED <<drafts, saving, active, visible, sends, uncertainties, recent, native, view, up,
                   ghost>>

\* ... and only if it still holds what was read; the hook may also fail to.
ImportClears(c) ==
    /\ Importing(c, "clearing") /\ ImportOver(c)
    /\ LET text == imports[c].draft.text
           seen == IF view.target = c THEN view.draft.text \cap drafts[c].text ELSE {}
       IN  IF native[c] = text
           THEN \/ native' = [native EXCEPT ![c] = {}] /\ UNCHANGED events
                   /\ Becomes("crossed", text \ seen)
                \/ Happens /\ UNCHANGED <<native, fate>>
           ELSE UNCHANGED <<native, fate, events>>
    /\ UNCHANGED <<drafts, stored, saving, active, visible, sends, uncertainties, recent, view, up, down,
                   typed, left>>

\* The user types into Claude's own box.
TypesNative ==
    /\ Len(typed) < MaxPieces
    /\ \E c \in Conv : /\ native' = [native EXCEPT ![c] = @ \cup {Len(typed) + 1}]
                       /\ typed' = Append(typed, c)
    /\ UNCHANGED <<host, view, up, down, fate, left, events>>

----------------------------------------------------------------------------
(* The view *)

Posts(message) == up' = Append(up, message)
Acts(message) == Len(up) < MaxUp /\ Posts(message)
EditOf(c, draft) == [kind |-> "edit", conv |-> c, draft |-> draft]

\* The editor's onChange: every change has a revision of its own and is posted at once.
Changes(text) ==
    LET draft == [rev |-> view.draft.rev + 1, text |-> text]
    IN  /\ view.target # None /\ view.visible
        /\ view' = [view EXCEPT !.draft = draft, !.label = "saving",
                                !.uncertain = IF text = @ THEN @ ELSE None]
        /\ Acts(EditOf(view.target, draft))

Types ==
    /\ Len(typed) < MaxPieces
    /\ Changes(view.draft.text \cup {Len(typed) + 1})
    /\ typed' = Append(typed, view.target)
    /\ UNCHANGED <<host, native, down, fate, left, events>>

\* Some of the text is erased, or the cursor is moved.
Erases ==
    /\ Happens
    /\ \E erased \in SUBSET view.draft.text :
         Changes(view.draft.text \ erased) /\ Becomes("erased", erased)
    /\ UNCHANGED <<host, native, down, typed, left>>

\* submit: by the button (explicit) or by the shortcut, which never repeats what is in doubt.
Sends(explicit) ==
    /\ Happens
    /\ view.target # None /\ view.visible /\ view.pending = None /\ view.draft.text # {}
    /\ view.uncertain # None => explicit
    /\ view' = [view EXCEPT !.pending = events', !.uncertain = None]
    /\ Acts([kind |-> "send", conv |-> view.target, id |-> events', draft |-> view.draft])
    /\ UNCHANGED <<host, native, down, ghost>>

\* openHistory: a recent prompt is chosen; it can be appended only to some text.
Recalls(append) ==
    /\ Happens
    /\ view.target # None /\ view.visible /\ recent[view.target] # {}
    /\ append => view.draft.text # {}
    /\ Acts([kind |-> "recall", conv |-> view.target, append |-> append,
             rev |-> view.draft.rev])
    /\ UNCHANGED <<host, native, view, down, ghost>>

\* Another tab is clicked.
Activates ==
    /\ Happens /\ view.target # None
    /\ \E c \in Conv \ {view.target} : Acts([kind |-> "activate", conv |-> c])
    /\ UNCHANGED <<host, native, view, down, ghost>>

\* The editor is hidden or shown.
Toggles ==
    /\ Happens /\ view.target # None
    /\ view' = [view EXCEPT !.visible = ~@]
    /\ Acts([kind |-> "visible", value |-> view'.visible])
    /\ UNCHANGED <<host, native, down, ghost>>

OnItsWay(c) == \E i \in DOMAIN up : up[i].kind = "edit" /\ up[i].conv = c

\* editor.setDraft: onChange is off meanwhile, so nothing is posted for it.
Sets(draft) == [view EXCEPT !.draft = draft]

\* hydrate of another session than the one shown: all is taken from the host.
Turns(m) ==
    /\ view' = [Sets(m.draft) EXCEPT !.target = m.conv, !.visible = m.visible, !.label = m.label,
                                     !.pending = None, !.uncertain = None]
    /\ left' = left \cup {c \in {m.conv} : OnItsWay(c) \/ drafts[c] # m.draft}
                    \cup {c \in Conv : c = view.target /\ ~OnItsWay(c)
                                       /\ ~(view.draft.text \subseteq drafts[c].text)}
    /\ UNCHANGED up

\* Mutant: only a later revision is taken, an equal one is ignored.
RefreshesLater(m) ==
    /\ view' = IF m.draft.rev > view.draft.rev \/ m.draft = view.draft
               THEN [view EXCEPT !.draft = m.draft, !.label = m.label, !.visible = m.visible]
               ELSE [view EXCEPT !.visible = m.visible]
    /\ UNCHANGED <<up, left>>

\* hydrate of the session shown: a later draft is taken, an older one is not; where both sides
\* have given a revision to different texts, the user's gets the next.
Refreshes(m) ==
    LET current == view.draft
        rebased == [current EXCEPT !.rev = @ + 1]
    IN  /\ \/ /\ m.draft.rev > current.rev \/ m.draft = current
              /\ view' = [Sets(m.draft) EXCEPT !.label = m.label, !.visible = m.visible]
              /\ UNCHANGED up
           \/ /\ m.draft.rev = current.rev /\ m.draft # current
              /\ view' = [Sets(rebased) EXCEPT !.label = "saving", !.visible = m.visible]
              /\ Posts(EditOf(m.conv, rebased))
           \/ /\ m.draft.rev < current.rev
              /\ view' = [view EXCEPT !.visible = m.visible]
              /\ UNCHANGED up
        /\ UNCHANGED left

\* handleHostMessage: what is not about the session shown is ignored.
Receives ==
    /\ down # <<>> /\ down' = Tail(down)
    /\ LET m == Head(down)
       IN  \/ m.kind = "hydrate" /\ m.conv # view.target /\ Turns(m)
           \/ m.kind = "hydrate" /\ m.conv = view.target /\ Refreshes(m)
           \/ /\ m.kind = "status" /\ UNCHANGED <<up, left>>
              /\ view' = IF m.conv = view.target /\ m.rev = view.draft.rev
                         THEN [view EXCEPT !.label = m.label] ELSE view
           \/ /\ m.kind = "result" /\ UNCHANGED <<up, left>>
              /\ view' = IF m.conv = view.target /\ view.pending \in {None, m.id}
                         THEN [view EXCEPT !.pending = None,
                                 !.uncertain = IF m.status = "unconfirmed"
                                               THEN view.draft.text ELSE @]
                         ELSE view
    /\ UNCHANGED <<host, native, typed, fate, events>>

\* The document is replaced: it forgets all, and what was on its way may be lost.
Reloads ==
    /\ Happens
    /\ view' = Fresh /\ down' = <<>>
    /\ \E kept \in {up, <<>>} : up' = Append(kept, [kind |-> "ready"])
    /\ imports' = OutOfDate
    /\ Becomes("unseen",
               (IF view.target = None THEN {} ELSE view.draft.text \ drafts[view.target].text)
               \cup UNION {up[i].draft.text \ drafts[up[i].conv].text :
                            i \in {j \in DOMAIN up : up[j].kind = "edit"}})
    /\ UNCHANGED <<drafts, stored, saving, active, visible, sends, uncertainties, recent, native, typed,
                   left>>

Next ==
    \/ Handles \/ Switches \/ TypesNative
    \/ Types \/ Erases \/ Activates \/ Toggles \/ Receives \/ Reloads
    \/ \E explicit \in BOOLEAN : Sends(explicit)
    \/ \E append \in BOOLEAN : Recalls(append)
    \/ \E c \in Conv :
         \/ Saves(c) \/ SendStarts(c) \/ SendClears(c)
         \/ \E outcome \in Outcomes : SendEnds(c, outcome)
         \/ ImportReads(c) \/ ImportSaves(c) \/ ImportClears(c)

Spec == Init /\ [][Next]_vars

----------------------------------------------------------------------------
(* Properties *)

AtRest ==
    /\ up = <<>> /\ down = <<>> /\ saving = {}
    /\ \A c \in Conv : sends[c] = <<>> /\ imports[c] = None

Gone == UNION {fate[f] : f \in Fates}

\* Whatever the user typed, in the editor or in Claude's box, is in the draft or
\* in the box once everything has arrived, unless it was sent or erased.
TextSurvives ==
    AtRest => \A p \in DOMAIN typed :
                LET c == typed[p]
                IN  p \in drafts[c].text \cup native[c] \cup Gone \/ c \in left

\* Once everything has arrived, the editor shows the session that is active and
\* the draft the host has; it does not go on saving or sending, and calls saved
\* only what is.
ViewAgrees ==
    AtRest =>
      /\ view.target = active /\ view.visible = visible /\ view.pending = None
      /\ active \notin left =>
           /\ view.draft = drafts[active]
           /\ view.label # "saving"
           /\ view.label = "saved" => view.draft = stored[active]
=============================================================================
