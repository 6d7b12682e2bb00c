---------------------------- MODULE SessionPanel ----------------------------
(***************************************************************************)
(* The session panel: the provider in the extension host                   *)
(* (sessionPanelProvider.ts), the check of which saved conversations can   *)
(* be resumed (conversationEligibility.ts), and the document that renders  *)
(* them (webview/renderer.ts).                                             *)
(*                                                                         *)
(* The host turns changes of the registry, of the saved metadata and of    *)
(* the drafts into messages; the document applies them and answers with    *)
(* what the user does.  Both queues are asynchronous, the document may be  *)
(* replaced at any time, and the eligibility of a conversation is read     *)
(* from its transcript while all of this goes on.  Registry, metadata and  *)
(* drafts are seen from the panel; the modules of those parts have their   *)
(* inside.                                                                 *)
(***************************************************************************)
EXTENDS Naturals, Sequences, FiniteSets, FiniteSetsExt, SequencesExt

CONSTANTS
    Session,      \* ids of sessions, each launched once
    Uuid,         \* Claude session ids, in the order pages list them
    None,         \* undefined
    Beginnings,   \* bound: what may be saved of a conversation when a window opens
    PageLimit,    \* RECOVERY_PAGE_LIMIT
    MaxOutput,    \* bound: pieces of output of a session
    MaxDocument,  \* bound: documents loaded
    MaxEvents     \* bound: changes from outside, all kinds together

ASSUME UuidAssumption == Uuid \subseteq Nat
ASSUME BeginningsAssumption ==
    Beginnings \subseteq [known : BOOLEAN, transcript : {None, {"meta"}, {"odd"}, {"message"}},
                          draft : BOOLEAN]
ASSUME BoundAssumption == PageLimit \in Nat \ {0} /\ {MaxOutput, MaxDocument, MaxEvents} \subseteq Nat

VARIABLES
    live,         \* the registry's sessions, in launch order
    active,       \* its selection
    printed,      \* recentOutput: pieces of output a session has produced
    known,        \* saved metadata: conversations that could be resumed
    unrecorded,   \* conversations launched whose metadata is still to be saved
    transcript,   \* the kinds of line in the conversation's files; None: no file
    draft,        \* the composer store's draft of each conversation
    forgotten,    \* its tombstones
    erasing,      \* tombstones still being written
    host,         \* the provider
    asking,       \* the rename prompt on screen
    page,         \* the webview document
    documents,    \* documents loaded so far
    toHost,       \* messages from the document under way
    events        \* changes so far

store == <<known, unrecorded, transcript>>
composer == <<draft, forgotten, erasing>>
vars == <<live, active, printed, store, composer, host, asking, page, documents, toHost, events>>

Documents == 1..MaxDocument
Snapshots == [id : Session, uuid : Uuid, state : {"running", "closing"}, renamed : BOOLEAN]
Rows == [uuid : Uuid, rev : Nat]
Requests == [revision : Nat, after : Uuid \cup {None}]
WebviewMessages ==
    [type : {"ready"}, doc : Documents]
        \cup [type : {"select", "close", "rename"}, id : Session]
        \cup [type : {"request"}, doc : Documents, request : Requests]
HostMessages ==
    [type : {"hydrate"}, sessions : Seq(Snapshots), uuids : SUBSET Uuid, active : Session \cup {None}]
        \cup [type : {"session"}, session : Snapshots]
        \cup [type : {"removed"}, id : Session]
        \cup [type : {"active"}, id : Session \cup {None}]
        \cup [type : {"data"}, id : Session, pieces : 1..MaxOutput]
        \cup [type : {"resumable"}, uuids : SUBSET Uuid]
        \cup [type : {"invalidated"}, doc : Documents, revision : Nat]
        \cup [type : {"page"}, doc : Documents, request : Requests, revision : Nat,
               rows : SUBSET Rows, next : Uuid \cup {None}]
Scans == [todo : SUBSET Uuid, eligible : SUBSET Uuid, stale : BOOLEAN]

\* The provider's fields and the messages it has posted.
Hosts ==
    [open : BOOLEAN, ready : BOOLEAN, doc : Documents \cup {None}, seen : SUBSET Documents,
     resume : SUBSET Uuid, scan : Scans \cup {None}, pending : BOOLEAN, retry : BOOLEAN,
     revision : Nat, paging : BOOLEAN, cursors : SUBSET Uuid, out : Seq(HostMessages)]
\* The state of a document.
Pages ==
    [id : Documents, loaded : BOOLEAN, hydrates : 0..2, tabs : Seq(Snapshots),
     active : Session \cup {None}, clicked : BOOLEAN, terminal : [Session -> Nat \cup {None}],
     resume : SUBSET Uuid, revision : Nat \cup {None}, request : Requests \cup {None},
     staging : SUBSET Rows, rows : SUBSET Rows]

ASSUME NoneAssumption ==
    /\ None \notin Session \cup Nat
    /\ None \notin Scans \cup Requests \cup Pages

TypeOK ==
    /\ live \in Seq(Snapshots) /\ active \in Session \cup {None}
    /\ printed \in [Session -> (0..MaxOutput) \cup {None}]
    /\ known \subseteq Uuid /\ unrecorded \subseteq Uuid
    /\ transcript \in [Uuid -> (SUBSET {"meta", "message", "odd"}) \cup {None}]
    /\ draft \in [Uuid -> [rev : 0..(MaxEvents + 1), text : BOOLEAN]]
    /\ erasing \subseteq forgotten /\ forgotten \subseteq Uuid
    /\ host \in Hosts
    /\ host.ready => host.open
    /\ host.doc # None => host.ready /\ host.doc \in host.seen
    /\ host.pending => host.scan # None
    /\ toHost \in Seq(WebviewMessages)
    /\ page \in Pages \cup {None}
    /\ asking \in [id : Session, current : BOOLEAN] \cup {None}
    /\ documents \in 0..MaxDocument /\ events \in 0..MaxEvents

----------------------------------------------------------------------------
(* What the panel reads *)

Ids(ss) == {s.id : s \in ToSet(ss)}
Uuids(ss) == {s.uuid : s \in ToSet(ss)}

\* The members of a list that are chosen, in its order.
Chosen(ss, chosen) ==
    LET f[i \in 0..Len(ss)] ==
            IF i = 0 THEN <<>>
            ELSE IF ss[i] \in chosen THEN Append(f[i - 1], ss[i]) ELSE f[i - 1]
    IN  f[Len(ss)]

\* The sessions that remain when one goes.
Without(ss, s) == Chosen(ss, {x \in ToSet(ss) : x.id # s})

\* classifyLine: a message of the user or of Claude, bookkeeping, or neither.
LineEvidence == [message |-> "present", meta |-> "absent", odd |-> "unknown"]

\* readConversation: one message is enough; without one, anything that cannot
\* be judged leaves the question open.
FileEvidence(lines) ==
    LET found == {LineEvidence[l] : l \in lines}
    IN  CASE "present" \in found -> "present"
          [] "present" \notin found /\ "unknown" \in found -> "unknown"
          [] OTHER -> "absent"

\* checkConversationEligibility
Evidence(u) == IF transcript[u] = None THEN "absent" ELSE FileEvidence(transcript[u])

Candidates(saved, ss) == saved \ Uuids(ss)

\* recoveryPage: the drafts with text, in order, after the cursor.
Recoverable == {u \in Uuid : draft[u].text /\ u \notin forgotten}

Row(u) == [uuid |-> u, rev |-> draft[u].rev]

\* The first PageLimit of a set of conversations.
FirstOf(S) == {u \in S : Cardinality({v \in S : v < u}) < PageLimit}

----------------------------------------------------------------------------
(* The host: functions from a provider to a provider *)

\* post: nothing is queued for a document that is not ready.
Posted(h, ms) == IF h.ready THEN [h EXCEPT !.out = @ \o ms] ELSE h

\* invalidateRecovery
Invalidated(h) ==
    LET n == [h EXCEPT !.revision = @ + 1, !.paging = FALSE, !.cursors = {}]
    IN  Posted(n, <<[type |-> "invalidated", doc |-> n.doc, revision |-> n.revision]>>)

\* publishResumableSessions
Published(h, next) ==
    IF next = h.resume THEN h
    ELSE Invalidated(Posted([h EXCEPT !.resume = next], <<[type |-> "resumable", uuids |-> next]>>))

Superseded(h) == IF h.scan = None THEN h ELSE [h EXCEPT !.scan.stale = TRUE]

\* Mutation: a refresh during a scan relies on the scan under way.
RefreshedOnce(h, cand) ==
    LET n == Published(Superseded(h), cand \cap h.resume)
    IN  IF h.open /\ h.scan = None
        THEN [n EXCEPT !.scan = [todo |-> cand, eligible |-> {}, stale |-> FALSE]]
        ELSE n

\* updateResumableSessions: rows already checked stay, others wait for the
\* scan; one scan runs at a time, and another follows it when asked for.
Refreshed(h, cand) ==
    LET n == Published(Superseded(h), cand \cap h.resume)
    IN  CASE ~h.open -> n
          [] h.open /\ h.scan # None -> [n EXCEPT !.pending = TRUE]
          [] h.open /\ h.scan = None ->
                [n EXCEPT !.scan = [todo |-> cand, eligible |-> {}, stale |-> FALSE]]

\* handleSessionsChanged: the difference of two lists of sessions, posted.
SessionsChanged(h, next, selected, saved) ==
    LET gone == Chosen(live, {s \in ToSet(live) : s.id \notin Ids(next)})
        news == Chosen(next, ToSet(next) \ ToSet(live))
        diff == [i \in DOMAIN gone |-> [type |-> "removed", id |-> gone[i].id]] \o
                [i \in DOMAIN news |-> [type |-> "session", session |-> news[i]]]
        told == Posted(h, diff)
        rows == IF Uuids(next) = Uuids(live) THEN told ELSE Invalidated(told)
        done == IF selected = active THEN rows
                ELSE Posted(rows, <<[type |-> "active", id |-> selected]>>)
        refreshed == Refreshed(done, Candidates(saved, next))
    IN  IF gone = <<>> THEN refreshed ELSE [refreshed EXCEPT !.retry = TRUE]


\* A loading document: it has its id, and shows and knows nothing.
Document(id) ==
    [id |-> id, loaded |-> FALSE, hydrates |-> 0, tabs |-> <<>>, active |-> None,
     clicked |-> FALSE, terminal |-> [s \in Session |-> None], resume |-> {},
     revision |-> None, request |-> None, staging |-> {}, rows |-> {}]

Snapshot(s, u) == [id |-> s, uuid |-> u, state |-> "running", renamed |-> FALSE]

\* The panel opens on a registry that has up to two sessions by then, and on
\* whatever earlier windows saved.
Init ==
    /\ live \in {<<>>} \cup {<<Snapshot(s, u)>> : s \in Session, u \in Uuid} \cup
               {p \in {Snapshot(s, u) : s \in Session, u \in Uuid} \X
                      {Snapshot(s, u) : s \in Session, u \in Uuid} :
                   p[1].id # p[2].id /\ p[1].uuid # p[2].uuid}
    /\ active \in IF live = <<>> THEN {None} ELSE Ids(live)
    /\ printed = [s \in Session |-> IF s \in Ids(live) THEN 0 ELSE None]
    /\ \E before \in [Uuid -> Beginnings] :
          /\ known = {u \in Uuid : before[u].known}
          /\ transcript = [u \in Uuid |-> before[u].transcript]
          /\ draft = [u \in Uuid |-> IF before[u].draft THEN [rev |-> 1, text |-> TRUE]
                                     ELSE [rev |-> 0, text |-> FALSE]]
    /\ unrecorded = Uuids(live) \ known
    /\ forgotten = {} /\ erasing = {}
    /\ host = [open |-> FALSE, ready |-> FALSE, doc |-> None, seen |-> {}, resume |-> {},
               scan |-> None, pending |-> FALSE, retry |-> FALSE, revision |-> 0,
               paging |-> FALSE, cursors |-> {}, out |-> <<>>]
    /\ asking = None
    /\ page = None /\ documents = 0
    /\ toHost = <<>>
    /\ events = 0

Event == events < MaxEvents /\ events' = events + 1

----------------------------------------------------------------------------
(* Around the panel: the registry, the metadata, the drafts, the disk *)

\* The registry publishes its list and the provider handles it at once.
Sessions(next, selected) ==
    /\ live' = next /\ active' = selected
    /\ host' = SessionsChanged(host, next, selected, known)

Launch(s, u) ==
    /\ Event
    /\ printed[s] = None /\ u \notin Uuids(live)
    /\ printed' = [printed EXCEPT ![s] = 0]
    /\ unrecorded' = unrecorded \cup ({u} \ known)
    /\ Sessions(Append(live, Snapshot(s, u)), s)
    /\ UNCHANGED <<known, transcript, composer, asking, page, documents, toHost>>

\* removeRecord: the selection goes to a neighbour.
Exit(s) ==
    /\ Event
    /\ s \in Ids(live)
    /\ LET i == CHOOSE k \in DOMAIN live : live[k].id = s
           rest == Without(live, s)
       IN  Sessions(rest, IF active # s THEN active
                          ELSE IF rest = <<>> THEN None
                          ELSE rest[Min({i, Len(rest)})].id)
    /\ UNCHANGED <<printed, store, composer, asking, page, documents, toHost>>

\* handleSessionData
Output(s) ==
    /\ Event
    /\ s \in Ids(live) /\ printed[s] < MaxOutput
    /\ printed' = [printed EXCEPT ![s] = @ + 1]
    /\ host' = Posted(host, <<[type |-> "data", id |-> s, pieces |-> 1]>>)
    /\ UNCHANGED <<live, active, store, composer, asking, page, documents, toHost>>

\* The metadata of a new conversation is saved, or that of an ended one removed.
\* (The update of a resumed one only refreshes, as ShowView does.)
MetadataChanged(saved) ==
    /\ known' = saved
    /\ host' = Refreshed(host, Candidates(saved, live))
    /\ UNCHANGED <<live, active, printed, transcript, composer, asking, page, documents, toHost>>

Recorded(u) ==
    /\ u \in unrecorded
    /\ unrecorded' = unrecorded \ {u}
    /\ MetadataChanged(known \cup {u})
    /\ UNCHANGED events

ForgetMetadata(u) ==
    /\ Event
    /\ u \in known \ Uuids(live)
    /\ MetadataChanged(known \ {u})
    /\ UNCHANGED unrecorded

\* The CLI writes its transcript while it runs or, late, within the second
\* the provider waits before it looks again.
Flush(u) ==
    /\ Event
    /\ u \in Uuids(live) \/ host.retry \/ ~host.open
    /\ transcript' = [transcript EXCEPT ![u] = (IF @ = None THEN {} ELSE @) \cup {"message"}]
    /\ UNCHANGED <<live, active, printed, known, unrecorded, composer, host, asking, page,
                   documents, toHost>>

\* A draft is saved or cleared; a new text for the draft of a live session,
\* which no list shows, invalidates nothing.
DraftSaved(u, text) ==
    /\ Event
    /\ u \notin forgotten
    /\ draft[u].text \/ text
    /\ draft' = [draft EXCEPT ![u] = [rev |-> @.rev + 1, text |-> text]]
    /\ host' = IF draft[u].text /\ text /\ u \in Uuids(live) THEN host ELSE Invalidated(host)
    /\ UNCHANGED <<live, active, printed, store, forgotten, erasing, asking, page, documents, toHost>>

\* ComposerStore.forget: the tombstone counts at once, the draft goes when
\* the deletion is written, and only then is the list invalidated.
ForgetDraft(u) ==
    /\ Event
    /\ u \notin forgotten \cup Uuids(live) /\ draft[u].text
    /\ forgotten' = forgotten \cup {u}
    /\ erasing' = erasing \cup {u}
    /\ UNCHANGED <<live, active, printed, store, draft, host, asking, page, documents, toHost>>

ForgetSettles(u, ok) ==
    /\ u \in erasing
    /\ erasing' = erasing \ {u}
    /\ draft' = IF ok THEN [draft EXCEPT ![u].text = FALSE] ELSE draft
    /\ host' = IF ok THEN Invalidated(host) ELSE host
    /\ UNCHANGED <<live, active, printed, store, forgotten, asking, page, documents, toHost, events>>

----------------------------------------------------------------------------
(* The view and its documents *)

\* The document that ends takes the messages under way to it along.
Replaced(h) ==
    /\ documents < MaxDocument
    /\ documents' = documents + 1
    /\ page' = Document(documents')
    /\ host' = [h EXCEPT !.out = <<>>]

\* Prompts of an older view are no longer answered (viewGeneration).
OtherView == asking' = IF asking = None THEN None ELSE [asking EXCEPT !.current = FALSE]

\* resolveWebviewView; the first time is not counted.
ResolveView ==
    /\ IF documents = 0 THEN UNCHANGED events ELSE Event
    /\ LET h == [host EXCEPT !.open = TRUE, !.ready = FALSE, !.doc = None, !.seen = {}]
       IN  Replaced([Refreshed(h, Candidates(known, live)) EXCEPT !.retry = TRUE])
    /\ OtherView
    /\ toHost' = <<>>
    /\ UNCHANGED <<live, active, printed, store, composer>>

\* Mutation: a closed view leaves the provider posting.
ClosedStillReady(h) == [Superseded(h) EXCEPT !.open = FALSE, !.seen = {}, !.retry = FALSE, !.out = <<>>]

Closed(h) ==
    [Superseded(h) EXCEPT !.open = FALSE, !.ready = FALSE, !.doc = None, !.seen = {},
                          !.retry = FALSE, !.out = <<>>]

DisposeView ==
    /\ Event
    /\ host.open
    /\ host' = Closed(host)
    /\ page' = None
    /\ OtherView
    /\ toHost' = <<>>
    /\ UNCHANGED <<live, active, printed, store, composer, documents>>

\* The view becomes visible: its document was retained.
ShowView ==
    /\ Event
    /\ host.open
    /\ host' = Refreshed(host, Candidates(known, live))
    /\ UNCHANGED <<live, active, printed, store, composer, asking, page, documents, toHost>>

\* VS Code reloads the document of a view without telling the provider.
ReloadDocument ==
    /\ Event
    /\ host.open
    /\ Replaced(host)
    /\ UNCHANGED <<live, active, printed, store, composer, asking, toHost>>

\* The script runs; what was posted to the document before may be lost.
DocumentLoads ==
    /\ page # None /\ ~page.loaded
    /\ page' = [page EXCEPT !.loaded = TRUE]
    /\ toHost' = Append(toHost, [type |-> "ready", doc |-> page.id])
    /\ host' \in {host, [host EXCEPT !.out = <<>>]}
    /\ UNCHANGED <<live, active, printed, store, composer, asking, documents, events>>

----------------------------------------------------------------------------
(* The eligibility scan *)

\* The finally of updateResumableSessions.
Settled(h) ==
    LET n == [h EXCEPT !.scan = None, !.pending = FALSE]
    IN  IF h.pending THEN Refreshed(n, Candidates(known, live)) ELSE n

Checked(scan) ==
    LET u == Min(scan.todo)
    IN  [scan EXCEPT !.todo = @ \ {u},
                     !.eligible = IF Evidence(u) = "absent" THEN @ ELSE @ \cup {u}]

\* Mutation: what a superseded scan found is published.
ScanStepBlindly(h) ==
    LET scan == IF h.scan.todo = {} THEN h.scan ELSE Checked(h.scan)
    IN  IF scan.todo = {} THEN Settled(Published(h, scan.eligible)) ELSE [h EXCEPT !.scan = scan]

\* checkResumableSessions: the answer for one conversation, unless the scan
\* was superseded meanwhile; the last answer publishes them all.
ScanStep(h) ==
    LET scan == Checked(h.scan)
    IN  IF h.scan.stale \/ h.scan.todo = {} THEN Settled(h)
        ELSE IF scan.todo = {} THEN Settled(Published(h, scan.eligible))
        ELSE [h EXCEPT !.scan = scan]

ScanChecks ==
    /\ host.scan # None
    /\ host' = ScanStep(host)
    /\ UNCHANGED <<live, active, printed, store, composer, asking, page, documents, toHost, events>>

\* scheduleEligibilityRetry's timer.
RetryFires ==
    /\ host.retry
    /\ host' = Refreshed([host EXCEPT !.retry = FALSE], Candidates(known, live))
    /\ UNCHANGED <<live, active, printed, store, composer, asking, page, documents, toHost, events>>

----------------------------------------------------------------------------
(* The host receives (handleWebviewMessage, actionFor) *)

Arrives(type) == toHost # <<>> /\ Head(toHost).type = type /\ toHost' = Tail(toHost)

\* hydrate: once per document, with everything retained.
Hydrated(h, d) ==
    LET talked == Chosen(live, {s \in ToSet(live) : printed[s.id] > 0})
        replay == [i \in DOMAIN talked |->
                      [type |-> "data", id |-> talked[i].id, pieces |-> printed[talked[i].id]]]
        first == [type |-> "hydrate", sessions |-> live, uuids |-> h.resume, active |-> active]
        n == [h EXCEPT !.ready = TRUE, !.doc = d, !.seen = @ \cup {d}]
    IN  IF d \in h.seen THEN h ELSE Invalidated(Posted(n, <<first>> \o replay))

Ready ==
    /\ Arrives("ready")
    /\ host' = Hydrated(host, Head(toHost).doc)
    /\ UNCHANGED <<live, active, printed, store, composer, asking, page, documents, events>>

\* A cursor must be one this revision handed out, and the store must know it.
Refused(h, request) ==
    /\ request.after # None
    /\ \/ request.revision # h.revision \/ ~h.paging
       \/ request.after \notin h.cursors \/ request.after \notin Recoverable

\* handleComposerMessage, composerRequestRecovery.
RecoveryPage(h, request) ==
    LET rest == {u \in Recoverable : request.after # None => u > request.after}
        first == FirstOf(rest)
        next == IF rest = first THEN None ELSE Max(first)
        handed == (IF request.after = None THEN {} ELSE h.cursors) \cup ({next} \ {None})
        answer == [type |-> "page", doc |-> h.doc, request |-> request, revision |-> h.revision,
                   rows |-> {Row(u) : u \in first \ Uuids(live)}, next |-> next]
    IN  IF Refused(h, request) THEN Invalidated(h)
        ELSE Posted([h EXCEPT !.paging = TRUE, !.cursors = handed], <<answer>>)

RecoveryRequested ==
    /\ Arrives("request")
    /\ LET m == Head(toHost)
       IN  host' = IF host.ready /\ m.doc = host.doc THEN RecoveryPage(host, m.request) ELSE host
    /\ UNCHANGED <<live, active, printed, store, composer, asking, page, documents, events>>

\* manager.activate
SelectRequested ==
    /\ Arrives("select")
    /\ LET s == Head(toHost).id
       IN  IF s \in Ids(live) /\ s # active THEN Sessions(live, s)
           ELSE UNCHANGED <<live, active, host>>
    /\ UNCHANGED <<printed, store, composer, asking, page, documents, events>>

Updated(s, field, value) ==
    [i \in DOMAIN live |-> IF live[i].id = s THEN [live[i] EXCEPT ![field] = value] ELSE live[i]]

\* manager.close; a session that closes already stays as it is.
CloseRequested ==
    /\ Arrives("close")
    /\ LET s == Head(toHost).id
           next == Updated(s, "state", "closing")
       IN  IF next # live THEN Sessions(next, active) ELSE UNCHANGED <<live, active, host>>
    /\ UNCHANGED <<printed, store, composer, asking, page, documents, events>>

\* requestRenameSession; a second prompt replaces the first.
RenameRequested ==
    /\ Arrives("rename")
    /\ LET s == Head(toHost).id
       IN  asking' = IF s \in Ids(live) THEN [id |-> s, current |-> TRUE] ELSE asking
    /\ UNCHANGED <<live, active, printed, store, composer, host, page, documents, events>>

\* The prompt is answered: for a session still there, in the same view.
RenameAnswered ==
    /\ asking # None
    /\ asking' = None
    /\ LET next == Updated(asking.id, "renamed", TRUE)
       IN  IF asking.current /\ next # live THEN Sessions(next, active)
           ELSE UNCHANGED <<live, active, host>>
    /\ UNCHANGED <<printed, store, composer, page, documents, toHost, events>>

----------------------------------------------------------------------------
(* The document receives (handleMessage) and the user clicks *)

\* The message the document receives next.
Received == Head(host.out)

\* The next message is of this type, and makes the document this one.
Applies(type, next) ==
    /\ page # None /\ page.loaded
    /\ host.out # <<>> /\ Received.type = type
    /\ page' = next
    /\ host' = [host EXCEPT !.out = Tail(@)]
    /\ UNCHANGED <<live, active, printed, store, composer, asking, documents, events>>

\* ensureTerminal
Ensured(terminal) == IF terminal = None THEN 0 ELSE terminal

\* replaceSessions keeps the terminal of a tab that stays.
ReplacedTerminals(ids) ==
    [s \in Session |-> IF s \in ids THEN Ensured(page.terminal[s]) ELSE None]

HydratedPage(m) ==
    [page EXCEPT !.hydrates = IF @ = 0 THEN 1 ELSE 2,
                 !.tabs = m.sessions, !.resume = m.uuids, !.active = m.active, !.clicked = FALSE,
                 !.terminal = ReplacedTerminals(Ids(m.sessions))]

\* A tab is added or updated; without font metrics its terminal must wait
\* (ensureTerminal throws).
WithTab(m) ==
    LET id == m.session.id
    IN  [page EXCEPT !.tabs = IF id \in Ids(@)
                              THEN [i \in DOMAIN @ |-> IF @[i].id = id THEN m.session ELSE @[i]]
                              ELSE Append(@, m.session),
                     !.terminal[id] = IF page.hydrates > 0 THEN Ensured(@) ELSE @]

\* removeSession
WithoutTab(m) ==
    [page EXCEPT !.tabs = Without(@, m.id),
                 !.terminal[m.id] = None,
                 !.active = IF @ = m.id THEN None ELSE @]

WithSelection(m) == [page EXCEPT !.active = m.id, !.clicked = FALSE]

WithOutput(m) == [page EXCEPT !.terminal[m.id] = IF @ = None THEN None ELSE @ + m.pieces]

WithResumable(m) == [page EXCEPT !.resume = m.uuids]

Request(revision, after) == [revision |-> revision, after |-> after]

Asks(request) == toHost' = Append(toHost, [type |-> "request", doc |-> page.id, request |-> request])

\* composerRecoveryInvalidated: the list is asked for from its beginning.
RecoveryInvalidated ==
    LET fresh(m) == m.doc = page.id /\ (page.revision # None => m.revision >= page.revision)
        Restarted(m) ==
            IF fresh(m)
            THEN [page EXCEPT !.revision = m.revision, !.request = Request(m.revision, None),
                              !.staging = {}]
            ELSE page
    IN  /\ Applies("invalidated", Restarted(Received))
        /\ IF fresh(Received) THEN Asks(Request(Received.revision, None)) ELSE UNCHANGED toHost

\* composerRecoveryPage: pages collect until the last, then replace the list.
RecoveryPaged ==
    LET due(m) == m.doc = page.id /\ m.request = page.request /\ m.revision = page.revision
        staged(m) == {r \in page.staging : \A q \in m.rows : q.uuid # r.uuid} \cup m.rows
        Paged(m) ==
            CASE ~due(m) -> page
              [] due(m) /\ m.next # None ->
                    [page EXCEPT !.staging = staged(m), !.request = Request(m.revision, m.next)]
              [] due(m) /\ m.next = None ->
                    [page EXCEPT !.staging = staged(m), !.rows = staged(m), !.request = None]
    IN  /\ Applies("page", Paged(Received))
        /\ IF due(Received) /\ Received.next # None
           THEN Asks(Request(Received.revision, Received.next))
           ELSE UNCHANGED toHost

DocumentReceives ==
    \/ RecoveryInvalidated
    \/ RecoveryPaged
    \/ /\ \/ Applies("hydrate", HydratedPage(Received))
          \/ Applies("session", WithTab(Received))
          \/ Applies("removed", WithoutTab(Received))
          \/ Applies("active", WithSelection(Received))
          \/ Applies("data", WithOutput(Received))
          \/ Applies("resumable", WithResumable(Received))
       /\ UNCHANGED toHost

HasTab(s) == page # None /\ page.loaded /\ s \in Ids(page.tabs)

Click(s, type, next) ==
    /\ Event
    /\ page' = next
    /\ toHost' = Append(toHost, [type |-> type, id |-> s])
    /\ UNCHANGED <<live, active, printed, store, composer, host, asking, documents>>

\* A click on a tab selects it here before the host hears of it.
ClickTab(s) == HasTab(s) /\ Click(s, "select", [page EXCEPT !.active = s, !.clicked = TRUE])

ClickClose(s) ==
    /\ HasTab(s)
    /\ \A t \in ToSet(page.tabs) : t.id = s => t.state # "closing"
    /\ Click(s, "close", page)

ClickRename(s) == HasTab(s) /\ Click(s, "rename", page)

----------------------------------------------------------------------------
World ==
    \/ \E s \in Session, u \in Uuid : Launch(s, u)
    \/ \E s \in Session : Exit(s) \/ Output(s)
    \/ \E u \in Uuid : Recorded(u) \/ ForgetMetadata(u) \/ Flush(u) \/ ForgetDraft(u)
    \/ \E u \in Uuid, flag \in BOOLEAN : DraftSaved(u, flag) \/ ForgetSettles(u, flag)

View ==
    \/ ResolveView \/ DisposeView \/ ShowView \/ ReloadDocument
    \/ DocumentLoads \/ DocumentReceives
    \/ \E s \in Session : ClickTab(s) \/ ClickClose(s) \/ ClickRename(s)

Provider ==
    \/ ScanChecks \/ RetryFires
    \/ Ready \/ RecoveryRequested \/ SelectRequested \/ CloseRequested
    \/ RenameRequested \/ RenameAnswered

Next == World \/ View \/ Provider

Spec == Init /\ [][Next]_vars

----------------------------------------------------------------------------
(* Safety *)

\* The list of resumable conversations never offers one that is live, or one
\* whose metadata was forgotten, whatever a scan that was under way found
\* (the generation checked after every await of checkResumableSessions).
OfferedOnlyKnown == host.resume \subseteq Candidates(known, live)

Quiet ==
    /\ host.open /\ page.loaded
    /\ host.out = <<>> /\ toHost = <<>>
    /\ host.scan = None /\ ~host.retry
    /\ erasing = {}

ShownDrafts == {r \in page.rows : r.uuid \notin page.resume \cup Uuids(page.tabs)}

\* A draft whose deletion could not be written is still listed.
Unerased == {Row(u) : u \in {v \in forgotten : draft[v].text}}

\* When nothing is under way the document shows what there is, however it got
\* there (loaded early, late or twice, hidden, re-resolved, messages lost in
\* a reload, lists invalidated between two pages, scans superseded): the
\* tabs, the selection, the output of every session, the conversations that
\* can be resumed, and each other draft in its present revision.
\* A click on a session that was ending leaves no selection, and a document
\* hydrated twice (for its predecessor, too) prints twice.
PanelAgrees ==
    Quiet =>
        /\ page.tabs = live
        /\ page.active = active \/ (page.active = None /\ page.clicked)
        /\ \A s \in Ids(live) :
              \/ page.terminal[s] = printed[s]
              \/ page.hydrates = 2 /\ page.terminal[s] > printed[s]
        /\ page.resume = {u \in Candidates(known, live) : Evidence(u) # "absent"}
        /\ ShownDrafts \ Unerased =
              {Row(u) : u \in Recoverable \ (Uuids(live) \cup page.resume)}
=============================================================================
