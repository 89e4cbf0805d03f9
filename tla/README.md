# great-wiki in TLA+

Specifications, model checks and proofs of the parts of great-wiki whose correctness hangs
on the order in which things happen. Every definition is translated from the source of the
repository; `PROJECT.json` (`map`) names the lines it stands for. Paths below are relative
to the repository's root.

## The system

great-wiki is a self-hosted wiki: one Rust process (Axum, tokio's multi-threaded runtime)
over one SQLite database, and a SvelteKit client whose editor is TipTap on a Yjs document.
The database pool holds **one** connection (`gw-store`, `Store::open`), so two statements never
run at the same time, a query waits for a transaction in progress, and between two queries
of one request anything else may run. What is not in the database is in the memory of the
process and dies with it: the collaboration rooms and their bookkeeping, the sockets, view-as.

| Component | State | Operations | Talks to |
|---|---|---|---|
| **Collaboration rooms** `gw-api/src/routes/collab.rs`, `gw-collab/src/room.rs`, `gw-store/src/crdt.rs` | the registry of rooms, a CRDT document per room, the bookkeeping (writer, last saved state), the `building` lock; table `crdt_state` | join / `open_room`, sweep, `persist`, publish | sockets, access rule, revisions |
| **Open sockets** `collab.rs` (`run`, `vet_until_stable`), `gw-store/src/access_epoch.rs`, migration 0019 | per socket: the epoch it has seen, the select loop, a bounded broadcast buffer | gate, vet, push, ticker, relay, resync | rooms, access rule, identity, view-as |
| **CRDT documents, anchors** `gw-collab/src/doc.rs`, `anchor.rs` | a yrs document | `from_block`, `to_block`, `apply_update`, `encode_state` | rooms, comments |
| **Access rule** `gw-auth/src/permission.rs`, `gw-store/src/acl.rs` | grants, baselines, groups, visibility | `can`, `document_for`, granting and revoking | everything |
| **Page tree** `documents.rs`, `moves.rs`, `trash.rs` | paths, parents, forwards, trash entries | create, move, trash, restore, purge | access rule, blobs |
| **Revisions, links, embeds, tasks** `revisions.rs`, `links.rs`, `transclusion.rs`, `tasks.rs` | a page's body and history, edges, task rows | publish, restore, `reconcile_tasks` | rooms, events |
| **Blobs** `blobs.rs`, `attachments.rs`, `reclaim.rs` | content-addressed files and their rows | attach, detach, reclaim | page tree |
| **Notifications** `events.rs`, `digest.rs` | the inbox, `digested` marks, `last_day` | emit, coalesce, deliver, digest run | mail |
| **Identity** `invites.rs`, `principals.rs`, `login_attempts.rs`, `sessions.rs`, `view_as.rs`, `auth/*` | accounts, sessions, invitations, throttle counters, view-as tokens | accept, revoke, OIDC upsert, lock out, demote | access rule, sockets |
| **Comments** `comments.rs` | threads and anchors on a page | create, resolve, orphan | rooms, events |
| **Datasets** `datasets.rs`, `gw-core/src/formula`, `gw-core/src/dataset` | schemas, rows, relations | edit, query, evaluate | pages |
| **Search, topics, templates, audit** | index rows, log rows | written with the change they follow | pages |
| **Block model, Markdown, diff** `gw-core` | none | pure functions | all |
| **HTTP surface** routes, configuration, CSP, proxy guard, export, seeding | none of its own | input and output | all |
| **Web client** `web/` | a Y.Doc per open editor | type, reconnect, close | sockets |

What is hard here, and what the properties are for (`PROJECT.json`, `hazards`, has all of it,
line by line):

- *Live editing.* A page's text lives in a room in memory, is written out by a janitor, is
  dropped when idle and rebuilt by the next joiner, while browsers, publishes, restores and
  revocations go on and the process may die at any moment. It must never be rebuilt from
  less than what is stored, never be overwritten by less, never be in itself twice, and what
  the server accepted must not disappear.
- *Revocation of open sockets.* Access is checked at the handshake and then again whenever
  a counter in memory says that somebody's access changed. Check, answer and use are apart.
- *Relaying.* A bounded buffer per connection drops frames; the gap has to be noticed and
  repaired while more frames come in.
- *Check first, write second.* The requests that change the page tree ask their questions in
  queries of their own and write in a transaction after them; whatever another request
  commits in between, the transaction meets.
- *Files beside rows, mail beside marks.* A file is in no transaction, a mail cannot be
  unsent, and `great-wiki reclaim` is a second process on the same database.
- *Identity across requests.* A link is offered and redeemed later, a password is hashed while
  the account is suspended, an address is merged onto an account, a counter is read before it
  is written.
- *Identity of lines.* A publish mints ids into the body it stores, and the live document
  that people go on editing is not told.

## The modules

| Module | What it is |
|---|---|
| `CollabRooms` | one page's rooms, bookkeeping, handshake, sweep, publish, restore, crash; its properties and the inductive invariant |
| `Page` | the abstract specification: what the server promises about a page's live document |
| `RoomsImplementPage` | the refinement mapping from `CollabRooms` to `Page` |
| `EditLoss` | `CollabRooms` with a history variable that accounts for every edit that can be lost |
| `CollabPromises` | promises of comments that two tasks can break (below) |
| `CollabSession` | sockets: access changes, the epoch, the gate, push, ticker, relay and lag |
| `AccessRule` | `can`, `permits`, the nearest grants, baselines, as operators; used by `PageTree` and `Identity` |
| `PageTree` | create, move, trash, restore and purge, with the forwards, grants and invitations that hang off a path |
| `Blobs` | files and rows: attach, detach, pages in the trash and purged, the sweep, crashes |
| `Identity` | invitations, accounts, administrators, Authelia, passwords, the throttle, sessions |
| `PageLines` | the checklist lines and headings of a page: publish, restore, import, the board, minted ids |
| `Notifications` | event rows, the daily run, the mail and the marks |
| `Datasets` | one dataset: columns, rows, the edges behind relation cells, formulas, saved views and forms |
| `MCCollabRooms`, `MCPageTree`, `MCBlobs`, `MCIdentity`, `MCPageLines`, `MCNotifications`, `MCDatasets` | the instances for TLC: first states, and what is interchangeable |
| `CollabRooms_proofs` | the theorems of `CollabRooms`, `RoomsImplementPage` and `EditLoss` |
| `CollabSession_proofs`, `PageTree_proofs`, `Blobs_proofs`, `Identity_proofs`, `PageLines_proofs`, `Notifications_proofs`, `Datasets_proofs` | the theorems of the others |

### CollabRooms

One page is modelled: every structure of the code is keyed by the document's id, and the one
thing pages share, the `building` lock, can only delay. A step ends at every `.await` and
wherever a std mutex is released; whatever the code does inside one lock section is one
action.

| Variable | Code |
|---|---|
| `stored`, `body`, `revisions` | `crdt_state`, `documents.body`, `revisions` |
| `live`, `built`, `content`, `idle` | `Rooms`, the rooms built so far (numbered), each room's document, `last_active` beyond `idle_grace` |
| `book` | the page's `Bookkeeping`: is there one, `writer`, `saved` |
| `lock` | `CollabState::building`: nobody, a joiner or the sweep |
| `pc`, `room`, `seen`, `got` | a connection: where `join`/`run` stands, its `Arc<Room>`, the body `authorise` read, the answer of `crdt_state_for` |
| `replica`, `typed` | the Y.Docs in the browsers |
| `sweep` | the sweep: its place, the evicted room, the room and writer in its list, the bytes it encoded |
| `pub`, `restoring` | a publish and a restore in flight |
| `perm` | what the access rule would answer each person |

Actions and code: `Authorise` … `Subscribe` are `join` and `open_room` query by query
(`OpenLive` a live room, `StartBuilding`/`ReadState` the lock and the query, `SeedRoom` the
case of nothing stored, `EmptyRoom`/`FillRoom`/`FillFails` the case of a stored state,
`AbandonJoin` a request that ends at an await). `Apply`/`Wrote` are the update branch of
`run`, which applies and then marks the page as written. `EvictIdle` … `CloseEvicted` are
`sweep` and `persist` step by step. `PublishAuthorise`/`PublishSnapshot`/`PublishWrite` and
`RestoreRevision`/`ClearState`/`AbandonRestore` are the two requests that change the body.
`Crash` empties everything that is not in the database.

*Data.* A document is a set of items and merging is union: that is what makes yrs updates
idempotent, commutative and never retracted. An item is a word and the insertion that put it
there: 0 for a browser, n for the seeding of room n, because each `from_block` inserts under
a fresh client id. `WordsOf` is the lossy view that a revision stores.

*Abstracted.* The gate before `Apply` is an instantaneous look at `perm` (how it gets there
is `CollabSession`'s subject). The rate budget, the frame codec and malformed frames are
possible ends of a session. Left out: a `documents.body` that is not JSON (a 500 in
`open_room` before anything is built), anchors and comments that `persist` orphans.

### CollabSession

The sockets of one page. `account`, `grant`, `viewing` and `expired` are the facts an answer
depends on; `commit` is a transaction in progress whose commit hook has already moved
`epoch`; `known` is each receiver's mark; `stage` and `site` say where in `run` a task
stands and which of its guarded statements it is about to execute; `room`, `inbox`, `lagged`, `owed`,
`has` are the relay. The select loop is `AskSync`, `SendUpdate`, `SendAwareness`, `Receive`,
`ReceiveLagged`, `Pushed`, `Tick`, `Hangup`; each leads to the gate (`Pass` or `Ask`, then
`ReadAccount` and `ReadGrant`, then the gate again), and what the gate lets through is `Act`
(and `Broadcast`). The look at the epoch and the guarded statement are two steps, because
the runtime has several threads. The two queries behind `ReadAccount` (session row, account)
are one step: a change between them moves the epoch and is asked about again, like one
between `ReadAccount` and `ReadGrant`, which are two.

`vet_gap`'s sleep is the freedom of a step to happen later. `Push` is the policy's
`push_revocation`, `Clock` says whether time passes (tickers, intervals, expiry). `late`
counts what a task did with the room after its access was taken away and announced; it is
there for one property only.

### PageTree, with AccessRule

`doc`, `forward`, `acl` and `invite` are the tables `documents`, `forwards`, `acl` and the path of
one pending invitation; a path is a sequence of slugs. `request` is, per person, the request
whose checks have passed and whose transaction is to come. `AskCreate`, `AskMove`, `AskTrash`,
`AskRestore` are the handlers up to there (`CreateMay` … `RestoreMay` are what they ask);
`Create`, `Move`, `Trash`, `Restore` are the transactions, with what each asks *again*: the
unique path, `refuse_a_hole_in_the_tree`, and for a move who may read what moves (`Gains`).
`Purge` is one transaction, checks included. `Rollback` is a preview, a refusal or an error.
`ChangeGrant` changes a grant meanwhile. `MovedRow` is two statements: the prefix by path, the
slug by id; that they find different rows once the page has been moved by somebody else is
why addresses can come apart. `stale` is a history variable: the kinds of requests that
committed when their own checks would no longer have passed. Pages are `restricted`.

### Blobs

`page`, `blobs`, `attached` are committed rows, `files` the mount. `stage`, `wants`, `conn`,
`fresh` are `attach`: body received (`Arrive`), transaction begun and name read (`Open`), file
renamed into place (`Publish`), rows written and committed (`Insert`), any way to fail
(`Fail`). `sweep`, `taken`, `todo` are `reclaim_blobs`: `DELETE ... RETURNING`, one unlink
after another, the commit, or a failure anywhere (`SweepFail`). `beside` says whether the
sweep is a process with its own connection, as `great-wiki reclaim` is, or uses the
server's, as the tests do. SQLite's WAL rules are in the guards: one writer (`MayWrite`), and a
transaction that has read fails its first write when another connection has committed since
(`fresh`). `undone` and `strays` are history: what a sweep unlinked and did not commit, what
a failed upload left.

### Identity

`account`, `promoted`, `invite`, `session`, `failures`, `lock` are the tables. `flow` is what each
browser's request has found out and not yet used: an offer, a password being hashed, a
session about to be opened. A transaction of the store is one action (`Accept` is
`accept_invite_audited`, `Authelia` is `upsert_oidc_identity` with its ways `Recognise`,
`Merge`, `Mirror`); the steps of a sign-in are separate. `Deactivate` and `Demote` carry the
floor of one administrator in their guard, as the transaction does before it commits. `tried`
counts wrong passwords since the count last began, and `seconds` the accounts given an
address that was somebody's: both are history for one property each.

### PageLines

A body is a sequence of lines with an id each and what they say. `live` is the room's document;
its lines have keys of the model, so that a line can be followed, and the ids the *editor*
knows. `Type`, `Copy`, `Reword`, `Remove` are what people do to it. `Snapshot`, `ReadRevision`,
`Import` begin a publish, a restore, a `seed --update`; `Commit` is the transaction of
`publish_revision`: `ClaimsOf`, `Stamped` and `Reconciled` are `reconcile_tasks` and
`mint_heading_ids`, `Clear` is what a restore does to the stored live state. `Retitle` and
`DeleteCard` are the board's. `known` remembers the id under which a line stands in the body.
Ids and cards that are made are `Fresh`: any choice of new ones, no two the same, as uuids are.

### Notifications

A topic is a recipient and a dedupe key, so it has one row. `rows`, `newer`, `digested` are the
table; `open` is the verdict of `deliver`, which changes by itself. `digest` is the task:
`StartRun` and `EmitTask` are `emit_tasks_due`, `Assemble` is `digest_for`, `Send` and
`SendFails` the mail, `MarkDigested` one `UPDATE` of `mark_digested`, `BreakRun` the `?` that
leaves the loop, `Crash` the process, which forgets `last_day`. `mailed`, `overtaken`,
`unsettled` are history: what a mail has carried, what was told again while its mail was under
way, what was carried and could not be marked.

### Datasets

One dataset, with the rows of one other that its relations point at. `fields`, `rows`, `edges`,
`views` are the tables `dataset_field`, `dataset_row`, `dataset_relation`, `dataset_view`; `live`
are the target rows and `readable` whether callers may read them; `req` is each client's request.
A request checks in queries of its own and writes in a transaction after them: `CheckField` and
`AddField` are `add_dataset_field`; `CheckRow` (`checked_values`), `FetchRow`, `PlanRow`
(`plan_write`) and `InsertRow` or `UpdateRow` are the two ways to write a row, `CheckForm` the way
in through a form; `CheckView` and `SaveView` the views. `DeleteField`, `DeleteRow`,
`DeleteTarget` are one transaction each, with what the foreign keys cascade to; `Reveal` is the
target dataset going into the trash or out of reach, and coming back. `Rewritten` is
`rewrite_edges`, `Merged` what a patch makes of the cells, `FormulaSound` is `formula_check` with
its search for a cycle, `Hidden` is `hidden_field_keys`. `strays` and `late` are history: the cells
and the formulas that were stored after the columns they were checked against had changed.

## The runs

Every run checks for deadlock as well. In the rooms, the sockets, the lines and the mail a
person or the clock can always act; where the number of requests is bounded (`PageTree`,
`Identity`) the step `Finished` says that all of them have been made and answered.

| Run | Question | Instance |
|---|---|---|
| `rooms_keep` | Is what is stored always in the room that is open (`RoomHoldsStored`), never overwritten by less (`SavesNeverForget`), never twice in a room (`OneCopy`)? Does each room have its bookkeeping (`EntryMatchesRoom`)? Do the rooms implement `Page` (`ImplementsPage`)? | 2 people, 2 words; crash, failing store, restore |
| `rooms_loss` | Which accepted edits can be lost (`LossIsExplained`)? Do types hold whatever happens (`TypeOK`)? | 1 person, 1 word; every event: crash, failing store, restores, publishes, access that comes and goes, a browser that reconnects with what it had |
| `rooms_live` | Does every handshake leave `open_room` (`JoinersAreServed`), is every room nobody is in dropped (`IdleRoomsAreDropped`)? | 1 person; failing store, access that comes and goes, publishes, a browser that reconnects; `FairSpec` |
| `lost_edit` | *Expected to fail*: no accepted edit is lost while nothing crashes, fails or is revoked (`NoEditIsLost`) | 1 person, 2 words; `SpecLossAtInsert`, which leaves out the two shorter ways to lose one |
| `session_gate` | What may a socket still do after a loss (`AtMostOneLateAct`); is it closed (`RevokedIsClosed`, `ExpiredIsClosed`)? | 1 socket, 2 access changes, push, clock |
| `session_relay` | Does everybody get everything (`NothingIsMissed`, `UpdatesReachEverybody`)? | 2 sockets, 1 update, a buffer of 1 frame |
| `page_tree` | Which invariants of the tree does every transaction keep, and which can a request break whose checks were overtaken (`HolesComeFromCreates`, `OrphansComeFromOvertakenChecks`, `StrandedComeFromOvertakenChecks`, `AddressesComeApartByMoves`, `ForwardsYield`)? Does a move give anybody reading (`MovesWidenNothing`)? | an administrator, an author, a reader; 3 pages, 2 slugs, depth 2, 4 requests or changes of grants |
| `blobs` | Has every attachment its file (`AttachedFilesAreThere`)? Where do files without rows and rows without files come from (`FilesAndRowsPartByFailures`)? Is a sweep exhaustive (`SweepsAreExhaustive`)? | 2 pages, names, contents, uploads; a sweep in the server or beside it |
| `identity` | Are links spent once (`DeadLinksStayDead`, `LinksShareNoAddress`), does Authelia reach one account (`AutheliaReachesItsOwn`), does suspending end sessions (`IdleSessionsAreLate`), does somebody administer (`AdministratorsStay`), is guessing bounded (`BudgetHolds`)? Do types hold (`TypeOK`)? | 3 accounts and names, 2 addresses, 2 links, 2 browsers, limit 2, 4 requests |
| `page_lines` | Is the board that of the stored page (`BoardMatchesPage`)? Does a line keep its card and its anchor whenever a publish can recognise it (`RecognisedLinesKeepTheirIds`)? | 2 words, 2 lines, 2 requests at once, 5 steps of people |
| `notifications` | Is what is marked what was mailed (`MarksMatchMails`)? Is news mailed in the end (`NewsIsMailed`)? | 2 people, an edit and a due task for anybody each, 1 row per mail; `FairSpec` |
| `datasets` | What can a request store whose checks were overtaken (`StraysComeFromOvertakenChecks`, `CyclesComeFromOvertakenChecks`)? Do the edges follow the cells (`EdgesFollowCells`)? Is no update of a row lost (`RowsKeepWhatIsNotNamed`)? Do types hold (`TypeOK`)? | 2 names of columns, 3 columns ever made, 1 row of 3 versions, 1 target, 1 view, 2 clients |

*Bounds and why they are enough.* `MaxRooms` = 2: every claim about rooms relates one room
to its successor (evicted, written, rebuilt); with a third nothing new meets, because at most
one room is live and one evicted. Two people are what the races need: one joins while another
types, or two wait for the lock. Two typed words are what
overwriting needs: the first is stored, the second makes the next room worth writing; with
one, a save that forgets is never seen. One word is enough where only the order of steps
matters (`rooms_loss`, `rooms_live`), and a body of one word is enough to be seeded twice.
`rooms_loss` needs no second person: the sweep is the other actor. Five of the six moments that
`EditLoss` lists are needed in that instance: without any one of them TLC finds an edit that
is lost and not accounted for. The sixth (a room seeded over a stored state) needs a second
typed word; that instance passes too, and needs the sixth moment, but only without
publishes, and it is not kept as a run.
In `session_gate` the second change is there because the dangerous orders are "another
change while the first is being asked about" and "lost, given back". A buffer of one frame
makes lag happen at the second frame in a row (presence counts). `session_relay` has no
access changes and `session_gate` no second socket: the gate looks only at its own
socket's facts and the epoch, which a change of "somebody else's access" (an empty set of
sockets) moves too.

In `page_tree` two requests in flight are what overtaking needs, and a nested subtree of depth
two with a page of its own in the trash is what nesting needs; four requests let a request be
overtaken by another after one that prepared the ground. In `blobs` everything but the sets is
unbounded; two contents tell a shared file from another, two uploads may publish one
content, two pages may carry it. In `identity` three accounts are what a merge needs (the
one that is found, the one that is not, the administrator), two browsers are two requests
under way; `Limit` 2 and one late guess is where the throttle's arithmetic has its edge.
`page_lines` has two lines so that a line can be copied, swapped for another, or adopted, and
five steps are enough for "publish, change, publish" of two requests. In `notifications`
one row per mail makes two topics of one person a crowd, and nothing else is bounded.

`datasets` is three instances in one, since rows, formulas and views disturb each other only
through the columns: an action constraint of `MCDatasets` keeps each behaviour in one of
`RowsPart` (rows and edges under one name, number and relation columns), `FormulasPart` (formulas,
rollups, relations and what they read, under both names, no rows) and `ViewsPart` (views, forms
and the rows made through them). A ring of formulas needs two names; a stray needs a name that is
made, deleted and made again, so two columns under it, and the third id is for the ring's. Two
clients are the one that checks and the one that overtakes it, three versions are one update
beside another. The proofs have none of these parts and bounds.

In `rooms_live` the joiner contends with the sweep for `building`; two joiners who contend for it
and for a room of one place pass the same properties in an instance without those events
(`Editors` of two, `Cap` 1, `Events` only `"store"`), which is not kept as a run because
together they take longer than a run should.

`Events` is a parameter so that each run has the events
its question is about; `MaxRooms`, `MaxChanges` and the words typed are the only bounds
that the code does not have.

### Fairness

`CollabRooms!FairSpec`: a handshake that can go on does (weak), and waiters for `building`
get it (strong; a tokio mutex is a FIFO queue); the janitor starts a sweep again and again
(`spawn_janitor` is an endless ticker) and finishes it, though each of its writes may fail;
time passes, so an idle room becomes old enough. Nobody need join, type, leave or publish.

`CollabSession!FairSpec`: a commit ends one way or the other; a task that can go on does;
`select!` picks at random among the ready branches, so one that is ready again and again is
taken (strong fairness of push, receive, lag and the browser's owed first message). Nothing is
assumed of the ticker (`ExpiredIsClosed` says "if it keeps being taken"), of typing, or of
reconnecting.

`Notifications!FairSpec`: the ticker of `run_forever` never stops and days pass (weak); a run that
can go on does; and of what is tried every day (finding the recipients, a query and a mail
for each person, a mark for each topic) nothing fails every time, which is strong fairness of
each of them. A mail server that is down for good, or a row whose mark always fails, is
outside it. Nothing is assumed of producers or of access.

## What the runs show

Everything stored stays safe, as long as nobody's access changes *during* a handshake: the
`building` lock really covers what it must. Edits that are not stored yet are another matter.
`LossIsExplained` is the complete list of ways to lose one:

1. the process dies before the next sweep (the design: saved means in memory);
2. a restore discards the live state (deliberate);
3. the write of an *evicted* room fails or is refused, because the one writer it is asked for
   has lost access (documented in `persist`);
4. the update arrives while the room is being persisted: `saved()` erases the writer that
   `wrote()` has just recorded, after the write (**run `lost_edit`**) or when the comparison found
   nothing to write;
5. the room was evicted while a handshake was holding it: the joiner edits a room no
   sweep will write;
6. the joiner loses access between the two queries of a handshake, and a page that has a
   stored state is seeded from its body.

`lost_edit`, step by step, as TLC shows it: Anna types; the sweep lists the page, encodes the room
and awaits `principal_by_id`; Anna types once more, the update is applied and `wrote()` sets
`writer`; Anna closes the tab; the INSERT stores the first word and `saved()` sets `writer = None`. No
later sweep lists the page; after `idle_grace` the room is evicted and dropped, with the second
word.

Under `SpecLoss` itself TLC's shortest trace is another, of 18 steps: a sweep evicts the room while
Anna's handshake holds it, and she types into it. Of 22 steps is the one where her word overtakes
the comparison of `persist` with what was saved: that sweep was called for by the browser's
first sync reply, which brought nothing. `SpecLossAtInsert` leaves out these two, each by one conjunct
(`EvictsHeldRoom`, `OvertakesComparison`); the loss it shows is left, since it needs no second thread,
only the awaits of `persist`.

## Promises that do not hold

`CollabPromises` states promises of the source that are not invariants. No run checks them:
each needs an instance of its own, named here with the interleaving that breaks it in
`CollabRooms`.

- `SubscribedRoomIsLive` (`Events = {}`, one person). The joiner leaves `open_room`, which
  releases `building`, and is descheduled before `subscribe`; its room has been idle for
  longer than the grace, since `Rooms::get` does not touch it; a sweep evicts it. The joiner
  is in a room the registry does not have. (`run`'s `RecvError::Closed` cannot end it: its
  own `Arc<Room>` keeps the sender alive.)
- `CapHolds` (two people, `Cap = 1`). Both count before either subscribes.
- `RoomHoldsStored` with `"access"` in `Events` (two people). The joiner is revoked between
  `authorise` and `crdt_state_for`, whose `None` means both "no row" and "you may not";
  `open_room` seeds from the body over a stored state. The joiner is closed at the first
  gate, the next joiner edits the seeded room, and the sweep overwrites the state.
- `PublishTakesWholePage`. `Rooms::get` in `publish` takes no `building` lock and may find the
  room that `open_room` has registered empty and not filled yet.
- `OneCopy` with `"reconnect"` in `Events` (one person). A page is opened whose live state was never
  stored; the browser goes offline with the room's items ("Still typeable on purpose", `session.ts`
  37-38); the room is evicted with nothing to write; the browser comes back, `open_room` seeds
  again (`collab.rs` 681), and the first sync merges two seedings of one body: every word is there
  twice. `open_room` says of this case "exactly once" (635-637).
- `FreshRoomSaysThePage`. `seen` is the body that `authorise` read; a restore between then
  and the seeding leaves the room on the body that was restored away from.

**The page tree** (`page_tree`; each needs a request that was overtaken).

- A live page below a page in the trash. `trash.rs` says of its two checks that a "single
  connection ... makes the window between the two empty" (lines 188-191) and of the state
  "It cannot happen" (485-488). `create_typed` reads the parent in one query and inserts later;
  a trash in between makes the hole, and from then on `refuse_a_hole_in_the_tree`, which looks
  at the whole corpus, refuses *every* trash, restore and move of anybody.
- A page whose parent is gone: two overtaken moves, or a create overtaken by a move or a purge
  of the parent. The hole check sees only parents that are in the trash.
- A page in the trash that belongs to no entry, so that nothing lists or restores it: a trash or
  a move overtaken by a move; or a create overtaken by a trash, which leaves a live page below one
  in the trash: moving it out takes along what is in that entry and happens to lie below it.
  (It takes a tree three deep, one deeper than that of the run.)
- Path and slug of a page that disagree: two moves of one page; the second renames nothing by
  path and writes its slug by id.
- A page in the *trash* may gain a reader by a move of what it lies in, by somebody who does not
  administer the destination: only live pages are measured. It shows when it is restored.

**Blobs** (`blobs`). `reclaim.rs` says that "an upload and a sweep cannot interleave at all". The
command is a process of its own with its own connection, and the guard (lines 210-215) counts the
connections of its own pool. A sweep that has deleted the row of a content may unlink the
file that an upload of the same content published a moment ago, and then roll back: a row, an
attachment, and no file. When it commits, the upload's snapshot is stale and it fails:
that is what keeps `AttachedFilesAreThere` true otherwise.

**Identity** (`identity`).

- A session can be opened for a suspended account: the Authelia callback never asks `active`,
  and a password sign-in asks before it hashes. It is refused while the account is suspended,
  and works again when it is reactivated, although `local.rs` says that "a session must not exist
  at all" (150-153) and `principals.rs` that "Reactivating deliberately does not restore
  anything".
- The last administrator can go: groups are replaced at every sign-in through Authelia, and
  nothing looks at the floor there.
- The throttle lets in `LOGIN_FAILURE_LIMIT` guesses and one for every other request that was
  let in before the last of them was counted.

**Lines** (`page_lines`). Ids are minted into the stored body only, and the live document is not
told. `RecognisedLinesKeepTheirIds` says which lines keep theirs all the same; of a line that nobody
touched it says nothing in two cases. A heading typed in the editor gets a *new* id at every
publish, and what embeds its section is orphaned (`transclusion.rs:168-176` promises an anchor
that stays: "re-minting on every publish would move every section embed in the wiki"); and a
checklist line typed there, whose words another card or an earlier line has, may be given that
card, or lose its own to that line. A checklist line that is typed, published and
reworded sheds its card (`extensions.ts`, and the design of 2026-08-15, line 218, say
otherwise); a line that takes up the words of one that was empty for a while adopts its card; a
card retitled on the board and a line without id become two cards.

**Notifications** (`notifications`).

- News that is told again (coalesced into the same row) after `digest_for` has read the row is
  marked with it and never mailed: `mark_digested` does not compare `created_at`.
- "One recipient's failure does not stop the rest" (`digest.rs`, before `run_digest_once`): a
  failing mail does not, a failing `mark_digested` ends the run for everybody left.
- `last_day` is set before the run, so a run that breaks is not tried again that day; after a
  restart it is empty, and the day's due tasks are told again and mailed again
  (`emit_tasks_due` says "Idempotent", but the upsert clears `read_at` and `digested_at`), as
  they are on both days of the window.
- The newest rows fill the mail: a person with more than `DIGEST_LIMIT` new rows every day is
  never mailed the older ones.
- Access that ends after a mail was assembled does not stop the mail.

**Datasets** (`Datasets` states these four; no run checks them, since each fails. What holds
instead, that only requests with overtaken checks break them, is what `datasets` checks).

- `ValuesFollowTheSchema`. `checked_values` looks at the columns and the transaction
  (`datasets.rs` 1019) does not look again. A column deleted in between has its values taken from
  the rows, and then one more is written; made again with another kind, the column has a value
  that is none of its kind, although "every stored row is keyed by the one and typed by the
  other" (362-363).
- `CellsAgreeWithEdges`. A relation column that is deleted between `checked_values` and `plan_write`
  (`relation.rs` 301) leaves the value and plans no edge; made again under its name, the cell names
  a row and shows empty, although "a cell and the edges that back it can never disagree"
  (`datasets.rs` 1142-1143).
- `FormulasAreAcyclic`. `formula_check` reads the formulas before the transaction that inserts
  (`datasets.rs` 268, 335): two formulas that read each other both pass. `relation.rs` 143-145,
  `computed.rs` 62 and the design of 2026-10-10, line 84, say that a cycle is refused at the save.
- `FormsAskForStoredColumns`. Deleting a column does not look at the saved views (460): a form goes
  on asking for a computed column made under the same name, and nobody can answer that question.
  "A form asks for stored, visible columns and nothing else" (`views.rs` 122-123).

## What is proved

| Theorem | For every value of the constants | Assuming |
|---|---|---|
| `TypeCorrect` | `TypeOK` of `CollabRooms` | |
| `EntryAlwaysMatches` | a page has its bookkeeping exactly while it has a room, live or evicted | |
| `RoomAlwaysHoldsStored` | an open room, and an evicted one being written, holds what is stored | `"access" \notin Events` |
| `SavesNeverForgetAnything` | no save removes anything from the row | `"access" \notin Events` |
| `RoomsImplementThePage` | `CollabRooms` implements `Page` | `"access" \notin Events` |
| `EveryWordOnce` | no word is in a room twice (`OneCopy`) | `"reconnect" \notin Events` |
| `LossIsAlwaysExplained` | `LossIsExplained` of `EditLoss`: every accepted edit is stored, in a room that will be written, or given up at one of the six moments above | |
| `OneLateActAtMost` | a socket whose access was taken away, and announced, does at most one more thing with the room | |
| `NothingIsEverMissed` | a socket is behind its room only while something will bring it up to date (`NothingIsMissed`) | |
| `PageTree`: `TypeCorrect`, `HolesHaveOneSource`, `ForwardsAlwaysYield`, `AddressesAgreeUntilOvertaken`, `ParentsThereUntilOvertaken`, `TrashStandsUntilOvertaken`, `NobodyGains` | the properties of `page_tree`, in a tree of any size and depth, for any grants | `NoPageAssumption`, `GrantsAssumption`, `FirstTreesAssumption`, `BoundsAssumption` |
| `AccessRule` (in `PageTree_proofs`): `NearestRowsDecide`, `MoreIncludesLess`, `SuspensionLeavesAnyone` | of the rule itself: rows above the nearest that carries any, and of siblings and descendants, decide nothing; whoever may do more may do less; suspension leaves anyone grants and public pages | |
| `Blobs`: `TypeCorrect`, `AttachedAreThere`, `PartedByFailures`, `CommittedSweepsAreExhaustive` | the properties of `blobs`, for any pages, contents and uploads | `NobodyAssumption` |
| `Identity`: `TypeCorrect`, `SuspensionEndsSessions`, `HandlesReachOne`, `TheFloorHolds`, `DeadLinks`, `TheThrottleHolds`, `LinksNeverShare` | the properties of `identity`, for any accounts, links, browsers and limit | finitely many browsers; `FirstAssumption`, `SubjectsAssumption`, `LimitAssumption` |
| `PageLines`: `LinesAreSound`, `BoardAlwaysMatches`, `RecognisedLinesAlwaysKeepTheirIds` | types and both properties of `page_lines`, for any words, files, requests and lengths | `SaysAssumption`, `BoundsAssumption` |
| `Notifications`: `TypeCorrect`, `MarksFollowMails` | types, and `MarksMatchMails`, for any people, topics and limit | `NobodyAssumption`, `TasksAssumption` |
| `Datasets`: `TypesHold`, `StraysAreExplained`, `EdgesAlwaysFollow`, `RingsAreExplained`, `RowsAreNotLost`, `CapHolds` | the properties of `datasets`, and the cap on rows, for any names, rows, targets, clients and kinds | `KindsAssumption`, `NamesAssumption`, `ValuesAssumption`, `BoundsAssumption` |

*The argument.* None of the properties is inductive. The strengthening `Inductive` has three
layers. `Structure`: the holder of `building` is the one whose program counter says so; while
a room is being built there is no other room, no entry and no evicted room; the sweep works
on the evicted room, or on the live one. It makes `EntryMatchesRoom` inductive and needs
nothing but the types (and `TypeOK` needs it: that a room's number stays within bounds
depends on nobody else building one). `Coverage`: what a joiner read and what the sweep
encoded under the lock still covers the row, since only the lock's holder writes it but
for a restore, which empties it; hence a room filled from it, and a row written from it,
lose nothing. The assumption on access is necessary, as the third promise above shows. The
refinement follows action by action: the session of the page lasts from the filling of its
room to the `closed()` of its eviction.

`EveryWordOnce` needs two facts about everything that may still be merged into a room. `CopiesAreSingle`:
the room *with its browsers*, the row, what was read of the row and what the sweep encoded each hold
a word once, and a browser in no room brings nothing. `WordsAreKnown`: nothing holds a word that
nobody has typed, so that a word typed is a second copy of none. A browser that reconnects
brings a document along, which is where the theorem ends and the promise above fails.

`LossIsAlwaysExplained` has `Explained` on top of `TypeOK` and `Structure`. An edit is *settled* when it
is in the row or was given up (`exposed`), and it stays so: `RowIsCarried` (the row's edits are in the
room, the read state or the encoded bytes that will overwrite it), `CopiesAreSettled` (what was read
from the row, or is believed to be in it, is settled), `EncodedIsTheRoom` (the sweep encoded all of
the room but what was accepted since) and `UnmarkedIsSettled`: a room without a writer, which
no sweep will write, has nothing left to write. It needs no assumption: access may come and go.

`OneLateActAtMost` rests on `GateInductive`: a task that cannot reach a guarded statement
without asking first is *told* (the epoch is beyond its mark, or it carries a reason, or it is
waiting for its verdict). The commit hook runs before the change can be seen, so every task
is told while a change is being committed (`CommitIsTold`), hence when it takes effect, and a task
with a loss stays told until a verdict says no (`LossIsTold`); only a statement the gate had let
pass before can come late, and after it the task is at the gate again (`LateIsLast`). The
proof takes each step of a task through one lemma about what the task leaves behind, and each
step of the store through three. It uses the one connection (`ReadAccount` and `ReadGrant` wait for
a commit in progress): without that guard `CommitIsTold` fails, as the mutant of
`AtMostOneLateAct` shows.

`NothingIsEverMissed` has `RelayInductive`: what a task has in its hands is what the site it stands at
is for (`HandsMatchSites`), and a frame that `Receive` drops because it is the connection's own
brings its browser nothing new (`OwnFramesAreHad`). A frame pushed out of a full buffer leaves
`lagged`; a lag taken notice of leads to the site that answers it with the whole state.

The hypotheses on constants (`EditorsAssumption` …) are in the modules, and TLC evaluates
them in every run.

*Page tree.* `Kept` says of each request in flight what it was asked with (`Requests`), and of
paths that no two pages share one (`OnePath`); holes and forwards follow action by action.
Addresses and parents are proved in a second and third layer that hold until `stale` says
otherwise, since each needs the one before. `NobodyGains` needs no history: what `Move` measures
is what the property says, and the proof is that its measurement covers every live page that
moves. `EntriesStand`, the layer for the trash, adds to whole entries that nothing live lies
under anything in the trash at any distance (`LiveAboveLive`) and that entries nest
(`EntriesNest`): stated for all prefixes of a path, they need no induction over a page's
ancestors. The first attempt showed that the property was wrong: it excused only an overtaken
trash or move, and a tree of depth three has a counterexample with nothing but an overtaken
create. `FirstTreesAssumption` asks `LiveAboveLive` and `EntriesNest` of the first trees; creating
and trashing in turn make no others.

*Blobs.* `Held` (the connection belongs to the open upload), `Swept` (what a sweep took is what
nobody refers to, and nobody else writes while it runs), `Ready` (an upload that will be able to
insert has its file, or it is the named exception), `Late` (a file that is back after being
unlinked). `fresh` and the lock are what `Ready` rests on.

*Identity.* `KnownOnes` (a request under way names an account that exists, and the handle it came
by is that account's) and `Counting` (what was tried is what is counted and at most one more for
each guess under way, by the cardinality of the browsers that are hashing).

*Lines.* `Sound` is the types, `BoardMatchesPage` and `NothingIsKept` (a document that no room holds and
that nobody edited is gone). The work is in what one commit writes: where the id of each checklist line comes
from (`IdsOfTasks`: its card, itself, or nowhere, and then from no card and no body), that
no two lines get one (`IdsOfTasksDiffer`), and that each line has a card of its own (`CardFacts`,
`BoardFacts`). That `Fresh` is there to be chosen, an injection from what is made into what is free, is
`FreshFacts`, by cardinality. `RecognisedLinesAlwaysKeepTheirIds` follows with `CarriedIsKept` (a line
that carries its id keeps it, a checklist line if it is the first) and `AdoptedIsKept` (a line that was never told its id adopts the one card with
its words); `NothingIsKept` is what makes it true of opening a room.

*Datasets.* `Kept` has the properties of the run and what they rest on: ids of columns are given once
(`IdsKept`), what a request planned is right for every column that is still there (`EditsKept`), what
an update has read is the row while the version is the one it read (`BaseKept`), and a request
whose columns have not changed still passes its checks (`FreshKept`).

*Notifications.* What is in hand while it is marked was mailed or overtaken, never both (`Sent`),
and has rows (`Turns`).

*Only model-checked.* Liveness, everything under fairness, which the prover cannot reach:
`IdleRoomsAreDropped`, `JoinersAreServed`, `RevokedIsClosed`, `ExpiredIsClosed`, `UpdatesReachEverybody`,
`NewsIsMailed`. Every other property of a passing run is a theorem. What needs an assumption on
`Events` above is not true without it.

## Not modelled

Parts of modelled components:

- Links and embeds between pages (`links.rs`, `transclusion.rs` beyond the ids): rows rewritten in
  the transaction of the publish they follow. The next module to write, with `PageTree`'s
  moves: an edge that is resolved while its target is moved.
- Projects and the other fields of a card; who may see it.
- The inbox's reading marks: `mark_event_read` reads a row, asks `deliver` and writes, with the
  same race as a mark; `mark_all_read` is a loop of the same. Who caused an event.
- Changing a password, the breach corpus, and the OIDC protocol itself (state, nonce, tokens):
  no state of the wiki's own.
- Visibility changes, sort keys and titles of pages; previews beyond their rolling back.
- Of a saved view, everything but the lanes of a board, the grouping of a table and one question of
  a form; of a dataset, the cap of 100 columns, which no instance reaches.
- `created_at` has seconds, and ties go by id (`events.rs` 374): in `Notifications` the row told last is
  always the newest.
- The rate budget of a socket (`Budget::admit`): one connection's window and count that nobody
  else reads.
- Which comments a sweep orphans (`anchor.rs`): the positions of text in a CRDT are below the
  sets of items of `CollabRooms`.

Components, and why not: Markdown, diff, slugs, the evaluation of formulas, search and the client's user interface
are pure conversions of data that TLC can only sample and that the repository's tests sample
better; comments, topics and templates are single statements or transactions with no
protocol of their own; the HTTP surface keeps no state. They are most of the repository's
lines, which is why the map covers a small share of them.
