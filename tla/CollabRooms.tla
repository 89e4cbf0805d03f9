---------------------------- MODULE CollabRooms ----------------------------
(***************************************************************************)
(* The live editing of ONE page: its collaboration room, the bookkeeping   *)
(* of what the database has seen of it, the janitor's sweep that writes    *)
(* rooms out and drops idle ones, the handshake that joins a browser to a  *)
(* room, publishing, restoring an old revision, and a crash of the server. *)
(* The code is gw-api/src/routes/collab.rs, gw-collab/src/room.rs and      *)
(* gw-store/src/crdt.rs.                                                   *)
(*                                                                         *)
(* Grain.  The server runs on tokio's multi-threaded runtime, so a step    *)
(* ends at every .await AND wherever a std mutex is released: two tasks    *)
(* interleave between any two lock sections.  Everything the code does     *)
(* inside one lock section, or between two points nobody else can observe, *)
(* is one action here.                                                     *)
(*                                                                         *)
(* One page is enough: every structure is keyed by the document id, and    *)
(* all that another page shares with this one is the `building' lock, which*)
(* can only delay; every delay is already allowed here.                    *)
(*                                                                         *)
(* Data.  A CRDT state is a set of items and merging is union, which is    *)
(* what makes yrs updates idempotent, commutative and never retracted (a   *)
(* deletion is one more item).  An item is a word and the insertion that   *)
(* put it there: 0 for a word typed in a browser, n > 0 for a word that    *)
(* CollabDoc::from_block copied out of the page body when it seeded room n *)
(* -- each seeding inserts under a fresh random client id, so two seedings *)
(* of one body are different items and a CRDT keeps both.                  *)
(***************************************************************************)
EXTENDS Integers, FiniteSets

CONSTANTS
  Editors,      \* the people, each with one browser
  Words,        \* what the browsers may type, each word once
  FirstWords,   \* the body of the page when the model starts
  History,      \* the bodies in its history by then, FirstWords among them
  MaxRooms,     \* how many rooms are ever built (a bound of the model)
  Cap,          \* CollabPolicy::max_connections_per_room
  Nobody,       \* no writer, and the `building' lock is free
  Janitor,      \* the sweep, as a holder of the `building' lock
  Events        \* which of AllEvents may happen in this instance

AllEvents == {"crash", "access", "store", "publish", "restore", "reconnect"}

ASSUME EditorsAssumption == Nobody \notin Editors /\ Janitor \notin Editors /\ Nobody # Janitor
ASSUME WordsAssumption == FirstWords # {} /\ FirstWords \cap Words = {}
ASSUME HistoryAssumption == FirstWords \in History /\ History \subseteq SUBSET FirstWords
ASSUME BoundsAssumption == MaxRooms \in Nat /\ Cap \in Nat \ {0}
ASSUME EventsAssumption == Events \subseteq AllEvents

VARIABLES
  perm,       \* [Editors -> what the grants let each person do to the page]
  stored,     \* the crdt_state row; {} is "no row" (a stored state is never empty)
  body,       \* documents.body: the words every reader is served
  revisions,  \* the bodies in the page's history
  live,       \* the room Rooms holds for the page, 0 for none
  built,      \* how many rooms have been built; the n-th room is number n
  content,    \* [Rooms -> CRDT state of the room]
  idle,       \* idle_grace has passed since the live room was last touched
  book,       \* Bookkeeping of the page: is there an entry, its writer, its saved state
  lock,       \* CollabState::building
  pc,         \* [Editors -> where each person's connection stands]
  room,       \* [Editors -> the room the connection holds an Arc to, or 0]
  seen,       \* [Editors -> document.body as the handshake's authorise read it]
  got,        \* [Editors -> what crdt_state_for answered; {} is None]
  replica,    \* [Editors -> the Y.Doc in the browser; {} before its first sync]
  typed,      \* words already typed
  sweep,      \* the sweep: program counter, evicted room, room and writer of the
              \*   page's entry in the list, and the bytes it encoded
  pub,        \* a publish in flight: program counter, who, the snapshot
  restoring   \* a restore has committed its revision and not yet cleared the state

access   == <<perm>>
database == <<stored, body, revisions>>
registry == <<live, built, content, idle>>
session  == <<pc, room, seen, got>>
browser  == <<replica, typed>>

vars == <<perm, stored, body, revisions, live, built, content, idle, book, lock,
          pc, room, seen, got, replica, typed, sweep, pub, restoring>>

-----------------------------------------------------------------------------
Rooms    == 1 .. MaxRooms
AllWords == Words \cup FirstWords
Items    == AllWords \X (0 .. MaxRooms)

Perms    == {"none", "read", "write"}
Handshake == {"wanting", "reading", "read", "filling", "opened", "counted"}
Subscribed == {"joined", "applied", "live"}
SweepStages == {"listing", "encoding", "comparing", "authorising", "writing",
                "marking", "closing"}

NoEntry  == [open |-> FALSE, writer |-> Nobody, saved |-> {}]
Asleep   == [pc |-> "idle", evicted |-> 0, room |-> 0, writer |-> Nobody, encoded |-> {}]
NoPublish == [pc |-> "idle", by |-> Nobody, snap |-> {}]

\* CollabDoc::from_block into a fresh document: every word under a new client id.
Seed(words, n) == {<<w, n>> : w \in words}

\* Mutant of WordsOf: a publish that stores the document itself, not the view of it.
WordsOfEncoded(items) == items

\* CollabDoc::to_block, the lossy view a revision stores.
WordsOf(items) == {i[1] : i \in items}

\* Room::subscriber_count.
Subscribers(r) == {e \in Editors : pc[e] \in Subscribed /\ room[e] = r}

\* The entry CollabState::opened leaves: the first opener sets the baseline.
Opened(items) ==
  IF book.open THEN book ELSE [open |-> TRUE, writer |-> Nobody, saved |-> items]

Init ==
  /\ perm = [e \in Editors |-> "write"]
  /\ stored = {} /\ body = FirstWords /\ revisions = History
  /\ live = 0 /\ built = 0 /\ content = [r \in Rooms |-> {}] /\ idle = FALSE
  /\ book = NoEntry /\ lock = Nobody
  /\ pc = [e \in Editors |-> "off"] /\ room = [e \in Editors |-> 0]
  /\ seen = [e \in Editors |-> {}] /\ got = [e \in Editors |-> {}]
  /\ replica = [e \in Editors |-> {}] /\ typed = {}
  /\ sweep = Asleep /\ pub = NoPublish /\ restoring = FALSE

-----------------------------------------------------------------------------
(* The handshake: join and open_room.                                      *)

\* authorise: Action::Write, and the document as it is now.
Authorise(e) ==
  /\ pc[e] = "off" /\ perm[e] = "write"
  /\ pc' = [pc EXCEPT ![e] = "wanting"]
  /\ seen' = [seen EXCEPT ![e] = body]
  /\ UNCHANGED <<access, database, registry, book, lock, room, got, browser, sweep, pub,
                 restoring>>

\* open_room with a live room: taken under the lock, which is released on return.
\* Rooms::get does not touch the room.
OpenLive(e) ==
  /\ pc[e] = "wanting" /\ lock = Nobody /\ live # 0
  /\ book' = Opened(content[live])
  /\ pc' = [pc EXCEPT ![e] = "opened"]
  /\ room' = [room EXCEPT ![e] = live]
  /\ UNCHANGED <<access, database, registry, lock, seen, got, browser, sweep, pub, restoring>>

\* Mutant of StartBuilding: the decision is taken without waiting for `building'.
StartBuildingUnlocked(e) ==
  /\ pc[e] = "wanting" /\ live = 0
  /\ lock' = e
  /\ pc' = [pc EXCEPT ![e] = "reading"]
  /\ UNCHANGED <<access, database, registry, book, room, seen, got, browser, sweep, pub,
                 restoring>>

\* open_room with none: the lock is held from here until the room is built.
StartBuilding(e) ==
  /\ pc[e] = "wanting" /\ lock = Nobody /\ live = 0
  /\ lock' = e
  /\ pc' = [pc EXCEPT ![e] = "reading"]
  /\ UNCHANGED <<access, database, registry, book, room, seen, got, browser, sweep, pub,
                 restoring>>

\* Mutant of ReadState: the stored state is never asked for.
ReadNothing(e) ==
  /\ pc[e] = "reading" /\ built < MaxRooms
  /\ pc' = [pc EXCEPT ![e] = "read"]
  /\ UNCHANGED <<access, database, registry, book, lock, room, seen, got, browser, sweep, pub,
                 restoring>>

\* crdt_state_for: None when there is no row and ALSO when the caller may not read.
ReadState(e) ==
  /\ pc[e] = "reading" /\ built < MaxRooms
  /\ got' = [got EXCEPT ![e] = IF perm[e] = "none" THEN {} ELSE stored]
  /\ pc' = [pc EXCEPT ![e] = "read"]
  /\ UNCHANGED <<access, database, registry, book, lock, room, seen, browser, sweep, pub,
                 restoring>>

\* Nothing stored: Rooms::join seeds a room from the body the handshake read.
SeedRoom(e) ==
  /\ pc[e] = "read" /\ got[e] = {}
  /\ built' = built + 1 /\ live' = built'
  /\ content' = [content EXCEPT ![built'] = Seed(seen[e], built')]
  /\ idle' = FALSE
  /\ book' = Opened(content'[built'])
  /\ lock' = Nobody
  /\ pc' = [pc EXCEPT ![e] = "opened"] /\ room' = [room EXCEPT ![e] = built']
  /\ UNCHANGED <<access, database, seen, got, browser, sweep, pub, restoring>>

\* Mutant of EmptyRoom: the room is seeded from the body and then given its state as well.
SeededRoom(e) ==
  /\ pc[e] = "read" /\ got[e] # {}
  /\ built' = built + 1 /\ live' = built' /\ idle' = FALSE
  /\ content' = [content EXCEPT ![built'] = Seed(seen[e], built')]
  /\ pc' = [pc EXCEPT ![e] = "filling"] /\ room' = [room EXCEPT ![e] = built']
  /\ UNCHANGED <<access, database, book, lock, seen, got, browser, sweep, pub, restoring>>

\* Something stored: Rooms::join registers an EMPTY room first ...
EmptyRoom(e) ==
  /\ pc[e] = "read" /\ got[e] # {}
  /\ built' = built + 1 /\ live' = built' /\ idle' = FALSE
  /\ pc' = [pc EXCEPT ![e] = "filling"] /\ room' = [room EXCEPT ![e] = built']
  /\ UNCHANGED <<access, database, content, book, lock, seen, got, browser, sweep, pub,
                 restoring>>

\* ... and the stored state is applied to it next, outside the registry's lock.
FillRoom(e) ==
  /\ pc[e] = "filling"
  /\ content' = [content EXCEPT ![room[e]] = @ \cup got[e]]
  /\ book' = Opened(content'[room[e]])
  /\ lock' = Nobody
  /\ pc' = [pc EXCEPT ![e] = "opened"]
  /\ UNCHANGED <<access, database, live, built, idle, room, seen, got, browser, sweep, pub,
                 restoring>>

\* Mutants of FillFails: the failed room is left registered; the lock is not released.
FillFailsLeavingRoom(e) ==
  /\ "store" \in Events
  /\ pc[e] = "filling"
  /\ lock' = Nobody
  /\ pc' = [pc EXCEPT ![e] = "off"] /\ room' = [room EXCEPT ![e] = 0]
  /\ got' = [got EXCEPT ![e] = {}] /\ seen' = [seen EXCEPT ![e] = {}]
  /\ UNCHANGED <<access, database, registry, book, browser, sweep, pub, restoring>>

FillFailsHoldingLock(e) ==
  /\ "store" \in Events
  /\ pc[e] = "filling"
  /\ live' = 0
  /\ pc' = [pc EXCEPT ![e] = "off"] /\ room' = [room EXCEPT ![e] = 0]
  /\ got' = [got EXCEPT ![e] = {}] /\ seen' = [seen EXCEPT ![e] = {}]
  /\ UNCHANGED <<access, database, built, content, idle, book, lock, browser, sweep, pub,
                 restoring>>

\* apply_update refuses the stored bytes: the room is closed again and the join fails.
FillFails(e) ==
  /\ "store" \in Events
  /\ pc[e] = "filling"
  /\ live' = 0 /\ lock' = Nobody
  /\ pc' = [pc EXCEPT ![e] = "off"] /\ room' = [room EXCEPT ![e] = 0]
  /\ got' = [got EXCEPT ![e] = {}] /\ seen' = [seen EXCEPT ![e] = {}]
  /\ UNCHANGED <<access, database, built, content, idle, book, browser, sweep, pub, restoring>>

\* The request ends at an await of the handshake -- the client hangs up, or a query
\* fails -- and dropping the future releases the lock if it was held.
AbandonJoin(e) ==
  /\ pc[e] \in {"wanting", "reading"}
  /\ lock' = IF lock = e THEN Nobody ELSE lock
  /\ pc' = [pc EXCEPT ![e] = "off"] /\ seen' = [seen EXCEPT ![e] = {}]
  /\ UNCHANGED <<access, database, registry, book, room, got, browser, sweep, pub, restoring>>

\* subscriber_count() >= max_connections_per_room, and the refusal.
CheckCap(e) ==
  /\ pc[e] = "opened"
  /\ \/ /\ Cardinality(Subscribers(room[e])) < Cap
        /\ pc' = [pc EXCEPT ![e] = "counted"]
        /\ UNCHANGED <<room, seen, got>>
     \/ /\ Cardinality(Subscribers(room[e])) >= Cap
        /\ pc' = [pc EXCEPT ![e] = "off"] /\ room' = [room EXCEPT ![e] = 0]
        /\ got' = [got EXCEPT ![e] = {}] /\ seen' = [seen EXCEPT ![e] = {}]
  /\ UNCHANGED <<access, database, registry, book, lock, browser, sweep, pub, restoring>>

\* Room::subscribe, which touches the room.
Subscribe(e) ==
  /\ pc[e] = "counted"
  /\ idle' = IF room[e] = live THEN FALSE ELSE idle
  /\ pc' = [pc EXCEPT ![e] = "joined"]
  /\ got' = [got EXCEPT ![e] = {}] /\ seen' = [seen EXCEPT ![e] = {}]
  /\ UNCHANGED <<access, database, live, built, content, book, lock, room, browser, sweep, pub,
                 restoring>>

-----------------------------------------------------------------------------
(* The session: run, as far as the room is concerned.                      *)

\* The update branch of run: vetted, then applied to the room this connection holds,
\* then broadcast.  The first frame is the browser's sync reply, sent even when it
\* brings nothing.
Apply(e) ==
  /\ pc[e] \in {"joined", "live"} /\ perm[e] = "write"
  /\ pc[e] = "joined" \/ ~(replica[e] \subseteq content[room[e]])
  /\ content' = [content EXCEPT ![room[e]] = @ \cup replica[e]]
  /\ idle' = IF room[e] = live THEN FALSE ELSE idle
  /\ pc' = [pc EXCEPT ![e] = "applied"]
  /\ UNCHANGED <<access, database, live, built, book, lock, room, seen, got, browser, sweep,
                 pub, restoring>>

\* CollabState::wrote, after the broadcast.
Wrote(e) ==
  /\ pc[e] = "applied"
  /\ book' = IF book.open THEN [book EXCEPT !.writer = e] ELSE book
  /\ pc' = [pc EXCEPT ![e] = "live"]
  /\ UNCHANGED <<access, database, registry, lock, room, seen, got, browser, sweep, pub,
                 restoring>>

\* Frames of the room reach the browser (sync step 2, relayed updates, a resync).
Receive(e) ==
  /\ pc[e] \in {"joined", "live"} /\ perm[e] = "write"
  /\ replica' = [replica EXCEPT ![e] = @ \cup content[room[e]]]
  /\ UNCHANGED <<access, database, registry, book, lock, session, typed, sweep, pub, restoring>>

\* The socket ends: closed by either side, or the vet said no.  The browser keeps its
\* Y.Doc and retries -- or the tab is closed with it.
Leave(e) ==
  /\ pc[e] \in {"joined", "live"}
  /\ pc' = [pc EXCEPT ![e] = "off"] /\ room' = [room EXCEPT ![e] = 0]
  /\ \/ replica' = [replica EXCEPT ![e] = {}]
     \/ "reconnect" \in Events /\ UNCHANGED replica
  /\ UNCHANGED <<access, database, registry, book, lock, seen, got, typed, sweep, pub, restoring>>

\* Somebody types.  The editor is mounted by the first sync and stays typeable offline.
Type(e, w) ==
  /\ replica[e] # {} /\ w \in Words \ typed
  /\ replica' = [replica EXCEPT ![e] = @ \cup {<<w, 0>>}]
  /\ typed' = typed \cup {w}
  /\ UNCHANGED <<access, database, registry, book, lock, session, sweep, pub, restoring>>

\* A tab that was retrying is closed.
CloseTab(e) ==
  /\ pc[e] = "off" /\ replica[e] # {}
  /\ replica' = [replica EXCEPT ![e] = {}]
  /\ UNCHANGED <<access, database, registry, book, lock, session, typed, sweep, pub, restoring>>

-----------------------------------------------------------------------------
(* The sweep.                                                              *)

\* Time passes.  The tail of a handshake -- from the touch in Rooms::join to the one in
\* Room::subscribe -- and the comparison of persist have no await in them and take far
\* less than idle_grace.
GraceElapses ==
  /\ live # 0 /\ ~idle
  /\ sweep.pc # "comparing" /\ \A e \in Editors : pc[e] \notin {"filling", "opened", "counted"}
  /\ idle' = TRUE
  /\ UNCHANGED <<access, database, live, built, content, book, lock, session, browser, sweep,
                 pub, restoring>>

\* Mutant of EvictIdle: a room with unsaved work is kept until a save of it succeeds.
EvictSavedOnly ==
  /\ sweep.pc = "idle" /\ lock = Nobody
  /\ lock' = Janitor
  /\ LET gone == live # 0 /\ idle /\ Subscribers(live) = {} /\ book.writer = Nobody IN
       /\ sweep' = [sweep EXCEPT !.pc = "listing", !.evicted = IF gone THEN live ELSE 0]
       /\ live' = IF gone THEN 0 ELSE live
       /\ idle' = IF gone THEN FALSE ELSE idle
  /\ UNCHANGED <<access, database, built, content, book, session, browser, pub, restoring>>

\* sweep takes the lock and evicts first.
EvictIdle ==
  /\ sweep.pc = "idle" /\ lock = Nobody
  /\ lock' = Janitor
  /\ \/ /\ live # 0 /\ idle /\ Subscribers(live) = {}
        /\ sweep' = [sweep EXCEPT !.pc = "listing", !.evicted = live]
        /\ live' = 0 /\ idle' = FALSE
     \/ /\ ~(live # 0 /\ idle /\ Subscribers(live) = {})
        /\ sweep' = [sweep EXCEPT !.pc = "listing"]
        /\ UNCHANGED <<live, idle>>
  /\ UNCHANGED <<access, database, built, content, book, session, browser, pub, restoring>>

\* Mutant of List: the evicted copies are not looked through.
ListLiveOnly ==
  /\ sweep.pc = "listing"
  /\ sweep' = IF book.writer # Nobody /\ live # 0
                THEN [sweep EXCEPT !.pc = "encoding", !.room = live, !.writer = book.writer]
                ELSE [sweep EXCEPT !.pc = "closing"]
  /\ UNCHANGED <<access, database, registry, book, lock, session, browser, pub, restoring>>

\* CollabState::unsaved, and the room of the page's entry: the evicted copy or the live one.
List ==
  /\ sweep.pc = "listing"
  /\ LET r == IF sweep.evicted # 0 THEN sweep.evicted ELSE live IN
     \/ /\ book.writer # Nobody /\ r # 0
        /\ sweep' = [sweep EXCEPT !.pc = "encoding", !.room = r, !.writer = book.writer]
     \/ /\ book.writer = Nobody \/ r = 0
        /\ sweep' = [sweep EXCEPT !.pc = "closing"]
  /\ UNCHANGED <<access, database, registry, book, lock, session, browser, pub, restoring>>

\* persist: encode_state ...
Encode ==
  /\ sweep.pc = "encoding"
  /\ sweep' = [sweep EXCEPT !.pc = "comparing", !.encoded = content[sweep.room]]
  /\ UNCHANGED <<access, database, registry, book, lock, session, browser, pub, restoring>>

\* ... differs, and saved() when it does not ...
Compare ==
  /\ sweep.pc = "comparing"
  /\ \/ /\ book.open /\ book.saved = sweep.encoded
        /\ book' = [book EXCEPT !.writer = Nobody]
        /\ sweep' = [sweep EXCEPT !.pc = "closing"]
     \/ /\ ~(book.open /\ book.saved = sweep.encoded)
        /\ sweep' = [sweep EXCEPT !.pc = "authorising"]
        /\ UNCHANGED book
  /\ UNCHANGED <<access, database, registry, lock, session, browser, pub, restoring>>

\* ... principal_by_id and the `may' of save_crdt_state ...
AuthoriseSave ==
  /\ sweep.pc = "authorising"
  /\ sweep' = [sweep EXCEPT !.pc = IF perm[sweep.writer] = "write" THEN "writing" ELSE "closing"]
  /\ UNCHANGED <<access, database, registry, book, lock, session, browser, pub, restoring>>

\* ... its INSERT ...
WriteState ==
  /\ sweep.pc = "writing"
  /\ stored' = sweep.encoded
  /\ sweep' = [sweep EXCEPT !.pc = "marking"]
  /\ UNCHANGED <<access, body, revisions, registry, book, lock, session, browser, pub, restoring>>

\* ... and, after orphan_lost_anchors, saved().
MarkSaved ==
  /\ sweep.pc = "marking"
  /\ book' = IF book.open THEN [book EXCEPT !.writer = Nobody, !.saved = sweep.encoded] ELSE book
  /\ sweep' = [sweep EXCEPT !.pc = "closing"]
  /\ UNCHANGED <<access, database, registry, lock, session, browser, pub, restoring>>

\* Any query of persist fails: it is logged and the pass goes on.
PersistFails ==
  /\ "store" \in Events
  /\ sweep.pc \in {"authorising", "writing"}
  /\ sweep' = [sweep EXCEPT !.pc = "closing"]
  /\ UNCHANGED <<access, database, registry, book, lock, session, browser, pub, restoring>>

\* Mutant of CloseEvicted: the evicted room's bookkeeping is not forgotten.
CloseNothing ==
  /\ sweep.pc = "closing"
  /\ sweep' = Asleep
  /\ lock' = Nobody
  /\ UNCHANGED <<access, database, registry, book, session, browser, pub, restoring>>

\* closed() for an evicted room, and the lock is released.
CloseEvicted ==
  /\ sweep.pc = "closing"
  /\ book' = IF sweep.evicted # 0 THEN NoEntry ELSE book
  /\ sweep' = Asleep
  /\ lock' = Nobody
  /\ UNCHANGED <<access, database, registry, session, browser, pub, restoring>>

-----------------------------------------------------------------------------
(* Publishing, restoring, access, and the process dying.                   *)

PublishAuthorise(e) ==
  /\ "publish" \in Events
  /\ pub.pc = "idle" /\ perm[e] = "write"
  /\ pub' = [pub EXCEPT !.pc = "authorised", !.by = e]
  /\ UNCHANGED <<access, database, registry, book, lock, session, browser, sweep, restoring>>

\* Rooms::get -- without the `building' lock -- and the snapshot; 409 with no room.
PublishSnapshot ==
  /\ pub.pc = "authorised"
  /\ \/ live # 0 /\ pub' = [pub EXCEPT !.pc = "snapped", !.snap = WordsOf(content[live])]
     \/ live = 0 /\ pub' = NoPublish
  /\ UNCHANGED <<access, database, registry, book, lock, session, browser, sweep, restoring>>

\* publish_revision, which asks for Action::Write again (question and transaction are one
\* step: no property here tells them apart).
PublishWrite ==
  /\ pub.pc = "snapped"
  /\ IF perm[pub.by] = "write"
       THEN body' = pub.snap /\ revisions' = revisions \cup {pub.snap}
       ELSE UNCHANGED <<body, revisions>>
  /\ pub' = NoPublish
  /\ UNCHANGED <<access, stored, registry, book, lock, session, browser, sweep, restoring>>

\* restore_revision: the old body becomes a new revision in one transaction ...
RestoreRevision(e, old) ==
  /\ "restore" \in Events
  /\ ~restoring /\ perm[e] = "write" /\ old \in revisions
  /\ body' = old
  /\ restoring' = TRUE
  /\ UNCHANGED <<access, stored, revisions, registry, book, lock, session, browser, sweep, pub>>

\* ... and the stored state is cleared by a second statement.
ClearState ==
  /\ restoring
  /\ stored' = {}
  /\ restoring' = FALSE
  /\ UNCHANGED <<access, body, revisions, registry, book, lock, session, browser, sweep, pub>>

\* ... or not: that statement fails, or the request is dropped between the two.
AbandonRestore ==
  /\ restoring
  /\ restoring' = FALSE
  /\ UNCHANGED <<access, database, registry, book, lock, session, browser, sweep, pub>>

\* Grants, visibility, groups or the account change.
ChangeAccess(e, p) ==
  /\ "access" \in Events
  /\ p # perm[e]
  /\ perm' = [perm EXCEPT ![e] = p]
  /\ UNCHANGED <<database, registry, book, lock, session, browser, sweep, pub, restoring>>

\* The process dies and comes back: what was in memory is gone, the database is not, and
\* the browsers are still open, retrying.
Crash ==
  /\ "crash" \in Events
  /\ live' = 0 /\ idle' = FALSE /\ book' = NoEntry /\ lock' = Nobody
  /\ pc' = [e \in Editors |-> "off"] /\ room' = [e \in Editors |-> 0]
  /\ seen' = [e \in Editors |-> {}] /\ got' = [e \in Editors |-> {}]
  /\ replica' = [e \in Editors |-> IF "reconnect" \in Events THEN replica[e] ELSE {}]
  /\ sweep' = Asleep /\ pub' = NoPublish /\ restoring' = FALSE
  /\ UNCHANGED <<access, database, built, content, typed>>

-----------------------------------------------------------------------------
Join(e) ==
  \/ Authorise(e) \/ OpenLive(e) \/ StartBuilding(e) \/ ReadState(e) \/ SeedRoom(e)
  \/ EmptyRoom(e) \/ FillRoom(e) \/ FillFails(e) \/ AbandonJoin(e) \/ CheckCap(e)
  \/ Subscribe(e)

Session(e) ==
  \/ Apply(e) \/ Wrote(e) \/ Receive(e) \/ Leave(e) \/ CloseTab(e)
  \/ \E w \in Words : Type(e, w)

Sweep ==
  \/ EvictIdle \/ List \/ Encode \/ Compare \/ AuthoriseSave \/ WriteState \/ MarkSaved
  \/ PersistFails \/ CloseEvicted

Publish == (\E e \in Editors : PublishAuthorise(e)) \/ PublishSnapshot \/ PublishWrite

Restore ==
  \/ \E e \in Editors, old \in revisions : RestoreRevision(e, old)
  \/ ClearState \/ AbandonRestore

Next ==
  \/ \E e \in Editors : Join(e) \/ Session(e)
  \/ \E e \in Editors, p \in Perms : ChangeAccess(e, p)
  \/ GraceElapses \/ Sweep \/ Publish \/ Restore \/ Crash

Spec == Init /\ [][Next]_vars

\* A task that can run is run; both lock waiters are served in their turn, because a
\* tokio mutex is a FIFO queue; the janitor's ticker never stops (spawn_janitor); time passes.
\* Nothing is assumed of the people: nobody need join, type, leave or publish.
Served(e) ==
  \/ ReadState(e) \/ (pc[e] = "reading" /\ AbandonJoin(e))
  \/ SeedRoom(e) \/ EmptyRoom(e) \/ FillRoom(e) \/ CheckCap(e) \/ Subscribe(e) \/ Wrote(e)

FairSpec ==
  /\ Spec
  /\ \A e \in Editors : WF_vars(Served(e)) /\ SF_vars(OpenLive(e) \/ StartBuilding(e))
  /\ SF_vars(EvictIdle)
  /\ WF_vars(List \/ Encode \/ Compare \/ AuthoriseSave \/ WriteState \/ MarkSaved \/ CloseEvicted)
  /\ SF_vars(GraceElapses)

-----------------------------------------------------------------------------
(* Properties.                                                             *)

\* The type invariant.
TypeOK ==
  /\ perm \in [Editors -> Perms]
  /\ stored \in SUBSET Items /\ body \in SUBSET AllWords
  /\ revisions \in SUBSET SUBSET AllWords
  /\ live \in 0 .. MaxRooms /\ built \in 0 .. MaxRooms
  /\ content \in [Rooms -> SUBSET Items] /\ idle \in BOOLEAN
  /\ book \in [open : BOOLEAN, writer : Editors \cup {Nobody}, saved : SUBSET Items]
  /\ lock \in Editors \cup {Nobody, Janitor}
  /\ pc \in [Editors -> {"off"} \cup Handshake \cup Subscribed]
  /\ room \in [Editors -> 0 .. MaxRooms]
  /\ seen \in [Editors -> SUBSET AllWords] /\ got \in [Editors -> SUBSET Items]
  /\ replica \in [Editors -> SUBSET Items] /\ typed \in SUBSET Words
  /\ sweep \in [pc : {"idle"} \cup SweepStages, evicted : 0 .. MaxRooms,
                 room : 0 .. MaxRooms, writer : Editors \cup {Nobody}, encoded : SUBSET Items]
  /\ pub \in [pc : {"idle", "authorised", "snapped"}, by : Editors \cup {Nobody},
               snap : SUBSET AllWords]
  /\ restoring \in BOOLEAN

\* A room that is open for editing -- and one the sweep has evicted and still has to
\* write -- holds everything the database holds of the page: this is what `building'
\* is for.  Were it false, the next save would overwrite text nobody can see any more.
RoomHoldsStored ==
  /\ live # 0 /\ (\A e \in Editors : pc[e] # "filling") => stored \subseteq content[live]
  /\ sweep.evicted # 0 => stored \subseteq content[sweep.evicted]

\* The sweep's closed() and a joiner's opened() never cross: outside the building of a
\* room, the page has a bookkeeping entry exactly while it has a room, live or evicted.
\* A live room without one is never written out (wrote() finds nothing to mark), and an
\* entry without a room is the "vanished before it could be written" error of sweep.
EntryMatchesRoom ==
  /\ live # 0 /\ lock \notin Editors => book.open
  /\ book.open => live # 0 \/ sweep.evicted # 0

\* save_crdt_state replaces the row with a state that contains the old one: the stored
\* document only grows, except when a restore deliberately clears it.
SavesNeverForget ==
  [][stored \subseteq stored' \/ (restoring /\ stored' = {})]_stored

\* No word is in a room under two insertions: a page is seeded from its body at most once
\* into any document that is being edited (open_room, case 3).
OneCopy ==
  \A r \in Rooms : \A i, j \in content[r] : i[1] = j[1] => i = j

\* A room nobody is in is eventually dropped, or somebody comes back to it.
IdleRoomsAreDropped ==
  \A r \in Rooms : (live = r /\ Subscribers(r) = {}) ~> (live # r \/ Subscribers(r) # {})

\* A handshake that waits for `building' leaves open_room: with a room, or refused.
JoinersAreServed ==
  \A e \in Editors :
    pc[e] \in {"wanting", "reading", "read", "filling"}
      ~> pc[e] \notin {"wanting", "reading", "read", "filling"}
-----------------------------------------------------------------------------
(* The inductive strengthening of RoomHoldsStored and EntryMatchesRoom: who *)
(* may be doing what while `building' is held.                             *)

Builders == {"reading", "read", "filling"}
Saving   == {"comparing", "authorising", "writing", "marking"}

\* The lock is held by the one whose program counter says so.
LockMatchesHolder ==
  /\ lock = Janitor <=> sweep.pc # "idle"
  /\ \A e \in Editors : lock = e <=> pc[e] \in Builders

\* Rooms are numbered in the order they are built; while one is being built there is
\* no other, no bookkeeping of one, and the sweep is not holding an evicted one.
OneRoomAtATime ==
  /\ live <= built /\ sweep.evicted <= built /\ sweep.room <= built
  /\ \A e \in Editors :
       /\ room[e] <= built
       /\ pc[e] \in {"opened", "counted", "filling"} \cup Subscribed => room[e] # 0
       /\ pc[e] = "read" => built < MaxRooms
       /\ pc[e] \in {"reading", "read"} => live = 0
       /\ pc[e] = "filling" => live # 0 /\ room[e] = live /\ content[live] = {}
       /\ pc[e] = "filling" => \A f \in Editors \ {e} : room[f] # live
  /\ lock \in Editors => ~book.open
  /\ \A r \in Rooms : r > built => content[r] = {}

\* What the sweep is holding.
SweepHoldsTheRoom ==
  /\ sweep.pc = "idle" => sweep.evicted = 0
  /\ sweep.evicted # 0 => live = 0
  /\ sweep.pc \in {"encoding"} \cup Saving =>
       /\ sweep.room # 0
       /\ sweep.room = (IF sweep.evicted # 0 THEN sweep.evicted ELSE live)
       /\ sweep.writer \in Editors

\* What has been read or encoded under the lock still covers the row.
WorkCoversStored ==
  /\ \A e \in Editors : pc[e] \in {"read", "filling"} => stored \in {{}, got[e]}
  /\ sweep.pc \in Saving =>
       stored \subseteq sweep.encoded /\ sweep.encoded \subseteq content[sweep.room]

Structure == LockMatchesHolder /\ OneRoomAtATime /\ SweepHoldsTheRoom /\ EntryMatchesRoom
Coverage  == WorkCoversStored /\ RoomHoldsStored

\* The inductive invariant of the proofs in CollabRooms_proofs: who may do what while the
\* lock is held, and that everything read or encoded under it still covers the row.
Inductive == TypeOK /\ Structure /\ Coverage

\* The inductive strengthening of OneCopy.  What can come together in room r: its content
\* and the documents of the browsers that are connected to it.
SingleCopy(items) == \A i, j \in items : i[1] = j[1] => i = j

Gathered(r) ==
  {i \in Items : i \in content[r] \/ \E e \in Editors : room[e] = r /\ i \in replica[e]}

\* No word is in two insertions in anything that may still be merged into a room: the room
\* with its browsers, the row, what was read of it, and what the sweep is about to write.
\* A browser that is in no room brings nothing along.
CopiesAreSingle ==
  /\ \A e \in Editors : pc[e] \notin Subscribed => replica[e] = {}
  /\ \A r \in Rooms : SingleCopy(Gathered(r))
  /\ SingleCopy(stored) /\ SingleCopy(sweep.encoded)
  /\ \A e \in Editors : SingleCopy(got[e])

\* A word nobody has typed yet is nowhere: neither in a document nor in a body.
Known == FirstWords \cup typed

WordsAreKnown ==
  /\ \A r \in Rooms : WordsOf(content[r]) \subseteq Known
  /\ \A e \in Editors :
       WordsOf(replica[e]) \subseteq Known /\ WordsOf(got[e]) \subseteq Known
       /\ seen[e] \subseteq Known
  /\ WordsOf(stored) \subseteq Known /\ WordsOf(sweep.encoded) \subseteq Known
  /\ body \subseteq Known /\ pub.snap \subseteq Known
  /\ \A old \in revisions : old \subseteq Known
=============================================================================
