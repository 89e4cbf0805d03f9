----------------------------- MODULE PageLines -----------------------------
(***************************************************************************)
(* The lines of one page that other things hold on to: checklist lines,    *)
(* which have a card on a board, and headings, which other pages embed by  *)
(* an id.  The ids are minted by a publish, into the body it stores; the   *)
(* live document, which people go on editing, is not told.  The code is    *)
(* append_revision and its callers in revisions.rs, reconcile_tasks and    *)
(* the board's operations in tasks.rs, mint_heading_ids in transclusion.rs,*)
(* publish in collab.rs and seed.rs, and the editor's extensions.ts.       *)
(*                                                                         *)
(* A publish takes a snapshot of the room, is authorised and resolves      *)
(* references, and commits; two of them, a restore and an import may all   *)
(* be under way.  Who may publish is left out (see CollabRooms), as are    *)
(* what a card says beyond its title and lines that are neither.           *)
(* That the store fails is a commit that does not happen: Abort.           *)
(***************************************************************************)
EXTENDS Naturals, FiniteSets, Sequences

CONSTANTS
  Words,     \* what a checklist line may say
  Blank,     \* a checklist line that says nothing
  Heading,   \* a line that is a heading
  Writers,   \* requests to publish, import or restore at one time
  First,     \* what the page says when it is made: a sequence of what lines say
  Imports,   \* what files say, likewise
  MaxLines, MaxIds, MaxCards, MaxSteps   \* bounds of the model

Tasks == Words \cup {Blank}
Says  == Tasks \cup {Heading}

ASSUME SaysAssumption == Blank \notin Words /\ Heading \notin Tasks /\ {First} \cup Imports \subseteq Seq(Says)
ASSUME BoundsAssumption ==
  /\ {MaxLines, MaxIds, MaxCards, MaxSteps} \subseteq Nat
  /\ MaxLines <= MaxIds /\ MaxLines <= MaxCards
  /\ \A s \in {First} \cup Imports : Len(s) <= MaxLines

VARIABLES
  stored,   \* documents.body: what the lines say, and their ids
  history,  \* the bodies of the revisions
  cards,    \* rows of tasks with a block_id: [card -> block, title, detached]
  live,     \* the lines of the live document, each with a key of its own
  room,     \* whether a room is open
  kept,     \* whether the live document outlives the room: edited, or in crdt_state
  flow,     \* [Writers -> the request under way]
  known,    \* the id under which a line of the live document stands in the body last stored
            \* from it, 0 if in none
  left      \* how many steps people may still take

vars == <<stored, history, cards, live, room, kept, flow, known, left>>

Ids   == 1..MaxIds
Cards == 1..MaxCards
Keys  == 1..3 * MaxLines
NoId  == 0

Idle == [stage |-> "idle"]

Lines       == [id : Ids \cup {NoId}, says : Says]
Keyed(keys) == [key : keys, id : Ids \cup {NoId}, says : Says]
SeqOf(s, S) == \E n \in 0..MaxLines : s \in [1..n -> S]

IdsIn(s)  == {s[n].id : n \in DOMAIN s} \ {NoId}
KeysIn(s) == {s[n].key : n \in DOMAIN s} \ {0}
Plain(s)  == [n \in DOMAIN s |-> [id |-> s[n].id, says |-> s[n].says]]
Without(s, n) == SubSeq(s, 1, n - 1) \o SubSeq(s, n + 1, Len(s))
Into(s, n, e) == SubSeq(s, 1, n) \o <<e>> \o SubSeq(s, n + 1, Len(s))

Taken == {w \in Writers : flow[w].stage = "taken"}

\* uuids are new: no id that anything remembers.
FreeIds ==
  Ids \ ((UNION {IdsIn(s) : s \in history \cup {stored, live} \cup {flow[w].body : w \in Taken}})
          \cup {cards[c].block : c \in DOMAIN cards} \cup {known[k] : k \in Keys})
FreeKeys == Keys \ (KeysIn(live) \cup (UNION {KeysIn(flow[w].body) : w \in Taken}))
NewKey   == CHOOSE key \in FreeKeys : TRUE

\* One of free for each of S, no two the same.
Fresh(S, free) == CHOOSE f \in [S -> free] : \A m, n \in S : m # n => f[m] # f[n]

-----------------------------------------------------------------------------
(* reconcile_tasks and mint_heading_ids *)

\* collect_task_lines: an empty one is not yet a task.
IsTask(line) == line.says \in Words
TaskLines(s) == {n \in DOMAIN s : IsTask(s[n])}

\* Mutant of Carried: a line copied with its id keeps it.
CarriedByAll(s, n) == s[n].id

\* The id a line effectively carries: a repeat counts as none.
Carried(s, n) ==
  IF \E m \in TaskLines(s) : m < n /\ s[m].id = s[n].id THEN NoId ELSE s[n].id

Titled(says) == {c \in DOMAIN cards : cards[c].title = says}

\* Mutant of ClaimsOf: a line that names a card that is not there is offered another.
ClaimsByWords(s) ==
  {claim \in [TaskLines(s) -> DOMAIN cards \cup {0}] :
     \A n \in TaskLines(s) :
       /\ claim[n] # 0 => cards[claim[n]].title = s[n].says
       /\ claim[n] = 0 => Titled(s[n].says) \subseteq {claim[m] : m \in TaskLines(s)}
       /\ \A m \in TaskLines(s) \ {n} : claim[n] # 0 => claim[m] # claim[n]}

\* The cards the lines of s claim (0: none): by id; a line without one adopts a card with the
\* same words that nobody claimed, the first line first, an attached card before a detached one.
\* Among equals the order is the board's.
ClaimsOf(s) ==
  LET byId == {n \in TaskLines(s) : Carried(s, n) # NoId}
      rest == TaskLines(s) \ byId
  IN {claim \in [TaskLines(s) -> DOMAIN cards \cup {0}] :
        /\ \A n, m \in TaskLines(s) : n # m /\ claim[n] # 0 => claim[m] # claim[n]
        /\ \A n \in byId :
             IF claim[n] # 0 THEN cards[claim[n]].block = Carried(s, n)
             ELSE \A c \in DOMAIN cards : cards[c].block # Carried(s, n)
        /\ \A n \in rest :
             LET open == Titled(s[n].says) \ {claim[m] : m \in {m \in rest : m < n} \cup byId}
             IN IF open = {} THEN claim[n] = 0
                ELSE /\ claim[n] \in open
                     /\ cards[claim[n]].detached => \A c \in open : cards[c].detached}

\* Lines that get an id: checklist lines without card and id, headings without id.
Minted(s, claim) ==
  {n \in DOMAIN s : \/ n \in TaskLines(s) /\ claim[n] = 0 /\ Carried(s, n) = NoId
                    \/ s[n].says = Heading /\ s[n].id = NoId}

\* The body that is stored: what was minted into.
Stamped(s, claim) ==
  [n \in DOMAIN s |->
     [s[n] EXCEPT !.id =
        IF n \in Minted(s, claim) THEN Fresh(Minted(s, claim), FreeIds)[n]
        ELSE IF n \notin TaskLines(s) THEN @
        ELSE IF claim[n] # 0 THEN cards[claim[n]].block
        ELSE Carried(s, n)]]

\* Mutant of Reconciled: a card that nothing claims stays where it was.
ReconciledAttached(s, claim) ==
  LET made == {n \in TaskLines(s) : claim[n] = 0}
      card(n) == IF claim[n] # 0 THEN claim[n] ELSE Fresh(made, Cards \ DOMAIN cards)[n]
  IN [c \in DOMAIN cards \cup {card(n) : n \in made} |->
        IF \E n \in TaskLines(s) : card(n) = c
        THEN LET n == CHOOSE n \in TaskLines(s) : card(n) = c
             IN [block |-> Stamped(s, claim)[n].id, title |-> s[n].says, detached |-> FALSE]
        ELSE cards[c]]

\* The board afterwards: claimed cards say what their lines say, lines without one get one,
\* cards that nothing claims are detached.
Reconciled(s, claim) ==
  LET made == {n \in TaskLines(s) : claim[n] = 0}
      card(n) == IF claim[n] # 0 THEN claim[n] ELSE Fresh(made, Cards \ DOMAIN cards)[n]
  IN [c \in DOMAIN cards \cup {card(n) : n \in made} |->
        IF \E n \in TaskLines(s) : card(n) = c
        THEN LET n == CHOOSE n \in TaskLines(s) : card(n) = c
             IN [block |-> Stamped(s, claim)[n].id, title |-> s[n].says, detached |-> FALSE]
        ELSE [cards[c] EXCEPT !.detached = TRUE]]

\* append_revision: the board, the revision and the page, in one transaction.
AppendRevision(s) ==
  \E claim \in ClaimsOf(s) :
    /\ Cardinality(Minted(s, claim)) <= Cardinality(FreeIds)
    /\ Cardinality({n \in TaskLines(s) : claim[n] = 0}) <= Cardinality(Cards \ DOMAIN cards)
    /\ LET new == Stamped(s, claim)
       IN /\ stored' = Plain(new)
          /\ history' = history \cup {Plain(new)}
          /\ cards' = Reconciled(s, claim)
          /\ known' = [k \in Keys |->
               IF k \notin KeysIn(live) THEN 0
               ELSE IF k \notin KeysIn(s) THEN known[k]
               ELSE new[CHOOSE n \in DOMAIN s : s[n].key = k].id]

-----------------------------------------------------------------------------
Request(f) ==
  \/ f \in {Idle, [stage |-> "clear"]}
  \/ /\ f = [stage |-> "taken", body |-> f.body, restore |-> f.restore]
     /\ SeqOf(f.body, Keyed(Keys \cup {0})) /\ f.restore \in BOOLEAN

PageOK ==
  /\ stored \in history /\ \A s \in history : SeqOf(s, Lines)
  /\ DOMAIN cards \subseteq Cards
  /\ cards \in [DOMAIN cards -> [block : Ids, title : Words, detached : BOOLEAN]]

LiveOK ==
  /\ SeqOf(live, Keyed(Keys))
  /\ \A n, m \in DOMAIN live : n # m => live[n].key # live[m].key
  /\ room \in BOOLEAN /\ kept \in BOOLEAN
  /\ known \in [Keys -> Ids \cup {NoId}]

FlowOK ==
  /\ flow = [w \in Writers |-> flow[w]] /\ \A w \in Writers : Request(flow[w])
  /\ left \in 0..MaxSteps

TypeOK == PageOK /\ LiveOK /\ FlowOK

\* create_document publishes the first body.
Init ==
  /\ stored = [n \in DOMAIN First |-> [id |-> IF First[n] = Blank THEN NoId ELSE n, says |-> First[n]]]
  /\ history = {stored}
  /\ cards = [n \in TaskLines(stored) |-> [block |-> n, title |-> First[n], detached |-> FALSE]]
  /\ live = <<>> /\ room = FALSE /\ kept = FALSE
  /\ flow = [w \in Writers |-> Idle]
  /\ known = [k \in Keys |-> NoId]
  /\ left = MaxSteps

Step == left > 0 /\ left' = left - 1

page == <<stored, history, cards>>

-----------------------------------------------------------------------------
(* The live document *)

\* A room is opened: from crdt_state, or seeded from the body.
Open ==
  /\ ~room
  /\ room' = TRUE
  /\ IF kept THEN UNCHANGED <<live, known>>
     ELSE /\ live' = [n \in DOMAIN stored |->
                        [key |-> n, id |-> stored[n].id, says |-> stored[n].says]]
          /\ known' = [k \in Keys |-> IF k \in DOMAIN stored THEN stored[k].id ELSE NoId]
  /\ UNCHANGED <<page, kept, flow, left>>

\* The live document is gone: the next one is another, whatever snapshots there are.
Unkeyed(f) ==
  IF f.stage = "taken"
  THEN [f EXCEPT !.body = [n \in DOMAIN f.body |-> [f.body[n] EXCEPT !.key = 0]]]
  ELSE f

Forgotten(flows) ==
  /\ live' = <<>> /\ known' = [k \in Keys |-> NoId]
  /\ flow' = [w \in Writers |-> Unkeyed(flows[w])]

\* The room is evicted; what nobody edited is not kept.
Close ==
  /\ room
  /\ room' = FALSE
  /\ IF kept THEN UNCHANGED <<live, known, flow>> ELSE Forgotten(flow)
  /\ UNCHANGED <<page, kept, left>>

Edited == room /\ kept' = TRUE /\ UNCHANGED <<page, room, flow>>

\* A new line: the editor gives it no id.
Type ==
  /\ Step /\ Edited
  /\ Len(live) < MaxLines /\ FreeKeys # {}
  /\ \E n \in 0..Len(live), says \in Words \cup {Heading} :
       LET key == NewKey
       IN /\ live' = Into(live, n, [key |-> key, id |-> NoId, says |-> says])
          /\ known' = [known EXCEPT ![key] = NoId]

\* A copy, dragged: with the id.
Copy ==
  /\ Step /\ Edited
  /\ Len(live) < MaxLines /\ FreeKeys # {}
  /\ \E n \in DOMAIN live, m \in 0..Len(live) :
       LET key == NewKey
       IN /\ live' = Into(live, m, [live[n] EXCEPT !.key = key])
          /\ known' = [known EXCEPT ![key] = NoId]

Reword ==
  /\ Step /\ Edited
  /\ \E n \in DOMAIN live, says \in Tasks :
       /\ live[n].says \in Tasks /\ says # live[n].says
       /\ live' = [live EXCEPT ![n].says = says]
  /\ UNCHANGED known

Remove ==
  /\ Step /\ Edited
  /\ \E n \in DOMAIN live :
       /\ live' = Without(live, n)
       /\ known' = [known EXCEPT ![live[n].key] = NoId]

-----------------------------------------------------------------------------
(* Publishing *)

Begin(w, body, restore) ==
  /\ flow[w] = Idle
  /\ flow' = [flow EXCEPT ![w] = [stage |-> "taken", body |-> body, restore |-> restore]]

\* Publish: the snapshot of the room.
Snapshot(w) ==
  /\ Step
  /\ room
  /\ Begin(w, live, FALSE)
  /\ UNCHANGED <<page, live, room, kept, known>>

\* Restore: the body of a revision, ids and all.
ReadRevision(w) ==
  /\ Step
  /\ \E body \in history :
       Begin(w, [n \in DOMAIN body |-> [key |-> 0, id |-> body[n].id, says |-> body[n].says]], TRUE)
  /\ UNCHANGED <<page, live, room, kept, known>>

\* seed --update: converted markdown, which has no ids.
Import(w) ==
  /\ Step
  /\ \E says \in Imports :
       /\ says # [n \in DOMAIN stored |-> stored[n].says]
       /\ Begin(w, [n \in DOMAIN says |-> [key |-> 0, id |-> NoId, says |-> says[n]]], FALSE)
  /\ UNCHANGED <<page, live, room, kept, known>>

\* The transaction of publish_revision.
Commit(w) ==
  /\ w \in Taken
  /\ AppendRevision(flow[w].body)
  /\ flow' = [flow EXCEPT ![w] = IF @.restore THEN [stage |-> "clear"] ELSE Idle]
  /\ UNCHANGED <<live, room, kept, left>>

\* clear_crdt_state_unchecked: an open room goes on, and writes itself again when it is edited,
\* or was and has not been swept.
Clear(w) ==
  /\ flow[w].stage = "clear"
  /\ kept' \in {FALSE, room /\ kept}
  /\ IF room THEN flow' = [flow EXCEPT ![w] = Idle] /\ UNCHANGED <<live, known>>
     ELSE Forgotten([flow EXCEPT ![w] = Idle])
  /\ UNCHANGED <<page, room, left>>

\* A refusal, a store that fails, the end of the process.
Abort(w) ==
  /\ flow[w] # Idle
  /\ flow' = [flow EXCEPT ![w] = Idle]
  /\ UNCHANGED <<page, live, room, kept, known, left>>

-----------------------------------------------------------------------------
(* The board *)

\* update_task takes a title for any card.
Retitle ==
  /\ Step
  /\ \E c \in DOMAIN cards, says \in Words :
       /\ says # cards[c].title
       /\ cards' = [cards EXCEPT ![c].title = says]
  /\ UNCHANGED <<stored, history, live, room, kept, flow, known>>

DeleteCard ==
  /\ Step
  /\ \E c \in DOMAIN cards : cards' = [d \in DOMAIN cards \ {c} |-> cards[d]]
  /\ UNCHANGED <<stored, history, live, room, kept, flow, known>>

Next ==
  \/ Open \/ Close
  \/ Type \/ Copy \/ Reword \/ Remove
  \/ \E w \in Writers :
       Snapshot(w) \/ ReadRevision(w) \/ Import(w) \/ Commit(w) \/ Clear(w) \/ Abort(w)
  \/ Retitle \/ DeleteCard

Spec == Init /\ [][Next]_vars

-----------------------------------------------------------------------------
\* Whatever order publishes, restores and imports commit in: no two cards are of one block, every
\* card that is not detached is of a line of the page as it is stored, and no two checklist lines
\* of that page are one.
BoardMatchesPage ==
  /\ \A c, d \in DOMAIN cards : c # d => cards[c].block # cards[d].block
  /\ \A c \in DOMAIN cards : ~cards[c].detached =>
       \E n \in TaskLines(stored) : stored[n].id = cards[c].block
  /\ \A n \in TaskLines(stored) :
       /\ stored[n].id # NoId
       /\ \A m \in TaskLines(stored) \ {n} : stored[m].id # stored[n].id

\* Whether a publish of the body s can tell that its line n is the one published under id before:
\*   - the line carries the id, and no checklist line before it does (a heading's is never taken);
\*   - or it is a checklist line that was never told its id, its own card is the only one with its
\*     words, no checklist line before it has these words, and none carries the id.
Recognised(s, n, id) ==
  \/ /\ s[n].id = id
     /\ n \in TaskLines(s) => \A m \in TaskLines(s) : m < n => s[m].id # id
  \/ /\ s[n].id = NoId /\ n \in TaskLines(s)
     /\ {cards[c].block : c \in Titled(s[n].says)} = {id}
     /\ \A m \in TaskLines(s) \ {n} : s[m].id # id /\ (m < n => s[m].says # s[n].says)

\* A line that stays in the live document stands on the page under one id, and so keeps its card
\* and the sections of it that others embed, at every publish that can recognise it.  That is less
\* than "a line nobody touched keeps its id": publishing mints ids into the stored body, and the
\* live document is not told.  A heading typed there gets another id at every publish, and an
\* untouched checklist line may lose its card to a line before it, or to a card of the same words.
RecognisedLinesKeepTheirIds ==
  [][\A k \in KeysIn(live) \cap KeysIn(live') :
       known[k] # NoId /\ known'[k] # known[k] =>
         \E w \in Taken : \E n \in DOMAIN flow[w].body :
           flow[w].body[n].key = k /\ ~Recognised(flow[w].body, n, known[k])]_vars

-----------------------------------------------------------------------------
\* A document that nobody holds on to is gone with its room.
NothingIsKept == ~room /\ ~kept => live = <<>>

=============================================================================
