------------------------------ MODULE EditLoss ------------------------------
(***************************************************************************)
(* Which accepted edits can be lost, and how.  CollabRooms with one        *)
(* auxiliary variable that records the edits the server accepted at a      *)
(* moment when the code may give them up; LossIsExplained says that no     *)
(* other edit is ever lost.  The moments are                               *)
(*   - the room is being persisted: encoded already, not yet marked saved  *)
(*     (saved() then erases the writer that wrote() has recorded);         *)
(*   - the room has been evicted while a handshake was holding it;         *)
(*   - the write of an EVICTED room is refused or fails;                   *)
(*   - a page that has a stored state is seeded from its body all the same,*)
(*     because its joiner lost access between the handshake's two queries  *)
(*     (crdt_state_for answers None for both): the next save overwrites it;*)
(*   - the process dies before the next sweep has written them;            *)
(*   - a restore discards the stored state, deliberately.                  *)
(***************************************************************************)
EXTENDS CollabRooms

VARIABLE exposed     \* the edits accepted, or dropped, at such a moment

\* Of a set of items, those that people typed.
Edits(items) == {i \in items : i[2] = 0}

BeingPersisted(r) ==
  sweep.room = r /\ sweep.pc \in {"comparing", "authorising", "writing", "marking"}

\* The new items of an update, when it is applied at the wrong moment.
ExposedBy(e) ==
  IF pc[e] # "applied" /\ pc'[e] = "applied"
     /\ (BeingPersisted(room[e]) \/ room[e] # live)
    THEN content'[room[e]] \ content[room[e]]
    ELSE {}

\* Everything the server holds in memory and the database does not: what a crash costs.
Unwritten == (UNION {content[r] : r \in Rooms}) \ stored

\* The step drops an evicted room without having written it.
GivesUp ==
  /\ sweep.pc \in {"authorising", "writing"} /\ sweep'.pc = "closing"
  /\ sweep.evicted # 0

\* A room is built over a stored state that it does not contain.
SeedsOver == \E e \in Editors : pc[e] = "read" /\ got[e] = {} /\ pc'[e] = "opened"

InitLoss == Init /\ exposed = {}

NextLoss ==
  /\ Next
  /\ exposed' = exposed \cup Edits((UNION {ExposedBy(e) : e \in Editors})
                        \cup (IF GivesUp THEN content[sweep.evicted] ELSE {})
                        \cup (IF SeedsOver \/ ClearState THEN stored ELSE {})
                        \cup (IF Crash THEN Unwritten ELSE {}))

SpecLoss == InitLoss /\ [][NextLoss]_<<vars, exposed>>

\* The edits people typed that some room has accepted.
Accepted == {i \in UNION {content[r] : r \in Rooms} : i[2] = 0}

Held ==
  stored \cup (IF live # 0 THEN content[live] ELSE {})
         \cup (IF sweep.evicted # 0 THEN content[sweep.evicted] ELSE {})

\* Every edit the server ever accepted is in the database, or in a room that is live or
\* being written -- unless it was exposed.  (session.ts: "the server has the keystroke and
\* will write it out ... because eviction persists a room before dropping it".)
LossIsExplained == Accepted \subseteq Held \cup exposed

\* The promise of session.ts itself, with no exception but a crash -- which this model is
\* then run without.
NoEditIsLost == Accepted \subseteq Held

\* Two of the ways to lose an edit without a crash, a failure or a revocation: a sweep evicts a
\* room that a handshake holds, or an update is accepted between encode_state and the comparison
\* that finds nothing to write.
EvictsHeldRoom      == live # 0 /\ live' = 0 /\ \E e \in Editors : room[e] = live
OvertakesComparison == sweep.pc = "comparing" /\ sweep' = sweep

\* The steps but for these, which leave a third: an update accepted while persist awaits its
\* queries.
SpecLossAtInsert ==
  InitLoss /\ [][NextLoss /\ ~EvictsHeldRoom /\ ~OvertakesComparison]_<<vars, exposed>>

-----------------------------------------------------------------------------
(* The inductive strengthening of LossIsExplained.                         *)

\* What is in the row or given up: of the edits, it only grows.
Settled == stored \cup exposed

\* The edits of the row are in whatever is going to overwrite it.
RowIsCarried ==
  /\ live # 0 /\ (\A e \in Editors : pc[e] # "filling")
       => Edits(stored) \subseteq content[live] \cup exposed
  /\ sweep.evicted # 0 => Edits(stored) \subseteq content[sweep.evicted] \cup exposed
  /\ \A e \in Editors :
       (pc[e] = "read" /\ got[e] # {}) \/ pc[e] = "filling" => Edits(stored) \subseteq got[e] \cup exposed
  /\ sweep.pc \in Saving => Edits(stored) \subseteq sweep.encoded \cup exposed

\* What was read from the row, or is taken to be in it, is settled.
CopiesAreSettled ==
  /\ \A e \in Editors : Edits(got[e]) \subseteq Settled
  /\ Edits(book.saved) \subseteq Settled
  /\ sweep.pc = "marking" => Edits(sweep.encoded) \subseteq Settled

\* What the sweep encoded is the room, but for what was accepted since.
EncodedIsTheRoom ==
  sweep.pc \in Saving =>
    /\ sweep.encoded \subseteq content[sweep.room]
    /\ Edits(content[sweep.room]) \subseteq sweep.encoded \cup exposed

\* A room that has no writer, and in which nobody is about to become one, has nothing to write;
\* nor has an evicted room that the sweep will pass over, or is about to drop.
UnmarkedIsSettled ==
  /\ /\ live # 0 /\ book.writer = Nobody
     /\ \A e \in Editors : pc[e] # "filling" /\ (pc[e] = "applied" => room[e] # live)
     => Edits(content[live]) \subseteq Settled
  /\ /\ sweep.evicted # 0
     /\ sweep.pc = "closing" \/ (sweep.pc = "listing" /\ book.writer = Nobody)
     => Edits(content[sweep.evicted]) \subseteq Settled

\* The inductive invariant of the proof in CollabRooms_proofs, on top of TypeOK and Structure.
Explained ==
  LossIsExplained /\ RowIsCarried /\ CopiesAreSettled /\ EncodedIsTheRoom /\ UnmarkedIsSettled
=============================================================================
