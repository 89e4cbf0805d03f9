------------------------- MODULE RoomsImplementPage -------------------------
(***************************************************************************)
(* CollabRooms implements Page.  The session of the page lasts from the    *)
(* moment its room is filled until the sweep that evicted the room has     *)
(* written it and forgotten it: in between the page's document is the      *)
(* room's, whether the registry or the sweep is holding it.                *)
(***************************************************************************)
EXTENDS CollabRooms

Filling  == \E e \in Editors : pc[e] = "filling"
InMemory == (live # 0 /\ ~Filling) \/ sweep.evicted # 0
PageDoc  ==
  IF live # 0 /\ ~Filling THEN content[live]
  ELSE IF sweep.evicted # 0 THEN content[sweep.evicted] ELSE {}

P == INSTANCE Page WITH open <- InMemory, doc <- PageDoc, kept <- stored

\* Every behaviour of the rooms is a behaviour of the abstract page: one session at a
\* time, begun from all that is kept, keeping only what it said, forgetting nothing.
ImplementsPage == P!Spec
=============================================================================
