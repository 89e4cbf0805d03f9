-------------------------------- MODULE Page --------------------------------
(***************************************************************************)
(* What the collaboration server promises about one page's live document,  *)
(* without rooms, locks, sweeps or handshakes: there is at most one        *)
(* editing session, it starts from everything that is kept, it only grows, *)
(* what is kept is at all times something the session said, and nothing    *)
(* kept is ever given up but by a deliberate restore.  CollabRooms         *)
(* implements it.                                                          *)
(***************************************************************************)
CONSTANT Items     \* what a document is made of

VARIABLES
  open,     \* is the page being edited?
  doc,      \* the document as its editors see it; {} when nobody does
  kept      \* what the database has of it; {} for nothing

vars == <<open, doc, kept>>

Init == open = FALSE /\ doc = {} /\ kept = {}

\* A session begins: with what is kept, or -- nothing being kept -- with whatever the
\* page's body says.
Open ==
  /\ ~open /\ open' = TRUE
  /\ doc' \in SUBSET Items
  /\ kept # {} => doc' = kept
  /\ UNCHANGED kept

Edit ==
  /\ open
  /\ doc' \in SUBSET Items /\ doc \subseteq doc'
  /\ UNCHANGED <<open, kept>>

Save ==
  /\ open
  /\ kept' \in SUBSET doc /\ kept \subseteq kept'
  /\ UNCHANGED <<open, doc>>

\* The session ends: idle and evicted, or the process died.
Close ==
  /\ open /\ open' = FALSE /\ doc' = {}
  /\ UNCHANGED kept

\* A restore discards the live state.
Forget ==
  /\ kept' = {}
  /\ UNCHANGED <<open, doc>>

Next == Open \/ Edit \/ Save \/ Close \/ Forget

Spec == Init /\ [][Next]_vars
=============================================================================
