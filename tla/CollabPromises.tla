--------------------------- MODULE CollabPromises ---------------------------
(***************************************************************************)
(* What comments of the source promise of the rooms of CollabRooms and the *)
(* code does not keep when two tasks meet at the wrong moment.  None of    *)
(* these is an invariant: README.md ("Promises that do not hold") tells    *)
(* for each of them the interleaving that breaks it.                       *)
(***************************************************************************)
EXTENDS CollabRooms

\* Everybody editing the page is in the room the registry holds (join: "the room this
\* connection joined is the room it will still be in"; room.rs: "one room per document").
SubscribedRoomIsLive == \A e \in Editors : pc[e] \in Subscribed => room[e] = live

\* CollabPolicy::max_connections_per_room.
CapHolds == \A r \in Rooms : Cardinality(Subscribers(r)) <= Cap

\* A publish takes the page that is in the room: its snapshot has every stored word.
PublishTakesWholePage ==
  [][pub.pc = "authorised" /\ pub'.pc = "snapped" => WordsOf(stored) \subseteq pub'.snap]_pub

\* A room opened while nothing is stored, and no restore is half done, opens on the body
\* readers are being served: what makes a restore reach the next editing session.
RoomBuilt == lock \in Editors /\ lock' = Nobody /\ live' # 0

FreshRoomSaysThePage ==
  [][(RoomBuilt /\ stored = {} /\ ~restoring) => (body = WordsOf(content'[live']))]_vars
=============================================================================
