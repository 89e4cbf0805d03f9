------------------------ MODULE CollabRooms_proofs ------------------------
(***************************************************************************)
(* Proofs about CollabRooms, for any people, words, history and number of  *)
(* rooms.  The invariant is proved in two layers: TypeOK with Structure    *)
(* (who may be doing what while `building' is held), which no event can    *)
(* disturb; and on top of it Coverage (what has been read or encoded under *)
(* the lock still covers the row), which needs that nobody's access        *)
(* changes, "access" \notin Events.  Then that no word is ever in a        *)
(* document twice, that the rooms implement the abstract page of           *)
(* RoomsImplementPage, and that no edit is lost but at the moments that    *)
(* EditLoss names.                                                         *)
(***************************************************************************)
EXTENDS RoomsImplementPage, EditLoss, TLAPS

\* The server starts with values of the right types.
LEMMA InitType == Init => TypeOK
<1> SUFFICES ASSUME Init PROVE TypeOK
  OBVIOUS
<1> USE DEF Init
<1>1. /\ perm \in [Editors -> Perms] /\ pc \in [Editors -> {"off"} \cup Handshake \cup Subscribed]
      /\ restoring \in BOOLEAN /\ idle \in BOOLEAN
  BY DEF Perms
<1>2. stored \in SUBSET Items /\ body \in SUBSET AllWords /\ typed \in SUBSET Words
  BY DEF AllWords
<1>3. revisions \in SUBSET SUBSET AllWords
  BY HistoryAssumption DEF AllWords
<1>4. /\ live \in 0 .. MaxRooms /\ built \in 0 .. MaxRooms /\ room \in [Editors -> 0 .. MaxRooms]
      /\ lock \in Editors \cup {Nobody, Janitor}
  BY BoundsAssumption
<1>5. /\ content \in [Rooms -> SUBSET Items] /\ seen \in [Editors -> SUBSET AllWords]
      /\ got \in [Editors -> SUBSET Items] /\ replica \in [Editors -> SUBSET Items]
  OBVIOUS
<1>6. book \in [open : BOOLEAN, writer : Editors \cup {Nobody}, saved : SUBSET Items]
  BY DEF NoEntry
<1>7. sweep \in [pc : {"idle"} \cup SweepStages, evicted : 0 .. MaxRooms,
                 room : 0 .. MaxRooms, writer : Editors \cup {Nobody}, encoded : SUBSET Items]
  BY BoundsAssumption DEF Asleep
<1>8. pub \in [pc : {"idle", "authorised", "snapped"}, by : Editors \cup {Nobody},
               snap : SUBSET AllWords]
  BY DEF NoPublish
<1> QED
  BY <1>1, <1>2, <1>3, <1>4, <1>5, <1>6, <1>7, <1>8 DEF TypeOK

\* What the sweep's record may become at its first two steps (EvictIdle, List).
LEMMA SweepMoves ==
  ASSUME NEW s \in [pc : {"idle"} \cup SweepStages, evicted : 0 .. MaxRooms,
                  room : 0 .. MaxRooms, writer : Editors \cup {Nobody}, encoded : SUBSET Items],
         NEW x \in 0 .. MaxRooms, NEW w \in Editors \cup {Nobody}, NEW t,
         \/ t = [s EXCEPT !.pc = "listing", !.evicted = x]
         \/ t = [s EXCEPT !.pc = "listing"]
         \/ t = [s EXCEPT !.pc = "encoding", !.room = x, !.writer = w]
         \/ t = [s EXCEPT !.pc = "closing"]
  PROVE  t \in [pc : {"idle"} \cup SweepStages, evicted : 0 .. MaxRooms,
                 room : 0 .. MaxRooms, writer : Editors \cup {Nobody}, encoded : SUBSET Items]
  BY DEF SweepStages

\* Every step keeps the types; the step that builds a room needs Structure to know that its
\* number is still below MaxRooms.
LEMMA NextType == TypeOK /\ Structure /\ [Next]_vars => TypeOK'
<1> SUFFICES ASSUME TypeOK, Structure, [Next]_vars PROVE TypeOK'
  OBVIOUS
<1> USE EditorsAssumption, BoundsAssumption
DEF TypeOK, access, database, registry, session, browser
<1>1. ASSUME NEW e \in Editors, Authorise(e) PROVE TypeOK'
  BY <1>1 DEF Authorise, Handshake
<1>2. ASSUME NEW e \in Editors, OpenLive(e) PROVE TypeOK'
  BY <1>2 DEF OpenLive, Handshake, Opened, Rooms
<1>3. ASSUME NEW e \in Editors, StartBuilding(e) PROVE TypeOK'
  BY <1>3 DEF StartBuilding, Handshake
<1>4. ASSUME NEW e \in Editors, ReadState(e) PROVE TypeOK'
  BY <1>4 DEF ReadState, Handshake
<1>5. ASSUME NEW e \in Editors, SeedRoom(e) PROVE TypeOK'
  <2>1. built' \in Rooms /\ built' = built + 1 /\ live' = built'
    BY <1>5 DEF SeedRoom, Structure, OneRoomAtATime, Rooms
  <2>2. Seed(seen[e], built') \in SUBSET Items
    BY <2>1 DEF Seed, Items, Rooms
  <2>3. content' \in [Rooms -> SUBSET Items] /\ content'[built'] \in SUBSET Items
    BY <1>5, <2>1, <2>2 DEF SeedRoom
  <2>4. book' \in [open : BOOLEAN, writer : Editors \cup {Nobody}, saved : SUBSET Items]
    BY <1>5, <2>3 DEF SeedRoom, Opened
  <2>5. room' \in [Editors -> 0 .. MaxRooms] /\ live' \in 0 .. MaxRooms /\ built' \in 0 ..
     MaxRooms
    BY <1>5, <2>1 DEF SeedRoom, Rooms
  <2> QED
    BY <1>5, <2>3, <2>4, <2>5 DEF SeedRoom, Handshake
<1>6. ASSUME NEW e \in Editors, EmptyRoom(e) PROVE TypeOK'
  <2>1. built' \in 0 .. MaxRooms /\ built' = built + 1 /\ live' = built'
    BY <1>6 DEF EmptyRoom, Structure, OneRoomAtATime
  <2> QED
    BY <1>6, <2>1, ZenonT(40) DEF EmptyRoom, Handshake
<1>7. ASSUME NEW e \in Editors, FillRoom(e) PROVE TypeOK'
  BY <1>7 DEF FillRoom, Handshake, Opened, Rooms, Structure, OneRoomAtATime
<1>8. ASSUME NEW e \in Editors, FillFails(e) \/ AbandonJoin(e) PROVE TypeOK'
  BY <1>8 DEF FillFails, AbandonJoin
<1>9. ASSUME NEW e \in Editors, CheckCap(e) PROVE TypeOK'
  BY <1>9 DEF CheckCap, Handshake
<1>10. ASSUME NEW e \in Editors, Subscribe(e) PROVE TypeOK'
  <2>1. pc' \in [Editors -> {"off"} \cup Handshake \cup Subscribed]
    BY <1>10 DEF Subscribe, Subscribed
  <2> QED
    BY <1>10, <2>1, ZenonT(40) DEF Subscribe
<1>11. ASSUME NEW e \in Editors, Apply(e) PROVE TypeOK'
  <2>1. content' \in [Rooms -> SUBSET Items]
    BY <1>11 DEF Apply
  <2>2. pc' \in [Editors -> {"off"} \cup Handshake \cup Subscribed] /\ idle' \in BOOLEAN
    BY <1>11 DEF Apply, Subscribed
  <2> QED
    BY <1>11, <2>1, <2>2, ZenonT(40) DEF Apply
<1>12. ASSUME NEW e \in Editors, Wrote(e) PROVE TypeOK'
  BY <1>12 DEF Wrote, Subscribed
<1>13. ASSUME NEW e \in Editors, Receive(e) PROVE TypeOK'
  BY <1>13 DEF Receive, Subscribed, Rooms, Structure, OneRoomAtATime
<1>14. ASSUME NEW e \in Editors, Leave(e) \/ CloseTab(e) PROVE TypeOK'
  BY <1>14 DEF Leave, CloseTab
<1>15. ASSUME NEW e \in Editors, NEW w \in Words, Type(e, w) PROVE TypeOK'
  BY <1>15 DEF Type, Items, AllWords
<1>16. CASE GraceElapses
  BY <1>16 DEF GraceElapses
<1>17. CASE EvictIdle
  <2>1. sweep' \in [pc : {"idle"} \cup SweepStages, evicted : 0 .. MaxRooms,
                   room : 0 .. MaxRooms, writer : Editors \cup {Nobody}, encoded : SUBSET Items]
    <3>1. \/ sweep' = [sweep EXCEPT !.pc = "listing", !.evicted = live]
          \/ sweep' = [sweep EXCEPT !.pc = "listing"]
      BY <1>17 DEF EvictIdle
    <3> QED
      BY <3>1, SweepMoves
  <2>2. live' \in 0 .. MaxRooms /\ lock' \in Editors \cup {Nobody, Janitor}
    BY <1>17 DEF EvictIdle
  <2>3. idle' \in BOOLEAN
    BY <1>17, Zenon DEF EvictIdle
  <2> QED
    BY <1>17, <2>1, <2>2, <2>3 DEF EvictIdle
<1>18. CASE List
  <2>1. PICK r \in 0 .. MaxRooms :
               \/ sweep' = [sweep EXCEPT !.pc = "encoding", !.room = r, !.writer = book.writer]
               \/ sweep' = [sweep EXCEPT !.pc = "closing"]
    BY <1>18 DEF List
  <2>2. sweep' \in [pc : {"idle"} \cup SweepStages, evicted : 0 .. MaxRooms,
                   room : 0 .. MaxRooms, writer : Editors \cup {Nobody}, encoded : SUBSET Items]
    <3>1. book.writer \in Editors \cup {Nobody}
      OBVIOUS
    <3> QED
      BY <2>1, <3>1, SweepMoves
  <2> QED
    BY <1>18, <2>2, ZenonT(40) DEF List
<1>19. CASE Encode
  <2>1. sweep.room \in Rooms
    BY <1>19 DEF Encode, Structure, SweepHoldsTheRoom, Rooms
  <2>2. content[sweep.room] \in SUBSET Items
    BY <2>1
  <2> QED
    BY <1>19, <2>2 DEF Encode, SweepStages
<1>20. CASE Compare
  BY <1>20 DEF Compare, SweepStages
<1>21. CASE AuthoriseSave \/ PersistFails
  BY <1>21 DEF AuthoriseSave, PersistFails, SweepStages
<1>22. CASE WriteState
  BY <1>22 DEF WriteState, SweepStages
<1>23. CASE MarkSaved
  BY <1>23 DEF MarkSaved, SweepStages
<1>24. CASE CloseEvicted
  BY <1>24 DEF CloseEvicted, NoEntry, Asleep
<1>25. ASSUME NEW e \in Editors, PublishAuthorise(e) PROVE TypeOK'
  BY <1>25 DEF PublishAuthorise
<1>26. CASE PublishSnapshot
  <2>1. ASSUME live # 0 PROVE WordsOf(content[live]) \in SUBSET AllWords
    BY <2>1 DEF WordsOf, Items, Rooms
  <2>2. pub' \in [pc : {"idle", "authorised", "snapped"}, by : Editors \cup {Nobody},
                 snap : SUBSET AllWords]
    <3>1. CASE live # 0
      <4>1. pub' = [pub EXCEPT !.pc = "snapped", !.snap = WordsOf(content[live])]
        BY <1>26, <3>1 DEF PublishSnapshot
      <4> QED
        BY <2>1, <3>1, <4>1
    <3>2. CASE live = 0
      BY <1>26, <3>2 DEF PublishSnapshot, NoPublish
    <3> QED
      BY <3>1, <3>2
  <2> QED
    BY <1>26, <2>2 DEF PublishSnapshot
<1>27. CASE PublishWrite
  BY <1>27 DEF PublishWrite, NoPublish
<1>28. ASSUME NEW e \in Editors, NEW old \in revisions, RestoreRevision(e, old) PROVE TypeOK'
  BY <1>28 DEF RestoreRevision
<1>29. CASE ClearState
  <2>1. stored' \in SUBSET Items /\ restoring' \in BOOLEAN
    BY <1>29 DEF ClearState
  <2> QED
    BY <1>29, <2>1, ZenonT(40) DEF ClearState
<1>30. CASE AbandonRestore
  BY <1>30, ZenonT(40) DEF AbandonRestore
<1>31. ASSUME NEW e \in Editors, NEW p \in Perms, ChangeAccess(e, p) PROVE TypeOK'
  BY <1>31 DEF ChangeAccess
<1>32. CASE Crash
  <2>1. /\ replica' \in [Editors -> SUBSET Items]
        /\ pc' \in [Editors -> {"off"} \cup Handshake \cup Subscribed]
    BY <1>32 DEF Crash
  <2>2. book' \in [open : BOOLEAN, writer : Editors \cup {Nobody}, saved : SUBSET Items]
    BY <1>32 DEF Crash, NoEntry
  <2>3. sweep' \in [pc : {"idle"} \cup SweepStages, evicted : 0 .. MaxRooms,
                   room : 0 .. MaxRooms, writer : Editors \cup {Nobody}, encoded : SUBSET Items]
    BY <1>32 DEF Crash, Asleep
  <2>4. pub' \in [pc : {"idle", "authorised", "snapped"}, by : Editors \cup {Nobody},
                 snap : SUBSET AllWords]
    BY <1>32 DEF Crash, NoPublish
  <2>5. idle' \in BOOLEAN /\ restoring' \in BOOLEAN /\ lock' \in Editors \cup {Nobody, Janitor}
    BY <1>32 DEF Crash
  <2>6. /\ live' \in 0 .. MaxRooms /\ room' \in [Editors -> 0 .. MaxRooms]
        /\ seen' \in [Editors -> SUBSET AllWords] /\ got' \in [Editors -> SUBSET Items]
    BY <1>32 DEF Crash
  <2>7. UNCHANGED <<perm, stored, body, revisions, built, content, typed>>
    BY <1>32 DEF Crash
  <2> QED
    BY <2>1, <2>2, <2>3, <2>4, <2>5, <2>6, <2>7
<1>33. CASE UNCHANGED vars
  BY <1>33 DEF vars
<1> QED
  BY <1>1, <1>2, <1>3, <1>4, <1>5, <1>6, <1>7, <1>8, <1>9, <1>10, <1>11, <1>12, <1>13, <1>14,
     <1>15, <1>16, <1>17, <1>18, <1>19, <1>20, <1>21, <1>22, <1>23, <1>24, <1>25, <1>26, <1>27,
     <1>28, <1>29, <1>30, <1>31, <1>32, <1>33
  DEF Next, Join, Session, Sweep, Publish, Restore

-----------------------------------------------------------------------------

\* A fresh CollabState: nothing held, no room, no entry.
LEMMA InitStructure == Init => Structure
  BY EditorsAssumption, BoundsAssumption
  DEF Init, Structure, LockMatchesHolder, OneRoomAtATime, SweepHoldsTheRoom, EntryMatchesRoom,
      NoEntry, Asleep, Builders, Saving, Subscribed, Rooms

\* No step -- of a handshake, of the sweep, of a publish or restore, a crash -- breaks the
\* exclusion that `building' gives, or parts a room from its bookkeeping.
LEMMA NextStructure == TypeOK /\ Structure /\ [Next]_vars => Structure'
<1> SUFFICES ASSUME TypeOK, Structure, [Next]_vars PROVE Structure'
  OBVIOUS
<1> USE EditorsAssumption, BoundsAssumption
DEF TypeOK, access, database, registry, session, browser
<1>1. ASSUME NEW e \in Editors, Authorise(e) PROVE Structure'
  <2>1. LockMatchesHolder'
    BY <1>1
    DEF Authorise, Structure, LockMatchesHolder, Builders, Saving, Subscribed, Handshake,
         SweepStages, Rooms
  <2>2. OneRoomAtATime'
    BY <1>1
    DEF Authorise, Structure, LockMatchesHolder, OneRoomAtATime, SweepHoldsTheRoom,
         EntryMatchesRoom, Builders, Saving, Subscribed, Handshake, SweepStages, Rooms
  <2>3. SweepHoldsTheRoom'
    BY <1>1
    DEF Authorise, Structure, LockMatchesHolder, OneRoomAtATime, SweepHoldsTheRoom, Builders,
         Saving, Subscribed, Handshake, SweepStages, Rooms
  <2>4. EntryMatchesRoom'
    BY <1>1
    DEF Authorise, Structure, LockMatchesHolder, OneRoomAtATime, SweepHoldsTheRoom,
         EntryMatchesRoom, Builders, Saving, Subscribed, Handshake, SweepStages, Rooms
  <2> QED
    BY <2>1, <2>2, <2>3, <2>4 DEF Structure
<1>2. ASSUME NEW e \in Editors, OpenLive(e) PROVE Structure'
  <2>1. LockMatchesHolder'
    BY <1>2
    DEF OpenLive, Opened, Structure, LockMatchesHolder, Builders, Saving, Subscribed, Handshake,
         SweepStages, Rooms
  <2>2. OneRoomAtATime'
    BY <1>2
    DEF OpenLive, Opened, Structure, LockMatchesHolder, OneRoomAtATime, SweepHoldsTheRoom,
         EntryMatchesRoom, Builders, Saving, Subscribed, Handshake, SweepStages, Rooms
  <2>3. SweepHoldsTheRoom'
    BY <1>2
    DEF OpenLive, Opened, Structure, LockMatchesHolder, OneRoomAtATime, SweepHoldsTheRoom,
         Builders, Saving, Subscribed, Handshake, SweepStages, Rooms
  <2>4. EntryMatchesRoom'
    BY <1>2
    DEF OpenLive, Opened, Structure, LockMatchesHolder, OneRoomAtATime, SweepHoldsTheRoom,
         EntryMatchesRoom, Builders, Saving, Subscribed, Handshake, SweepStages, Rooms
  <2> QED
    BY <2>1, <2>2, <2>3, <2>4 DEF Structure
<1>3. ASSUME NEW e \in Editors, StartBuilding(e) PROVE Structure'
  <2>1. LockMatchesHolder'
    BY <1>3
    DEF StartBuilding, Structure, LockMatchesHolder, Builders, Saving, Subscribed, Handshake,
         SweepStages, Rooms
  <2>2. OneRoomAtATime'
    BY <1>3
    DEF StartBuilding, Structure, LockMatchesHolder, OneRoomAtATime, SweepHoldsTheRoom,
         EntryMatchesRoom, Builders, Saving, Subscribed, Handshake, SweepStages, Rooms
  <2>3. SweepHoldsTheRoom'
    BY <1>3
    DEF StartBuilding, Structure, LockMatchesHolder, OneRoomAtATime, SweepHoldsTheRoom, Builders,
         Saving, Subscribed, Handshake, SweepStages, Rooms
  <2>4. EntryMatchesRoom'
    BY <1>3
    DEF StartBuilding, Structure, LockMatchesHolder, OneRoomAtATime, SweepHoldsTheRoom,
         EntryMatchesRoom, Builders, Saving, Subscribed, Handshake, SweepStages, Rooms
  <2> QED
    BY <2>1, <2>2, <2>3, <2>4 DEF Structure
<1>4. ASSUME NEW e \in Editors, ReadState(e) PROVE Structure'
  <2>1. LockMatchesHolder'
    BY <1>4
    DEF ReadState, Structure, LockMatchesHolder, Builders, Saving, Subscribed, Handshake,
         SweepStages, Rooms
  <2>2. OneRoomAtATime'
    BY <1>4
    DEF ReadState, Structure, LockMatchesHolder, OneRoomAtATime, SweepHoldsTheRoom,
         EntryMatchesRoom, Builders, Saving, Subscribed, Handshake, SweepStages, Rooms
  <2>3. SweepHoldsTheRoom'
    BY <1>4
    DEF ReadState, Structure, LockMatchesHolder, OneRoomAtATime, SweepHoldsTheRoom, Builders,
         Saving, Subscribed, Handshake, SweepStages, Rooms
  <2>4. EntryMatchesRoom'
    BY <1>4
    DEF ReadState, Structure, LockMatchesHolder, OneRoomAtATime, SweepHoldsTheRoom,
         EntryMatchesRoom, Builders, Saving, Subscribed, Handshake, SweepStages, Rooms
  <2> QED
    BY <2>1, <2>2, <2>3, <2>4 DEF Structure
<1>5. ASSUME NEW e \in Editors, SeedRoom(e) PROVE Structure'
  <2>1. LockMatchesHolder'
    BY <1>5
    DEF SeedRoom, Opened, Structure, LockMatchesHolder, Builders, Saving, Subscribed, Handshake,
         SweepStages, Rooms
  <2>2. OneRoomAtATime'
    BY <1>5
    DEF SeedRoom, Opened, Structure, LockMatchesHolder, OneRoomAtATime, SweepHoldsTheRoom,
         EntryMatchesRoom, Builders, Saving, Subscribed, Handshake, SweepStages, Rooms
  <2>3. SweepHoldsTheRoom'
    BY <1>5
    DEF SeedRoom, Opened, Structure, LockMatchesHolder, OneRoomAtATime, SweepHoldsTheRoom,
         Builders, Saving, Subscribed, Handshake, SweepStages, Rooms
  <2>4. EntryMatchesRoom'
    BY <1>5
    DEF SeedRoom, Opened, Structure, LockMatchesHolder, OneRoomAtATime, SweepHoldsTheRoom,
         EntryMatchesRoom, Builders, Saving, Subscribed, Handshake, SweepStages, Rooms
  <2> QED
    BY <2>1, <2>2, <2>3, <2>4 DEF Structure
<1>6. ASSUME NEW e \in Editors, EmptyRoom(e) PROVE Structure'
  <2>1. LockMatchesHolder'
    BY <1>6
    DEF EmptyRoom, Structure, LockMatchesHolder, Builders, Saving, Subscribed, Handshake,
         SweepStages, Rooms
  <2>2. OneRoomAtATime'
    BY <1>6
    DEF EmptyRoom, Structure, LockMatchesHolder, OneRoomAtATime, SweepHoldsTheRoom,
         EntryMatchesRoom, Builders, Saving, Subscribed, Handshake, SweepStages, Rooms
  <2>3. SweepHoldsTheRoom'
    BY <1>6
    DEF EmptyRoom, Structure, LockMatchesHolder, OneRoomAtATime, SweepHoldsTheRoom, Builders,
         Saving, Subscribed, Handshake, SweepStages, Rooms
  <2>4. EntryMatchesRoom'
    BY <1>6
    DEF EmptyRoom, Structure, LockMatchesHolder, OneRoomAtATime, SweepHoldsTheRoom,
         EntryMatchesRoom, Builders, Saving, Subscribed, Handshake, SweepStages, Rooms
  <2> QED
    BY <2>1, <2>2, <2>3, <2>4 DEF Structure
<1>7. ASSUME NEW e \in Editors, FillRoom(e) PROVE Structure'
  <2>1. LockMatchesHolder'
    BY <1>7
    DEF FillRoom, Opened, Structure, LockMatchesHolder, Builders, Saving, Subscribed, Handshake,
         SweepStages, Rooms
  <2>2. OneRoomAtATime'
    BY <1>7
    DEF FillRoom, Opened, Structure, LockMatchesHolder, OneRoomAtATime, SweepHoldsTheRoom,
         EntryMatchesRoom, Builders, Saving, Subscribed, Handshake, SweepStages, Rooms
  <2>3. SweepHoldsTheRoom'
    BY <1>7
    DEF FillRoom, Opened, Structure, LockMatchesHolder, OneRoomAtATime, SweepHoldsTheRoom,
         Builders, Saving, Subscribed, Handshake, SweepStages, Rooms
  <2>4. EntryMatchesRoom'
    BY <1>7
    DEF FillRoom, Opened, Structure, LockMatchesHolder, OneRoomAtATime, SweepHoldsTheRoom,
         EntryMatchesRoom, Builders, Saving, Subscribed, Handshake, SweepStages, Rooms
  <2> QED
    BY <2>1, <2>2, <2>3, <2>4 DEF Structure
<1>8. ASSUME NEW e \in Editors, FillFails(e) PROVE Structure'
  <2>1. LockMatchesHolder'
    BY <1>8
    DEF FillFails, Structure, LockMatchesHolder, Builders, Saving, Subscribed, Handshake,
         SweepStages, Rooms
  <2>2. OneRoomAtATime'
    BY <1>8
    DEF FillFails, Structure, LockMatchesHolder, OneRoomAtATime, SweepHoldsTheRoom,
         EntryMatchesRoom, Builders, Saving, Subscribed, Handshake, SweepStages, Rooms
  <2>3. SweepHoldsTheRoom'
    BY <1>8
    DEF FillFails, Structure, LockMatchesHolder, OneRoomAtATime, SweepHoldsTheRoom, Builders,
         Saving, Subscribed, Handshake, SweepStages, Rooms
  <2>4. EntryMatchesRoom'
    BY <1>8
    DEF FillFails, Structure, LockMatchesHolder, OneRoomAtATime, SweepHoldsTheRoom,
         EntryMatchesRoom, Builders, Saving, Subscribed, Handshake, SweepStages, Rooms
  <2> QED
    BY <2>1, <2>2, <2>3, <2>4 DEF Structure
<1>9. ASSUME NEW e \in Editors, AbandonJoin(e) PROVE Structure'
  <2>1. LockMatchesHolder'
    BY <1>9
    DEF AbandonJoin, Structure, LockMatchesHolder, Builders, Saving, Subscribed, Handshake,
         SweepStages, Rooms
  <2>2. OneRoomAtATime'
    BY <1>9
    DEF AbandonJoin, Structure, LockMatchesHolder, OneRoomAtATime, SweepHoldsTheRoom,
         EntryMatchesRoom, Builders, Saving, Subscribed, Handshake, SweepStages, Rooms
  <2>3. SweepHoldsTheRoom'
    BY <1>9
    DEF AbandonJoin, Structure, LockMatchesHolder, OneRoomAtATime, SweepHoldsTheRoom, Builders,
         Saving, Subscribed, Handshake, SweepStages, Rooms
  <2>4. EntryMatchesRoom'
    BY <1>9
    DEF AbandonJoin, Structure, LockMatchesHolder, OneRoomAtATime, SweepHoldsTheRoom,
         EntryMatchesRoom, Builders, Saving, Subscribed, Handshake, SweepStages, Rooms
  <2> QED
    BY <2>1, <2>2, <2>3, <2>4 DEF Structure
<1>10. ASSUME NEW e \in Editors, CheckCap(e) PROVE Structure'
  <2>1. LockMatchesHolder'
    BY <1>10
    DEF CheckCap, Structure, LockMatchesHolder, Builders, Saving, Subscribed, Handshake,
         SweepStages, Rooms
  <2>2. OneRoomAtATime'
    BY <1>10
    DEF CheckCap, Structure, LockMatchesHolder, OneRoomAtATime, SweepHoldsTheRoom,
         EntryMatchesRoom, Builders, Saving, Subscribed, Handshake, SweepStages, Rooms
  <2>3. SweepHoldsTheRoom'
    BY <1>10
    DEF CheckCap, Structure, LockMatchesHolder, OneRoomAtATime, SweepHoldsTheRoom, Builders,
         Saving, Subscribed, Handshake, SweepStages, Rooms
  <2>4. EntryMatchesRoom'
    BY <1>10
    DEF CheckCap, Structure, LockMatchesHolder, OneRoomAtATime, SweepHoldsTheRoom,
         EntryMatchesRoom, Builders, Saving, Subscribed, Handshake, SweepStages, Rooms
  <2> QED
    BY <2>1, <2>2, <2>3, <2>4 DEF Structure
<1>11. ASSUME NEW e \in Editors, Subscribe(e) PROVE Structure'
  <2>1. LockMatchesHolder'
    BY <1>11
    DEF Subscribe, Structure, LockMatchesHolder, Builders, Saving, Subscribed, Handshake,
         SweepStages, Rooms
  <2>2. OneRoomAtATime'
    BY <1>11
    DEF Subscribe, Structure, LockMatchesHolder, OneRoomAtATime, SweepHoldsTheRoom,
         EntryMatchesRoom, Builders, Saving, Subscribed, Handshake, SweepStages, Rooms
  <2>3. SweepHoldsTheRoom'
    BY <1>11
    DEF Subscribe, Structure, LockMatchesHolder, OneRoomAtATime, SweepHoldsTheRoom, Builders,
         Saving, Subscribed, Handshake, SweepStages, Rooms
  <2>4. EntryMatchesRoom'
    BY <1>11
    DEF Subscribe, Structure, LockMatchesHolder, OneRoomAtATime, SweepHoldsTheRoom,
         EntryMatchesRoom, Builders, Saving, Subscribed, Handshake, SweepStages, Rooms
  <2> QED
    BY <2>1, <2>2, <2>3, <2>4 DEF Structure
<1>12. ASSUME NEW e \in Editors, Apply(e) PROVE Structure'
  <2>1. LockMatchesHolder'
    BY <1>12
    DEF Apply, Structure, LockMatchesHolder, Builders, Saving, Subscribed, Handshake, SweepStages,
         Rooms
  <2>2. OneRoomAtATime'
    BY <1>12
    DEF Apply, Structure, LockMatchesHolder, OneRoomAtATime, SweepHoldsTheRoom, EntryMatchesRoom,
         Builders, Saving, Subscribed, Handshake, SweepStages, Rooms
  <2>3. SweepHoldsTheRoom'
    BY <1>12
    DEF Apply, Structure, LockMatchesHolder, OneRoomAtATime, SweepHoldsTheRoom, Builders, Saving,
         Subscribed, Handshake, SweepStages, Rooms
  <2>4. EntryMatchesRoom'
    BY <1>12
    DEF Apply, Structure, LockMatchesHolder, OneRoomAtATime, SweepHoldsTheRoom, EntryMatchesRoom,
         Builders, Saving, Subscribed, Handshake, SweepStages, Rooms
  <2> QED
    BY <2>1, <2>2, <2>3, <2>4 DEF Structure
<1>13. ASSUME NEW e \in Editors, Wrote(e) PROVE Structure'
  <2>1. LockMatchesHolder'
    BY <1>13
    DEF Wrote, Structure, LockMatchesHolder, Builders, Saving, Subscribed, Handshake, SweepStages,
         Rooms
  <2>2. OneRoomAtATime'
    BY <1>13
    DEF Wrote, Structure, LockMatchesHolder, OneRoomAtATime, SweepHoldsTheRoom, EntryMatchesRoom,
         Builders, Saving, Subscribed, Handshake, SweepStages, Rooms
  <2>3. SweepHoldsTheRoom'
    BY <1>13
    DEF Wrote, Structure, LockMatchesHolder, OneRoomAtATime, SweepHoldsTheRoom, Builders, Saving,
         Subscribed, Handshake, SweepStages, Rooms
  <2>4. EntryMatchesRoom'
    BY <1>13
    DEF Wrote, Structure, LockMatchesHolder, OneRoomAtATime, SweepHoldsTheRoom, EntryMatchesRoom,
         Builders, Saving, Subscribed, Handshake, SweepStages, Rooms
  <2> QED
    BY <2>1, <2>2, <2>3, <2>4 DEF Structure
<1>14. ASSUME NEW e \in Editors, Leave(e) PROVE Structure'
  <2>1. LockMatchesHolder'
    BY <1>14
    DEF Leave, Structure, LockMatchesHolder, Builders, Saving, Subscribed, Handshake, SweepStages,
         Rooms
  <2>2. OneRoomAtATime'
    BY <1>14
    DEF Leave, Structure, LockMatchesHolder, OneRoomAtATime, SweepHoldsTheRoom, EntryMatchesRoom,
         Builders, Saving, Subscribed, Handshake, SweepStages, Rooms
  <2>3. SweepHoldsTheRoom'
    BY <1>14
    DEF Leave, Structure, LockMatchesHolder, OneRoomAtATime, SweepHoldsTheRoom, Builders, Saving,
         Subscribed, Handshake, SweepStages, Rooms
  <2>4. EntryMatchesRoom'
    BY <1>14
    DEF Leave, Structure, LockMatchesHolder, OneRoomAtATime, SweepHoldsTheRoom, EntryMatchesRoom,
         Builders, Saving, Subscribed, Handshake, SweepStages, Rooms
  <2> QED
    BY <2>1, <2>2, <2>3, <2>4 DEF Structure
<1>15. CASE EvictIdle
  <2> USE <1>15 DEF EvictIdle, Structure, LockMatchesHolder, SweepHoldsTheRoom
  <2>1. sweep.evicted = 0 /\ sweep'.pc = "listing" /\ lock' = Janitor
    BY DEF SweepStages
  <2>2. \A e \in Editors : pc[e] \notin Builders
    OBVIOUS
  <2>3. LockMatchesHolder'
    BY <2>1, <2>2
  <2>4. CASE live # 0 /\ idle /\ Subscribers(live) = {}
    <3>1. sweep' = [sweep EXCEPT !.pc = "listing", !.evicted = live] /\ live' = 0
      BY <2>4
    <3>2. OneRoomAtATime'
      BY <2>1, <2>2, <3>1 DEF OneRoomAtATime, Builders
    <3>3. SweepHoldsTheRoom' /\ EntryMatchesRoom'
      BY <2>1, <2>2, <2>4, <3>1 DEF EntryMatchesRoom, Saving
    <3> QED
      BY <2>3, <3>2, <3>3
  <2>5. CASE ~(live # 0 /\ idle /\ Subscribers(live) = {})
    <3>1. sweep' = [sweep EXCEPT !.pc = "listing"] /\ live' = live
      BY <2>5
    <3>2. OneRoomAtATime'
      BY <2>1, <2>2, <3>1 DEF OneRoomAtATime, Builders
    <3>3. SweepHoldsTheRoom' /\ EntryMatchesRoom'
      BY <2>1, <2>2, <3>1 DEF EntryMatchesRoom, Saving
    <3> QED
      BY <2>3, <3>2, <3>3
  <2> QED
    BY <2>4, <2>5
<1>16. CASE List
  <2> USE <1>16 DEF Structure
  <2>1. UNCHANGED <<lock, pc, live, built, room, content, book>> /\ sweep'.evicted = sweep.evicted
    BY DEF List
  <2>2. sweep'.pc \in {"encoding", "closing"}
    BY DEF List
  <2>3. /\ sweep'.room \in {sweep.room, IF sweep.evicted # 0 THEN sweep.evicted ELSE live}
        /\ sweep'.pc = "encoding" =>
             /\ sweep'.room = (IF sweep.evicted # 0 THEN sweep.evicted ELSE live)
             /\ sweep'.room # 0 /\ sweep'.writer \in Editors
    BY DEF List
  <2>4. LockMatchesHolder'
    BY <2>1, <2>2 DEF List, LockMatchesHolder
  <2>5. OneRoomAtATime' /\ EntryMatchesRoom'
    BY <2>1, <2>3 DEF OneRoomAtATime, EntryMatchesRoom
  <2>6. SweepHoldsTheRoom'
    BY <2>1, <2>2, <2>3 DEF SweepHoldsTheRoom, List, Saving
  <2> QED
    BY <2>4, <2>5, <2>6
<1>17. CASE Encode
  <2>1. LockMatchesHolder'
    BY <1>17
    DEF Encode, Structure, LockMatchesHolder, Builders, Saving, Subscribed, Handshake,
         SweepStages, Rooms
  <2>2. OneRoomAtATime'
    BY <1>17
    DEF Encode, Structure, LockMatchesHolder, OneRoomAtATime, SweepHoldsTheRoom, EntryMatchesRoom,
         Builders, Saving, Subscribed, Handshake, SweepStages, Rooms
  <2>3. SweepHoldsTheRoom'
    BY <1>17
    DEF Encode, Structure, LockMatchesHolder, OneRoomAtATime, SweepHoldsTheRoom, Builders, Saving,
         Subscribed, Handshake, SweepStages, Rooms
  <2>4. EntryMatchesRoom'
    BY <1>17
    DEF Encode, Structure, LockMatchesHolder, OneRoomAtATime, SweepHoldsTheRoom, EntryMatchesRoom,
         Builders, Saving, Subscribed, Handshake, SweepStages, Rooms
  <2> QED
    BY <2>1, <2>2, <2>3, <2>4 DEF Structure
<1>18. CASE Compare
  <2> USE <1>18 DEF Structure
  <2>1. UNCHANGED <<lock, pc, live, built, room, content>> /\ book'.open = book.open
    BY DEF Compare
  <2>2. /\ sweep.pc = "comparing" /\ sweep'.pc \in {"closing", "authorising"}
        /\ sweep'.evicted = sweep.evicted /\ sweep'.room = sweep.room /\ sweep'.writer =
           sweep.writer
    BY DEF Compare
  <2>3. LockMatchesHolder' /\ OneRoomAtATime' /\ EntryMatchesRoom'
    BY <2>1, <2>2 DEF LockMatchesHolder, OneRoomAtATime, EntryMatchesRoom
  <2>4. SweepHoldsTheRoom'
    BY <2>1, <2>2 DEF SweepHoldsTheRoom, Saving
  <2> QED
    BY <2>3, <2>4
<1>19. CASE AuthoriseSave
  <2>1. LockMatchesHolder'
    BY <1>19
    DEF AuthoriseSave, Structure, LockMatchesHolder, Builders, Saving, Subscribed, Handshake,
         SweepStages, Rooms
  <2>2. OneRoomAtATime'
    BY <1>19
    DEF AuthoriseSave, Structure, LockMatchesHolder, OneRoomAtATime, SweepHoldsTheRoom,
         EntryMatchesRoom, Builders, Saving, Subscribed, Handshake, SweepStages, Rooms
  <2>3. SweepHoldsTheRoom'
    BY <1>19
    DEF AuthoriseSave, Structure, LockMatchesHolder, OneRoomAtATime, SweepHoldsTheRoom, Builders,
         Saving, Subscribed, Handshake, SweepStages, Rooms
  <2>4. EntryMatchesRoom'
    BY <1>19
    DEF AuthoriseSave, Structure, LockMatchesHolder, OneRoomAtATime, SweepHoldsTheRoom,
         EntryMatchesRoom, Builders, Saving, Subscribed, Handshake, SweepStages, Rooms
  <2> QED
    BY <2>1, <2>2, <2>3, <2>4 DEF Structure
<1>20. CASE WriteState
  <2>1. LockMatchesHolder'
    BY <1>20
    DEF WriteState, Structure, LockMatchesHolder, Builders, Saving, Subscribed, Handshake,
         SweepStages, Rooms
  <2>2. OneRoomAtATime'
    BY <1>20
    DEF WriteState, Structure, LockMatchesHolder, OneRoomAtATime, SweepHoldsTheRoom,
         EntryMatchesRoom, Builders, Saving, Subscribed, Handshake, SweepStages, Rooms
  <2>3. SweepHoldsTheRoom'
    BY <1>20
    DEF WriteState, Structure, LockMatchesHolder, OneRoomAtATime, SweepHoldsTheRoom, Builders,
         Saving, Subscribed, Handshake, SweepStages, Rooms
  <2>4. EntryMatchesRoom'
    BY <1>20
    DEF WriteState, Structure, LockMatchesHolder, OneRoomAtATime, SweepHoldsTheRoom,
         EntryMatchesRoom, Builders, Saving, Subscribed, Handshake, SweepStages, Rooms
  <2> QED
    BY <2>1, <2>2, <2>3, <2>4 DEF Structure
<1>21. CASE MarkSaved
  <2>1. LockMatchesHolder'
    BY <1>21
    DEF MarkSaved, Structure, LockMatchesHolder, Builders, Saving, Subscribed, Handshake,
         SweepStages, Rooms
  <2>2. OneRoomAtATime'
    BY <1>21
    DEF MarkSaved, Structure, LockMatchesHolder, OneRoomAtATime, SweepHoldsTheRoom,
         EntryMatchesRoom, Builders, Saving, Subscribed, Handshake, SweepStages, Rooms
  <2>3. SweepHoldsTheRoom'
    BY <1>21
    DEF MarkSaved, Structure, LockMatchesHolder, OneRoomAtATime, SweepHoldsTheRoom, Builders,
         Saving, Subscribed, Handshake, SweepStages, Rooms
  <2>4. EntryMatchesRoom'
    BY <1>21
    DEF MarkSaved, Structure, LockMatchesHolder, OneRoomAtATime, SweepHoldsTheRoom,
         EntryMatchesRoom, Builders, Saving, Subscribed, Handshake, SweepStages, Rooms
  <2> QED
    BY <2>1, <2>2, <2>3, <2>4 DEF Structure
<1>22. CASE PersistFails
  <2>1. LockMatchesHolder'
    BY <1>22
    DEF PersistFails, Structure, LockMatchesHolder, Builders, Saving, Subscribed, Handshake,
         SweepStages, Rooms
  <2>2. OneRoomAtATime'
    BY <1>22
    DEF PersistFails, Structure, LockMatchesHolder, OneRoomAtATime, SweepHoldsTheRoom,
         EntryMatchesRoom, Builders, Saving, Subscribed, Handshake, SweepStages, Rooms
  <2>3. SweepHoldsTheRoom'
    BY <1>22
    DEF PersistFails, Structure, LockMatchesHolder, OneRoomAtATime, SweepHoldsTheRoom, Builders,
         Saving, Subscribed, Handshake, SweepStages, Rooms
  <2>4. EntryMatchesRoom'
    BY <1>22
    DEF PersistFails, Structure, LockMatchesHolder, OneRoomAtATime, SweepHoldsTheRoom,
         EntryMatchesRoom, Builders, Saving, Subscribed, Handshake, SweepStages, Rooms
  <2> QED
    BY <2>1, <2>2, <2>3, <2>4 DEF Structure
<1>23. CASE CloseEvicted
  <2>1. LockMatchesHolder'
    BY <1>23
    DEF CloseEvicted, NoEntry, Asleep, Structure, LockMatchesHolder, Builders, Saving, Subscribed,
         Handshake, SweepStages, Rooms
  <2>2. OneRoomAtATime'
    BY <1>23
    DEF CloseEvicted, NoEntry, Asleep, Structure, LockMatchesHolder, OneRoomAtATime,
         SweepHoldsTheRoom, EntryMatchesRoom, Builders, Saving, Subscribed, Handshake,
         SweepStages, Rooms
  <2>3. SweepHoldsTheRoom'
    BY <1>23
    DEF CloseEvicted, NoEntry, Asleep, Structure, LockMatchesHolder, OneRoomAtATime,
         SweepHoldsTheRoom, Builders, Saving, Subscribed, Handshake, SweepStages, Rooms
  <2>4. EntryMatchesRoom'
    BY <1>23
    DEF CloseEvicted, NoEntry, Asleep, Structure, LockMatchesHolder, OneRoomAtATime,
         SweepHoldsTheRoom, EntryMatchesRoom, Builders, Saving, Subscribed, Handshake,
         SweepStages, Rooms
  <2> QED
    BY <2>1, <2>2, <2>3, <2>4 DEF Structure
<1>24. CASE Crash
  <2>1. LockMatchesHolder'
    BY <1>24
    DEF Crash, NoEntry, Asleep, Structure, LockMatchesHolder, Builders, Saving, Subscribed,
         Handshake, SweepStages, Rooms
  <2>2. OneRoomAtATime'
    BY <1>24
    DEF Crash, NoEntry, Asleep, Structure, LockMatchesHolder, OneRoomAtATime, SweepHoldsTheRoom,
         EntryMatchesRoom, Builders, Saving, Subscribed, Handshake, SweepStages, Rooms
  <2>3. SweepHoldsTheRoom'
    BY <1>24
    DEF Crash, NoEntry, Asleep, Structure, LockMatchesHolder, OneRoomAtATime, SweepHoldsTheRoom,
         Builders, Saving, Subscribed, Handshake, SweepStages, Rooms
  <2>4. EntryMatchesRoom'
    BY <1>24
    DEF Crash, NoEntry, Asleep, Structure, LockMatchesHolder, OneRoomAtATime, SweepHoldsTheRoom,
         EntryMatchesRoom, Builders, Saving, Subscribed, Handshake, SweepStages, Rooms
  <2> QED
    BY <2>1, <2>2, <2>3, <2>4 DEF Structure
<1>25. ASSUME UNCHANGED <<lock, sweep, pc, live, built, room, content, book>> PROVE Structure'
  BY <1>25 DEF Structure, LockMatchesHolder, OneRoomAtATime, SweepHoldsTheRoom, EntryMatchesRoom
<1>26. ASSUME NEW e \in Editors,
                Receive(e) \/ CloseTab(e) \/ (\E w \in Words : Type(e, w))
       PROVE  Structure'
  BY <1>26, <1>25 DEF Receive, CloseTab, Type
<1>27. ASSUME (\E e \in Editors, p \in Perms : ChangeAccess(e, p)) \/ GraceElapses
                \/ Publish \/ Restore \/ UNCHANGED vars
       PROVE  Structure'
  BY <1>27, <1>25 DEF ChangeAccess, GraceElapses, Publish, PublishAuthorise, PublishSnapshot,
     PublishWrite, Restore, RestoreRevision, ClearState, AbandonRestore, vars
<1> QED
  BY <1>1, <1>2, <1>3, <1>4, <1>5, <1>6, <1>7, <1>8, <1>9, <1>10, <1>11, <1>12, <1>13, <1>14,
     <1>15, <1>16, <1>17, <1>18, <1>19, <1>20, <1>21, <1>22, <1>23, <1>24, <1>25, <1>26, <1>27
  DEF Next, Join, Session, Sweep

-----------------------------------------------------------------------------

EverybodyWrites == \A e \in Editors : perm[e] = "write"

\* Nothing is stored and everybody may write.
LEMMA InitCoverage == Init => EverybodyWrites /\ Coverage
  BY DEF Init, EverybodyWrites, Coverage, WorkCoversStored, RoomHoldsStored, Asleep, Saving

\* While everybody may write, what a join read and what the sweep encoded still covers the
\* row when it is used: nobody else writes it while they hold the lock, but a restore, which
\* empties it.
LEMMA NextCoverage ==
  ASSUME "access" \notin Events, TypeOK, Structure, Structure', EverybodyWrites, Coverage,
         [Next]_vars
  PROVE  EverybodyWrites' /\ Coverage'
<1> USE EditorsAssumption, BoundsAssumption
    DEF TypeOK, access, database, registry, session, browser
<1>1. ASSUME UNCHANGED perm PROVE EverybodyWrites'
  BY <1>1 DEF EverybodyWrites
<1>2. ASSUME UNCHANGED <<perm, stored, live, content, pc, got, sweep>>
      PROVE  EverybodyWrites' /\ Coverage'
  BY <1>2 DEF EverybodyWrites, Coverage, WorkCoversStored, RoomHoldsStored
<1>3. ASSUME NEW e \in Editors, Authorise(e) PROVE EverybodyWrites' /\ Coverage'
  <2>1. WorkCoversStored'
    BY <1>3
    DEF Authorise, Coverage, WorkCoversStored, RoomHoldsStored, Structure, LockMatchesHolder,
         OneRoomAtATime, SweepHoldsTheRoom, Builders, Saving, Subscribed, Rooms
  <2>2. RoomHoldsStored'
    BY <1>3
    DEF Authorise, Coverage, WorkCoversStored, RoomHoldsStored, Structure, LockMatchesHolder,
         OneRoomAtATime, SweepHoldsTheRoom, Builders, Saving, Subscribed, Rooms
  <2> QED
    BY <1>3, <1>1, <2>1, <2>2 DEF Authorise, Coverage
<1>4. ASSUME NEW e \in Editors, OpenLive(e) PROVE EverybodyWrites' /\ Coverage'
  <2>1. WorkCoversStored'
    BY <1>4
    DEF OpenLive, Coverage, WorkCoversStored, RoomHoldsStored, Structure, LockMatchesHolder,
         OneRoomAtATime, SweepHoldsTheRoom, Builders, Saving, Subscribed, Rooms
  <2>2. RoomHoldsStored'
    BY <1>4
    DEF OpenLive, Coverage, WorkCoversStored, RoomHoldsStored, Structure, LockMatchesHolder,
         OneRoomAtATime, SweepHoldsTheRoom, Builders, Saving, Subscribed, Rooms
  <2> QED
    BY <1>4, <1>1, <2>1, <2>2 DEF OpenLive, Coverage
<1>5. ASSUME NEW e \in Editors, StartBuilding(e) PROVE EverybodyWrites' /\ Coverage'
  <2>1. WorkCoversStored'
    BY <1>5
    DEF StartBuilding, Coverage, WorkCoversStored, RoomHoldsStored, Structure, LockMatchesHolder,
         OneRoomAtATime, SweepHoldsTheRoom, Builders, Saving, Subscribed, Rooms
  <2>2. RoomHoldsStored'
    BY <1>5
    DEF StartBuilding, Coverage, WorkCoversStored, RoomHoldsStored, Structure, LockMatchesHolder,
         OneRoomAtATime, SweepHoldsTheRoom, Builders, Saving, Subscribed, Rooms
  <2> QED
    BY <1>5, <1>1, <2>1, <2>2 DEF StartBuilding, Coverage
<1>6. ASSUME NEW e \in Editors, ReadState(e) PROVE EverybodyWrites' /\ Coverage'
  <2>1. WorkCoversStored'
    BY <1>6
    DEF ReadState, Coverage, WorkCoversStored, RoomHoldsStored, Structure, LockMatchesHolder,
         OneRoomAtATime, SweepHoldsTheRoom, Builders, Saving, Subscribed, Rooms, EverybodyWrites
  <2>2. RoomHoldsStored'
    BY <1>6
    DEF ReadState, Coverage, WorkCoversStored, RoomHoldsStored, Structure, LockMatchesHolder,
         OneRoomAtATime, SweepHoldsTheRoom, Builders, Saving, Subscribed, Rooms, EverybodyWrites
  <2> QED
    BY <1>6, <1>1, <2>1, <2>2 DEF ReadState, Coverage
<1>7. ASSUME NEW e \in Editors, SeedRoom(e) PROVE EverybodyWrites' /\ Coverage'
  <2>1. WorkCoversStored'
    BY <1>7
    DEF SeedRoom, Coverage, WorkCoversStored, Structure, LockMatchesHolder, Builders, Saving
  <2>2. stored = {} /\ stored' = {}
    BY <1>7 DEF SeedRoom, Coverage, WorkCoversStored
  <2>3. RoomHoldsStored'
    BY <2>2 DEF RoomHoldsStored
  <2> QED
    BY <1>7, <1>1, <2>1, <2>3 DEF SeedRoom, Coverage
<1>8. ASSUME NEW e \in Editors, EmptyRoom(e) PROVE EverybodyWrites' /\ Coverage'
  <2>1. WorkCoversStored'
    BY <1>8
    DEF EmptyRoom, Coverage, WorkCoversStored, RoomHoldsStored, Structure, LockMatchesHolder,
         OneRoomAtATime, SweepHoldsTheRoom, Builders, Saving, Subscribed, Rooms
  <2>2. RoomHoldsStored'
    BY <1>8
    DEF EmptyRoom, Coverage, WorkCoversStored, RoomHoldsStored, Structure, LockMatchesHolder,
         OneRoomAtATime, SweepHoldsTheRoom, Builders, Saving, Subscribed, Rooms
  <2> QED
    BY <1>8, <1>1, <2>1, <2>2 DEF EmptyRoom, Coverage
<1>9. ASSUME NEW e \in Editors, FillRoom(e) PROVE EverybodyWrites' /\ Coverage'
  <2>1. WorkCoversStored'
    BY <1>9
    DEF FillRoom, Coverage, WorkCoversStored, Structure, LockMatchesHolder, Builders, Saving
  <2>2. sweep.evicted = 0 /\ room[e] = live /\ live \in Rooms
    BY <1>9 DEF FillRoom, Structure, OneRoomAtATime, SweepHoldsTheRoom, Rooms
  <2>3. stored \subseteq content'[live]
    BY <1>9, <2>2 DEF FillRoom, Coverage, WorkCoversStored
  <2>4. RoomHoldsStored'
    BY <1>9, <2>2, <2>3 DEF FillRoom, RoomHoldsStored
  <2> QED
    BY <1>9, <1>1, <2>1, <2>4 DEF FillRoom, Coverage
<1>10. ASSUME NEW e \in Editors, FillFails(e) PROVE EverybodyWrites' /\ Coverage'
  <2>1. WorkCoversStored'
    BY <1>10
    DEF FillFails, Coverage, WorkCoversStored, RoomHoldsStored, Structure, LockMatchesHolder,
         OneRoomAtATime, SweepHoldsTheRoom, Builders, Saving, Subscribed, Rooms
  <2>2. RoomHoldsStored'
    BY <1>10
    DEF FillFails, Coverage, WorkCoversStored, RoomHoldsStored, Structure, LockMatchesHolder,
         OneRoomAtATime, SweepHoldsTheRoom, Builders, Saving, Subscribed, Rooms
  <2> QED
    BY <1>10, <1>1, <2>1, <2>2 DEF FillFails, Coverage
<1>11. ASSUME NEW e \in Editors, AbandonJoin(e) PROVE EverybodyWrites' /\ Coverage'
  <2>1. WorkCoversStored'
    BY <1>11
    DEF AbandonJoin, Coverage, WorkCoversStored, RoomHoldsStored, Structure, LockMatchesHolder,
         OneRoomAtATime, SweepHoldsTheRoom, Builders, Saving, Subscribed, Rooms
  <2>2. RoomHoldsStored'
    BY <1>11
    DEF AbandonJoin, Coverage, WorkCoversStored, RoomHoldsStored, Structure, LockMatchesHolder,
         OneRoomAtATime, SweepHoldsTheRoom, Builders, Saving, Subscribed, Rooms
  <2> QED
    BY <1>11, <1>1, <2>1, <2>2 DEF AbandonJoin, Coverage
<1>12. ASSUME NEW e \in Editors, CheckCap(e) PROVE EverybodyWrites' /\ Coverage'
  <2>1. WorkCoversStored'
    BY <1>12
    DEF CheckCap, Coverage, WorkCoversStored, RoomHoldsStored, Structure, LockMatchesHolder,
         OneRoomAtATime, SweepHoldsTheRoom, Builders, Saving, Subscribed, Rooms
  <2>2. RoomHoldsStored'
    BY <1>12
    DEF CheckCap, Coverage, WorkCoversStored, RoomHoldsStored, Structure, LockMatchesHolder,
         OneRoomAtATime, SweepHoldsTheRoom, Builders, Saving, Subscribed, Rooms
  <2> QED
    BY <1>12, <1>1, <2>1, <2>2 DEF CheckCap, Coverage
<1>13. ASSUME NEW e \in Editors, Subscribe(e) PROVE EverybodyWrites' /\ Coverage'
  <2>1. WorkCoversStored'
    BY <1>13
    DEF Subscribe, Coverage, WorkCoversStored, RoomHoldsStored, Structure, LockMatchesHolder,
         OneRoomAtATime, SweepHoldsTheRoom, Builders, Saving, Subscribed, Rooms
  <2>2. RoomHoldsStored'
    BY <1>13
    DEF Subscribe, Coverage, WorkCoversStored, RoomHoldsStored, Structure, LockMatchesHolder,
         OneRoomAtATime, SweepHoldsTheRoom, Builders, Saving, Subscribed, Rooms
  <2> QED
    BY <1>13, <1>1, <2>1, <2>2 DEF Subscribe, Coverage
<1>14. ASSUME NEW e \in Editors, Apply(e) PROVE EverybodyWrites' /\ Coverage'
  <2>1. WorkCoversStored'
    BY <1>14
    DEF Apply, Coverage, WorkCoversStored, RoomHoldsStored, Structure, LockMatchesHolder,
         OneRoomAtATime, SweepHoldsTheRoom, Builders, Saving, Subscribed, Rooms
  <2>2. RoomHoldsStored'
    BY <1>14
    DEF Apply, Coverage, WorkCoversStored, RoomHoldsStored, Structure, LockMatchesHolder,
         OneRoomAtATime, SweepHoldsTheRoom, Builders, Saving, Subscribed, Rooms
  <2> QED
    BY <1>14, <1>1, <2>1, <2>2 DEF Apply, Coverage
<1>15. ASSUME NEW e \in Editors, Wrote(e) PROVE EverybodyWrites' /\ Coverage'
  <2>1. WorkCoversStored'
    BY <1>15
    DEF Wrote, Coverage, WorkCoversStored, RoomHoldsStored, Structure, LockMatchesHolder,
         OneRoomAtATime, SweepHoldsTheRoom, Builders, Saving, Subscribed, Rooms
  <2>2. RoomHoldsStored'
    BY <1>15
    DEF Wrote, Coverage, WorkCoversStored, RoomHoldsStored, Structure, LockMatchesHolder,
         OneRoomAtATime, SweepHoldsTheRoom, Builders, Saving, Subscribed, Rooms
  <2> QED
    BY <1>15, <1>1, <2>1, <2>2 DEF Wrote, Coverage
<1>16. ASSUME NEW e \in Editors, Leave(e) PROVE EverybodyWrites' /\ Coverage'
  <2>1. WorkCoversStored'
    BY <1>16
    DEF Leave, Coverage, WorkCoversStored, RoomHoldsStored, Structure, LockMatchesHolder,
         OneRoomAtATime, SweepHoldsTheRoom, Builders, Saving, Subscribed, Rooms
  <2>2. RoomHoldsStored'
    BY <1>16
    DEF Leave, Coverage, WorkCoversStored, RoomHoldsStored, Structure, LockMatchesHolder,
         OneRoomAtATime, SweepHoldsTheRoom, Builders, Saving, Subscribed, Rooms
  <2> QED
    BY <1>16, <1>1, <2>1, <2>2 DEF Leave, Coverage
<1>17. CASE EvictIdle
  <2>1. sweep'.pc = "listing" /\ UNCHANGED <<perm, stored, content, pc, got>>
    BY <1>17 DEF EvictIdle
  <2>2. \A e \in Editors : pc[e] \notin Builders
    BY <1>17 DEF EvictIdle, Structure, LockMatchesHolder
  <2>3. WorkCoversStored'
    BY <2>1, <2>2 DEF WorkCoversStored, Builders, Saving
  <2>4. stored \subseteq content[live] \/ live = 0
    BY <2>2 DEF Coverage, RoomHoldsStored, Builders
  <2>5. \/ sweep'.evicted = live /\ live' = 0
        \/ sweep'.evicted = sweep.evicted /\ live' = live
    BY <1>17 DEF EvictIdle
  <2>6. RoomHoldsStored'
    BY <2>1, <2>4, <2>5 DEF Coverage, RoomHoldsStored
  <2> QED
    BY <1>1, <2>1, <2>3, <2>6 DEF Coverage
<1>18. CASE List
  <2>1. UNCHANGED <<perm, stored, content, pc, got, live>> /\ sweep'.evicted = sweep.evicted
    BY <1>18 DEF List
  <2>2. sweep'.pc \in {"encoding", "closing"}
    BY <1>18 DEF List
  <2>3. WorkCoversStored'
    BY <2>1, <2>2 DEF Coverage, WorkCoversStored, Saving
  <2>4. RoomHoldsStored'
    BY <2>1 DEF Coverage, RoomHoldsStored
  <2> QED
    BY <1>1, <2>1, <2>3, <2>4 DEF Coverage
<1>19. CASE Encode
  <2>1. WorkCoversStored'
    BY <1>19
    DEF Encode, Coverage, WorkCoversStored, RoomHoldsStored, Structure, LockMatchesHolder,
         OneRoomAtATime, SweepHoldsTheRoom, Builders, Saving, Subscribed, Rooms
  <2>2. RoomHoldsStored'
    BY <1>19
    DEF Encode, Coverage, WorkCoversStored, RoomHoldsStored, Structure, LockMatchesHolder,
         OneRoomAtATime, SweepHoldsTheRoom, Builders, Saving, Subscribed, Rooms
  <2> QED
    BY <1>19, <1>1, <2>1, <2>2 DEF Encode, Coverage
<1>20. CASE Compare
  <2>1. UNCHANGED <<perm, stored, content, pc, got, live>>
    BY <1>20 DEF Compare
  <2>2. /\ sweep.pc = "comparing" /\ sweep'.evicted = sweep.evicted /\ sweep'.room = sweep.room
        /\ sweep'.encoded = sweep.encoded
    BY <1>20 DEF Compare
  <2>3. WorkCoversStored'
    BY <2>1, <2>2 DEF Coverage, WorkCoversStored, Saving
  <2>4. RoomHoldsStored'
    BY <2>1, <2>2 DEF Coverage, RoomHoldsStored
  <2> QED
    BY <1>1, <2>1, <2>3, <2>4 DEF Coverage
<1>21. CASE AuthoriseSave
  <2>1. WorkCoversStored'
    BY <1>21
    DEF AuthoriseSave, Coverage, WorkCoversStored, RoomHoldsStored, Structure, LockMatchesHolder,
         OneRoomAtATime, SweepHoldsTheRoom, Builders, Saving, Subscribed, Rooms
  <2>2. RoomHoldsStored'
    BY <1>21
    DEF AuthoriseSave, Coverage, WorkCoversStored, RoomHoldsStored, Structure, LockMatchesHolder,
         OneRoomAtATime, SweepHoldsTheRoom, Builders, Saving, Subscribed, Rooms
  <2> QED
    BY <1>21, <1>1, <2>1, <2>2 DEF AuthoriseSave, Coverage
<1>22. CASE WriteState
  <2>1. WorkCoversStored'
    BY <1>22
    DEF WriteState, Coverage, WorkCoversStored, RoomHoldsStored, Structure, LockMatchesHolder,
         OneRoomAtATime, SweepHoldsTheRoom, Builders, Saving, Subscribed, Rooms
  <2>2. RoomHoldsStored'
    BY <1>22
    DEF WriteState, Coverage, WorkCoversStored, RoomHoldsStored, Structure, LockMatchesHolder,
         OneRoomAtATime, SweepHoldsTheRoom, Builders, Saving, Subscribed, Rooms
  <2> QED
    BY <1>22, <1>1, <2>1, <2>2 DEF WriteState, Coverage
<1>23. CASE MarkSaved
  <2>1. WorkCoversStored'
    BY <1>23
    DEF MarkSaved, Coverage, WorkCoversStored, RoomHoldsStored, Structure, LockMatchesHolder,
         OneRoomAtATime, SweepHoldsTheRoom, Builders, Saving, Subscribed, Rooms
  <2>2. RoomHoldsStored'
    BY <1>23
    DEF MarkSaved, Coverage, WorkCoversStored, RoomHoldsStored, Structure, LockMatchesHolder,
         OneRoomAtATime, SweepHoldsTheRoom, Builders, Saving, Subscribed, Rooms
  <2> QED
    BY <1>23, <1>1, <2>1, <2>2 DEF MarkSaved, Coverage
<1>24. CASE PersistFails
  <2>1. WorkCoversStored'
    BY <1>24
    DEF PersistFails, Coverage, WorkCoversStored, RoomHoldsStored, Structure, LockMatchesHolder,
         OneRoomAtATime, SweepHoldsTheRoom, Builders, Saving, Subscribed, Rooms
  <2>2. RoomHoldsStored'
    BY <1>24
    DEF PersistFails, Coverage, WorkCoversStored, RoomHoldsStored, Structure, LockMatchesHolder,
         OneRoomAtATime, SweepHoldsTheRoom, Builders, Saving, Subscribed, Rooms
  <2> QED
    BY <1>24, <1>1, <2>1, <2>2 DEF PersistFails, Coverage
<1>25. CASE CloseEvicted
  <2>1. WorkCoversStored'
    BY <1>25
    DEF CloseEvicted, Coverage, WorkCoversStored, RoomHoldsStored, Structure, LockMatchesHolder,
         OneRoomAtATime, SweepHoldsTheRoom, Builders, Saving, Subscribed, Rooms, Asleep
  <2>2. RoomHoldsStored'
    BY <1>25
    DEF CloseEvicted, Coverage, WorkCoversStored, RoomHoldsStored, Structure, LockMatchesHolder,
         OneRoomAtATime, SweepHoldsTheRoom, Builders, Saving, Subscribed, Rooms, Asleep
  <2> QED
    BY <1>25, <1>1, <2>1, <2>2 DEF CloseEvicted, Coverage
<1>26. CASE ClearState
  <2>1. WorkCoversStored'
    BY <1>26
    DEF ClearState, Coverage, WorkCoversStored, RoomHoldsStored, Structure, LockMatchesHolder,
         OneRoomAtATime, SweepHoldsTheRoom, Builders, Saving, Subscribed, Rooms
  <2>2. RoomHoldsStored'
    BY <1>26
    DEF ClearState, Coverage, WorkCoversStored, RoomHoldsStored, Structure, LockMatchesHolder,
         OneRoomAtATime, SweepHoldsTheRoom, Builders, Saving, Subscribed, Rooms
  <2> QED
    BY <1>26, <1>1, <2>1, <2>2 DEF ClearState, Coverage
<1>27. CASE Crash
  <2>1. WorkCoversStored'
    BY <1>27
    DEF Crash, Coverage, WorkCoversStored, RoomHoldsStored, Structure, LockMatchesHolder,
         OneRoomAtATime, SweepHoldsTheRoom, Builders, Saving, Subscribed, Rooms, Asleep
  <2>2. RoomHoldsStored'
    BY <1>27
    DEF Crash, Coverage, WorkCoversStored, RoomHoldsStored, Structure, LockMatchesHolder,
         OneRoomAtATime, SweepHoldsTheRoom, Builders, Saving, Subscribed, Rooms, Asleep
  <2> QED
    BY <1>27, <1>1, <2>1, <2>2 DEF Crash, Coverage
<1>28. ASSUME NEW e \in Editors,
                Receive(e) \/ CloseTab(e) \/ (\E w \in Words : Type(e, w))
       PROVE  EverybodyWrites' /\ Coverage'
  BY <1>28, <1>2 DEF Receive, CloseTab, Type
<1>29. ASSUME GraceElapses \/ Publish \/ UNCHANGED vars
               \/ (\E e \in Editors, old \in revisions : RestoreRevision(e, old))
               \/ AbandonRestore
       PROVE  EverybodyWrites' /\ Coverage'
  BY <1>29, <1>2 DEF GraceElapses, Publish, PublishAuthorise, PublishSnapshot,
     PublishWrite, RestoreRevision, AbandonRestore, vars
<1>30. ASSUME NEW e \in Editors, NEW p \in Perms PROVE ~ChangeAccess(e, p)
  BY DEF ChangeAccess
<1> QED
  BY <1>3, <1>4, <1>5, <1>6, <1>7, <1>8, <1>9, <1>10, <1>11, <1>12, <1>13, <1>14, <1>15, <1>16,
     <1>17, <1>18, <1>19, <1>20, <1>21, <1>22, <1>23, <1>24, <1>25, <1>26, <1>27, <1>28, <1>29,
     <1>30
  DEF Next, Join, Session, Sweep, Restore

-----------------------------------------------------------------------------

\* The first layer is an invariant, whatever the events.
LEMMA InductiveStructure == Spec => [](TypeOK /\ Structure)
<1>1. Init => TypeOK /\ Structure
  BY InitType, InitStructure
<1>2. TypeOK /\ Structure /\ [Next]_vars => TypeOK' /\ Structure'
  BY NextType, NextStructure
<1> QED
  BY <1>1, <1>2, PTL DEF Spec

\* The type invariant holds whatever the people, the words and the events.
THEOREM TypeCorrect == Spec => []TypeOK
  BY InductiveStructure, PTL

\* The bookkeeping of a page and its room never come apart: whatever the order in which
\* joins, failed joins, sweeps and crashes interleave, a live room has its entry and an
\* entry has its room (the janitor's closed() against open_room's opened()).
THEOREM EntryAlwaysMatches == Spec => []EntryMatchesRoom
<1>1. Structure => EntryMatchesRoom
  BY DEF Structure
<1> QED
  BY <1>1, InductiveStructure, PTL

\* The second layer is one while access does not change.
LEMMA InductiveCoverage ==
  ASSUME "access" \notin Events
  PROVE  Spec => [](TypeOK /\ Structure /\ EverybodyWrites /\ Coverage)
<1>1. Init => EverybodyWrites /\ Coverage
  BY InitCoverage
<1>2. TypeOK /\ Structure /\ Structure' /\ EverybodyWrites /\ Coverage /\ [Next]_vars
        => EverybodyWrites' /\ Coverage'
  BY NextCoverage
<1> QED
  BY <1>1, <1>2, InductiveStructure, PTL DEF Spec

\* As long as nobody loses access between the two queries of a join, a room open for
\* editing -- and one that was evicted and is still being written -- holds everything the
\* database holds of the page.
THEOREM RoomAlwaysHoldsStored ==
  ASSUME "access" \notin Events
  PROVE  Spec => []RoomHoldsStored
<1>1. Coverage => RoomHoldsStored
  BY DEF Coverage
<1> QED
  BY <1>1, InductiveCoverage, PTL

\* Under the same assumption no save of the janitor ever removes from the database
\* something that was there, however sweeps, joins, evictions and crashes interleave.
THEOREM SavesNeverForgetAnything ==
  ASSUME "access" \notin Events
  PROVE  Spec => SavesNeverForget
<1>1. TypeOK /\ Coverage /\ [Next]_vars
        => [stored \subseteq stored' \/ (restoring /\ stored' = {})]_stored
  <2> SUFFICES ASSUME TypeOK, Coverage, [Next]_vars, stored' # stored
               PROVE  stored \subseteq stored' \/ (restoring /\ stored' = {})
    OBVIOUS
  <2>1. CASE WriteState
    BY <2>1 DEF WriteState, Coverage, WorkCoversStored, Saving
  <2>2. CASE ClearState
    BY <2>2 DEF ClearState
  <2>3. CASE ~WriteState /\ ~ClearState
    <3>1. ~\E e \in Editors : Join(e)
      BY DEF Join, database, Authorise, OpenLive, StartBuilding, ReadState, SeedRoom, EmptyRoom,
         FillRoom, FillFails, AbandonJoin, CheckCap, Subscribe
    <3>2. ~\E e \in Editors : Session(e)
      BY DEF Session, database, Apply, Wrote, Receive, Leave, CloseTab, Type
    <3>3. ~Sweep
      BY <2>3 DEF Sweep, database, EvictIdle, List, Encode, Compare, AuthoriseSave, MarkSaved,
         PersistFails, CloseEvicted
    <3>4. ~Publish /\ ~Restore
      BY <2>3 DEF Publish, Restore, database, PublishAuthorise, PublishSnapshot, PublishWrite,
         RestoreRevision, AbandonRestore
    <3> QED
      BY <3>1, <3>2, <3>3, <3>4 DEF Next, vars, database, GraceElapses, ChangeAccess, Crash
  <2> QED
    BY <2>1, <2>2, <2>3
<1> QED
  BY <1>1, InductiveCoverage, PTL DEF Spec, SavesNeverForget

-----------------------------------------------------------------------------
(***************************************************************************)
(* OneCopy, while no browser brings a document of an earlier session back. *)
(* Most steps only move copies that are there already; CopiesMove says how.*)
(***************************************************************************)

\* Every document after the step is empty, or one that was there before: in the place it
\* had, or handed on to the row, to a joiner, or to the sweep.
CopiesMove ==
  /\ content' = content /\ typed' = typed
  /\ \A e \in Editors :
       /\ replica'[e] = {} \/ (/\ replica'[e] = replica[e] /\ room'[e] = room[e]
                               /\ pc[e] \in Subscribed => pc'[e] \in Subscribed)
       /\ got'[e] \in {{}, got[e], stored}
       /\ seen'[e] \in {{}, seen[e], body}
  /\ stored' \in {{}, stored, sweep.encoded}
  /\ \/ sweep'.encoded \in {{}, sweep.encoded}
     \/ \E r \in Rooms : sweep'.encoded = content[r]
  /\ body' \in {body, pub.snap} \cup revisions
  /\ revisions' \subseteq revisions \cup {pub.snap}
  /\ \/ pub'.snap \in {{}, pub.snap}
     \/ \E r \in Rooms : pub'.snap = WordsOf(content[r])

\* A part of what has every word once has every word once.
LEMMA SingleParts ==
  ASSUME NEW items, NEW part, SingleCopy(items), part \subseteq items
  PROVE  SingleCopy(part)
  BY DEF SingleCopy

\* What is in a room, or in a browser connected to it, is gathered there.
LEMMA GatheredParts ==
  ASSUME TypeOK, NEW r \in Rooms
  PROVE  /\ content[r] \subseteq Gathered(r)
         /\ \A e \in Editors : room[e] = r => replica[e] \subseteq Gathered(r)
  BY DEF TypeOK, Gathered

\* A part of two documents has no words but theirs.
LEMMA WordsOfParts ==
  ASSUME NEW words, NEW a, NEW b, NEW part, part \subseteq a \cup b,
         WordsOf(a) \subseteq words, WordsOf(b) \subseteq words
  PROVE  WordsOf(part) \subseteq words
  BY DEF WordsOf

LEMMA MovedCopies ==
  ASSUME TypeOK, CopiesAreSingle, CopiesMove
  PROVE  CopiesAreSingle'
<1>1. \A e \in Editors : pc'[e] \notin Subscribed => replica'[e] = {}
  BY DEF CopiesMove, CopiesAreSingle
<1>2. ASSUME NEW r \in Rooms PROVE SingleCopy(Gathered(r)')
  <2>1. Gathered(r)' \subseteq Gathered(r)
    BY DEF CopiesMove, Gathered
  <2> QED
    BY <2>1, SingleParts DEF CopiesAreSingle
<1>3. SingleCopy({})
  BY DEF SingleCopy
<1>4. SingleCopy(stored') /\ \A e \in Editors : SingleCopy(got'[e])
  BY <1>3 DEF CopiesMove, CopiesAreSingle
<1>5. SingleCopy(sweep'.encoded)
  <2>1. \A r \in Rooms : SingleCopy(content[r])
    BY GatheredParts, SingleParts DEF CopiesAreSingle
  <2> QED
    BY <1>3, <2>1 DEF CopiesMove, CopiesAreSingle
<1> QED
  BY <1>1, <1>2, <1>4, <1>5 DEF CopiesAreSingle, SingleCopy

LEMMA MovedWords ==
  ASSUME TypeOK, WordsAreKnown, CopiesMove
  PROVE  WordsAreKnown'
<1>1. Known' = Known
  BY DEF CopiesMove, Known
<1>2. \A r \in Rooms : WordsOf(content'[r]) \subseteq Known
  BY DEF CopiesMove, WordsAreKnown
<1>3. WordsOf({}) \subseteq Known
  BY DEF WordsOf
<1>4. ASSUME NEW e \in Editors
      PROVE  WordsOf(replica'[e]) \subseteq Known /\ WordsOf(got'[e]) \subseteq Known
             /\ seen'[e] \subseteq Known
  BY <1>3 DEF CopiesMove, WordsAreKnown
<1>5. WordsOf(stored') \subseteq Known /\ WordsOf(sweep'.encoded) \subseteq Known
  BY <1>3 DEF CopiesMove, WordsAreKnown
<1>6. pub'.snap \subseteq Known
  BY DEF CopiesMove, WordsAreKnown
<1>7. body' \subseteq Known /\ \A old \in revisions' : old \subseteq Known
  BY DEF CopiesMove, WordsAreKnown
<1> QED
  BY <1>1, <1>2, <1>4, <1>5, <1>6, <1>7 DEF WordsAreKnown, WordsOf

\* The steps that only move copies.
LEMMA MovingSteps ==
  ASSUME "reconnect" \notin Events, TypeOK, Structure, CopiesAreSingle, [Next]_vars,
         \A e \in Editors : /\ ~SeedRoom(e) /\ ~FillRoom(e) /\ ~Apply(e) /\ ~Receive(e)
                            /\ \A w \in Words : ~Type(e, w)
  PROVE  CopiesMove
<1> USE DEF access, database, registry, session, browser
<1>1. \A e \in Editors : pc[e] \notin Subscribed => replica[e] = {}
  BY DEF CopiesAreSingle
<1>2. ASSUME NEW e \in Editors,
             \/ Authorise(e) \/ OpenLive(e) \/ StartBuilding(e) \/ ReadState(e) \/ EmptyRoom(e)
             \/ FillFails(e) \/ AbandonJoin(e) \/ CheckCap(e) \/ Subscribe(e) \/ Wrote(e)
      PROVE  CopiesMove
  <2>1. UNCHANGED <<content, typed, replica, stored, sweep, body, revisions, pub>>
    BY <1>2 DEF Authorise, OpenLive, StartBuilding, ReadState, EmptyRoom, FillFails, AbandonJoin,
       CheckCap, Subscribe, Wrote
  <2>2. \A f \in Editors :
          /\ replica[f] = {} \/ (room'[f] = room[f] /\ (pc[f] \in Subscribed => pc'[f] \in Subscribed))
          /\ got'[f] \in {{}, got[f], stored}
          /\ seen'[f] \in {{}, seen[f], body}
    <3>1. /\ pc \in [Editors -> {"off"} \cup Handshake \cup Subscribed] /\ room \in [Editors -> 0 .. MaxRooms]
          /\ seen \in [Editors -> SUBSET AllWords] /\ got \in [Editors -> SUBSET Items]
      BY DEF TypeOK
    <3>2. CASE Authorise(e) \/ OpenLive(e) \/ StartBuilding(e) \/ ReadState(e)
      BY <1>1, <3>1, <3>2 DEF Subscribed, Authorise, OpenLive, StartBuilding, ReadState
    <3>3. CASE EmptyRoom(e) \/ FillFails(e) \/ AbandonJoin(e)
      BY <1>1, <3>1, <3>3 DEF Subscribed, EmptyRoom, FillFails, AbandonJoin
    <3>4. CASE CheckCap(e)
      BY <1>1, <3>1, <3>4 DEF Subscribed, CheckCap
    <3>5. CASE Subscribe(e) \/ Wrote(e)
      BY <1>1, <3>1, <3>5 DEF Subscribed, Subscribe, Wrote
    <3> QED
      BY <1>2, <3>2, <3>3, <3>4, <3>5
  <2> QED
    BY <2>1, <2>2 DEF CopiesMove
<1>3. ASSUME NEW e \in Editors, Leave(e) \/ CloseTab(e) PROVE CopiesMove
  <2>1. UNCHANGED <<content, typed, got, seen, stored, sweep, body, revisions, pub>>
    BY <1>3 DEF Leave, CloseTab
  <2>2. \A f \in Editors :
          replica'[f] = {} \/ (/\ replica'[f] = replica[f] /\ room'[f] = room[f]
                               /\ pc[f] \in Subscribed => pc'[f] \in Subscribed)
    BY <1>3 DEF TypeOK, Leave, CloseTab
  <2> QED
    BY <2>1, <2>2 DEF CopiesMove
<1>4. ASSUME Sweep PROVE CopiesMove
  <2>1. UNCHANGED <<content, typed, replica, room, pc, got, seen, body, revisions, pub>>
    BY <1>4 DEF Sweep, EvictIdle, List, Encode, Compare, AuthoriseSave, WriteState, MarkSaved,
       PersistFails, CloseEvicted
  <2>2. stored' \in {stored, sweep.encoded}
    BY <1>4 DEF Sweep, EvictIdle, List, Encode, Compare, AuthoriseSave, WriteState, MarkSaved,
       PersistFails, CloseEvicted
  <2>3. sweep'.encoded \in {{}, sweep.encoded} \/ \E r \in Rooms : sweep'.encoded = content[r]
    <3>1. CASE Encode
      <4>1. sweep.room \in Rooms
        BY <3>1, BoundsAssumption DEF Encode, TypeOK, Structure, SweepHoldsTheRoom, Rooms
      <4> QED
        BY <3>1, <4>1 DEF Encode, TypeOK
    <3>2. CASE ~Encode
      <4>1. sweep \in [pc : {"idle"} \cup SweepStages, evicted : 0 .. MaxRooms,
                       room : 0 .. MaxRooms, writer : Editors \cup {Nobody}, encoded : SUBSET Items]
        BY DEF TypeOK
      <4>2. CASE EvictIdle \/ List
        BY <4>1, <4>2 DEF EvictIdle, List
      <4>3. CASE Compare \/ AuthoriseSave \/ WriteState \/ MarkSaved \/ PersistFails
        BY <4>1, <4>3 DEF Compare, AuthoriseSave, WriteState, MarkSaved, PersistFails
      <4>4. CASE CloseEvicted
        BY <4>4 DEF CloseEvicted, Asleep
      <4> QED
        BY <1>4, <3>2, <4>2, <4>3, <4>4 DEF Sweep
    <3> QED
      BY <3>1, <3>2
  <2> QED
    BY <2>1, <2>2, <2>3 DEF CopiesMove
<1>5. ASSUME Publish PROVE CopiesMove
  <2>1. UNCHANGED <<content, typed, replica, room, pc, got, seen, stored, sweep>>
    BY <1>5 DEF Publish, PublishAuthorise, PublishSnapshot, PublishWrite
  <2>2. body' \in {body, pub.snap} /\ revisions' \subseteq revisions \cup {pub.snap}
    BY <1>5 DEF Publish, PublishAuthorise, PublishSnapshot, PublishWrite
  <2>3. pub'.snap \in {{}, pub.snap} \/ \E r \in Rooms : pub'.snap = WordsOf(content[r])
    <3>1. pub \in [pc : {"idle", "authorised", "snapped"}, by : Editors \cup {Nobody},
                    snap : SUBSET AllWords]
      BY DEF TypeOK
    <3>2. CASE PublishSnapshot
      <4>1. live # 0 => live \in Rooms
        BY BoundsAssumption DEF TypeOK, Rooms
      <4>2. CASE live # 0
        <5> DEFINE words == WordsOf(content[live])
        <5>1. pub' = [pub EXCEPT !.pc = "snapped", !.snap = words]
          BY <3>2, <4>2 DEF PublishSnapshot
        <5> HIDE DEF words
        <5>2. pub'.snap = words
          BY <3>1, <5>1
        <5> QED
          BY <4>1, <4>2, <5>2 DEF words
      <4> QED
        BY <3>2, <4>2 DEF PublishSnapshot, NoPublish
    <3>3. CASE PublishWrite
      BY <3>3 DEF PublishWrite, NoPublish
    <3>4. ASSUME NEW e \in Editors, PublishAuthorise(e) PROVE pub'.snap = pub.snap
      BY <3>1, <3>4 DEF PublishAuthorise
    <3> QED
      BY <1>5, <3>2, <3>3, <3>4 DEF Publish
  <2> QED
    BY <2>1, <2>2, <2>3 DEF CopiesMove
<1>6. ASSUME Restore PROVE CopiesMove
  BY <1>6 DEF Restore, RestoreRevision, ClearState, AbandonRestore, CopiesMove
<1>7. ASSUME Crash PROVE CopiesMove
  BY <1>7 DEF Crash, CopiesMove, Asleep, NoPublish, TypeOK
<1>8. ASSUME GraceElapses \/ (\E e \in Editors, p \in Perms : ChangeAccess(e, p)) \/ UNCHANGED vars
      PROVE  CopiesMove
  BY <1>8 DEF GraceElapses, ChangeAccess, vars, CopiesMove
<1> QED
  BY <1>2, <1>3, <1>4, <1>5, <1>6, <1>7, <1>8 DEF Next, Join, Session

\* A new room is seeded: nothing was in it and nobody was connected to it.
LEMMA SeedingCopies ==
  ASSUME TypeOK, Structure, CopiesAreSingle, WordsAreKnown, NEW e \in Editors, SeedRoom(e)
  PROVE  CopiesAreSingle' /\ WordsAreKnown'
<1> DEFINE n == built + 1
           s == Seed(seen[e], n)
<1>1. n \in Rooms /\ n > built
  BY BoundsAssumption DEF SeedRoom, TypeOK, Structure, OneRoomAtATime, Rooms
<1>2. /\ content' = [content EXCEPT ![n] = s] /\ room' = [room EXCEPT ![e] = n]
      /\ pc' = [pc EXCEPT ![e] = "opened"] /\ replica[e] = {}
      /\ UNCHANGED <<stored, body, revisions, seen, got, replica, typed, sweep, pub>>
  BY DEF SeedRoom, database, browser, CopiesAreSingle, Subscribed
<1>3. \A i \in s : i[1] \in seen[e] /\ i[2] = n /\ i = <<i[1], i[2]>>
  BY DEF Seed
<1> HIDE DEF n, s
<1>4. ASSUME NEW r \in Rooms PROVE SingleCopy(Gathered(r)')
  <2>1. CASE r = n
    <3>1. content'[r] = s
      BY <1>1, <1>2, <2>1 DEF TypeOK
    <3>2. \A f \in Editors : room'[f] = r => replica'[f] = {}
      BY <1>1, <1>2, <2>1, BoundsAssumption DEF TypeOK, Structure, OneRoomAtATime
    <3>3. Gathered(r)' \subseteq s
      BY <3>1, <3>2 DEF Gathered
    <3> QED
      BY <1>3, <3>3 DEF SingleCopy
  <2>2. CASE r # n
    <3>1. Gathered(r)' \subseteq Gathered(r)
      BY <1>2, <2>2 DEF Gathered, TypeOK
    <3> QED
      BY <3>1, SingleParts DEF CopiesAreSingle
  <2> QED
    BY <2>1, <2>2
<1>5. CopiesAreSingle'
  BY <1>2, <1>4 DEF CopiesAreSingle, SingleCopy, Subscribed, TypeOK
<1>6. WordsAreKnown'
  <2>1. Known' = Known
    BY <1>2 DEF Known
  <2>2. \A r \in Rooms : WordsOf(content'[r]) \subseteq Known
    <3>1. WordsOf(s) \subseteq Known
      BY <1>3 DEF WordsOf, WordsAreKnown
    <3> QED
      BY <1>2, <3>1 DEF WordsAreKnown, TypeOK
  <2> QED
    BY <1>2, <2>1, <2>2 DEF WordsAreKnown, WordsOf
<1> QED
  BY <1>5, <1>6

\* The room that is being filled was empty, and nobody else holds it.
LEMMA FillingCopies ==
  ASSUME TypeOK, Structure, CopiesAreSingle, WordsAreKnown, NEW e \in Editors, FillRoom(e)
  PROVE  CopiesAreSingle' /\ WordsAreKnown'
<1> DEFINE n == room[e]
<1>1. /\ n \in Rooms /\ content[n] = {} /\ replica[e] = {}
      /\ \A f \in Editors \ {e} : room[f] # n
  <2>1. pc[e] = "filling" /\ room[e] \in 0 .. MaxRooms
    BY DEF FillRoom, TypeOK
  <2>2. n # 0 /\ content[n] = {} /\ \A f \in Editors \ {e} : room[f] # n
    BY <2>1 DEF Structure, OneRoomAtATime
  <2>3. replica[e] = {}
    BY <2>1 DEF CopiesAreSingle, Subscribed
  <2> QED
    BY <2>1, <2>2, <2>3, BoundsAssumption DEF Rooms
<1>2. /\ content' = [content EXCEPT ![n] = got[e]] /\ pc' = [pc EXCEPT ![e] = "opened"]
      /\ UNCHANGED <<stored, body, revisions, room, seen, got, replica, typed, sweep, pub>>
  BY <1>1 DEF FillRoom, database, browser, TypeOK
<1> HIDE DEF n
<1>3. ASSUME NEW r \in Rooms PROVE SingleCopy(Gathered(r)')
  <2>1. CASE r = n
    <3>1. Gathered(r)' \subseteq got[e]
      BY <1>1, <1>2, <2>1 DEF Gathered, TypeOK
    <3> QED
      BY <3>1, SingleParts DEF CopiesAreSingle
  <2>2. CASE r # n
    <3>1. Gathered(r)' \subseteq Gathered(r)
      BY <1>2, <2>2 DEF Gathered, TypeOK
    <3> QED
      BY <3>1, SingleParts DEF CopiesAreSingle
  <2> QED
    BY <2>1, <2>2
<1>4. CopiesAreSingle'
  <2>1. \A f \in Editors : pc'[f] \notin Subscribed => replica'[f] = {}
    BY <1>1, <1>2 DEF CopiesAreSingle, TypeOK
  <2>2. SingleCopy(stored') /\ SingleCopy(sweep'.encoded) /\ \A f \in Editors : SingleCopy(got'[f])
    BY <1>2 DEF CopiesAreSingle
  <2> QED
    BY <1>3, <2>1, <2>2 DEF CopiesAreSingle, SingleCopy
<1>5. WordsAreKnown'
  <2>1. Known' = Known
    BY <1>2 DEF Known
  <2>2. \A r \in Rooms : WordsOf(content'[r]) \subseteq Known
    BY <1>2 DEF WordsAreKnown, TypeOK
  <2> QED
    BY <1>2, <2>1, <2>2 DEF WordsAreKnown, WordsOf
<1> QED
  BY <1>4, <1>5

\* A browser and its room exchange what was gathered in that room already.
LEMMA ExchangedCopies ==
  ASSUME TypeOK, Structure, CopiesAreSingle, WordsAreKnown, NEW e \in Editors,
         Apply(e) \/ Receive(e)
  PROVE  CopiesAreSingle' /\ WordsAreKnown'
<1>1. pc[e] \in Subscribed /\ room[e] \in Rooms
  <2>1. pc[e] \in Subscribed /\ room[e] \in 0 .. MaxRooms
    BY DEF Apply, Receive, TypeOK, Subscribed
  <2>2. room[e] # 0
    BY <2>1 DEF Structure, OneRoomAtATime
  <2> QED
    BY <2>1, <2>2, BoundsAssumption DEF Rooms
<1>2. UNCHANGED <<stored, body, revisions, room, seen, got, typed, sweep, pub>>
  BY DEF Apply, Receive, database, session, browser
<1>3. \A f \in Editors : pc'[f] \notin Subscribed => f # e /\ pc[f] \notin Subscribed
  BY <1>1 DEF Apply, Receive, session, Subscribed, TypeOK
<1>4. /\ \A r \in Rooms :
           content'[r] \subseteq content[r] \cup (IF r = room[e] THEN replica[e] ELSE {})
      /\ \A f \in Editors :
           replica'[f] \subseteq replica[f] \cup (IF f = e THEN content[room[e]] ELSE {})
  <2>1. CASE Apply(e)
    BY <2>1 DEF Apply, browser, TypeOK
  <2>2. CASE Receive(e)
    BY <2>2 DEF Receive, registry, TypeOK
  <2> QED
    BY <2>1, <2>2
<1>5. ASSUME NEW r \in Rooms PROVE SingleCopy(Gathered(r)')
  <2>1. Gathered(r)' \subseteq Gathered(r)
    BY <1>2, <1>4 DEF Gathered
  <2> QED
    BY <2>1, SingleParts DEF CopiesAreSingle
<1>6. CopiesAreSingle'
  BY <1>2, <1>3, <1>4, <1>5 DEF CopiesAreSingle, SingleCopy
<1>7. WordsAreKnown'
  <2>1. Known' = Known
    BY <1>2 DEF Known
  <2>2. WordsOf({}) \subseteq Known
    BY DEF WordsOf
  <2>3. \A r \in Rooms : WordsOf(content'[r]) \subseteq Known
    BY <1>4, <2>2, WordsOfParts DEF WordsAreKnown
  <2>4. \A f \in Editors : WordsOf(replica'[f]) \subseteq Known
    BY <1>1, <1>4, <2>2, WordsOfParts DEF WordsAreKnown
  <2> QED
    BY <1>2, <2>1, <2>3, <2>4 DEF WordsAreKnown, WordsOf
<1> QED
  BY <1>6, <1>7

\* A word is typed once, into one browser, and was nowhere before.
LEMMA TypedCopies ==
  ASSUME TypeOK, CopiesAreSingle, WordsAreKnown, NEW e \in Editors, NEW w \in Words, Type(e, w)
  PROVE  CopiesAreSingle' /\ WordsAreKnown'
<1>1. w \notin Known
  BY WordsAssumption DEF Type, Known
<1>2. /\ replica' = [replica EXCEPT ![e] = @ \cup {<<w, 0>>}] /\ replica[e] # {}
      /\ typed' = typed \cup {w}
      /\ UNCHANGED <<stored, body, revisions, content, pc, room, seen, got, sweep, pub>>
  BY DEF Type, database, registry, session
<1>3. ASSUME NEW r \in Rooms PROVE SingleCopy(Gathered(r)')
  <2>1. Gathered(r)' \subseteq Gathered(r) \cup {<<w, 0>>}
    BY <1>2 DEF Gathered, TypeOK
  <2>2. \A i \in Gathered(r) : i[1] # w
    BY <1>1 DEF Gathered, WordsAreKnown, WordsOf
  <2>3. SingleCopy(Gathered(r))
    BY DEF CopiesAreSingle
  <2> QED
    BY <2>1, <2>2, <2>3 DEF SingleCopy
<1>4. CopiesAreSingle'
  BY <1>2, <1>3 DEF CopiesAreSingle, SingleCopy, TypeOK
<1>5. WordsAreKnown'
  <2>1. Known' = Known \cup {w}
    BY <1>2 DEF Known
  <2>2. \A f \in Editors : WordsOf(replica'[f]) \subseteq Known \cup {w}
    BY <1>2 DEF WordsAreKnown, WordsOf, TypeOK
  <2> HIDE DEF Known
  <2>3. \A f \in Editors : WordsOf(got[f]) \subseteq Known \cup {w} /\ seen[f] \subseteq Known \cup {w}
    BY DEF WordsAreKnown
  <2>4. WordsOf(stored) \subseteq Known \cup {w} /\ WordsOf(sweep.encoded) \subseteq Known \cup {w}
        /\ body \subseteq Known \cup {w} /\ pub.snap \subseteq Known \cup {w}
    BY DEF WordsAreKnown
  <2>5. \A r \in Rooms : WordsOf(content[r]) \subseteq Known \cup {w}
    BY DEF WordsAreKnown
  <2>6. \A old \in revisions : old \subseteq Known \cup {w}
    BY DEF WordsAreKnown
  <2> QED
    BY <1>2, <2>1, <2>2, <2>3, <2>4, <2>5, <2>6 DEF WordsAreKnown, WordsOf
<1> QED
  BY <1>4, <1>5

\* While no browser brings a document back from an earlier session, no word is in a room
\* under two insertions: however rooms are seeded, evicted, crash, are published and
\* restored, a page is seeded from its body at most once into what is being edited.
THEOREM EveryWordOnce ==
  ASSUME "reconnect" \notin Events
  PROVE  Spec => []OneCopy
<1> DEFINE I == CopiesAreSingle /\ WordsAreKnown
<1>1. Init => I
  <2> SUFFICES ASSUME Init PROVE I
    OBVIOUS
  <2>1. CopiesAreSingle
    BY DEF Init, CopiesAreSingle, SingleCopy, Gathered, Asleep
  <2>2. WordsAreKnown
    BY HistoryAssumption DEF Init, WordsAreKnown, WordsOf, Known, Asleep, NoPublish
  <2> QED
    BY <2>1, <2>2
<1>2. TypeOK /\ Structure /\ I /\ [Next]_vars => I'
  BY SeedingCopies, FillingCopies, ExchangedCopies, TypedCopies, MovingSteps, MovedCopies, MovedWords
<1>3. TypeOK /\ I => OneCopy
  BY GatheredParts DEF OneCopy, CopiesAreSingle, SingleCopy
<1> QED
  BY <1>1, <1>2, <1>3, InductiveStructure, PTL DEF Spec

-----------------------------------------------------------------------------
(***************************************************************************)
(* CollabRooms implements Page for every set of editors and words, every   *)
(* number of rooms and every choice of events but changes of access        *)
(* (RoomsImplementPage!ImplementsPage).  First, what the abstract page is  *)
(* in the situations a step can start from.                                *)
(***************************************************************************)
\* While a room is being built there is no editing session.
LEMMA ClosedWhileBuilding ==
  ASSUME TypeOK, Structure, NEW e \in Editors, pc[e] \in Builders
  PROVE  ~InMemory /\ PageDoc = {} /\ sweep.evicted = 0
<1>1. sweep.evicted = 0
  BY EditorsAssumption DEF Structure, LockMatchesHolder, SweepHoldsTheRoom
<1>2. live = 0 \/ Filling
  BY DEF Structure, OneRoomAtATime, Builders, Filling
<1> QED
  BY <1>1, <1>2 DEF InMemory, PageDoc

\* The room the sweep is working on is the page's document.
LEMMA SweepHoldsTheDoc ==
  ASSUME TypeOK, Structure, sweep.pc \in {"encoding"} \cup Saving
  PROVE  InMemory /\ PageDoc = content[sweep.room]
<1>1. ~Filling
  BY EditorsAssumption DEF Structure, LockMatchesHolder, Builders, Saving, Filling
<1> QED
  BY <1>1 DEF Structure, SweepHoldsTheRoom, InMemory, PageDoc

\* The server starts as a page nobody edits.
LEMMA PageInit == Init => P!Init
  BY DEF Init, P!Init, InMemory, PageDoc, Asleep

\* A step that leaves alone what the page is made of.
LEMMA Stutters ==
  ASSUME UNCHANGED <<stored, live, content, sweep>>, Filling' = Filling
  PROVE  UNCHANGED P!vars
  BY DEF P!vars, InMemory, PageDoc

\* Every step of the rooms is a step of the page, or leaves it alone.
LEMMA PageNext ==
  ASSUME "access" \notin Events, TypeOK, Structure, TypeOK', Structure', Coverage, [Next]_vars
  PROVE  [P!Next]_P!vars
<1> USE DEF access, database, registry, session, browser
<1>1. ASSUME NEW e \in Editors, Authorise(e) PROVE UNCHANGED P!vars
  BY <1>1, Stutters DEF Authorise, Filling, TypeOK
<1>2. ASSUME NEW e \in Editors, OpenLive(e) PROVE UNCHANGED P!vars
  BY <1>2, Stutters DEF OpenLive, Filling, TypeOK
<1>3. ASSUME NEW e \in Editors, StartBuilding(e) PROVE UNCHANGED P!vars
  BY <1>3, Stutters DEF StartBuilding, Filling, TypeOK
<1>4. ASSUME NEW e \in Editors, ReadState(e) PROVE UNCHANGED P!vars
  BY <1>4, Stutters DEF ReadState, Filling, TypeOK
<1>5. ASSUME NEW e \in Editors, SeedRoom(e) PROVE P!Open
  <2>1. ~InMemory
    BY <1>5, ClosedWhileBuilding DEF SeedRoom, Builders
  <2>2. stored = {} /\ stored' = {}
    BY <1>5 DEF SeedRoom, Coverage, WorkCoversStored
  <2>3. ~Filling'
    BY <1>5, EditorsAssumption DEF SeedRoom, Structure, LockMatchesHolder, Builders, Filling, TypeOK
  <2>4. live' # 0
    BY <1>5, BoundsAssumption DEF SeedRoom, TypeOK
  <2>5. InMemory' /\ PageDoc' = content'[live']
    BY <2>3, <2>4 DEF InMemory, PageDoc
  <2>6. content'[live'] \in SUBSET Items
    BY <2>4, BoundsAssumption DEF TypeOK, Rooms
  <2> QED
    BY <2>1, <2>2, <2>5, <2>6 DEF P!Open
<1>6. ASSUME NEW e \in Editors, EmptyRoom(e) PROVE UNCHANGED P!vars
  <2>1. ~InMemory /\ PageDoc = {} /\ sweep.evicted = 0
    BY <1>6, ClosedWhileBuilding DEF EmptyRoom, Builders
  <2>2. Filling' /\ sweep' = sweep /\ stored' = stored
    BY <1>6 DEF EmptyRoom, Filling, TypeOK
  <2>3. InMemory' = InMemory /\ PageDoc' = {}
    BY <2>1, <2>2 DEF InMemory, PageDoc
  <2> QED
    BY <2>1, <2>2, <2>3 DEF P!vars
<1>7. ASSUME NEW e \in Editors, FillRoom(e) PROVE P!Open
  <2>1. ~InMemory /\ sweep.evicted = 0
    BY <1>7, ClosedWhileBuilding DEF FillRoom, Builders
  <2>2. room[e] = live /\ live # 0 /\ live' = live /\ content[live] = {}
    BY <1>7 DEF FillRoom, Structure, OneRoomAtATime
  <2>3. content'[live'] = got[e]
    BY <1>7, <2>2, BoundsAssumption DEF FillRoom, TypeOK, Rooms
  <2>4. ~Filling'
    BY <1>7, EditorsAssumption DEF FillRoom, Structure, LockMatchesHolder, Builders, Filling, TypeOK
  <2>5. InMemory' /\ PageDoc' = got[e]
    BY <2>2, <2>3, <2>4 DEF InMemory, PageDoc
  <2>6. stored' = stored /\ stored \in {{}, got[e]} /\ got[e] \in SUBSET Items
    BY <1>7 DEF FillRoom, Coverage, WorkCoversStored, TypeOK
  <2> QED
    BY <2>1, <2>5, <2>6 DEF P!Open
<1>8. ASSUME NEW e \in Editors, FillFails(e) PROVE UNCHANGED P!vars
  <2>1. ~InMemory /\ PageDoc = {} /\ sweep.evicted = 0
    BY <1>8, ClosedWhileBuilding DEF FillFails, Builders
  <2>2. live' = 0 /\ sweep' = sweep /\ stored' = stored
    BY <1>8 DEF FillFails
  <2>3. InMemory' = InMemory /\ PageDoc' = {}
    BY <2>1, <2>2 DEF InMemory, PageDoc
  <2> QED
    BY <2>1, <2>2, <2>3 DEF P!vars
<1>9. ASSUME NEW e \in Editors, AbandonJoin(e) PROVE UNCHANGED P!vars
  BY <1>9, Stutters DEF AbandonJoin, Filling, TypeOK
<1>10. ASSUME NEW e \in Editors, CheckCap(e) PROVE UNCHANGED P!vars
  BY <1>10, Stutters DEF CheckCap, Filling, TypeOK
<1>11. ASSUME NEW e \in Editors, Subscribe(e) PROVE UNCHANGED P!vars
  BY <1>11, Stutters DEF Subscribe, Filling, TypeOK
<1>12. ASSUME NEW e \in Editors, Apply(e) PROVE P!Edit \/ UNCHANGED P!vars
  <2>1. Filling' = Filling /\ UNCHANGED <<stored, live, sweep>>
    BY <1>12 DEF Apply, Filling, TypeOK
  <2>2. \A r \in Rooms : content[r] \subseteq content'[r] /\ content'[r] \in SUBSET Items
    BY <1>12 DEF Apply, TypeOK
  <2>3. CASE InMemory
    <3> DEFINE r == IF live # 0 /\ ~Filling THEN live ELSE sweep.evicted
    <3>1. r \in Rooms
      <4>1. live \in 0 .. MaxRooms /\ sweep.evicted \in 0 .. MaxRooms
        BY DEF TypeOK
      <4>2. CASE live # 0 /\ ~Filling
        BY <4>1, <4>2, BoundsAssumption DEF Rooms
      <4>3. CASE ~(live # 0 /\ ~Filling)
        BY <2>3, <4>1, <4>3, BoundsAssumption DEF InMemory, Rooms
      <4> QED
        BY <4>2, <4>3
    <3>2. PageDoc = content[r] /\ PageDoc' = content'[r]
      BY <2>1, <2>3 DEF InMemory, PageDoc
    <3>3. InMemory'
      BY <2>1, <2>3 DEF InMemory
    <3> HIDE DEF r
    <3> QED
      BY <2>1, <2>2, <2>3, <3>1, <3>2, <3>3 DEF P!Edit
  <2>4. CASE ~InMemory
    <3>1. InMemory' = InMemory /\ PageDoc = {} /\ PageDoc' = {}
      BY <2>1, <2>4 DEF InMemory, PageDoc
    <3> QED
      BY <2>1, <2>4, <3>1 DEF P!vars
  <2> QED
    BY <2>3, <2>4
<1>13. ASSUME NEW e \in Editors, Wrote(e) PROVE UNCHANGED P!vars
  BY <1>13, Stutters DEF Wrote, Filling, TypeOK
<1>14. ASSUME NEW e \in Editors, Receive(e) \/ CloseTab(e) \/ (\E w \in Words : Type(e, w))
       PROVE  UNCHANGED P!vars
  BY <1>14, Stutters DEF Receive, CloseTab, Type, Filling
<1>15. ASSUME NEW e \in Editors, Leave(e) PROVE UNCHANGED P!vars
  BY <1>15, Stutters DEF Leave, Filling, TypeOK
<1>16. ASSUME EvictIdle PROVE UNCHANGED P!vars
  <2>1. ~Filling /\ Filling' = Filling
    BY <1>16, EditorsAssumption DEF EvictIdle, Structure, LockMatchesHolder, Builders, Filling
  <2>2. sweep.evicted = 0 /\ UNCHANGED <<stored, content>>
    BY <1>16 DEF EvictIdle, Structure, SweepHoldsTheRoom
  <2>3. \/ live # 0 /\ sweep'.evicted = live /\ live' = 0
        \/ sweep'.evicted = sweep.evicted /\ live' = live
    BY <1>16 DEF EvictIdle, TypeOK
  <2>4. InMemory' = InMemory /\ PageDoc' = PageDoc
    BY <2>1, <2>2, <2>3 DEF InMemory, PageDoc
  <2> QED
    BY <2>2, <2>4 DEF P!vars
<1>17. ASSUME List \/ Encode \/ Compare \/ AuthoriseSave \/ MarkSaved \/ PersistFails
       PROVE  UNCHANGED P!vars
  <2>1. UNCHANGED <<stored, live, content, pc>>
    BY <1>17 DEF List, Encode, Compare, AuthoriseSave, MarkSaved, PersistFails
  <2>2. sweep'.evicted = sweep.evicted
    <3>1. CASE List
      BY <3>1 DEF List, TypeOK
    <3>2. CASE Encode \/ Compare \/ AuthoriseSave \/ MarkSaved \/ PersistFails
      BY <3>2 DEF Encode, Compare, AuthoriseSave, MarkSaved, PersistFails, TypeOK
    <3> QED
      BY <1>17, <3>1, <3>2
  <2> QED
    BY <2>1, <2>2 DEF P!vars, InMemory, PageDoc, Filling
<1>18. ASSUME WriteState PROVE P!Save
  <2>1. InMemory /\ PageDoc = content[sweep.room]
    BY <1>18, SweepHoldsTheDoc DEF WriteState, Saving
  <2>2. stored' \in SUBSET PageDoc /\ stored \subseteq stored'
    BY <1>18, <2>1 DEF WriteState, Coverage, WorkCoversStored, Saving
  <2>3. UNCHANGED <<live, content, pc>> /\ sweep'.evicted = sweep.evicted
    BY <1>18 DEF WriteState, TypeOK
  <2>4. UNCHANGED <<InMemory, PageDoc>>
    BY <2>3 DEF InMemory, PageDoc, Filling
  <2> QED
    BY <2>1, <2>2, <2>4 DEF P!Save
<1>19. ASSUME CloseEvicted PROVE P!Close \/ UNCHANGED P!vars
  <2>1. UNCHANGED <<stored, live, content, pc>> /\ sweep'.evicted = 0
    BY <1>19 DEF CloseEvicted, Asleep
  <2>2. CASE sweep.evicted = 0
    BY <2>1, <2>2 DEF P!vars, InMemory, PageDoc, Filling
  <2>3. CASE sweep.evicted # 0
    <3>1. live = 0
      BY <2>3 DEF Structure, SweepHoldsTheRoom
    <3>2. InMemory /\ InMemory' = FALSE /\ PageDoc' = {}
      BY <2>1, <2>3, <3>1 DEF InMemory, PageDoc
    <3> QED
      BY <2>1, <3>2 DEF P!Close
  <2> QED
    BY <2>2, <2>3
<1>20. ASSUME GraceElapses \/ Publish
              \/ (\E e \in Editors, old \in revisions : RestoreRevision(e, old))
              \/ AbandonRestore
              \/ UNCHANGED vars
       PROVE  UNCHANGED P!vars
  <2>1. UNCHANGED <<stored, live, content, sweep, pc>>
    BY <1>20 DEF GraceElapses, Publish, PublishAuthorise, PublishSnapshot, PublishWrite,
       RestoreRevision, AbandonRestore, vars
  <2> QED
    BY <2>1 DEF P!vars, InMemory, PageDoc, Filling
<1>21. ASSUME ClearState PROVE P!Forget
  <2>1. UNCHANGED <<live, content, sweep, pc>> /\ stored' = {}
    BY <1>21 DEF ClearState
  <2>2. UNCHANGED <<InMemory, PageDoc>>
    BY <2>1 DEF InMemory, PageDoc, Filling
  <2> QED
    BY <2>1, <2>2 DEF P!Forget
<1>22. ASSUME Crash PROVE P!Close \/ UNCHANGED P!vars
  <2>1. live' = 0 /\ sweep'.evicted = 0 /\ stored' = stored
    BY <1>22 DEF Crash, Asleep
  <2>2. InMemory' = FALSE /\ PageDoc' = {}
    BY <2>1 DEF InMemory, PageDoc
  <2>3. InMemory \/ (InMemory = FALSE /\ PageDoc = {})
    BY DEF InMemory, PageDoc
  <2> QED
    BY <2>1, <2>2, <2>3 DEF P!Close, P!vars
<1>23. ASSUME NEW e \in Editors, NEW p \in Perms PROVE ~ChangeAccess(e, p)
  BY DEF ChangeAccess
<1> QED
  BY <1>1, <1>2, <1>3, <1>4, <1>5, <1>6, <1>7, <1>8, <1>9, <1>10, <1>11, <1>12, <1>13, <1>14,
     <1>15, <1>16, <1>17, <1>18, <1>19, <1>20, <1>21, <1>22, <1>23
  DEF Next, Join, Session, Sweep, Restore, P!Next

\* The rooms implement the abstract page: one editing session at a time, begun from all
\* that is kept, keeping only what the session said, and giving up nothing that is kept
\* but by a restore -- as long as nobody loses access in the middle of a join.
THEOREM RoomsImplementThePage ==
  ASSUME "access" \notin Events
  PROVE  Spec => ImplementsPage
<1>1. Init => P!Init
  BY PageInit
<1>2. /\ TypeOK /\ Structure /\ EverybodyWrites /\ Coverage
      /\ (TypeOK /\ Structure /\ EverybodyWrites /\ Coverage)'
      /\ [Next]_vars
      => [P!Next]_P!vars
  BY PageNext
<1> QED
  BY <1>1, <1>2, InductiveCoverage, PTL DEF Spec, ImplementsPage, P!Spec

-----------------------------------------------------------------------------
(* Which edits can be lost: no edit is, but at the moments EditLoss names, *)
(* whatever happens: crashes, refused and failed writes, restores, changes *)
(* of access, browsers that come back.  Explained rests on TypeOK and      *)
(* Structure; it does not need Coverage, which a change of access disturbs.*)

\* What a step adds to the edits that were exposed.
Recorded ==
  /\ exposed \subseteq exposed'
  /\ \A e \in Editors :
       pc[e] # "applied" /\ pc'[e] = "applied" /\ (BeingPersisted(room[e]) \/ room[e] # live)
         => Edits(content'[room[e]] \ content[room[e]]) \subseteq exposed'
  /\ GivesUp => Edits(content[sweep.evicted]) \subseteq exposed'
  /\ SeedsOver \/ ClearState => Edits(stored) \subseteq exposed'
  /\ Crash => Edits(Unwritten) \subseteq exposed'

LEMMA StepsAreRecorded == NextLoss => Recorded
<1> SUFFICES ASSUME NextLoss PROVE Recorded
  OBVIOUS
<1> DEFINE applied == UNION {ExposedBy(e) : e \in Editors}
           dropped == IF GivesUp THEN content[sweep.evicted] ELSE {}
           over    == IF SeedsOver \/ ClearState THEN stored ELSE {}
           dead    == IF Crash THEN Unwritten ELSE {}
<1>1. exposed' = exposed \cup Edits(applied \cup dropped \cup over \cup dead)
  BY DEF NextLoss
<1>2. \A e \in Editors : ExposedBy(e) \subseteq applied
  OBVIOUS
<1>3. \A e \in Editors :
        pc[e] # "applied" /\ pc'[e] = "applied" /\ (BeingPersisted(room[e]) \/ room[e] # live)
          => Edits(content'[room[e]] \ content[room[e]]) \subseteq exposed'
  <2> SUFFICES ASSUME NEW e \in Editors, pc[e] # "applied", pc'[e] = "applied",
                      BeingPersisted(room[e]) \/ room[e] # live
               PROVE  Edits(content'[room[e]] \ content[room[e]]) \subseteq exposed'
    OBVIOUS
  <2>1. ExposedBy(e) = content'[room[e]] \ content[room[e]]
    BY DEF ExposedBy
  <2> HIDE DEF applied, dropped, over, dead
  <2> QED
    BY <1>1, <1>2, <2>1 DEF Edits
<1>4. GivesUp => Edits(content[sweep.evicted]) \subseteq exposed'
  <2>1. GivesUp => content[sweep.evicted] = dropped
    OBVIOUS
  <2> HIDE DEF applied, dropped, over, dead
  <2> QED
    BY <1>1, <2>1 DEF Edits
<1>5. SeedsOver \/ ClearState => Edits(stored) \subseteq exposed'
  <2>1. SeedsOver \/ ClearState => stored = over
    OBVIOUS
  <2> HIDE DEF applied, dropped, over, dead
  <2> QED
    BY <1>1, <2>1 DEF Edits
<1>6. Crash => Edits(Unwritten) \subseteq exposed'
  <2>1. Crash => Unwritten = dead
    OBVIOUS
  <2> HIDE DEF applied, dropped, over, dead
  <2> QED
    BY <1>1, <2>1 DEF Edits
<1> QED
  BY <1>1, <1>3, <1>4, <1>5, <1>6 DEF Recorded

\* LossIsExplained, room by room.
LEMMA Room ==
  ASSUME LossIsExplained, NEW r \in Rooms
  PROVE  Edits(content[r]) \subseteq Held \cup exposed
  BY DEF LossIsExplained, Accepted, Edits

LEMMA AllRooms ==
  ASSUME \A r \in Rooms : Edits(content[r]) \subseteq Held \cup exposed
  PROVE  LossIsExplained
  BY DEF LossIsExplained, Accepted, Edits

-----------------------------------------------------------------------------
(* Steps that leave the row, the rooms and the sweep alone.                *)

LEMMA SessionsMove ==
  ASSUME Explained, exposed \subseteq exposed',
         UNCHANGED <<stored, live, content, book, sweep>>,
         \A e \in Editors :
           /\ pc'[e] = "filling" <=> pc[e] = "filling"
           /\ pc'[e] = "applied" <=> pc[e] = "applied"
           /\ pc'[e] = "read" => pc[e] = "read"
           /\ got'[e] \in {got[e], {}} /\ (pc[e] = "filling" => got'[e] = got[e])
           /\ pc[e] = "applied" => room'[e] = room[e]
  PROVE  Explained'
<1>1. LossIsExplained'
  BY DEF Explained, LossIsExplained, Accepted, Held
<1>2. RowIsCarried'
  BY DEF Explained, RowIsCarried
<1>3. CopiesAreSettled'
  BY DEF Explained, CopiesAreSettled, Settled, Edits
<1>4. EncodedIsTheRoom'
  BY DEF Explained, EncodedIsTheRoom
<1>5. UnmarkedIsSettled'
  BY DEF Explained, UnmarkedIsSettled, Settled
<1> QED
  BY <1>1, <1>2, <1>3, <1>4, <1>5 DEF Explained

LEMMA QuietSteps ==
  ASSUME TypeOK, Structure, Explained, exposed \subseteq exposed',
         \/ UNCHANGED vars
         \/ \E e \in Editors :
              \/ Authorise(e) \/ OpenLive(e) \/ StartBuilding(e) \/ AbandonJoin(e) \/ CheckCap(e)
              \/ Subscribe(e) \/ Receive(e) \/ Leave(e) \/ CloseTab(e)
              \/ \E w \in Words : Type(e, w)
              \/ \E p \in Perms : ChangeAccess(e, p)
         \/ GraceElapses \/ Publish
         \/ (\E e \in Editors, old \in revisions : RestoreRevision(e, old)) \/ AbandonRestore
  PROVE  Explained'
<1> USE DEF access, database, registry, session, browser
<1> DEFINE Still ==
         \A e \in Editors :
           /\ pc'[e] = "filling" <=> pc[e] = "filling"
           /\ pc'[e] = "applied" <=> pc[e] = "applied"
           /\ pc'[e] = "read" => pc[e] = "read"
           /\ got'[e] \in {got[e], {}} /\ (pc[e] = "filling" => got'[e] = got[e])
           /\ pc[e] = "applied" => room'[e] = room[e]
<1>1. UNCHANGED <<stored, live, content, book, sweep>>
  <2>1. ASSUME NEW e \in Editors, OpenLive(e) PROVE book' = book
    BY <2>1, EditorsAssumption DEF OpenLive, Opened, Structure, EntryMatchesRoom
  <2> QED
    BY <2>1 DEF vars, Authorise, OpenLive, StartBuilding, AbandonJoin, CheckCap, Subscribe, Receive,
       Leave, CloseTab, Type, ChangeAccess, GraceElapses, Publish, PublishAuthorise, PublishSnapshot,
       PublishWrite, RestoreRevision, AbandonRestore
<1>2. Still
  <2>1. ASSUME NEW e \in Editors,
               \/ Authorise(e) \/ OpenLive(e) \/ StartBuilding(e) \/ AbandonJoin(e) \/ CheckCap(e)
               \/ Subscribe(e) \/ Leave(e)
        PROVE  Still
    BY <2>1 DEF TypeOK, Authorise, OpenLive, StartBuilding, AbandonJoin, CheckCap, Subscribe, Leave
  <2>2. ASSUME UNCHANGED <<pc, room, got>> PROVE Still
    BY <2>2
  <2> QED
    BY <2>1, <2>2 DEF vars, Receive, CloseTab, Type, ChangeAccess, GraceElapses, Publish,
       PublishAuthorise, PublishSnapshot, PublishWrite, RestoreRevision, AbandonRestore
<1> QED
  BY <1>1, <1>2, SessionsMove

-----------------------------------------------------------------------------
(* Building a room.                                                        *)

LEMMA ReadingState ==
  ASSUME TypeOK, Structure, Explained, Recorded, NEW e \in Editors, ReadState(e)
  PROVE  Explained'
<1> USE DEF Recorded, database, registry
<1>1. UNCHANGED <<stored, live, content, book, sweep, room>>
  BY DEF ReadState
<1>2. /\ got' = [got EXCEPT ![e] = got'[e]] /\ got'[e] \in {{}, stored}
      /\ pc' = [pc EXCEPT ![e] = "read"] /\ pc[e] = "reading"
  BY DEF ReadState, TypeOK
<1>3. LossIsExplained'
  BY <1>1 DEF Explained, LossIsExplained, Accepted, Held
<1>4. RowIsCarried'
  BY <1>1, <1>2 DEF Explained, RowIsCarried, TypeOK, Edits
<1>5. CopiesAreSettled'
  BY <1>1, <1>2 DEF Explained, CopiesAreSettled, Settled, Edits, TypeOK
<1>6. EncodedIsTheRoom'
  BY <1>1 DEF Explained, EncodedIsTheRoom
<1>7. UnmarkedIsSettled'
  BY <1>1, <1>2 DEF Explained, UnmarkedIsSettled, Settled, TypeOK
<1> QED
  BY <1>3, <1>4, <1>5, <1>6, <1>7 DEF Explained

\* While a room is being built the sweep is not under way, and has no evicted room.
LEMMA BuildingAlone ==
  ASSUME TypeOK, Structure, NEW e \in Editors, pc[e] \in Builders
  PROVE  /\ sweep.pc = "idle" /\ sweep.evicted = 0 /\ ~book.open
         /\ \A f \in Editors : pc[f] \in Builders => f = e
  BY EditorsAssumption DEF Structure, LockMatchesHolder, OneRoomAtATime, SweepHoldsTheRoom

LEMMA SeedingRoom ==
  ASSUME TypeOK, Structure, Explained, Recorded, NEW e \in Editors, SeedRoom(e)
  PROVE  Explained'
<1> USE DEF Recorded, database, registry
<1>1. /\ UNCHANGED <<stored, sweep, got>> /\ built < MaxRooms /\ built' = built + 1 /\ live' = built'
      /\ live = 0 /\ sweep.pc = "idle" /\ sweep.evicted = 0 /\ built' \in Rooms /\ live' # 0
  BY BuildingAlone, BoundsAssumption DEF SeedRoom, Structure, OneRoomAtATime, Builders, TypeOK, Rooms
<1>2. /\ content' = [content EXCEPT ![live'] = Seed(seen[e], live')]
      /\ book' = [open |-> TRUE, writer |-> Nobody, saved |-> content'[live']]
  BY <1>1, BuildingAlone DEF SeedRoom, Opened, Builders
<1>3. Edits(content'[live']) = {} /\ content[live'] = {}
  BY <1>1, <1>2, BoundsAssumption DEF Edits, Seed, Structure, OneRoomAtATime, TypeOK, Rooms
<1>4. Edits(stored) \subseteq exposed'
  BY DEF SeedRoom, SeedsOver, TypeOK
<1>5. pc' = [pc EXCEPT ![e] = "opened"] /\ pc[e] = "read"
  BY DEF SeedRoom
<1>6. LossIsExplained'
  <2>1. ASSUME NEW r \in Rooms PROVE Edits(content'[r]) \subseteq Held' \cup exposed'
    <3>1. CASE r = live'
      BY <1>3, <3>1
    <3>2. CASE r # live'
      <4>1. content'[r] = content[r] /\ Edits(content[r]) \subseteq Held \cup exposed
        BY <1>1, <1>2, <3>2, Room DEF Explained, TypeOK
      <4>2. Held = stored /\ stored \subseteq Held'
        BY <1>1 DEF Held
      <4> QED
        BY <4>1, <4>2
    <3> QED
      BY <3>1, <3>2
  <2> QED
    BY <2>1 DEF LossIsExplained, Accepted, Edits
<1>7. RowIsCarried'
  BY <1>1, <1>4, <1>5 DEF Explained, RowIsCarried, Saving, TypeOK
<1>8. CopiesAreSettled'
  BY <1>1, <1>2, <1>3 DEF Explained, CopiesAreSettled, Settled, Edits
<1>9. EncodedIsTheRoom'
  BY <1>1 DEF EncodedIsTheRoom, Saving
<1>10. UnmarkedIsSettled'
  BY <1>1, <1>3 DEF UnmarkedIsSettled
<1> QED
  BY <1>6, <1>7, <1>8, <1>9, <1>10 DEF Explained

LEMMA EmptyingRoom ==
  ASSUME TypeOK, Structure, Explained, Recorded, NEW e \in Editors, EmptyRoom(e)
  PROVE  Explained'
<1> USE DEF Recorded, database, registry
<1>1. /\ UNCHANGED <<stored, sweep, got, content, book>> /\ live = 0 /\ live' # 0
      /\ sweep.pc = "idle" /\ sweep.evicted = 0
  BY BuildingAlone, BoundsAssumption DEF EmptyRoom, Structure, OneRoomAtATime, Builders, TypeOK
<1>2. pc' = [pc EXCEPT ![e] = "filling"] /\ pc[e] = "read" /\ got[e] # {} /\ pc'[e] = "filling"
  BY DEF EmptyRoom, TypeOK
<1>3. LossIsExplained'
  BY <1>1 DEF Explained, LossIsExplained, Accepted, Held
<1>4. RowIsCarried'
  BY <1>1, <1>2 DEF Explained, RowIsCarried, Saving, TypeOK
<1>5. CopiesAreSettled'
  BY <1>1 DEF Explained, CopiesAreSettled, Settled, Edits
<1>6. EncodedIsTheRoom'
  BY <1>1 DEF EncodedIsTheRoom, Saving
<1>7. UnmarkedIsSettled'
  BY <1>1, <1>2 DEF UnmarkedIsSettled
<1> QED
  BY <1>3, <1>4, <1>5, <1>6, <1>7 DEF Explained

LEMMA FillingRoom ==
  ASSUME TypeOK, Structure, Explained, Recorded, NEW e \in Editors, FillRoom(e)
  PROVE  Explained'
<1> USE DEF Recorded, database, registry
<1>1. /\ UNCHANGED <<stored, sweep, got, live>> /\ live \in Rooms /\ live # 0 /\ room[e] = live
      /\ sweep.pc = "idle" /\ sweep.evicted = 0 /\ content[live] = {}
  BY BuildingAlone, BoundsAssumption DEF FillRoom, Structure, OneRoomAtATime, Builders, TypeOK, Rooms
<1>2. /\ content' = [content EXCEPT ![live] = got[e]] /\ content'[live] = got[e]
      /\ book' = [open |-> TRUE, writer |-> Nobody, saved |-> got[e]]
  BY <1>1, BuildingAlone DEF FillRoom, Opened, Builders, TypeOK
<1>3. Edits(got[e]) \subseteq Settled
  BY DEF Explained, CopiesAreSettled
<1>4. pc' = [pc EXCEPT ![e] = "opened"] /\ pc[e] = "filling"
  BY DEF FillRoom
<1>5. LossIsExplained'
  BY <1>1, <1>2 DEF Explained, LossIsExplained, Accepted, Held, TypeOK
<1>6. RowIsCarried'
  <2>1. Edits(stored) \subseteq got[e] \cup exposed
    BY <1>4 DEF Explained, RowIsCarried
  <2> QED
    BY <1>1, <1>2, <1>4, <2>1 DEF Explained, RowIsCarried, Saving, TypeOK
<1>7. CopiesAreSettled'
  BY <1>1, <1>2, <1>3 DEF Explained, CopiesAreSettled, Settled, Edits
<1>8. EncodedIsTheRoom'
  BY <1>1 DEF EncodedIsTheRoom, Saving
<1>9. UnmarkedIsSettled'
  BY <1>1, <1>2, <1>3 DEF UnmarkedIsSettled, Settled
<1> QED
  BY <1>5, <1>6, <1>7, <1>8, <1>9 DEF Explained

LEMMA FillingFails ==
  ASSUME TypeOK, Structure, Explained, Recorded, NEW e \in Editors, FillFails(e)
  PROVE  Explained'
<1> USE DEF Recorded, database, registry
<1>1. /\ UNCHANGED <<stored, sweep, content, book>> /\ live' = 0 /\ live # 0 /\ content[live] = {}
      /\ sweep.pc = "idle" /\ sweep.evicted = 0
  BY BuildingAlone DEF FillFails, Structure, OneRoomAtATime, Builders
<1>2. pc' = [pc EXCEPT ![e] = "off"] /\ got' = [got EXCEPT ![e] = {}]
  BY DEF FillFails
<1>3. LossIsExplained'
  BY <1>1 DEF Explained, LossIsExplained, Accepted, Held
<1>4. RowIsCarried'
  BY <1>1, <1>2 DEF Explained, RowIsCarried, Saving, TypeOK
<1>5. CopiesAreSettled'
  BY <1>1, <1>2 DEF Explained, CopiesAreSettled, Settled, Edits, TypeOK
<1>6. EncodedIsTheRoom'
  BY <1>1 DEF EncodedIsTheRoom, Saving
<1>7. UnmarkedIsSettled'
  BY <1>1 DEF UnmarkedIsSettled
<1> QED
  BY <1>3, <1>4, <1>5, <1>6, <1>7 DEF Explained

-----------------------------------------------------------------------------
(* An edit arrives.                                                        *)

\* What is not exposed when it is accepted goes into the live room, which is not being saved.
LEMMA Applying ==
  ASSUME TypeOK, Structure, Explained, Recorded, NEW e \in Editors, Apply(e)
  PROVE  Explained'
<1> USE DEF Recorded, database, registry
<1>1. UNCHANGED <<stored, live, book, sweep, got, room>>
  BY DEF Apply, session
<1>2. pc' = [pc EXCEPT ![e] = "applied"] /\ pc[e] \in {"joined", "live"} /\ pc'[e] = "applied"
  BY DEF Apply, TypeOK
<1>3. room[e] \in Rooms
  BY <1>2, BoundsAssumption DEF Structure, OneRoomAtATime, Subscribed, TypeOK, Rooms
<1>4. /\ content' = [content EXCEPT ![room[e]] = content'[room[e]]]
      /\ content[room[e]] \subseteq content'[room[e]]
  BY <1>3 DEF Apply, TypeOK
<1>5. BeingPersisted(room[e]) \/ room[e] # live
        => Edits(content'[room[e]] \ content[room[e]]) \subseteq exposed'
  BY <1>2 DEF Subscribed
<1>6. \A r \in Rooms : content[r] \subseteq content'[r] /\ (r # room[e] => content'[r] = content[r])
  BY <1>3, <1>4 DEF TypeOK
<1>7. \A r \in Rooms :
        BeingPersisted(r) \/ r # live => Edits(content'[r]) \subseteq Edits(content[r]) \cup exposed'
  BY <1>5, <1>6 DEF Edits
<1>8. /\ live # 0 => live \in Rooms
      /\ sweep.evicted # 0 => sweep.evicted \in Rooms /\ live = 0
      /\ sweep.pc \in Saving => sweep.room \in Rooms /\ BeingPersisted(sweep.room)
  BY BoundsAssumption DEF Structure, SweepHoldsTheRoom, TypeOK, Rooms, Saving, BeingPersisted
<1>9. LossIsExplained'
  <2>1. Held \subseteq Held'
    BY <1>1, <1>6, <1>8 DEF Held
  <2>2. ASSUME NEW r \in Rooms PROVE Edits(content'[r]) \subseteq Held' \cup exposed'
    <3>1. CASE r = live
      BY <1>1, <3>1, BoundsAssumption DEF Held, Edits, Rooms
    <3>2. CASE r # live
      BY <1>7, <2>1, <3>2, Room DEF Explained
    <3> QED
      BY <3>1, <3>2
  <2> QED
    BY <2>2 DEF LossIsExplained, Accepted, Edits
<1>10. RowIsCarried'
  <2>1. \A f \in Editors : /\ pc'[f] = "filling" => pc[f] = "filling"
                           /\ pc'[f] = "read" => pc[f] = "read"
                           /\ pc[f] = "filling" => pc'[f] = "filling"
    BY <1>2 DEF TypeOK
  <2> QED
    BY <1>1, <1>6, <1>8, <2>1 DEF Explained, RowIsCarried
<1>11. CopiesAreSettled'
  BY <1>1 DEF Explained, CopiesAreSettled, Settled
<1>12. EncodedIsTheRoom'
  <2>1. CASE sweep.pc \in Saving
    BY <1>1, <1>6, <1>7, <1>8, <2>1 DEF Explained, EncodedIsTheRoom
  <2>2. CASE sweep.pc \notin Saving
    BY <1>1, <2>2 DEF EncodedIsTheRoom
  <2> QED
    BY <2>1, <2>2
<1>13. UnmarkedIsSettled'
  <2>1. ASSUME live # 0, book.writer = Nobody,
               \A f \in Editors : pc'[f] # "filling" /\ (pc'[f] = "applied" => room[f] # live)
        PROVE  Edits(content'[live]) \subseteq Settled'
    <3>1. room[e] # live
      BY <1>2, <2>1
    <3>2. \A f \in Editors : pc[f] # "filling" /\ (pc[f] = "applied" => room[f] # live)
      BY <1>2, <2>1 DEF TypeOK
    <3>3. content'[live] = content[live]
      BY <1>6, <1>8, <2>1, <3>1
    <3> QED
      BY <1>1, <2>1, <3>2, <3>3 DEF Explained, UnmarkedIsSettled, Settled
  <2>2. ASSUME sweep.evicted # 0,
               sweep.pc = "closing" \/ (sweep.pc = "listing" /\ book.writer = Nobody)
        PROVE  Edits(content'[sweep.evicted]) \subseteq Settled'
    <3>1. Edits(content[sweep.evicted]) \subseteq Settled
      BY <2>2 DEF Explained, UnmarkedIsSettled
    <3>2. Edits(content'[sweep.evicted]) \subseteq Edits(content[sweep.evicted]) \cup exposed'
      BY <1>7, <1>8, <2>2
    <3> QED
      BY <1>1, <3>1, <3>2 DEF Settled
  <2> QED
    BY <1>1, <2>1, <2>2 DEF UnmarkedIsSettled
<1> QED
  BY <1>9, <1>10, <1>11, <1>12, <1>13 DEF Explained

\* The page of a live room has an entry, so that whoever has applied an edit to it is marked.
LEMMA Marking ==
  ASSUME TypeOK, Structure, Explained, Recorded, NEW e \in Editors, Wrote(e)
  PROVE  Explained'
<1> USE DEF Recorded, database, registry
<1>1. UNCHANGED <<stored, live, content, sweep, got, room>>
  BY DEF Wrote, session
<1>2. pc' = [pc EXCEPT ![e] = "live"] /\ pc[e] = "applied"
  BY DEF Wrote
<1>3. book'.saved = book.saved /\ book' = IF book.open THEN [book EXCEPT !.writer = e] ELSE book
  BY DEF Wrote, TypeOK
<1>4. LossIsExplained'
  BY <1>1 DEF Explained, LossIsExplained, Accepted, Held
<1>5. RowIsCarried'
  BY <1>1, <1>2 DEF Explained, RowIsCarried, TypeOK
<1>6. CopiesAreSettled'
  BY <1>1, <1>3 DEF Explained, CopiesAreSettled, Settled
<1>7. EncodedIsTheRoom'
  BY <1>1 DEF Explained, EncodedIsTheRoom
<1>8. UnmarkedIsSettled'
  <2>1. CASE book.open
    <3>1. book'.writer # Nobody
      BY <1>3, <2>1, EditorsAssumption DEF TypeOK
    <3> QED
      BY <1>1, <3>1 DEF Explained, UnmarkedIsSettled, Settled
  <2>2. CASE ~book.open
    <3>1. live = 0 \/ \E f \in Editors : pc[f] = "filling"
      BY <2>2 DEF Structure, LockMatchesHolder, EntryMatchesRoom, OneRoomAtATime, Builders
    <3>2. live = 0 \/ \E f \in Editors : pc'[f] = "filling"
      BY <1>2, <3>1 DEF TypeOK
    <3>3. book' = book
      BY <1>3, <2>2
    <3> QED
      BY <1>1, <3>2, <3>3 DEF Explained, UnmarkedIsSettled, Settled
  <2> QED
    BY <2>1, <2>2
<1> QED
  BY <1>4, <1>5, <1>6, <1>7, <1>8 DEF Explained

-----------------------------------------------------------------------------
(* The sweep.                                                              *)

\* A step of the sweep that only moves it on.
LEMMA SweepMovesOn ==
  ASSUME TypeOK, Structure, Explained, Recorded,
         UNCHANGED <<stored, live, content, book, pc, room, got>>,
         sweep'.evicted = sweep.evicted,
         sweep'.pc \in Saving =>
           /\ sweep.pc \in Saving /\ sweep'.room = sweep.room /\ sweep'.encoded = sweep.encoded
           /\ sweep'.pc # "marking",
         sweep'.pc # "listing",
         sweep'.pc = "closing" /\ sweep.evicted # 0 =>
           \/ Edits(content[sweep.evicted]) \subseteq Settled
           \/ Edits(content[sweep.evicted]) \subseteq exposed'
  PROVE  Explained'
<1>1. LossIsExplained'
  BY DEF Recorded, Explained, LossIsExplained, Accepted, Held
<1>2. RowIsCarried'
  BY DEF Recorded, Explained, RowIsCarried
<1>3. CopiesAreSettled'
  BY DEF Recorded, Explained, CopiesAreSettled, Settled, Saving
<1>4. EncodedIsTheRoom'
  BY DEF Recorded, Explained, EncodedIsTheRoom
<1>5. UnmarkedIsSettled'
  BY DEF Recorded, Explained, UnmarkedIsSettled, Settled
<1> QED
  BY <1>1, <1>2, <1>3, <1>4, <1>5 DEF Explained

LEMMA Evicting ==
  ASSUME TypeOK, Structure, Explained, Recorded, EvictIdle
  PROVE  Explained'
<1> USE DEF Recorded, database, session
<1>1. /\ UNCHANGED <<stored, content, book, pc, room, got>>
      /\ sweep.pc = "idle" /\ sweep.evicted = 0 /\ sweep'.pc = "listing"
      /\ \A e \in Editors : pc[e] \notin Builders
  BY EditorsAssumption DEF EvictIdle, Structure, LockMatchesHolder, SweepHoldsTheRoom, TypeOK
<1>2. \/ /\ live # 0 /\ Subscribers(live) = {} /\ live' = 0 /\ sweep'.evicted = live
      \/ live' = live /\ sweep'.evicted = 0
  BY <1>1 DEF EvictIdle, TypeOK
<1>3. \A e \in Editors : pc[e] # "filling"
  BY <1>1 DEF Builders
<1>4. LossIsExplained'
  BY <1>1, <1>2 DEF Explained, LossIsExplained, Accepted, Held
<1>5. RowIsCarried'
  BY <1>1, <1>2, <1>3 DEF Explained, RowIsCarried, Saving
<1>6. CopiesAreSettled'
  BY <1>1 DEF Explained, CopiesAreSettled, Settled
<1>7. EncodedIsTheRoom'
  BY <1>1 DEF EncodedIsTheRoom, Saving
<1>8. UnmarkedIsSettled'
  <2>1. CASE live # 0 /\ Subscribers(live) = {} /\ live' = 0 /\ sweep'.evicted = live
    <3>1. \A e \in Editors : pc[e] = "applied" => room[e] # live
      BY <2>1 DEF Subscribers, Subscribed
    <3> QED
      BY <1>1, <1>3, <2>1, <3>1 DEF Explained, UnmarkedIsSettled, Settled
  <2>2. CASE live' = live /\ sweep'.evicted = 0
    BY <1>1, <2>2 DEF Explained, UnmarkedIsSettled, Settled
  <2> QED
    BY <1>2, <2>1, <2>2
<1> QED
  BY <1>4, <1>5, <1>6, <1>7, <1>8 DEF Explained

\* The list, a save that is refused, one that fails.
LEMMA PassingOver ==
  ASSUME TypeOK, Structure, Explained, Recorded, List \/ AuthoriseSave \/ PersistFails
  PROVE  Explained'
<1> USE DEF database, registry, session
<1>1. UNCHANGED <<stored, live, content, book, pc, room, got>> /\ sweep'.evicted = sweep.evicted
  BY DEF List, AuthoriseSave, PersistFails, TypeOK
<1>2. CASE List
  <2>1. sweep.pc = "listing" /\ sweep'.pc \in {"encoding", "closing"}
    BY <1>2 DEF List, TypeOK
  <2>2. sweep'.pc = "closing" /\ sweep.evicted # 0 => Edits(content[sweep.evicted]) \subseteq Settled
    BY <1>2 DEF List, TypeOK, Explained, UnmarkedIsSettled
  <2> QED
    BY <1>1, <2>1, <2>2, SweepMovesOn DEF Saving
<1>3. CASE AuthoriseSave \/ PersistFails
  <2>1. /\ sweep.pc \in {"authorising", "writing"} /\ sweep'.pc \in {"writing", "closing"}
        /\ sweep'.room = sweep.room /\ sweep'.encoded = sweep.encoded
    BY <1>3 DEF AuthoriseSave, PersistFails, TypeOK
  <2>2. sweep'.pc = "closing" /\ sweep.evicted # 0 => Edits(content[sweep.evicted]) \subseteq exposed'
    BY <2>1 DEF GivesUp, Recorded
  <2> QED
    BY <1>1, <2>1, <2>2, SweepMovesOn DEF Saving
<1> QED
  BY <1>2, <1>3

LEMMA Encoding ==
  ASSUME TypeOK, Structure, Explained, Recorded, Encode
  PROVE  Explained'
<1> USE DEF Recorded, database, registry, session
<1>1. /\ UNCHANGED <<stored, live, content, book, pc, room, got>>
      /\ sweep'.evicted = sweep.evicted /\ sweep'.room = sweep.room
      /\ sweep'.encoded = content[sweep.room] /\ sweep.pc = "encoding" /\ sweep'.pc = "comparing"
  BY DEF Encode, TypeOK
<1>2. /\ sweep.room # 0 /\ sweep.room = IF sweep.evicted # 0 THEN sweep.evicted ELSE live
      /\ \A e \in Editors : pc[e] # "filling"
  BY <1>1, EditorsAssumption DEF Structure, LockMatchesHolder, SweepHoldsTheRoom, Builders
<1>3. LossIsExplained'
  BY <1>1 DEF Explained, LossIsExplained, Accepted, Held
<1>4. RowIsCarried'
  BY <1>1, <1>2 DEF Explained, RowIsCarried
<1>5. CopiesAreSettled'
  BY <1>1 DEF Explained, CopiesAreSettled, Settled
<1>6. EncodedIsTheRoom'
  BY <1>1 DEF EncodedIsTheRoom, Edits
<1>7. UnmarkedIsSettled'
  BY <1>1 DEF Explained, UnmarkedIsSettled, Settled
<1> QED
  BY <1>3, <1>4, <1>5, <1>6, <1>7 DEF Explained

\* A room that is as it was saved, or has just been: its edits are settled.
LEMMA Comparing ==
  ASSUME TypeOK, Structure, Explained, Recorded, Compare \/ MarkSaved
  PROVE  Explained'
<1> USE DEF Recorded, database, registry, session
<1>1. /\ UNCHANGED <<stored, live, content, pc, room, got>> /\ sweep'.evicted = sweep.evicted
      /\ sweep'.room = sweep.room /\ sweep'.encoded = sweep.encoded
      /\ sweep.pc \in Saving /\ sweep'.pc \in {"authorising", "closing"}
  BY DEF Compare, MarkSaved, TypeOK, Saving
<1>2. /\ sweep.room = IF sweep.evicted # 0 THEN sweep.evicted ELSE live
      /\ sweep.evicted # 0 => live = 0
  BY <1>1 DEF Structure, SweepHoldsTheRoom
<1>3. book'.saved \in {book.saved, sweep.encoded}
  BY DEF Compare, MarkSaved, TypeOK
<1>4. CASE sweep'.pc = "authorising"
  <2>1. book' = book
    BY <1>4 DEF Compare, MarkSaved, TypeOK
  <2> QED
    BY <1>1, <1>4, <2>1, SweepMovesOn DEF Saving
<1>5. CASE sweep'.pc = "closing"
  <2>1. Edits(sweep.encoded) \subseteq Settled
    BY <1>5 DEF Compare, MarkSaved, TypeOK, Explained, CopiesAreSettled
  <2>2. Edits(content[sweep.room]) \subseteq Settled
    BY <1>1, <2>1 DEF Explained, EncodedIsTheRoom, Settled, Edits
  <2>3. LossIsExplained'
    BY <1>1 DEF Explained, LossIsExplained, Accepted, Held
  <2>4. RowIsCarried'
    BY <1>1, <1>5 DEF Explained, RowIsCarried, Saving
  <2>5. CopiesAreSettled'
    BY <1>1, <1>3, <1>5, <2>1 DEF Explained, CopiesAreSettled, Settled
  <2>6. EncodedIsTheRoom'
    BY <1>5 DEF EncodedIsTheRoom, Saving
  <2>7. UnmarkedIsSettled'
    BY <1>1, <1>2, <1>5, <2>2 DEF UnmarkedIsSettled, Settled
  <2> QED
    BY <2>3, <2>4, <2>5, <2>6, <2>7 DEF Explained
<1> QED
  BY <1>1, <1>4, <1>5

\* The save puts nothing away that is not exposed.
LEMMA Writing ==
  ASSUME TypeOK, Structure, Explained, Recorded, WriteState
  PROVE  Explained'
<1> USE DEF Recorded, registry, session
<1>1. /\ UNCHANGED <<live, content, book, pc, room, got>> /\ sweep'.evicted = sweep.evicted
      /\ sweep'.room = sweep.room /\ sweep'.encoded = sweep.encoded /\ stored' = sweep.encoded
      /\ sweep.pc = "writing" /\ sweep'.pc = "marking" /\ sweep.pc \in Saving
  BY DEF WriteState, TypeOK, Saving
<1>2. /\ sweep.room = IF sweep.evicted # 0 THEN sweep.evicted ELSE live
      /\ sweep.evicted # 0 => live = 0
      /\ \A e \in Editors : pc[e] \notin Builders
  BY <1>1, EditorsAssumption DEF Structure, LockMatchesHolder, SweepHoldsTheRoom
<1>3. /\ Edits(stored) \subseteq sweep.encoded \cup exposed
      /\ sweep.encoded \subseteq content[sweep.room]
  BY <1>1 DEF Explained, RowIsCarried, EncodedIsTheRoom
<1>4. \A S : Edits(S) \subseteq Settled => Edits(S) \subseteq Settled'
  BY <1>1, <1>3 DEF Settled, Edits
<1>5. LossIsExplained'
  <2>1. Edits(stored) \subseteq Held' \cup exposed'
    BY <1>1, <1>3 DEF Held
  <2>2. Held \ stored \subseteq Held'
    BY <1>1 DEF Held
  <2>3. ASSUME NEW r \in Rooms PROVE Edits(content'[r]) \subseteq Held' \cup exposed'
    BY <1>1, <2>1, <2>2, Room DEF Explained, Edits
  <2> QED
    BY <2>3 DEF LossIsExplained, Accepted, Edits
<1>6. RowIsCarried'
  BY <1>1, <1>2, <1>3 DEF RowIsCarried, Builders, Edits
<1>7. CopiesAreSettled'
  <2>1. Edits(sweep.encoded) \subseteq Settled'
    BY <1>1 DEF Settled, Edits
  <2> QED
    BY <1>1, <1>4, <2>1 DEF Explained, CopiesAreSettled
<1>8. EncodedIsTheRoom'
  BY <1>1 DEF Explained, EncodedIsTheRoom
<1>9. UnmarkedIsSettled'
  BY <1>1, <1>4 DEF Explained, UnmarkedIsSettled
<1> QED
  BY <1>5, <1>6, <1>7, <1>8, <1>9 DEF Explained

LEMMA Closing ==
  ASSUME TypeOK, Structure, Explained, Recorded, CloseEvicted
  PROVE  Explained'
<1> USE DEF Recorded, database, registry, session
<1>1. /\ UNCHANGED <<stored, live, content, pc, room, got>> /\ sweep.pc = "closing"
      /\ sweep'.pc = "idle" /\ sweep'.evicted = 0
      /\ book' = IF sweep.evicted # 0 THEN NoEntry ELSE book
  BY DEF CloseEvicted, Asleep
<1>2. /\ sweep.evicted # 0 => live = 0
      /\ sweep.evicted # 0 => Edits(content[sweep.evicted]) \subseteq Settled
  BY <1>1 DEF Structure, SweepHoldsTheRoom, Explained, UnmarkedIsSettled
<1>3. LossIsExplained'
  BY <1>1, <1>2 DEF Explained, LossIsExplained, Accepted, Held, Settled, Edits
<1>4. RowIsCarried'
  BY <1>1 DEF Explained, RowIsCarried, Saving
<1>5. CopiesAreSettled'
  BY <1>1 DEF Explained, CopiesAreSettled, Settled, Edits, NoEntry
<1>6. EncodedIsTheRoom'
  BY <1>1 DEF EncodedIsTheRoom, Saving
<1>7. UnmarkedIsSettled'
  BY <1>1, <1>2 DEF Explained, UnmarkedIsSettled, Settled
<1> QED
  BY <1>3, <1>4, <1>5, <1>6, <1>7 DEF Explained

-----------------------------------------------------------------------------
(* What discards work: a restore, and the end of the process.              *)

LEMMA Clearing ==
  ASSUME TypeOK, Structure, Explained, Recorded, ClearState
  PROVE  Explained'
<1> USE DEF Recorded, registry, session
<1>1. UNCHANGED <<live, content, book, pc, room, got, sweep>> /\ stored' = {}
  BY DEF ClearState
<1>2. Edits(stored) \subseteq exposed' /\ exposed \subseteq exposed'
  OBVIOUS
<1>3. \A S : Edits(S) \subseteq Settled => Edits(S) \subseteq Settled'
  BY <1>2 DEF Settled, Edits
<1>4. LossIsExplained'
  BY <1>1, <1>2 DEF Explained, LossIsExplained, Accepted, Held, Edits
<1>5. RowIsCarried'
  BY <1>1 DEF RowIsCarried, Edits
<1>6. CopiesAreSettled'
  BY <1>1, <1>3 DEF Explained, CopiesAreSettled
<1>7. EncodedIsTheRoom'
  BY <1>1, <1>2 DEF Explained, EncodedIsTheRoom
<1>8. UnmarkedIsSettled'
  BY <1>1, <1>3 DEF Explained, UnmarkedIsSettled
<1> QED
  BY <1>4, <1>5, <1>6, <1>7, <1>8 DEF Explained

LEMMA Crashing ==
  ASSUME TypeOK, Structure, Explained, Recorded, Crash
  PROVE  Explained'
<1> USE DEF Recorded, database
<1>1. /\ UNCHANGED <<stored, content>> /\ live' = 0 /\ book' = NoEntry /\ sweep' = Asleep
      /\ \A e \in Editors : pc'[e] = "off" /\ got'[e] = {}
  BY DEF Crash
<1>2. Edits(Unwritten) \subseteq exposed'
  OBVIOUS
<1>3. LossIsExplained'
  BY <1>1, <1>2 DEF LossIsExplained, Accepted, Held, Edits, Unwritten
<1>4. RowIsCarried'
  BY <1>1 DEF RowIsCarried, Asleep, Saving
<1>5. CopiesAreSettled'
  BY <1>1 DEF CopiesAreSettled, Edits, NoEntry, Asleep
<1>6. EncodedIsTheRoom'
  BY <1>1 DEF EncodedIsTheRoom, Asleep, Saving
<1>7. UnmarkedIsSettled'
  BY <1>1 DEF UnmarkedIsSettled, Asleep
<1> QED
  BY <1>3, <1>4, <1>5, <1>6, <1>7 DEF Explained

-----------------------------------------------------------------------------

\* At first nobody has typed anything.
LEMMA InitExplained == InitLoss => Explained
  BY EditorsAssumption DEF InitLoss, Init, Explained, LossIsExplained, Accepted, RowIsCarried,
     CopiesAreSettled, EncodedIsTheRoom, UnmarkedIsSettled, Edits, NoEntry, Asleep, Saving

LEMMA NextExplained ==
  ASSUME TypeOK, Structure, Explained, [NextLoss]_<<vars, exposed>>
  PROVE  Explained'
<1>1. CASE NextLoss
  <2>1. Recorded /\ exposed \subseteq exposed'
    BY <1>1, StepsAreRecorded DEF Recorded
  <2>2. Next
    BY <1>1 DEF NextLoss
  <2>3. ASSUME NEW e \in Editors, Join(e) \/ Session(e) PROVE Explained'
    BY <2>1, <2>3, QuietSteps, ReadingState, SeedingRoom, EmptyingRoom, FillingRoom, FillingFails,
       Applying, Marking DEF Join, Session
  <2>4. CASE Sweep
    BY <2>1, <2>4, Evicting, PassingOver, Encoding, Comparing, Writing, Closing DEF Sweep
  <2>5. CASE Restore
    BY <2>1, <2>5, QuietSteps, Clearing DEF Restore
  <2> QED
    BY <2>1, <2>2, <2>3, <2>4, <2>5, QuietSteps, Crashing DEF Next
<1>2. CASE UNCHANGED <<vars, exposed>>
  BY <1>2, QuietSteps
<1> QED
  BY <1>1, <1>2

\* Every edit a room ever accepted is in the database, or in a room that is live or being
\* written, unless it was accepted or dropped at one of the moments that EditLoss names:
\* whatever is lost is lost there.
THEOREM LossIsAlwaysExplained == SpecLoss => []LossIsExplained
<1>1. InitLoss => TypeOK /\ Structure /\ Explained
  BY InitType, InitStructure, InitExplained DEF InitLoss
<1>2. TypeOK /\ Structure /\ Explained /\ [NextLoss]_<<vars, exposed>>
        => TypeOK' /\ Structure' /\ Explained'
  <2>1. [NextLoss]_<<vars, exposed>> => [Next]_vars
    BY DEF NextLoss
  <2> QED
    BY <2>1, NextType, NextStructure, NextExplained
<1>3. Explained => LossIsExplained
  BY DEF Explained
<1> QED
  BY <1>1, <1>2, <1>3, PTL DEF SpecLoss
=============================================================================
