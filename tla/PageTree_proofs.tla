-------------------------- MODULE PageTree_proofs --------------------------
(***************************************************************************)
(* Proofs about the tree of pages, for any pages, slugs, people, grants    *)
(* and number of requests.                                                 *)
(***************************************************************************)
EXTENDS PageTree, SequenceTheorems, TLAPS

\* What is known of a request in flight, whatever happened since its checks.
Fits(r) ==
  /\ r.kind \in {"idle", "create", "move", "trash", "restore"}
  /\ r.kind = "idle" => r = Idle
  /\ r.kind = "create" => r.to \in Addresses /\ r.parent = Front(r.to)
  /\ r.kind = "move" =>
       /\ r.page \in Pages /\ r.from \in Addresses /\ r.to \in Addresses
       /\ r.parent = Front(r.to)
  /\ r.kind = "trash" => r.page \in Pages /\ r.from \in Addresses
  /\ r.kind = "restore" => r.page \in Pages

Requests ==
  /\ request = [person \in People |-> request[person]]
  /\ \A person \in People : Fits(request[person])

OnePath == \A a, b \in Ids : a # b => doc[a].path # doc[b].path

Kept == TypeOK /\ Requests /\ OnePath /\ HolesComeFromCreates /\ ForwardsYield

-----------------------------------------------------------------------------
(* Addresses *)

LEMMA FrontType ==
  ASSUME NEW s \in Addresses
  PROVE  Front(s) \in Seq(Slugs) /\ Last(s) \in Slugs
<1>1. Len(s) \in Nat \ {0}
  BY EmptySeq DEF Addresses
<1>2. \A i \in 1..(Len(s) - 1) : s[i] \in Slugs
  BY <1>1, ElementOfSeq DEF Addresses
<1>3. Front(s) \in Seq(Slugs)
  BY <1>1, <1>2, SubSeqProperties DEF Front
<1>4. Last(s) \in Slugs
  BY <1>1, ElementOfSeq DEF Last, Addresses
<1> QED
  BY <1>3, <1>4

LEMMA RenameType ==
  ASSUME NEW from \in Seq(Slugs), NEW to \in Seq(Slugs), NEW s \in Seq(Slugs)
  PROVE  /\ Rename(from, to, s) \in Seq(Slugs)
         /\ to # <<>> => Rename(from, to, s) # <<>>
<1>1. \A i \in (Len(from) + 1)..Len(s) : s[i] \in Slugs
  BY ElementOfSeq, LenProperties
<1>2. SubSeq(s, Len(from) + 1, Len(s)) \in Seq(Slugs)
  BY <1>1, LenProperties, SubSeqProperties
<1> QED
  BY <1>2, ConcatProperties, ConcatEqualIffEmpty DEF Rename

\* An address under another starts with it; what starts with it starts with what it starts with.
LEMMA PrefixOfConcat ==
  ASSUME NEW s \in Seq(Slugs), NEW t \in Seq(Slugs)
  PROVE  IsPrefix(s, s \o t)
  BY LenProperties, ConcatProperties, SubSeqOfConcat1, SubSeqEmpty DEF IsPrefix

LEMMA PrefixTransitive ==
  ASSUME NEW s \in Seq(Slugs), NEW t \in Seq(Slugs), NEW n \in 1..Len(t),
         IsPrefix(s, SubSeq(t, 1, n))
  PROVE  IsPrefix(s, t)
  BY LenProperties, SubSeqProperties, SubSeqOfSubSeq, ElementOfSeq DEF IsPrefix

LEMMA RenameSelf ==
  ASSUME NEW from \in Seq(Slugs), NEW s \in Seq(Slugs), IsPrefix(from, s)
  PROVE  Rename(from, from, s) = s
<1>1. Len(from) \in Nat /\ Len(s) \in Nat /\ Len(from) <= Len(s)
  BY LenProperties DEF IsPrefix
<1>2. 1 \in 1..Len(s) + 1 /\ Len(from) \in 1 - 1..Len(s) /\ Len(s) \in Len(from)..Len(s)
  BY <1>1
<1>3. SubSeq(s, 1, Len(from)) \o SubSeq(s, Len(from) + 1, Len(s)) = SubSeq(s, 1, Len(s))
  BY <1>2, ConcatAdjacentSubSeq
<1> QED
  BY <1>3, SubSeqFull DEF IsPrefix, Rename

\* The same sequences under a name that the provers do not open.
Strings == Seq(Slugs)

LEMMA StringsConcat ==
  ASSUME NEW s \in Strings, NEW t \in Strings
  PROVE  s \o t \in Strings
  BY ConcatProperties DEF Strings

LEMMA StringsAppend ==
  ASSUME NEW s \in Strings, NEW a \in Slugs
  PROVE  Append(s, a) \in Strings
  BY AppendProperties DEF Strings

LEMMA SameAppend ==
  ASSUME NEW s \in Strings, NEW t \in Strings, NEW a \in Slugs, NEW b \in Slugs,
         Append(s, a) = Append(t, b)
  PROVE  s = t /\ a = b
  BY AppendInjective DEF Strings

LEMMA ConcatThenAppend ==
  ASSUME NEW s \in Strings, NEW t \in Strings, NEW a \in Slugs
  PROVE  s \o Append(t, a) = Append(s \o t, a)
<1> DEFINE one == <<a>>
<1>1. one \in Seq(Slugs)
  OBVIOUS
<1>2. s \o t \in Seq(Slugs)
  BY ConcatProperties DEF Strings
<1>3. Append(s \o t, a) = (s \o t) \o one /\ Append(t, a) = t \o one
  BY <1>2, AppendIsConcat DEF Strings
<1> HIDE DEF one
<1>4. (s \o t) \o one = s \o (t \o one)
  BY <1>1, ConcatAssociative DEF Strings
<1> QED
  BY <1>3, <1>4

LEMMA ConcatNone ==
  ASSUME NEW s \in Strings
  PROVE  s \o <<>> = s /\ <<>> \in Strings
  BY ConcatEmptySeq, EmptySeq DEF Strings

LEMMA LastOfString ==
  ASSUME NEW s \in Strings, s # <<>>
  PROVE  \E front \in Strings, last \in Slugs : s = Append(front, last)
  BY SequenceEmptyOrAppend DEF Strings

\* What starts with an address is the address and a rest.
LEMMA PrefixRest ==
  ASSUME NEW from \in Strings, NEW s \in Strings, IsPrefix(from, s)
  PROVE  \E rest \in Strings : s = from \o rest
<1>1. \A i \in (Len(from) + 1)..Len(s) : s[i] \in Slugs
  BY ElementOfSeq, LenProperties DEF Strings
<1>2. SubSeq(s, Len(from) + 1, Len(s)) \in Strings
  BY <1>1, LenProperties, SubSeqProperties DEF Strings
<1>3. s = from \o SubSeq(s, Len(from) + 1, Len(s))
  BY RenameSelf DEF Rename, Strings
<1> QED
  BY <1>2, <1>3

LEMMA StartsWith ==
  ASSUME NEW s \in Strings, NEW t \in Strings
  PROVE  IsPrefix(s, s \o t)
  BY PrefixOfConcat DEF Strings

LEMMA RenameConcat ==
  ASSUME NEW from \in Strings, NEW to \in Strings, NEW rest \in Strings
  PROVE  Rename(from, to, from \o rest) = to \o rest
<1> DEFINE s == from \o rest
           found == SubSeq(s, Len(from) + 1, Len(s))
<1>1. s \in Strings
  BY StringsConcat
<1>2. \A i \in (Len(from) + 1)..Len(s) : s[i] \in Slugs
  BY <1>1, ElementOfSeq, LenProperties DEF Strings
<1>3. found \in Seq(Slugs)
  BY <1>1, <1>2, LenProperties, SubSeqProperties DEF Strings
<1>4. s = from \o found
  BY <1>1, PrefixOfConcat, RenameSelf DEF Rename, Strings
<1> HIDE DEF found
<1>5. found = rest
  BY <1>3, <1>4, ConcatSimplifications DEF Strings
<1> QED
  BY <1>5 DEF Rename, found

LEMMA RenameItself ==
  ASSUME NEW from \in Strings, NEW to \in Strings
  PROVE  IsPrefix(from, from) /\ Rename(from, to, from) = to
<1> DEFINE none == <<>>
<1>1. none \in Strings /\ from \o none = from /\ to \o none = to
  BY ConcatNone
<1> HIDE DEF none
<1>2. IsPrefix(from, from \o none)
  BY <1>1, StartsWith
<1>3. Rename(from, to, from \o none) = to \o none
  BY <1>1, RenameConcat
<1> QED
  BY <1>1, <1>2, <1>3

LEMMA FrontLast ==
  ASSUME NEW s \in Addresses
  PROVE  s = Append(Front(s), Last(s))
<1>1. PICK front \in Seq(Slugs), last \in Slugs : s = Append(front, last)
  BY SequenceEmptyOrAppend DEF Addresses
<1>2. Len(s) = Len(front) + 1 /\ s[Len(front) + 1] = last /\ Len(front) \in Nat
  BY <1>1, AppendProperties, LenProperties
<1>3. <<last>> \in Seq(Slugs) /\ s = front \o <<last>>
  BY <1>1, AppendIsConcat
<1>4. IsPrefix(front, s)
  BY <1>3, PrefixOfConcat
<1>5. Front(s) = front
  BY <1>2, <1>4 DEF IsPrefix, Front
<1> QED
  BY <1>1, <1>2, <1>5 DEF Last

\* What is below from, and not from itself, has a parent below from, which is renamed with it.
LEMMA RenameBelow ==
  ASSUME NEW from \in Strings, NEW to \in Strings, NEW parent \in Strings, NEW slug \in Slugs,
         IsPrefix(from, Append(parent, slug)), from # Append(parent, slug)
  PROVE  /\ IsPrefix(from, parent)
         /\ Rename(from, to, Append(parent, slug)) = Append(Rename(from, to, parent), slug)
<1>1. Append(parent, slug) \in Strings
  BY StringsAppend
<1>2. PICK rest \in Strings : Append(parent, slug) = from \o rest
  BY <1>1, PrefixRest
<1>3. rest # <<>>
  BY <1>2, ConcatNone
<1>4. PICK front \in Strings, last \in Slugs : rest = Append(front, last)
  BY <1>3, LastOfString
<1>5. from \o rest = Append(from \o front, last) /\ to \o rest = Append(to \o front, last)
  BY <1>4, ConcatThenAppend
<1>6. parent = from \o front /\ slug = last
  <2>1. PICK above \in Strings : above = from \o front
    BY StringsConcat
  <2>2. Append(parent, slug) = Append(above, last)
    BY <1>2, <1>5, <2>1
  <2>3. parent = above /\ slug = last
    BY <2>2, SameAppend
  <2> QED
    BY <2>1, <2>3
<1>7. IsPrefix(from, from \o front)
  BY StartsWith
<1>8. Rename(from, to, from \o rest) = to \o rest
  BY RenameConcat
<1>9. Rename(from, to, from \o front) = to \o front
  BY RenameConcat
<1> QED
  BY <1>2, <1>5, <1>6, <1>7, <1>8, <1>9

\* What is below what is below is below.
LEMMA PrefixOfAppend ==
  ASSUME NEW from \in Strings, NEW parent \in Strings, NEW slug \in Slugs,
         IsPrefix(from, parent)
  PROVE  IsPrefix(from, Append(parent, slug))
<1>1. PICK rest \in Strings : parent = from \o rest
  BY PrefixRest
<1>2. Append(from \o rest, slug) = from \o Append(rest, slug)
  BY ConcatThenAppend
<1>3. IsPrefix(from, from \o Append(rest, slug))
  BY StringsAppend, StartsWith
<1> QED
  BY <1>1, <1>2, <1>3

-----------------------------------------------------------------------------
(* The first state *)

LEMMA KeptAtFirst ==
  ASSUME Init
  PROVE  Kept
<1> USE FirstTreesAssumption, GrantsAssumption, BoundsAssumption
<1>1. TypeOK
  BY EmptySeq DEF Init, TypeOK, Ids, AclRows
<1>2. Requests
  BY DEF Init, Requests, Fits, Idle
<1>3. OnePath
  BY DEF Init, OnePath, Ids, Whole, AddressesAgree
<1>4. HolesComeFromCreates
  BY DEF Init, HolesComeFromCreates, Whole
<1>5. ForwardsYield
  BY DEF Init, ForwardsYield
<1> QED
  BY <1>1, <1>2, <1>3, <1>4, <1>5 DEF Kept

-----------------------------------------------------------------------------
(* Asking *)

\* A request begins, or ends without a trace: the tree is as it was.
LEMMA TreeUntouched ==
  ASSUME Kept, NEW person \in People, NEW r,
         request' = [request EXCEPT ![person] = r],
         Fits(r), left' \in 0..MaxRequests,
         UNCHANGED <<doc, forward, acl, invite, stale>>
  PROVE  Kept'
<1>1. TypeOK'
  BY DEF Kept, TypeOK, Ids
<1>2. Requests'
  BY DEF Kept, Requests, Fits, Ids
<1>3. OnePath'
  BY DEF Kept, OnePath, Ids
<1>4. HolesComeFromCreates'
  BY DEF Kept, HolesComeFromCreates, Hole
<1>5. ForwardsYield'
  BY DEF Kept, ForwardsYield, At, Ids
<1> QED
  BY <1>1, <1>2, <1>3, <1>4, <1>5 DEF Kept

LEMMA PathsType == Paths \subseteq Addresses
<1> SUFFICES ASSUME NEW n \in 1..MaxDepth, NEW path \in [1..n -> Slugs]
             PROVE  path \in Addresses
  BY DEF Paths
<1>1. path \in Seq(Slugs) /\ Len(path) = n
  BY BoundsAssumption
<1> QED
  BY <1>1, EmptySeq DEF Addresses

LEMMA AskingKeeps ==
  ASSUME Kept, NEW person \in People,
         \/ AskCreate(person) \/ AskMove(person) \/ AskTrash(person) \/ AskRestore(person)
         \/ Rollback(person)
  PROVE  Kept'
<1> USE BoundsAssumption
<1>0. left \in 0..MaxRequests
  BY DEF Kept, TypeOK
<1>1. CASE AskCreate(person)
  <2>1. PICK to \in Paths : Ask(person, [kind |-> "create", to |-> to, parent |-> Parent(to)])
    BY <1>1 DEF AskCreate
  <2>2. Fits([kind |-> "create", to |-> to, parent |-> Parent(to)])
    BY PathsType DEF Fits, Parent
  <2>3. left' \in 0..MaxRequests
    BY <1>0, <1>1, <2>1 DEF AskCreate, Free, Ask
  <2> QED
    BY <2>1, <2>2, <2>3, TreeUntouched DEF Ask
<1>2. CASE AskMove(person)
  <2> DEFINE R(page, to) ==
        [kind |-> "move", page |-> page, from |-> doc[page].path, to |-> to, parent |-> Parent(to),
         administers |-> Administers(person, Parent(to)),
         before |-> [path \in {doc[id].path : id \in LiveUnder(doc[page].path)} |-> Readers(acl, path)]]
  <2>1. PICK page \in Ids, to \in Paths : Ask(person, R(page, to))
    BY <1>2 DEF AskMove
  <2>2. page \in Pages /\ doc[page].path \in Addresses
    BY DEF Kept, TypeOK, Documents
  <2>3. Fits(R(page, to))
    BY <2>2, PathsType DEF Fits, Parent
  <2>4. left' \in 0..MaxRequests
    BY <1>0, <1>2, <2>1 DEF AskMove, Free, Ask
  <2> HIDE DEF R
  <2> QED
    BY <2>1, <2>3, <2>4, TreeUntouched DEF Ask
<1>3. CASE AskTrash(person)
  <2>1. PICK page \in Ids : Ask(person, [kind |-> "trash", page |-> page, from |-> doc[page].path])
    BY <1>3 DEF AskTrash
  <2>2. page \in Pages /\ doc[page].path \in Addresses
    BY DEF Kept, TypeOK, Documents
  <2>3. Fits([kind |-> "trash", page |-> page, from |-> doc[page].path])
    BY <2>2 DEF Fits
  <2>4. left' \in 0..MaxRequests
    BY <1>0, <1>3, <2>1 DEF AskTrash, Free, Ask
  <2> QED
    BY <2>1, <2>3, <2>4, TreeUntouched DEF Ask
<1>4. CASE AskRestore(person)
  <2>1. PICK page \in Ids : Ask(person, [kind |-> "restore", page |-> page])
    BY <1>4 DEF AskRestore
  <2>2. Fits([kind |-> "restore", page |-> page])
    BY DEF Fits, Kept, TypeOK
  <2>3. left' \in 0..MaxRequests
    BY <1>0, <1>4, <2>1 DEF AskRestore, Free, Ask
  <2> QED
    BY <2>1, <2>2, <2>3, TreeUntouched DEF Ask
<1>5. CASE Rollback(person)
  <2>1. Fits(Idle)
    BY DEF Fits, Idle
  <2> QED
    BY <1>0, <1>5, <2>1, TreeUntouched DEF Rollback
<1> QED
  BY <1>1, <1>2, <1>3, <1>4, <1>5

-----------------------------------------------------------------------------
(* The end of a request that commits *)

LEMMA DoneKeeps ==
  ASSUME Kept, NEW person \in People, request[person] # Idle, Done(person)
  PROVE  /\ Requests'
         /\ left' \in 0..MaxRequests
         /\ stale' \subseteq {"create", "move", "trash", "restore"}
         /\ stale \subseteq stale'
         /\ stale' # stale => ~Still(person) /\ stale' = stale \cup {request[person].kind}
<1>1. Fits(Idle)
  BY DEF Fits, Idle
<1>2. request[person].kind \in {"create", "move", "trash", "restore"}
  BY DEF Kept, Requests, Fits
<1>3. Requests'
  BY <1>1 DEF Done, Kept, Requests, Fits
<1>4. left' \in 0..MaxRequests
  BY DEF Done, Kept, TypeOK
<1> QED
  BY <1>2, <1>3, <1>4 DEF Done, Kept, TypeOK

\* Where nothing is written but who is in which entry, addresses are as they were.
LEMMA EntriesKeep ==
  ASSUME Kept, NEW person \in People, request[person] # Idle, Done(person),
         NEW S, NEW root \in Pages \cup {NoPage},
         doc' = [id \in Ids |-> IF id \in S THEN [doc[id] EXCEPT !.root = root] ELSE doc[id]],
         ~Hole(doc'), UNCHANGED <<forward, acl, invite>>
  PROVE  Kept'
<1>1. Ids' = Ids /\ \A id \in Ids : doc'[id] \in Documents /\ doc'[id].path = doc[id].path
  BY DEF Kept, TypeOK, Ids, Documents
<1>2. TypeOK'
  BY <1>1, DoneKeeps DEF Kept, TypeOK, Ids
<1>3. OnePath'
  BY <1>1 DEF Kept, OnePath
<1>4. HolesComeFromCreates'
  BY DEF HolesComeFromCreates
<1>5. ForwardsYield'
  BY <1>1 DEF Kept, ForwardsYield, At
<1> QED
  BY <1>2, <1>3, <1>4, <1>5, DoneKeeps DEF Kept

LEMMA TrashKeeps ==
  ASSUME Kept, NEW person \in People, Trash(person)
  PROVE  Kept'
<1> DEFINE r == request[person]
<1>1. r # Idle /\ r.page \in Pages
  BY DEF Trash, Kept, Requests, Fits, Idle
<1>2. doc' = [id \in Ids |-> IF id \in LiveUnder(r.from)
                             THEN [doc[id] EXCEPT !.root = r.page] ELSE doc[id]]
  BY DEF Trash
<1>3. ~Hole(doc') /\ Done(person) /\ UNCHANGED <<forward, acl, invite>>
  BY DEF Trash
<1> QED
  BY <1>1, <1>2, <1>3, EntriesKeep

LEMMA RestoreKeeps ==
  ASSUME Kept, NEW person \in People, Restore(person)
  PROVE  Kept'
<1> DEFINE S == {id \in Ids : doc[id].root = request[person].page}
<1>1. request[person] # Idle
  BY DEF Restore, Idle
<1>2. doc' = [id \in Ids |-> IF id \in S THEN [doc[id] EXCEPT !.root = NoPage] ELSE doc[id]]
  BY DEF Restore
<1>3. ~Hole(doc') /\ Done(person) /\ UNCHANGED <<forward, acl, invite>>
  BY DEF Restore
<1> HIDE DEF S
<1> QED
  BY <1>1, <1>2, <1>3, EntriesKeep

LEMMA PurgeKeeps ==
  ASSUME Kept, Purge
  PROVE  Kept'
<1> USE BoundsAssumption
<1>1. PICK page \in Ids :
        /\ doc' = [id \in Ids \ Under(doc[page].path) |-> doc[id]]
        /\ forward' = [path \in {p \in DOMAIN forward :
                                   forward[p] \in Ids \ Under(doc[page].path)} |-> forward[path]]
  BY DEF Purge
<1>2. left > 0 /\ left' = left - 1 /\ UNCHANGED <<acl, invite, request, stale>>
  BY DEF Purge
<1>3. Ids' = Ids \ Under(doc[page].path) /\ \A id \in Ids' : doc'[id] = doc[id]
  BY <1>1 DEF Ids
<1>4. TypeOK'
  BY <1>1, <1>2, <1>3 DEF Kept, TypeOK, Ids
<1>5. Requests'
  BY <1>2 DEF Kept, Requests, Fits
<1>6. OnePath'
  BY <1>3 DEF Kept, OnePath
<1>7. HolesComeFromCreates'
  <2>1. Hole(doc') => Hole(doc)
    BY <1>3 DEF Hole, Ids
  <2> QED
    BY <1>2, <2>1 DEF Kept, HolesComeFromCreates
<1>8. ForwardsYield'
  BY <1>1, <1>3 DEF Kept, ForwardsYield, At
<1> QED
  BY <1>4, <1>5, <1>6, <1>7, <1>8 DEF Kept

LEMMA ChangeGrantKeeps ==
  ASSUME Kept, ChangeGrant
  PROVE  Kept'
<1> USE BoundsAssumption, GrantsAssumption
<1>1. TypeOK'
  BY DEF Kept, TypeOK, ChangeGrant, Ids
<1>2. Requests'
  BY DEF Kept, Requests, Fits, ChangeGrant
<1>3. OnePath' /\ HolesComeFromCreates' /\ ForwardsYield'
  BY DEF Kept, OnePath, HolesComeFromCreates, Hole, ForwardsYield, At, Ids, ChangeGrant
<1> QED
  BY <1>1, <1>2, <1>3 DEF Kept

-----------------------------------------------------------------------------
(* Creating *)

LEMMA CreateKeeps ==
  ASSUME Kept, NEW person \in People, Create(person)
  PROVE  Kept'
<1> DEFINE r == request[person]
<1>1. r # Idle /\ r.kind = "create" /\ r.to \in Addresses /\ r.parent = Front(r.to)
  BY DEF Create, Kept, Requests, Fits, Idle
<1>2. PICK new \in Pages \ Ids :
        doc' = [other \in Ids \cup {new} |-> IF other = new THEN Row(r.to, NoPage) ELSE doc[other]]
  BY DEF Create
<1>3. At(r.to) = {} /\ forward' = EndForwards(forward, {r.to}) /\ Done(person)
        /\ UNCHANGED <<acl, invite>>
  BY DEF Create
<1>4. /\ Ids' = Ids \cup {new}
      /\ doc'[new] = Row(r.to, NoPage)
      /\ \A id \in Ids : doc'[id] = doc[id]
  BY <1>2 DEF Ids
<1>5. Row(r.to, NoPage) \in Documents /\ Row(r.to, NoPage).path = r.to
  BY <1>1, FrontType DEF Row, Documents, Parent
<1>6. TypeOK'
  BY <1>1, <1>2, <1>3, <1>4, <1>5, DoneKeeps DEF Kept, TypeOK, Ids, EndForwards
<1>7. OnePath'
  BY <1>3, <1>4, <1>5 DEF Kept, OnePath, At
<1>8. HolesComeFromCreates'
  <2> SUFFICES ASSUME Hole(doc') PROVE "create" \in stale'
    BY DEF HolesComeFromCreates
  <2>1. CASE Hole(doc)
    BY <1>1, <1>3, <2>1, DoneKeeps DEF Kept, HolesComeFromCreates
  <2>2. CASE ~Hole(doc)
    <3>1. PICK c \in Ids', p \in Ids' : /\ doc'[c].root = NoPage
                                        /\ doc'[p].path = doc'[c].parent
                                        /\ doc'[p].root # NoPage
      BY DEF Hole, Ids
    <3>2. p \in Ids /\ doc[p].root # NoPage
      BY <1>4, <3>1 DEF Row
    <3>3. c = new
      BY <1>4, <2>2, <3>1, <3>2 DEF Hole, Ids
    <3>4. doc[p].path = Front(r.to)
      BY <1>4, <3>1, <3>2, <3>3 DEF Row, Parent
    <3>5. r.parent # <<>>
      BY <1>1, <3>2, <3>4 DEF Kept, TypeOK, Documents, Addresses
    <3>6. ~Destination(person, r.parent)
      BY <1>1, <3>2, <3>4, <3>5 DEF Destination, At, Live, Kept, OnePath
    <3>7. ~Still(person)
      BY <1>1, <3>6 DEF Still, CreateMay
    <3> QED
      BY <1>1, <1>3, <3>7 DEF Done
  <2> QED
    BY <2>1, <2>2
<1>9. ForwardsYield'
  BY <1>3, <1>4, <1>5 DEF Kept, ForwardsYield, At, EndForwards
<1> QED
  BY <1>1, <1>3, <1>6, <1>7, <1>8, <1>9, DoneKeeps DEF Kept

-----------------------------------------------------------------------------
(* Moving *)

\* Where a move may take a page.
LEMMA MovedPathOfRow ==
  ASSUME Kept, NEW r, Fits(r), r.kind = "move", NEW id \in Ids
  PROVE  /\ MovedRow(r, id) \in Documents
         /\ MovedRow(r, id).root = doc[id].root
         /\ MovedRow(r, id).path = IF r.to # r.from /\ id \in Under(r.from)
                                   THEN Rename(r.from, r.to, doc[id].path) ELSE doc[id].path
<1>1. /\ r.from \in Seq(Slugs) /\ r.to \in Seq(Slugs) /\ r.to # <<>>
      /\ r.parent \in Seq(Slugs) /\ Last(r.to) \in Slugs
  BY FrontType DEF Fits, Addresses
<1>2. /\ doc[id] \in Documents
      /\ doc[id].path \in Seq(Slugs) /\ doc[id].parent \in Seq(Slugs)
  BY DEF Kept, TypeOK, Documents, Addresses
<1>3. /\ Rename(r.from, r.to, doc[id].path) \in Addresses
      /\ Rename(r.from, r.to, doc[id].parent) \in Seq(Slugs)
  BY <1>1, <1>2, RenameType DEF Addresses
<1> QED
  BY <1>1, <1>2, <1>3 DEF MovedRow, Documents

LEMMA MovedPathType ==
  ASSUME NEW r, Fits(r), r.kind = "move", NEW path \in Seq(Slugs)
  PROVE  MovedPath(r, path) \in Seq(Slugs)
  BY RenameType DEF MovedPath, Fits, Addresses

LEMMA MovedAclType ==
  ASSUME Kept, NEW r, Fits(r), r.kind = "move"
  PROVE  MovedAcl(r) \subseteq AclRows
<1> SUFFICES ASSUME NEW row \in acl
             PROVE  [row EXCEPT !.path = MovedPath(r, row.path)] \in AclRows
  BY DEF MovedAcl
<1>1. row \in AclRows /\ row.path \in Seq(Slugs)
  BY DEF Kept, TypeOK, AclRows
<1>2. MovedPath(r, row.path) \in Seq(Slugs)
  BY <1>1, MovedPathType
<1> QED
  BY <1>1, <1>2 DEF AclRows

LEMMA MovedForwardsType ==
  ASSUME Kept, NEW r, Fits(r), r.kind = "move"
  PROVE  /\ DOMAIN MovedForwards(r) \subseteq Seq(Slugs)
         /\ \A path \in DOMAIN MovedForwards(r) : MovedForwards(r)[path] \in Ids
<1> DEFINE gone == {doc[id].path : id \in Under(r.from)}
           both == [path \in DOMAIN forward \cup gone |->
                     IF path \in gone THEN CHOOSE id \in Ids : doc[id].path = path
                     ELSE forward[path]]
<1>1. gone \subseteq Seq(Slugs)
  BY DEF Kept, TypeOK, Documents, Addresses, Under
<1>2. \A path \in gone : \E id \in Ids : doc[id].path = path
  BY DEF Under
<1>3. \A path \in DOMAIN both : both[path] \in Ids
  BY <1>2 DEF Kept, TypeOK
<1>4. DOMAIN both = DOMAIN forward \cup gone
  OBVIOUS
<1>5. CASE r.to = r.from
  BY <1>5 DEF MovedForwards, Kept, TypeOK
<1>6. CASE r.to # r.from
  <2> DEFINE came == {Rename(r.from, r.to, path) : path \in gone}
  <2>1. MovedForwards(r) = EndForwards(both, came)
    BY <1>6 DEF MovedForwards
  <2> HIDE DEF gone, both, came
  <2> QED
    BY <1>1, <1>3, <1>4, <2>1 DEF EndForwards, Kept, TypeOK
<1> QED
  BY <1>5, <1>6

\* A forward survives a move only from an address that nobody lives at afterwards.
LEMMA MovedForwardsYield ==
  ASSUME Kept, NEW r, Fits(r), r.kind = "move",
         NEW path \in DOMAIN MovedForwards(r), NEW id \in Ids
  PROVE  MovedRow(r, id).path # path
<1> DEFINE gone == {doc[other].path : other \in Under(r.from)}
           came == {Rename(r.from, r.to, old) : old \in gone}
<1>1. CASE r.to = r.from
  BY <1>1, MovedPathOfRow DEF MovedForwards, Kept, ForwardsYield, At
<1>2. CASE r.to # r.from
  <2>1. path \in (DOMAIN forward \cup gone) \ came
    BY <1>2 DEF MovedForwards, EndForwards
  <2>2. CASE id \in Under(r.from)
    BY <1>2, <2>1, <2>2, MovedPathOfRow
  <2>3. CASE id \notin Under(r.from)
    <3>1. MovedRow(r, id).path = doc[id].path
      BY <2>3, MovedPathOfRow
    <3>2. doc[id].path \notin gone
      BY <2>3 DEF Under
    <3> QED
      BY <2>1, <3>1, <3>2 DEF Kept, ForwardsYield, At
  <2> QED
    BY <2>2, <2>3
<1> QED
  BY <1>1, <1>2

LEMMA MoveKeeps ==
  ASSUME Kept, NEW person \in People, Move(person)
  PROVE  Kept'
<1> DEFINE r == request[person]
<1>1. r # Idle /\ r.kind = "move" /\ Fits(r)
  BY DEF Move, Kept, Requests, Idle
<1>2. /\ doc' = [id \in Ids |-> MovedRow(r, id)]
      /\ \A a, b \in Ids : a # b => MovedRow(r, a).path # MovedRow(r, b).path
      /\ ~Hole(doc')
      /\ forward' = MovedForwards(r) /\ acl' = MovedAcl(r) /\ invite' = MovedPath(r, invite)
      /\ Done(person)
  BY DEF Move
<1> HIDE DEF r
<1>3. Ids' = Ids /\ \A id \in Ids : doc'[id] = MovedRow(r, id)
  BY <1>2 DEF Ids
<1>4. TypeOK'
  <2>1. \A id \in Ids : MovedRow(r, id) \in Documents
    BY <1>1, MovedPathOfRow
  <2>2. invite' \in Seq(Slugs)
    BY <1>1, <1>2, MovedPathType DEF Kept, TypeOK
  <2>3. acl' \subseteq AclRows
    BY <1>1, <1>2, MovedAclType
  <2>4. DOMAIN forward' \subseteq Seq(Slugs) /\ \A path \in DOMAIN forward' : forward'[path] \in Ids
    BY <1>1, <1>2, MovedForwardsType
  <2>5. left' \in 0..MaxRequests /\ stale' \subseteq {"create", "move", "trash", "restore"}
    BY <1>1, <1>2, DoneKeeps DEF r
  <2>6. Ids \subseteq Pages
    BY DEF Kept, TypeOK
  <2> QED
    BY <1>2, <1>3, <2>1, <2>2, <2>3, <2>4, <2>5, <2>6 DEF TypeOK, Ids
<1>5. OnePath'
  BY <1>2, <1>3 DEF OnePath
<1>6. HolesComeFromCreates'
  BY <1>2 DEF HolesComeFromCreates
<1>7. ForwardsYield'
  BY <1>1, <1>2, <1>3, MovedForwardsYield DEF ForwardsYield, At
<1> QED
  BY <1>1, <1>2, <1>4, <1>5, <1>6, <1>7, DoneKeeps DEF Kept, r

-----------------------------------------------------------------------------
LEMMA KeptStays ==
  ASSUME Kept, [Next]_vars
  PROVE  Kept'
<1>1. CASE UNCHANGED vars
  BY <1>1 DEF vars, Kept, TypeOK, Requests, Fits, OnePath, HolesComeFromCreates, Hole,
              ForwardsYield, At, Ids
<1>2. ASSUME NEW person \in People,
             \/ AskCreate(person) \/ AskMove(person) \/ AskTrash(person) \/ AskRestore(person)
             \/ Rollback(person)
      PROVE  Kept'
  BY <1>2, AskingKeeps
<1>3. ASSUME NEW person \in People,
             Create(person) \/ Move(person) \/ Trash(person) \/ Restore(person)
      PROVE  Kept'
  BY <1>3, CreateKeeps, MoveKeeps, TrashKeeps, RestoreKeeps
<1>4. CASE Purge \/ ChangeGrant
  BY <1>4, PurgeKeeps, ChangeGrantKeeps
<1> QED
  BY <1>1, <1>2, <1>3, <1>4 DEF Next, Finished

LEMMA KeptAlways == Spec => []Kept
  BY KeptAtFirst, KeptStays, PTL DEF Spec

\* Every row of every table has its type, whatever requests overtake each other.
THEOREM TypeCorrect == Spec => []TypeOK
<1>1. Kept => TypeOK
  BY DEF Kept
<1> QED
  BY <1>1, KeptAlways, PTL

\* A live page under a page in the trash comes from a creation that was overtaken: no other
\* request makes one, in any tree.
THEOREM HolesHaveOneSource == Spec => []HolesComeFromCreates
<1>1. Kept => HolesComeFromCreates
  BY DEF Kept
<1> QED
  BY <1>1, KeptAlways, PTL

\* No address both forwards and has a page.
THEOREM ForwardsAlwaysYield == Spec => []ForwardsYield
<1>1. Kept => ForwardsYield
  BY DEF Kept
<1> QED
  BY <1>1, KeptAlways, PTL

-----------------------------------------------------------------------------
(* Addresses and parents *)

\* Trashing and restoring write nothing but who is in which entry.
LEMMA OnlyEntriesChange ==
  ASSUME Kept, NEW person \in People, Trash(person) \/ Restore(person)
  PROVE  /\ Ids' = Ids
         /\ \A id \in Ids : /\ doc'[id].path = doc[id].path
                            /\ doc'[id].parent = doc[id].parent /\ doc'[id].slug = doc[id].slug
<1>1. \A id \in Ids : doc[id] \in Documents
  BY DEF Kept, TypeOK
<1>2. CASE Trash(person)
  BY <1>1, <1>2 DEF Trash, Ids, Documents
<1>3. CASE Restore(person)
  BY <1>1, <1>3 DEF Restore, Ids, Documents
<1> QED
  BY <1>2, <1>3

LEMMA SpelledRow ==
  ASSUME Kept, NEW person \in People, Move(person), Still(person), AddressesAgree(doc),
         NEW id \in Ids
  PROVE  doc'[id].path = Append(doc'[id].parent, doc'[id].slug)
<1> DEFINE r == request[person]
<1>1. r.kind = "move" /\ Fits(r) /\ doc'[id] = MovedRow(r, id)
  BY DEF Move, Kept, Requests
<1>2. MoveMay(person, r)
  BY <1>1 DEF Still
<1>3. r.page \in Ids /\ doc[r.page].path = r.from
  BY <1>2 DEF MoveMay
<1> HIDE DEF r
<1>4. /\ r.from \in Addresses /\ r.to \in Addresses /\ r.parent = Front(r.to)
      /\ r.from \in Strings /\ r.to \in Strings
  BY <1>1 DEF Fits, Addresses, Strings
<1>5. /\ doc[id] \in Documents
      /\ doc[id].parent \in Strings /\ doc[id].slug \in Slugs
  BY DEF Kept, TypeOK, Documents, Strings
<1>6. doc[id].path = Append(doc[id].parent, doc[id].slug)
  BY DEF AddressesAgree, Ids
<1>7. r.to = Append(Front(r.to), Last(r.to))
  BY <1>4, FrontLast
<1>8. CASE r.to = r.from
  <2>1. id = r.page => Last(r.to) = doc[id].slug
    <3>1. Front(r.to) \in Strings /\ Last(r.to) \in Slugs
      BY <1>4, FrontType DEF Strings
    <3>2. id = r.page => Append(doc[id].parent, doc[id].slug) = Append(Front(r.to), Last(r.to))
      BY <1>3, <1>6, <1>7, <1>8
    <3> QED
      BY <1>5, <3>1, <3>2, SameAppend
  <2>2. MovedRow(r, id) = IF id = r.page THEN [doc[id] EXCEPT !.slug = Last(r.to)] ELSE doc[id]
    BY <1>8 DEF MovedRow
  <2>3. MovedRow(r, id).path = doc[id].path /\ MovedRow(r, id).parent = doc[id].parent
          /\ MovedRow(r, id).slug = doc[id].slug
    BY <1>5, <2>1, <2>2 DEF Documents
  <2> QED
    BY <1>1, <1>6, <2>3
<1>9. CASE r.to # r.from /\ doc[id].path = r.from
  <2>1. id = r.page
    BY <1>3, <1>9 DEF Kept, OnePath
  <2>2. IsPrefix(r.from, r.from) /\ Rename(r.from, r.to, r.from) = r.to
    BY <1>4, RenameItself
  <2>3. MovedRow(r, id).path = r.to /\ MovedRow(r, id).parent = r.parent
          /\ MovedRow(r, id).slug = Last(r.to)
    BY <1>5, <1>9, <2>1, <2>2 DEF MovedRow, Under, Documents
  <2> QED
    BY <1>1, <1>4, <1>7, <2>3
<1>10. CASE r.to # r.from /\ doc[id].path # r.from /\ id \in Under(r.from)
  <2>1. id # r.page
    BY <1>3, <1>10
  <2>2. /\ IsPrefix(r.from, Append(doc[id].parent, doc[id].slug))
        /\ r.from # Append(doc[id].parent, doc[id].slug)
    BY <1>6, <1>10 DEF Under
  <2>3. Rename(r.from, r.to, Append(doc[id].parent, doc[id].slug))
          = Append(Rename(r.from, r.to, doc[id].parent), doc[id].slug)
    BY <1>4, <1>5, <2>2, RenameBelow
  <2>4. MovedRow(r, id).path = Rename(r.from, r.to, doc[id].path)
          /\ MovedRow(r, id).parent = Rename(r.from, r.to, doc[id].parent)
          /\ MovedRow(r, id).slug = doc[id].slug
    BY <1>5, <1>10, <2>1 DEF MovedRow, Documents
  <2> QED
    BY <1>1, <1>6, <2>3, <2>4
<1>11. CASE id \notin Under(r.from)
  <2>1. id # r.page
    BY <1>3, <1>4, <1>11, RenameItself DEF Under
  <2>2. MovedRow(r, id) = doc[id]
    BY <1>11, <2>1 DEF MovedRow
  <2> QED
    BY <1>1, <1>6, <2>2
<1> QED
  BY <1>8, <1>9, <1>10, <1>11

\* Each step leaves every address spelled by its parent and its slug, or is a move that had
\* been overtaken.
LEMMA AddressesStayApart ==
  ASSUME Kept, OnePath', AddressesComeApartByMoves, [Next]_vars
  PROVE  AddressesComeApartByMoves'
<1>1. CASE UNCHANGED vars
  BY <1>1 DEF vars, AddressesComeApartByMoves, AddressesAgree
<1>2. ASSUME NEW person \in People,
             \/ AskCreate(person) \/ AskMove(person) \/ AskTrash(person) \/ AskRestore(person)
             \/ Rollback(person)
      PROVE  AddressesComeApartByMoves'
  BY <1>2 DEF AskCreate, AskMove, AskTrash, AskRestore, Ask, Rollback, AddressesComeApartByMoves,
              AddressesAgree
<1>3. ASSUME NEW person \in People, Create(person)
      PROVE  AddressesComeApartByMoves'
  <2>1. request[person] # Idle /\ request[person].to \in Addresses
    BY <1>3 DEF Create, Kept, Requests, Fits, Idle
  <2>2. stale \subseteq stale'
    BY <1>3 DEF Create, Done
  <2>3. PICK new : doc' = [other \in Ids \cup {new} |->
                            IF other = new THEN Row(request[person].to, NoPage) ELSE doc[other]]
    BY <1>3 DEF Create
  <2>4. Ids' = Ids \cup {new}
    BY <2>3 DEF Ids
  <2>5. doc'[new].path = Append(doc'[new].parent, doc'[new].slug)
    BY <2>1, <2>3, FrontLast DEF Row, Parent
  <2>6. ASSUME AddressesAgree(doc), NEW id \in Ids', id # new
        PROVE  doc'[id].path = Append(doc'[id].parent, doc'[id].slug)
    BY <2>3, <2>4, <2>6 DEF AddressesAgree, Ids
  <2> QED
    BY <2>2, <2>5, <2>6 DEF AddressesComeApartByMoves, AddressesAgree, OnePath, Ids
<1>4. ASSUME NEW person \in People, Move(person)
      PROVE  AddressesComeApartByMoves'
  <2>1. request[person].kind = "move" /\ Done(person) /\ Ids' = Ids
    BY <1>4 DEF Move, Ids
  <2>2. CASE ~Still(person) \/ "move" \in stale
    BY <2>1, <2>2 DEF Done, AddressesComeApartByMoves
  <2>3. CASE Still(person) /\ "move" \notin stale
    <3>1. \A id \in Ids' : doc'[id].path = Append(doc'[id].parent, doc'[id].slug)
      BY <1>4, <2>1, <2>3, SpelledRow DEF AddressesComeApartByMoves
    <3> QED
      BY <3>1 DEF AddressesComeApartByMoves, AddressesAgree, OnePath, Ids
  <2> QED
    BY <2>2, <2>3
<1>5. ASSUME NEW person \in People, Trash(person) \/ Restore(person)
      PROVE  AddressesComeApartByMoves'
  <2>1. stale \subseteq stale'
    BY <1>5 DEF Trash, Restore, Done
  <2> QED
    BY <1>5, <2>1, OnlyEntriesChange DEF AddressesComeApartByMoves, AddressesAgree, Ids
<1>6. CASE Purge
  <2>1. Ids' \subseteq Ids /\ \A id \in Ids' : doc'[id] = doc[id]
    BY <1>6 DEF Purge, Ids
  <2>2. stale' = stale
    BY <1>6 DEF Purge
  <2> QED
    BY <2>1, <2>2 DEF AddressesComeApartByMoves, AddressesAgree, Ids
<1>7. CASE ChangeGrant
  BY <1>7 DEF ChangeGrant, AddressesComeApartByMoves, AddressesAgree
<1> QED
  BY <1>1, <1>2, <1>3, <1>4, <1>5, <1>6, <1>7 DEF Next, Finished

\* The page above id after a move whose checks still hold is the one above it before, moved with
\* it, or the one the checks found.
LEMMA ParentAfterMove ==
  ASSUME Kept, NEW person \in People, Move(person), Still(person),
         AddressesAgree(doc), ParentsExist(doc), NEW id \in Ids
  PROVE  doc'[id].parent = <<>> \/ \E p \in Ids : doc'[p].path = doc'[id].parent
<1> DEFINE r == request[person]
<1>1. r.kind = "move" /\ Fits(r) /\ \A p \in Ids : doc'[p] = MovedRow(r, p)
  BY DEF Move, Kept, Requests
<1>2. MoveMay(person, r)
  BY <1>1 DEF Still
<1>3. /\ r.page \in Ids /\ doc[r.page].path = r.from
      /\ ~IsPrefix(r.from, r.parent) /\ Destination(person, r.parent)
  BY <1>2 DEF MoveMay
<1> HIDE DEF r
<1>4. r.from \in Strings /\ r.to \in Strings
  BY <1>1 DEF Fits, Addresses, Strings
<1>5. \A p \in Ids : doc'[p].path = IF r.to # r.from /\ p \in Under(r.from)
                                    THEN Rename(r.from, r.to, doc[p].path) ELSE doc[p].path
  BY <1>1, MovedPathOfRow
<1>6. /\ doc[id] \in Documents
      /\ doc[id].parent \in Strings /\ doc[id].slug \in Slugs
      /\ doc[id].path = Append(doc[id].parent, doc[id].slug)
  BY DEF Kept, TypeOK, Documents, AddressesAgree, Ids, Strings
<1>7. CASE r.to # r.from /\ doc[id].path = r.from
  <2>1. IsPrefix(r.from, doc[id].path)
    BY <1>4, <1>7, RenameItself
  <2>2. doc'[id].parent = r.parent
    BY <1>1, <1>6, <1>7, <2>1 DEF MovedRow, Under, Documents
  <2>3. r.parent = <<>> \/ \E p \in Ids : doc[p].path = r.parent
    BY <1>3 DEF Destination, At
  <2>4. ASSUME NEW p \in Ids, doc[p].path = r.parent
        PROVE  doc'[p].path = r.parent
    BY <1>3, <1>5, <2>4 DEF Under
  <2> QED
    BY <2>2, <2>3, <2>4
<1>8. CASE r.to # r.from /\ doc[id].path # r.from /\ id \in Under(r.from)
  <2>1. /\ IsPrefix(r.from, Append(doc[id].parent, doc[id].slug))
        /\ r.from # Append(doc[id].parent, doc[id].slug)
    BY <1>6, <1>8 DEF Under
  <2>2. IsPrefix(r.from, doc[id].parent)
    BY <1>4, <1>6, <2>1, RenameBelow
  <2>3. doc'[id].parent = Rename(r.from, r.to, doc[id].parent)
    BY <1>1, <1>6, <1>8 DEF MovedRow, Documents
  <2>4. doc[id].parent # <<>>
    <3>1. r.from # <<>>
      BY <1>1 DEF Fits, Addresses
    <3> QED
      BY <1>4, <1>6, <2>2, <3>1, EmptySeq, LenProperties DEF IsPrefix, Strings
  <2>5. PICK p \in Ids : doc[p].path = doc[id].parent
    BY <2>4 DEF ParentsExist, Ids
  <2>6. doc'[p].path = Rename(r.from, r.to, doc[p].path)
    BY <1>5, <1>8, <2>2, <2>5 DEF Under
  <2> QED
    BY <2>3, <2>5, <2>6
<1>9. CASE r.to = r.from \/ id \notin Under(r.from)
  <2>1. doc'[id].parent = doc[id].parent
    BY <1>1, <1>6, <1>9 DEF MovedRow, Documents
  <2>2. ASSUME NEW p \in Ids, doc[p].path = doc[id].parent
        PROVE  doc'[p].path = doc[id].parent
    <3>1. r.to # r.from => p \notin Under(r.from)
      BY <1>4, <1>6, <1>9, <2>2, PrefixOfAppend DEF Under
    <3> QED
      BY <1>5, <2>2, <3>1
  <2> QED
    BY <2>1, <2>2 DEF ParentsExist, Ids
<1> QED
  BY <1>7, <1>8, <1>9

LEMMA ParentsStay ==
  ASSUME Kept, AddressesComeApartByMoves, OrphansComeFromOvertakenChecks, [Next]_vars
  PROVE  OrphansComeFromOvertakenChecks'
<1>0. CASE stale \cap {"create", "move"} # {} /\ stale \subseteq stale'
  BY <1>0 DEF OrphansComeFromOvertakenChecks
<1> SUFFICES ASSUME ~(stale \cap {"create", "move"} # {} /\ stale \subseteq stale')
             PROVE  OrphansComeFromOvertakenChecks'
  BY <1>0
<1>1. CASE UNCHANGED vars
  BY <1>1 DEF vars, OrphansComeFromOvertakenChecks, ParentsExist
<1>2. ASSUME NEW person \in People,
             \/ AskCreate(person) \/ AskMove(person) \/ AskTrash(person) \/ AskRestore(person)
             \/ Rollback(person)
      PROVE  OrphansComeFromOvertakenChecks'
  BY <1>2 DEF AskCreate, AskMove, AskTrash, AskRestore, Ask, Rollback,
              OrphansComeFromOvertakenChecks, ParentsExist
<1>3. ASSUME NEW person \in People, Create(person)
      PROVE  OrphansComeFromOvertakenChecks'
  <2> DEFINE r == request[person]
  <2>1. r.kind = "create" /\ r.parent = Front(r.to) /\ Done(person) /\ stale \subseteq stale'
    BY <1>3 DEF Create, Done, Kept, Requests, Fits
  <2>2. PICK new \in Pages \ Ids :
          doc' = [other \in Ids \cup {new} |->
                    IF other = new THEN Row(r.to, NoPage) ELSE doc[other]]
    BY <1>3 DEF Create
  <2> HIDE DEF r
  <2>3. /\ Ids' = Ids \cup {new} /\ doc'[new].parent = Front(r.to)
        /\ \A p \in Ids : doc'[p] = doc[p]
    BY <2>2 DEF Ids, Row, Parent
  <2>4. CASE ~Still(person)
    BY <2>1, <2>4 DEF Done, OrphansComeFromOvertakenChecks, r
  <2>5. CASE Still(person)
    <3>1. ParentsExist(doc)
      BY <2>1 DEF OrphansComeFromOvertakenChecks
    <3>2. Destination(person, r.parent)
      BY <2>1, <2>5 DEF Still, CreateMay, r
    <3>3. r.parent = <<>> \/ \E p \in Ids : doc[p].path = r.parent
      BY <3>2 DEF Destination, At
    <3> QED
      BY <2>1, <2>3, <3>1, <3>3 DEF OrphansComeFromOvertakenChecks, ParentsExist, Ids
  <2> QED
    BY <2>4, <2>5
<1>4. ASSUME NEW person \in People, Move(person)
      PROVE  OrphansComeFromOvertakenChecks'
  <2>1. request[person].kind = "move" /\ Done(person) /\ Ids' = Ids /\ stale \subseteq stale'
    BY <1>4 DEF Move, Ids, Done
  <2>2. CASE ~Still(person)
    BY <2>1, <2>2 DEF Done, OrphansComeFromOvertakenChecks
  <2>3. CASE Still(person)
    <3>1. AddressesAgree(doc) /\ ParentsExist(doc)
      BY <2>1 DEF OrphansComeFromOvertakenChecks, AddressesComeApartByMoves
    <3> QED
      BY <1>4, <2>1, <2>3, <3>1, ParentAfterMove DEF OrphansComeFromOvertakenChecks, ParentsExist, Ids
  <2> QED
    BY <2>2, <2>3
<1>5. ASSUME NEW person \in People, Trash(person) \/ Restore(person)
      PROVE  OrphansComeFromOvertakenChecks'
  <2>1. stale \subseteq stale'
    BY <1>5 DEF Trash, Restore, Done
  <2> QED
    BY <1>5, <2>1, OnlyEntriesChange DEF OrphansComeFromOvertakenChecks, ParentsExist, Ids
<1>6. CASE Purge
  <2>1. stale' = stale
    BY <1>6 DEF Purge
  <2>2. AddressesAgree(doc) /\ ParentsExist(doc)
    BY <2>1 DEF OrphansComeFromOvertakenChecks, AddressesComeApartByMoves
  <2>3. PICK page \in Ids : doc' = [id \in Ids \ Under(doc[page].path) |-> doc[id]]
    BY <1>6 DEF Purge
  <2>4. Ids' = Ids \ Under(doc[page].path) /\ \A id \in Ids' : doc'[id] = doc[id]
    BY <2>3 DEF Ids
  <2>5. ASSUME NEW id \in Ids', NEW p \in Ids, doc[p].path = doc[id].parent
        PROVE  p \in Ids'
    <3>1. /\ doc[page].path \in Strings /\ id \in Ids
          /\ doc[id].parent \in Strings /\ doc[id].slug \in Slugs
          /\ doc[id].path = Append(doc[id].parent, doc[id].slug)
      BY <2>2, <2>4 DEF Kept, TypeOK, Documents, Addresses, AddressesAgree, Ids, Strings
    <3>2. ~IsPrefix(doc[page].path, doc[id].path)
      BY <2>4, <3>1 DEF Under
    <3>3. ~IsPrefix(doc[page].path, doc[id].parent)
      BY <3>1, <3>2, PrefixOfAppend
    <3> QED
      BY <2>4, <2>5, <3>3 DEF Under
  <2> QED
    BY <2>2, <2>4, <2>5 DEF OrphansComeFromOvertakenChecks, ParentsExist, Ids
<1>7. CASE ChangeGrant
  BY <1>7 DEF ChangeGrant, OrphansComeFromOvertakenChecks, ParentsExist
<1> QED
  BY <1>1, <1>2, <1>3, <1>4, <1>5, <1>6, <1>7 DEF Next, Finished

\* Path, parent and slug say the same, in any tree, until a move is overtaken.
THEOREM AddressesAgreeUntilOvertaken == Spec => []AddressesComeApartByMoves
<1>1. Init => AddressesComeApartByMoves
  BY FirstTreesAssumption DEF Init, AddressesComeApartByMoves, Whole
<1>2. Kept /\ Kept' /\ AddressesComeApartByMoves /\ [Next]_vars => AddressesComeApartByMoves'
  BY AddressesStayApart DEF Kept
<1> QED
  BY <1>1, <1>2, KeptAlways, PTL DEF Spec

\* Every page has its parent, in any tree, until a create or a move is overtaken.
THEOREM ParentsThereUntilOvertaken == Spec => []OrphansComeFromOvertakenChecks
<1>1. Init => OrphansComeFromOvertakenChecks
  BY FirstTreesAssumption DEF Init, OrphansComeFromOvertakenChecks, Whole
<1>2. Kept /\ AddressesComeApartByMoves /\ OrphansComeFromOvertakenChecks /\ [Next]_vars
        => OrphansComeFromOvertakenChecks'
  BY ParentsStay
<1> QED
  BY <1>1, <1>2, KeptAlways, AddressesAgreeUntilOvertaken, PTL DEF Spec

-----------------------------------------------------------------------------
(* Entries of the trash *)

LEMMA RestOfRest ==
  ASSUME NEW from \in Strings, NEW x \in Strings, NEW y \in Strings, NEW rest \in Strings,
         rest = x \o y
  PROVE  (from \o x) \o y = from \o rest
  BY ConcatAssociative DEF Strings

\* Being above is transitive.
LEMMA PrefixOfPrefix ==
  ASSUME NEW s \in Strings, NEW t \in Strings, NEW u \in Strings,
         IsPrefix(s, t), IsPrefix(t, u)
  PROVE  IsPrefix(s, u)
<1>1. PICK x \in Strings : t = s \o x
  BY PrefixRest
<1>2. PICK y \in Strings : u = t \o y
  BY PrefixRest
<1>3. PICK rest \in Strings : rest = x \o y
  BY StringsConcat
<1>4. (s \o x) \o y = s \o rest
  BY <1>3, RestOfRest
<1>5. IsPrefix(s, s \o rest)
  BY StartsWith
<1> QED
  BY <1>1, <1>2, <1>4, <1>5

LEMMA LongerRest ==
  ASSUME NEW to \in Strings, NEW x \in Strings, NEW rest \in Strings, IsPrefix(x, rest)
  PROVE  IsPrefix(to \o x, to \o rest)
<1>1. PICK y \in Strings : rest = x \o y
  BY PrefixRest
<1>2. (to \o x) \o y = to \o rest
  BY <1>1, ConcatAssociative DEF Strings
<1>3. PICK above \in Strings : above = to \o x
  BY StringsConcat
<1> QED
  BY <1>2, <1>3, StartsWith

\* Of two addresses above the same one, the one is above the other.
LEMMA PrefixesCompare ==
  ASSUME NEW s \in Strings, NEW t \in Strings, NEW u \in Strings,
         IsPrefix(s, u), IsPrefix(t, u), Len(s) <= Len(t)
  PROVE  IsPrefix(s, t)
<1>1. Len(s) \in Nat /\ Len(t) \in Nat /\ Len(u) \in Nat /\ Len(t) <= Len(u)
  BY LenProperties DEF IsPrefix, Strings
<1>2. s = SubSeq(u, 1, Len(s)) /\ t = SubSeq(u, 1, Len(t))
  BY <1>1, SubSeqFull DEF IsPrefix, Strings
<1>3. SubSeq(SubSeq(u, 1, Len(t)), 1, Len(s)) = SubSeq(u, 1, Len(s))
  BY <1>1, SubSeqOfSubSeq DEF Strings
<1> QED
  BY <1>1, <1>2, <1>3, SubSeqFull DEF IsPrefix, Strings

LEMMA OneAboveTheOther ==
  ASSUME NEW s \in Strings, NEW t \in Strings, NEW u \in Strings,
         IsPrefix(s, u), IsPrefix(t, u)
  PROVE  IsPrefix(s, t) \/ IsPrefix(t, s)
<1>1. Len(s) \in Nat /\ Len(t) \in Nat
  BY LenProperties DEF Strings
<1> QED
  BY <1>1, PrefixesCompare

\* Nothing but itself, and what is above its parent, is above an address.
LEMMA AboveAddress ==
  ASSUME NEW s \in Strings, NEW parent \in Strings, NEW slug \in Slugs,
         IsPrefix(s, Append(parent, slug)), s # Append(parent, slug)
  PROVE  IsPrefix(s, parent)
  BY RenameBelow

LEMMA NotAboveItsParent ==
  ASSUME NEW parent \in Strings, NEW slug \in Slugs
  PROVE  ~IsPrefix(Append(parent, slug), parent)
<1>1. Len(Append(parent, slug)) = Len(parent) + 1 /\ Len(parent) \in Nat
  BY AppendProperties, LenProperties DEF Strings
<1> QED
  BY <1>1 DEF IsPrefix

LEMMA NothingAboveTop ==
  ASSUME NEW s \in Addresses
  PROVE  ~IsPrefix(s, <<>>)
<1>1. Len(s) \in Nat /\ Len(s) # 0 /\ Len(<<>>) = 0
  BY EmptySeq, LenProperties DEF Addresses
<1> QED
  BY <1>1 DEF IsPrefix

\* Renaming keeps what is above what.
LEMMA RenameKeepsOrder ==
  ASSUME NEW from \in Strings, NEW to \in Strings, NEW s \in Strings, NEW t \in Strings,
         IsPrefix(from, s), IsPrefix(s, t)
  PROVE  IsPrefix(Rename(from, to, s), Rename(from, to, t))
<1>1. PICK x \in Strings : s = from \o x
  BY PrefixRest
<1>2. PICK y \in Strings : t = s \o y
  BY PrefixRest
<1>3. PICK rest \in Strings : rest = x \o y
  BY StringsConcat
<1>4. (from \o x) \o y = from \o rest
  BY <1>3, RestOfRest
<1>5. Rename(from, to, from \o x) = to \o x
  BY RenameConcat
<1>6. Rename(from, to, from \o rest) = to \o rest
  BY RenameConcat
<1>7. IsPrefix(x, rest)
  BY <1>3, StartsWith
<1>8. IsPrefix(to \o x, to \o rest)
  BY <1>7, LongerRest
<1> QED
  BY <1>1, <1>2, <1>4, <1>5, <1>6, <1>8

LEMMA RenameBack ==
  ASSUME NEW from \in Strings, NEW to \in Strings, NEW s \in Strings, IsPrefix(from, s)
  PROVE  /\ Rename(from, to, s) \in Strings /\ IsPrefix(to, Rename(from, to, s))
         /\ Rename(to, from, Rename(from, to, s)) = s
<1>1. PICK x \in Strings : s = from \o x
  BY PrefixRest
<1>2. Rename(from, to, s) = to \o x
  BY <1>1, RenameConcat
<1>3. Rename(to, from, to \o x) = from \o x
  BY RenameConcat
<1> QED
  BY <1>1, <1>2, <1>3, StringsConcat, StartsWith

\* What holds of the tree as long as no create, trash or move was overtaken.
Stands(rows) == EntriesAreWhole(rows) /\ LiveAboveLive(rows) /\ EntriesNest(rows)

Upright ==
  Kept /\ AddressesAgree(doc) /\ ParentsExist(doc) /\ ~Hole(doc) /\ Stands(doc)

LEMMA RowsOfTree ==
  ASSUME Kept, NEW id \in Ids
  PROVE  /\ doc[id].path \in Strings /\ doc[id].path \in Addresses /\ doc[id].path # <<>>
         /\ doc[id].parent \in Strings /\ doc[id].slug \in Slugs
         /\ doc[id].root \in Pages \cup {NoPage}
         /\ IsPrefix(doc[id].path, doc[id].path)
<1>1. /\ doc[id].path \in Strings /\ doc[id].path \in Addresses /\ doc[id].path # <<>>
      /\ doc[id].parent \in Strings /\ doc[id].slug \in Slugs
      /\ doc[id].root \in Pages \cup {NoPage}
  BY DEF Kept, TypeOK, Documents, Addresses, Strings
<1> QED
  BY <1>1, RenameItself

\* Above a place where a page may go there is nothing in the trash.
LEMMA NoTrashAboveDestination ==
  ASSUME Upright, NEW person, NEW parent, Destination(person, parent),
         NEW q \in Ids, IsPrefix(doc[q].path, parent)
  PROVE  Live(q)
<1>1. CASE parent = <<>>
  BY <1>1, RowsOfTree, NothingAboveTop DEF Upright
<1>2. CASE parent # <<>>
  <2>1. PICK p \in Ids : doc[p].path = parent /\ Live(p)
    BY <1>2 DEF Destination, At
  <2> QED
    BY <2>1 DEF Upright, Stands, LiveAboveLive, Live, Ids
<1> QED
  BY <1>1, <1>2

LEMMA CreateStands ==
  ASSUME Upright, NEW person \in People, Create(person), Still(person)
  PROVE  Stands(doc')
<1> DEFINE r == request[person]
<1>1. r.kind = "create" /\ r.to \in Addresses /\ r.parent = Front(r.to)
  BY DEF Create, Upright, Kept, Requests, Fits
<1>2. CreateMay(person, r)
  BY <1>1 DEF Still
<1>3. Destination(person, r.parent) /\ At(r.to) = {}
  BY <1>2 DEF CreateMay
<1>4. PICK new \in Pages \ Ids :
        doc' = [other \in Ids \cup {new} |-> IF other = new THEN Row(r.to, NoPage) ELSE doc[other]]
  BY DEF Create
<1> HIDE DEF r
<1>5. /\ Ids' = Ids \cup {new}
      /\ doc'[new].path = r.to /\ doc'[new].root = NoPage
      /\ \A id \in Ids : doc'[id] = doc[id]
  BY <1>4 DEF Ids, Row
<1>6. r.to = Append(r.parent, Last(r.to)) /\ r.parent \in Strings /\ Last(r.to) \in Slugs
  BY <1>1, FrontLast, FrontType DEF Strings
<1>7. EntriesAreWhole(doc')
  BY <1>5 DEF EntriesAreWhole, Upright, Stands, Ids
<1>8. ASSUME NEW p \in Ids, IsPrefix(doc[p].path, r.to)
      PROVE  Live(p)
  <2>1. doc[p].path # r.to
    BY <1>3 DEF At
  <2>2. IsPrefix(doc[p].path, r.parent)
    <3>1. doc[p].path \in Strings
      BY RowsOfTree DEF Upright
    <3>2. /\ IsPrefix(doc[p].path, Append(r.parent, Last(r.to)))
          /\ doc[p].path # Append(r.parent, Last(r.to))
      BY <1>6, <1>8, <2>1
    <3> QED
      BY <1>6, <3>1, <3>2, AboveAddress
  <2> QED
    BY <1>3, <2>2, NoTrashAboveDestination
<1>9. LiveAboveLive(doc')
  BY <1>5, <1>8 DEF LiveAboveLive, Upright, Stands, Ids, Live
<1>10. EntriesNest(doc')
  <2> SUFFICES ASSUME NEW c \in Ids', NEW p \in Ids', doc'[p].root # NoPage,
                      doc'[c].root \notin {NoPage, doc'[p].root},
                      IsPrefix(doc'[p].path, doc'[c].path)
               PROVE  IsPrefix(doc'[p].path, doc'[doc'[c].root].path)
    BY DEF EntriesNest, Ids
  <2>1. c \in Ids /\ p \in Ids
    BY <1>5
  <2>2. doc[c].root \in Ids
    BY <1>5, <2>1 DEF Upright, Stands, EntriesAreWhole, Ids
  <2> QED
    BY <1>5, <2>1, <2>2 DEF Upright, Stands, EntriesNest, Ids
<1> QED
  BY <1>7, <1>9, <1>10 DEF Stands

LEMMA TrashStands ==
  ASSUME Upright, NEW person \in People, Trash(person), Still(person)
  PROVE  Stands(doc')
<1> DEFINE r == request[person]
<1>1. r.kind = "trash"
  BY DEF Trash
<1>2. TrashMay(person, r)
  BY <1>1 DEF Still
<1>3. r.page \in Ids /\ Live(r.page) /\ doc[r.page].path = r.from
  BY <1>2 DEF TrashMay
<1>4. doc' = [id \in Ids |-> IF id \in LiveUnder(r.from)
                             THEN [doc[id] EXCEPT !.root = r.page] ELSE doc[id]]
  BY DEF Trash
<1> DEFINE page == r.page
           Gone(id) == Live(id) /\ IsPrefix(doc[page].path, doc[id].path)
<1>5. Ids' = Ids
  BY <1>4 DEF Ids
<1>6. ASSUME NEW id \in Ids
      PROVE  doc'[id].path = doc[id].path
             /\ doc'[id].root = IF Gone(id) THEN page ELSE doc[id].root
  BY <1>3, <1>4 DEF LiveUnder, Under, Upright, Kept, TypeOK, Documents
<1>7. page \in Ids /\ Live(page) /\ Gone(page) /\ page # NoPage
  BY <1>3, RowsOfTree, NoPageAssumption DEF Upright, Kept, TypeOK
<1> HIDE DEF page, r
<1>8. ASSUME NEW id \in Ids, doc[id].root # NoPage
      PROVE  /\ doc[id].root \in Ids /\ doc[doc[id].root].root = doc[id].root
             /\ IsPrefix(doc[doc[id].root].path, doc[id].path)
             /\ doc'[id].root = doc[id].root /\ doc'[doc[id].root].root = doc[id].root
  BY <1>6, <1>8 DEF Upright, Stands, EntriesAreWhole, Ids, Live
<1>9. EntriesAreWhole(doc')
  <2> SUFFICES ASSUME NEW id \in Ids, doc'[id].root # NoPage
               PROVE  /\ doc'[id].root \in Ids
                      /\ doc'[doc'[id].root].root = doc'[id].root
                      /\ IsPrefix(doc'[doc'[id].root].path, doc'[id].path)
    BY <1>5 DEF EntriesAreWhole, Ids
  <2>1. CASE Gone(id)
    BY <1>6, <1>7, <2>1
  <2>2. CASE ~Gone(id)
    BY <1>6, <1>8, <2>2
  <2> QED
    BY <2>1, <2>2
<1>10. LiveAboveLive(doc')
  <2> SUFFICES ASSUME NEW c \in Ids, NEW p \in Ids, doc'[c].root = NoPage,
                      IsPrefix(doc'[p].path, doc'[c].path)
               PROVE  doc'[p].root = NoPage
    BY <1>5 DEF LiveAboveLive, Ids
  <2>1. IsPrefix(doc[p].path, doc[c].path) /\ ~Gone(c) /\ Live(c)
    BY <1>6, <1>7 DEF Live
  <2>2. Live(p)
    BY <2>1 DEF Upright, Stands, LiveAboveLive, Ids, Live
  <2>3. ~IsPrefix(doc[page].path, doc[p].path)
    BY <1>7, <2>1, RowsOfTree, PrefixOfPrefix DEF Upright
  <2> QED
    BY <1>6, <2>2, <2>3 DEF Live
<1>11. EntriesNest(doc')
  <2> SUFFICES ASSUME NEW c \in Ids, NEW p \in Ids, doc'[p].root # NoPage,
                      doc'[c].root \notin {NoPage, doc'[p].root},
                      IsPrefix(doc'[p].path, doc'[c].path)
               PROVE  IsPrefix(doc'[p].path, doc'[doc'[c].root].path)
    BY <1>5 DEF EntriesNest, Ids
  <2>1. IsPrefix(doc[p].path, doc[c].path)
    BY <1>6
  <2>2. CASE Gone(c)
    <3>1. Live(p)
      BY <2>1, <2>2 DEF Upright, Stands, LiveAboveLive, Ids, Live
    <3> QED
      BY <1>6, <2>2, <3>1 DEF Live
  <2>3. CASE ~Gone(c) /\ ~Live(p)
    <3>1. doc[p].root # NoPage /\ doc[c].root \notin {NoPage, doc[p].root}
      BY <1>6, <1>8, <2>3 DEF Live
    <3>2. IsPrefix(doc[p].path, doc[doc[c].root].path)
      BY <2>1, <3>1 DEF Upright, Stands, EntriesNest, Ids
    <3> QED
      BY <1>6, <1>8, <3>1, <3>2
  <2>4. CASE ~Gone(c) /\ Live(p)
    <3>1. doc[c].root # NoPage
      BY <1>6, <2>4
    <3>2. doc[c].root \in Ids /\ ~Live(doc[c].root)
            /\ IsPrefix(doc[doc[c].root].path, doc[c].path)
      BY <1>8, <3>1 DEF Live
    <3>3. ~IsPrefix(doc[doc[c].root].path, doc[p].path)
      BY <2>4, <3>2 DEF Upright, Stands, LiveAboveLive, Ids, Live
    <3>4. IsPrefix(doc[p].path, doc[doc[c].root].path)
      BY <2>1, <3>2, <3>3, RowsOfTree, OneAboveTheOther DEF Upright
    <3> QED
      BY <1>6, <1>8, <3>1, <3>2, <3>4
  <2> QED
    BY <2>2, <2>3, <2>4
<1> QED
  BY <1>9, <1>10, <1>11 DEF Stands

LEMMA RestoreStands ==
  ASSUME Upright, NEW person \in People, Restore(person)
  PROVE  Stands(doc')
<1> DEFINE root == request[person].page
<1>1. root \in Pages /\ root # NoPage
  BY NoPageAssumption DEF Restore, Upright, Kept, Requests, Fits
<1>2. doc' = [id \in Ids |-> IF doc[id].root = root THEN [doc[id] EXCEPT !.root = NoPage]
                             ELSE doc[id]]
        /\ ~Hole(doc')
  BY DEF Restore
<1> HIDE DEF root
<1>3. Ids' = Ids
  BY <1>2 DEF Ids
<1>4. ASSUME NEW id \in Ids
      PROVE  /\ doc'[id].path = doc[id].path /\ doc'[id].parent = doc[id].parent
             /\ doc'[id].root = IF doc[id].root = root THEN NoPage ELSE doc[id].root
  BY <1>2 DEF Upright, Kept, TypeOK, Documents
<1>5. ASSUME NEW id \in Ids, doc[id].root # NoPage
      PROVE  /\ doc[id].root \in Ids /\ doc[doc[id].root].root = doc[id].root
             /\ IsPrefix(doc[doc[id].root].path, doc[id].path)
  BY <1>5 DEF Upright, Stands, EntriesAreWhole, Ids
<1>6. EntriesAreWhole(doc')
  BY <1>3, <1>4, <1>5 DEF EntriesAreWhole, Ids
<1>7. EntriesNest(doc')
  <2> SUFFICES ASSUME NEW c \in Ids, NEW p \in Ids, doc'[p].root # NoPage,
                      doc'[c].root \notin {NoPage, doc'[p].root},
                      IsPrefix(doc'[p].path, doc'[c].path)
               PROVE  IsPrefix(doc'[p].path, doc'[doc'[c].root].path)
    BY <1>3 DEF EntriesNest, Ids
  <2>1. /\ doc'[c].root = doc[c].root /\ doc'[p].root = doc[p].root
        /\ doc[c].root # NoPage /\ IsPrefix(doc[p].path, doc[c].path)
    BY <1>4
  <2>2. IsPrefix(doc[p].path, doc[doc[c].root].path)
    BY <2>1 DEF Upright, Stands, EntriesNest, Ids
  <2> QED
    BY <1>4, <1>5, <2>1, <2>2
<1>8. ASSUME NEW p \in Ids, doc'[p].root # NoPage, root \in Ids, doc[root].root = root,
             IsPrefix(doc[p].path, doc[root].path)
      PROVE  FALSE
  <2>1. doc[p].root # NoPage /\ doc[p].root # root
    BY <1>4, <1>8
  <2>2. doc[p].path # doc[root].path
    BY <1>8, <2>1 DEF Upright, Kept, OnePath
  <2>3. doc[root].path = Append(doc[root].parent, doc[root].slug)
    BY <1>8 DEF Upright, AddressesAgree, Ids
  <2>4. IsPrefix(doc[p].path, doc[root].parent)
    <3>1. /\ IsPrefix(doc[p].path, Append(doc[root].parent, doc[root].slug))
          /\ doc[p].path # Append(doc[root].parent, doc[root].slug)
      BY <1>8, <2>2, <2>3
    <3> QED
      BY <1>8, <3>1, RowsOfTree, AboveAddress DEF Upright
  <2>5. doc[root].parent # <<>>
    BY <2>4, RowsOfTree, NothingAboveTop DEF Upright
  <2>6. PICK m \in Ids : doc[m].path = doc[root].parent
    BY <1>8, <2>5 DEF Upright, ParentsExist, Ids
  <2>7. doc'[m].root = NoPage
    BY <1>2, <1>3, <1>4, <1>8, <2>6 DEF Hole, Ids
  <2>8. CASE doc[m].root = NoPage
    BY <2>1, <2>4, <2>6, <2>8 DEF Upright, Stands, LiveAboveLive, Ids
  <2>9. CASE doc[m].root = root
    <3>1. IsPrefix(Append(doc[root].parent, doc[root].slug), doc[root].parent)
      BY <1>1, <1>5, <2>3, <2>6, <2>9
    <3> QED
      BY <1>8, <3>1, RowsOfTree, NotAboveItsParent DEF Upright
  <2> QED
    BY <1>4, <2>7, <2>8, <2>9
<1>9. LiveAboveLive(doc')
  <2> SUFFICES ASSUME NEW c \in Ids, NEW p \in Ids, doc'[c].root = NoPage,
                      IsPrefix(doc'[p].path, doc'[c].path), doc'[p].root # NoPage
               PROVE  FALSE
    BY <1>3 DEF LiveAboveLive, Ids
  <2>1. IsPrefix(doc[p].path, doc[c].path) /\ doc[p].root \notin {NoPage, root}
    BY <1>4
  <2>2. doc[c].root # NoPage
    BY <2>1 DEF Upright, Stands, LiveAboveLive, Ids
  <2>3. doc[c].root = root
    BY <1>4, <2>2
  <2>4. root \in Ids /\ doc[root].root = root
    BY <1>5, <2>2, <2>3
  <2>5. IsPrefix(doc[p].path, doc[root].path)
    BY <2>1, <2>2, <2>3 DEF Upright, Stands, EntriesNest, Ids
  <2> QED
    BY <1>8, <2>4, <2>5
<1> QED
  BY <1>6, <1>7, <1>9 DEF Stands

LEMMA PurgeStands ==
  ASSUME Upright, Purge
  PROVE  Stands(doc')
<1>1. PICK page \in Ids : doc' = [id \in Ids \ Under(doc[page].path) |-> doc[id]]
  BY DEF Purge
<1>2. Ids' = Ids \ Under(doc[page].path) /\ \A id \in Ids' : doc'[id] = doc[id]
  BY <1>1 DEF Ids
<1>3. ASSUME NEW id \in Ids', doc[id].root # NoPage
      PROVE  /\ doc[id].root \in Ids' /\ doc[doc[id].root].root = doc[id].root
             /\ IsPrefix(doc[doc[id].root].path, doc[id].path)
  <2>1. /\ doc[id].root \in Ids /\ doc[doc[id].root].root = doc[id].root
        /\ IsPrefix(doc[doc[id].root].path, doc[id].path)
    BY <1>2, <1>3 DEF Upright, Stands, EntriesAreWhole, Ids
  <2>2. ~IsPrefix(doc[page].path, doc[id].path)
    BY <1>2 DEF Under
  <2>3. ~IsPrefix(doc[page].path, doc[doc[id].root].path)
    BY <1>2, <2>1, <2>2, RowsOfTree, PrefixOfPrefix DEF Upright
  <2> QED
    BY <1>2, <2>1, <2>3 DEF Under
<1>4. EntriesAreWhole(doc')
  BY <1>2, <1>3 DEF EntriesAreWhole, Ids
<1>5. LiveAboveLive(doc')
  BY <1>2 DEF LiveAboveLive, Upright, Stands, Ids
<1>6. EntriesNest(doc')
  BY <1>2, <1>3 DEF EntriesNest, Upright, Stands, Ids
<1> QED
  BY <1>4, <1>5, <1>6 DEF Stands

LEMMA MoveStands ==
  ASSUME Upright, NEW person \in People, Move(person), Still(person)
  PROVE  Stands(doc')
<1> DEFINE r == request[person]
           Moved(id) == r.to # r.from /\ IsPrefix(r.from, doc[id].path)
<1>1. r.kind = "move" /\ Fits(r) /\ doc' = [id \in Ids |-> MovedRow(r, id)]
  BY DEF Move, Upright, Kept, Requests
<1>2. MoveMay(person, r)
  BY <1>1 DEF Still
<1>3. /\ r.page \in Ids /\ Live(r.page) /\ doc[r.page].path = r.from
      /\ Destination(person, r.parent)
      /\ r.to # r.from => Under(r.to) = {}
  BY <1>2 DEF MoveMay
<1>4. /\ r.from \in Strings /\ r.to \in Strings
      /\ r.parent \in Strings /\ Last(r.to) \in Slugs /\ r.to = Append(r.parent, Last(r.to))
  BY <1>1, FrontType, FrontLast DEF Fits, Addresses, Strings
<1>5. Ids' = Ids
  BY <1>1 DEF Ids
<1>6. ASSUME NEW id \in Ids
      PROVE  /\ doc'[id].root = doc[id].root
             /\ doc'[id].path = IF Moved(id) THEN Rename(r.from, r.to, doc[id].path)
                                ELSE doc[id].path
  BY <1>1, MovedPathOfRow DEF Under, Upright
<1> HIDE DEF r
<1>7. ASSUME NEW id \in Ids
      PROVE  /\ doc'[id].path \in Strings
             /\ Moved(id) => IsPrefix(r.to, doc'[id].path)
             /\ ~Moved(id) /\ r.to # r.from => ~IsPrefix(r.to, doc'[id].path)
  <2>1. doc[id].path \in Strings
    BY RowsOfTree DEF Upright
  <2>2. CASE Moved(id)
    <3>1. /\ Rename(r.from, r.to, doc[id].path) \in Strings
          /\ IsPrefix(r.to, Rename(r.from, r.to, doc[id].path))
      BY <1>4, <2>1, <2>2, RenameBack
    <3> QED
      BY <1>6, <2>2, <3>1
  <2>3. CASE ~Moved(id)
    BY <1>3, <1>6, <2>1, <2>3 DEF Under
  <2> QED
    BY <2>2, <2>3
\* Nothing in the trash is above the page that moves, nor above the place where it goes.
<1>8. ASSUME NEW q \in Ids, ~Live(q)
      PROVE  ~IsPrefix(doc[q].path, r.from)
  BY <1>3, <1>8 DEF Upright, Stands, LiveAboveLive, Ids, Live
<1>9. ASSUME NEW q \in Ids, ~Live(q), r.to # r.from
      PROVE  ~IsPrefix(doc[q].path, r.to)
  <2>1. SUFFICES ASSUME IsPrefix(doc[q].path, Append(r.parent, Last(r.to))) PROVE FALSE
    BY <1>4
  <2>2. doc[q].path # Append(r.parent, Last(r.to))
    BY <1>3, <1>4, <1>9, RenameItself DEF Under
  <2>3. doc[q].path \in Strings
    BY RowsOfTree DEF Upright
  <2>4. IsPrefix(doc[q].path, r.parent)
    BY <1>4, <2>1, <2>2, <2>3, AboveAddress
  <2> QED
    BY <1>3, <1>9, <2>4, NoTrashAboveDestination
\* What was below a page in the trash is below it afterwards, and nothing else is.
<1>10. ASSUME NEW p \in Ids, NEW c \in Ids, ~Live(p)
       PROVE  /\ IsPrefix(doc[p].path, doc[c].path)
                   => IsPrefix(doc'[p].path, doc'[c].path) /\ (Moved(p) <=> Moved(c))
              /\ IsPrefix(doc'[p].path, doc'[c].path) => IsPrefix(doc[p].path, doc[c].path)
  <2>1. doc[p].path \in Strings /\ doc[c].path \in Strings
    BY RowsOfTree DEF Upright
  <2>2. ASSUME IsPrefix(doc[p].path, doc[c].path)
        PROVE  Moved(p) <=> Moved(c)
    <3>1. Moved(p) => Moved(c)
      BY <1>4, <2>1, <2>2, PrefixOfPrefix
    <3>2. Moved(c) => Moved(p)
      BY <1>4, <1>8, <1>10, <2>1, <2>2, OneAboveTheOther
    <3> QED
      BY <3>1, <3>2
  <2>3. ASSUME IsPrefix(doc[p].path, doc[c].path)
        PROVE  IsPrefix(doc'[p].path, doc'[c].path)
    <3>1. CASE Moved(p) /\ Moved(c)
      BY <1>4, <1>6, <2>1, <2>3, <3>1, RenameKeepsOrder
    <3>2. CASE ~Moved(p) /\ ~Moved(c)
      BY <1>6, <2>3, <3>2
    <3> QED
      BY <2>2, <2>3, <3>1, <3>2
  <2>4. ASSUME IsPrefix(doc'[p].path, doc'[c].path)
        PROVE  IsPrefix(doc[p].path, doc[c].path)
    <3>1. CASE Moved(p) /\ Moved(c)
      <4>1. ASSUME NEW id \in Ids, Moved(id), doc[id].path \in Strings
            PROVE  Rename(r.to, r.from, doc'[id].path) = doc[id].path
        <5>1. Rename(r.to, r.from, Rename(r.from, r.to, doc[id].path)) = doc[id].path
          BY <1>4, <4>1, RenameBack
        <5> QED
          BY <1>6, <4>1, <5>1
      <4>2. IsPrefix(Rename(r.to, r.from, doc'[p].path), Rename(r.to, r.from, doc'[c].path))
        BY <1>4, <1>7, <2>4, <3>1, RenameKeepsOrder
      <4> QED
        BY <2>1, <3>1, <4>1, <4>2
    <3>2. CASE Moved(p) /\ ~Moved(c)
      BY <1>4, <1>7, <2>4, <3>2, PrefixOfPrefix
    <3>3. CASE ~Moved(p) /\ Moved(c)
      <4>1. IsPrefix(r.to, doc'[c].path) /\ ~IsPrefix(r.to, doc'[p].path)
        BY <1>7, <3>3
      <4>2. IsPrefix(doc'[p].path, r.to)
        BY <1>4, <1>7, <2>4, <4>1, OneAboveTheOther
      <4> QED
        BY <1>6, <1>9, <1>10, <3>3, <4>2
    <3>4. CASE ~Moved(p) /\ ~Moved(c)
      BY <1>6, <2>4, <3>4
    <3> QED
      BY <3>1, <3>2, <3>3, <3>4
  <2> QED
    BY <2>2, <2>3, <2>4
<1> HIDE DEF Moved
<1>11. ASSUME NEW id \in Ids, doc[id].root # NoPage
       PROVE  /\ doc[id].root \in Ids /\ doc[doc[id].root].root = doc[id].root
              /\ ~Live(doc[id].root)
              /\ IsPrefix(doc[doc[id].root].path, doc[id].path)
  BY <1>11 DEF Upright, Stands, EntriesAreWhole, Ids, Live
<1>12. EntriesAreWhole(doc')
  BY <1>5, <1>6, <1>10, <1>11 DEF EntriesAreWhole, Ids
<1>13. LiveAboveLive(doc')
  BY <1>5, <1>6, <1>10 DEF LiveAboveLive, Upright, Stands, Ids, Live
<1>14. EntriesNest(doc')
  <2> SUFFICES ASSUME NEW c \in Ids, NEW p \in Ids, doc'[p].root # NoPage,
                      doc'[c].root \notin {NoPage, doc'[p].root},
                      IsPrefix(doc'[p].path, doc'[c].path)
               PROVE  IsPrefix(doc'[p].path, doc'[doc'[c].root].path)
    BY <1>5 DEF EntriesNest, Ids
  <2>1. ~Live(p) /\ doc[p].root # NoPage /\ doc[c].root \notin {NoPage, doc[p].root}
          /\ doc'[c].root = doc[c].root
    BY <1>6 DEF Live
  <2>2. IsPrefix(doc[p].path, doc[c].path)
    BY <1>10, <2>1
  <2>3. IsPrefix(doc[p].path, doc[doc[c].root].path)
    BY <2>1, <2>2 DEF Upright, Stands, EntriesNest, Ids
  <2>4. doc[c].root \in Ids
    BY <1>11, <2>1
  <2> QED
    BY <1>10, <2>1, <2>3, <2>4
<1> QED
  BY <1>12, <1>13, <1>14 DEF Stands

\* Each step leaves the entries as they should be, or is a create, a trash or a move that had
\* been overtaken.
LEMMA EntriesStay ==
  ASSUME Kept, AddressesComeApartByMoves, OrphansComeFromOvertakenChecks, EntriesStand,
         [Next]_vars
  PROVE  EntriesStand'
<1> DEFINE Overtaken == stale \cap {"create", "trash", "move"} # {}
<1>0. EntriesStand = (Stands(doc) \/ Overtaken) /\ EntriesStand' = (Stands(doc') \/ Overtaken')
  BY DEF EntriesStand, Stands
<1>1. CASE Overtaken /\ stale \subseteq stale'
  BY <1>0, <1>1
<1>2. CASE ~Overtaken
  <2>1. Upright
    BY <1>0, <1>2 DEF Upright, Kept, HolesComeFromCreates, AddressesComeApartByMoves,
                      OrphansComeFromOvertakenChecks
  <2>2. CASE UNCHANGED doc
    BY <1>0, <2>1, <2>2 DEF Upright
  <2>3. ASSUME NEW person \in People, Create(person) \/ Trash(person) \/ Move(person)
        PROVE  EntriesStand'
    <3>1. CASE Still(person)
      BY <1>0, <2>1, <2>3, <3>1, CreateStands, TrashStands, MoveStands
    <3>2. CASE ~Still(person)
      <4>1. request[person].kind \in {"create", "trash", "move"} /\ Done(person)
        BY <2>3 DEF Create, Trash, Move
      <4> QED
        BY <1>0, <3>2, <4>1 DEF Done
    <3> QED
      BY <3>1, <3>2
  <2>4. ASSUME NEW person \in People, Restore(person)
        PROVE  EntriesStand'
    BY <1>0, <2>1, <2>4, RestoreStands
  <2>5. CASE Purge
    BY <1>0, <2>1, <2>5, PurgeStands
  <2>6. CASE UNCHANGED vars \/ ChangeGrant \/ Finished
    BY <2>2, <2>6 DEF vars, ChangeGrant, Finished
  <2>7. ASSUME NEW person \in People,
               \/ AskCreate(person) \/ AskMove(person) \/ AskTrash(person) \/ AskRestore(person)
               \/ Rollback(person)
        PROVE  UNCHANGED doc
    BY <2>7 DEF AskCreate, AskMove, AskTrash, AskRestore, Ask, Rollback
  <2> QED
    BY <2>2, <2>3, <2>4, <2>5, <2>6, <2>7 DEF Next
<1>3. stale \subseteq stale'
  BY DEF Next, vars, AskCreate, AskMove, AskTrash, AskRestore, Ask, Rollback, Create, Move, Trash,
         Restore, Purge, ChangeGrant, Finished, Done
<1> QED
  BY <1>1, <1>2, <1>3

\* Every trashed page belongs to an entry that stands in the trash, at its path or above it, in
\* any tree of any depth, until a create, a trash or a move is overtaken.
THEOREM TrashStandsUntilOvertaken == Spec => []StrandedComeFromOvertakenChecks
<1>1. Init => EntriesStand
  BY FirstTreesAssumption DEF Init, EntriesStand, Whole
<1>2. Kept /\ AddressesComeApartByMoves /\ OrphansComeFromOvertakenChecks /\ EntriesStand
        /\ [Next]_vars => EntriesStand'
  BY EntriesStay
<1>3. EntriesStand => StrandedComeFromOvertakenChecks
  BY DEF EntriesStand, StrandedComeFromOvertakenChecks
<1> QED
  BY <1>1, <1>2, <1>3, KeptAlways, AddressesAgreeUntilOvertaken, ParentsThereUntilOvertaken,
     PTL DEF Spec

-----------------------------------------------------------------------------
(* Who may read *)

\* The rows that decide about an address outside both ends of a move stay the ones they were.
LEMMA GrantsOutside ==
  ASSUME Kept, NEW r, Fits(r), r.kind = "move", NEW path \in Addresses,
         ~IsPrefix(r.from, path), ~IsPrefix(r.to, path)
  PROVE  GrantsOn(MovedAcl(r), path) = GrantsOn(acl, path)
<1>1. ASSUME NEW n \in 1..Len(path), NEW row,
             row.path = SubSeq(path, 1, n)
      PROVE  row \in MovedAcl(r) <=> row \in acl
  <2>1. r.from \in Seq(Slugs) /\ r.to \in Seq(Slugs) /\ path \in Seq(Slugs)
    BY DEF Fits, Addresses
  <2>2. ~IsPrefix(r.from, SubSeq(path, 1, n)) /\ ~IsPrefix(r.to, SubSeq(path, 1, n))
    BY <2>1, PrefixTransitive
  <2>3. ASSUME NEW old \in acl, ~IsPrefix(r.from, old.path)
        PROVE  [old EXCEPT !.path = MovedPath(r, old.path)] = old
    BY <2>3 DEF MovedPath, Kept, TypeOK, AclRows
  <2>4. ASSUME row \in acl
        PROVE  row \in MovedAcl(r)
    BY <1>1, <2>2, <2>3, <2>4 DEF MovedAcl
  <2>5. ASSUME row \in MovedAcl(r)
        PROVE  row \in acl
    <3>1. PICK old \in acl : row = [old EXCEPT !.path = MovedPath(r, old.path)]
      BY <2>5 DEF MovedAcl
    <3>2. old.path \in Seq(Slugs) /\ row.path = MovedPath(r, old.path)
      BY <3>1 DEF Kept, TypeOK, AclRows
    <3>3. CASE IsPrefix(r.from, old.path)
      <4>1. \A i \in (Len(r.from) + 1)..Len(old.path) : old.path[i] \in Slugs
        BY <2>1, <3>2, ElementOfSeq, LenProperties
      <4>2. SubSeq(old.path, Len(r.from) + 1, Len(old.path)) \in Seq(Slugs)
        BY <2>1, <3>2, <4>1, LenProperties, SubSeqProperties
      <4>3. IsPrefix(r.to, row.path)
        BY <2>1, <3>2, <3>3, <4>2, PrefixOfConcat DEF MovedPath, Rename
      <4> QED
        BY <1>1, <2>2, <4>3
    <3>4. CASE ~IsPrefix(r.from, old.path)
      BY <2>3, <3>1, <3>4
    <3> QED
      BY <3>3, <3>4
  <2> QED
    BY <2>4, <2>5
<1> QED
  BY <1>1 DEF GrantsOn

\* A move that leaves its page where it was leaves the grants where they were.
LEMMA GrantsInPlace ==
  ASSUME Kept, NEW r, Fits(r), r.kind = "move", r.to = r.from
  PROVE  MovedAcl(r) = acl
<1>1. ASSUME NEW row \in acl
      PROVE  [row EXCEPT !.path = MovedPath(r, row.path)] = row
  <2>1. row.path \in Seq(Slugs) /\ r.from \in Seq(Slugs)
    BY DEF Kept, TypeOK, AclRows, Fits, Addresses
  <2>2. MovedPath(r, row.path) = row.path
    BY <2>1, RenameSelf DEF MovedPath
  <2> QED
    BY <2>2 DEF Kept, TypeOK, AclRows
<1> QED
  BY <1>1 DEF MovedAcl

LEMMA MoveWidensNothing ==
  ASSUME Kept, NEW person \in People, Move(person),
         Still(person), ~request[person].administers,
         NEW id \in Ids, Live(id)
  PROVE  Readers(acl', doc'[id].path) \subseteq Readers(acl, doc[id].path)
<1> DEFINE r == request[person]
<1>1. r.kind = "move" /\ Fits(r)
  BY DEF Move, Kept, Requests
<1>2. MoveMay(person, r)
  BY <1>1 DEF Still
<1>3. doc' = [other \in Ids |-> MovedRow(r, other)] /\ acl' = MovedAcl(r) /\ ~Gains(r, acl')
  BY DEF Move
<1>4. r.to # r.from => Under(r.to) = {}
  BY <1>2 DEF MoveMay
<1>5. r.before = [path \in {doc[other].path : other \in LiveUnder(r.from)} |-> Readers(acl, path)]
  BY <1>2 DEF MoveMay
<1> HIDE DEF r
<1>6. doc[id].path \in Addresses /\ r.from \in Seq(Slugs) /\ doc'[id].path = MovedRow(r, id).path
  BY <1>1, <1>3 DEF Kept, TypeOK, Documents, Fits, Addresses
<1>7. CASE id \in Under(r.from)
  <2>1. doc[id].path \in DOMAIN r.before /\ r.before[doc[id].path] = Readers(acl, doc[id].path)
    BY <1>5, <1>7 DEF LiveUnder
  <2>2. Readers(acl', Rename(r.from, r.to, doc[id].path)) \subseteq Readers(acl, doc[id].path)
    BY <1>3, <2>1 DEF Gains
  <2>3. doc'[id].path = Rename(r.from, r.to, doc[id].path)
    BY <1>1, <1>6, <1>7, MovedPathOfRow, RenameSelf DEF Under, Addresses
  <2> QED
    BY <2>2, <2>3
<1>8. CASE id \notin Under(r.from)
  <2>1. doc'[id].path = doc[id].path
    BY <1>1, <1>6, <1>8, MovedPathOfRow
  <2>2. GrantsOn(acl', doc[id].path) = GrantsOn(acl, doc[id].path)
    <3>1. CASE r.to = r.from
      BY <1>1, <1>3, <3>1, GrantsInPlace
    <3>2. CASE r.to # r.from
      <4>1. ~IsPrefix(r.from, doc[id].path) /\ ~IsPrefix(r.to, doc[id].path)
        BY <1>4, <1>8, <3>2 DEF Under
      <4> QED
        BY <1>1, <1>3, <1>6, <4>1, GrantsOutside
    <3> QED
      BY <3>1, <3>2
  <2> QED
    BY <2>1, <2>2 DEF Readers, MayOn
<1> QED
  BY <1>7, <1>8

\* A move whose measurement still holds lets nobody read what they could not, whatever the tree
\* and the grants, unless the mover administers the destination.
THEOREM NobodyGains == Spec => MovesWidenNothing
<1> DEFINE Moves(person) ==
      request[person].kind = "move" /\ doc' # doc /\ request'[person] = Idle
<1>1. ASSUME Kept, [Next]_vars, NEW person \in People, Moves(person)
      PROVE  Move(person)
  <2>1. request[person] # Idle
    BY <1>1 DEF Idle
  <2>2. ~UNCHANGED vars
    BY <1>1 DEF vars
  <2>3. ASSUME NEW other \in People,
               \/ AskCreate(other) \/ AskMove(other) \/ AskTrash(other) \/ AskRestore(other)
               \/ Rollback(other)
        PROVE  FALSE
    BY <1>1, <2>3 DEF AskCreate, AskMove, AskTrash, AskRestore, Ask, Rollback
  <2>4. ASSUME NEW other \in People, other # person, Done(other)
        PROVE  FALSE
    BY <1>1, <2>1, <2>4 DEF Done, Kept, Requests
  <2>5. ASSUME Create(person) \/ Trash(person) \/ Restore(person)
        PROVE  FALSE
    BY <1>1, <2>5 DEF Create, Trash, Restore
  <2>6. ~Purge /\ ~ChangeGrant
    BY <1>1, <2>1 DEF Purge, ChangeGrant
  <2>7. PICK other \in People :
          Create(other) \/ Move(other) \/ Trash(other) \/ Restore(other)
    BY <1>1, <2>2, <2>3, <2>6 DEF Next, Finished
  <2>8. other = person
    BY <2>4, <2>7 DEF Create, Move, Trash, Restore
  <2> QED
    BY <2>5, <2>7, <2>8
<1>2. Kept /\ [Next]_vars
        => (\A person \in People :
             /\ request[person].kind = "move" /\ doc' # doc /\ request'[person] = Idle
             /\ Still(person) /\ ~request[person].administers
             => \A id \in Ids : Live(id) =>
                  Readers(acl', doc'[id].path) \subseteq Readers(acl, doc[id].path))
  BY <1>1, MoveWidensNothing
<1> QED
  BY <1>2, KeptAlways, PTL DEF Spec, MovesWidenNothing

-----------------------------------------------------------------------------
(* The access rule *)

\* The rows on a path that carries one, and below it on the same path, are all that grants_on looks
\* at: neither rows further up, nor those of siblings and descendants, decide anything.  A row that
\* is added on a path therefore shuts out every row above it, whoever it was for.
THEOREM NearestRowsDecide ==
  ASSUME NEW rows, NEW others, NEW path, Len(path) \in Nat, NEW n \in 1..Len(path),
         \E row \in rows : row.path = SubSeq(path, 1, n),
         \A row : (\E m \in n..Len(path) : row.path = SubSeq(path, 1, m))
                     => (row \in rows <=> row \in others)
  PROVE  GrantsOn(rows, path) = GrantsOn(others, path)
<1> DEFINE Prefix(m)  == SubSeq(path, 1, m)
           Bearing(S) == {m \in 1..Len(path) : \E row \in S : row.path = Prefix(m)}
           Nearest(S)  == {m \in Bearing(S) : \A k \in Bearing(S) : k <= m}
<1> HIDE DEF Prefix
<1>1. \A row : \A m \in n..Len(path) : row.path = Prefix(m) => (row \in rows <=> row \in others)
  BY DEF Prefix
<1>2. \A m \in n..Len(path) : m \in Bearing(rows) <=> m \in Bearing(others)
  BY <1>1
<1>3. n \in Bearing(rows) /\ n \in Bearing(others)
  BY <1>2 DEF Prefix
<1>4. Bearing(rows) \subseteq 1..Len(path) /\ Bearing(others) \subseteq 1..Len(path)
  OBVIOUS
<1> HIDE DEF Bearing
<1>5. \A m \in 1..Len(path) : (m \in Nearest(rows) <=> m \in Nearest(others)) /\ (m \in Nearest(rows) => m >= n)
  BY <1>2, <1>3, <1>4
<1>6. Nearest(rows) = Nearest(others) /\ Nearest(rows) \subseteq n..Len(path)
  BY <1>4, <1>5
<1>7. /\ GrantsOn(rows, path) = {row \in rows : \E m \in Nearest(rows) : row.path = Prefix(m)}
      /\ GrantsOn(others, path) = {row \in others : \E m \in Nearest(others) : row.path = Prefix(m)}
  BY DEF GrantsOn, Prefix, Bearing
<1> HIDE DEF Nearest
<1> QED
  BY <1>1, <1>6, <1>7

\* Whoever may do something may do everything less: write is never held without read, by grants,
\* visibility and baseline together, for pages of any visibility.
THEOREM MoreIncludesLess ==
  ASSUME NEW person, NEW action \in Permissions, NEW lesser \in Permissions,
         Level[lesser] <= Level[action],
         NEW visibility \in Visibilities, NEW baseline, NEW grants, \A g \in grants : g.permission \in Permissions,
         Permits(person, action, visibility, grants, baseline)
  PROVE  Permits(person, lesser, visibility, grants, baseline)
<1>1. \A p \in Permissions : Level[p] \in Nat
  BY DEF Permissions, Level
<1>2. action = "read" => lesser = "read"
  BY DEF Permissions, Level
<1>3. \A g \in grants : Satisfies(g.permission, action) => Satisfies(g.permission, lesser)
  BY <1>1 DEF Satisfies
<1>4. CASE action = "read"
  BY <1>2, <1>4
<1>5. CASE action # "read"
  <2>1. Can(person, action, "restricted", grants)
    BY <1>5 DEF Permits
  <2>2. \/ \E g \in grants : g.subject.kind = "anyone" /\ Satisfies(g.permission, action)
        \/ /\ person.signedIn /\ person.active
           /\ \E g \in grants : Matches(g.subject, person) /\ Satisfies(g.permission, action)
    BY <1>5, <2>1 DEF Can
  <2>3. Can(person, lesser, "restricted", grants)
    BY <1>3, <2>2 DEF Can
  <2> QED
    BY <2>3 DEF Permits
<1> QED
  BY <1>4, <1>5

\* A suspended account, like nobody, has what an anyone grant gives and the reading of public pages:
\* no grant in its name, no team, no group, no promotion survives.
THEOREM SuspensionLeavesAnyone ==
  ASSUME NEW person, ~(person.signedIn /\ person.active), NEW action \in Permissions,
         NEW visibility \in Visibilities, NEW grants, NEW promoted, NEW roles,
         Permits(person, action, visibility, grants, BaselineFor(person, promoted, roles))
  PROVE  \/ \E g \in grants : g.subject.kind = "anyone" /\ Satisfies(g.permission, action)
         \/ action = "read" /\ visibility = "public"
<1>1. BaselineFor(person, promoted, roles) = "public"
  BY DEF BaselineFor
<1> QED
  BY <1>1 DEF Permits, Can

=============================================================================
