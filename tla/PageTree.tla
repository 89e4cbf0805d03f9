----------------------------- MODULE PageTree -----------------------------
(***************************************************************************)
(* The tree of pages: creating, moving, trashing, restoring and purging,   *)
(* with the forwards a move leaves behind and the grants and invitations   *)
(* that hang off a path and move with it.  The code is moves.rs, trash.rs, *)
(* documents.rs and templates.rs of gw-store and the triggers of the       *)
(* migrations 0012 and 0015.                                               *)
(*                                                                         *)
(* Every request but a purge asks first and writes second: its checks are  *)
(* queries of their own, the transaction comes after them, and any other   *)
(* request may commit in between.  The checks are one step here (what is   *)
(* stale when the transaction starts is stale whichever query read it) and *)
(* the transaction is the second.                                          *)
(*                                                                         *)
(* A path is a sequence of slugs, <<>> the top level.  Pages are           *)
(* restricted, so that grants and the admin baseline decide; titles,       *)
(* bodies, sort keys, audit rows and what hangs off a page's id are left   *)
(* out.                                                                    *)
(***************************************************************************)
EXTENDS AccessRule, FiniteSets, SequencesExt

CONSTANTS
  Pages,        \* the ids of pages
  Slugs,        \* the last segments of addresses
  People,       \* accounts that make requests, one at a time each
  Others,       \* accounts that only read
  Admins,       \* the accounts whose baseline is admin
  MaxDepth,     \* how deep a request may ask for (a bound of the model)
  MaxRequests,  \* how many requests there are (a bound of the model)
  FirstTrees,   \* what the documents table may hold at first
  FirstAcls,    \* what the acl table may hold at first
  Grants,       \* the rows that may be granted or revoked meanwhile
  NoPage        \* deleted_root of a live page

ASSUME BoundsAssumption == MaxDepth \in Nat \ {0} /\ MaxRequests \in Nat
ASSUME NoPageAssumption == NoPage \notin Pages

VARIABLES
  doc,       \* documents: [the ids that exist -> path, parent, slug, root]
  forward,   \* forwards: [old paths -> the page that lived there]
  acl,       \* acl: rows of path, subject, permission
  invite,    \* the path a pending invitation names
  request,   \* [People -> the request in flight, its checks passed, or Idle]
  left,      \* how many requests may still come
  stale      \* the kinds of requests that committed when their checks no longer held

vars == <<doc, forward, acl, invite, request, left, stale>>

Paths == UNION {[1..n -> Slugs] : n \in 1..MaxDepth}
Idle  == [kind |-> "idle"]

Addresses == Seq(Slugs) \ {<<>>}
Documents == [path : Addresses, parent : Seq(Slugs), slug : Slugs, root : Pages \cup {NoPage}]
AclRows   == [path : Seq(Slugs), subject : [kind : {"principal"}, id : People \cup Others],
              permission : Permissions]

ASSUME GrantsAssumption == Grants \subseteq AclRows /\ \A rows \in FirstAcls : rows \subseteq AclRows

Grant(path, person, permission) ==
  [path |-> path, subject |-> [kind |-> "principal", id |-> person], permission |-> permission]

-----------------------------------------------------------------------------
Ids           == DOMAIN doc
Live(id)      == doc[id].root = NoPage
At(path)      == {id \in Ids : doc[id].path = path}
Under(path)   == {id \in Ids : IsPrefix(path, doc[id].path)}
LiveUnder(path) == {id \in Under(path) : Live(id)}
Entry(root)   == {id \in Ids : doc[id].root = root}
Parent(path)  == Front(path)

Principal(person) ==
  [id |-> person, username |-> person, teams |-> {}, groups |-> {}, signedIn |-> TRUE, active |-> TRUE]

Baseline(person) == IF person \in Admins THEN "admin" ELSE "public"

MayOn(rows, person, action, path) ==
  Permits(Principal(person), action, "restricted", GrantsOn(rows, path), Baseline(person))

May(person, action, path) == MayOn(acl, person, action, path)

Readers(rows, path) == {person \in People \cup Others : MayOn(rows, person, "read", path)}

\* path_admin: the verdict the handlers of a move and of a creation ask for and pass on.
Administers(person, path) ==
  \/ person \in Admins
  \/ Can(Principal(person), "admin", "restricted", GrantsOn(acl, path))

\* rename(column): the prefix from becomes to.
Rename(from, to, path) == to \o SubSeq(path, Len(from) + 1, Len(path))

\* refuse_a_hole_in_the_tree, over the whole corpus: a live page whose parent is in the trash.
Hole(rows) ==
  \E c, p \in DOMAIN rows :
    /\ rows[c].root = NoPage
    /\ rows[p].path = rows[c].parent
    /\ rows[p].root # NoPage

\* A new page may go under parent: it is live, and person may read and write it.
Destination(person, parent) ==
  IF parent = <<>> THEN Administers(person, <<>>)
  ELSE \E p \in At(parent) :
         Live(p) /\ May(person, "read", parent) /\ May(person, "write", parent)

-----------------------------------------------------------------------------
(* What each request asks before its transaction. *)

CreateMay(person, r) ==
  /\ Destination(person, r.parent)
  /\ At(r.to) = {}

\* Mutant of MoveMay: a page may move under itself.
MoveMayInside(person, r) ==
  /\ r.page \in Ids /\ Live(r.page) /\ doc[r.page].path = r.from
  /\ Destination(person, r.parent)
  /\ Under(r.to) = {}
  /\ \A id \in Under(r.from) : May(person, "write", doc[id].path)

MoveMay(person, r) ==
  /\ r.page \in Ids /\ Live(r.page) /\ doc[r.page].path = r.from
  /\ May(person, "write", r.from)
  /\ ~IsPrefix(r.from, r.parent)
  /\ Destination(person, r.parent)
  /\ r.to # r.from => Under(r.to) = {}
  /\ \A id \in Under(r.from) : May(person, "write", doc[id].path)
  /\ r.before = [path \in {doc[id].path : id \in LiveUnder(r.from)} |-> Readers(acl, path)]

TrashMay(person, r) ==
  /\ r.page \in Ids /\ Live(r.page) /\ doc[r.page].path = r.from
  /\ \A id \in LiveUnder(r.from) : May(person, "write", doc[id].path)

RestoreMay(person, r) ==
  /\ r.page \in Ids /\ doc[r.page].root = r.page
  /\ \A id \in Entry(r.page) : May(person, "write", doc[id].path)
  /\ doc[r.page].parent # <<>> => \E p \in At(doc[r.page].parent) : Live(p)

Still(person) ==
  LET r == request[person]
  IN CASE r.kind = "create"  -> CreateMay(person, r)
       [] r.kind = "move"    -> MoveMay(person, r)
       [] r.kind = "trash"   -> TrashMay(person, r)
       [] r.kind = "restore" -> RestoreMay(person, r)

-----------------------------------------------------------------------------
(* A tree as it should be: unique paths, parents that are there, no hole,  *)
(* every trashed page in an entry above it, entries inside one another.    *)

AddressesAgree(rows) ==
  \A id \in DOMAIN rows :
    /\ rows[id].path = Append(rows[id].parent, rows[id].slug)
    /\ \A other \in DOMAIN rows \ {id} : rows[other].path # rows[id].path

ParentsExist(rows) ==
  \A id \in DOMAIN rows :
    rows[id].parent = <<>> \/ \E p \in DOMAIN rows : rows[p].path = rows[id].parent

EntriesAreWhole(rows) ==
  \A id \in DOMAIN rows : rows[id].root # NoPage =>
    /\ rows[id].root \in DOMAIN rows
    /\ rows[rows[id].root].root = rows[id].root
    /\ IsPrefix(rows[rows[id].root].path, rows[id].path)

\* Above a live page there are only live ones: no hole, at any distance.
LiveAboveLive(rows) ==
  \A c, p \in DOMAIN rows :
    rows[c].root = NoPage /\ IsPrefix(rows[p].path, rows[c].path) => rows[p].root = NoPage

\* A page below one in the trash went there with it, or before it and from further down.
EntriesNest(rows) ==
  \A c, p \in DOMAIN rows :
    /\ rows[p].root # NoPage /\ rows[c].root \notin {NoPage, rows[p].root}
    /\ IsPrefix(rows[p].path, rows[c].path)
    => IsPrefix(rows[p].path, rows[rows[c].root].path)

Whole(rows) ==
  /\ AddressesAgree(rows) /\ ParentsExist(rows)
  /\ ~Hole(rows) /\ LiveAboveLive(rows)
  /\ EntriesAreWhole(rows) /\ EntriesNest(rows)

\* A row at path; its parent and slug follow.
Row(path, root) ==
  [path |-> path, parent |-> Parent(path), slug |-> Last(path), root |-> root]

\* Every whole tree is one that creating and trashing can make.
ASSUME FirstTreesAssumption ==
  \A rows \in FirstTrees :
    DOMAIN rows \subseteq Pages /\ rows \in [DOMAIN rows -> Documents] /\ Whole(rows)

Init ==
  /\ doc \in FirstTrees
  /\ forward = <<>>
  /\ acl \in FirstAcls
  /\ invite \in {row.path : row \in acl}
  /\ request = [person \in People |-> Idle]
  /\ left = MaxRequests
  /\ stale = {}

Tree == <<doc, forward, acl, invite>>

Free(person) == request[person] = Idle /\ left > 0

\* A request whose checks passed; whoever fails them is answered, and nothing has changed.
Ask(person, r) ==
  /\ left' = left - 1
  /\ request' = [request EXCEPT ![person] = r]
  /\ UNCHANGED <<doc, forward, acl, invite, stale>>

AskCreate(person) ==
  /\ Free(person)
  /\ \E to \in Paths :
       LET r == [kind |-> "create", to |-> to, parent |-> Parent(to)]
       IN CreateMay(person, r) /\ Ask(person, r)

AskMove(person) ==
  /\ Free(person)
  /\ \E page \in Ids, to \in Paths :
       LET from == doc[page].path
           r    == [kind |-> "move", page |-> page, from |-> from, to |-> to, parent |-> Parent(to),
                    administers |-> Administers(person, Parent(to)),
                    before |-> [path \in {doc[id].path : id \in LiveUnder(from)} |-> Readers(acl, path)]]
       IN MoveMay(person, r) /\ Ask(person, r)

AskTrash(person) ==
  /\ Free(person)
  /\ \E page \in Ids :
       LET r == [kind |-> "trash", page |-> page, from |-> doc[page].path]
       IN TrashMay(person, r) /\ Ask(person, r)

AskRestore(person) ==
  /\ Free(person)
  /\ \E page \in Ids :
       LET r == [kind |-> "restore", page |-> page]
       IN RestoreMay(person, r) /\ Ask(person, r)

-----------------------------------------------------------------------------
(* The transactions. *)

\* The end of a request that commits.
Done(person) ==
  /\ request' = [request EXCEPT ![person] = Idle]
  /\ stale' = IF Still(person) THEN stale ELSE stale \cup {request[person].kind}
  /\ left' = left

\* A preview, a refusal, an error in the transaction, a caller who went away.
Rollback(person) ==
  /\ request[person] # Idle
  /\ request' = [request EXCEPT ![person] = Idle]
  /\ UNCHANGED <<doc, forward, acl, invite, left, stale>>

\* Mutant of EndForwards: no trigger.
KeepForwards(forwards, arrived) == forwards

\* The insert trigger of 0015: a page that arrives at a path ends the forward from it.
EndForwards(forwards, arrived) ==
  [path \in DOMAIN forwards \ arrived |-> forwards[path]]

Create(person) ==
  LET r == request[person]
  IN /\ r.kind = "create"
     /\ At(r.to) = {}
     /\ \E id \in Pages \ Ids :
          doc' = [other \in Ids \cup {id} |-> IF other = id THEN Row(r.to, NoPage) ELSE doc[other]]
     /\ forward' = EndForwards(forward, {r.to})
     /\ Done(person)
     /\ UNCHANGED <<acl, invite>>

\* Mutant of MovedRow: the parents of the pages below are not renamed.
MovedPathOnly(r, id) ==
  LET row == doc[id]
  IN IF r.to = r.from \/ id \notin Under(r.from) THEN row
     ELSE [row EXCEPT !.path = Rename(r.from, r.to, row.path),
                      !.parent = IF row.path = r.from THEN r.parent ELSE row.parent,
                      !.slug = IF id = r.page THEN Last(r.to) ELSE row.slug]

\* The row id after a move: the prefix statement for whatever is under from by now, then the
\* slug of the page itself, which is found by its id.
MovedRow(r, id) ==
  LET row  == doc[id]
      here == IF r.to # r.from /\ id \in Under(r.from)
              THEN [row EXCEPT !.path = Rename(r.from, r.to, row.path),
                               !.parent = IF row.path = r.from THEN r.parent
                                          ELSE Rename(r.from, r.to, row.parent)]
              ELSE row
  IN IF id = r.page THEN [here EXCEPT !.slug = Last(r.to)] ELSE here

MovedPath(r, path) == IF IsPrefix(r.from, path) THEN Rename(r.from, r.to, path) ELSE path

\* UPDATE OR REPLACE: a grant that is already written at the destination is the same grant.
MovedAcl(r) == {[row EXCEPT !.path = MovedPath(r, row.path)] : row \in acl}

MovedForwards(r) ==
  LET gone == {doc[id].path : id \in Under(r.from)}
      came == {Rename(r.from, r.to, path) : path \in gone}
      both == [path \in DOMAIN forward \cup gone |->
                  IF path \in gone THEN CHOOSE id \in Ids : doc[id].path = path
                  ELSE forward[path]]
  IN IF r.to = r.from THEN forward ELSE EndForwards(both, came)

\* Mutant of Gains: the grants that stand at the new path alone are measured.
GainsAtTheEnd(r, rows) ==
  \E path \in DOMAIN r.before :
    \E row \in rows : /\ row.path = Rename(r.from, r.to, path)
                      /\ ~ Readers({row}, row.path) \subseteq r.before[path]

\* Somebody can read a page that moved and could not when the checks asked.
Gains(r, rows) ==
  \E path \in DOMAIN r.before :
    ~ Readers(rows, Rename(r.from, r.to, path)) \subseteq r.before[path]

Move(person) ==
  LET r    == request[person]
      rows == [id \in Ids |-> MovedRow(r, id)]
  IN /\ r.kind = "move"
     /\ \A a, b \in Ids : a # b => rows[a].path # rows[b].path
     /\ ~Hole(rows)
     /\ Gains(r, MovedAcl(r)) => r.administers
     /\ doc' = rows
     /\ forward' = MovedForwards(r)
     /\ acl' = MovedAcl(r)
     /\ invite' = MovedPath(r, invite)
     /\ Done(person)

Trash(person) ==
  LET r    == request[person]
      rows == [id \in Ids |-> IF id \in LiveUnder(r.from)
                              THEN [doc[id] EXCEPT !.root = r.page] ELSE doc[id]]
  IN /\ r.kind = "trash"
     /\ ~Hole(rows)
     /\ doc' = rows
     /\ Done(person)
     /\ UNCHANGED <<forward, acl, invite>>

\* Mutant of Restore: without refuse_a_hole_in_the_tree.
RestoreUnchecked(person) ==
  LET r == request[person]
  IN /\ r.kind = "restore"
     /\ doc' = [id \in Ids |-> IF doc[id].root = r.page
                               THEN [doc[id] EXCEPT !.root = NoPage] ELSE doc[id]]
     /\ Done(person)
     /\ UNCHANGED <<forward, acl, invite>>

Restore(person) ==
  LET r    == request[person]
      rows == [id \in Ids |-> IF doc[id].root = r.page
                              THEN [doc[id] EXCEPT !.root = NoPage] ELSE doc[id]]
  IN /\ r.kind = "restore"
     /\ ~Hole(rows)
     /\ doc' = rows
     /\ Done(person)
     /\ UNCHANGED <<forward, acl, invite>>

\* Mutant of Purge: the page alone is deleted.
PurgeOnePage ==
  /\ left > 0
  /\ \E page \in Ids :
       /\ ~Live(page)
       /\ doc' = [id \in Ids \ {page} |-> doc[id]]
       /\ forward' = [path \in {p \in DOMAIN forward : forward[p] # page} |-> forward[path]]
  /\ left' = left - 1
  /\ UNCHANGED <<acl, invite, request, stale>>

\* Mutant of Purge: the forwards to the pages do not go with them.
PurgeLeavingForwards ==
  /\ left > 0
  /\ \E page \in Ids :
       /\ ~Live(page) /\ LiveUnder(doc[page].path) = {}
       /\ doc' = [id \in Ids \ Under(doc[page].path) |-> doc[id]]
  /\ left' = left - 1
  /\ UNCHANGED <<forward, acl, invite, request, stale>>

\* One transaction, checks included; the cascade takes the forwards to the pages that go.
Purge ==
  /\ left > 0
  /\ \E page \in Ids :
       /\ ~Live(page)
       /\ LiveUnder(doc[page].path) = {}
       /\ LET kept == Ids \ Under(doc[page].path)
          IN /\ doc' = [id \in kept |-> doc[id]]
             /\ forward' = [path \in {p \in DOMAIN forward : forward[p] \in kept} |-> forward[path]]
  /\ left' = left - 1
  /\ UNCHANGED <<acl, invite, request, stale>>

ChangeGrant ==
  /\ left > 0
  /\ \E row \in Grants : acl' = IF row \in acl THEN acl \ {row} ELSE acl \cup {row}
  /\ left' = left - 1
  /\ UNCHANGED <<doc, forward, invite, request, stale>>

\* Every request has been made and answered.
Finished ==
  /\ left = 0
  /\ \A person \in People : request[person] = Idle
  /\ UNCHANGED vars

Next ==
  \/ \E person \in People :
       \/ AskCreate(person) \/ AskMove(person) \/ AskTrash(person) \/ AskRestore(person)
       \/ Create(person) \/ Move(person) \/ Trash(person) \/ Restore(person)
       \/ Rollback(person)
  \/ Purge
  \/ ChangeGrant
  \/ Finished

Spec == Init /\ [][Next]_vars

-----------------------------------------------------------------------------
TypeOK ==
  /\ Ids \subseteq Pages
  /\ doc \in [Ids -> Documents]
  /\ DOMAIN forward \subseteq Seq(Slugs)
  /\ \A path \in DOMAIN forward : forward[path] \in Ids
  /\ acl \subseteq AclRows
  /\ invite \in Seq(Slugs)
  /\ left \in 0..MaxRequests
  /\ stale \subseteq {"create", "move", "trash", "restore"}

\* A live page never sits under a page in the trash, where the navigation and the export cannot
\* reach it, unless a page was created under a parent that had gone to the trash since
\* create_typed looked: every other transaction ends with refuse_a_hole_in_the_tree.
HolesComeFromCreates == Hole(doc) => "create" \in stale

\* The parent of every page is there, in the trash or not, unless a create or a move was
\* overtaken: their transactions do not look at the parent again, and the hole check sees only
\* parents that are in the trash, not those that are gone.
OrphansComeFromOvertakenChecks == ParentsExist(doc) \/ stale \cap {"create", "move"} # {}

\* Every trashed page belongs to an entry that is in the trash, at its path or above it, so that
\* it can be listed and restored, through moves of what is around it, nested entries, and
\* purges; unless a trash or a move was overtaken (they write by path what they asked by id), or
\* a create was: a live page it left under a page in the trash takes along, when it is moved
\* out, what is in that page's entry and happens to lie below.
StrandedComeFromOvertakenChecks ==
  EntriesAreWhole(doc) \/ stale \cap {"create", "trash", "move"} # {}

\* Path, parent and slug of a page say the same and no two pages share a path, unless a move was
\* overtaken by another move of its page: its prefix matches nothing then, its slug is written.
AddressesComeApartByMoves == AddressesAgree(doc) \/ "move" \in stale

\* An old address forwards to a page only while no page lives there.
ForwardsYield == \A path \in DOMAIN forward : At(path) = {}

\* A move by somebody who does not administer the destination lets nobody read a live page
\* who could not read it before, whatever grants stand on the old paths and on the new ones,
\* as long as what the move measured is not older than a change.
MovesWidenNothing ==
  [][\A person \in People :
       /\ request[person].kind = "move" /\ doc' # doc /\ request'[person] = Idle
       /\ Still(person) /\ ~request[person].administers
       => \A id \in Ids : Live(id) =>
            Readers(acl', doc'[id].path) \subseteq Readers(acl, doc[id].path)]_vars

-----------------------------------------------------------------------------
\* The inductive strengthening of StrandedComeFromOvertakenChecks.
EntriesStand ==
  \/ EntriesAreWhole(doc) /\ LiveAboveLive(doc) /\ EntriesNest(doc)
  \/ stale \cap {"create", "trash", "move"} # {}

=============================================================================
