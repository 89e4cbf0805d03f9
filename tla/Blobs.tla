------------------------------- MODULE Blobs -------------------------------
(***************************************************************************)
(* Files beside rows: the bytes of attachments on the media mount, under   *)
(* their digest, and the tables blobs and attachments that say which page  *)
(* carries which.  The code is attachments.rs, blobs.rs and reclaim.rs of  *)
(* gw-store and what trash.rs does to the pages.                           *)
(*                                                                         *)
(* Uploads, detaches, trashing and purging run in the server, which has    *)
(* one connection.  A sweep is `great-wiki reclaim', a process that opens  *)
(* the same database file for itself (beside), or, as the tests run it, a  *)
(* user of the server's connection.                                        *)
(*                                                                         *)
(* Two connections on one SQLite file in WAL mode: one writer at a time; a *)
(* transaction that has read keeps its snapshot, and its first write fails *)
(* when another connection has committed since (SQLITE_BUSY_SNAPSHOT).     *)
(* BEGIN is deferred: attach reads before it writes, the sweep's first     *)
(* statement writes.  A file is in no transaction.                         *)
(***************************************************************************)
EXTENDS FiniteSets

CONSTANTS
  Pages,    \* the pages of the wiki
  Names,    \* filenames
  Digests,  \* contents of files; a file is named by its digest
  Uploads,  \* requests that upload
  Nobody    \* nobody holds the server's connection

ASSUME NobodyAssumption == Nobody \notin Uploads

VARIABLES
  beside,    \* whether the sweep has a connection of its own (never changes)
  page,      \* [Pages -> live, trash or gone]
  blobs,     \* the committed rows of blobs, by digest
  attached,  \* the committed rows of attachments
  files,     \* what lies under blobs/ on the mount
  stage,     \* [Uploads -> where attach stands]
  wants,     \* [Uploads -> the row it is about to write]
  conn,      \* the upload whose transaction has the server's connection
  fresh,     \* whether nobody else committed since that transaction first read
  sweep,     \* whether a sweep has written and not ended (it is the one writer)
  taken,     \* the digests its DELETE returned
  todo,      \* those of them whose file is not unlinked yet
  undone,    \* digests whose file a sweep unlinked and whose row it then kept
  strays     \* digests that a failed upload had already published

rows   == <<page, blobs, attached>>
upload == <<stage, wants, conn, fresh>>
sweeper == <<sweep, taken, todo>>
history == <<undone, strays>>

vars == <<beside, page, blobs, attached, files, stage, wants, conn, fresh, sweep, taken, todo,
          undone, strays>>

Attachments == [page : Pages, name : Names, digest : Digests]

Referenced == {row.digest : row \in attached}

\* A statement of the server that needs the connection; one that writes needs the lock as well.
ServerFree == conn = Nobody /\ (sweep => beside)
MayWrite   == ~sweep

TypeOK ==
  /\ beside \in BOOLEAN /\ page \in [Pages -> {"live", "trash", "gone"}]
  /\ blobs \subseteq Digests /\ attached \subseteq Attachments /\ files \subseteq Digests
  /\ stage \in [Uploads -> {"idle", "pending", "open", "published"}]
  /\ wants \in [Uploads -> Attachments]
  /\ conn \in Uploads \cup {Nobody} /\ fresh \in BOOLEAN
  /\ sweep \in BOOLEAN /\ taken \subseteq Digests /\ todo \subseteq taken
  /\ undone \subseteq Digests /\ strays \subseteq Digests

Init ==
  /\ beside \in BOOLEAN
  /\ page = [p \in Pages |-> "live"]
  /\ blobs = {} /\ attached = {} /\ files = {}
  /\ stage = [u \in Uploads |-> "idle"]
  /\ wants \in [Uploads -> Attachments]
  /\ \A u, v \in Uploads : wants[u] = wants[v]
  /\ conn = Nobody /\ fresh = TRUE
  /\ sweep = FALSE /\ taken = {} /\ todo = {}
  /\ undone = {} /\ strays = {}

-----------------------------------------------------------------------------
(* attach *)

\* The body has arrived in tmp/ and is hashed; the page is there and may be written.
Arrive(u) ==
  /\ stage[u] = "idle" /\ ServerFree
  /\ \E row \in Attachments :
       /\ page[row.page] = "live"
       /\ wants' = [wants EXCEPT ![u] = row]
  /\ stage' = [stage EXCEPT ![u] = "pending"]
  /\ UNCHANGED <<beside, rows, files, conn, fresh, sweeper, history>>

\* The transaction begins and reads whether the name is taken on this page.
Open(u) ==
  /\ stage[u] = "pending" /\ ServerFree
  /\ ~ \E row \in attached : row.page = wants[u].page /\ row.name = wants[u].name
  /\ stage' = [stage EXCEPT ![u] = "open"]
  /\ conn' = u /\ fresh' = TRUE
  /\ UNCHANGED <<beside, rows, files, wants, sweeper, history>>

\* Mutant of Publish: a row is trusted to mean a file.
PublishNew(u) ==
  /\ stage[u] = "open"
  /\ files' = files \cup ({wants[u].digest} \ blobs)
  /\ undone' = undone \ {wants[u].digest}
  /\ stage' = [stage EXCEPT ![u] = "published"]
  /\ UNCHANGED <<beside, rows, wants, conn, fresh, sweeper, strays>>

\* The rename happens even when the digest is there already.
Publish(u) ==
  /\ stage[u] = "open"
  /\ files' = files \cup {wants[u].digest}
  /\ undone' = undone \ {wants[u].digest}
  /\ stage' = [stage EXCEPT ![u] = "published"]
  /\ UNCHANGED <<beside, rows, wants, conn, fresh, sweeper, strays>>

\* Mutant of Insert: nothing is read in the transaction, so no snapshot can be stale.
InsertStale(u) ==
  /\ stage[u] = "published" /\ MayWrite
  /\ page[wants[u].page] # "gone"
  /\ blobs' = blobs \cup {wants[u].digest}
  /\ attached' = attached \cup {wants[u]}
  /\ strays' = strays \ {wants[u].digest}
  /\ stage' = [stage EXCEPT ![u] = "idle"]
  /\ conn' = Nobody
  /\ UNCHANGED <<beside, page, files, wants, fresh, sweeper, undone>>

\* Both INSERTs and the commit: the lock is free, the snapshot is the latest, the page has not
\* been purged, which the foreign key would refuse.
Insert(u) ==
  /\ stage[u] = "published" /\ MayWrite /\ fresh
  /\ page[wants[u].page] # "gone"
  /\ blobs' = blobs \cup {wants[u].digest}
  /\ attached' = attached \cup {wants[u]}
  /\ strays' = strays \ {wants[u].digest}
  /\ stage' = [stage EXCEPT ![u] = "idle"]
  /\ conn' = Nobody
  /\ UNCHANGED <<beside, page, files, wants, fresh, sweeper, undone>>

\* A name that is taken, a stale snapshot, a lock not had in time, a client that hung up: the
\* file in tmp/ goes, one that is published stays.
Fail(u) ==
  /\ stage[u] # "idle"
  /\ strays' = IF stage[u] = "published" THEN strays \cup {wants[u].digest} ELSE strays
  /\ stage' = [stage EXCEPT ![u] = "idle"]
  /\ conn' = IF conn = u THEN Nobody ELSE conn
  /\ UNCHANGED <<beside, rows, files, wants, fresh, sweeper, undone>>

-----------------------------------------------------------------------------
(* detach, and what happens to pages: one transaction each, which takes the lock at once *)

\* Mutant of Detach: the row of blobs goes with the attachment.
DetachRow ==
  /\ ServerFree /\ MayWrite
  /\ \E row \in attached :
       /\ page[row.page] = "live"
       /\ attached' = attached \ {row}
       /\ blobs' = blobs \ ({row.digest} \ {other.digest : other \in attached'})
  /\ UNCHANGED <<beside, page, files, upload, sweeper, history>>

Detach ==
  /\ ServerFree /\ MayWrite
  /\ \E row \in attached : page[row.page] = "live" /\ attached' = attached \ {row}
  /\ UNCHANGED <<beside, page, blobs, files, upload, sweeper, history>>

TrashPage ==
  /\ ServerFree /\ MayWrite
  /\ \E p \in Pages : page[p] = "live" /\ page' = [page EXCEPT ![p] = "trash"]
  /\ UNCHANGED <<beside, blobs, attached, files, upload, sweeper, history>>

RestorePage ==
  /\ ServerFree /\ MayWrite
  /\ \E p \in Pages : page[p] = "trash" /\ page' = [page EXCEPT ![p] = "live"]
  /\ UNCHANGED <<beside, blobs, attached, files, upload, sweeper, history>>

\* The cascade takes the page's attachments; rows of blobs and files stay.
PurgePage ==
  /\ ServerFree /\ MayWrite
  /\ \E p \in Pages :
       /\ page[p] = "trash"
       /\ page' = [page EXCEPT ![p] = "gone"]
       /\ attached' = {row \in attached : row.page # p}
  /\ UNCHANGED <<beside, blobs, files, upload, sweeper, history>>

\* Another page.  Ids are not used twice: an upload under way never means the new page.
CreatePage ==
  /\ ServerFree /\ MayWrite
  /\ \E p \in Pages :
       /\ page[p] = "gone"
       /\ \A u \in Uploads : stage[u] # "idle" => wants[u].page # p
       /\ page' = [page EXCEPT ![p] = "live"]
  /\ UNCHANGED <<beside, blobs, attached, files, upload, sweeper, history>>

-----------------------------------------------------------------------------
(* reclaim_blobs *)

\* DELETE ... RETURNING: the worklist, the lock, the snapshot.  Nobody else sees the rows gone yet.
SweepDelete ==
  /\ ~sweep
  /\ ~beside => conn = Nobody
  /\ blobs \ Referenced # {}
  /\ sweep' = TRUE
  /\ taken' = blobs \ Referenced
  /\ todo' = taken'
  /\ UNCHANGED <<beside, rows, files, upload, history>>

\* A file that is not there counts as done.
SweepUnlink ==
  /\ sweep
  /\ \E digest \in todo : files' = files \ {digest} /\ todo' = todo \ {digest}
  /\ UNCHANGED <<beside, rows, upload, sweep, taken, history>>

\* Mutant of SweepCommit: the rows go before the files.
CommitFirst ==
  /\ sweep
  /\ blobs' = blobs \ taken
  /\ undone' = undone \ taken
  /\ fresh' = FALSE
  /\ sweep' = FALSE /\ taken' = {}
  /\ UNCHANGED <<beside, page, attached, files, stage, wants, conn, todo, strays>>

SweepCommit ==
  /\ sweep /\ todo = {}
  /\ blobs' = blobs \ taken
  /\ undone' = undone \ taken
  /\ fresh' = FALSE
  /\ sweep' = FALSE /\ taken' = {}
  /\ UNCHANGED <<beside, page, attached, files, stage, wants, conn, todo, strays>>

\* An unlink that fails, a commit that fails, a process that is killed: the rows are back.  A
\* preview ends so too, with nothing unlinked.
SweepFail ==
  /\ sweep
  /\ undone' = undone \cup ((taken \ todo) \ files)
  /\ sweep' = FALSE /\ taken' = {} /\ todo' = {}
  /\ UNCHANGED <<beside, rows, files, upload, strays>>

-----------------------------------------------------------------------------
\* The server dies.  A sweep that uses its connection dies with it.
Crash ==
  /\ \E u \in Uploads : stage[u] # "idle"
  /\ strays' = strays \cup {wants[u].digest : u \in {v \in Uploads : stage[v] = "published"}}
  /\ stage' = [u \in Uploads |-> "idle"]
  /\ conn' = Nobody
  /\ IF sweep /\ ~beside
     THEN /\ undone' = undone \cup ((taken \ todo) \ files)
          /\ sweep' = FALSE /\ taken' = {} /\ todo' = {}
     ELSE UNCHANGED <<undone, sweeper>>
  /\ UNCHANGED <<beside, rows, files, wants, fresh>>

Next ==
  \/ \E u \in Uploads : Arrive(u) \/ Open(u) \/ Publish(u) \/ Insert(u) \/ Fail(u)
  \/ Detach \/ TrashPage \/ RestorePage \/ PurgePage \/ CreatePage
  \/ SweepDelete \/ SweepUnlink \/ SweepCommit \/ SweepFail
  \/ Crash

Spec == Init /\ [][Next]_vars

-----------------------------------------------------------------------------
\* What a page carries, live or in the trash, can be served: the file of every attachment is on
\* the mount, through failed uploads, crashes, purges and sweeps at any moment; but for one
\* case, a sweep in a process of its own that unlinked the file an upload had just published and
\* then did not commit.
AttachedFilesAreThere ==
  \A row \in attached : row.digest \in files \/ (beside /\ row.digest \in undone)

\* Every file that no row knows, and that no sweep will ever find, was left by an upload that
\* failed after it had published, or belongs to one that still runs.
UnknownFilesAreFailedUploads ==
  \A digest \in files \ blobs :
    \/ digest \in strays
    \/ \E u \in Uploads : stage[u] = "published" /\ wants[u].digest = digest

\* A row whose file is gone comes from a sweep that unlinked the file and then did not commit, or
\* that has not committed yet: an upload of that digest repairs it, and no row is made so.
RowsWithoutFilesAreUndone == blobs \ files \subseteq undone \cup (taken \ todo)

\* What a mount and its table know of each other comes apart by failures only, in either direction.
FilesAndRowsPartByFailures == UnknownFilesAreFailedUploads /\ RowsWithoutFilesAreUndone

\* A sweep that commits is exhaustive: no row is left that no page refers to, and no file but
\* what pages refer to, what failed uploads left and what running ones have just published.
SweepsAreExhaustive ==
  [][(sweep /\ ~sweep' /\ blobs' # blobs)
       => /\ blobs' = {row.digest : row \in attached'}
          /\ files' \subseteq blobs' \cup strays'
               \cup {wants[u].digest : u \in {v \in Uploads : stage[v] = "published"}}]_vars

=============================================================================
