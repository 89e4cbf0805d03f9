---------------------------- MODULE Blobs_proofs ----------------------------
(***************************************************************************)
(* Proofs about files and rows, for any pages, names, contents and         *)
(* uploads, with the sweep beside the server or in it.                     *)
(***************************************************************************)
EXTENDS Blobs, TLAPS

\* The server's connection is held by the one upload whose transaction is open.
Held == \A u \in Uploads : stage[u] \in {"open", "published"} <=> conn = u

\* A row of attachments has its row of blobs; while a sweep runs nobody else writes either.
Swept ==
  /\ Referenced \subseteq blobs
  /\ sweep => taken = blobs \ Referenced /\ (~beside => conn = Nobody)
  /\ ~sweep => taken = {}

\* What a published upload relies on when it inserts.
Ready ==
  \A u \in Uploads : stage[u] = "published" /\ fresh =>
    \/ wants[u].digest \in files
    \/ beside /\ wants[u].digest \in undone \cup (taken \ todo)

\* A file that is back after the sweep unlinked it.
Late ==
  \A digest \in (taken \ todo) \cap files :
    \/ digest \in strays
    \/ \E u \in Uploads : stage[u] = "published" /\ wants[u].digest = digest

Kept ==
  /\ TypeOK /\ Held /\ Swept /\ Ready /\ Late
  /\ AttachedFilesAreThere /\ UnknownFilesAreFailedUploads /\ RowsWithoutFilesAreUndone

-----------------------------------------------------------------------------
(* One lemma per action, one step per part of Kept that the action can disturb. *)

LEMMA ArriveKeeps ==
  ASSUME Kept, NEW u \in Uploads, Arrive(u)
  PROVE  Kept'
<1>1. TypeOK'
  BY DEF Kept, Arrive, rows, sweeper, history, TypeOK, Attachments
<1>2. Held'
  BY DEF Kept, Arrive, Held
<1>3. Ready'
  BY DEF Kept, Arrive, sweeper, history, Ready
<1>4. Late'
  BY DEF Kept, Arrive, sweeper, history, Late
<1>5. UnknownFilesAreFailedUploads'
  BY DEF Kept, Arrive, rows, history, UnknownFilesAreFailedUploads
<1>6. Swept' /\ AttachedFilesAreThere' /\ RowsWithoutFilesAreUndone'
  BY DEF Kept, Arrive, rows, sweeper, history, Swept, AttachedFilesAreThere,
         RowsWithoutFilesAreUndone, Referenced
<1> QED
  BY <1>1, <1>2, <1>3, <1>4, <1>5, <1>6 DEF Kept

LEMMA OpenKeeps ==
  ASSUME Kept, NEW u \in Uploads, Open(u)
  PROVE  Kept'
<1>1. TypeOK'
  BY DEF Kept, Open, rows, sweeper, history, TypeOK, Attachments
<1>2. Held'
  BY NobodyAssumption DEF Kept, Open, ServerFree, Held, TypeOK
<1>3. Swept'
  BY NobodyAssumption DEF Kept, Open, rows, sweeper, ServerFree, Swept, Referenced, TypeOK,
         Held
<1>4. Ready'
  BY NobodyAssumption DEF Kept, Open, sweeper, history, ServerFree, Ready, TypeOK, Held
<1>5. Late'
  BY DEF Kept, Open, sweeper, history, Late
<1>6. UnknownFilesAreFailedUploads'
  BY DEF Kept, Open, rows, history, UnknownFilesAreFailedUploads
<1>7. AttachedFilesAreThere' /\ RowsWithoutFilesAreUndone'
  BY DEF Kept, Open, rows, sweeper, history, AttachedFilesAreThere,
         RowsWithoutFilesAreUndone
<1> QED
  BY <1>1, <1>2, <1>3, <1>4, <1>5, <1>6, <1>7 DEF Kept

LEMMA PublishKeeps ==
  ASSUME Kept, NEW u \in Uploads, Publish(u)
  PROVE  Kept'
<1>1. TypeOK'
  BY DEF Kept, Publish, rows, sweeper, TypeOK, Attachments
<1>2. Held'
  BY DEF Kept, Publish, Held
<1>3. Ready'
  BY DEF Kept, Publish, sweeper, Ready
<1>4. Late'
  BY DEF Kept, Publish, sweeper, Late, TypeOK
<1>5. AttachedFilesAreThere'
  BY DEF Kept, Publish, rows, AttachedFilesAreThere
<1>6. UnknownFilesAreFailedUploads'
  BY DEF Kept, Publish, rows, UnknownFilesAreFailedUploads, TypeOK
<1>7. RowsWithoutFilesAreUndone'
  BY DEF Kept, Publish, rows, sweeper, RowsWithoutFilesAreUndone
<1>8. Swept'
  BY DEF Kept, Publish, rows, sweeper, Swept, Referenced
<1> QED
  BY <1>1, <1>2, <1>3, <1>4, <1>5, <1>6, <1>7, <1>8 DEF Kept

LEMMA InsertKeeps ==
  ASSUME Kept, NEW u \in Uploads, Insert(u)
  PROVE  Kept'
<1>1. TypeOK'
  BY DEF Kept, Insert, sweeper, TypeOK, Attachments
<1>2. Held'
  BY NobodyAssumption DEF Kept, Insert, MayWrite, Held, TypeOK
<1>3. Swept'
  BY NobodyAssumption DEF Kept, Insert, sweeper, MayWrite, Swept, Referenced, TypeOK, Held
<1>4. Ready'
  BY DEF Kept, Insert, sweeper, Ready
<1>5. Late'
  BY NobodyAssumption DEF Kept, Insert, sweeper, MayWrite, Late, TypeOK, Swept, Referenced
<1>6. AttachedFilesAreThere'
  BY DEF Kept, Insert, MayWrite, AttachedFilesAreThere, TypeOK, Ready, Swept, Referenced
<1>7. UnknownFilesAreFailedUploads'
  BY DEF Kept, Insert, UnknownFilesAreFailedUploads
<1>8. RowsWithoutFilesAreUndone'
  BY DEF Kept, Insert, sweeper, MayWrite, RowsWithoutFilesAreUndone, TypeOK, Ready, Swept,
         Referenced
<1> QED
  BY <1>1, <1>2, <1>3, <1>4, <1>5, <1>6, <1>7, <1>8 DEF Kept

LEMMA FailKeeps ==
  ASSUME Kept, NEW u \in Uploads, Fail(u)
  PROVE  Kept'
<1>1. TypeOK'
  BY DEF Kept, Fail, rows, sweeper, TypeOK, Attachments
<1>2. Held'
  BY NobodyAssumption DEF Kept, Fail, Held, TypeOK
<1>3. Swept'
  BY DEF Kept, Fail, rows, sweeper, Swept, Referenced
<1>4. Ready'
  BY DEF Kept, Fail, sweeper, Ready
<1>5. Late'
  BY DEF Kept, Fail, sweeper, Late
<1>6. UnknownFilesAreFailedUploads'
  BY DEF Kept, Fail, rows, UnknownFilesAreFailedUploads
<1>7. AttachedFilesAreThere' /\ RowsWithoutFilesAreUndone'
  BY DEF Kept, Fail, rows, sweeper, AttachedFilesAreThere, RowsWithoutFilesAreUndone
<1> QED
  BY <1>1, <1>2, <1>3, <1>4, <1>5, <1>6, <1>7 DEF Kept

LEMMA DetachKeeps ==
  ASSUME Kept, Detach
  PROVE  Kept'
<1>1. TypeOK'
  BY DEF Kept, Detach, upload, sweeper, history, TypeOK, Attachments
<1>2. Swept'
  BY NobodyAssumption DEF Kept, Detach, upload, sweeper, ServerFree, MayWrite, Swept,
         Referenced, TypeOK, Held
<1>3. AttachedFilesAreThere'
  BY DEF Kept, Detach, history, AttachedFilesAreThere
<1>4. Held' /\ Ready' /\ Late' /\ UnknownFilesAreFailedUploads' /\ RowsWithoutFilesAreUndone'
  BY DEF Kept, Detach, upload, sweeper, history, Held, Ready, Late,
         UnknownFilesAreFailedUploads, RowsWithoutFilesAreUndone
<1> QED
  BY <1>1, <1>2, <1>3, <1>4 DEF Kept

LEMMA TrashPageKeeps ==
  ASSUME Kept, TrashPage
  PROVE  Kept'
<1>1. TypeOK'
  BY DEF Kept, TrashPage, upload, sweeper, history, TypeOK, Attachments
<1>2. Held' /\ Swept' /\ Ready' /\ Late' /\ AttachedFilesAreThere' /\
      UnknownFilesAreFailedUploads' /\ RowsWithoutFilesAreUndone'
  BY DEF Kept, TrashPage, upload, sweeper, history, Held, Swept, Ready, Late,
         AttachedFilesAreThere, UnknownFilesAreFailedUploads, RowsWithoutFilesAreUndone, Referenced
<1> QED
  BY <1>1, <1>2 DEF Kept

LEMMA RestorePageKeeps ==
  ASSUME Kept, RestorePage
  PROVE  Kept'
<1>1. TypeOK'
  BY DEF Kept, RestorePage, upload, sweeper, history, TypeOK, Attachments
<1>2. Held' /\ Swept' /\ Ready' /\ Late' /\ AttachedFilesAreThere' /\
      UnknownFilesAreFailedUploads' /\ RowsWithoutFilesAreUndone'
  BY DEF Kept, RestorePage, upload, sweeper, history, Held, Swept, Ready, Late,
         AttachedFilesAreThere, UnknownFilesAreFailedUploads, RowsWithoutFilesAreUndone, Referenced
<1> QED
  BY <1>1, <1>2 DEF Kept

LEMMA PurgePageKeeps ==
  ASSUME Kept, PurgePage
  PROVE  Kept'
<1>1. TypeOK'
  BY DEF Kept, PurgePage, upload, sweeper, history, TypeOK, Attachments
<1>2. Swept'
  BY NobodyAssumption DEF Kept, PurgePage, upload, sweeper, ServerFree, MayWrite, Swept,
         Referenced, TypeOK, Held
<1>3. AttachedFilesAreThere'
  BY DEF Kept, PurgePage, history, AttachedFilesAreThere
<1>4. Held' /\ Ready' /\ Late' /\ UnknownFilesAreFailedUploads' /\ RowsWithoutFilesAreUndone'
  BY DEF Kept, PurgePage, upload, sweeper, history, Held, Ready, Late,
         UnknownFilesAreFailedUploads, RowsWithoutFilesAreUndone
<1> QED
  BY <1>1, <1>2, <1>3, <1>4 DEF Kept

LEMMA CreatePageKeeps ==
  ASSUME Kept, CreatePage
  PROVE  Kept'
<1>1. TypeOK'
  BY DEF Kept, CreatePage, upload, sweeper, history, TypeOK, Attachments
<1>2. Held' /\ Swept' /\ Ready' /\ Late' /\ AttachedFilesAreThere' /\
      UnknownFilesAreFailedUploads' /\ RowsWithoutFilesAreUndone'
  BY DEF Kept, CreatePage, upload, sweeper, history, Held, Swept, Ready, Late,
         AttachedFilesAreThere, UnknownFilesAreFailedUploads, RowsWithoutFilesAreUndone, Referenced
<1> QED
  BY <1>1, <1>2 DEF Kept

LEMMA SweepDeleteKeeps ==
  ASSUME Kept, SweepDelete
  PROVE  Kept'
<1>1. TypeOK'
  BY DEF Kept, SweepDelete, rows, upload, history, TypeOK, Attachments
<1>2. Swept'
  BY DEF Kept, SweepDelete, rows, upload, Swept, Referenced
<1>3. Ready'
  BY NobodyAssumption DEF Kept, SweepDelete, upload, history, Ready, TypeOK, Swept,
         Referenced
<1>4. Late'
  BY DEF Kept, SweepDelete, upload, history, Late
<1>5. RowsWithoutFilesAreUndone'
  BY NobodyAssumption DEF Kept, SweepDelete, rows, history, RowsWithoutFilesAreUndone,
         TypeOK, Swept, Referenced
<1>6. Held' /\ AttachedFilesAreThere' /\ UnknownFilesAreFailedUploads'
  BY DEF Kept, SweepDelete, rows, upload, history, Held, AttachedFilesAreThere,
         UnknownFilesAreFailedUploads
<1> QED
  BY <1>1, <1>2, <1>3, <1>4, <1>5, <1>6 DEF Kept

LEMMA SweepUnlinkKeeps ==
  ASSUME Kept, SweepUnlink
  PROVE  Kept'
<1>1. TypeOK'
  BY DEF Kept, SweepUnlink, rows, upload, history, TypeOK, Attachments
<1>2. Ready'
  BY NobodyAssumption DEF Kept, SweepUnlink, upload, history, Ready, TypeOK, Held, Swept
<1>3. Late'
  BY DEF Kept, SweepUnlink, upload, history, Late
<1>4. AttachedFilesAreThere'
  BY NobodyAssumption DEF Kept, SweepUnlink, rows, history, AttachedFilesAreThere, TypeOK,
         Swept, Referenced
<1>5. UnknownFilesAreFailedUploads'
  BY DEF Kept, SweepUnlink, rows, upload, history, UnknownFilesAreFailedUploads
<1>6. RowsWithoutFilesAreUndone'
  BY DEF Kept, SweepUnlink, rows, history, RowsWithoutFilesAreUndone, TypeOK
<1>7. Held' /\ Swept'
  BY DEF Kept, SweepUnlink, rows, upload, Held, Swept, Referenced
<1> QED
  BY <1>1, <1>2, <1>3, <1>4, <1>5, <1>6, <1>7 DEF Kept

LEMMA SweepCommitKeeps ==
  ASSUME Kept, SweepCommit
  PROVE  Kept'
<1>1. TypeOK'
  BY DEF Kept, SweepCommit, TypeOK, Attachments
<1>2. Swept'
  BY DEF Kept, SweepCommit, Swept, Referenced
<1>3. Ready'
  BY DEF Kept, SweepCommit, Ready
<1>4. Late'
  BY DEF Kept, SweepCommit, Late
<1>5. AttachedFilesAreThere'
  BY NobodyAssumption DEF Kept, SweepCommit, AttachedFilesAreThere, TypeOK, Swept,
         Referenced
<1>6. UnknownFilesAreFailedUploads'
  BY DEF Kept, SweepCommit, UnknownFilesAreFailedUploads, TypeOK, Late
<1>7. RowsWithoutFilesAreUndone'
  BY DEF Kept, SweepCommit, RowsWithoutFilesAreUndone
<1>8. Held'
  BY DEF Kept, SweepCommit, Held
<1> QED
  BY <1>1, <1>2, <1>3, <1>4, <1>5, <1>6, <1>7, <1>8 DEF Kept

LEMMA SweepFailKeeps ==
  ASSUME Kept, SweepFail
  PROVE  Kept'
<1>1. TypeOK'
  BY DEF Kept, SweepFail, rows, upload, TypeOK, Attachments
<1>2. Swept'
  BY DEF Kept, SweepFail, rows, upload, Swept, Referenced
<1>3. Ready'
  BY DEF Kept, SweepFail, upload, Ready
<1>4. Late'
  BY DEF Kept, SweepFail, upload, Late
<1>5. AttachedFilesAreThere'
  BY DEF Kept, SweepFail, rows, AttachedFilesAreThere
<1>6. RowsWithoutFilesAreUndone'
  BY DEF Kept, SweepFail, rows, RowsWithoutFilesAreUndone
<1>7. Held' /\ UnknownFilesAreFailedUploads'
  BY DEF Kept, SweepFail, rows, upload, Held, UnknownFilesAreFailedUploads
<1> QED
  BY <1>1, <1>2, <1>3, <1>4, <1>5, <1>6, <1>7 DEF Kept

LEMMA CrashKeeps ==
  ASSUME Kept, Crash
  PROVE  Kept'
<1>1. TypeOK'
  <2>1. {wants[u].digest : u \in {v \in Uploads : stage[v] = "published"}} \subseteq Digests
    BY DEF Kept, TypeOK, Attachments
  <2>2. strays' \subseteq Digests
    BY <2>1 DEF Kept, Crash, TypeOK
  <2> QED
    BY <2>2 DEF Kept, Crash, rows, sweeper, TypeOK
<1>2. Held'
  BY NobodyAssumption DEF Kept, Crash, Held
<1>3. Swept'
  BY DEF Kept, Crash, rows, sweeper, Swept, Referenced
<1>4. Ready'
  BY DEF Kept, Crash, sweeper, Ready
<1>5. Late'
  BY DEF Kept, Crash, sweeper, Late
<1>6. AttachedFilesAreThere'
  BY DEF Kept, Crash, rows, AttachedFilesAreThere
<1>7. UnknownFilesAreFailedUploads'
  BY DEF Kept, Crash, rows, UnknownFilesAreFailedUploads
<1>8. RowsWithoutFilesAreUndone'
  BY DEF Kept, Crash, rows, sweeper, RowsWithoutFilesAreUndone
<1> QED
  BY <1>1, <1>2, <1>3, <1>4, <1>5, <1>6, <1>7, <1>8 DEF Kept

-----------------------------------------------------------------------------
LEMMA KeptAtFirst ==
  ASSUME Init
  PROVE  Kept
<1>1. TypeOK
  BY DEF Init, TypeOK
<1>2. Held /\ Swept /\ Ready /\ Late
  BY NobodyAssumption DEF Init, Held, Swept, Ready, Late, Referenced
<1>3. AttachedFilesAreThere /\ UnknownFilesAreFailedUploads /\ RowsWithoutFilesAreUndone
  BY DEF Init, AttachedFilesAreThere, UnknownFilesAreFailedUploads, RowsWithoutFilesAreUndone
<1> QED
  BY <1>1, <1>2, <1>3 DEF Kept

LEMMA KeptStays ==
  ASSUME Kept, [Next]_vars
  PROVE  Kept'
<1>1. ASSUME NEW u \in Uploads, Arrive(u) \/ Open(u) \/ Publish(u) \/ Insert(u) \/ Fail(u)
      PROVE  Kept'
  BY <1>1, ArriveKeeps, OpenKeeps, PublishKeeps, InsertKeeps, FailKeeps
<1>2. CASE Detach \/ TrashPage \/ RestorePage \/ PurgePage \/ CreatePage
  BY <1>2, DetachKeeps, TrashPageKeeps, RestorePageKeeps, PurgePageKeeps, CreatePageKeeps
<1>3. CASE SweepDelete \/ SweepUnlink \/ SweepCommit \/ SweepFail \/ Crash
  BY <1>3, SweepDeleteKeeps, SweepUnlinkKeeps, SweepCommitKeeps, SweepFailKeeps, CrashKeeps
<1>4. CASE UNCHANGED vars
  BY <1>4 DEF vars, Kept, TypeOK, Held, Swept, Ready, Late, Referenced,
              AttachedFilesAreThere, UnknownFilesAreFailedUploads, RowsWithoutFilesAreUndone
<1> QED
  BY <1>1, <1>2, <1>3, <1>4 DEF Next

LEMMA KeptAlways == Spec => []Kept
  BY KeptAtFirst, KeptStays, PTL DEF Spec

\* Every row, file and transaction has its type.
THEOREM TypeCorrect == Spec => []TypeOK
<1>1. Kept => TypeOK
  BY DEF Kept
<1> QED
  BY <1>1, KeptAlways, PTL

\* Whatever uploads, purges, crashes and sweeps meet, an attachment has its file, but for the
\* sweep in a process of its own that unlinked and did not commit.
THEOREM AttachedAreThere == Spec => []AttachedFilesAreThere
<1>1. Kept => AttachedFilesAreThere
  BY DEF Kept
<1> QED
  BY <1>1, KeptAlways, PTL

\* A file without a row comes from an upload that failed after publishing, or still runs; a row
\* without a file comes from a sweep that did not commit, or has not yet.
THEOREM PartedByFailures == Spec => []FilesAndRowsPartByFailures
<1>1. Kept => FilesAndRowsPartByFailures
  BY DEF Kept, FilesAndRowsPartByFailures
<1> QED
  BY <1>1, KeptAlways, PTL

\* A sweep that commits leaves the rows that pages refer to and no others, and no file beyond
\* them but those of uploads.
THEOREM CommittedSweepsAreExhaustive == Spec => SweepsAreExhaustive
<1> DEFINE Exhausted ==
      /\ blobs' = Referenced'
      /\ files' \subseteq blobs' \cup strays'
           \cup {wants[u].digest : u \in {v \in Uploads : stage[v] = "published"}}
<1>1. ASSUME Kept, Kept', [Next]_vars, sweep /\ ~sweep' /\ blobs' # blobs
      PROVE  Exhausted
  <2>1. SweepCommit
    <3>1. ASSUME NEW u \in Uploads, Arrive(u) \/ Open(u) \/ Publish(u) \/ Insert(u) \/ Fail(u)
          PROVE  FALSE
      BY <1>1, <3>1 DEF Arrive, Open, Publish, Insert, Fail, sweeper
    <3>2. CASE Detach \/ TrashPage \/ RestorePage \/ PurgePage \/ CreatePage
      BY <1>1, <3>2 DEF Detach, TrashPage, RestorePage, PurgePage, CreatePage, sweeper
    <3>3. CASE SweepDelete \/ SweepUnlink \/ SweepFail \/ Crash \/ UNCHANGED vars
      BY <1>1, <3>3 DEF SweepDelete, SweepUnlink, SweepFail, Crash, rows, vars
    <3> QED
      BY <1>1, <3>1, <3>2, <3>3 DEF Next
  <2>2. blobs' = Referenced'
    BY <1>1, <2>1 DEF Kept, SweepCommit, Swept, Referenced
  <2>3. UNCHANGED <<stage, wants>>
    BY <2>1 DEF SweepCommit
  <2>4. files' \subseteq blobs' \cup strays'
          \cup {wants[u].digest : u \in {v \in Uploads : stage[v] = "published"}}
    BY <1>1, <2>3 DEF Kept, UnknownFilesAreFailedUploads
  <2> QED
    BY <2>2, <2>4
<1>2. Kept /\ Kept' /\ [Next]_vars
        => (sweep /\ ~sweep' /\ blobs' # blobs
              => /\ blobs' = {row.digest : row \in attached'}
                 /\ files' \subseteq blobs' \cup strays'
                      \cup {wants[u].digest : u \in {v \in Uploads : stage[v] = "published"}})
  BY <1>1 DEF Referenced
<1> QED
  BY <1>2, KeptAlways, PTL DEF Spec, SweepsAreExhaustive

=============================================================================
