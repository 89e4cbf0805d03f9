--------------------------- MODULE Notifications ---------------------------
(***************************************************************************)
(* What people are told: the rows of the events table and the daily mail   *)
(* that carries them.  The code is gw-store/src/events.rs, emit_tasks_due  *)
(* of tasks.rs and gw-api/src/digest.rs.                                   *)
(*                                                                         *)
(* A topic is a recipient and a dedupe key: it has one row at most, and    *)
(* telling of it again makes that row news once more.  An event without a  *)
(* key is a topic that happens to be told of once.  Nothing locks a row    *)
(* between the query that reads it for a mail and the UPDATE that marks it *)
(* digested, so news may arrive in between and be marked with the old.     *)
(*                                                                         *)
(* The mail server may refuse a mail, or take it and have its answer lost; *)
(* any statement may fail; the process may die anywhere, and then forgets  *)
(* that it has already begun today's run.                                  *)
(*                                                                         *)
(* What delivery asks (who may read the page, who administers it, whether  *)
(* the row is younger than 90 days and still there) is one set of topics;  *)
(* what a row says, who caused it and whether it is read are left out.     *)
(***************************************************************************)
EXTENDS Integers, FiniteSets

CONSTANTS
  People,     \* the active accounts that have an address: nobody else is mailed
  Topics,     \* what there is to be told of
  Tasks,      \* the topics that are "a task of yours falls due"
  Limit,      \* DIGEST_LIMIT, how many rows one mail carries
  Nobody

ASSUME TasksAssumption  == Tasks \subseteq Topics
ASSUME LimitAssumption  == Limit \in Nat \ {0}
ASSUME NobodyAssumption == Nobody \notin People

VARIABLES
  to,         \* [Topics -> People] the recipient of each, for good
  rows,       \* events: the topics that have a row
  newer,      \* ... and their order by created_at: the pairs of which the first is newer
  digested,   \* ... those whose digested_at is set
  open,       \* the topics whose row deliver lets its recipient have
  digest,     \* the digest task: where it stands, whose turn is still to come, whose turn it is
              \*  and the topics in hand
  due,        \* last_day is not today
  mailed,     \* the topics whose latest news a mail has carried
  overtaken,  \* told of again while a mail that names them was under way
  unsettled   \* carried by a mail that could not be marked

rights  == <<to, open>>
table   == <<rows, newer, digested>>
history == <<mailed, overtaken, unsettled>>
vars    == <<table, rights, digest, due, history>>

Places == {"asleep", "tasks", "turn", "send", "mark"}
Asleep == [pc |-> "asleep", left |-> {}, who |-> Nobody, hand |-> {}]

Init ==
  /\ to \in [Topics -> People]
  /\ rows = {} /\ newer = {} /\ digested = {}
  /\ open = Topics
  /\ digest = Asleep /\ due = TRUE
  /\ mailed = {} /\ overtaken = {} /\ unsettled = {}

-----------------------------------------------------------------------------
(* Telling, and what delivery depends on.                                  *)

\* One row, the newest now.
Bump(t) ==
  /\ rows' = rows \cup {t}
  /\ newer' = {pair \in newer : t \notin {pair[1], pair[2]}} \cup ({t} \X (rows \ {t}))

\* The upsert of emit_event.
Tell(t) ==
  /\ Bump(t)
  /\ digested' = digested \ {t}
  /\ mailed' = mailed \ {t} /\ unsettled' = unsettled \ {t}
  /\ overtaken' = IF digest.who # Nobody /\ t \in digest.hand THEN overtaken \cup {t}
                  ELSE overtaken \ {t}

\* A producer: a page edited, a comment, a task assigned, a row changed, a grant, an invitation
\* taken.  One that fails is logged, and nothing is recorded.
Emit(t) ==
  /\ t \notin Tasks
  /\ Tell(t)
  /\ UNCHANGED <<rights, digest, due>>

\* Grants, visibility, administrators, age; a page in the trash, or purged with its rows.
ChangeAccess(t) ==
  /\ open' = IF t \in open THEN open \ {t} ELSE open \cup {t}
  /\ UNCHANGED <<to, table, digest, due, history>>

-----------------------------------------------------------------------------
(* The digest task: run_forever and run_digest_once.                       *)

NewDay ==
  /\ ~due /\ due' = TRUE
  /\ UNCHANGED <<table, rights, digest, history>>

\* last_day is set first; emit_tasks_due looks for the tasks that fall due ...
StartRun ==
  /\ digest.pc = "asleep" /\ due /\ due' = FALSE
  /\ \E tasks \in SUBSET Tasks :
       digest' = [Asleep EXCEPT !.pc = "tasks", !.hand = tasks]
  /\ UNCHANGED <<table, rights, history>>

\* ... and tells of them one by one.
EmitTask ==
  /\ digest.pc = "tasks"
  /\ \E t \in digest.hand : Tell(t) /\ digest' = [digest EXCEPT !.hand = @ \ {t}]
  /\ UNCHANGED <<rights, due>>

\* All are told; or one could not be, and neither are those behind it.  digest_recipients is read
\* once for the whole run.
EndTasks ==
  /\ digest.pc = "tasks"
  /\ digest' = [Asleep EXCEPT !.pc = "turn", !.left = People]
  /\ UNCHANGED <<table, rights, due, history>>

\* What a mail to p could carry, and those of it that digest_for does: the newest.
Waiting(p) == {t \in (rows \cap open) \ digested : to[t] = p}
Newest(topics) == {t \in topics : Cardinality({s \in topics : <<s, t>> \in newer}) < Limit}

NextTurn == digest' = [digest EXCEPT !.pc = "turn", !.who = Nobody, !.hand = {}]

\* Mutant of Assemble: the limit is applied before delivery is asked.
AssembleLimitedFirst(p) ==
  LET mail == Newest({t \in rows \ digested : to[t] = p}) \cap open
      left == digest.left \ {p}
  IN /\ digest.pc = "turn" /\ p \in digest.left
     /\ \/ mail = {} /\ digest' = [digest EXCEPT !.left = left]
        \/ mail # {} /\ digest' = [pc |-> "send", left |-> left, who |-> p, hand |-> mail]
     /\ overtaken' = overtaken \ mail
     /\ UNCHANGED <<table, rights, due, mailed, unsettled>>

\* Somebody's turn: digest_for reads their undigested rows, newest first, asks deliver of each
\* and stops at the limit.  (Its queries are one step: what changes between two of them might
\* as well have changed before the first or after the last.)
Assemble(p) ==
  LET mail == Newest(Waiting(p))
      left == digest.left \ {p}
  IN /\ digest.pc = "turn" /\ p \in digest.left
     /\ \/ mail = {} /\ digest' = [digest EXCEPT !.left = left]
        \/ mail # {} /\ digest' = [pc |-> "send", left |-> left, who |-> p, hand |-> mail]
     /\ overtaken' = overtaken \ mail
     /\ UNCHANGED <<table, rights, due, mailed, unsettled>>

\* It fails, and the next one has their turn.
AssembleFails ==
  /\ digest.pc = "turn"
  /\ \E p \in digest.left : digest' = [digest EXCEPT !.left = @ \ {p}]
  /\ UNCHANGED <<table, rights, due, history>>

\* The mail says what was news when its rows were read.
Carried == digest.hand \ overtaken
Arrives == mailed' = mailed \cup Carried
Unsettle == unsettled' = unsettled \cup Carried

Send(p) ==
  /\ digest.pc = "send" /\ digest.who = p
  /\ Arrives
  /\ digest' = [digest EXCEPT !.pc = "mark"]
  /\ UNCHANGED <<table, rights, due, overtaken, unsettled>>

\* Mutant of SendFails: the rows are marked whatever came of the mail.
SendFailsMarked ==
  /\ digest.pc = "send"
  /\ digest' = [digest EXCEPT !.pc = "mark"]
  /\ UNCHANGED <<table, rights, due, history>>

\* The mail fails, and the next one has their turn; it may have arrived even so.
SendFails ==
  /\ digest.pc = "send"
  /\ NextTurn
  /\ \/ UNCHANGED <<mailed, unsettled>>
     \/ Arrives /\ Unsettle
  /\ UNCHANGED <<table, rights, due, overtaken>>

\* mark_digested, an UPDATE for each row.
MarkDigested(t) ==
  /\ digest.pc = "mark" /\ t \in digest.hand
  /\ digested' = digested \cup {t} /\ unsettled' = unsettled \ {t}
  /\ IF digest.hand = {t} THEN NextTurn ELSE digest' = [digest EXCEPT !.hand = @ \ {t}]
  /\ UNCHANGED <<rows, newer, rights, due, mailed, overtaken>>

\* Everybody has had their turn.
EndRun ==
  /\ digest.pc = "turn" /\ digest.left = {}
  /\ digest' = Asleep
  /\ UNCHANGED <<table, rights, due, history>>

\* digest_recipients or an UPDATE fails: that ends the run for those who are left as well.
BreakRun ==
  /\ \/ digest.pc = "tasks" /\ UNCHANGED unsettled
     \/ digest.pc = "mark" /\ Unsettle
  /\ digest' = Asleep
  /\ UNCHANGED <<table, rights, due, mailed, overtaken>>

\* The process dies and comes back: last_day is empty.  A mail on its way may arrive.
Crash ==
  /\ digest' = Asleep /\ due' = TRUE
  /\ \/ digest.pc # "mark" /\ UNCHANGED <<mailed, unsettled>>
     \/ digest.pc = "mark" /\ mailed' = mailed /\ Unsettle
     \/ digest.pc = "send" /\ Arrives /\ Unsettle
  /\ UNCHANGED <<table, rights, overtaken>>

-----------------------------------------------------------------------------
Next ==
  \/ \E t \in Topics : Emit(t) \/ ChangeAccess(t) \/ MarkDigested(t)
  \/ \E p \in People : Assemble(p) \/ Send(p)
  \/ NewDay \/ StartRun \/ EmitTask \/ EndTasks \/ AssembleFails \/ SendFails
  \/ EndRun \/ BreakRun \/ Crash

Spec == Init /\ [][Next]_vars

\* The ticker never stops and days pass; a run that can go on does; and of what is tried day after
\* day (a query, a mail to somebody, a mark) nothing fails every time.  Nothing is assumed of
\* producers.
FairSpec ==
  /\ Spec
  /\ WF_vars(NewDay) /\ WF_vars(StartRun) /\ SF_vars(EndTasks)
  /\ \A p \in People : SF_vars(Assemble(p)) /\ SF_vars(Send(p))
  /\ \A t \in Topics : SF_vars(MarkDigested(t))
  /\ WF_vars(EndRun)

-----------------------------------------------------------------------------
\* The type invariant: created_at orders the rows.
TypeOK ==
  /\ to \in [Topics -> People]
  /\ rows \subseteq Topics /\ newer \subseteq rows \X rows /\ digested \subseteq rows
  /\ \A s, t \in rows : <<s, t>> \in newer => <<t, s>> \notin newer
  /\ open \subseteq Topics
  /\ digest \in [pc : Places, left : SUBSET People, who : People \cup {Nobody},
                 hand : SUBSET Topics]
  /\ due \in BOOLEAN
  /\ mailed \subseteq Topics /\ overtaken \subseteq Topics /\ unsettled \subseteq Topics

\* What is marked digested has been mailed ("rows are marked digested only after a send
\* succeeded"), unless it was told of again while its mail was under way; and what has been
\* mailed is marked, is about to be, or could not be: nothing else is ever mailed twice.
MarksMatchMails ==
  /\ digested \subseteq mailed \cup overtaken
  /\ mailed \subseteq digested \cup unsettled \cup (IF digest.pc = "mark" THEN digest.hand ELSE {})

\* Newer rows of the same recipient fill the next mail.
Crowded(t) == t \in Waiting(to[t]) \ Newest(Waiting(to[t]))

\* News that its recipient may see and has an address for is mailed some day, however often mails
\* and marks fail and the process dies: it is waiting again and again only where newer news fills
\* every mail, and lost only where it was overtaken.
NewsIsMailed ==
  \A t \in Topics :
    (t \in rows \ digested)
      ~> (t \in mailed \cup (overtaken \cap digested) \/ t \notin open \/ Crowded(t))
=============================================================================
