------------------------ MODULE Notifications_proofs ------------------------
(***************************************************************************)
(* Proofs about marks and mails, for any people, topics and limit.         *)
(***************************************************************************)
EXTENDS Notifications, TLAPS

\* Somebody's turn is under way, and what is in hand has rows.
Turns ==
  /\ digest.who # Nobody <=> digest.pc \in {"send", "mark"}
  /\ digest.who # Nobody => digest.hand \subseteq rows

\* What waits for its mark was in the mail, or was told of again behind its back.
Sent ==
  /\ digest.pc = "mark" => digest.hand \subseteq mailed \cup overtaken
  /\ mailed \cap overtaken = {}

Kept == TypeOK /\ Turns /\ Sent /\ MarksMatchMails

-----------------------------------------------------------------------------
(* What is news once more: the part that Emit and EmitTask share.          *)

LEMMA TellKeepsRows ==
  ASSUME TypeOK, NEW t \in Topics, Tell(t)
  PROVE  /\ rows' = rows \cup {t}
         /\ newer' \subseteq rows' \X rows' /\ digested' \subseteq rows'
         /\ \A r, s \in rows' : <<r, s>> \in newer' => <<s, r>> \notin newer'
         /\ mailed' \subseteq Topics /\ overtaken' \subseteq Topics /\ unsettled' \subseteq Topics
<1>1. rows' = rows \cup {t} /\ digested' \subseteq rows'
  BY DEF Tell, Bump, TypeOK
<1>2. newer' \subseteq rows' \X rows'
  BY DEF Tell, Bump, TypeOK
<1>3. ASSUME NEW r \in rows', NEW s \in rows', <<r, s>> \in newer'
      PROVE  <<s, r>> \notin newer'
  <2>1. newer' = {pair \in newer : t \notin {pair[1], pair[2]}} \cup ({t} \X (rows \ {t}))
    BY DEF Tell, Bump
  <2>2. CASE r = t
    BY <1>3, <2>1, <2>2 DEF TypeOK
  <2>3. CASE r # t
    <3>1. s # t /\ <<r, s>> \in newer
      BY <1>3, <2>1, <2>3
    <3>2. r \in rows /\ s \in rows
      BY <1>1, <1>3, <2>3, <3>1
    <3> QED
      BY <2>1, <2>3, <3>1, <3>2 DEF TypeOK
  <2> QED
    BY <2>2, <2>3
<1>4. mailed' \subseteq Topics /\ overtaken' \subseteq Topics /\ unsettled' \subseteq Topics
  BY DEF Tell, TypeOK
<1> QED
  BY <1>1, <1>2, <1>3, <1>4

LEMMA EmitKeeps ==
  ASSUME Kept, NEW t \in Topics, Emit(t)
  PROVE  Kept'
<1>0. Tell(t) /\ UNCHANGED <<rights, digest, due>>
  BY DEF Emit
<1>1. TypeOK'
  BY <1>0, TellKeepsRows DEF Kept, rights, TypeOK
<1>2. Turns'
  BY <1>0, TellKeepsRows DEF Kept, Turns
<1>3. Sent'
  BY <1>0 DEF Kept, Tell, Sent, Turns
<1>4. MarksMatchMails'
  BY <1>0 DEF Kept, Tell, MarksMatchMails
<1> QED
  BY <1>1, <1>2, <1>3, <1>4 DEF Kept

LEMMA EmitTaskKeeps ==
  ASSUME Kept, EmitTask
  PROVE  Kept'
<1>1. PICK t \in digest.hand : Tell(t) /\ digest' = [digest EXCEPT !.hand = @ \ {t}]
  BY DEF EmitTask
<1>2. t \in Topics /\ digest.pc = "tasks" /\ digest.who = Nobody
  BY <1>1 DEF EmitTask, Kept, TypeOK, Turns
<1>3. digest'.pc = "tasks" /\ digest'.who = Nobody
  BY <1>1, <1>2 DEF Kept, TypeOK
<1>4. TypeOK'
  BY <1>1, <1>2, TellKeepsRows DEF EmitTask, Kept, rights, TypeOK
<1>5. Turns'
  BY <1>3 DEF Turns
<1>6. Sent'
  BY <1>1, <1>2, <1>3 DEF Kept, Tell, Sent
<1>7. MarksMatchMails'
  BY <1>1, <1>2, <1>3 DEF Kept, Tell, MarksMatchMails
<1> QED
  BY <1>4, <1>5, <1>6, <1>7 DEF Kept

-----------------------------------------------------------------------------
(* The steps of a run that write no row.                                   *)

\* The task turns to somebody, or to nobody, with nothing sent yet.
LEMMA MovingOnKeeps ==
  ASSUME Kept, UNCHANGED <<table, rights, history>>, due' \in BOOLEAN,
         digest' \in [pc : {"asleep", "tasks", "turn"}, left : SUBSET People, who : {Nobody},
                      hand : SUBSET Topics],
         digest.pc # "mark"
  PROVE  Kept'
<1>1. TypeOK'
  BY DEF Kept, table, rights, history, TypeOK, Places
<1>2. Turns'
  BY DEF Turns
<1>3. Sent'
  BY DEF Kept, history, Sent
<1>4. MarksMatchMails'
  BY DEF Kept, table, history, MarksMatchMails
<1> QED
  BY <1>1, <1>2, <1>3, <1>4 DEF Kept

LEMMA WaitingAreRows ==
  ASSUME NEW p
  PROVE  /\ Newest(Waiting(p)) \subseteq rows
         /\ Newest(Waiting(p)) \cap digested = {}
BY DEF Newest, Waiting

LEMMA AssembleKeeps ==
  ASSUME Kept, NEW p \in People, Assemble(p)
  PROVE  Kept'
<1> DEFINE mail == Newest(Waiting(p))
<1>1. mail \subseteq rows /\ mail \cap digested = {} /\ mail \subseteq Topics
  BY WaitingAreRows DEF Kept, TypeOK
<1>2. /\ digest.pc = "turn" /\ digest.who = Nobody
      /\ \/ mail = {} /\ digest' = [digest EXCEPT !.left = digest.left \ {p}]
         \/ mail # {} /\ digest' = [pc |-> "send", left |-> digest.left \ {p}, who |-> p,
                                    hand |-> mail]
      /\ overtaken' = overtaken \ mail
      /\ UNCHANGED <<table, rights, due, mailed, unsettled>>
  BY DEF Assemble, Kept, Turns
<1> HIDE DEF mail
<1>3. TypeOK'
  BY <1>1, <1>2 DEF Kept, table, rights, TypeOK, Places
<1>4. Turns'
  BY <1>1, <1>2, NobodyAssumption DEF Kept, table, Turns, TypeOK
<1>5. Sent'
  BY <1>2 DEF Kept, Sent, TypeOK
<1>6. MarksMatchMails'
  BY <1>1, <1>2 DEF Kept, table, MarksMatchMails, TypeOK
<1> QED
  BY <1>3, <1>4, <1>5, <1>6 DEF Kept

LEMMA SendKeeps ==
  ASSUME Kept, NEW p \in People, Send(p)
  PROVE  Kept'
<1>1. digest'.pc = "mark" /\ digest'.who = digest.who /\ digest'.hand = digest.hand
  BY DEF Send, Kept, TypeOK
<1>2. TypeOK'
  BY DEF Send, Arrives, Carried, Kept, table, rights, TypeOK, Places
<1>3. Turns'
  BY <1>1 DEF Send, Kept, table, Turns
<1>4. Sent'
  BY <1>1 DEF Send, Arrives, Carried, Kept, Sent
<1>5. MarksMatchMails'
  BY <1>1 DEF Send, Arrives, Carried, Kept, table, MarksMatchMails
<1> QED
  BY <1>2, <1>3, <1>4, <1>5 DEF Kept

-----------------------------------------------------------------------------
(* A mail that could not be marked.                                        *)

\* Turning away from the mail in hand, which may have arrived, without a mark.
LEMMA LettingGoKeeps ==
  ASSUME Kept,
         UNCHANGED <<table, rights, overtaken>>, due' \in BOOLEAN,
         digest' \in [pc : {"asleep", "turn"}, left : SUBSET People, who : {Nobody},
                      hand : SUBSET Topics],
         mailed' = mailed \/ mailed' = mailed \cup Carried,
         unsettled' = unsettled \cup Carried
  PROVE  Kept'
<1>1. TypeOK'
  BY DEF Carried, Kept, table, rights, TypeOK, Places
<1>2. Turns'
  BY DEF Turns
<1>3. Sent'
  BY DEF Carried, Kept, Sent
<1>4. MarksMatchMails'
  BY DEF Carried, Kept, table, Sent, MarksMatchMails
<1> QED
  BY <1>1, <1>2, <1>3, <1>4 DEF Kept

LEMMA SendFailsKeeps ==
  ASSUME Kept, SendFails
  PROVE  Kept'
<1>1. /\ digest' \in [pc : {"asleep", "turn"}, left : SUBSET People, who : {Nobody},
                      hand : SUBSET Topics]
      /\ digest'.pc = "turn"
  BY DEF SendFails, NextTurn, Kept, TypeOK
<1>2. due' \in BOOLEAN /\ UNCHANGED <<table, rights, overtaken>>
  BY DEF SendFails, Kept, TypeOK
<1>3. CASE UNCHANGED <<mailed, unsettled>>
  BY <1>1, <1>2, <1>3, MovingOnKeeps DEF SendFails, history
<1>4. CASE Arrives /\ Unsettle
  BY <1>1, <1>2, <1>4, LettingGoKeeps DEF Arrives, Unsettle
<1> QED
  BY <1>3, <1>4 DEF SendFails

LEMMA BreakRunKeeps ==
  ASSUME Kept, BreakRun
  PROVE  Kept'
<1>1. digest' \in [pc : {"asleep"}, left : SUBSET People, who : {Nobody}, hand : SUBSET Topics]
  BY DEF BreakRun, Asleep
<1>2. due' \in BOOLEAN /\ UNCHANGED <<table, rights, mailed, overtaken>>
  BY DEF BreakRun, Kept, TypeOK
<1>3. CASE digest.pc = "tasks" /\ UNCHANGED unsettled
  BY <1>1, <1>2, <1>3, MovingOnKeeps DEF history
<1>4. CASE digest.pc = "mark" /\ Unsettle
  BY <1>1, <1>2, <1>4, LettingGoKeeps DEF Unsettle
<1> QED
  BY <1>3, <1>4 DEF BreakRun

LEMMA CrashKeeps ==
  ASSUME Kept, Crash
  PROVE  Kept'
<1>1. digest' \in [pc : {"asleep"}, left : SUBSET People, who : {Nobody}, hand : SUBSET Topics]
  BY DEF Crash, Asleep
<1>2. due' \in BOOLEAN /\ UNCHANGED <<table, rights, overtaken>>
  BY DEF Crash
<1>3. CASE digest.pc # "mark" /\ UNCHANGED <<mailed, unsettled>>
  BY <1>1, <1>2, <1>3, MovingOnKeeps DEF history
<1>4. CASE digest.pc = "mark" /\ mailed' = mailed /\ Unsettle
  BY <1>1, <1>2, <1>4, LettingGoKeeps DEF Unsettle
<1>5. CASE digest.pc = "send" /\ Arrives /\ Unsettle
  BY <1>1, <1>2, <1>5, LettingGoKeeps DEF Arrives, Unsettle
<1> QED
  BY <1>3, <1>4, <1>5 DEF Crash

LEMMA MarkDigestedKeeps ==
  ASSUME Kept, NEW t \in Topics, MarkDigested(t)
  PROVE  Kept'
<1>1. /\ digest.pc = "mark" /\ t \in digest.hand /\ digest.who # Nobody
      /\ t \in rows /\ t \in mailed \cup overtaken
  BY DEF MarkDigested, Kept, Turns, Sent
<1>2. \/ /\ digest.hand = {t}
         /\ digest'.pc = "turn" /\ digest'.who = Nobody /\ digest'.hand = {}
      \/ /\ digest'.pc = "mark" /\ digest'.who = digest.who
         /\ digest'.hand = digest.hand \ {t}
  BY <1>1 DEF MarkDigested, NextTurn, Kept, TypeOK
<1>3. TypeOK'
  <2>1. digest' \in [pc : Places, left : SUBSET People, who : People \cup {Nobody},
                     hand : SUBSET Topics]
    <3>1. CASE digest.hand = {t}
      BY <3>1 DEF MarkDigested, NextTurn, Kept, TypeOK, Places
    <3>2. CASE digest.hand # {t}
      <4>1. digest' = [digest EXCEPT !.hand = digest.hand \ {t}]
        BY <3>2 DEF MarkDigested
      <4> QED
        BY <4>1 DEF Kept, TypeOK, Places
    <3> QED
      BY <3>1, <3>2
  <2> QED
    BY <1>1, <2>1 DEF MarkDigested, Kept, rights, TypeOK
<1>4. Turns'
  BY <1>1, <1>2 DEF MarkDigested, Kept, Turns
<1>5. Sent'
  BY <1>2, <1>1 DEF MarkDigested, Kept, Sent
<1>6. MarksMatchMails'
  BY <1>1, <1>2 DEF MarkDigested, Kept, MarksMatchMails
<1> QED
  BY <1>3, <1>4, <1>5, <1>6 DEF Kept

-----------------------------------------------------------------------------
LEMMA StepKeeps ==
  ASSUME Kept, [Next]_vars
  PROVE  Kept'
<1>1. ASSUME NEW t \in Topics, ChangeAccess(t)
      PROVE  Kept'
  <2>1. TypeOK'
    BY <1>1 DEF ChangeAccess, Kept, table, history, TypeOK
  <2>2. Turns' /\ Sent' /\ MarksMatchMails'
    BY <1>1 DEF ChangeAccess, Kept, table, history, Turns, Sent, MarksMatchMails
  <2> QED
    BY <2>1, <2>2 DEF Kept
<1>2. CASE NewDay
  <2>1. TypeOK'
    BY <1>2 DEF NewDay, Kept, table, rights, history, TypeOK
  <2>2. Turns' /\ Sent' /\ MarksMatchMails'
    BY <1>2 DEF NewDay, Kept, table, history, Turns, Sent, MarksMatchMails
  <2> QED
    BY <2>1, <2>2 DEF Kept
<1>3. CASE StartRun
  <2>1. PICK tasks \in SUBSET Tasks : digest' = [Asleep EXCEPT !.pc = "tasks", !.hand = tasks]
    BY <1>3 DEF StartRun
  <2>2. digest' \in [pc : {"asleep", "tasks", "turn"}, left : SUBSET People, who : {Nobody},
                     hand : SUBSET Topics]
    BY <2>1, TasksAssumption DEF Asleep
  <2> QED
    BY <1>3, <2>2, MovingOnKeeps DEF StartRun
<1>4. CASE EndTasks
  BY <1>4, MovingOnKeeps DEF EndTasks, Asleep, Kept, TypeOK
<1>5. CASE AssembleFails
  BY <1>5, MovingOnKeeps DEF AssembleFails, Kept, TypeOK, Turns
<1>6. CASE EndRun
  BY <1>6, MovingOnKeeps DEF EndRun, Asleep, Kept, TypeOK
<1>7. CASE UNCHANGED vars
  <2>1. TypeOK'
    BY <1>7 DEF vars, table, rights, history, Kept, TypeOK
  <2>2. Turns' /\ Sent' /\ MarksMatchMails'
    BY <1>7 DEF vars, table, history, Kept, Turns, Sent, MarksMatchMails
  <2> QED
    BY <2>1, <2>2 DEF Kept
<1> QED
  BY <1>1, <1>2, <1>3, <1>4, <1>5, <1>6, <1>7, EmitKeeps, EmitTaskKeeps, AssembleKeeps,
     SendKeeps, SendFailsKeeps, BreakRunKeeps, CrashKeeps, MarkDigestedKeeps DEF Next

LEMMA InitKept ==
  ASSUME Init
  PROVE  Kept
<1>1. TypeOK
  BY DEF Init, TypeOK, Asleep, Places
<1> QED
  BY <1>1 DEF Init, Asleep, Kept, Turns, Sent, MarksMatchMails

LEMMA AlwaysKept == Spec => []Kept
<1>1. Kept /\ [Next]_vars => Kept'
  BY StepKeeps
<1> QED
  BY InitKept, <1>1, PTL DEF Spec

\* Types: rows, marks and the digest task, for any people, topics and limit; in particular the
\* upsert of emit_event keeps the rows in one order.
THEOREM TypeCorrect == Spec => []TypeOK
<1>1. Kept => TypeOK
  BY DEF Kept
<1> QED
  BY AlwaysKept, <1>1, PTL

\* digest.rs: what is marked was mailed, unless it was told of again meanwhile; what was mailed
\* is marked, or one of the failures the model names kept it from being marked.
THEOREM MarksFollowMails == Spec => []MarksMatchMails
<1>1. Kept => MarksMatchMails
  BY DEF Kept
<1> QED
  BY AlwaysKept, <1>1, PTL

=============================================================================
