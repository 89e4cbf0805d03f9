----------------------- MODULE CollabSession_proofs -----------------------
(***************************************************************************)
(* Proofs about the open sockets, for any sockets, updates, buffer, policy *)
(* and number of changes: no schedule lets a socket that has lost its      *)
(* access do more than one more thing with the room, and none leaves a     *)
(* browser behind the room with nothing on its way that would tell it.     *)
(*                                                                         *)
(* A step of a task concerns its own socket only (OneSocket), so for it    *)
(* the invariant comes down to a condition on the four values the task     *)
(* leaves behind (Fits).  A step of the store concerns every socket.  For  *)
(* the second, one lemma per kind of step says what it does to all that is *)
(* on its way to a browser (OnItsWay).                                     *)
(***************************************************************************)
EXTENDS CollabSession, TLAPS

Epochs == 0..epoch

\* What a task may leave as its mark of the epoch, its reason to ask, its stage and its count
\* of late acts.
Fits(s, k, a, g, l) ==
  /\ a => g = "gate"
  /\ g = "off" \/ epoch > k \/ a \/ g = "account"
       \/ (commit = NoCommit /\ (Lost(s) => g = "grant" /\ ~grant[s]))
  /\ l # 0 => Lost(s) /\ g # "act"

\* In a state of the invariant, what each task has left behind fits.
LEMMA AlwaysFits ==
  ASSUME GateInductive, NEW s \in Sockets
  PROVE  Fits(s, known[s], asked[s], stage[s], late[s])
  BY DEF GateInductive, GateTypes, AskedAtGate, CommitIsTold, LossIsTold, LateIsLast, Told,
     Moved, Fits

\* ... and is of the right types.
LEMMA AlwaysTyped ==
  ASSUME GateInductive, NEW s \in Sockets
  PROVE  /\ known[s] \in Epochs /\ epoch \in Epochs /\ asked[s] \in BOOLEAN
         /\ stage[s] \in Stages /\ late[s] \in 0..1
         /\ asked[s] => stage[s] = "gate"
         /\ known = [known EXCEPT ![s] = known[s]] /\ asked = [asked EXCEPT ![s] = asked[s]]
         /\ stage = [stage EXCEPT ![s] = stage[s]] /\ late = [late EXCEPT ![s] = late[s]]
  BY DEF GateInductive, GateTypes, AskedAtGate, Epochs

\* The step leaves these values behind in the task of s, and nothing else that matters.
Leaves(s, k, a, g, l) ==
  /\ k \in Epochs /\ a \in BOOLEAN /\ g \in Stages /\ l \in 0..1
  /\ UNCHANGED store
  /\ known' = [known EXCEPT ![s] = k] /\ asked' = [asked EXCEPT ![s] = a]
  /\ stage' = [stage EXCEPT ![s] = g] /\ late' = [late EXCEPT ![s] = l]

\* A step of the task of s that leaves fitting values behind keeps the invariant.
LEMMA OneSocket ==
  ASSUME GateInductive, NEW s \in Sockets, NEW k, NEW a, NEW g, NEW l,
         Leaves(s, k, a, g, l), Fits(s, k, a, g, l)
  PROVE  GateInductive'
<1> USE DEF Leaves
<1>1. GateTypes'
  BY DEF GateInductive, GateTypes, store, Epochs
<1>2. ASSUME NEW t \in Sockets PROVE Lost(t)' <=> Lost(t)
  BY DEF Lost, store
<1>3. ASSUME NEW t \in Sockets
      PROVE  /\ asked'[t] => stage'[t] = "gate"
             /\ commit' # NoCommit /\ stage'[t] # "off" => Told(t)'
             /\ Lost(t)' /\ stage'[t] # "off" => Told(t)' \/ (stage'[t] = "grant" /\ ~grant'[t])
             /\ late'[t] # 0 => Lost(t)' /\ stage'[t] # "act"
  <2>1. CASE t = s
    BY <1>2, <2>1 DEF GateInductive, GateTypes, store, Fits, Told, Moved
  <2>2. CASE t # s
    <3>1. /\ known'[t] = known[t] /\ asked'[t] = asked[t]
          /\ stage'[t] = stage[t] /\ late'[t] = late[t]
      BY <2>2 DEF GateInductive, GateTypes
    <3> QED
      BY <1>2, <3>1, AlwaysFits DEF store, Fits, Told, Moved
  <2> QED
    BY <2>1, <2>2
<1> QED
  BY <1>1, <1>3 DEF GateInductive, AskedAtGate, CommitIsTold, LossIsTold, LateIsLast

-----------------------------------------------------------------------------
(* The steps of a task.                                                    *)

\* A task that ends leaves nothing behind.
LEMMA TaskEnds ==
  ASSUME GateInductive, NEW s \in Sockets, UNCHANGED <<store, asked>>, Closed(s), ~asked[s]
  PROVE  GateInductive'
<1>1. asked' = [asked EXCEPT ![s] = FALSE]
  BY DEF GateInductive, GateTypes
<1>2. Fits(s, 0, FALSE, "off", 0)
  BY DEF Fits
<1>3. 0 \in Epochs /\ "off" \in Stages /\ 0 \in 0..1
  BY DEF GateInductive, GateTypes, Epochs, Stages
<1>4. Leaves(s, 0, FALSE, "off", 0)
  BY <1>1, <1>3 DEF Closed, Leaves
<1> QED
  BY <1>2, <1>4, OneSocket

\* The handshake marks the epoch and asks; its answer, and the answer at a gate, is yes only
\* for an account, and a page, that were good when it was read.
LEMMA VerdictStep ==
  ASSUME GateInductive, NEW s \in Sockets, Connect(s) \/ Ask(s) \/ Verdict(s)
  PROVE  GateInductive'
<1>1. CASE Connect(s)
  <2>1. Fits(s, epoch, asked[s], "account", late[s])
    BY AlwaysTyped, AlwaysFits, <1>1 DEF Connect, Fits
  <2>2. Leaves(s, epoch, asked[s], "account", late[s])
    BY AlwaysTyped, <1>1 DEF Leaves, Stages, Connect
  <2> QED
    BY <2>1, <2>2, OneSocket
<1>2. CASE Ask(s)
  <2>1. Fits(s, epoch, FALSE, "account", late[s])
    BY AlwaysTyped, AlwaysFits, <1>2 DEF Ask, Fits
  <2>2. Leaves(s, epoch, FALSE, "account", late[s])
    BY AlwaysTyped, <1>2 DEF Leaves, Stages, Ask
  <2> QED
    BY <2>1, <2>2, OneSocket
<1>3. CASE ReadAccount(s)
  <2>1. CASE MayEdit(s)
    <3>1. Lost(s) => ~grant[s]
      BY <2>1 DEF MayEdit, Lost
    <3>2. Fits(s, known[s], asked[s], "grant", late[s])
      BY AlwaysTyped, AlwaysFits, <1>3, <3>1 DEF ReadAccount, Fits
    <3>3. Leaves(s, known[s], asked[s], "grant", late[s])
      BY AlwaysTyped, <1>3, <2>1 DEF Leaves, Stages, ReadAccount
    <3> QED
      BY <3>2, <3>3, OneSocket
  <2>2. CASE ~MayEdit(s)
    BY AlwaysTyped, <1>3, <2>2, TaskEnds DEF ReadAccount
  <2> QED
    BY <2>1, <2>2
<1>4. CASE ReadGrant(s)
  <2>1. CASE grant[s]
    <3> DEFINE next == IF site[s] = "join" THEN "admitted" ELSE "gate"
    <3>1. Fits(s, known[s], asked[s], next, late[s])
      BY AlwaysTyped, AlwaysFits, <1>4, <2>1 DEF ReadGrant, Fits
    <3>2. Leaves(s, known[s], asked[s], next, late[s])
      BY AlwaysTyped, <1>4, <2>1 DEF Leaves, Stages, ReadGrant
    <3> QED
      BY <3>1, <3>2, OneSocket
  <2>2. CASE ~grant[s]
    BY AlwaysTyped, <1>4, <2>2, TaskEnds DEF ReadGrant
  <2> QED
    BY <2>1, <2>2
<1> QED
  BY <1>1, <1>2, <1>3, <1>4 DEF Verdict

\* The gate lets a task pass only while it has no loss to hear of; what it then does may come
\* too late, once.
LEMMA GuardedStep ==
  ASSUME GateInductive, NEW s \in Sockets,
         Subscribe(s) \/ Pass(s) \/ Act(s) \/ Broadcast(s)
  PROVE  GateInductive'
<1>1. CASE Subscribe(s)
  <2>1. Fits(s, known[s], asked[s], "gate", late[s])
    BY AlwaysTyped, AlwaysFits, <1>1 DEF Subscribe, Fits
  <2>2. Leaves(s, known[s], asked[s], "gate", late[s])
    BY AlwaysTyped, <1>1 DEF Leaves, Stages, Subscribe, gate
  <2> QED
    BY <2>1, <2>2, OneSocket
<1>2. CASE Pass(s)
  <2>1. Fits(s, known[s], asked[s], "act", late[s])
    BY AlwaysTyped, AlwaysFits, <1>2 DEF Pass, Moved, Fits
  <2>2. Leaves(s, known[s], asked[s], "act", late[s])
    BY AlwaysTyped, <1>2 DEF Leaves, Stages, Pass, gate
  <2> QED
    BY <2>1, <2>2, OneSocket
<1>3. CASE Act(s)
  <2> DEFINE next  == IF site[s] \in {"update", "awareness"} THEN "relaying" ELSE "select"
             count == IF Lost(s) /\ site[s] \notin {"push", "tick"} THEN 1 ELSE 0
  <2>1. late[s] = 0
    BY AlwaysTyped, AlwaysFits, <1>3 DEF Act, Fits
  <2>2. late' = [late EXCEPT ![s] = count] /\ stage' = [stage EXCEPT ![s] = next]
    BY <1>3, <2>1 DEF Act, Loop
  <2>3. Fits(s, known[s], asked[s], next, count)
    BY AlwaysTyped, AlwaysFits, <1>3 DEF Act, Fits
  <2>4. UNCHANGED store /\ known' = known /\ asked' = asked
    BY <1>3 DEF Act, gate
  <2>5. next \in Stages /\ count \in 0..1
    BY DEF Stages
  <2>6. Leaves(s, known[s], asked[s], next, count)
    BY AlwaysTyped, <2>2, <2>4, <2>5 DEF Leaves
  <2> QED
    BY <2>3, <2>6, OneSocket
<1>4. CASE Broadcast(s)
  <2>1. Fits(s, known[s], asked[s], "select", late[s])
    BY AlwaysTyped, AlwaysFits, <1>4 DEF Broadcast, Fits
  <2>2. Leaves(s, known[s], asked[s], "select", late[s])
    BY AlwaysTyped, <1>4 DEF Leaves, Stages, Broadcast, Loop, gate
  <2> QED
    BY <2>1, <2>2, OneSocket
<1> QED
  BY <1>1, <1>2, <1>3, <1>4

\* A branch of the select only leads to the gate, and a push, which marks the epoch, is
\* remembered there.
LEMMA SelectStep ==
  ASSUME GateInductive, NEW s \in Sockets,
         \/ AskSync(s) \/ (\E u \in Updates : SendUpdate(s, u)) \/ SendAwareness(s)
         \/ Receive(s) \/ ReceiveLagged(s) \/ Pushed(s) \/ Tick(s)
  PROVE  GateInductive'
<1>1. ASSUME NEW at, NEW updates, NEW ask \in BOOLEAN, Take(s, at, updates, ask),
             UNCHANGED <<store, known, late>>
      PROVE  GateInductive'
  <2>1. Fits(s, known[s], ask, "gate", late[s])
    BY AlwaysTyped, AlwaysFits, <1>1 DEF Take, Fits
  <2>2. Leaves(s, known[s], ask, "gate", late[s])
    BY AlwaysTyped, <1>1 DEF Leaves, Stages, Take
  <2> QED
    BY <2>1, <2>2, OneSocket
<1>2. ASSUME NEW at, NEW updates, Handle(s, at, updates), UNCHANGED <<store, known, late>>
      PROVE  GateInductive'
  BY <1>1, <1>2, PolicyAssumption DEF Handle
<1>3. CASE \/ AskSync(s) \/ (\E u \in Updates : SendUpdate(s, u)) \/ SendAwareness(s)
             \/ ReceiveLagged(s)
  BY <1>2, <1>3 DEF AskSync, SendUpdate, SendAwareness, ReceiveLagged
<1>4. CASE Receive(s)
  <2>1. CASE Head(inbox[s]).from = s /\ UNCHANGED <<task, asked>>
    <3>1. Leaves(s, known[s], asked[s], stage[s], late[s])
      BY AlwaysTyped, <1>4, <2>1 DEF Leaves, Receive, task
    <3> QED
      BY <3>1, AlwaysFits, OneSocket
  <2>2. CASE Handle(s, "relay", Head(inbox[s]).updates)
    BY <1>2, <1>4, <2>2 DEF Receive
  <2> QED
    BY <1>4, <2>1, <2>2 DEF Receive
<1>5. CASE Pushed(s)
  <2>1. Fits(s, epoch, TRUE, "gate", late[s])
    BY AlwaysTyped, AlwaysFits DEF Fits
  <2>2. Leaves(s, epoch, TRUE, "gate", late[s])
    BY AlwaysTyped, <1>5 DEF Leaves, Stages, Pushed, Take
  <2> QED
    BY <2>1, <2>2, OneSocket
<1>6. CASE Tick(s)
  BY <1>1, <1>6 DEF Tick
<1> QED
  BY <1>3, <1>4, <1>5, <1>6

\* The end of the task from the select, or from a statement that failed.
LEMMA HangupStep ==
  ASSUME GateInductive, NEW s \in Sockets, Hangup(s)
  PROVE  GateInductive'
  BY TaskEnds DEF Hangup, GateInductive, AskedAtGate

-----------------------------------------------------------------------------
(* The steps of the store.                                                 *)

\* What a step of the store leaves alone.
Tasks == <<known, stage, asked>>

\* A change that is announced, whatever it does to access, is news to every task.
LEMMA AnnouncedStep ==
  ASSUME GateInductive, epoch' = epoch + 1, UNCHANGED <<Tasks, late>>,
         \A s \in Sockets : Lost(s) => Lost(s)',
         viewing' \in [Sockets -> {"no", "begun", "yes"}], UNCHANGED <<account, grant, expired>>
  PROVE  GateInductive'
<1>1. GateTypes'
  BY DEF GateInductive, GateTypes, Tasks
<1>2. \A s \in Sockets : Moved(s)'
  BY DEF GateInductive, GateTypes, Moved, Tasks
<1>3. AskedAtGate' /\ CommitIsTold' /\ LossIsTold'
  BY <1>2 DEF GateInductive, AskedAtGate, CommitIsTold, LossIsTold, Told, Tasks
<1>4. LateIsLast'
  BY DEF GateInductive, GateTypes, LateIsLast, Tasks
<1> QED
  BY <1>1, <1>3, <1>4 DEF GateInductive

\* A change that takes effect: every task has been told of it before.
LEMMA EffectStep ==
  ASSUME GateInductive, EndCommit
  PROVE  GateInductive'
<1>1. /\ UNCHANGED <<epoch, known, stage, asked, viewing, expired>>
      /\ commit # NoCommit /\ commit' = NoCommit
      /\ late' = [s \in Sockets |-> IF Lost(s)' THEN late[s] ELSE 0]
  BY DEF EndCommit, gate, task
<1>2. account' \in [Sockets -> BOOLEAN] /\ grant' \in [Sockets -> BOOLEAN]
  BY DEF EndCommit
<1>3. GateTypes'
  BY <1>1, <1>2 DEF GateInductive, GateTypes
<1>4. ASSUME NEW s \in Sockets, stage[s] # "off" PROVE Told(s)'
  BY <1>1, <1>4 DEF GateInductive, CommitIsTold, Told, Moved
<1>5. AskedAtGate' /\ CommitIsTold' /\ LossIsTold'
  BY <1>1, <1>4 DEF GateInductive, AskedAtGate, CommitIsTold, LossIsTold
<1>6. LateIsLast'
  BY <1>1 DEF GateInductive, LateIsLast
<1> QED
  BY <1>3, <1>5, <1>6 DEF GateInductive

\* A step that takes nobody's access away and begins no change needs no announcement.
LEMMA QuietStep ==
  ASSUME GateInductive, GateTypes', UNCHANGED <<Tasks, epoch, grant>>, commit' \in {commit, NoCommit},
         \A s \in Sockets : /\ Lost(s)' => Lost(s)
                            /\ late'[s] # 0 => Lost(s)' /\ late[s] # 0
  PROVE  GateInductive'
<1>1. \A s \in Sockets : Told(s)' <=> Told(s)
  BY DEF Told, Moved, Tasks
<1>2. AskedAtGate' /\ CommitIsTold'
  BY <1>1 DEF GateInductive, AskedAtGate, CommitIsTold, Tasks
<1>3. LossIsTold'
  BY <1>1 DEF GateInductive, LossIsTold, Tasks
<1>4. LateIsLast'
  BY DEF GateInductive, LateIsLast, Tasks
<1> QED
  BY <1>2, <1>3, <1>4 DEF GateInductive

\* Every step of the store is one of these.
LEMMA StoreKeeps ==
  ASSUME GateInductive, StoreStep
  PROVE  GateInductive'
<1>1. ASSUME NEW fact, NEW of, BeginCommit(fact, of) PROVE GateInductive'
  BY <1>1, AnnouncedStep DEF BeginCommit, facts, gate, task, Tasks, Lost, GateInductive, GateTypes
<1>2. CASE FailCommit
  <2>1. GateTypes'
    BY <1>2 DEF FailCommit, facts, gate, task, GateInductive, GateTypes
  <2>2. \A s \in Sockets : Lost(s)' <=> Lost(s)
    BY <1>2 DEF FailCommit, facts, Lost
  <2> QED
    BY <1>2, <2>1, <2>2, QuietStep DEF FailCommit, facts, gate, task, Tasks, GateInductive, LateIsLast
<1>3. ASSUME NEW s \in Sockets, Expire(s) PROVE GateInductive'
  <2>1. GateTypes'
    BY <1>3 DEF Expire, gate, task, GateInductive, GateTypes
  <2>2. \A t \in Sockets : Lost(t)' <=> Lost(t)
    BY <1>3 DEF Expire, Lost, GateInductive, GateTypes
  <2> QED
    BY <1>3, <2>1, <2>2, QuietStep DEF Expire, gate, task, Tasks, GateInductive, LateIsLast
<1>4. ASSUME NEW s \in Sockets, BeginViewing(s) PROVE GateInductive'
  <2>1. GateTypes'
    BY <1>4 DEF BeginViewing, gate, task, GateInductive, GateTypes
  <2>2. \A t \in Sockets : Lost(t)' <=> Lost(t)
    BY <1>4 DEF BeginViewing, Lost, GateInductive, GateTypes
  <2> QED
    BY <1>4, <2>1, <2>2, QuietStep
    DEF BeginViewing, gate, task, Tasks, GateInductive, LateIsLast
<1>5. ASSUME NEW s \in Sockets, AnnounceViewing(s) PROVE GateInductive'
  <2>1. viewing' \in [Sockets -> {"no", "begun", "yes"}]
    BY <1>5 DEF AnnounceViewing, GateInductive, GateTypes
  <2>2. \A t \in Sockets : Lost(t) => Lost(t)'
    BY <1>5 DEF AnnounceViewing, Lost, GateInductive, GateTypes
  <2> QED
    BY <1>5, <2>1, <2>2, AnnouncedStep DEF AnnounceViewing, gate, task, Tasks
<1>6. ASSUME NEW s \in Sockets, EndViewing(s) PROVE GateInductive'
  <2>1. GateTypes'
    BY <1>6 DEF EndViewing, gate, task, GateInductive, GateTypes
  <2>2. \A t \in Sockets : Lost(t)' => Lost(t)
    BY <1>6 DEF EndViewing, Lost, GateInductive, GateTypes
  <2>3. \A t \in Sockets : late'[t] # 0 => Lost(t)' /\ late[t] # 0
    <3>1. \A t \in Sockets \ {s} : Lost(t)' <=> Lost(t)
      BY <1>6 DEF EndViewing, Lost, GateInductive, GateTypes
    <3> QED
      BY <1>6, <3>1 DEF EndViewing, GateInductive, GateTypes, LateIsLast
  <2> QED
    BY <1>6, <2>1, <2>2, <2>3, QuietStep DEF EndViewing, gate, task, Tasks
<1> QED
  BY <1>1, <1>2, <1>3, <1>4, <1>5, <1>6, EffectStep DEF StoreStep, Viewing

-----------------------------------------------------------------------------

\* Nothing has been announced and nobody is connected.
LEMMA GateInit == Init => GateInductive
  BY DEF Init, GateInductive, GateTypes, AskedAtGate, CommitIsTold, LossIsTold, LateIsLast, Stages

\* Every step keeps the invariant.
LEMMA GateNext == GateInductive /\ [Next]_vars => GateInductive'
<1> SUFFICES ASSUME GateInductive, [Next]_vars PROVE GateInductive'
  OBVIOUS
<1>1. CASE StoreStep
  BY <1>1, StoreKeeps
<1>2. ASSUME NEW s \in Sockets, Proceed(s) PROVE GateInductive'
  BY <1>2, GuardedStep, VerdictStep DEF Proceed, Gate
<1>3. ASSUME NEW s \in Sockets, FromBrowser(s) PROVE GateInductive'
  BY <1>3, VerdictStep, SelectStep, HangupStep DEF FromBrowser
<1>4. ASSUME NEW s \in Sockets, FromRoom(s) \/ Pushed(s) \/ Tick(s) PROVE GateInductive'
  BY <1>4, SelectStep DEF FromRoom
<1>5. CASE UNCHANGED vars
  BY <1>5 DEF vars, GateInductive, GateTypes, AskedAtGate, CommitIsTold, LossIsTold, LateIsLast,
     Told, Moved, Lost
<1> QED
  BY <1>1, <1>2, <1>3, <1>4, <1>5 DEF Next

\* The invariant of the gate holds in every state.
LEMMA GateInvariant == Spec => []GateInductive
  BY GateInit, GateNext, PTL DEF Spec

\* A socket whose access was taken away and announced does at most one more thing with the
\* room, whatever the order of frames, changes, pushes, ticks and verdicts: the second look of
\* vet_until_stable leaves room for the one statement it had already let pass.
THEOREM OneLateActAtMost == Spec => []AtMostOneLateAct
<1>1. GateInductive => AtMostOneLateAct
  BY DEF GateInductive, GateTypes, AtMostOneLateAct
<1> QED
  BY <1>1, GateInvariant, PTL

-----------------------------------------------------------------------------
(***************************************************************************)
(* NothingIsMissed: what of the room a browser lacks is always on its way. *)
(***************************************************************************)

\* What is on its way to the browser of s, and why s is not behind.
OnItsWay(s) == has[s] \union hand[s] \union Buffered(s) \union BeingRelayed

CaughtUp(s) ==
  \/ owed[s] \/ lagged[s]
  \/ stage[s] # "select" /\ site[s] \in {"connect", "resync"}
  \/ room \subseteq OnItsWay(s)

LEMMA MissedBySocket == NothingIsMissed <=> \A s \in Sockets : Subscribed(s) => CaughtUp(s)
  BY DEF NothingIsMissed, CaughtUp, OnItsWay

\* The frames of a buffer that has lost its first, or been given one more.
LEMMA FrameTaken ==
  ASSUME NEW q \in Seq(Frames), q # <<>>
  PROVE  /\ Tail(q) \in Seq(Frames) /\ Head(q) = q[1] /\ Head(q) \in Frames /\ 1 \in 1..Len(q)
         /\ \A i \in 1..Len(Tail(q)) : i + 1 \in 1..Len(q) /\ Tail(q)[i] = q[i + 1]
         /\ \A i \in 1..Len(q) : i = 1 \/ (i - 1 \in 1..Len(Tail(q)) /\ q[i] = Tail(q)[i - 1])
  OBVIOUS

LEMMA FrameGiven ==
  ASSUME NEW q \in Seq(Frames), NEW f \in Frames
  PROVE  /\ Append(q, f) \in Seq(Frames)
         /\ \A i \in 1..Len(Append(q, f)) :
              Append(q, f)[i] = f \/ (i \in 1..Len(q) /\ Append(q, f)[i] = q[i])
         /\ \A i \in 1..Len(q) : i \in 1..Len(Append(q, f)) /\ Append(q, f)[i] = q[i]
         /\ Len(q) + 1 \in 1..Len(Append(q, f)) /\ Append(q, f)[Len(q) + 1] = f
  OBVIOUS

\* Steps after which every socket has, holds and awaits what it did.
LEMMA NothingMoves ==
  ASSUME RelayInductive, RelayTypes', HandsMatchSites',
         UNCHANGED <<room, hand, inbox, lagged, owed, has>>,
         \A t \in Sockets :
           /\ stage'[t] = "relaying" <=> stage[t] = "relaying"
           /\ \/ Subscribed(t)' => stage'[t] # "select" /\ site'[t] \in {"connect", "resync"}
              \/ /\ Subscribed(t)' => Subscribed(t)
                 /\ site'[t] = site[t] /\ (stage[t] # "select" => stage'[t] # "select")
  PROVE  RelayInductive'
<1>1. OwnFramesAreHad'
  BY DEF RelayInductive, OwnFramesAreHad
<1>2. ASSUME NEW t \in Sockets, Subscribed(t)' PROVE CaughtUp(t)'
  <2>1. OnItsWay(t)' = OnItsWay(t)
    BY DEF OnItsWay, Buffered, BeingRelayed
  <2>2. CASE stage'[t] # "select" /\ site'[t] \in {"connect", "resync"}
    BY <2>2 DEF CaughtUp
  <2>3. CASE Subscribed(t) /\ site'[t] = site[t] /\ (stage[t] # "select" => stage'[t] # "select")
    BY <2>1, <2>3, MissedBySocket DEF RelayInductive, CaughtUp
  <2> QED
    BY <1>2, <2>2, <2>3
<1> QED
  BY <1>1, <1>2, MissedBySocket DEF RelayInductive, NothingIsMissed, CaughtUp, OnItsWay

\* A task that ends had nothing to relay, and what others await does not come from it.
LEMMA SocketEnds ==
  ASSUME RelayInductive, NEW s \in Sockets, Closed(s), stage[s] # "relaying", UNCHANGED <<room, has>>
  PROVE  RelayInductive'
<1>1. RelayTypes'
  BY DEF RelayInductive, RelayTypes, Closed, Stages, Sites
<1>2. HandsMatchSites'
  BY DEF RelayInductive, RelayTypes, HandsMatchSites, Closed
<1>3. OwnFramesAreHad'
  BY DEF RelayInductive, RelayTypes, OwnFramesAreHad, Closed
<1>4. BeingRelayed' = BeingRelayed
  BY DEF RelayInductive, RelayTypes, Closed, BeingRelayed
<1>5. ASSUME NEW t \in Sockets, Subscribed(t)' PROVE CaughtUp(t)'
  <2>1. t # s
    BY <1>5 DEF Subscribed, Closed, RelayInductive, RelayTypes
  <2>2. /\ stage'[t] = stage[t] /\ site'[t] = site[t] /\ hand'[t] = hand[t]
        /\ inbox'[t] = inbox[t] /\ lagged'[t] = lagged[t] /\ owed'[t] = owed[t]
    BY <2>1 DEF Closed, RelayInductive, RelayTypes
  <2>3. Buffered(t)' = Buffered(t)
    BY <2>2 DEF Buffered
  <2> QED
    BY <1>4, <1>5, <2>2, <2>3, MissedBySocket DEF RelayInductive, Subscribed, CaughtUp, OnItsWay
<1> QED
  BY <1>1, <1>2, <1>3, <1>5, MissedBySocket DEF RelayInductive, NothingIsMissed, CaughtUp, OnItsWay

\* A branch of the select brings something to its gate; a lag that is taken notice of leads
\* to the site that answers it.
LEMMA BranchTaken ==
  ASSUME RelayInductive, NEW s \in Sockets, NEW at \in Sites \ {"join", "loop"},
         NEW updates \in SUBSET Updates, NEW ask, Take(s, at, updates, ask),
         updates # {} => at \in {"update", "relay"}, at = "update" => updates \subseteq has'[s],
         has' \in [Sockets -> SUBSET Updates], \A t \in Sockets : has[t] \subseteq has'[t],
         UNCHANGED <<room, inbox, owed>>,
         lagged' = lagged \/ (at = "resync" /\ lagged' = [lagged EXCEPT ![s] = FALSE])
  PROVE  RelayInductive'
<1>1. RelayTypes'
  BY DEF RelayInductive, RelayTypes, Take, Stages
<1>2. HandsMatchSites'
  BY DEF RelayInductive, RelayTypes, HandsMatchSites, Take
<1>3. OwnFramesAreHad'
  BY DEF RelayInductive, OwnFramesAreHad
<1>4. BeingRelayed' = BeingRelayed /\ \A t \in Sockets : Buffered(t)' = Buffered(t)
  BY DEF RelayInductive, RelayTypes, Take, BeingRelayed, Buffered
<1>5. ASSUME NEW t \in Sockets, Subscribed(t)' PROVE CaughtUp(t)'
  <2>1. Subscribed(t)
    BY <1>5 DEF Subscribed, Take, RelayInductive, RelayTypes, HandsMatchSites
  <2>2. CASE t = s
    <3>1. OnItsWay(s) \subseteq OnItsWay(s)'
      BY <1>4 DEF Take, RelayInductive, HandsMatchSites, OnItsWay
    <3>2. stage'[s] = "gate" /\ site'[s] = at /\ stage[s] = "select"
      BY DEF Take, RelayInductive, RelayTypes
    <3> QED
      BY <2>1, <2>2, <3>1, <3>2, MissedBySocket DEF RelayInductive, RelayTypes, CaughtUp
  <2>3. CASE t # s
    <3>1. /\ stage'[t] = stage[t] /\ site'[t] = site[t] /\ hand'[t] = hand[t]
          /\ lagged'[t] = lagged[t]
      BY <2>3 DEF Take, RelayInductive, RelayTypes
    <3>2. OnItsWay(t) \subseteq OnItsWay(t)'
      BY <1>4, <3>1 DEF OnItsWay
    <3> QED
      BY <2>1, <3>1, <3>2, MissedBySocket DEF RelayInductive, CaughtUp
  <2> QED
    BY <2>2, <2>3
<1> QED
  BY <1>1, <1>2, <1>3, <1>5, MissedBySocket DEF RelayInductive, NothingIsMissed, CaughtUp, OnItsWay

\* The first frame of the buffer is dropped, because it is the connection's own, or handled.
LEMMA FrameReceived ==
  ASSUME RelayInductive, NEW s \in Sockets, Receive(s)
  PROVE  RelayInductive'
<1> DEFINE first == Head(inbox[s])
<1>1. /\ stage[s] = "select" /\ inbox[s] # <<>> /\ inbox[s] \in Seq(Frames) /\ hand[s] = {}
      /\ inbox' = [inbox EXCEPT ![s] = Tail(inbox[s])]
      /\ UNCHANGED <<room, lagged, owed, has>>
  BY DEF Receive, client, RelayInductive, RelayTypes, HandsMatchSites
<1>2. first \in Frames /\ first = inbox[s][1] /\ 1 \in 1..Len(inbox[s])
  BY <1>1, FrameTaken
<1>3. \/ first.from = s /\ UNCHANGED <<stage, site, hand>>
      \/ /\ stage' = [stage EXCEPT ![s] = "gate"] /\ site' = [site EXCEPT ![s] = "relay"]
         /\ hand' = [hand EXCEPT ![s] = first.updates]
  BY DEF Receive, Handle, Take, task
<1>4. first.from = s => first.updates \subseteq has[s]
  BY <1>2 DEF RelayInductive, OwnFramesAreHad
<1>5. first.updates \in SUBSET Updates
  BY <1>2 DEF Frames
<1>6. Tail(inbox[s]) \in Seq(Frames)
  BY <1>1, FrameTaken
<1>7. Buffered(s) \subseteq first.updates \union Buffered(s)'
  <2>1. inbox'[s] = Tail(inbox[s])
    BY <1>1 DEF RelayInductive, RelayTypes
  <2> SUFFICES ASSUME NEW u \in Buffered(s), u \notin first.updates PROVE u \in Buffered(s)'
    OBVIOUS
  <2>2. PICK i \in 1..Len(inbox[s]) : u \in inbox[s][i].updates
    BY DEF Buffered
  <2>3. i - 1 \in 1..Len(Tail(inbox[s])) /\ inbox[s][i] = Tail(inbox[s])[i - 1]
    BY <1>1, <1>2, <2>2, FrameTaken
  <2> QED
    BY <2>1, <2>2, <2>3 DEF Buffered
<1> HIDE DEF first
<1>8. RelayTypes'
  BY <1>1, <1>3, <1>5, <1>6 DEF RelayInductive, RelayTypes, Stages, Sites
<1>9. HandsMatchSites'
  BY <1>1, <1>3 DEF RelayInductive, RelayTypes, HandsMatchSites
<1>10. OwnFramesAreHad'
  <2> SUFFICES ASSUME NEW t \in Sockets, NEW i \in 1..Len(inbox'[t]), inbox'[t][i].from = t
               PROVE  inbox'[t][i].updates \subseteq has[t]
    BY <1>1 DEF OwnFramesAreHad
  <2>1. CASE t = s
    <3>1. inbox'[t] = Tail(inbox[s])
      BY <1>1, <2>1 DEF RelayInductive, RelayTypes
    <3>2. i + 1 \in 1..Len(inbox[s]) /\ inbox'[t][i] = inbox[s][i + 1]
      BY <1>1, <3>1, FrameTaken
    <3> QED
      BY <2>1, <3>2 DEF RelayInductive, OwnFramesAreHad
  <2>2. CASE t # s
    BY <1>1, <2>2 DEF RelayInductive, RelayTypes, OwnFramesAreHad
  <2> QED
    BY <2>1, <2>2
<1>11. BeingRelayed' = BeingRelayed
  <2>1. \A t \in Sockets : /\ stage'[t] = "relaying" <=> stage[t] = "relaying"
                           /\ stage[t] = "relaying" => hand'[t] = hand[t]
    BY <1>1, <1>3 DEF RelayInductive, RelayTypes
  <2> QED
    BY <2>1 DEF BeingRelayed
<1>12. ASSUME NEW t \in Sockets, Subscribed(t)' PROVE CaughtUp(t)'
  <2>1. Subscribed(t)
    BY <1>1, <1>3, <1>12 DEF Subscribed, RelayInductive, RelayTypes, HandsMatchSites
  <2>2. CASE t = s
    <3>1. OnItsWay(s) \subseteq OnItsWay(s)'
      BY <1>1, <1>3, <1>4, <1>7, <1>11 DEF OnItsWay, RelayInductive, RelayTypes
    <3> QED
      BY <1>1, <2>1, <2>2, <3>1, MissedBySocket DEF RelayInductive, CaughtUp
  <2>3. CASE t # s
    <3>1. stage'[t] = stage[t] /\ site'[t] = site[t] /\ hand'[t] = hand[t] /\ inbox'[t] = inbox[t]
      BY <1>1, <1>3, <2>3 DEF RelayInductive, RelayTypes
    <3>2. OnItsWay(t)' = OnItsWay(t)
      BY <1>1, <1>11, <3>1 DEF OnItsWay, Buffered
    <3> QED
      BY <1>1, <2>1, <3>1, <3>2, MissedBySocket DEF RelayInductive, CaughtUp
  <2> QED
    BY <2>2, <2>3
<1> QED
  BY <1>8, <1>9, <1>10, <1>12, MissedBySocket DEF RelayInductive, NothingIsMissed, CaughtUp, OnItsWay

\* The statement behind the gate: the room is sent, a frame is, or an update is applied to
\* the room -- which is then on its way to everybody.
LEMMA ActDone ==
  ASSUME RelayInductive, NEW s \in Sockets, Act(s)
  PROVE  RelayInductive'
<1> DEFINE at == site[s]
           relays == at \in {"update", "awareness"}
<1>1. /\ stage[s] = "act" /\ at # "join" /\ UNCHANGED <<inbox, lagged>>
      /\ room' = IF at = "update" THEN room \union hand[s] ELSE room
      /\ has' = [has EXCEPT ![s] = has[s] \union Sent(s)]
      /\ owed' = [owed EXCEPT ![s] = at = "connect" \/ (owed[s] /\ at # "diff")]
  BY DEF Act, RelayInductive, HandsMatchSites
<1>2. /\ stage' = [stage EXCEPT ![s] = IF relays THEN "relaying" ELSE "select"]
      /\ site' = [site EXCEPT ![s] = IF relays THEN at ELSE "loop"]
      /\ hand' = [hand EXCEPT ![s] = IF relays THEN hand[s] ELSE {}]
  BY DEF Act, Loop, RelayInductive, RelayTypes
<1>3. Sent(s) \in SUBSET Updates /\ (hand[s] # {} => relays \/ hand[s] \subseteq Sent(s))
  <2>1. hand[s] # {} => at \in {"update", "relay"}
    BY DEF RelayInductive, HandsMatchSites
  <2> QED
    BY <2>1 DEF Sent, RelayInductive, RelayTypes
<1> HIDE DEF at, relays
<1>4. RelayTypes'
  <2>1. room' \subseteq Updates /\ has' \in [Sockets -> SUBSET Updates]
        /\ hand' \in [Sockets -> SUBSET Updates]
    BY <1>1, <1>2, <1>3 DEF RelayInductive, RelayTypes
  <2>2. stage' \in [Sockets -> Stages]
    BY <1>2 DEF RelayInductive, RelayTypes, Stages
  <2>3. site' \in [Sockets -> Sites]
    BY <1>2 DEF RelayInductive, RelayTypes, Sites, at
  <2>4. owed' \in [Sockets -> BOOLEAN]
    <3>1. (at = "connect" \/ (owed[s] /\ at # "diff")) \in BOOLEAN
      OBVIOUS
    <3> QED
      BY <1>1, <3>1 DEF RelayInductive, RelayTypes
  <2> QED
    BY <1>1, <2>1, <2>2, <2>3, <2>4 DEF RelayInductive, RelayTypes
<1>5. HandsMatchSites'
  BY <1>1, <1>2 DEF RelayInductive, RelayTypes, HandsMatchSites, at, relays
<1>6. OwnFramesAreHad'
  BY <1>1, <1>3 DEF RelayInductive, RelayTypes, OwnFramesAreHad
<1>7. BeingRelayed \subseteq BeingRelayed' /\ (relays => hand[s] \subseteq BeingRelayed')
  <2>1. \A t \in Sockets : stage[t] = "relaying" => stage'[t] = "relaying" /\ hand'[t] = hand[t]
    BY <1>1, <1>2 DEF RelayInductive, RelayTypes
  <2>2. relays => stage'[s] = "relaying" /\ hand'[s] = hand[s]
    BY <1>2 DEF RelayInductive, RelayTypes
  <2> QED
    BY <2>1, <2>2 DEF BeingRelayed
<1>8. ASSUME NEW t \in Sockets, Subscribed(t)' PROVE CaughtUp(t)'
  <2>1. Subscribed(t)
    BY <1>1, <1>2, <1>8 DEF Subscribed, RelayInductive, RelayTypes, at
  <2>2. has[t] \subseteq has'[t] /\ Buffered(t)' = Buffered(t)
    BY <1>1, <1>3 DEF Buffered, RelayInductive, RelayTypes
  <2>3. room' \subseteq room \union BeingRelayed'
    BY <1>1, <1>7 DEF relays
  <2>4. hand[t] \subseteq has'[t] \union hand'[t]
    BY <1>1, <1>2, <1>3 DEF RelayInductive, RelayTypes
  <2>5. OnItsWay(t) \subseteq OnItsWay(t)'
    BY <1>7, <2>2, <2>4 DEF OnItsWay
  <2>6. room \subseteq OnItsWay(t) => CaughtUp(t)'
    <3>1. BeingRelayed' \subseteq OnItsWay(t)'
      BY DEF OnItsWay
    <3> QED
      BY <2>3, <2>5, <3>1 DEF CaughtUp
  <2>7. CASE t # s
    <3>1. stage'[t] = stage[t] /\ site'[t] = site[t] /\ lagged'[t] = lagged[t] /\ owed'[t] = owed[t]
      BY <1>1, <1>2, <2>7 DEF RelayInductive, RelayTypes
    <3> QED
      BY <2>1, <2>6, <3>1, MissedBySocket DEF RelayInductive, CaughtUp
  <2>8. CASE t = s /\ at = "connect"
    BY <1>1, <2>8 DEF RelayInductive, RelayTypes, CaughtUp
  <2>9. CASE t = s /\ at \in {"diff", "resync"}
    <3>1. room' = room /\ room \subseteq has'[s]
      BY <1>1, <2>9 DEF Sent, at, RelayInductive, RelayTypes
    <3> QED
      BY <2>9, <3>1 DEF CaughtUp, OnItsWay
  <2>10. CASE t = s /\ at \notin {"connect", "diff", "resync"}
    <3>1. owed'[s] = owed[s] /\ lagged'[s] = lagged[s]
      BY <1>1, <2>10 DEF RelayInductive, RelayTypes
    <3> QED
      BY <1>1, <2>1, <2>6, <2>10, <3>1, MissedBySocket DEF RelayInductive, CaughtUp, at
  <2> QED
    BY <2>7, <2>8, <2>9, <2>10
<1> QED
  BY <1>4, <1>5, <1>6, <1>8, MissedBySocket DEF RelayInductive, NothingIsMissed, CaughtUp, OnItsWay

\* What was being relayed is in every buffer, or the receiver knows of its lag.
LEMMA FrameBroadcast ==
  ASSUME RelayInductive, NEW s \in Sockets, Broadcast(s)
  PROVE  RelayInductive'
<1> DEFINE full(t) == Len(inbox[t]) = Buffer
           f == [from |-> s, updates |-> hand[s]]
           base(t) == IF full(t) THEN Tail(inbox[t]) ELSE inbox[t]
<1>1. /\ stage[s] = "relaying" /\ UNCHANGED <<room, owed, has>>
      /\ inbox' = [t \in Sockets |-> IF Subscribed(t) THEN Append(base(t), f) ELSE inbox[t]]
      /\ lagged' = [t \in Sockets |-> lagged[t] \/ (Subscribed(t) /\ full(t))]
      /\ stage' = [stage EXCEPT ![s] = "select"] /\ site' = [site EXCEPT ![s] = "loop"]
      /\ hand' = [hand EXCEPT ![s] = {}]
  BY DEF Broadcast, Loop, client
<1>2. f \in Frames /\ f.updates = hand[s] /\ f.from = s
  BY DEF Frames, RelayInductive, RelayTypes
<1>3. ASSUME NEW t \in Sockets
      PROVE  /\ base(t) \in Seq(Frames)
             /\ \A i \in 1..Len(base(t)) : \E j \in 1..Len(inbox[t]) : base(t)[i] = inbox[t][j]
  <2>1. inbox[t] \in Seq(Frames)
    BY DEF RelayInductive, RelayTypes
  <2>2. CASE full(t)
    <3>1. inbox[t] # <<>>
      BY <2>1, <2>2, PolicyAssumption
    <3> QED
      BY <2>1, <2>2, <3>1, FrameTaken
  <2>3. CASE ~full(t)
    BY <2>1, <2>3
  <2> QED
    BY <2>2, <2>3
<1> HIDE DEF f, base
<1>4. ASSUME NEW t \in Sockets
      PROVE  /\ inbox'[t] \in Seq(Frames)
             /\ \A i \in 1..Len(inbox'[t]) :
                  inbox'[t][i] = f \/ \E j \in 1..Len(inbox[t]) : inbox'[t][i] = inbox[t][j]
             /\ Subscribed(t) => \E i \in 1..Len(inbox'[t]) : inbox'[t][i] = f
             /\ Subscribed(t) /\ ~full(t) =>
                  \A i \in 1..Len(inbox[t]) : \E j \in 1..Len(inbox'[t]) : inbox'[t][j] = inbox[t][i]
  <2>1. CASE Subscribed(t)
    <3>1. inbox'[t] = Append(base(t), f)
      BY <1>1, <2>1
    <3>2. ~full(t) => base(t) = inbox[t]
      BY DEF base
    <3>3. /\ inbox'[t] \in Seq(Frames)
          /\ \A i \in 1..Len(inbox'[t]) :
               inbox'[t][i] = f \/ (i \in 1..Len(base(t)) /\ inbox'[t][i] = base(t)[i])
          /\ \E i \in 1..Len(inbox'[t]) : inbox'[t][i] = f
          /\ \A i \in 1..Len(base(t)) : i \in 1..Len(inbox'[t]) /\ inbox'[t][i] = base(t)[i]
      BY <1>2, <1>3, <3>1, FrameGiven
    <3> HIDE DEF full
    <3> QED
      BY <1>3, <2>1, <3>2, <3>3
  <2>2. CASE ~Subscribed(t)
    BY <1>1, <2>2 DEF RelayInductive, RelayTypes
  <2> QED
    BY <2>1, <2>2
<1>5. \A t \in Sockets : lagged'[t] <=> lagged[t] \/ (Subscribed(t) /\ full(t))
  BY <1>1
<1>6. RelayTypes'
  <2>1. inbox' \in [Sockets -> Seq(Frames)]
    BY <1>1, <1>4
  <2>2. lagged' \in [Sockets -> BOOLEAN]
    BY <1>1 DEF RelayInductive, RelayTypes
  <2> QED
    BY <1>1, <2>1, <2>2 DEF RelayInductive, RelayTypes, Stages, Sites
<1>7. HandsMatchSites'
  BY <1>1 DEF RelayInductive, RelayTypes, HandsMatchSites
<1>8. OwnFramesAreHad'
  <2>1. hand[s] \subseteq has[s]
    BY <1>1 DEF RelayInductive, HandsMatchSites
  <2> SUFFICES ASSUME NEW t \in Sockets, NEW i \in 1..Len(inbox'[t]), inbox'[t][i].from = t
               PROVE  inbox'[t][i].updates \subseteq has[t]
    BY <1>1 DEF OwnFramesAreHad
  <2>2. CASE inbox'[t][i] = f
    BY <1>2, <2>1, <2>2
  <2>3. CASE \E j \in 1..Len(inbox[t]) : inbox'[t][i] = inbox[t][j]
    BY <2>3 DEF RelayInductive, OwnFramesAreHad
  <2> QED
    BY <1>4, <2>2, <2>3
<1>9. BeingRelayed \subseteq hand[s] \union BeingRelayed'
  <2>1. \A t \in Sockets \ {s} : stage'[t] = stage[t] /\ hand'[t] = hand[t]
    BY <1>1 DEF RelayInductive, RelayTypes
  <2> QED
    BY <2>1 DEF BeingRelayed
<1>10. ASSUME NEW t \in Sockets, Subscribed(t)' PROVE CaughtUp(t)'
  <2>1. Subscribed(t)
    BY <1>1, <1>10 DEF Subscribed, RelayInductive, RelayTypes, HandsMatchSites
  <2>2. CASE lagged'[t]
    BY <2>2 DEF CaughtUp
  <2>3. CASE ~lagged'[t]
    <3>1. ~lagged[t] /\ ~full(t)
      BY <1>5, <2>1, <2>3
    <3>2. hand[s] \subseteq Buffered(t)' /\ Buffered(t) \subseteq Buffered(t)'
      <4>1. hand[s] \subseteq Buffered(t)'
        BY <1>2, <1>4, <2>1 DEF Buffered
      <4>2. ASSUME NEW u \in Buffered(t) PROVE u \in Buffered(t)'
        <5>1. PICK i \in 1..Len(inbox[t]) : u \in inbox[t][i].updates
          BY DEF Buffered
        <5>2. PICK j \in 1..Len(inbox'[t]) : inbox'[t][j] = inbox[t][i]
          BY <1>4, <2>1, <3>1
        <5> QED
          BY <5>1, <5>2 DEF Buffered
      <4> QED
        BY <4>1, <4>2
    <3>3. hand[t] \subseteq hand[s] \union hand'[t]
      BY <1>1 DEF RelayInductive, RelayTypes
    <3>4. OnItsWay(t) \subseteq OnItsWay(t)'
      BY <1>1, <1>9, <3>2, <3>3 DEF OnItsWay
    <3>5. stage[t] # "select" /\ site[t] \in {"connect", "resync"}
            => stage'[t] # "select" /\ site'[t] \in {"connect", "resync"}
      BY <1>1 DEF RelayInductive, RelayTypes, HandsMatchSites
    <3> QED
      BY <1>1, <2>1, <3>1, <3>4, <3>5, MissedBySocket DEF RelayInductive, CaughtUp
  <2> QED
    BY <2>2, <2>3
<1> QED
  BY <1>6, <1>7, <1>8, <1>10, MissedBySocket DEF RelayInductive, NothingIsMissed, CaughtUp, OnItsWay

\* The steps that only move the task along.
LEMMA TaskMoves ==
  ASSUME RelayInductive, NEW s \in Sockets,
         Connect(s) \/ Subscribe(s) \/ Pass(s) \/ Ask(s) \/ Verdict(s)
  PROVE  RelayInductive'
<1>1. CASE Connect(s) \/ Subscribe(s) \/ Pass(s) \/ Ask(s)
  <2>1. UNCHANGED <<room, hand, inbox, lagged, owed, has>>
    BY <1>1 DEF Connect, Subscribe, Pass, Ask, relay, client
  <2>2. RelayTypes' /\ HandsMatchSites'
    BY <1>1, <2>1 DEF Connect, Subscribe, Pass, Ask, RelayInductive, RelayTypes, HandsMatchSites,
       Stages, Sites
  <2>3. \A t \in Sockets :
          /\ stage'[t] = "relaying" <=> stage[t] = "relaying"
          /\ \/ Subscribed(t)' => stage'[t] # "select" /\ site'[t] \in {"connect", "resync"}
             \/ /\ Subscribed(t)' => Subscribed(t)
                /\ site'[t] = site[t] /\ (stage[t] # "select" => stage'[t] # "select")
    BY <1>1 DEF Connect, Subscribe, Pass, Ask, Subscribed, RelayInductive, RelayTypes,
       HandsMatchSites
  <2> QED
    BY <2>1, <2>2, <2>3, NothingMoves
<1>2. ASSUME NEW g \in {"grant", "admitted", "gate"}, stage[s] \in {"account", "grant"},
             stage' = [stage EXCEPT ![s] = g],
             site[s] = "join" => g # "gate", g = "admitted" => site[s] = "join",
             UNCHANGED <<site, hand, inbox, lagged, owed, has, room>>
      PROVE  RelayInductive'
  <2>1. RelayTypes' /\ HandsMatchSites'
    BY <1>2 DEF RelayInductive, RelayTypes, HandsMatchSites, Stages
  <2>2. \A t \in Sockets :
          /\ stage'[t] = "relaying" <=> stage[t] = "relaying"
          /\ Subscribed(t)' => Subscribed(t)
          /\ site'[t] = site[t] /\ (stage[t] # "select" => stage'[t] # "select")
    BY <1>2 DEF Subscribed, RelayInductive, RelayTypes
  <2> QED
    BY <1>2, <2>1, <2>2, NothingMoves
<1>3. CASE ReadAccount(s)
  BY <1>2, <1>3, SocketEnds DEF ReadAccount
<1>4. CASE ReadGrant(s)
  BY <1>2, <1>4, SocketEnds DEF ReadGrant
<1> QED
  BY <1>1, <1>3, <1>4 DEF Verdict

\* The branches of the select.
LEMMA BranchesTaken ==
  ASSUME RelayInductive, NEW s \in Sockets,
         \/ AskSync(s) \/ (\E u \in Updates : SendUpdate(s, u)) \/ SendAwareness(s)
         \/ ReceiveLagged(s) \/ Pushed(s) \/ Tick(s)
  PROVE  RelayInductive'
<1>1. ASSUME NEW at \in Sites \ {"join", "loop", "update"}, NEW ask, Take(s, at, {}, ask),
             UNCHANGED <<room, inbox, owed, has>>,
             lagged' = lagged \/ (at = "resync" /\ lagged' = [lagged EXCEPT ![s] = FALSE])
      PROVE  RelayInductive'
  BY <1>1, BranchTaken DEF RelayInductive, RelayTypes
<1>2. CASE AskSync(s) \/ SendAwareness(s) \/ Pushed(s) \/ Tick(s)
  BY <1>1, <1>2 DEF AskSync, SendAwareness, Pushed, Tick, Handle, Sites, relay, client
<1>3. CASE ReceiveLagged(s)
  BY <1>1, <1>3 DEF ReceiveLagged, Handle, Sites, client
<1>4. ASSUME NEW u \in Updates, SendUpdate(s, u) PROVE RelayInductive'
  <2>1. PICK ask : Take(s, "update", {u}, ask)
    BY <1>4 DEF SendUpdate, Handle
  <2>2. has' = [has EXCEPT ![s] = @ \union {u}] /\ UNCHANGED <<room, inbox, lagged, owed>>
    BY <1>4 DEF SendUpdate, relay
  <2>3. has' \in [Sockets -> SUBSET Updates] /\ {u} \subseteq has'[s]
        /\ \A t \in Sockets : has[t] \subseteq has'[t]
    BY <2>2 DEF RelayInductive, RelayTypes
  <2>4. "update" \in Sites \ {"join", "loop"}
    BY DEF Sites
  <2> QED
    BY <2>1, <2>2, <2>3, <2>4, BranchTaken
<1> QED
  BY <1>2, <1>3, <1>4

\* At first nobody is connected; every step keeps the invariant.
LEMMA RelayInit == Init => RelayInductive
<1> SUFFICES ASSUME Init PROVE RelayInductive
  OBVIOUS
<1>1. RelayTypes
  BY DEF Init, RelayTypes, Stages, Sites
<1>2. HandsMatchSites /\ OwnFramesAreHad /\ NothingIsMissed
  BY DEF Init, HandsMatchSites, OwnFramesAreHad, NothingIsMissed, Subscribed
<1> QED
  BY <1>1, <1>2 DEF RelayInductive

LEMMA RelayNext == RelayInductive /\ [Next]_vars => RelayInductive'
<1> SUFFICES ASSUME RelayInductive, [Next]_vars PROVE RelayInductive'
  OBVIOUS
<1>1. CASE StoreStep \/ UNCHANGED vars
  <2>1. UNCHANGED <<room, hand, inbox, lagged, owed, has, stage, site>>
    BY <1>1 DEF StoreStep, Viewing, BeginCommit, EndCommit, FailCommit, Expire, BeginViewing,
       AnnounceViewing, EndViewing, vars, task, relay, client
  <2>2. RelayTypes' /\ HandsMatchSites'
    BY <2>1 DEF RelayInductive, RelayTypes, HandsMatchSites
  <2>3. \A t \in Sockets : Subscribed(t)' <=> Subscribed(t)
    BY <2>1 DEF Subscribed
  <2> QED
    BY <2>1, <2>2, <2>3, NothingMoves
<1>2. ASSUME NEW s \in Sockets, Proceed(s) \/ FromBrowser(s) \/ FromRoom(s) \/ Pushed(s) \/ Tick(s)
      PROVE  RelayInductive'
  <2>1. CASE Hangup(s)
    BY <2>1, SocketEnds DEF Hangup
  <2> QED
    BY <1>2, <2>1, TaskMoves, BranchesTaken, FrameReceived, ActDone, FrameBroadcast
    DEF Proceed, Gate, FromBrowser, FromRoom
<1> QED
  BY <1>1, <1>2 DEF Next

\* No schedule of frames, lags, joins and broadcasts leaves a browser behind its room with
\* nothing on its way that will say so: the sync it is owed, a lag its receiver reports, a
\* frame in its buffer or its hands, or an update still to be relayed.
THEOREM NothingIsEverMissed == Spec => []NothingIsMissed
<1>1. RelayInductive => NothingIsMissed
  BY DEF RelayInductive
<1> QED
  BY <1>1, RelayInit, RelayNext, PTL DEF Spec
=============================================================================
