--------------------------- MODULE CollabSession ---------------------------
(***************************************************************************)
(* The open sockets of one page's editing session: how "may this socket    *)
(* still edit this page?" is asked again and again (the access epoch the   *)
(* store announces, the gate every frame passes before anything of the     *)
(* room leaves or enters it, the push, the timer), and how an update gets  *)
(* to everybody else through a bounded buffer.  The code is join, run,     *)
(* VetGate, vet_until_stable, vet and reauthorise of                       *)
(* gw-api/src/routes/collab.rs, gw-store/src/access_epoch.rs and           *)
(* Room::broadcast of gw-collab.                                           *)
(*                                                                         *)
(* The store has ONE connection, so a query waits for a commit in          *)
(* progress, and the commit hook moves the epoch while the commit still    *)
(* holds that connection.  A verdict takes two reads (the account behind   *)
(* the cookies, then the page) and a change may land between them.  The    *)
(* last look at the epoch and the statement it guards have no await in     *)
(* between, but the runtime has several threads: they are two steps.       *)
(*                                                                         *)
(* An update is a name; a room, a browser and a frame are sets of them.    *)
(* Entering view-as is the one change that is not in the database: it     *)
(* takes effect in memory first and is announced right after.              *)
(*                                                                         *)
(* A sleep (vet_gap) is the freedom of a step to happen later.             *)
(***************************************************************************)
EXTENDS Integers, Sequences, FiniteSets

CONSTANTS
  Sockets,      \* browsers that may connect
  Updates,      \* what is typed, each update once
  MaxChanges,   \* how many access changes are committed (a bound of the model)
  Buffer,       \* CollabPolicy::update_buffer
  Push,         \* CollabPolicy::push_revocation
  Clock         \* whether time passes: sessions expire, the interval and the ticker run

ASSUME PolicyAssumption ==
  /\ MaxChanges \in Nat /\ Buffer \in Nat \ {0}
  /\ Push \in BOOLEAN /\ Clock \in BOOLEAN

VARIABLES
  account,    \* [Sockets -> its session is valid and its account active]
  grant,      \* [Sockets -> the page is there and its grants let this account write]
  viewing,    \* [Sockets -> its administrator views as somebody else: no, begun (in effect, not
              \*  announced) or yes]
  expired,    \* [Sockets -> the session ended by time alone, which raises no event]
  commit,     \* the access change being committed, or NoCommit
  epoch,      \* AccessEpoch: the number the watch channel holds
  known,      \* [Sockets -> the epoch this socket's receiver is marked as having seen]
  stage,      \* [Sockets -> where the task of the socket stands]
  site,       \* [Sockets -> what it does once the gate lets it]
  hand,       \* [Sockets -> the updates of the frame it is handling]
  asked,      \* [Sockets -> its gate has a reason of its own to ask: the push called it
              \*  (changed), the ticker did (forced), or reauth_interval has passed]
  room,       \* the updates in the room
  inbox,      \* [Sockets -> the frames buffered for the connection]
  lagged,     \* [Sockets -> frames were dropped from it]
  owed,       \* [Sockets -> the browser's own first sync step is not answered yet]
  has,        \* [Sockets -> the updates in the browser]
  late        \* [Sockets -> what its task did with the room after its access was lost]

facts  == <<account, grant, viewing, expired>>
store  == <<account, grant, viewing, expired, commit, epoch>>
gate   == <<known, asked>>
task   == <<stage, site, hand>>
relay  == <<room, inbox, lagged>>
client == <<owed, has>>

vars == <<account, grant, viewing, expired, commit, epoch, known, stage, site, hand, asked,
          room, inbox, lagged, owed, has, late>>

NoCommit == [fact |-> "none", of |-> {}]

Stages == {"off", "account", "grant", "admitted", "gate", "act", "relaying", "select"}
Sites  == {"join", "connect", "diff", "update", "awareness", "relay", "resync", "push", "tick",
           "loop"}

\* Room::subscribe has been called for it, in join, before the upgrade.
Subscribed(s) == stage[s] # "off" /\ site[s] # "join"

\* Its access was taken away and the epoch has said so: not by time alone.
Lost(s) == ~grant[s] \/ (~account[s] /\ ~expired[s]) \/ viewing[s] = "yes"

Init ==
  /\ account = [s \in Sockets |-> TRUE] /\ grant = [s \in Sockets |-> TRUE]
  /\ viewing = [s \in Sockets |-> "no"] /\ expired = [s \in Sockets |-> FALSE]
  /\ commit = NoCommit /\ epoch = 0
  /\ known = [s \in Sockets |-> 0] /\ asked = [s \in Sockets |-> FALSE]
  /\ stage = [s \in Sockets |-> "off"] /\ site = [s \in Sockets |-> "join"]
  /\ hand = [s \in Sockets |-> {}]
  /\ room = {} /\ inbox = [s \in Sockets |-> <<>>] /\ lagged = [s \in Sockets |-> FALSE]
  /\ owed = [s \in Sockets |-> FALSE] /\ has = [s \in Sockets |-> {}]
  /\ late = [s \in Sockets |-> 0]

-----------------------------------------------------------------------------
(* The store.                                                              *)

\* How often the epoch has moved or is about to.
Changes == epoch + Cardinality({s \in Sockets : viewing[s] = "begun"})

\* A write that changes who may do what reaches its commit: the triggers of migration 0019
\* have touched access_epoch, and the commit hook bumps the watch before the commit is over.
\* The epoch is global: a change of somebody else's
\* access, of an empty set of these sockets, moves it too.
BeginCommit(fact, of) ==
  /\ commit = NoCommit /\ Changes < MaxChanges
  /\ commit' = [fact |-> fact, of |-> of]
  /\ epoch' = epoch + 1
  /\ UNCHANGED <<facts, gate, task, relay, client, late>>

\* The change is durable.
EndCommit ==
  LET hit(fact, s) == commit.fact = fact /\ s \in commit.of
  IN /\ commit # NoCommit /\ commit' = NoCommit /\ UNCHANGED <<viewing, expired>>
     /\ account' = [s \in Sockets |-> ~expired[s] /\ (hit("account", s) # account[s])]
     /\ grant' = [s \in Sockets |-> hit("grant", s) # grant[s]]
     /\ late' = [s \in Sockets |-> IF Lost(s)' THEN late[s] ELSE 0]
     /\ UNCHANGED <<epoch, gate, task, relay, client>>

\* The commit itself fails after the hook has run: the epoch has moved for nothing.
FailCommit ==
  /\ commit # NoCommit /\ commit' = NoCommit
  /\ UNCHANGED <<facts, epoch, gate, task, relay, client, late>>

\* A session reaches its expiry: nothing is written, nothing is announced.
Expire(s) ==
  /\ Clock /\ account[s]
  /\ account' = [account EXCEPT ![s] = FALSE] /\ expired' = [expired EXCEPT ![s] = TRUE]
  /\ UNCHANGED <<grant, viewing, commit, epoch, gate, task, relay, client, late>>

\* An administrator enters view-as (start): the mode is in effect, and then announced.
BeginViewing(s) ==
  /\ viewing[s] = "no" /\ Changes < MaxChanges
  /\ viewing' = [viewing EXCEPT ![s] = "begun"]
  /\ UNCHANGED <<account, grant, expired, commit, epoch, gate, task, relay, client, late>>

AnnounceViewing(s) ==
  /\ viewing[s] = "begun" /\ viewing' = [viewing EXCEPT ![s] = "yes"]
  /\ epoch' = epoch + 1
  /\ UNCHANGED <<account, grant, expired, commit, gate, task, relay, client, late>>

\* ... and leaves it, of which nobody need be told.
EndViewing(s) ==
  /\ viewing[s] = "yes" /\ viewing' = [viewing EXCEPT ![s] = "no"]
  /\ UNCHANGED <<account, grant, expired, commit, epoch, gate, task, relay, client>>
  /\ late' = [late EXCEPT ![s] = IF Lost(s)' THEN @ ELSE 0]

-----------------------------------------------------------------------------
(* The verdict: reauthorise, or authorise at the handshake.                *)

\* The task ends, or the request is refused; its subscription goes with it.
Closed(s) ==
  /\ stage' = [stage EXCEPT ![s] = "off"] /\ site' = [site EXCEPT ![s] = "join"]
  /\ hand' = [hand EXCEPT ![s] = {}] /\ known' = [known EXCEPT ![s] = 0]
  /\ inbox' = [inbox EXCEPT ![s] = <<>>] /\ lagged' = [lagged EXCEPT ![s] = FALSE]
  /\ owed' = [owed EXCEPT ![s] = FALSE] /\ late' = [late EXCEPT ![s] = 0]

\* editor's answer: the cookies name an active account that is not viewing as another.
MayEdit(s) == account[s] /\ viewing[s] = "no"

\* The mutant: the store has connections to spare, a read does not queue behind a commit.
ReadAccountBeside(s) ==
  /\ stage[s] = "account"
  /\ \/ /\ MayEdit(s) /\ stage' = [stage EXCEPT ![s] = "grant"]
        /\ UNCHANGED <<known, site, hand, inbox, lagged, owed, late>>
     \/ ~MayEdit(s) /\ Closed(s)
  /\ UNCHANGED <<store, asked, room, has>>

\* editor: the session and the account behind the cookies are read from the store again.
ReadAccount(s) ==
  /\ stage[s] = "account" /\ commit = NoCommit
  /\ \/ /\ MayEdit(s) /\ stage' = [stage EXCEPT ![s] = "grant"]
        /\ UNCHANGED <<known, site, hand, inbox, lagged, owed, late>>
     \/ ~MayEdit(s) /\ Closed(s)
  /\ UNCHANGED <<store, asked, room, has>>

\* document_for_id: on a no the session is closed, on a yes the gate looks at the epoch again
\* -- or, at the handshake, the room is joined.
ReadGrant(s) ==
  /\ stage[s] = "grant" /\ commit = NoCommit
  /\ \/ /\ grant[s]
        /\ stage' = [stage EXCEPT ![s] = IF site[s] = "join" THEN "admitted" ELSE "gate"]
        /\ UNCHANGED <<known, site, hand, inbox, lagged, owed, late>>
     \/ ~grant[s] /\ Closed(s)
  /\ UNCHANGED <<store, asked, room, has>>

-----------------------------------------------------------------------------
(* The handshake: join.                                                    *)

\* The epoch is marked seen BEFORE the question.
Connect(s) ==
  /\ stage[s] = "off"
  /\ known' = [known EXCEPT ![s] = epoch]
  /\ stage' = [stage EXCEPT ![s] = "account"]
  /\ UNCHANGED <<store, asked, site, hand, relay, client, late>>

\* The room is found, the place is taken; run starts and comes to its first gate.
Subscribe(s) ==
  /\ stage[s] = "admitted"
  /\ stage' = [stage EXCEPT ![s] = "gate"] /\ site' = [site EXCEPT ![s] = "connect"]
  /\ UNCHANGED <<store, gate, hand, relay, client, late>>

-----------------------------------------------------------------------------
(* The gate: vet_until_stable.                                             *)

Moved(s) == epoch > known[s]

\* The mutant: a moved epoch is left to the push and the timer.
PassUnseen(s) ==
  /\ stage[s] = "gate" /\ ~asked[s]
  /\ stage' = [stage EXCEPT ![s] = "act"]
  /\ UNCHANGED <<store, gate, site, hand, relay, client, late>>

\* Nothing to ask: the session goes on with what it was about to do.
Pass(s) ==
  /\ stage[s] = "gate" /\ ~(Moved(s) \/ asked[s])
  /\ stage' = [stage EXCEPT ![s] = "act"]
  /\ UNCHANGED <<store, gate, site, hand, relay, client, late>>

\* Something to ask; the epoch is marked seen BEFORE the question.
Ask(s) ==
  /\ stage[s] = "gate" /\ (Moved(s) \/ asked[s])
  /\ asked' = [asked EXCEPT ![s] = FALSE] /\ known' = [known EXCEPT ![s] = epoch]
  /\ stage' = [stage EXCEPT ![s] = "account"]
  /\ UNCHANGED <<store, site, hand, relay, client, late>>

-----------------------------------------------------------------------------
(* The select loop of run: one branch is taken, and it comes to its gate.  *)

Take(s, at, updates, ask) ==
  /\ stage[s] = "select"
  /\ stage' = [stage EXCEPT ![s] = "gate"] /\ site' = [site EXCEPT ![s] = at]
  /\ hand' = [hand EXCEPT ![s] = updates] /\ asked' = [asked EXCEPT ![s] = ask]

\* By then reauth_interval may have passed since the last verdict.
Handle(s, at, updates) == \E ask \in {FALSE, Clock} : Take(s, at, updates, ask)

\* The browser's own first sync step.
AskSync(s) ==
  /\ owed[s] /\ Handle(s, "diff", {})
  /\ UNCHANGED <<store, known, relay, client, late>>

\* The browser sends an update the room lacks: one just typed, or, as its answer to the
\* room's sync step 1, one an earlier session of it did not get through.
SendUpdate(s, u) ==
  /\ u \notin room
  /\ u \in has[s] \/ \A t \in Sockets : u \notin has[t]
  /\ Handle(s, "update", {u})
  /\ has' = [has EXCEPT ![s] = @ \union {u}]
  /\ UNCHANGED <<store, known, relay, owed, late>>

\* Presence, relayed and never applied.
SendAwareness(s) ==
  /\ Handle(s, "awareness", {})
  /\ UNCHANGED <<store, known, relay, client, late>>

\* The mutant: the lag is logged, and the loop goes on.
IgnoreLagged(s) ==
  /\ stage[s] = "select"
  /\ lagged[s] /\ lagged' = [lagged EXCEPT ![s] = FALSE]
  /\ UNCHANGED <<store, gate, task, room, inbox, client, late>>

\* The receiver says frames were dropped: the whole state is to be sent.
ReceiveLagged(s) ==
  /\ lagged[s] /\ lagged' = [lagged EXCEPT ![s] = FALSE]
  /\ Handle(s, "resync", {})
  /\ UNCHANGED <<store, known, room, inbox, client, late>>

\* A frame of the connection's own is dropped, another's is handled.
Receive(s) ==
  /\ stage[s] = "select" /\ ~lagged[s] /\ inbox[s] # <<>>
  /\ inbox' = [inbox EXCEPT ![s] = Tail(@)]
  /\ \/ Head(inbox[s]).from = s /\ UNCHANGED <<task, asked>>
     \/ Head(inbox[s]).from # s /\ Handle(s, "relay", Head(inbox[s]).updates)
  /\ UNCHANGED <<store, known, room, lagged, client, late>>

\* The mutant: changed() has consumed the notification, and nobody remembers it.
PushedUntold(s) ==
  /\ Push /\ Moved(s)
  /\ Take(s, "push", {}, FALSE) /\ known' = [known EXCEPT ![s] = epoch]
  /\ UNCHANGED <<store, relay, client, late>>

\* The push: changed() marks the epoch seen, and told remembers it.
Pushed(s) ==
  /\ Push /\ Moved(s)
  /\ Take(s, "push", {}, TRUE) /\ known' = [known EXCEPT ![s] = epoch]
  /\ UNCHANGED <<store, relay, client, late>>

\* The mutant: a tick that only sends the heartbeat.
TickUnforced(s) ==
  /\ Clock /\ Take(s, "tick", {}, FALSE)
  /\ UNCHANGED <<store, known, relay, client, late>>

\* The ticker of run.
Tick(s) ==
  /\ Clock /\ Take(s, "tick", {}, TRUE)
  /\ UNCHANGED <<store, known, relay, client, late>>

\* The browser is gone, sent what the session does not bear (an oversized frame, text, more
\* than its budget) or, past the gate, a send fails or an update cannot be applied.
Hangup(s) ==
  /\ stage[s] = "select" \/ (stage[s] = "act" /\ site[s] \notin {"awareness", "push"})
  /\ Closed(s)
  /\ UNCHANGED <<store, asked, room, has>>

-----------------------------------------------------------------------------
(* What the gate lets through.                                             *)

\* Back to the select.
Loop(s) ==
  /\ stage' = [stage EXCEPT ![s] = "select"] /\ site' = [site EXCEPT ![s] = "loop"]
  /\ hand' = [hand EXCEPT ![s] = {}]

\* What of the room the guarded statement sends to the browser.
Sent(s) ==
  CASE site[s] \in {"diff", "resync"} -> room
    [] site[s] = "relay" -> hand[s]
    [] OTHER -> {}

\* The statement a site guards, after its gate has let it pass.
Act(s) ==
  LET at == site[s]
  IN /\ stage[s] = "act"
     /\ room' = IF at = "update" THEN room \union hand[s] ELSE room
     /\ has' = [has EXCEPT ![s] = @ \union Sent(s)]
     /\ owed' = [owed EXCEPT ![s] = at = "connect" \/ (@ /\ at # "diff")]
     /\ late' = [late EXCEPT ![s] = IF Lost(s) /\ at \notin {"push", "tick"} /\ @ < 2
                                     THEN @ + 1 ELSE @]
     /\ IF at \in {"update", "awareness"}
        THEN stage' = [stage EXCEPT ![s] = "relaying"] /\ UNCHANGED <<site, hand>>
        ELSE Loop(s)
     /\ UNCHANGED <<store, gate, inbox, lagged>>

\* Room::broadcast: a copy for every receiver, the sender's among them; a receiver whose
\* buffer is full loses its oldest.
Broadcast(s) ==
  LET full(t) == Len(inbox[t]) = Buffer
      put(t) == Append(IF full(t) THEN Tail(inbox[t]) ELSE inbox[t],
                       [from |-> s, updates |-> hand[s]])
  IN /\ stage[s] = "relaying"
     /\ inbox' = [t \in Sockets |-> IF Subscribed(t) THEN put(t) ELSE inbox[t]]
     /\ lagged' = [t \in Sockets |-> lagged[t] \/ (Subscribed(t) /\ full(t))]
     /\ Loop(s)
     /\ UNCHANGED <<store, gate, room, client, late>>

-----------------------------------------------------------------------------
(* The specification.                                                      *)

Verdict(s)  == ReadAccount(s) \/ ReadGrant(s)
Gate(s)     == Pass(s) \/ Ask(s) \/ Verdict(s)
Proceed(s)  == Subscribe(s) \/ Gate(s) \/ Act(s) \/ Broadcast(s)
FromBrowser(s) == Connect(s) \/ AskSync(s) \/ (\E u \in Updates : SendUpdate(s, u))
                    \/ SendAwareness(s) \/ Hangup(s)
FromRoom(s) == Receive(s) \/ ReceiveLagged(s)
Viewing(s)  == BeginViewing(s) \/ AnnounceViewing(s) \/ EndViewing(s)
StoreStep   == (\E fact \in {"account", "grant"}, of \in SUBSET Sockets : BeginCommit(fact, of))
                 \/ EndCommit \/ FailCommit \/ \E s \in Sockets : Expire(s) \/ Viewing(s)

Next ==
  \/ StoreStep
  \/ \E s \in Sockets : Proceed(s) \/ FromBrowser(s) \/ FromRoom(s) \/ Pushed(s) \/ Tick(s)

Spec == Init /\ [][Next]_vars

\* A commit ends, an announcement follows; a task that can go on does; select! picks at random among the branches that
\* are ready, so a branch that is ready again and again is taken; a browser that is owed its
\* first sync step has sent it.  Nothing is assumed of the timers, of typing or of reconnecting.
Fairness ==
  /\ WF_vars(EndCommit \/ FailCommit)
  /\ \A s \in Sockets : /\ WF_vars(Proceed(s)) /\ WF_vars(AnnounceViewing(s))
                        /\ SF_vars(Pushed(s)) /\ SF_vars(AskSync(s))
                        /\ SF_vars(Receive(s)) /\ SF_vars(ReceiveLagged(s))

FairSpec == Spec /\ Fairness

-----------------------------------------------------------------------------
(* Properties.                                                             *)

Frames == [from: Sockets, updates: SUBSET Updates]

\* Every variable keeps to the values the code gives it.
TypeOK ==
  /\ account \in [Sockets -> BOOLEAN] /\ grant \in [Sockets -> BOOLEAN]
  /\ viewing \in [Sockets -> {"no", "begun", "yes"}] /\ expired \in [Sockets -> BOOLEAN]
  /\ commit \in [fact: {"none", "account", "grant"}, of: SUBSET Sockets]
  /\ epoch \in 0..MaxChanges /\ known \in [Sockets -> 0..epoch]
  /\ stage \in [Sockets -> Stages] /\ site \in [Sockets -> Sites]
  /\ hand \in [Sockets -> SUBSET Updates]
  /\ asked \in [Sockets -> BOOLEAN]
  /\ room \subseteq Updates
  /\ \A s \in Sockets : /\ inbox[s] \in Seq(Frames) /\ Len(inbox[s]) <= Buffer
                        /\ lagged[s] => Subscribed(s)
  /\ owed \in [Sockets -> BOOLEAN] /\ has \in [Sockets -> SUBSET Updates]
  /\ late \in [Sockets -> 0..2]

\* A socket whose access was taken away, and announced, does at most one more thing with the
\* room: the one whose last look at the epoch came before the change.  vet_until_stable says that without
\* its second look "a change between the answer and the caller's next statement would let one
\* lapsed update in"; two threads leave room for that one, and no schedule of frames, pushes,
\* ticks and further changes makes it two.
AtMostOneLateAct == \A s \in Sockets : late[s] <= 1

\* What is in the frames buffered for a connection, and in those about to be broadcast.
Buffered(s) == UNION {inbox[s][i].updates : i \in 1..Len(inbox[s])}

BeingRelayed == UNION {hand[t] : t \in {t \in Sockets : stage[t] = "relaying"}}

\* A socket is behind the room only while something will still bring it up to date: an answer
\* it is owed, a lag its receiver will report, a frame in its buffer or in its hands, or an
\* update that was applied and is not relayed yet.  This is what subscribing before the sync,
\* applying before relaying and resending the state after a lag are for (join and run).
NothingIsMissed ==
  \A s \in Sockets : Subscribed(s) =>
    \/ owed[s] \/ lagged[s]
    \/ stage[s] # "select" /\ site[s] \in {"connect", "resync"}
    \/ room \subseteq has[s] \union hand[s]
                        \union Buffered(s) \union BeingRelayed

\* A change that takes access away ends the socket's session, also of one that only listens:
\* the push is enough, no timer is assumed (push_revocation: "including one that is only
\* listening").
RevokedIsClosed ==
  \A s \in Sockets : (Lost(s) /\ stage[s] # "off") ~> (stage[s] = "off" \/ ~Lost(s))

\* A session that merely expires raises no event; as long as the ticker keeps being taken, it
\* ends all the same.
ExpiredIsClosed ==
  \A s \in Sockets : SF_vars(Tick(s)) => ((expired[s] /\ stage[s] # "off") ~> (stage[s] = "off"))

\* What the room has reaches every browser that stays.
UpdatesReachEverybody ==
  \A s \in Sockets, u \in Updates :
    (u \in room /\ Subscribed(s)) ~> (u \in has[s] \/ stage[s] = "off")

-----------------------------------------------------------------------------
(* The inductive strengthening of AtMostOneLateAct.                        *)

\* The task cannot reach a guarded statement without asking first.
Told(s) == Moved(s) \/ asked[s] \/ stage[s] = "account"

\* The types the argument needs.
GateTypes ==
  /\ account \in [Sockets -> BOOLEAN] /\ grant \in [Sockets -> BOOLEAN]
  /\ viewing \in [Sockets -> {"no", "begun", "yes"}] /\ expired \in [Sockets -> BOOLEAN]
  /\ epoch \in Nat /\ known \in [Sockets -> 0..epoch]
  /\ stage \in [Sockets -> Stages] /\ asked \in [Sockets -> BOOLEAN]
  /\ late \in [Sockets -> 0..1]

\* A reason to ask does not outlive the gate it was brought to.
AskedAtGate == \A s \in Sockets : asked[s] => stage[s] = "gate"

\* While a change is being committed every task that runs is told: the hook comes first, and
\* no verdict is read until the commit is over.
CommitIsTold == commit # NoCommit => \A s \in Sockets : stage[s] # "off" => Told(s)

\* So is every task whose access is lost, unless its verdict is about to say so.
LossIsTold ==
  \A s \in Sockets :
    (Lost(s) /\ stage[s] # "off") => (Told(s) \/ (stage[s] = "grant" /\ ~grant[s]))

\* What was late was the last thing: the task is not at a guarded statement again.
LateIsLast == \A s \in Sockets : late[s] # 0 => (Lost(s) /\ stage[s] # "act")

\* The inductive invariant of the proofs in CollabSession_proofs.
GateInductive == GateTypes /\ AskedAtGate /\ CommitIsTold /\ LossIsTold /\ LateIsLast

-----------------------------------------------------------------------------
(* The inductive strengthening of NothingIsMissed.                         *)

RelayTypes ==
  /\ room \subseteq Updates
  /\ stage \in [Sockets -> Stages] /\ site \in [Sockets -> Sites]
  /\ hand \in [Sockets -> SUBSET Updates] /\ has \in [Sockets -> SUBSET Updates]
  /\ inbox \in [Sockets -> Seq(Frames)]
  /\ lagged \in [Sockets -> BOOLEAN] /\ owed \in [Sockets -> BOOLEAN]

\* What a task has in its hands is what the site it is at is for: nothing while it waits in
\* the select, an update its own browser has while it applies and relays one.
HandsMatchSites ==
  \A s \in Sockets :
    /\ stage[s] = "select" => hand[s] = {}
    /\ hand[s] # {} => site[s] \in {"update", "relay"}
    /\ site[s] = "update" => hand[s] \subseteq has[s]
    /\ stage[s] = "relaying" => site[s] \in {"update", "awareness"}
    /\ stage[s] \in {"gate", "act", "relaying", "select"} => site[s] # "join"
    /\ stage[s] \in {"off", "admitted"} => site[s] = "join"

\* A frame of the connection's own, which Receive drops, brings its browser nothing new.
OwnFramesAreHad ==
  \A s \in Sockets : \A i \in 1..Len(inbox[s]) :
    inbox[s][i].from = s => inbox[s][i].updates \subseteq has[s]

\* The inductive invariant of NothingIsMissed.
RelayInductive == RelayTypes /\ HandsMatchSites /\ OwnFramesAreHad /\ NothingIsMissed
=============================================================================
