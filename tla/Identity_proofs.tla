-------------------------- MODULE Identity_proofs --------------------------
(***************************************************************************)
(* Proofs about accounts, links, sessions and the throttle, for any        *)
(* accounts, names, addresses, links, browsers and limit.                  *)
(*                                                                         *)
(* KnownOnes: what requests under way and sessions name is there, and a    *)
(* handle reaches one account.  Counting: the counts of the throttle and   *)
(* the requests that it let in before.                                     *)
(***************************************************************************)
EXTENDS Identity, FiniteSetTheorems, TLAPS

\* What a request found is an account, and the one its handle reaches.
Started ==
  \A b \in Browsers :
    /\ flow[b].stage = "hashing" => flow[b].found \in Accounts \cup {None}
    /\ flow[b].stage = "opening" =>
         /\ flow[b].id \in Accounts
         /\ flow[b].as # None => account[flow[b].id].handle = flow[b].as

OneHandle ==
  \A a, b \in Accounts : account[a].handle # None /\ account[a].handle = account[b].handle => a = b

SessionsFit == \A s \in session : s.as # None => account[s.id].handle = s.as

KnownOnes == TypeOK /\ Started /\ OneHandle /\ SessionsFit /\ IdleSessionsAreLate

\* What is known of flow when one browser's changes.
LEMMA FlowTyped ==
  ASSUME TypeOK, NEW b \in Browsers, NEW f \in {Idle} \cup Offers \cup Guesses \cup Openings
  PROVE  [flow EXCEPT ![b] = f] \in [Browsers -> {Idle} \cup Offers \cup Guesses \cup Openings]
  BY DEF TypeOK

\* A row added or replaced leaves a set of rows.
LEMMA RowsTyped ==
  ASSUME TypeOK, NEW id \in Ids, NEW row \in Rows, Insert(id, row)
  PROVE  /\ DOMAIN account' \subseteq Ids /\ \A a \in DOMAIN account' : account'[a] \in Rows
         /\ Accounts \subseteq DOMAIN account' /\ id \in DOMAIN account'
         /\ account'[id] = row /\ \A a \in Accounts \ {id} : account'[a] = account[a]
         /\ DOMAIN account' = Accounts \cup {id}
  BY DEF TypeOK, Insert, Accounts

\* Addresses given twice are remembered by account.
LEMMA SecondsTyped ==
  ASSUME TypeOK, NEW id \in Ids, NEW mail, Address(id, mail)
  PROVE  seconds' \subseteq Ids
  BY DEF TypeOK, Address

\* A step keeps what is known when accounts and handles stay, a new handle is nobody else's, who is
\* suspended has no session, and new sessions and new requests fit.
LEMMA Kept ==
  ASSUME KnownOnes, TypeOK', Accounts \subseteq DOMAIN account',
         \A a \in Accounts : account[a].handle # None => account'[a].handle = account[a].handle,
         \A a, b \in DOMAIN account' :
           /\ a \notin Accounts \/ account'[a].handle # account[a].handle
           /\ account'[a].handle # None
           /\ account'[a].handle = account'[b].handle
           => a = b,
         \A a \in Accounts : account[a].active /\ ~account'[a].active
                               => \A s \in session' : s.id # a,
         \A s \in session' \ session :
           /\ s.as # None => account'[s.id].handle = s.as
           /\ account'[s.id].active \/ s.late,
         \A b \in Browsers : flow'[b] # flow[b] =>
           /\ flow'[b].stage = "hashing" => flow'[b].found \in DOMAIN account' \cup {None}
           /\ flow'[b].stage = "opening" =>
                /\ flow'[b].id \in DOMAIN account'
                /\ flow'[b].as # None => account'[flow'[b].id].handle = flow'[b].as
  PROVE  KnownOnes'
<1>1. Started'
  BY DEF KnownOnes, Started, Accounts
<1>2. OneHandle'
  <2> SUFFICES ASSUME NEW a \in DOMAIN account', NEW b \in DOMAIN account',
                      account'[a].handle # None, account'[a].handle = account'[b].handle
               PROVE  a = b
    BY DEF OneHandle, Accounts
  <2>1. CASE a \notin Accounts \/ account'[a].handle # account[a].handle
    BY <2>1
  <2>2. CASE b \notin Accounts \/ account'[b].handle # account[b].handle
    <3>1. account'[b].handle # None /\ account'[b].handle = account'[a].handle
      OBVIOUS
    <3> QED
      BY <2>2, <3>1
  <2>3. CASE /\ a \in Accounts /\ account'[a].handle = account[a].handle
             /\ b \in Accounts /\ account'[b].handle = account[b].handle
    <3>1. OneHandle
      BY DEF KnownOnes
    <3>2. account[a].handle # None /\ account[a].handle = account[b].handle
      BY <2>3
    <3> QED
      BY <2>3, <3>1, <3>2 DEF OneHandle
  <2> QED
    BY <2>1, <2>2, <2>3
<1>3. SessionsFit'
  <2> SUFFICES ASSUME NEW s \in session', s.as # None
               PROVE  account'[s.id].handle = s.as
    BY DEF SessionsFit
  <2>1. CASE s \in session
    BY <2>1 DEF KnownOnes, SessionsFit, TypeOK
  <2> QED
    BY <2>1
<1>4. IdleSessionsAreLate'
  <2> SUFFICES ASSUME NEW s \in session'
               PROVE  account'[s.id].active \/ s.late
    BY DEF IdleSessionsAreLate
  <2>1. CASE s \in session
    BY <2>1 DEF KnownOnes, IdleSessionsAreLate, TypeOK
  <2> QED
    BY <2>1
<1> QED
  BY <1>1, <1>2, <1>3, <1>4 DEF KnownOnes

-----------------------------------------------------------------------------
(* Rows that change *)

\* What setting one field does to a row.
LEMMA RowFields ==
  ASSUME NEW row \in Rows
  PROVE  /\ \A v \in BOOLEAN :
              /\ [row EXCEPT !.active = v] \in Rows
              /\ [row EXCEPT !.active = v].active = v
              /\ [row EXCEPT !.active = v].handle = row.handle
              /\ [row EXCEPT !.active = v].groups = row.groups
         /\ \A h \in Names, g \in SUBSET {"admins"} :
              /\ [row EXCEPT !.handle = h, !.groups = g] \in Rows
              /\ [row EXCEPT !.handle = h, !.groups = g].handle = h
              /\ [row EXCEPT !.handle = h, !.groups = g].active = row.active
         /\ \A g \in SUBSET {"admins"}, m \in Mails \cup {None} :
              /\ [row EXCEPT !.groups = g, !.mail = m] \in Rows
              /\ [row EXCEPT !.groups = g, !.mail = m].handle = row.handle
              /\ [row EXCEPT !.groups = g, !.mail = m].active = row.active
<1>1. ASSUME NEW v \in BOOLEAN
      PROVE  /\ [row EXCEPT !.active = v] \in Rows
             /\ [row EXCEPT !.active = v].active = v
             /\ [row EXCEPT !.active = v].handle = row.handle
             /\ [row EXCEPT !.active = v].groups = row.groups
  BY DEF Rows
<1>2. ASSUME NEW h \in Names, NEW g \in SUBSET {"admins"}
      PROVE  /\ [row EXCEPT !.handle = h, !.groups = g] \in Rows
             /\ [row EXCEPT !.handle = h, !.groups = g].handle = h
             /\ [row EXCEPT !.handle = h, !.groups = g].active = row.active
  BY DEF Rows
<1>3. ASSUME NEW g \in SUBSET {"admins"}, NEW m \in Mails \cup {None}
      PROVE  /\ [row EXCEPT !.groups = g, !.mail = m] \in Rows
             /\ [row EXCEPT !.groups = g, !.mail = m].handle = row.handle
             /\ [row EXCEPT !.groups = g, !.mail = m].active = row.active
  BY DEF Rows
<1> QED
  BY <1>1, <1>2, <1>3

\* One row is replaced.
LEMMA RowReplaced ==
  ASSUME TypeOK, NEW id \in Accounts, NEW row \in Rows, account' = [account EXCEPT ![id] = row]
  PROVE  /\ DOMAIN account' = Accounts
         /\ \A a \in Accounts : account'[a] \in Rows
         /\ account'[id] = row
         /\ \A a \in Accounts : a # id => account'[a] = account[a]
  BY DEF TypeOK, Accounts

\* Suspending, or letting in again.
LEMMA ActiveSet ==
  ASSUME TypeOK, NEW id \in Accounts, NEW v \in BOOLEAN,
         account' = [account EXCEPT ![id].active = v]
  PROVE  /\ DOMAIN account' = Accounts
         /\ \A a \in Accounts : account'[a] \in Rows /\ account'[a].handle = account[a].handle
         /\ account'[id].active = v
         /\ \A a \in Accounts : account'[a].groups = account[a].groups
         /\ \A a \in Accounts : a # id => account'[a] = account[a]
<1> DEFINE row == [account[id] EXCEPT !.active = v]
<1>1. account[id] \in Rows
  BY DEF TypeOK
<1>2. /\ row \in Rows /\ row.active = v
      /\ row.handle = account[id].handle /\ row.groups = account[id].groups
  BY <1>1 DEF Rows
<1>3. account' = [account EXCEPT ![id] = row]
  OBVIOUS
<1> HIDE DEF row
<1>4. /\ DOMAIN account' = Accounts
      /\ \A a \in Accounts : account'[a] \in Rows
      /\ account'[id] = row
      /\ \A a \in Accounts : a # id => account'[a] = account[a]
  BY <1>2, <1>3, RowReplaced
<1> QED
  BY <1>2, <1>4

-----------------------------------------------------------------------------
(* Types *)

\* What requests, rows and links of a step are made of.
LEMMA Parts ==
  /\ Idle.stage = "idle" /\ Idle \notin Offers
  /\ \A t \in Tokens : [stage |-> "offer", token |-> t] \in Offers
  /\ \A id \in Ids, as \in Names \cup {None} : [stage |-> "opening", id |-> id, as |-> as] \in Openings
  /\ \A n \in Names, w \in Nets, f \in Ids \cup {None} :
       [stage |-> "hashing", name |-> n, net |-> w, found |-> f] \in Guesses
  /\ \A n \in Names, h \in Names \cup {None}, m \in Mails \cup {None}, d \in BOOLEAN,
        g \in SUBSET {"admins"}, l \in Tokens \cup {None} :
       [name |-> n, handle |-> h, mail |-> m, mirrored |-> d, groups |-> g, active |-> TRUE,
        link |-> l] \in Rows
  BY DEF Idle, Offers, Openings, Guesses, Rows

\* What a request that is in some stage is.
LEMMA Stages ==
  ASSUME TypeOK, NEW b \in Browsers
  PROVE  /\ flow[b].stage = "offer" => flow[b] \in Offers /\ flow[b].token \in Tokens
         /\ flow[b].stage = "hashing" =>
              /\ flow[b] \in Guesses
              /\ flow[b].name \in Names /\ flow[b].net \in Nets /\ flow[b].found \in Ids \cup {None}
         /\ flow[b].stage = "opening" =>
              /\ flow[b] \in Openings
              /\ flow[b].id \in Ids /\ flow[b].as \in Names \cup {None}
  BY DEF TypeOK, Idle, Offers, Guesses, Openings

\* A pending link has a name and an address, and any other state keeps its row a link.
LEMMA LinkFields ==
  ASSUME TypeOK, NEW t \in Tokens, NEW state \in {"accepted", "revoked", "expired"},
         invite[t].state = "pending"
  PROVE  /\ invite[t].name \in Names /\ invite[t].mail \in Mails
         /\ [invite EXCEPT ![t].state = state] \in [Tokens -> {Unused} \cup Links]
<1>1. invite[t] \in Links
  BY DEF TypeOK, Unused
<1>2. [invite[t] EXCEPT !.state = state] \in Links
  BY <1>1 DEF Links
<1>3. [invite EXCEPT ![t].state = state] = [invite EXCEPT ![t] = [invite[t] EXCEPT !.state = state]]
  OBVIOUS
<1> QED
  BY <1>1, <1>2, <1>3 DEF TypeOK, Links

\* A session is opened.
LEMMA SessionTyped ==
  ASSUME TypeOK, Accounts \subseteq DOMAIN account',
         NEW id \in Ids, id \in DOMAIN account', NEW as \in Names \cup {None}, NEW late \in BOOLEAN,
         session' = session \cup {[id |-> id, as |-> as, late |-> late]}
  PROVE  session' \subseteq Sessions /\ \A s \in session' : s.id \in DOMAIN account'
<1>1. [id |-> id, as |-> as, late |-> late] \in Sessions
  BY DEF Sessions
<1>2. [id |-> id, as |-> as, late |-> late].id = id
  OBVIOUS
<1> QED
  BY <1>1, <1>2 DEF TypeOK

\* A request is counted down.
LEMMA RequestTyped ==
  ASSUME TypeOK, Request
  PROVE  left' \in 0..MaxRequests
  BY LimitAssumption DEF TypeOK, Request

\* A browser starts to open a session.
LEMMA OpeningTyped ==
  ASSUME TypeOK, NEW b \in Browsers, NEW id \in Ids, NEW as \in Names \cup {None}, Opening(b, id, as)
  PROVE  /\ flow' \in [Browsers -> {Idle} \cup Offers \cup Guesses \cup Openings]
         /\ flow'[b] = [stage |-> "opening", id |-> id, as |-> as]
         /\ \A o \in Browsers : o # b => flow'[o] = flow[o]
  BY Parts DEF Opening, TypeOK

\* The throttle counts in numbers.
LEMMA ThrottleTyped ==
  ASSUME TypeOK, NEW b \in Browsers, WrongPassword(b)
  PROVE  /\ failures' \in [Subjects -> Nat] /\ tried' \in [Subjects -> Nat]
         /\ lock' \in [Subjects -> {"none", "locked", "over"}]
<1>1. \A s \in Subjects : Counted(s) \in Nat /\ LockAfter(s) \in {"none", "locked", "over"}
  BY DEF TypeOK, Counted, LockAfter
<1> QED
  BY <1>1 DEF WrongPassword, TypeOK

\* A sign-in through Authelia.
LEMMA AutheliaTyped ==
  ASSUME TypeOK, NEW b \in Browsers, Authelia(b)
  PROVE  TypeOK'
<1>1. PICK handle \in Names, mail \in Mails \cup {None}, key \in Mails \cup {None},
           groups \in SUBSET {"admins"} :
        \/ Recognise(b, handle, mail, groups)
        \/ Merge(b, handle, key, groups)
        \/ Mirror(b, handle, mail, key, groups)
  BY DEF Authelia
<1>2. CASE Recognise(b, handle, mail, groups)
  <2>1. PICK id \in Accounts :
          /\ account' = [account EXCEPT ![id].groups = groups,
                                        ![id].mail = IF account[id].mirrored THEN mail ELSE @]
          /\ IF account[id].mirrored THEN Address(id, mail) ELSE UNCHANGED seconds
          /\ Opening(b, id, handle)
    BY <1>2 DEF Recognise
  <2> DEFINE address == IF account[id].mirrored THEN mail ELSE account[id].mail
             row == [account[id] EXCEPT !.groups = groups, !.mail = address]
  <2>2. account[id] \in Rows /\ id \in Ids /\ address \in Mails \cup {None}
    BY DEF TypeOK, Rows
  <2>3. row \in Rows
    BY <2>2, RowFields
  <2>4. account' = [account EXCEPT ![id] = row]
    BY <2>1, <2>2 DEF Rows
  <2> HIDE DEF row
  <2>5. DOMAIN account' = Accounts /\ \A a \in Accounts : account'[a] \in Rows
    BY <2>3, <2>4, RowReplaced
  <2>6. seconds' \subseteq Ids
    BY <2>1, <2>2, SecondsTyped DEF TypeOK
  <2> QED
    BY <2>1, <2>2, <2>5, <2>6, OpeningTyped, RequestTyped DEF Authelia, throttle, TypeOK, Accounts
<1>3. CASE Merge(b, handle, key, groups)
  <2>1. PICK id \in Ids :
          /\ Candidates(key) = {id}
          /\ account' = [account EXCEPT ![id].handle = handle, ![id].groups = groups]
          /\ Opening(b, id, handle)
    BY <1>3 DEF Merge
  <2> DEFINE row == [account[id] EXCEPT !.handle = handle, !.groups = groups]
  <2>2. id \in Accounts /\ account[id] \in Rows
    BY <2>1 DEF TypeOK, Candidates, Carrying
  <2>3. row \in Rows
    BY <2>2, RowFields
  <2>4. account' = [account EXCEPT ![id] = row]
    BY <2>1, <2>2
  <2> HIDE DEF row
  <2>5. DOMAIN account' = Accounts /\ \A a \in Accounts : account'[a] \in Rows
    BY <2>2, <2>3, <2>4, RowReplaced
  <2> QED
    BY <1>3, <2>1, <2>5, OpeningTyped, RequestTyped DEF Authelia, Merge, throttle, TypeOK, Accounts
<1>4. CASE Mirror(b, handle, mail, key, groups)
  <2>1. PICK id \in Ids \ Accounts :
          /\ Insert(id, [name |-> handle, handle |-> handle, mail |-> mail, mirrored |-> TRUE,
                         groups |-> groups, active |-> TRUE, link |-> None])
          /\ Address(id, mail)
          /\ Opening(b, id, handle)
    BY <1>4 DEF Mirror
  <2>2. DOMAIN account' \subseteq Ids /\ (\A a \in DOMAIN account' : account'[a] \in Rows)
        /\ Accounts \subseteq DOMAIN account'
    BY <2>1, Parts, RowsTyped
  <2>3. seconds' \subseteq Ids
    BY <2>1, SecondsTyped
  <2> QED
    BY <2>1, <2>2, <2>3, OpeningTyped, RequestTyped DEF Authelia, throttle, TypeOK, Accounts
<1> QED
  BY <1>1, <1>2, <1>3, <1>4

\* The account of a redeemed link, and the session it opens.
LEMMA AcceptTyped ==
  ASSUME TypeOK, NEW b \in Browsers, Accept(b)
  PROVE  TypeOK'
<1> DEFINE t == flow[b].token
<1>1. flow[b].stage = "offer" /\ t \in Tokens /\ invite[t].state = "pending"
  BY Stages DEF Accept
<1>2. /\ invite[t].name \in Names /\ invite[t].mail \in Mails
      /\ [invite EXCEPT ![t].state = "accepted"] \in [Tokens -> {Unused} \cup Links]
  BY <1>1, LinkFields
<1>3. PICK id \in Ids \ Accounts :
        /\ Insert(id, [name |-> invite[t].name, handle |-> None, mail |-> invite[t].mail,
                       mirrored |-> FALSE, groups |-> {}, active |-> TRUE, link |-> t])
        /\ session' = session \cup {[id |-> id, as |-> None, late |-> FALSE]}
  BY DEF Accept
<1>4. /\ DOMAIN account' \subseteq Ids /\ \A a \in DOMAIN account' : account'[a] \in Rows
      /\ Accounts \subseteq DOMAIN account' /\ id \in DOMAIN account'
  BY <1>1, <1>2, <1>3, Parts, RowsTyped
<1>5. session' \subseteq Sessions /\ \A s \in session' : s.id \in DOMAIN account'
  BY <1>3, <1>4, SessionTyped
<1>6. flow' \in [Browsers -> {Idle} \cup Offers \cup Guesses \cup Openings]
  BY DEF Accept, TypeOK
<1> QED
  BY <1>2, <1>4, <1>5, <1>6 DEF Accept, throttle, TypeOK, Accounts

\* Every step keeps the types, when a session is opened for an account that there is.
LEMMA TypeStays ==
  ASSUME TypeOK, Started, [Next]_vars
  PROVE  TypeOK'
<1> DEFINE Flows == [Browsers -> {Idle} \cup Offers \cup Guesses \cup Openings]
<1>1. ASSUME NEW t \in Tokens, CreateInvite(t) PROVE TypeOK'
  <2>1. invite' \in [Tokens -> {Unused} \cup Links]
    BY <1>1 DEF CreateInvite, Links, TypeOK
  <2> QED
    BY <1>1, <2>1, RequestTyped, ZenonT(40) DEF CreateInvite, people, throttle, TypeOK, Accounts
<1>2. ASSUME NEW t \in Tokens, RevokeInvite(t) \/ ExpireInvite(t) PROVE TypeOK'
  <2>1. invite' \in [Tokens -> {Unused} \cup Links] /\ left' \in 0..MaxRequests
    BY <1>2, LinkFields, RequestTyped DEF RevokeInvite, ExpireInvite, TypeOK
  <2> QED
    BY <1>2, <2>1, ZenonT(40) DEF RevokeInvite, ExpireInvite, people, throttle, TypeOK, Accounts
<1>3. ASSUME NEW b \in Browsers, NEW t \in Tokens, Offer(b, t) PROVE TypeOK'
  <2>1. flow' \in Flows
    BY <1>3, Parts DEF Offer, TypeOK
  <2> QED
    BY <1>3, <2>1, RequestTyped, ZenonT(40) DEF Offer, people, throttle, TypeOK, Accounts
<1>4. ASSUME CreatePrincipal PROVE TypeOK'
  <2>1. PICK id \in Ids \ Accounts, name \in Names, mail \in Mails \cup {None} :
          /\ Insert(id, [name |-> name, handle |-> None, mail |-> mail, mirrored |-> FALSE,
                         groups |-> {}, active |-> TRUE, link |-> None])
          /\ Address(id, mail)
    BY <1>4 DEF CreatePrincipal
  <2>2. /\ DOMAIN account' \subseteq Ids /\ \A a \in DOMAIN account' : account'[a] \in Rows
        /\ Accounts \subseteq DOMAIN account'
    BY <2>1, Parts, RowsTyped
  <2>3. seconds' \subseteq Ids
    BY <2>1, SecondsTyped
  <2> QED
    BY <1>4, <2>2, <2>3, RequestTyped DEF CreatePrincipal, throttle, TypeOK, Accounts
<1>5. ASSUME NEW id \in Accounts, Activate(id) \/ Deactivate(id) PROVE TypeOK'
  <2>1. DOMAIN account' = Accounts /\ \A a \in Accounts : account'[a] \in Rows
    BY <1>5, ActiveSet DEF Activate, Deactivate
  <2>2. session' \subseteq session /\ left' \in 0..MaxRequests
    BY <1>5, RequestTyped DEF Activate, Deactivate
  <2> QED
    BY <1>5, <2>1, <2>2 DEF Activate, Deactivate, throttle, TypeOK, Accounts
<1>6. ASSUME NEW id \in Accounts, Promote(id) \/ Demote(id) PROVE TypeOK'
  <2>1. promoted' \subseteq Accounts /\ left' \in 0..MaxRequests
    BY <1>6, RequestTyped DEF Promote, Demote, TypeOK
  <2> QED
    BY <1>6, <2>1, ZenonT(40) DEF Promote, Demote, throttle, TypeOK, Accounts
<1>7. ASSUME NEW b \in Browsers, SignIn(b) PROVE TypeOK'
  <2>1. flow' \in Flows
    BY <1>7, Parts DEF SignIn, Named, Accounts, TypeOK
  <2> QED
    BY <1>7, <2>1, RequestTyped, ZenonT(40) DEF SignIn, people, throttle, TypeOK, Accounts
<1>8. ASSUME NEW b \in Browsers, WrongPassword(b) PROVE TypeOK'
  <2>1. flow' \in Flows
    BY <1>8 DEF WrongPassword, TypeOK
  <2> QED
    BY <1>8, <2>1, ThrottleTyped, ZenonT(40) DEF WrongPassword, people, TypeOK, Accounts
<1>9. ASSUME NEW b \in Browsers, RightPassword(b) PROVE TypeOK'
  <2>1. flow' \in Flows
    BY <1>9, Stages, OpeningTyped DEF RightPassword
  <2>2. /\ failures' \in [Subjects -> Nat] /\ tried' \in [Subjects -> Nat]
        /\ lock' \in [Subjects -> {"none", "locked", "over"}]
    BY <1>9 DEF RightPassword, TypeOK
  <2> QED
    BY <1>9, <2>1, <2>2, ZenonT(40) DEF RightPassword, people, TypeOK, Accounts
<1>10. ASSUME NEW s \in Subjects, LockRunsOut(s) PROVE TypeOK'
  <2>1. tried' \in [Subjects -> Nat] /\ lock' \in [Subjects -> {"none", "locked", "over"}]
    BY <1>10 DEF LockRunsOut, TypeOK
  <2> QED
    BY <1>10, <2>1, ZenonT(40) DEF LockRunsOut, people, TypeOK, Accounts
<1>11. ASSUME NEW b \in Browsers, OpenSession(b) PROVE TypeOK'
  <2>1. flow[b].id \in Accounts /\ flow[b].id \in Ids /\ flow[b].as \in Names \cup {None}
    BY <1>11, Stages DEF OpenSession, Started
  <2>2. account[flow[b].id].active \in BOOLEAN
    BY <2>1 DEF TypeOK, Rows
  <2>3. session' \subseteq Sessions /\ \A s \in session' : s.id \in Accounts
    BY <1>11, <2>1, <2>2, SessionTyped DEF OpenSession, people, Accounts
  <2>4. flow' \in Flows
    BY <1>11 DEF OpenSession, TypeOK
  <2> QED
    BY <1>11, <2>3, <2>4, ZenonT(40) DEF OpenSession, people, throttle, TypeOK, Accounts
<1>12. ASSUME NEW b \in Browsers, Abort(b) PROVE TypeOK'
  <2>1. flow' \in Flows
    BY <1>12 DEF Abort, TypeOK
  <2> QED
    BY <1>12, <2>1, ZenonT(40) DEF Abort, people, throttle, TypeOK, Accounts
<1>13. CASE EndSession
  <2>1. session' \subseteq session
    BY <1>13 DEF EndSession
  <2> QED
    BY <1>13, <2>1 DEF EndSession, people, throttle, TypeOK, Accounts
<1>14. CASE Finished \/ UNCHANGED vars
  BY <1>14, ZenonT(40) DEF Finished, vars, TypeOK, Accounts
<1> QED
  BY <1>1, <1>2, <1>3, <1>4, <1>5, <1>6, <1>7, <1>8, <1>9, <1>10, <1>11, <1>12, <1>13, <1>14,
     AcceptTyped, AutheliaTyped DEF Next

-----------------------------------------------------------------------------
(* What is known of accounts, requests and sessions *)

\* A sign-in through Authelia reaches one account by the handle, whichever way it found it.
LEMMA AutheliaKept ==
  ASSUME KnownOnes, NEW b \in Browsers, Authelia(b), TypeOK'
  PROVE  KnownOnes'
<1>1. PICK handle \in Names, mail \in Mails \cup {None}, key \in Mails \cup {None},
           groups \in SUBSET {"admins"} :
        \/ Recognise(b, handle, mail, groups)
        \/ Merge(b, handle, key, groups)
        \/ Mirror(b, handle, mail, key, groups)
  BY DEF Authelia
<1>2. TypeOK /\ session' = session /\ handle # None
  BY SubjectsAssumption DEF Authelia, KnownOnes
<1>3. CASE Recognise(b, handle, mail, groups)
  <2>1. PICK id \in Accounts :
          /\ account[id].handle = handle
          /\ account' = [account EXCEPT ![id].groups = groups,
                                        ![id].mail = IF account[id].mirrored THEN mail ELSE @]
          /\ Opening(b, id, handle)
    BY <1>3 DEF Recognise
  <2> DEFINE address == IF account[id].mirrored THEN mail ELSE account[id].mail
             row == [account[id] EXCEPT !.groups = groups, !.mail = address]
  <2>2. account[id] \in Rows /\ id \in Ids /\ address \in Mails \cup {None}
    BY <1>2 DEF TypeOK, Rows
  <2>3. row \in Rows /\ row.handle = account[id].handle /\ row.active = account[id].active
    BY <2>2 DEF Rows
  <2>4. account' = [account EXCEPT ![id] = row]
    BY <2>1, <2>2 DEF Rows
  <2> HIDE DEF row
  <2>5. /\ DOMAIN account' = Accounts
        /\ \A a \in Accounts : /\ account'[a].handle = account[a].handle
                               /\ account'[a].active = account[a].active
    BY <1>2, <2>3, <2>4, RowReplaced
  <2>6. /\ flow'[b] = [stage |-> "opening", id |-> id, as |-> handle]
        /\ \A o \in Browsers : o # b => flow'[o] = flow[o]
    BY <1>2, <2>1, <2>2, OpeningTyped
  <2> QED
    BY <1>2, <2>1, <2>5, <2>6, Kept
<1>4. CASE Merge(b, handle, key, groups)
  <2>1. PICK id \in Ids :
          /\ Candidates(key) = {id}
          /\ account' = [account EXCEPT ![id].handle = handle, ![id].groups = groups]
          /\ Opening(b, id, handle)
    BY <1>4 DEF Merge
  <2> DEFINE row == [account[id] EXCEPT !.handle = handle, !.groups = groups]
  <2>2. id \in Accounts /\ account[id] \in Rows /\ account[id].handle = None
    BY <1>2, <2>1 DEF TypeOK, Candidates, Carrying
  <2>3. row \in Rows /\ row.handle = handle /\ row.active = account[id].active
    BY <2>2 DEF Rows
  <2>4. account' = [account EXCEPT ![id] = row]
    BY <2>1, <2>2
  <2> HIDE DEF row
  <2>5. /\ DOMAIN account' = Accounts
        /\ account'[id].handle = handle
        /\ \A a \in Accounts \ {id} : account'[a].handle = account[a].handle
        /\ \A a \in Accounts : account'[a].active = account[a].active
    BY <1>2, <2>2, <2>3, <2>4, RowReplaced
  <2>6. /\ flow'[b] = [stage |-> "opening", id |-> id, as |-> handle]
        /\ \A o \in Browsers : o # b => flow'[o] = flow[o]
    BY <1>2, <2>1, OpeningTyped
  <2>7. \A a \in Accounts : account[a].handle # handle
    BY <1>4 DEF Merge, Known
  <2> QED
    BY <1>2, <2>2, <2>5, <2>6, <2>7, Kept
<1>5. CASE Mirror(b, handle, mail, key, groups)
  <2> DEFINE row == [name |-> handle, handle |-> handle, mail |-> mail, mirrored |-> TRUE,
                     groups |-> groups, active |-> TRUE, link |-> None]
  <2>1. PICK id \in Ids \ Accounts : Insert(id, row) /\ Opening(b, id, handle)
    BY <1>5 DEF Mirror
  <2>2. row \in Rows /\ row.handle = handle
    BY Parts
  <2> HIDE DEF row
  <2>3. /\ DOMAIN account' = Accounts \cup {id} /\ account'[id].handle = handle
        /\ \A a \in Accounts : account'[a] = account[a]
    BY <1>2, <2>1, <2>2, RowsTyped
  <2>4. /\ flow'[b] = [stage |-> "opening", id |-> id, as |-> handle]
        /\ \A o \in Browsers : o # b => flow'[o] = flow[o]
    BY <1>2, <2>1, OpeningTyped
  <2>5. \A a \in Accounts : account[a].handle # handle
    BY <1>5 DEF Mirror, Known
  <2> QED
    BY <1>2, <2>3, <2>4, <2>5, Kept
<1> QED
  BY <1>1, <1>3, <1>4, <1>5

\* Every step keeps what is known.
LEMMA KnownStays ==
  ASSUME KnownOnes, [Next]_vars
  PROVE  KnownOnes'
<1>0. TypeOK /\ Started /\ TypeOK'
  BY TypeStays DEF KnownOnes
<1>1. ASSUME NEW t \in Tokens, CreateInvite(t) \/ RevokeInvite(t) \/ ExpireInvite(t) PROVE KnownOnes'
  <2>1. account' = account /\ session' = session /\ flow' = flow
    BY <1>1 DEF CreateInvite, RevokeInvite, ExpireInvite, people
  <2> QED
    BY <1>0, <2>1, Kept DEF Accounts
<1>2. ASSUME NEW b \in Browsers, NEW t \in Tokens, Offer(b, t) PROVE KnownOnes'
  <2>1. /\ account' = account /\ session' = session
        /\ flow'[b].stage = "offer" /\ \A o \in Browsers : o # b => flow'[o] = flow[o]
    BY <1>0, <1>2 DEF Offer, people, TypeOK
  <2> QED
    BY <1>0, <2>1, Kept DEF Accounts
<1>3. ASSUME CreatePrincipal PROVE KnownOnes'
  <2>1. PICK id \in Ids \ Accounts, name \in Names, mail \in Mails \cup {None} :
          Insert(id, [name |-> name, handle |-> None, mail |-> mail, mirrored |-> FALSE,
                      groups |-> {}, active |-> TRUE, link |-> None])
    BY <1>3 DEF CreatePrincipal
  <2> DEFINE row == [name |-> name, handle |-> None, mail |-> mail, mirrored |-> FALSE,
                     groups |-> {}, active |-> TRUE, link |-> None]
  <2>2. row \in Rows /\ row.handle = None /\ Insert(id, row)
    BY <2>1, Parts
  <2> HIDE DEF row
  <2>3. /\ DOMAIN account' = Accounts \cup {id} /\ account'[id].handle = None
        /\ \A a \in Accounts : account'[a] = account[a]
    BY <1>0, <2>2, RowsTyped
  <2>4. session' = session /\ flow' = flow
    BY <1>3 DEF CreatePrincipal
  <2> QED
    BY <1>0, <2>3, <2>4, Kept
<1>4. ASSUME NEW id \in Accounts, Activate(id) PROVE KnownOnes'
  <2>1. /\ DOMAIN account' = Accounts /\ \A a \in Accounts : account'[a].handle = account[a].handle
        /\ account'[id].active /\ \A a \in Accounts : a # id => account'[a] = account[a]
    BY <1>0, <1>4, ActiveSet DEF Activate
  <2>2. session' = session /\ flow' = flow
    BY <1>4 DEF Activate
  <2> QED
    BY <1>0, <2>1, <2>2, Kept
<1>5. ASSUME NEW id \in Accounts, Deactivate(id) PROVE KnownOnes'
  <2>1. /\ DOMAIN account' = Accounts /\ \A a \in Accounts : account'[a].handle = account[a].handle
        /\ \A a \in Accounts : a # id => account'[a] = account[a]
    BY <1>0, <1>5, ActiveSet DEF Deactivate
  <2>2. session' = {s \in session : s.id # id} /\ flow' = flow
    BY <1>5 DEF Deactivate
  <2> QED
    BY <1>0, <2>1, <2>2, Kept
<1>6. ASSUME NEW id \in Accounts, Promote(id) \/ Demote(id) PROVE KnownOnes'
  <2>1. account' = account /\ session' = session /\ flow' = flow
    BY <1>6 DEF Promote, Demote
  <2> QED
    BY <1>0, <2>1, Kept DEF Accounts
<1>7. ASSUME NEW b \in Browsers, Accept(b) PROVE KnownOnes'
  <2> DEFINE t == flow[b].token
             row == [name |-> invite[t].name, handle |-> None, mail |-> invite[t].mail,
                     mirrored |-> FALSE, groups |-> {}, active |-> TRUE, link |-> t]
  <2>1. t \in Tokens /\ invite[t].state = "pending"
    BY <1>0, <1>7, Stages DEF Accept
  <2>2. row \in Rows /\ row.handle = None /\ row.active
    BY <1>0, <2>1, LinkFields, Parts
  <2>3. PICK id \in Ids \ Accounts :
          /\ Insert(id, row)
          /\ session' = session \cup {[id |-> id, as |-> None, late |-> FALSE]}
    BY <1>7 DEF Accept
  <2> HIDE DEF row
  <2>4. /\ DOMAIN account' = Accounts \cup {id}
        /\ account'[id].handle = None /\ account'[id].active
        /\ \A a \in Accounts : account'[a] = account[a]
    BY <1>0, <2>2, <2>3, RowsTyped
  <2>5. flow'[b].stage = "idle" /\ \A o \in Browsers : o # b => flow'[o] = flow[o]
    BY <1>0, <1>7, Parts DEF Accept, TypeOK
  <2>6. \A s \in session' \ session : s.id = id /\ s.as = None
    BY <2>3
  <2> QED
    BY <1>0, <2>4, <2>5, <2>6, Kept
<1>8. ASSUME NEW b \in Browsers, SignIn(b) PROVE KnownOnes'
  <2>1. /\ account' = account /\ session' = session
        /\ flow'[b].stage = "hashing" /\ flow'[b].found \in Accounts \cup {None}
        /\ \A o \in Browsers : o # b => flow'[o] = flow[o]
    BY <1>0, <1>8 DEF SignIn, people, Named, TypeOK
  <2> QED
    BY <1>0, <2>1, Kept DEF Accounts
<1>9. ASSUME NEW b \in Browsers, WrongPassword(b) \/ Abort(b) PROVE KnownOnes'
  <2>1. /\ account' = account /\ session' = session
        /\ flow'[b].stage = "idle" /\ \A o \in Browsers : o # b => flow'[o] = flow[o]
    BY <1>0, <1>9, Parts DEF WrongPassword, Abort, people, TypeOK
  <2> QED
    BY <1>0, <2>1, Kept DEF Accounts
<1>10. ASSUME NEW b \in Browsers, RightPassword(b) PROVE KnownOnes'
  <2>1. /\ account' = account /\ session' = session /\ Opening(b, flow[b].found, None)
        /\ flow[b].found \in Ids /\ flow[b].found \in Accounts
    BY <1>0, <1>10, Stages DEF RightPassword, people, Started
  <2>2. /\ flow'[b] = [stage |-> "opening", id |-> flow[b].found, as |-> None]
        /\ \A o \in Browsers : o # b => flow'[o] = flow[o]
    BY <1>0, <2>1, OpeningTyped
  <2> QED
    BY <1>0, <2>1, <2>2, Kept DEF Accounts
<1>11. ASSUME NEW s \in Subjects, LockRunsOut(s) PROVE KnownOnes'
  <2>1. account' = account /\ session' = session /\ flow' = flow
    BY <1>11 DEF LockRunsOut, people
  <2> QED
    BY <1>0, <2>1, Kept DEF Accounts
<1>12. ASSUME NEW b \in Browsers, OpenSession(b) PROVE KnownOnes'
  <2>1. /\ account' = account
        /\ session' = session \cup {[id |-> flow[b].id, as |-> flow[b].as,
                                     late |-> ~account[flow[b].id].active]}
        /\ flow'[b].stage = "idle" /\ \A o \in Browsers : o # b => flow'[o] = flow[o]
    BY <1>0, <1>12, Parts DEF OpenSession, people, TypeOK
  <2>2. /\ flow[b].id \in Accounts
        /\ flow[b].as # None => account[flow[b].id].handle = flow[b].as
    BY <1>0, <1>12 DEF OpenSession, Started
  <2>3. \A s \in session' \ session :
          s.id = flow[b].id /\ s.as = flow[b].as /\ s.late = ~account[flow[b].id].active
    BY <2>1
  <2>4. \A s \in session' \ session : account[s.id].active \/ s.late
    BY <2>3
  <2> QED
    BY <1>0, <2>1, <2>2, <2>3, <2>4, Kept DEF Accounts
<1>13. CASE EndSession
  <2>1. account' = account /\ session' \subseteq session /\ flow' = flow
    BY <1>13 DEF EndSession, people
  <2> QED
    BY <1>0, <2>1, Kept DEF Accounts
<1>14. CASE Finished \/ UNCHANGED vars
  <2>1. account' = account /\ session' = session /\ flow' = flow
    BY <1>14 DEF Finished, vars
  <2> QED
    BY <1>0, <2>1, Kept DEF Accounts
<1> QED
  BY <1>0, <1>1, <1>2, <1>3, <1>4, <1>5, <1>6, <1>7, <1>8, <1>9, <1>10, <1>11, <1>12, <1>13, <1>14,
     AutheliaKept DEF Next

LEMMA KnownAtFirst == Init => KnownOnes
<1> SUFFICES ASSUME Init PROVE KnownOnes
  OBVIOUS
<1>1. TypeOK
  BY FirstAssumption, LimitAssumption, SMTT(30) DEF Init, TypeOK, Accounts
<1>2. Started /\ SessionsFit /\ IdleSessionsAreLate
  BY Parts DEF Init, Started, SessionsFit, IdleSessionsAreLate
<1>3. OneHandle
  BY FirstAssumption DEF Init, OneHandle, Accounts
<1> QED
  BY <1>1, <1>2, <1>3 DEF KnownOnes

\* What is known of accounts, requests and sessions holds at every moment.
THEOREM KnownAlways == Spec => []KnownOnes
<1>1. Init => KnownOnes
  BY KnownAtFirst
<1>2. KnownOnes /\ [Next]_vars => KnownOnes'
  BY KnownStays
<1> QED
  BY <1>1, <1>2, PTL DEF Spec

\* The types are right at every moment.
THEOREM TypeCorrect == Spec => []TypeOK
<1>1. KnownOnes => TypeOK
  BY DEF KnownOnes
<1> QED
  BY <1>1, KnownAlways, PTL

\* A session of an account that is not active was opened while it was not (sessions of gw-store,
\* set_principal_active_audited): a deactivation leaves none that was there before.
THEOREM SuspensionEndsSessions == Spec => []IdleSessionsAreLate
<1>1. KnownOnes => IdleSessionsAreLate
  BY DEF KnownOnes
<1> QED
  BY <1>1, KnownAlways, PTL

\* Whoever came through Authelia is in the one account their handle reaches
\* (upsert_oidc_identity), whatever was merged, mirrored or renamed before.
THEOREM HandlesReachOne == Spec => []AutheliaReachesItsOwn
<1>1. KnownOnes => AutheliaReachesItsOwn
  <2> SUFFICES ASSUME KnownOnes, NEW s \in session, s.as # None
               PROVE  {id \in Accounts : account[id].handle = s.as} = {s.id}
    BY DEF AutheliaReachesItsOwn
  <2>1. s.id \in Accounts /\ account[s.id].handle = s.as
    BY DEF KnownOnes, TypeOK, SessionsFit
  <2>2. \A id \in Accounts : account[id].handle = s.as => id = s.id
    BY <2>1 DEF KnownOnes, OneHandle
  <2> QED
    BY <2>1, <2>2
<1> QED
  BY <1>1, KnownAlways, PTL

-----------------------------------------------------------------------------
(* The last administrator *)

\* Administrators stay administrators when rows, groups, marks and letting in only grow.
LEMMA AdministratorsGrow ==
  ASSUME Accounts \subseteq DOMAIN account',
         \A a \in Accounts : /\ account'[a].groups = account[a].groups
                             /\ account[a].active => account'[a].active,
         promoted \subseteq promoted'
  PROVE  Administrators \subseteq Administrators'
  BY DEF Administrators, AdministratorsIn, BaselineOn, Accounts

\* No step here takes the last administrator away, unless Authelia no longer asserts a group
\* (set_principal_active_audited, set_instance_admin_audited, upsert_oidc_identity).
THEOREM TheFloorHolds == Spec => AdministratorsStay
<1> DEFINE Lost == Administrators # {} /\ Administrators' = {}
                     => \E id \in Accounts : account'[id].groups # account[id].groups
<1>1. ASSUME TypeOK, [Next]_vars PROVE Lost
  <2>1. ASSUME account' = account, promoted' = promoted PROVE Lost
    BY <2>1 DEF Administrators
  <2>2. ASSUME NEW id \in Ids \ Accounts, NEW row \in Rows, Insert(id, row), promoted' = promoted
        PROVE  Lost
    BY <1>1, <2>2, RowsTyped, AdministratorsGrow
  <2>3. ASSUME NEW t \in Tokens, CreateInvite(t) \/ RevokeInvite(t) \/ ExpireInvite(t) PROVE Lost
    BY <2>1, <2>3 DEF CreateInvite, RevokeInvite, ExpireInvite, people
  <2>4. ASSUME NEW b \in Browsers, NEW t \in Tokens, Offer(b, t) PROVE Lost
    BY <2>1, <2>4 DEF Offer, people
  <2>5. CASE CreatePrincipal
    BY <2>2, <2>5, Parts DEF CreatePrincipal
  <2>6. ASSUME NEW id \in Accounts, Activate(id) PROVE Lost
    <3>1. /\ DOMAIN account' = Accounts /\ promoted' = promoted /\ account'[id].active
          /\ \A a \in Accounts : account'[a].groups = account[a].groups
          /\ \A a \in Accounts : a # id => account'[a] = account[a]
      BY <1>1, <2>6, ActiveSet DEF Activate
    <3> QED
      BY <3>1, AdministratorsGrow
  <2>7. ASSUME NEW id \in Accounts, Deactivate(id) PROVE Lost
    BY <2>7 DEF Deactivate, Administrators
  <2>8. ASSUME NEW id \in Accounts, Promote(id) PROVE Lost
    BY <2>8, AdministratorsGrow DEF Promote, Accounts
  <2>9. ASSUME NEW id \in Accounts, Demote(id) PROVE Lost
    BY <2>9 DEF Demote, Administrators
  <2>10. ASSUME NEW b \in Browsers, Accept(b) PROVE Lost
    <3>1. flow[b].token \in Tokens /\ invite[flow[b].token].state = "pending"
      BY <1>1, <2>10, Stages DEF Accept
    <3>2. invite[flow[b].token].name \in Names /\ invite[flow[b].token].mail \in Mails
      BY <1>1, <3>1, LinkFields
    <3> QED
      BY <2>2, <2>10, <3>1, <3>2, Parts DEF Accept
  <2>11. ASSUME NEW b \in Browsers, Authelia(b) PROVE Lost
    <3>1. promoted' = promoted
      BY <2>11 DEF Authelia
    <3>2. PICK handle \in Names, mail \in Mails \cup {None}, key \in Mails \cup {None},
               groups \in SUBSET {"admins"} :
            \/ Recognise(b, handle, mail, groups)
            \/ Merge(b, handle, key, groups)
            \/ Mirror(b, handle, mail, key, groups)
      BY <2>11 DEF Authelia
    <3>3. CASE Recognise(b, handle, mail, groups) \/ Merge(b, handle, key, groups)
      <4>1. /\ DOMAIN account' = Accounts
            /\ \A a \in Accounts : account[a].active => account'[a].active
        <5>1. ASSUME NEW id \in Accounts, NEW h \in Names, NEW m \in Mails \cup {None},
                     \/ account' = [account EXCEPT ![id].groups = groups, ![id].mail = m]
                     \/ account' = [account EXCEPT ![id].handle = h, ![id].groups = groups]
              PROVE  /\ DOMAIN account' = Accounts
                     /\ \A a \in Accounts : account'[a].active = account[a].active
          BY <1>1, <5>1 DEF TypeOK, Rows, Accounts
        <5>2. CASE Recognise(b, handle, mail, groups)
          <6>1. PICK id \in Accounts :
                  account' = [account EXCEPT ![id].groups = groups,
                                             ![id].mail = IF account[id].mirrored THEN mail ELSE @]
            BY <5>2 DEF Recognise
          <6> DEFINE address == IF account[id].mirrored THEN mail ELSE account[id].mail
          <6>2. account[id] \in Rows /\ address \in Mails \cup {None}
            BY <1>1 DEF TypeOK, Rows
          <6>3. account' = [account EXCEPT ![id].groups = groups, ![id].mail = address]
            BY <6>1, <6>2 DEF Rows
          <6> QED
            BY <5>1, <6>2, <6>3
        <5>3. CASE Merge(b, handle, key, groups)
          <6>1. PICK id \in Ids :
                  /\ Candidates(key) = {id}
                  /\ account' = [account EXCEPT ![id].handle = handle, ![id].groups = groups]
            BY <5>3 DEF Merge
          <6>2. id \in Accounts
            BY <6>1 DEF Candidates, Carrying
          <6> QED
            BY <5>1, <6>1, <6>2
        <5> QED
          BY <3>3, <5>2, <5>3
      <4> QED
        BY <3>1, <4>1, AdministratorsGrow
    <3>4. CASE Mirror(b, handle, mail, key, groups)
      BY <2>2, <3>1, <3>4, Parts DEF Mirror
    <3> QED
      BY <3>2, <3>3, <3>4
  <2>12. ASSUME NEW b \in Browsers,
                SignIn(b) \/ WrongPassword(b) \/ RightPassword(b) \/ OpenSession(b) \/ Abort(b)
         PROVE  Lost
    BY <2>1, <2>12 DEF SignIn, WrongPassword, RightPassword, OpenSession, Abort, people
  <2>13. CASE EndSession \/ Finished \/ UNCHANGED vars \/ \E s \in Subjects : LockRunsOut(s)
    BY <2>1, <2>13 DEF EndSession, Finished, LockRunsOut, people, vars
  <2> QED
    BY <1>1, <2>3, <2>4, <2>5, <2>6, <2>7, <2>8, <2>9, <2>10, <2>11, <2>12, <2>13 DEF Next
<1> QED
  BY <1>1, TypeCorrect, PTL DEF Spec, AdministratorsStay

-----------------------------------------------------------------------------
(* Links *)

\* A link that was redeemed, withdrawn or has expired stays so and makes no account
\* (accept_invite_audited consumes it in the transaction that makes the account).
THEOREM DeadLinks == Spec => DeadLinksStayDead
<1> DEFINE Dead(t) == invite[t].state \in {"accepted", "revoked", "expired"}
           Stays(t) == /\ invite'[t] = invite[t]
                       /\ \A id \in DOMAIN account' \ Accounts : account'[id].link # t
<1>1. ASSUME TypeOK, [Next]_vars, NEW d \in Tokens, Dead(d) PROVE Stays(d)
  <2>1. ASSUME DOMAIN account' = Accounts, invite' = invite PROVE Stays(d)
    BY <2>1
  <2>2. ASSUME NEW id \in Ids \ Accounts, NEW row \in Rows, Insert(id, row), row.link = None,
               invite' = invite
        PROVE  Stays(d)
    <3>1. DOMAIN account' = Accounts \cup {id} /\ account'[id] = row
      BY <1>1, <2>2, RowsTyped
    <3>2. row.link # d
      BY <1>1, <2>2, SubjectsAssumption
    <3> QED
      BY <2>2, <3>1, <3>2
  <2>3. ASSUME NEW t \in Tokens, CreateInvite(t) \/ RevokeInvite(t) \/ ExpireInvite(t) PROVE Stays(d)
    BY <1>1, <2>3 DEF CreateInvite, RevokeInvite, ExpireInvite, people, Unused, TypeOK, Accounts
  <2>4. ASSUME NEW b \in Browsers, NEW t \in Tokens, Offer(b, t) PROVE Stays(d)
    BY <2>1, <2>4 DEF Offer, people, Accounts
  <2>5. CASE CreatePrincipal
    BY <2>2, <2>5, Parts DEF CreatePrincipal
  <2>6. ASSUME NEW id \in Accounts, Activate(id) \/ Deactivate(id) \/ Promote(id) \/ Demote(id)
        PROVE  Stays(d)
    BY <2>1, <2>6 DEF Activate, Deactivate, Promote, Demote, Accounts
  <2>7. ASSUME NEW b \in Browsers, Accept(b) PROVE Stays(d)
    <3> DEFINE t == flow[b].token
    <3>1. t \in Tokens /\ invite[t].state = "pending"
      BY <1>1, <2>7, Stages DEF Accept
    <3>2. invite[t].name \in Names /\ invite[t].mail \in Mails
      BY <1>1, <3>1, LinkFields
    <3> DEFINE row == [name |-> invite[t].name, handle |-> None, mail |-> invite[t].mail,
                       mirrored |-> FALSE, groups |-> {}, active |-> TRUE, link |-> t]
    <3>3. row \in Rows /\ row.link = t
      BY <3>1, <3>2, Parts
    <3>4. PICK id \in Ids \ Accounts : Insert(id, row)
      BY <2>7 DEF Accept
    <3>5. invite'[d] = invite[d] /\ d # t
      BY <1>1, <2>7, <3>1 DEF Accept, TypeOK
    <3> HIDE DEF row
    <3>6. DOMAIN account' = Accounts \cup {id} /\ account'[id] = row
      BY <1>1, <3>3, <3>4, RowsTyped
    <3> QED
      BY <3>3, <3>5, <3>6
  <2>8. ASSUME NEW b \in Browsers, Authelia(b) PROVE Stays(d)
    <3>1. invite' = invite
      BY <2>8 DEF Authelia
    <3>2. PICK handle \in Names, mail \in Mails \cup {None}, key \in Mails \cup {None},
               groups \in SUBSET {"admins"} :
            \/ Recognise(b, handle, mail, groups)
            \/ Merge(b, handle, key, groups)
            \/ Mirror(b, handle, mail, key, groups)
      BY <2>8 DEF Authelia
    <3>3. CASE Recognise(b, handle, mail, groups) \/ Merge(b, handle, key, groups)
      BY <2>1, <3>1, <3>3 DEF Recognise, Merge, Accounts
    <3>4. CASE Mirror(b, handle, mail, key, groups)
      BY <2>2, <3>1, <3>4, Parts DEF Mirror
    <3> QED
      BY <3>2, <3>3, <3>4
  <2>9. ASSUME NEW b \in Browsers,
               SignIn(b) \/ WrongPassword(b) \/ RightPassword(b) \/ OpenSession(b) \/ Abort(b)
        PROVE  Stays(d)
    BY <2>1, <2>9 DEF SignIn, WrongPassword, RightPassword, OpenSession, Abort, people, Accounts
  <2>10. CASE EndSession \/ Finished \/ UNCHANGED vars \/ \E s \in Subjects : LockRunsOut(s)
    BY <2>1, <2>10 DEF EndSession, Finished, LockRunsOut, people, vars, Accounts
  <2> QED
    BY <1>1, <2>3, <2>4, <2>5, <2>6, <2>7, <2>8, <2>9, <2>10 DEF Next
<1>2. TypeOK /\ [Next]_vars => [\A t \in Tokens : Dead(t) => Stays(t)]_vars
  BY <1>1
<1> QED
  BY <1>2, TypeCorrect, PTL DEF Spec, DeadLinksStayDead

-----------------------------------------------------------------------------
(* The throttle *)

\* Who was let in before the count of s was closed, and has still to be counted for it.
Waiting(s) == {b \in Browsers : flow[b].stage = "hashing" /\ s \in {flow[b].name, flow[b].net}}

\* A closed subject has what was counted when it closed and what is still to come at most.
CountOf(s) ==
  /\ lock[s] = "none" => failures[s] = tried[s] /\ tried[s] < Limit
  /\ lock[s] = "over" => tried[s] = 0
  /\ Locked(s) =>
       /\ tried[s] >= Limit
       /\ tried[s] + Cardinality(Waiting(s)) <= Limit + Cardinality(Browsers) - 1

Counting == \A s \in Subjects : CountOf(s)

\* Fewer waiting are fewer, and without one of them fewer by one.
LEMMA Fewer ==
  ASSUME NEW All, IsFiniteSet(All), NEW Some \in SUBSET All
  PROVE  /\ Cardinality(All) \in Nat /\ Cardinality(Some) \in Nat
         /\ Cardinality(Some) <= Cardinality(All)
         /\ \A one \in All \ Some : Cardinality(Some) + 1 <= Cardinality(All)
<1>1. IsFiniteSet(Some) /\ Cardinality(Some) <= Cardinality(All)
  BY FS_Subset
<1>2. Cardinality(All) \in Nat /\ Cardinality(Some) \in Nat
  BY <1>1, FS_CardinalityType
<1>3. ASSUME NEW one \in All \ Some PROVE Cardinality(Some) + 1 <= Cardinality(All)
  <2>1. IsFiniteSet(All \ {one}) /\ Cardinality(All \ {one}) = Cardinality(All) - 1
    BY FS_RemoveElement
  <2>2. Some \subseteq All \ {one}
    OBVIOUS
  <2>3. Cardinality(Some) <= Cardinality(All \ {one})
    BY <2>1, <2>2, FS_Subset
  <2> QED
    BY <1>2, <2>1, <2>3
<1> QED
  BY <1>1, <1>2, <1>3

\* A subject whose row stays, or is dropped while it is not locked, and for which nobody new waits.
LEMMA CountKept ==
  ASSUME TypeOK, NEW s \in Subjects, CountOf(s),
         \/ failures'[s] = failures[s] /\ tried'[s] = tried[s] /\ lock'[s] = lock[s]
         \/ failures'[s] = 0 /\ tried'[s] = 0 /\ lock'[s] = "none",
         Locked(s) => Waiting(s)' \subseteq Waiting(s)
  PROVE  CountOf(s)'
<1>1. CASE failures'[s] = 0 /\ tried'[s] = 0 /\ lock'[s] = "none"
  BY <1>1, LimitAssumption DEF CountOf, Locked
<1>2. CASE failures'[s] = failures[s] /\ tried'[s] = tried[s] /\ lock'[s] = lock[s]
  <2>1. CASE ~Locked(s)
    BY <1>2, <2>1 DEF CountOf, Locked
  <2>2. CASE Locked(s)
    <3>1. Waiting(s) \subseteq Browsers /\ IsFiniteSet(Waiting(s))
      BY BrowsersAssumption, FS_Subset DEF Waiting
    <3>2. /\ Cardinality(Waiting(s)) \in Nat /\ Cardinality(Waiting(s)') \in Nat
          /\ Cardinality(Waiting(s)') <= Cardinality(Waiting(s))
          /\ Cardinality(Browsers) \in Nat
      BY <2>2, <3>1, Fewer, BrowsersAssumption, FS_CardinalityType
    <3>3. tried[s] \in Nat /\ Limit \in Nat
      BY LimitAssumption DEF TypeOK
    <3>4. (Cardinality(Waiting(s)))' = Cardinality(Waiting(s)')
      OBVIOUS
    <3> QED
      BY <1>2, <2>2, <3>2, <3>3, <3>4 DEF CountOf, Locked
  <2> QED
    BY <2>1, <2>2
<1> QED
  BY <1>1, <1>2

\* A wrong password is counted, and whoever sent it waits no more.
LEMMA CountAdded ==
  ASSUME TypeOK, NEW s \in Subjects, CountOf(s), NEW b \in Waiting(s),
         tried'[s] = tried[s] + 1, failures'[s] = Counted(s), lock'[s] = LockAfter(s),
         Waiting(s)' \subseteq Waiting(s), b \notin Waiting(s)'
  PROVE  CountOf(s)'
<1> DEFINE W == Cardinality(Waiting(s))
           V == Cardinality(Waiting(s)')
<1>1. Waiting(s) \subseteq Browsers /\ IsFiniteSet(Waiting(s))
  BY BrowsersAssumption, FS_Subset DEF Waiting
<1>2. W \in Nat /\ V \in Nat /\ V + 1 <= W
  BY <1>1, Fewer
<1>3. Cardinality(Browsers) \in Nat /\ W <= Cardinality(Browsers)
  BY <1>1, Fewer, BrowsersAssumption
<1>4. /\ tried[s] \in Nat /\ failures[s] \in Nat /\ Limit \in Nat \ {0}
      /\ lock[s] \in {"none", "locked", "over"}
  BY LimitAssumption DEF TypeOK
<1>5. CountOf(s)' = (/\ lock'[s] = "none" => failures'[s] = tried'[s] /\ tried'[s] < Limit
                     /\ lock'[s] = "over" => tried'[s] = 0
                     /\ lock'[s] = "locked" =>
                          /\ tried'[s] >= Limit
                          /\ tried'[s] + V <= Limit + Cardinality(Browsers) - 1)
  BY DEF CountOf, Locked
<1> HIDE DEF W, V
<1>6. CASE lock[s] = "locked"
  <2>1. lock'[s] = "locked" /\ tried[s] >= Limit /\ tried[s] + W <= Limit + Cardinality(Browsers) - 1
    BY <1>6 DEF LockAfter, CountOf, Locked, W
  <2> QED
    BY <1>2, <1>3, <1>4, <1>5, <2>1
<1>7. CASE lock[s] = "none"
  <2>1. /\ failures[s] = tried[s] /\ tried[s] < Limit /\ failures'[s] = failures[s] + 1
        /\ lock'[s] = IF failures[s] + 1 >= Limit THEN "locked" ELSE "none"
    BY <1>7 DEF LockAfter, Counted, CountOf
  <2> QED
    BY <1>2, <1>3, <1>4, <1>5, <2>1
<1>8. CASE lock[s] = "over"
  <2>1. tried[s] = 0 /\ failures'[s] = 1 /\ lock'[s] = IF 1 >= Limit THEN "locked" ELSE "none"
    BY <1>8 DEF LockAfter, Counted, CountOf
  <2> QED
    BY <1>2, <1>3, <1>4, <1>5, <2>1
<1> QED
  BY <1>4, <1>6, <1>7, <1>8

\* Every step keeps the counts.
LEMMA CountingStays ==
  ASSUME TypeOK, Counting, [Next]_vars
  PROVE  Counting'
<1>1. ASSUME UNCHANGED throttle,
             \A b \in Browsers : flow'[b] = flow[b] \/ flow'[b].stage # "hashing"
      PROVE  Counting'
  <2>1. \A s \in Subjects : Waiting(s)' \subseteq Waiting(s)
    BY <1>1 DEF Waiting
  <2> QED
    BY <1>1, <2>1, CountKept DEF Counting, throttle
<1>2. ASSUME NEW b \in Browsers, SignIn(b) PROVE Counting'
  <2>1. PICK name \in Names, net \in Nets :
          /\ ~Locked(name) /\ ~Locked(net)
          /\ flow'[b].name = name /\ flow'[b].net = net
          /\ \A o \in Browsers : o # b => flow'[o] = flow[o]
    BY <1>2 DEF SignIn, TypeOK
  <2>2. \A s \in Subjects : Locked(s) => Waiting(s)' \subseteq Waiting(s)
    BY <2>1 DEF Waiting
  <2> QED
    BY <1>2, <2>2, CountKept DEF Counting, SignIn, throttle
<1>3. ASSUME NEW b \in Browsers, WrongPassword(b) PROVE Counting'
  <2> DEFINE mine == {flow[b].name, flow[b].net}
  <2>1. /\ flow'[b].stage = "idle" /\ \A o \in Browsers : o # b => flow'[o] = flow[o]
        /\ flow[b].stage = "hashing"
    BY <1>3, Parts DEF WrongPassword, TypeOK
  <2>2. \A s \in Subjects : Waiting(s)' \subseteq Waiting(s) /\ b \notin Waiting(s)'
    BY <2>1 DEF Waiting
  <2>3. ASSUME NEW s \in Subjects, s \in mine PROVE CountOf(s)'
    <3>1. b \in Waiting(s)
      BY <2>1, <2>3 DEF Waiting
    <3>2. tried'[s] = tried[s] + 1 /\ failures'[s] = Counted(s) /\ lock'[s] = LockAfter(s)
      BY <1>3, <2>3 DEF WrongPassword
    <3> QED
      BY <2>2, <3>1, <3>2, CountAdded DEF Counting
  <2>4. ASSUME NEW s \in Subjects, s \notin mine PROVE CountOf(s)'
    <3>1. \/ failures'[s] = failures[s] /\ tried'[s] = tried[s] /\ lock'[s] = lock[s]
          \/ failures'[s] = 0 /\ tried'[s] = 0 /\ lock'[s] = "none"
      BY <1>3, <2>4 DEF WrongPassword
    <3> QED
      BY <2>2, <3>1, CountKept DEF Counting
  <2> QED
    BY <2>3, <2>4 DEF Counting
<1>4. ASSUME NEW b \in Browsers, RightPassword(b) PROVE Counting'
  <2>1. /\ flow'[b].stage = "opening" /\ \A o \in Browsers : o # b => flow'[o] = flow[o]
    BY <1>4 DEF RightPassword, Opening, TypeOK
  <2>2. \A s \in Subjects : Waiting(s)' \subseteq Waiting(s)
    BY <2>1 DEF Waiting
  <2>3. \A s \in Subjects :
          \/ failures'[s] = failures[s] /\ tried'[s] = tried[s] /\ lock'[s] = lock[s]
          \/ failures'[s] = 0 /\ tried'[s] = 0 /\ lock'[s] = "none"
    BY <1>4 DEF RightPassword, TypeOK
  <2> QED
    BY <2>2, <2>3, CountKept DEF Counting
<1>5. ASSUME NEW o \in Subjects, LockRunsOut(o) PROVE Counting'
  <2>1. \A s \in Subjects : Waiting(s)' = Waiting(s)
    BY <1>5 DEF LockRunsOut, Waiting
  <2>2. ASSUME NEW s \in Subjects, s # o PROVE CountOf(s)'
    BY <1>5, <2>1, <2>2, CountKept DEF LockRunsOut, TypeOK, Counting
  <2>3. CountOf(o)'
    BY <1>5 DEF LockRunsOut, CountOf, Locked, TypeOK
  <2> QED
    BY <2>2, <2>3 DEF Counting
<1>6. ASSUME NEW t \in Tokens, CreateInvite(t) \/ RevokeInvite(t) \/ ExpireInvite(t) PROVE Counting'
  BY <1>1, <1>6 DEF CreateInvite, RevokeInvite, ExpireInvite, throttle
<1>7. ASSUME NEW b \in Browsers, NEW t \in Tokens, Offer(b, t) PROVE Counting'
  <2>1. UNCHANGED throttle
    BY <1>7 DEF Offer, throttle
  <2>2. flow'[b].stage = "offer" /\ \A o \in Browsers : o # b => flow'[o] = flow[o]
    BY <1>7 DEF Offer, TypeOK
  <2> QED
    BY <1>1, <2>1, <2>2
<1>8. ASSUME NEW id \in Accounts,
             Activate(id) \/ Deactivate(id) \/ Promote(id) \/ Demote(id) PROVE Counting'
  BY <1>1, <1>8 DEF Activate, Deactivate, Promote, Demote, throttle
<1>9. ASSUME NEW b \in Browsers, Accept(b) \/ OpenSession(b) \/ Abort(b) PROVE Counting'
  <2>1. UNCHANGED throttle
    BY <1>9 DEF Accept, OpenSession, Abort, throttle
  <2>2. flow'[b].stage = "idle" /\ \A o \in Browsers : o # b => flow'[o] = flow[o]
    BY <1>9, Parts DEF Accept, OpenSession, Abort, TypeOK
  <2> QED
    BY <1>1, <2>1, <2>2
<1>10. ASSUME NEW b \in Browsers, Authelia(b) PROVE Counting'
  <2>1. UNCHANGED throttle
    BY <1>10 DEF Authelia, throttle
  <2>2. PICK handle \in Names, mail \in Mails \cup {None}, key \in Mails \cup {None},
             groups \in SUBSET {"admins"} :
          \/ Recognise(b, handle, mail, groups)
          \/ Merge(b, handle, key, groups)
          \/ Mirror(b, handle, mail, key, groups)
    BY <1>10 DEF Authelia
  <2>3. PICK id \in Ids \cup Accounts : Opening(b, id, handle)
    BY <2>2 DEF Recognise, Merge, Mirror
  <2>4. flow'[b].stage = "opening" /\ \A o \in Browsers : o # b => flow'[o] = flow[o]
    BY <2>3 DEF Opening, TypeOK
  <2> QED
    BY <1>1, <2>1, <2>4
<1>11. CASE CreatePrincipal \/ EndSession \/ Finished \/ UNCHANGED vars
  BY <1>1, <1>11 DEF CreatePrincipal, EndSession, Finished, vars, throttle
<1> QED
  BY <1>2, <1>3, <1>4, <1>5, <1>6, <1>7, <1>8, <1>9, <1>10, <1>11 DEF Next

\* Between two lockouts nobody gets more wrong passwords in than the limit and one for every other
\* browser that was let in before, and nobody is locked out early (login_locked,
\* record_login_failure): for any limit and any number of browsers.
THEOREM TheThrottleHolds == Spec => []BudgetHolds
<1>1. Init => Counting
  BY LimitAssumption DEF Init, Counting, CountOf, Locked
<1>2. TypeOK /\ Counting /\ [Next]_vars => Counting'
  BY CountingStays
<1>3. TypeOK /\ Counting => BudgetHolds
  <2> SUFFICES ASSUME TypeOK, Counting, NEW s \in Subjects
               PROVE  /\ tried[s] <= Limit + Cardinality(Browsers) - 1
                      /\ Locked(s) => tried[s] >= Limit
    BY DEF BudgetHolds
  <2>1. Waiting(s) \subseteq Browsers
    BY DEF Waiting
  <2>2. Cardinality(Waiting(s)) \in Nat /\ Cardinality(Browsers) \in Nat
    BY <2>1, Fewer, BrowsersAssumption
  <2>3. Cardinality(Browsers) >= 1
    BY Fewer, FS_EmptySet, BrowsersAssumption
  <2>4. tried[s] \in Nat /\ Limit \in Nat \ {0} /\ lock[s] \in {"none", "locked", "over"}
    BY LimitAssumption DEF TypeOK
  <2>5. CountOf(s)
    BY DEF Counting
  <2>6. CASE lock[s] = "locked"
    BY <2>2, <2>4, <2>5, <2>6 DEF CountOf, Locked
  <2>7. CASE lock[s] # "locked"
    BY <2>3, <2>2, <2>4, <2>5, <2>7 DEF CountOf, Locked
  <2> QED
    BY <2>4, <2>6, <2>7
<1> QED
  BY <1>1, <1>2, <1>3, TypeCorrect, PTL DEF Spec

-----------------------------------------------------------------------------
(* Addresses *)

\* Only id's address is new, and seconds is told of it.
LEMMA AddressTold ==
  ASSUME LinksShareNoAddress, NEW id, NEW mail,
         Accounts \subseteq DOMAIN account', DOMAIN account' \subseteq Accounts \cup {id},
         \A a \in Accounts : a # id => account'[a].mail = account[a].mail,
         account'[id].mail = mail, Address(id, mail)
  PROVE  LinksShareNoAddress'
  BY DEF LinksShareNoAddress, Address, Carrying, Accounts

\* Addresses and what is remembered of them stay.
LEMMA AddressesStay ==
  ASSUME LinksShareNoAddress, DOMAIN account' = Accounts, seconds' = seconds,
         \A a \in Accounts : account'[a].mail = account[a].mail
  PROVE  LinksShareNoAddress'
  BY DEF LinksShareNoAddress, Accounts

\* Of two accounts with one address one was given it while the other had it, never by a link
\* (accept_invite_audited asks again inside its transaction).
THEOREM LinksNeverShare == Spec => []LinksShareNoAddress
<1>1. Init => LinksShareNoAddress
  BY DEF Init, LinksShareNoAddress, Accounts
<1>2. ASSUME TypeOK, LinksShareNoAddress, [Next]_vars PROVE LinksShareNoAddress'
  <2>1. ASSUME account' = account, seconds' = seconds PROVE LinksShareNoAddress'
    BY <1>2, <2>1 DEF LinksShareNoAddress, Accounts
  <2>2. ASSUME NEW t \in Tokens, CreateInvite(t) \/ RevokeInvite(t) \/ ExpireInvite(t)
        PROVE  LinksShareNoAddress'
    BY <2>1, <2>2 DEF CreateInvite, RevokeInvite, ExpireInvite, people
  <2>3. ASSUME NEW b \in Browsers, NEW t \in Tokens, Offer(b, t) PROVE LinksShareNoAddress'
    BY <2>1, <2>3 DEF Offer, people
  <2>4. CASE CreatePrincipal
    <3>1. PICK id \in Ids \ Accounts, name \in Names, mail \in Mails \cup {None} :
            /\ Insert(id, [name |-> name, handle |-> None, mail |-> mail, mirrored |-> FALSE,
                           groups |-> {}, active |-> TRUE, link |-> None])
            /\ Address(id, mail)
      BY <2>4 DEF CreatePrincipal
    <3> DEFINE row == [name |-> name, handle |-> None, mail |-> mail, mirrored |-> FALSE,
                       groups |-> {}, active |-> TRUE, link |-> None]
    <3>2. row \in Rows /\ row.mail = mail /\ Insert(id, row)
      BY <3>1, Parts
    <3> HIDE DEF row
    <3>3. /\ DOMAIN account' = Accounts \cup {id} /\ account'[id].mail = mail
          /\ \A a \in Accounts : account'[a] = account[a]
      BY <1>2, <3>2, RowsTyped
    <3> QED
      BY <1>2, <3>1, <3>3, AddressTold
  <2>5. ASSUME NEW id \in Accounts, Activate(id) \/ Deactivate(id) PROVE LinksShareNoAddress'
    <3>1. /\ DOMAIN account' = Accounts /\ seconds' = seconds
          /\ \A a \in Accounts : account'[a].mail = account[a].mail
      BY <1>2, <2>5 DEF Activate, Deactivate, TypeOK, Rows, Accounts
    <3> QED
      BY <1>2, <3>1, AddressesStay
  <2>6. ASSUME NEW id \in Accounts, Promote(id) \/ Demote(id) PROVE LinksShareNoAddress'
    BY <2>1, <2>6 DEF Promote, Demote
  <2>7. ASSUME NEW b \in Browsers, Accept(b) PROVE LinksShareNoAddress'
    <3> DEFINE t == flow[b].token
               row == [name |-> invite[t].name, handle |-> None, mail |-> invite[t].mail,
                       mirrored |-> FALSE, groups |-> {}, active |-> TRUE, link |-> t]
    <3>1. t \in Tokens /\ invite[t].state = "pending"
      BY <1>2, <2>7, Stages DEF Accept
    <3>2. row \in Rows /\ row.mail = invite[t].mail /\ invite[t].mail # None
      BY <1>2, <3>1, LinkFields, Parts, SubjectsAssumption
    <3>3. PICK id \in Ids \ Accounts : Insert(id, row)
      BY <2>7 DEF Accept
    <3>4. Carrying(invite[t].mail) = {} /\ seconds' = seconds
      BY <2>7 DEF Accept
    <3> HIDE DEF row
    <3>5. /\ DOMAIN account' = Accounts \cup {id} /\ account'[id].mail = invite[t].mail
          /\ \A a \in Accounts : account'[a] = account[a]
      BY <1>2, <3>2, <3>3, RowsTyped
    <3>6. \A a \in Accounts : account[a].mail # invite[t].mail
      BY <3>2, <3>4 DEF Carrying
    <3> QED
      BY <1>2, <3>4, <3>5, <3>6 DEF LinksShareNoAddress, Accounts
  <2>8. ASSUME NEW b \in Browsers, Authelia(b) PROVE LinksShareNoAddress'
    <3>1. PICK handle \in Names, mail \in Mails \cup {None}, key \in Mails \cup {None},
               groups \in SUBSET {"admins"} :
            \/ Recognise(b, handle, mail, groups)
            \/ Merge(b, handle, key, groups)
            \/ Mirror(b, handle, mail, key, groups)
      BY <2>8 DEF Authelia
    <3>2. CASE Recognise(b, handle, mail, groups)
      <4>1. PICK id \in Accounts :
              /\ account' = [account EXCEPT ![id].groups = groups,
                                            ![id].mail = IF account[id].mirrored THEN mail ELSE @]
              /\ IF account[id].mirrored THEN Address(id, mail) ELSE UNCHANGED seconds
        BY <3>2 DEF Recognise
      <4>2. /\ DOMAIN account' = Accounts
            /\ account'[id].mail = IF account[id].mirrored THEN mail ELSE account[id].mail
            /\ \A a \in Accounts : a # id => account'[a] = account[a]
        BY <1>2, <4>1 DEF TypeOK, Rows, Accounts
      <4>3. CASE account[id].mirrored
        BY <1>2, <4>1, <4>2, <4>3, AddressTold
      <4>4. CASE ~account[id].mirrored
        BY <1>2, <4>1, <4>2, <4>4, AddressesStay
      <4> QED
        BY <4>3, <4>4
    <3>3. CASE Merge(b, handle, key, groups)
      <4>1. /\ DOMAIN account' = Accounts /\ seconds' = seconds
            /\ \A a \in Accounts : account'[a].mail = account[a].mail
        BY <1>2, <3>3 DEF Merge, TypeOK, Rows, Accounts
      <4> QED
        BY <1>2, <4>1, AddressesStay
    <3>4. CASE Mirror(b, handle, mail, key, groups)
      <4> DEFINE row == [name |-> handle, handle |-> handle, mail |-> mail, mirrored |-> TRUE,
                         groups |-> groups, active |-> TRUE, link |-> None]
      <4>1. PICK id \in Ids \ Accounts : Insert(id, row) /\ Address(id, mail)
        BY <3>4 DEF Mirror
      <4>2. row \in Rows /\ row.mail = mail
        BY Parts
      <4> HIDE DEF row
      <4>3. /\ DOMAIN account' = Accounts \cup {id} /\ account'[id].mail = mail
            /\ \A a \in Accounts : account'[a] = account[a]
        BY <1>2, <4>1, <4>2, RowsTyped
      <4> QED
        BY <1>2, <4>1, <4>3, AddressTold
    <3> QED
      BY <3>1, <3>2, <3>3, <3>4
  <2>9. ASSUME NEW b \in Browsers,
               SignIn(b) \/ WrongPassword(b) \/ RightPassword(b) \/ OpenSession(b) \/ Abort(b)
        PROVE  LinksShareNoAddress'
    BY <2>1, <2>9 DEF SignIn, WrongPassword, RightPassword, OpenSession, Abort, people
  <2>10. CASE EndSession \/ Finished \/ UNCHANGED vars \/ \E s \in Subjects : LockRunsOut(s)
    BY <2>1, <2>10 DEF EndSession, Finished, LockRunsOut, people, vars
  <2> QED
    BY <1>2, <2>2, <2>3, <2>4, <2>5, <2>6, <2>7, <2>8, <2>9, <2>10 DEF Next
<1> QED
  BY <1>1, <1>2, TypeCorrect, PTL DEF Spec

=============================================================================
