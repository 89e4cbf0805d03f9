----------------------------- MODULE Identity -----------------------------
(***************************************************************************)
(* Who is who: accounts made by invitation, by an administrator or by      *)
(* Authelia and merged by a verified address; the ways to sign in and the  *)
(* sessions they open; the throttle on passwords; the floor of one         *)
(* administrator.  The code is invites.rs, principals.rs, sessions.rs,     *)
(* login_attempts.rs and admin.rs of gw-store and local.rs, oidc.rs and    *)
(* invite.rs of gw-api.                                                    *)
(*                                                                         *)
(* A transaction of the store is one step.  What a request does before and *)
(* after it is not: a sign-in checks the throttle and reads the account,   *)
(* hashes for a while, counts or clears, and opens the session last; an    *)
(* invitation is offered, the password is hashed, then it is redeemed; a   *)
(* sign-in through Authelia writes the account and then opens the session. *)
(* A request of an administrator has asked who calls at some earlier time, *)
(* when there was an administrator, so it is not asked again here.         *)
(*                                                                         *)
(* Time is what may run out at any moment.  Path and team that a link      *)
(* carries are left out (see AccessRule, PageTree), and so is a store that *)
(* fails to count: the code logs it and goes on.                           *)
(***************************************************************************)
EXTENDS AccessRule, FiniteSets

CONSTANTS
  Ids,          \* accounts
  Names,        \* usernames, and handles at Authelia
  Mails,        \* addresses as canonical_email gives them
  Tokens,       \* links
  Browsers,     \* browsers, one request at a time each
  Nets,         \* client addresses
  Limit,        \* LOGIN_FAILURE_LIMIT
  MaxRequests,  \* how many requests there are (a bound of the model)
  First,        \* the accounts there are at first: [ids -> rows]
  FirstPromoted,
  None

ASSUME LimitAssumption == Limit \in Nat \ {0} /\ MaxRequests \in Nat
ASSUME BrowsersAssumption == IsFiniteSet(Browsers) /\ Browsers # {}
ASSUME SubjectsAssumption == Names \cap Nets = {} /\ None \notin Ids \cup Names \cup Mails \cup Tokens

VARIABLES
  account,   \* principals: [the ids that exist -> a row]
  promoted,  \* instance_admins
  invite,    \* [Tokens -> state, username and address of the link]
  session,   \* sessions that have not expired; late: opened while the account was not active
  flow,      \* [Browsers -> the request it has under way]
  failures,  \* login_attempts.failures by subject, 0 without a row
  lock,      \* login_attempts.locked_until by subject: none, locked, or over
  tried,     \* wrong passwords since the subject's count last began
  seconds,   \* accounts that were given an address which another carried already
  left       \* how many requests may still come

vars == <<account, promoted, invite, session, flow, failures, lock, tried, seconds, left>>

people   == <<account, promoted, seconds>>
throttle == <<failures, lock, tried>>

Subjects == Names \cup Nets

Rows     == [name : Names, handle : Names \cup {None}, mail : Mails \cup {None},
             mirrored : BOOLEAN, groups : SUBSET {"admins"}, active : BOOLEAN,
             link : Tokens \cup {None}]
Unused   == [state |-> "unused"]
Links    == [state : {"pending", "accepted", "revoked", "expired"}, name : Names, mail : Mails]
Sessions == [id : Ids, as : Names \cup {None}, late : BOOLEAN]

ASSUME FirstAssumption ==
  /\ DOMAIN First \subseteq Ids /\ \A id \in DOMAIN First : First[id] \in Rows
  /\ \A a, b \in DOMAIN First :   \* principals_oidc_username
       First[a].handle # None /\ First[a].handle = First[b].handle => a = b
  /\ FirstPromoted \subseteq DOMAIN First

Idle     == [stage |-> "idle"]
Offers   == [stage : {"offer"}, token : Tokens]
Guesses  == [stage : {"hashing"}, name : Names, net : Nets, found : Ids \cup {None}]
Openings == [stage : {"opening"}, id : Ids, as : Names \cup {None}]

Accounts == DOMAIN account

\* A mirrored account has no password; found is one that has, and was active when it was read.
Named(name)   == {id \in Accounts : account[id].name = name}
Carrying(mail) == {id \in Accounts : mail # None /\ account[id].mail = mail}

\* active_instance_admins
AdministratorsIn(rows, marks) ==
  {id \in DOMAIN rows :
     /\ rows[id].active
     /\ BaselineOn(id, rows[id].groups, marks, [admins |-> "admin"]) = "admin"}

Administrators == AdministratorsIn(account, promoted)

TypeOK ==
  /\ Accounts \subseteq Ids /\ \A id \in Accounts : account[id] \in Rows
  /\ promoted \subseteq Accounts
  /\ invite \in [Tokens -> {Unused} \cup Links]
  /\ session \subseteq Sessions /\ \A s \in session : s.id \in Accounts
  /\ flow \in [Browsers -> {Idle} \cup Offers \cup Guesses \cup Openings]
  /\ failures \in [Subjects -> Nat] /\ tried \in [Subjects -> Nat]
  /\ lock \in [Subjects -> {"none", "locked", "over"}]
  /\ seconds \subseteq Ids
  /\ left \in 0..MaxRequests

Init ==
  /\ account = First /\ promoted = FirstPromoted
  /\ invite = [t \in Tokens |-> Unused]
  /\ session = {}
  /\ flow = [b \in Browsers |-> Idle]
  /\ failures = [s \in Subjects |-> 0] /\ tried = [s \in Subjects |-> 0]
  /\ lock = [s \in Subjects |-> "none"]
  /\ seconds = {id \in DOMAIN First : \E other \in DOMAIN First \ {id} :
                 First[other].mail # None /\ First[other].mail = First[id].mail}
  /\ left = MaxRequests

Request == left > 0 /\ left' = left - 1

\* A new row; seconds remembers an address that was somebody's already.
Insert(id, row) ==
  account' = [other \in Accounts \cup {id} |-> IF other = id THEN row ELSE account[other]]

\* id is given the address by somebody who did not ask whether it is free.
Address(id, mail) ==
  seconds' = IF Carrying(mail) \ {id} # {} THEN seconds \cup {id} ELSE seconds \ {id}

-----------------------------------------------------------------------------
(* Invitations *)

CreateInvite(t) ==
  /\ Request
  /\ invite[t] = Unused
  /\ \E name \in Names, mail \in Mails :
       /\ Named(name) = {}
       /\ Carrying(mail) = {}
       /\ ~ \E o \in Tokens : invite[o].state = "pending" /\ invite[o].mail = mail
       /\ invite' = [invite EXCEPT ![t] = [state |-> "pending", name |-> name, mail |-> mail]]
  /\ UNCHANGED <<people, session, flow, throttle>>

RevokeInvite(t) ==
  /\ Request
  /\ invite[t].state = "pending"
  /\ invite' = [invite EXCEPT ![t].state = "revoked"]
  /\ UNCHANGED <<people, session, flow, throttle>>

ExpireInvite(t) ==
  /\ invite[t].state = "pending"
  /\ invite' = [invite EXCEPT ![t].state = "expired"]
  /\ UNCHANGED <<people, session, flow, throttle, left>>

\* invite_offer said yes; the password goes through the policy and is hashed.
Offer(b, t) ==
  /\ Request
  /\ flow[b] = Idle
  /\ invite[t].state = "pending"
  /\ flow' = [flow EXCEPT ![b] = [stage |-> "offer", token |-> t]]
  /\ UNCHANGED <<people, invite, session, throttle>>

\* Mutant of Accept: the offer is believed.
AcceptOffered(b) ==
  /\ flow[b].stage = "offer"
  /\ LET t == flow[b].token
         i == invite[t]
     IN /\ Named(i.name) = {}
        /\ Carrying(i.mail) = {}
        /\ \E id \in Ids \ Accounts :
             /\ Insert(id, [name |-> i.name, handle |-> None, mail |-> i.mail, mirrored |-> FALSE,
                            groups |-> {}, active |-> TRUE, link |-> t])
             /\ session' = session \cup {[id |-> id, as |-> None, late |-> FALSE]}
        /\ invite' = [invite EXCEPT ![t].state = "accepted"]
  /\ flow' = [flow EXCEPT ![b] = Idle]
  /\ UNCHANGED <<promoted, seconds, throttle, left>>

\* Mutant of Accept: the address was free when the link was made.
AcceptAnyAddress(b) ==
  /\ flow[b].stage = "offer"
  /\ LET t == flow[b].token
         i == invite[t]
     IN /\ i.state = "pending"
        /\ Named(i.name) = {}
        /\ \E id \in Ids \ Accounts :
             /\ Insert(id, [name |-> i.name, handle |-> None, mail |-> i.mail, mirrored |-> FALSE,
                            groups |-> {}, active |-> TRUE, link |-> t])
             /\ session' = session \cup {[id |-> id, as |-> None, late |-> FALSE]}
        /\ invite' = [invite EXCEPT ![t].state = "accepted"]
  /\ flow' = [flow EXCEPT ![b] = Idle]
  /\ UNCHANGED <<promoted, seconds, throttle, left>>

\* The transaction of accept_invite_audited: consume, ask again for name and address, create the
\* account, open the session.  A refusal rolls all of it back: see Abort.
Accept(b) ==
  /\ flow[b].stage = "offer"
  /\ LET t == flow[b].token
         i == invite[t]
     IN /\ i.state = "pending"
        /\ Named(i.name) = {}
        /\ Carrying(i.mail) = {}
        /\ \E id \in Ids \ Accounts :
             /\ Insert(id, [name |-> i.name, handle |-> None, mail |-> i.mail, mirrored |-> FALSE,
                            groups |-> {}, active |-> TRUE, link |-> t])
             /\ session' = session \cup {[id |-> id, as |-> None, late |-> FALSE]}
        /\ invite' = [invite EXCEPT ![t].state = "accepted"]
  /\ flow' = [flow EXCEPT ![b] = Idle]
  /\ UNCHANGED <<promoted, seconds, throttle, left>>

-----------------------------------------------------------------------------
(* Administration *)

\* Whether the name is free is asked, and guaranteed by the constraint; the address is not asked for.
CreatePrincipal ==
  /\ Request
  /\ \E id \in Ids \ Accounts, name \in Names, mail \in Mails \cup {None} :
       /\ Named(name) = {}
       /\ Insert(id, [name |-> name, handle |-> None, mail |-> mail, mirrored |-> FALSE,
                      groups |-> {}, active |-> TRUE, link |-> None])
       /\ Address(id, mail)
  /\ UNCHANGED <<promoted, invite, session, flow, throttle>>

Activate(id) ==
  /\ Request
  /\ account' = [account EXCEPT ![id].active = TRUE]
  /\ UNCHANGED <<promoted, invite, session, flow, throttle, seconds>>

\* Mutant of Deactivate: the sessions stay.
DeactivateFlagOnly(id) ==
  /\ Request
  /\ account' = [account EXCEPT ![id].active = FALSE]
  /\ AdministratorsIn(account', promoted) # {}
  /\ UNCHANGED <<promoted, invite, session, flow, throttle, seconds>>

\* Mutant of Deactivate: a promotion holds the floor open, of whomever.
DeactivateWhilePromoted(id) ==
  /\ Request
  /\ account' = [account EXCEPT ![id].active = FALSE]
  /\ session' = {s \in session : s.id # id}
  /\ promoted # {}
  /\ UNCHANGED <<promoted, invite, flow, throttle, seconds>>

\* The flag, the sessions, and somebody left to administer: one transaction.
Deactivate(id) ==
  /\ Request
  /\ account' = [account EXCEPT ![id].active = FALSE]
  /\ session' = {s \in session : s.id # id}
  /\ AdministratorsIn(account', promoted) # {}
  /\ UNCHANGED <<promoted, invite, flow, throttle, seconds>>

Promote(id) ==
  /\ Request
  /\ id \notin promoted
  /\ promoted' = promoted \cup {id}
  /\ UNCHANGED <<account, invite, session, flow, throttle, seconds>>

Demote(id) ==
  /\ Request
  /\ id \in promoted
  /\ promoted' = promoted \ {id}
  /\ AdministratorsIn(account, promoted') # {}
  /\ UNCHANGED <<account, invite, session, flow, throttle, seconds>>

-----------------------------------------------------------------------------
(* Authelia *)

Opening(b, id, as) == flow' = [flow EXCEPT ![b] = [stage |-> "opening", id |-> id, as |-> as]]

\* Accounts a verified address may be merged onto.
Candidates(key) == {id \in Carrying(key) : account[id].handle = None /\ account[id].active}

\* 1. Known by this handle: groups are replaced, the address too when nobody else is its source.
Recognise(b, handle, mail, groups) ==
  \E id \in Accounts :
    /\ account[id].handle = handle
    /\ account' = [account EXCEPT ![id].groups = groups,
                                  ![id].mail = IF account[id].mirrored THEN mail ELSE @]
    /\ IF account[id].mirrored THEN Address(id, mail) ELSE UNCHANGED seconds
    /\ Opening(b, id, handle)

Known(handle) == \E id \in Accounts : account[id].handle = handle

\* 2. Exactly one live account that no handle reaches carries the verified address.
Merge(b, handle, key, groups) ==
  /\ ~Known(handle)
  /\ \E id \in Ids :
       /\ Candidates(key) = {id}
       /\ account' = [account EXCEPT ![id].handle = handle, ![id].groups = groups]
       /\ Opening(b, id, handle)
  /\ UNCHANGED seconds

\* Mutant of Mirror: ON CONFLICT (username) DO UPDATE.
TakeOver(b, handle, mail, key, groups) ==
  /\ ~Known(handle)
  /\ Candidates(key) = {}
  /\ \E id \in IF Named(handle) = {} THEN Ids \ Accounts ELSE Named(handle) :
       /\ Insert(id, [name |-> handle, handle |-> handle, mail |-> mail, mirrored |-> TRUE,
                      groups |-> groups, active |-> TRUE, link |-> None])
       /\ Address(id, mail)
       /\ Opening(b, id, handle)

\* 4. Nobody carries it (two: refused), and (5.) the handle is nobody's username.
Mirror(b, handle, mail, key, groups) ==
  /\ ~Known(handle)
  /\ Candidates(key) = {}
  /\ Named(handle) = {}
  /\ \E id \in Ids \ Accounts :
       /\ Insert(id, [name |-> handle, handle |-> handle, mail |-> mail, mirrored |-> TRUE,
                      groups |-> groups, active |-> TRUE, link |-> None])
       /\ Address(id, mail)
       /\ Opening(b, id, handle)

\* upsert_oidc_identity; whether the account is active is not asked.
Authelia(b) ==
  /\ Request
  /\ flow[b] = Idle
  /\ \E handle \in Names, mail \in Mails \cup {None}, verified \in BOOLEAN,
        groups \in SUBSET {"admins"} :
       LET key == IF verified THEN mail ELSE None
       IN \/ Recognise(b, handle, mail, groups)
          \/ Merge(b, handle, key, groups)
          \/ Mirror(b, handle, mail, key, groups)
  /\ UNCHANGED <<promoted, invite, session, throttle>>

-----------------------------------------------------------------------------
(* Passwords *)

Locked(s) == lock[s] = "locked"

\* The throttle, then the account; then the hash is computed, whatever was found.
SignIn(b) ==
  /\ Request
  /\ flow[b] = Idle
  /\ \E name \in Names, net \in Nets :
       /\ ~Locked(name) /\ ~Locked(net)
       /\ LET able == {id \in Named(name) : account[id].active /\ ~account[id].mirrored}
          IN \E found \in IF able = {} THEN {None} ELSE able :
               flow' = [flow EXCEPT ![b] =
                          [stage |-> "hashing", name |-> name, net |-> net, found |-> found]]
  /\ UNCHANGED <<people, invite, session, throttle>>

\* Mutant of Counted: a lockout that has run out goes on counting.
CountedOn(s) == failures[s] + 1

\* One subject's row after a failure: a lockout that has run out begins the count again.
Counted(s)   == IF lock[s] = "over" THEN 1 ELSE failures[s] + 1
LockAfter(s) ==
  IF Counted(s) >= Limit /\ lock[s] # "locked" THEN "locked"
  ELSE IF lock[s] = "over" THEN "none" ELSE lock[s]

\* A wrong password is counted for name and address; rows a day old that are not locked go.
WrongPassword(b) ==
  /\ flow[b].stage = "hashing"
  /\ LET mine == {flow[b].name, flow[b].net}
     IN \E gone \in SUBSET {s \in Subjects \ mine : ~Locked(s) /\ (failures[s] > 0)} :
          /\ failures' = [s \in Subjects |-> IF s \in mine THEN Counted(s)
                                             ELSE IF s \in gone THEN 0 ELSE failures[s]]
          /\ lock' = [s \in Subjects |-> IF s \in mine THEN LockAfter(s)
                                         ELSE IF s \in gone THEN "none" ELSE lock[s]]
          /\ tried' = [s \in Subjects |-> IF s \in mine THEN tried[s] + 1
                                          ELSE IF s \in gone THEN 0 ELSE tried[s]]
  /\ flow' = [flow EXCEPT ![b] = Idle]
  /\ UNCHANGED <<people, invite, session, left>>

\* Mutant of RightPassword: an account without a password is verified by the placeholder.
RightPlaceholder(b) ==
  /\ flow[b].stage = "hashing"
  /\ Opening(b, flow[b].found, None)
  /\ UNCHANGED <<people, invite, session, throttle, left>>

\* The right one clears the count of the name, and only that.
RightPassword(b) ==
  /\ flow[b].stage = "hashing"
  /\ flow[b].found # None
  /\ failures' = [failures EXCEPT ![flow[b].name] = 0]
  /\ lock' = [lock EXCEPT ![flow[b].name] = "none"]
  /\ tried' = [tried EXCEPT ![flow[b].name] = 0]
  /\ Opening(b, flow[b].found, None)
  /\ UNCHANGED <<people, invite, session, left>>

LockRunsOut(s) ==
  /\ Locked(s)
  /\ lock' = [lock EXCEPT ![s] = "over"]
  /\ tried' = [tried EXCEPT ![s] = 0]
  /\ UNCHANGED <<people, invite, session, flow, failures, left>>

-----------------------------------------------------------------------------
(* Sessions *)

\* create_session: nothing is asked of the account again.
OpenSession(b) ==
  /\ flow[b].stage = "opening"
  /\ session' = session \cup {[id |-> flow[b].id, as |-> flow[b].as,
                               late |-> ~account[flow[b].id].active]}
  /\ flow' = [flow EXCEPT ![b] = Idle]
  /\ UNCHANGED <<people, invite, throttle, left>>

\* Signing out, or fourteen days.
EndSession ==
  /\ \E s \in session : session' = session \ {s}
  /\ UNCHANGED <<people, invite, flow, throttle, left>>

\* A refusal, a browser that hangs up, the end of the process.
Abort(b) ==
  /\ flow[b] # Idle
  /\ flow' = [flow EXCEPT ![b] = Idle]
  /\ UNCHANGED <<people, invite, session, throttle, left>>

-----------------------------------------------------------------------------
\* No request is left, none under way, nothing to run out.
Finished ==
  /\ left = 0 /\ session = {}
  /\ \A b \in Browsers : flow[b] = Idle
  /\ \A t \in Tokens : invite[t].state # "pending"
  /\ \A s \in Subjects : ~Locked(s)
  /\ UNCHANGED vars

Next ==
  \/ \E t \in Tokens : CreateInvite(t) \/ RevokeInvite(t) \/ ExpireInvite(t)
  \/ \E b \in Browsers, t \in Tokens : Offer(b, t)
  \/ CreatePrincipal
  \/ \E id \in Accounts : Activate(id) \/ Deactivate(id) \/ Promote(id) \/ Demote(id)
  \/ \E b \in Browsers :
       \/ Accept(b) \/ Authelia(b) \/ SignIn(b) \/ WrongPassword(b) \/ RightPassword(b)
       \/ OpenSession(b) \/ Abort(b)
  \/ \E s \in Subjects : LockRunsOut(s)
  \/ EndSession
  \/ Finished

Spec == Init /\ [][Next]_vars

-----------------------------------------------------------------------------
\* A session of an account that is not active was opened while it was not: by Authelia, or by a
\* password that was checked before.  Every session there was at the deactivation is gone.
IdleSessionsAreLate == \A s \in session : account[s.id].active \/ s.late

\* Nothing done here takes the last administrator away, not two administrators at once, not a
\* deactivation while another is suspended; only groups that Authelia no longer asserts do.
AdministratorsStay ==
  [][Administrators # {} /\ Administrators' = {}
       => \E id \in Accounts : account'[id].groups # account[id].groups]_vars

\* A link that was redeemed, withdrawn or has expired stays so and makes no account, however many
\* pages offered it while it was pending.
DeadLinksStayDead ==
  [][\A t \in Tokens : invite[t].state \in {"accepted", "revoked", "expired"} =>
       /\ invite'[t] = invite[t]
       /\ \A id \in DOMAIN account' \ Accounts : account'[id].link # t]_vars

\* Of two accounts with one address, which the merge refuses for both, one was given the address
\* while the other had it, by »Person anlegen« or by Authelia: redeeming a link never does it.
LinksShareNoAddress ==
  \A a, b \in Accounts :
    a # b /\ account[a].mail # None /\ account[a].mail = account[b].mail
      => a \in seconds \/ b \in seconds

\* Whoever came through Authelia is in the one account that their handle reaches, whatever
\* usernames and addresses are around, merged or mirrored.
AutheliaReachesItsOwn ==
  \A s \in session : s.as # None =>
    {id \in Accounts : account[id].handle = s.as} = {s.id}

\* Between two lockouts no name and no address gets more wrong passwords than the limit and one
\* for every other request that was let in before; and none is locked out before the limit.
BudgetHolds ==
  \A s \in Subjects :
    /\ tried[s] <= Limit + Cardinality(Browsers) - 1
    /\ Locked(s) => tried[s] >= Limit

=============================================================================
