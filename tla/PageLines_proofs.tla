-------------------------- MODULE PageLines_proofs --------------------------
(***************************************************************************)
(* Proofs about the lines of a page, its cards and its anchors, for any    *)
(* words, requests, files and bounds.  The invariant is TypeOK with        *)
(* BoardMatchesPage and NothingIsKept; RecognisedLinesKeepTheirIds follows.*)
(***************************************************************************)
EXTENDS PageLines, FiniteSetTheorems, FunctionTheorems, SequenceTheorems, TLAPS

Sound == TypeOK /\ BoardMatchesPage /\ NothingIsKept

-----------------------------------------------------------------------------
(* Sequences of lines, and choices *)

LEMMA Numbers ==
  /\ MaxLines \in Nat /\ MaxIds \in Nat /\ MaxCards \in Nat /\ MaxSteps \in Nat
  /\ NoId \notin Ids /\ 0 \notin Keys /\ 0 \notin Cards
  /\ 1..MaxLines \subseteq Ids /\ 1..MaxLines \subseteq Cards /\ 1..MaxLines \subseteq Keys
  BY BoundsAssumption DEF NoId, Ids, Keys, Cards

LEMMA SeqFacts ==
  ASSUME NEW S, NEW s, SeqOf(s, S)
  PROVE  /\ s \in Seq(S) /\ Len(s) \in 0..MaxLines
         /\ s \in [1..Len(s) -> S] /\ DOMAIN s = 1..Len(s)
<1>1. PICK n \in 0..MaxLines : s \in [1..n -> S]
  BY DEF SeqOf
<1>2. n \in Nat
  BY <1>1, Numbers
<1>3. s \in Seq(S)
  BY <1>1, <1>2, SeqDef
<1>4. Len(s) = n
  BY <1>1, <1>2
<1> QED
  BY <1>1, <1>3, <1>4

LEMMA SeqIsSeqOf ==
  ASSUME NEW S, NEW s \in Seq(S), Len(s) <= MaxLines
  PROVE  SeqOf(s, S)
  BY Numbers, LenProperties DEF SeqOf

LEMMA IntoFacts ==
  ASSUME NEW S, NEW s, SeqOf(s, S), Len(s) < MaxLines, NEW n \in 0..Len(s), NEW e \in S
  PROVE  /\ SeqOf(Into(s, n, e), S) /\ DOMAIN Into(s, n, e) = 1..Len(s) + 1
         /\ \A i \in 1..Len(s) + 1 :
              Into(s, n, e)[i] = IF i <= n THEN s[i] ELSE IF i = n + 1 THEN e ELSE s[i - 1]
<1> DEFINE before == SubSeq(s, 1, n)
           after  == SubSeq(s, n + 1, Len(s))
           one    == <<e>>
<1>1. s \in Seq(S) /\ Len(s) \in Nat /\ \A i \in 1..Len(s) : s[i] \in S
  BY Numbers, SeqFacts
<1>2. /\ before \in Seq(S) /\ Len(before) = n
      /\ \A i \in 1..n : before[i] = s[i]
  <2>1. \A i \in 1..n : s[i] \in S
    BY <1>1
  <2> QED
    BY <1>1, <2>1, SubSeqProperties
<1>3. /\ after \in Seq(S) /\ Len(after) = Len(s) - n
      /\ \A i \in 1..Len(s) - n : after[i] = s[n + i]
  <2>1. \A i \in n + 1..Len(s) : s[i] \in S
    BY <1>1
  <2>2. /\ after \in Seq(S)
        /\ Len(after) = IF n + 1 <= Len(s) THEN Len(s) - (n + 1) + 1 ELSE 0
        /\ \A i \in 1..Len(s) - (n + 1) + 1 : after[i] = s[n + 1 + i - 1]
    BY <1>1, <2>1, SubSeqProperties
  <2> QED
    BY <1>1, <2>2
<1>4. one \in Seq(S) /\ Len(one) = 1 /\ one[1] = e
  OBVIOUS
<1> HIDE DEF before, after, one
<1>5. /\ before \o one \in Seq(S) /\ Len(before \o one) = n + 1
      /\ \A i \in 1..n + 1 : (before \o one)[i] = IF i <= n THEN s[i] ELSE e
  <2>1. /\ before \o one \in Seq(S) /\ Len(before \o one) = Len(before) + Len(one)
        /\ \A i \in 1..Len(before) + Len(one) :
             (before \o one)[i] = IF i <= Len(before) THEN before[i] ELSE one[i - Len(before)]
    BY <1>2, <1>4, ConcatProperties
  <2> QED
    BY <1>2, <1>4, <2>1
<1>6. PICK front \in Seq(S) :
        /\ front = before \o one /\ Len(front) = n + 1
        /\ \A i \in 1..n + 1 : front[i] = IF i <= n THEN s[i] ELSE e
  BY <1>5
<1>7. PICK all \in Seq(S) :
        /\ all = front \o after /\ Len(all) = Len(front) + Len(after)
        /\ \A i \in 1..Len(front) + Len(after) :
             all[i] = IF i <= Len(front) THEN front[i] ELSE after[i - Len(front)]
  <2>1. after \in Seq(S)
    BY <1>3
  <2>2. /\ front \o after \in Seq(S) /\ Len(front \o after) = Len(front) + Len(after)
        /\ \A i \in 1..Len(front) + Len(after) :
             (front \o after)[i] = IF i <= Len(front) THEN front[i] ELSE after[i - Len(front)]
    BY <2>1, ConcatProperties
  <2> QED
    BY <2>2
<1>8. Into(s, n, e) = all
  BY <1>6, <1>7 DEF Into, before, one, after
<1>9. Len(all) = Len(s) + 1 /\ Len(front) + Len(after) = Len(s) + 1 /\ Len(front) = n + 1
  BY <1>1, <1>3, <1>6, <1>7
<1>10. ASSUME NEW i \in 1..Len(s) + 1
       PROVE  all[i] = IF i <= n THEN s[i] ELSE IF i = n + 1 THEN e ELSE s[i - 1]
  <2>1. i \in Int /\ n \in Int
    BY <1>1
  <2>2. CASE i <= n + 1
    <3>1. all[i] = front[i] /\ i \in 1..n + 1
      BY <1>1, <1>7, <1>9, <2>2
    <3> QED
      BY <1>6, <2>1, <2>2, <3>1
  <2>3. CASE i > n + 1
    <3>1. i - (n + 1) \in 1..Len(s) - n /\ n + (i - (n + 1)) = i - 1
      BY <1>1, <2>3
    <3>2. after[i - (n + 1)] = s[i - 1]
      BY <1>3, <3>1
    <3>3. all[i] = after[i - (n + 1)]
      BY <1>1, <1>7, <1>9, <2>3
    <3> QED
      BY <2>1, <2>3, <3>2, <3>3
  <2> QED
    BY <2>1, <2>2, <2>3
<1>11. Len(all) <= MaxLines
  BY <1>1, <1>9, Numbers
<1> QED
  BY <1>8, <1>9, <1>10, <1>11, SeqIsSeqOf, LenProperties

LEMMA WithoutFacts ==
  ASSUME NEW S, NEW s, SeqOf(s, S), NEW n \in DOMAIN s
  PROVE  /\ SeqOf(Without(s, n), S) /\ DOMAIN Without(s, n) = 1..Len(s) - 1
         /\ \A i \in 1..Len(s) - 1 : Without(s, n)[i] = IF i < n THEN s[i] ELSE s[i + 1]
<1> DEFINE before == SubSeq(s, 1, n - 1)
           after  == SubSeq(s, n + 1, Len(s))
<1>1. /\ s \in Seq(S) /\ Len(s) \in Nat /\ Len(s) <= MaxLines /\ n \in 1..Len(s)
      /\ \A i \in 1..Len(s) : s[i] \in S
  BY Numbers, SeqFacts
<1>2. /\ before \in Seq(S) /\ Len(before) = n - 1
      /\ \A i \in 1..n - 1 : before[i] = s[i]
  <2>1. \A i \in 1..n - 1 : s[i] \in S
    BY <1>1
  <2>2. /\ before \in Seq(S)
        /\ Len(before) = IF 1 <= n - 1 THEN n - 1 - 1 + 1 ELSE 0
        /\ \A i \in 1..n - 1 - 1 + 1 : before[i] = s[1 + i - 1]
    BY <1>1, <2>1, SubSeqProperties
  <2> QED
    BY <1>1, <2>2
<1>3. /\ after \in Seq(S) /\ Len(after) = Len(s) - n
      /\ \A i \in 1..Len(s) - n : after[i] = s[n + i]
  <2>1. \A i \in n + 1..Len(s) : s[i] \in S
    BY <1>1
  <2>2. /\ after \in Seq(S)
        /\ Len(after) = IF n + 1 <= Len(s) THEN Len(s) - (n + 1) + 1 ELSE 0
        /\ \A i \in 1..Len(s) - (n + 1) + 1 : after[i] = s[n + 1 + i - 1]
    BY <1>1, <2>1, SubSeqProperties
  <2> QED
    BY <1>1, <2>2
<1> HIDE DEF before, after
<1>4. /\ before \o after \in Seq(S) /\ Len(before \o after) = Len(before) + Len(after)
      /\ \A i \in 1..Len(before) + Len(after) :
           (before \o after)[i] = IF i <= Len(before) THEN before[i] ELSE after[i - Len(before)]
  BY <1>2, <1>3, ConcatProperties
<1>5. /\ before \o after \in Seq(S) /\ Len(before \o after) = Len(s) - 1
      /\ \A i \in 1..Len(s) - 1 : (before \o after)[i] = IF i < n THEN s[i] ELSE s[i + 1]
  <2>1. Len(before) + Len(after) = Len(s) - 1
    BY <1>1, <1>2, <1>3
  <2>2. ASSUME NEW i \in 1..Len(s) - 1, i < n
        PROVE  (before \o after)[i] = s[i]
    <3>1. i \in 1..Len(before) + Len(after)
      BY <2>1
    <3>2. Len(before) = n - 1 /\ i <= n - 1 /\ i \in 1..n - 1
      BY <1>1, <1>2, <2>2
    <3>3. (before \o after)[i] = IF i <= Len(before) THEN before[i] ELSE after[i - Len(before)]
      BY <1>4, <3>1
    <3>4. before[i] = s[i]
      BY <1>2, <3>2
    <3> QED
      BY <3>2, <3>3, <3>4
  <2>3. ASSUME NEW i \in 1..Len(s) - 1, ~(i < n)
        PROVE  (before \o after)[i] = s[i + 1]
    <3>1. i - (n - 1) \in 1..Len(s) - n /\ n + (i - (n - 1)) = i + 1
      BY <1>1, <2>3
    <3>2. after[i - (n - 1)] = s[i + 1]
      BY <1>3, <3>1
    <3>3. (before \o after)[i] = after[i - (n - 1)]
      <4>1. i \in 1..Len(before) + Len(after)
        BY <2>1
      <4>2. Len(before) = n - 1 /\ ~(i <= n - 1)
        BY <1>1, <1>2, <2>3
      <4>3. (before \o after)[i] = IF i <= Len(before) THEN before[i] ELSE after[i - Len(before)]
        BY <1>4, <4>1
      <4> QED
        BY <4>2, <4>3
    <3> QED
      BY <3>2, <3>3
  <2> QED
    BY <1>4, <2>1, <2>2, <2>3
<1>6. Without(s, n) = before \o after
  BY DEF Without, before, after
<1>7. /\ Without(s, n) \in Seq(S) /\ Len(Without(s, n)) = Len(s) - 1
      /\ \A i \in 1..Len(s) - 1 : Without(s, n)[i] = IF i < n THEN s[i] ELSE s[i + 1]
  BY <1>5, <1>6
<1>8. Len(Without(s, n)) <= MaxLines
  BY <1>1, <1>7, Numbers
<1> QED
  BY <1>7, <1>8, SeqIsSeqOf, LenProperties

\* There are as many new ids and cards as it takes, no two the same.
LEMMA FreshFacts ==
  ASSUME NEW S, NEW free, IsFiniteSet(S), IsFiniteSet(free),
         Cardinality(S) <= Cardinality(free)
  PROVE  /\ Fresh(S, free) \in [S -> free]
         /\ \A m, n \in S : m # n => Fresh(S, free)[m] # Fresh(S, free)[n]
<1>1. /\ Cardinality(S) \in Nat /\ Cardinality(free) \in Nat
      /\ ExistsBijection(1..Cardinality(S), S) /\ ExistsBijection(1..Cardinality(free), free)
  BY FS_CardinalityType
<1>2. ExistsInjection(S, 1..Cardinality(S))
  BY <1>1, Fun_ExistsBijEquiv
<1>3. ExistsInjection(1..Cardinality(S), 1..Cardinality(free))
  BY <1>1, Fun_NatInjLeq
<1>4. ExistsInjection(1..Cardinality(free), free)
  BY <1>1, Fun_ExistsBijEquiv
<1>5. ExistsInjection(S, free)
  BY <1>2, <1>3, <1>4, Fun_ExistsInjTransitive
<1>6. PICK f \in Injection(S, free) : TRUE
  BY <1>5 DEF ExistsInjection
<1>7. f \in [S -> free] /\ \A m, n \in S : m # n => f[m] # f[n]
  BY Fun_InjectionProperties
<1> QED
  BY <1>7 DEF Fresh

-----------------------------------------------------------------------------
(* What a publish writes *)

\* A body that a request holds.
Held(s) == SeqOf(s, Keyed(Keys \cup {0})) /\ IdsIn(s) \cap FreeIds = {}

LEMMA HeldByRequest ==
  ASSUME TypeOK, NEW w \in Taken
  PROVE  Held(flow[w].body)
<1>1. w \in Writers /\ flow[w].stage = "taken"
  BY DEF Taken
<1>2. SeqOf(flow[w].body, Keyed(Keys \cup {0}))
  <2>1. \/ flow[w] \in {Idle, [stage |-> "clear"]}
        \/ SeqOf(flow[w].body, Keyed(Keys \cup {0}))
    BY <1>1 DEF TypeOK, FlowOK, Request
  <2>2. flow[w] \notin {Idle, [stage |-> "clear"]}
    BY <1>1 DEF Idle
  <2> QED
    BY <2>1, <2>2
<1>3. IdsIn(flow[w].body) \cap FreeIds = {}
  BY DEF FreeIds
<1> QED
  BY <1>2, <1>3 DEF Held

LEMMA LinesFacts ==
  ASSUME NEW s, Held(s)
  PROVE  /\ DOMAIN s \subseteq Int /\ IsFiniteSet(DOMAIN s) /\ s = [n \in DOMAIN s |-> s[n]]
         /\ \A n \in DOMAIN s : /\ s[n] \in Keyed(Keys \cup {0})
                                /\ s[n].id \in Ids \cup {NoId} /\ s[n].says \in Says
         /\ TaskLines(s) \subseteq DOMAIN s /\ IsFiniteSet(TaskLines(s))
<1>1. s \in [1..Len(s) -> Keyed(Keys \cup {0})] /\ Len(s) \in Nat /\ DOMAIN s = 1..Len(s)
  BY SeqFacts, Numbers DEF Held
<1>2. IsFiniteSet(DOMAIN s)
  BY <1>1, FS_Interval
<1>3. TaskLines(s) \subseteq DOMAIN s
  BY DEF TaskLines
<1>4. IsFiniteSet(TaskLines(s))
  BY <1>2, <1>3, FS_Subset
<1> QED
  BY <1>1, <1>2, <1>3, <1>4 DEF Keyed

\* The body that is stored says what the body says, with ids and keys of the same kind.
LEMMA StampedLines ==
  ASSUME NEW s, Held(s), NEW claim
  PROVE  /\ DOMAIN Stamped(s, claim) = DOMAIN s
         /\ \A n \in DOMAIN s :
              /\ Stamped(s, claim)[n].says = s[n].says
              /\ Stamped(s, claim)[n].id =
                   IF n \in Minted(s, claim) THEN Fresh(Minted(s, claim), FreeIds)[n]
                   ELSE IF n \notin TaskLines(s) THEN s[n].id
                   ELSE IF claim[n] # 0 THEN cards[claim[n]].block
                   ELSE Carried(s, n)
         /\ TaskLines(Stamped(s, claim)) = TaskLines(s)
<1>1. \A n \in DOMAIN s : s[n] \in Keyed(Keys \cup {0})
  BY LinesFacts
<1>2. DOMAIN Stamped(s, claim) = DOMAIN s
  BY DEF Stamped
<1>3. ASSUME NEW n \in DOMAIN s
      PROVE  /\ Stamped(s, claim)[n].says = s[n].says
             /\ Stamped(s, claim)[n].id =
                   IF n \in Minted(s, claim) THEN Fresh(Minted(s, claim), FreeIds)[n]
                   ELSE IF n \notin TaskLines(s) THEN s[n].id
                   ELSE IF claim[n] # 0 THEN cards[claim[n]].block
                   ELSE Carried(s, n)
  BY <1>1 DEF Stamped, Keyed
<1>4. TaskLines(Stamped(s, claim)) = TaskLines(s)
  BY <1>2, <1>3 DEF TaskLines, IsTask
<1> QED
  BY <1>2, <1>3, <1>4

\* What a claim is, by the two passes.
LEMMA ClaimFacts ==
  ASSUME TypeOK, NEW s, Held(s), NEW claim \in ClaimsOf(s)
  PROVE  /\ claim \in [TaskLines(s) -> DOMAIN cards \cup {0}]
         /\ 0 \notin DOMAIN cards
         /\ \A n, m \in TaskLines(s) : n # m /\ claim[n] # 0 => claim[m] # claim[n]
         /\ \A n \in TaskLines(s) : Carried(s, n) # NoId =>
              IF claim[n] # 0 THEN cards[claim[n]].block = Carried(s, n)
              ELSE \A c \in DOMAIN cards : cards[c].block # Carried(s, n)
  BY Numbers DEF ClaimsOf, TypeOK, PageOK

\* The lines that get a new card.
Made(s, claim) == {n \in TaskLines(s) : claim[n] = 0}

\* Enough ids and cards are left for what a publish makes.
Enough(s, claim) ==
  /\ Cardinality(Minted(s, claim)) <= Cardinality(FreeIds)
  /\ Cardinality(Made(s, claim)) <= Cardinality(Cards \ DOMAIN cards)

LEMMA MintedIds ==
  ASSUME NEW s, Held(s), NEW claim, Enough(s, claim)
  PROVE  /\ Fresh(Minted(s, claim), FreeIds) \in [Minted(s, claim) -> FreeIds]
         /\ \A m, n \in Minted(s, claim) : m # n =>
              Fresh(Minted(s, claim), FreeIds)[m] # Fresh(Minted(s, claim), FreeIds)[n]
         /\ FreeIds \subseteq Ids /\ NoId \notin FreeIds
         /\ Minted(s, claim) \subseteq DOMAIN s
<1>1. Minted(s, claim) \subseteq DOMAIN s /\ IsFiniteSet(DOMAIN s)
  BY LinesFacts DEF Minted
<1>2. IsFiniteSet(Minted(s, claim))
  BY <1>1, FS_Subset
<1>3. IsFiniteSet(Ids)
  BY FS_Interval, Numbers DEF Ids
<1>4. FreeIds \subseteq Ids
  BY DEF FreeIds
<1>5. IsFiniteSet(FreeIds)
  BY <1>3, <1>4, FS_Subset
<1> QED
  BY <1>1, <1>2, <1>4, <1>5, FreshFacts, Numbers DEF Enough

LEMMA MadeCards ==
  ASSUME NEW s, Held(s), NEW claim, Enough(s, claim)
  PROVE  /\ Fresh(Made(s, claim), Cards \ DOMAIN cards) \in [Made(s, claim) -> Cards \ DOMAIN cards]
         /\ \A m, n \in Made(s, claim) : m # n =>
              Fresh(Made(s, claim), Cards \ DOMAIN cards)[m]
                # Fresh(Made(s, claim), Cards \ DOMAIN cards)[n]
<1>1. IsFiniteSet(TaskLines(s)) /\ Made(s, claim) \subseteq TaskLines(s)
  BY LinesFacts DEF Made
<1>2. IsFiniteSet(Made(s, claim))
  BY <1>1, FS_Subset
<1>3. IsFiniteSet(Cards)
  BY FS_Interval, Numbers DEF Cards
<1>4. IsFiniteSet(Cards \ DOMAIN cards)
  BY <1>3, FS_Subset
<1> QED
  BY <1>2, <1>4, FreshFacts DEF Enough

\* Where the id of a checklist line comes from: its card, itself, or nowhere.
LEMMA IdsOfTasks ==
  ASSUME TypeOK, NEW s, Held(s), NEW claim \in ClaimsOf(s), Enough(s, claim), NEW n \in TaskLines(s)
  PROVE  LET id == Stamped(s, claim)[n].id
         IN \/ /\ claim[n] \in DOMAIN cards /\ claim[n] # 0
               /\ id = cards[claim[n]].block /\ id \in Ids
            \/ /\ claim[n] = 0 /\ Carried(s, n) # NoId
               /\ id = s[n].id /\ id \in Ids /\ id = Carried(s, n)
               /\ \A c \in DOMAIN cards : cards[c].block # id
            \/ /\ claim[n] = 0 /\ n \in Minted(s, claim)
               /\ id = Fresh(Minted(s, claim), FreeIds)[n] /\ id \in FreeIds /\ id \in Ids
               /\ \A c \in DOMAIN cards : cards[c].block # id
<1> DEFINE id == Stamped(s, claim)[n].id
<1>1. n \in DOMAIN s /\ s[n].says \in Words /\ s[n].says # Heading /\ s[n].id \in Ids \cup {NoId}
  BY LinesFacts, SaysAssumption DEF TaskLines, IsTask, Tasks
<1>2. id = IF n \in Minted(s, claim) THEN Fresh(Minted(s, claim), FreeIds)[n]
           ELSE IF claim[n] # 0 THEN cards[claim[n]].block ELSE Carried(s, n)
  BY <1>1, StampedLines
<1>3. n \in Minted(s, claim) <=> claim[n] = 0 /\ Carried(s, n) = NoId
  BY <1>1 DEF Minted
<1>4. claim[n] \in DOMAIN cards \cup {0}
  BY ClaimFacts
<1>5. CASE claim[n] # 0
  BY <1>2, <1>3, <1>4, <1>5 DEF TypeOK, PageOK
<1>6. CASE claim[n] = 0 /\ Carried(s, n) # NoId
  <2>1. Carried(s, n) = s[n].id
    BY <1>6 DEF Carried
  <2>2. \A c \in DOMAIN cards : cards[c].block # Carried(s, n)
    BY <1>6, ClaimFacts
  <2> QED
    BY <1>1, <1>2, <1>3, <1>6, <2>1, <2>2
<1>7. CASE claim[n] = 0 /\ Carried(s, n) = NoId
  <2>1. id \in FreeIds /\ FreeIds \subseteq Ids
    BY <1>2, <1>3, <1>7, MintedIds
  <2>2. \A c \in DOMAIN cards : cards[c].block # id
    BY <2>1 DEF FreeIds
  <2> QED
    BY <1>2, <1>3, <1>7, <2>1, <2>2
<1> QED
  BY <1>5, <1>6, <1>7

\* No two checklist lines of what is stored are one.
LEMMA IdsOfTasksDiffer ==
  ASSUME TypeOK, BoardMatchesPage, NEW s, Held(s), NEW claim \in ClaimsOf(s), Enough(s, claim),
         NEW n \in TaskLines(s), NEW m \in TaskLines(s), n # m
  PROVE  Stamped(s, claim)[n].id # Stamped(s, claim)[m].id
<1> DEFINE Id(k)       == Stamped(s, claim)[k].id
           FromCard(k) == claim[k] \in DOMAIN cards /\ claim[k] # 0 /\ Id(k) = cards[claim[k]].block
           Own(k)      == /\ Carried(s, k) # NoId /\ Id(k) = s[k].id /\ Id(k) = Carried(s, k)
                          /\ \A c \in DOMAIN cards : cards[c].block # Id(k)
           New(k)      == /\ k \in Minted(s, claim) /\ Id(k) = Fresh(Minted(s, claim), FreeIds)[k]
                          /\ Id(k) \in FreeIds
                          /\ \A c \in DOMAIN cards : cards[c].block # Id(k)
<1>1. ASSUME NEW k \in TaskLines(s)
      PROVE  (FromCard(k) \/ Own(k) \/ New(k)) /\ Id(k) \in Ids /\ k \in DOMAIN s
  BY IdsOfTasks, LinesFacts
<1> HIDE DEF Id
<1>2. ASSUME NEW k \in TaskLines(s), NEW l \in TaskLines(s), k # l, FromCard(k)
      PROVE  Id(k) # Id(l)
  <2>1. CASE FromCard(l)
    <3>1. claim[k] # claim[l]
      BY <1>2, ClaimFacts
    <3> QED
      BY <1>2, <2>1, <3>1 DEF BoardMatchesPage
  <2>2. CASE Own(l) \/ New(l)
    BY <1>2, <2>2
  <2> QED
    BY <1>1, <2>1, <2>2
<1>3. ASSUME NEW k \in TaskLines(s), NEW l \in TaskLines(s), k # l, Own(k), Own(l)
      PROVE  Id(k) # Id(l)
  <2>1. k \in Int /\ l \in Int
    BY <1>1, LinesFacts
  <2>2. ASSUME NEW i \in TaskLines(s), NEW j \in TaskLines(s), i < j, s[i].id = s[j].id
        PROVE  Carried(s, j) = NoId
    BY <2>2 DEF Carried
  <2>3. ASSUME s[k].id = s[l].id PROVE FALSE
    <3>1. CASE k < l
      BY <1>3, <2>2, <2>3, <3>1
    <3>2. CASE l < k
      BY <1>3, <2>2, <2>3, <3>2
    <3> QED
      BY <1>3, <2>1, <3>1, <3>2
  <2> QED
    BY <1>3, <2>3
<1>4. ASSUME NEW k \in TaskLines(s), NEW l \in TaskLines(s), Own(k), New(l)
      PROVE  Id(k) # Id(l)
  <2>1. Id(k) \in IdsIn(s)
    BY <1>1, <1>4, Numbers DEF IdsIn
  <2> QED
    BY <1>4, <2>1 DEF Held
<1>5. ASSUME NEW k \in TaskLines(s), NEW l \in TaskLines(s), k # l, New(k), New(l)
      PROVE  Id(k) # Id(l)
  BY <1>5, MintedIds
<1> QED
  BY <1>1, <1>2, <1>3, <1>4, <1>5 DEF Id

\* The card of a line: the one it claims, or a new one.
CardOf(s, claim, n) ==
  IF claim[n] # 0 THEN claim[n]
  ELSE Fresh(Made(s, claim), Cards \ DOMAIN cards)[n]

LEMMA CardFacts ==
  ASSUME TypeOK, NEW s, Held(s), NEW claim \in ClaimsOf(s), Enough(s, claim)
  PROVE  /\ \A n \in TaskLines(s) :
              /\ CardOf(s, claim, n) \in Cards
              /\ claim[n] # 0 => CardOf(s, claim, n) = claim[n] /\ claim[n] \in DOMAIN cards
              /\ claim[n] = 0 => CardOf(s, claim, n) \notin DOMAIN cards
         /\ \A n, m \in TaskLines(s) : n # m => CardOf(s, claim, n) # CardOf(s, claim, m)
<1> DEFINE made == Made(s, claim)
           new  == Fresh(made, Cards \ DOMAIN cards)
<1>1. new \in [made -> Cards \ DOMAIN cards] /\ \A m, n \in made : m # n => new[m] # new[n]
  BY MadeCards
<1>2. \A n \in TaskLines(s) : CardOf(s, claim, n) = IF claim[n] # 0 THEN claim[n] ELSE new[n]
  BY DEF CardOf
<1>3. \A n \in TaskLines(s) : claim[n] = 0 <=> n \in made
  BY DEF Made
<1> HIDE DEF made, new
<1>4. ASSUME NEW n \in TaskLines(s)
      PROVE  /\ CardOf(s, claim, n) \in Cards
             /\ claim[n] # 0 => CardOf(s, claim, n) = claim[n] /\ claim[n] \in DOMAIN cards
             /\ claim[n] = 0 => CardOf(s, claim, n) \notin DOMAIN cards
  <2>0. DOMAIN cards \subseteq Cards
    BY DEF TypeOK, PageOK
  <2>1. claim[n] \in DOMAIN cards \cup {0} /\ DOMAIN cards \subseteq Cards
    BY <2>0, ClaimFacts
  <2>2. CASE claim[n] # 0
    BY <1>2, <2>1, <2>2
  <2>3. CASE claim[n] = 0
    <3>1. CardOf(s, claim, n) = new[n] /\ n \in made
      BY <1>2, <1>3, <2>3
    <3>2. new[n] \in Cards \ DOMAIN cards
      BY <1>1, <3>1
    <3> QED
      BY <2>3, <3>1, <3>2
  <2> QED
    BY <2>2, <2>3
<1>5. ASSUME NEW n \in TaskLines(s), NEW m \in TaskLines(s), n # m
      PROVE  CardOf(s, claim, n) # CardOf(s, claim, m)
  <2>1. CASE claim[n] # 0 /\ claim[m] # 0
    BY <1>2, <1>5, <2>1, ClaimFacts
  <2>2. CASE claim[n] = 0 /\ claim[m] = 0
    BY <1>1, <1>2, <1>3, <1>5, <2>2
  <2>3. CASE claim[n] # 0 <=> claim[m] = 0
    BY <1>4, <2>3
  <2> QED
    BY <2>1, <2>2, <2>3
<1> QED
  BY <1>4, <1>5

Claimed(s, claim) == {CardOf(s, claim, n) : n \in TaskLines(s)}

\* The board afterwards.
LEMMA BoardFacts ==
  ASSUME TypeOK, NEW s, Held(s), NEW claim \in ClaimsOf(s), Enough(s, claim)
  PROVE  /\ DOMAIN Reconciled(s, claim) = DOMAIN cards \cup Claimed(s, claim)
         /\ Reconciled(s, claim) = [c \in DOMAIN Reconciled(s, claim) |-> Reconciled(s, claim)[c]]
         /\ \A n \in TaskLines(s) :
              Reconciled(s, claim)[CardOf(s, claim, n)] =
                [block |-> Stamped(s, claim)[n].id, title |-> s[n].says, detached |-> FALSE]
         /\ \A c \in DOMAIN cards \ Claimed(s, claim) :
              /\ Reconciled(s, claim)[c] = [cards[c] EXCEPT !.detached = TRUE]
              /\ Reconciled(s, claim)[c].detached
              /\ Reconciled(s, claim)[c].block = cards[c].block
              /\ Reconciled(s, claim)[c].title = cards[c].title
<1> DEFINE board   == Reconciled(s, claim)
           made    == Made(s, claim)
           claimed == Claimed(s, claim)
           Line(c) == CHOOSE n \in TaskLines(s) : CardOf(s, claim, n) = c
<1>1. board = [c \in DOMAIN cards \cup {CardOf(s, claim, n) : n \in made} |->
                 IF \E n \in TaskLines(s) : CardOf(s, claim, n) = c
                 THEN [block |-> Stamped(s, claim)[Line(c)].id, title |-> s[Line(c)].says,
                       detached |-> FALSE]
                 ELSE [cards[c] EXCEPT !.detached = TRUE]]
  BY DEF Reconciled, CardOf, Made
<1>2. DOMAIN cards \cup {CardOf(s, claim, n) : n \in made} = DOMAIN cards \cup claimed
  <2>1. \A n \in TaskLines(s) : n \in made \/ CardOf(s, claim, n) \in DOMAIN cards
    BY CardFacts DEF Made
  <2> QED
    BY <2>1 DEF Made, Claimed
<1>3. ASSUME NEW n \in TaskLines(s)
      PROVE  Line(CardOf(s, claim, n)) = n
  BY CardFacts
<1>4. \A c \in DOMAIN cards : cards[c] \in [block : Ids, title : Words, detached : BOOLEAN]
  BY DEF TypeOK, PageOK
<1> HIDE DEF board, made, Line
<1>5. DOMAIN board = DOMAIN cards \cup claimed /\ board = [c \in DOMAIN board |-> board[c]]
  BY <1>1, <1>2
<1>6. ASSUME NEW n \in TaskLines(s)
      PROVE  board[CardOf(s, claim, n)] =
               [block |-> Stamped(s, claim)[n].id, title |-> s[n].says, detached |-> FALSE]
  <2>1. CardOf(s, claim, n) \in DOMAIN cards \cup {CardOf(s, claim, k) : k \in made}
    BY <1>2 DEF Claimed
  <2> QED
    BY <1>1, <1>3, <2>1
<1>7. ASSUME NEW c \in DOMAIN cards \ claimed
      PROVE  /\ board[c] = [cards[c] EXCEPT !.detached = TRUE]
             /\ board[c].detached /\ board[c].block = cards[c].block
             /\ board[c].title = cards[c].title
  <2>1. board[c] = [cards[c] EXCEPT !.detached = TRUE]
    BY <1>1, <1>7 DEF Claimed
  <2> QED
    BY <1>4, <2>1
<1> QED
  BY <1>5, <1>6, <1>7 DEF board

-----------------------------------------------------------------------------
(* The types of the variables *)

LEMMA EmptyLive ==
  ASSUME NEW S
  PROVE  SeqOf(<<>>, S) /\ KeysIn(<<>>) = {} /\ DOMAIN <<>> = {}
<1> DEFINE none == <<>>
<1>1. none \in Seq(S) /\ Len(none) = 0 /\ DOMAIN none = {}
  OBVIOUS
<1> HIDE DEF none
<1>2. SeqOf(none, S)
  <2>1. Len(none) <= MaxLines
    BY <1>1, Numbers
  <2> QED
    BY <1>1, <2>1, SeqIsSeqOf
<1> QED
  BY <1>1, <1>2 DEF none, KeysIn

LEMMA SeqOfLarger ==
  ASSUME NEW S, NEW T, S \subseteq T, NEW s, SeqOf(s, S)
  PROVE  SeqOf(s, T)
  BY DEF SeqOf

\* Line by line.
LEMMA SeqOfMapped ==
  ASSUME NEW S, NEW T, NEW s, SeqOf(s, S), NEW t, t = [n \in DOMAIN s |-> t[n]],
         \A n \in DOMAIN s : t[n] \in T
  PROVE  SeqOf(t, T)
  BY DEF SeqOf

LEMMA RequestFacts ==
  /\ Request(Idle) /\ Request([stage |-> "clear"])
  /\ \A body, restore : SeqOf(body, Keyed(Keys \cup {0})) /\ restore \in BOOLEAN =>
       Request([stage |-> "taken", body |-> body, restore |-> restore])
  BY DEF Request

LEMMA UnkeyedFacts ==
  ASSUME NEW f, Request(f)
  PROVE  Request(Unkeyed(f))
<1>1. CASE f \in {Idle, [stage |-> "clear"]}
  BY <1>1, RequestFacts DEF Unkeyed, Idle
<1>2. CASE /\ f = [stage |-> "taken", body |-> f.body, restore |-> f.restore]
           /\ SeqOf(f.body, Keyed(Keys \cup {0})) /\ f.restore \in BOOLEAN
  <2> DEFINE b    == f.body
             body == [n \in DOMAIN b |-> [b[n] EXCEPT !.key = 0]]
  <2>1. Unkeyed(f) = [stage |-> "taken", body |-> body, restore |-> f.restore]
    BY <1>2 DEF Unkeyed
  <2>2. \A n \in DOMAIN b : b[n] \in Keyed(Keys \cup {0})
    BY <1>2, SeqFacts
  <2>3. \A n \in DOMAIN b : body[n] \in Keyed(Keys \cup {0})
    BY <2>2 DEF Keyed
  <2>4. SeqOf(body, Keyed(Keys \cup {0}))
    BY <1>2, <2>3, SeqOfMapped
  <2> HIDE DEF body
  <2> QED
    BY <1>2, <2>1, <2>4, RequestFacts
<1> QED
  BY <1>1, <1>2 DEF Request

LEMMA FlowStep ==
  ASSUME NEW f, f = [w \in Writers |-> f[w]], \A w \in Writers : Request(f[w]),
         NEW w \in Writers, NEW e, Request(e)
  PROVE  /\ [f EXCEPT ![w] = e] = [v \in Writers |-> [f EXCEPT ![w] = e][v]]
         /\ \A v \in Writers : Request([f EXCEPT ![w] = e][v])
  OBVIOUS

LEMMA ForgottenTypes ==
  ASSUME NEW f, f = [w \in Writers |-> f[w]], \A w \in Writers : Request(f[w]),
         Forgotten(f)
  PROVE  /\ flow' = [w \in Writers |-> flow'[w]] /\ \A w \in Writers : Request(flow'[w])
         /\ SeqOf(live', Keyed(Keys)) /\ DOMAIN live' = {} /\ live' = <<>>
         /\ known' \in [Keys -> Ids \cup {NoId}]
  BY EmptyLive, UnkeyedFacts DEF Forgotten

LEMMA NewKeyFacts ==
  ASSUME FreeKeys # {}
  PROVE  NewKey \in Keys /\ NewKey \notin KeysIn(live)
         /\ \A n \in DOMAIN live : live[n].key # NewKey
<1>1. NewKey \in FreeKeys
  BY DEF NewKey
<1>2. NewKey # 0
  BY <1>1, Numbers DEF FreeKeys
<1> QED
  BY <1>1, <1>2 DEF FreeKeys, KeysIn

LEMMA LiveLines ==
  ASSUME LiveOK
  PROVE  /\ DOMAIN live = 1..Len(live) /\ Len(live) \in Nat
         /\ \A n \in DOMAIN live : /\ live[n] \in Keyed(Keys)
                                   /\ live[n].key \in Keys /\ live[n].key # 0
                                   /\ live[n].id \in Ids \cup {NoId} /\ live[n].says \in Says
<1>1. SeqOf(live, Keyed(Keys))
  BY DEF LiveOK
<1>2. live \in [1..Len(live) -> Keyed(Keys)] /\ DOMAIN live = 1..Len(live) /\ Len(live) \in Nat
  BY <1>1, SeqFacts, Numbers
<1>3. \A n \in DOMAIN live : live[n] \in Keyed(Keys)
  BY <1>2
<1> QED
  BY <1>2, <1>3, Numbers DEF Keyed

\* A line put in, with a key of its own: the others keep their keys.
LEMMA LiveInto ==
  ASSUME LiveOK, Len(live) < MaxLines, NEW n \in 0..Len(live), NEW e \in Keyed(Keys),
         \A m \in DOMAIN live : live[m].key # e.key
  PROVE  /\ SeqOf(Into(live, n, e), Keyed(Keys))
         /\ \A i, j \in DOMAIN Into(live, n, e) :
              i # j => Into(live, n, e)[i].key # Into(live, n, e)[j].key
<1> DEFINE new == Into(live, n, e)
           old(i) == IF i <= n THEN i ELSE i - 1
<1>1. /\ SeqOf(new, Keyed(Keys)) /\ DOMAIN new = 1..Len(live) + 1
      /\ \A i \in 1..Len(live) + 1 :
           new[i] = IF i <= n THEN live[i] ELSE IF i = n + 1 THEN e ELSE live[i - 1]
  BY IntoFacts DEF LiveOK
<1>2. DOMAIN live = 1..Len(live) /\ Len(live) \in Nat /\ n \in 0..Len(live)
  BY LiveLines
<1> HIDE DEF new
<1>3. ASSUME NEW i \in DOMAIN new, i # n + 1
      PROVE  new[i] = live[old(i)] /\ old(i) \in DOMAIN live
  BY <1>1, <1>2, <1>3
<1>4. ASSUME NEW i \in DOMAIN new, NEW j \in DOMAIN new, i # j
      PROVE  new[i].key # new[j].key
  <2>1. i \in Int /\ j \in Int
    BY <1>1
  <2>2. CASE i # n + 1 /\ j # n + 1
    <3>1. old(i) # old(j)
      BY <1>2, <1>4, <2>1, <2>2
    <3> QED
      BY <1>3, <2>2, <3>1 DEF LiveOK
  <2>3. CASE i = n + 1
    <3>1. new[i] = e
      BY <1>1, <1>2, <2>3
    <3>2. j # n + 1
      BY <1>4, <2>3
    <3> QED
      BY <1>3, <3>1, <3>2
  <2>4. CASE j = n + 1
    <3>1. new[j] = e
      BY <1>1, <1>2, <2>4
    <3>2. i # n + 1
      BY <1>4, <2>4
    <3> QED
      BY <1>3, <3>1, <3>2
  <2> QED
    BY <2>2, <2>3, <2>4
<1> QED
  BY <1>1, <1>4 DEF new

LEMMA LiveWithout ==
  ASSUME LiveOK, NEW n \in DOMAIN live
  PROVE  /\ SeqOf(Without(live, n), Keyed(Keys))
         /\ \A i, j \in DOMAIN Without(live, n) :
              i # j => Without(live, n)[i].key # Without(live, n)[j].key
         /\ \A i \in DOMAIN Without(live, n) : Without(live, n)[i].key # live[n].key
<1> DEFINE new == Without(live, n)
           old(i) == IF i < n THEN i ELSE i + 1
<1>1. /\ SeqOf(new, Keyed(Keys)) /\ DOMAIN new = 1..Len(live) - 1
      /\ \A i \in 1..Len(live) - 1 : new[i] = IF i < n THEN live[i] ELSE live[i + 1]
  BY WithoutFacts DEF LiveOK
<1>2. DOMAIN live = 1..Len(live) /\ Len(live) \in Nat
  BY LiveLines
<1> HIDE DEF new
<1>3. ASSUME NEW i \in DOMAIN new
      PROVE  new[i] = live[old(i)] /\ old(i) \in DOMAIN live /\ old(i) # n /\ i \in Int
  BY <1>1, <1>2
<1>4. ASSUME NEW i \in DOMAIN new, NEW j \in DOMAIN new, i # j
      PROVE  old(i) # old(j)
  <2>1. i \in Int /\ j \in Int /\ n \in Int
    BY <1>2, <1>3
  <2> QED
    BY <1>4, <2>1
<1> HIDE DEF old
<1>5. \A i, j \in DOMAIN new : i # j => new[i].key # new[j].key
  BY <1>3, <1>4 DEF LiveOK
<1>6. \A i \in DOMAIN new : new[i].key # live[n].key
  BY <1>3 DEF LiveOK
<1> QED
  BY <1>1, <1>5, <1>6 DEF new

-----------------------------------------------------------------------------
(* What a commit leaves *)

Written(s, claim) ==
  LET new == Stamped(s, claim)
  IN /\ stored' = Plain(new)
     /\ history' = history \cup {Plain(new)}
     /\ cards' = Reconciled(s, claim)
     /\ known' = [k \in Keys |->
          IF k \notin KeysIn(live) THEN 0
          ELSE IF k \notin KeysIn(s) THEN known[k]
          ELSE new[CHOOSE n \in DOMAIN s : s[n].key = k].id]

LEMMA CommitWrites ==
  ASSUME NEW s, AppendRevision(s)
  PROVE  \E claim \in ClaimsOf(s) : Enough(s, claim) /\ Written(s, claim)
  BY DEF AppendRevision, Enough, Made, Written

LEMMA StampedIds ==
  ASSUME TypeOK, NEW s, Held(s), NEW claim \in ClaimsOf(s), Enough(s, claim), NEW n \in DOMAIN s
  PROVE  Stamped(s, claim)[n].id \in Ids \cup {NoId}
<1>1. CASE n \in TaskLines(s)
  BY <1>1, IdsOfTasks
<1>2. CASE n \notin TaskLines(s) /\ n \in Minted(s, claim)
  <2>1. Stamped(s, claim)[n].id = Fresh(Minted(s, claim), FreeIds)[n]
    BY <1>2, StampedLines
  <2> QED
    BY <1>2, <2>1, MintedIds
<1>3. CASE n \notin TaskLines(s) /\ n \notin Minted(s, claim)
  <2>1. Stamped(s, claim)[n].id = s[n].id
    BY <1>3, StampedLines
  <2> QED
    BY <2>1, LinesFacts
<1> QED
  BY <1>1, <1>2, <1>3

\* The body that is stored.
LEMMA PlainFacts ==
  ASSUME TypeOK, NEW s, Held(s), NEW claim \in ClaimsOf(s), Enough(s, claim)
  PROVE  LET plain == Plain(Stamped(s, claim))
         IN /\ SeqOf(plain, Lines) /\ DOMAIN plain = DOMAIN s /\ TaskLines(plain) = TaskLines(s)
            /\ \A n \in DOMAIN s : /\ plain[n].id = Stamped(s, claim)[n].id
                                   /\ plain[n].says = s[n].says
<1> DEFINE new   == Stamped(s, claim)
           plain == Plain(new)
<1>1. DOMAIN new = DOMAIN s /\ TaskLines(new) = TaskLines(s)
      /\ \A n \in DOMAIN s : new[n].says = s[n].says /\ new[n].id \in Ids \cup {NoId}
  BY StampedLines, StampedIds
<1>2. \A n \in DOMAIN s : s[n].says \in Says
  BY LinesFacts
<1>3. SeqOf(s, Keyed(Keys \cup {0}))
  BY DEF Held
<1> HIDE DEF new
<1>4. DOMAIN plain = DOMAIN s /\ plain = [n \in DOMAIN s |-> plain[n]]
      /\ \A n \in DOMAIN s : plain[n] = [id |-> new[n].id, says |-> s[n].says]
  BY <1>1 DEF Plain
<1> HIDE DEF plain
<1>5. \A n \in DOMAIN s : /\ plain[n] \in Lines /\ plain[n].id = new[n].id
                          /\ plain[n].says = s[n].says
  BY <1>1, <1>2, <1>4 DEF Lines
<1>6. SeqOf(plain, Lines)
  BY <1>3, <1>4, <1>5, SeqOfMapped
<1>7. TaskLines(plain) = TaskLines(s)
  BY <1>4, <1>5 DEF TaskLines, IsTask
<1> QED
  BY <1>4, <1>5, <1>6, <1>7 DEF plain, new

LEMMA PageByCommit ==
  ASSUME TypeOK, NEW s, Held(s), NEW claim \in ClaimsOf(s), Enough(s, claim), Written(s, claim)
  PROVE  PageOK'
<1> DEFINE board   == Reconciled(s, claim)
           claimed == Claimed(s, claim)
<1>1. stored' \in history' /\ \A b \in history' : SeqOf(b, Lines)
  BY PlainFacts DEF Written, TypeOK, PageOK
<1>2. /\ DOMAIN board = DOMAIN cards \cup claimed /\ board = [c \in DOMAIN board |-> board[c]]
      /\ \A n \in TaskLines(s) :
           board[CardOf(s, claim, n)] =
             [block |-> Stamped(s, claim)[n].id, title |-> s[n].says, detached |-> FALSE]
      /\ \A c \in DOMAIN cards \ claimed : board[c] = [cards[c] EXCEPT !.detached = TRUE]
  <2>1. DOMAIN board = DOMAIN cards \cup claimed /\ board = [c \in DOMAIN board |-> board[c]]
    BY BoardFacts
  <2>2. \A n \in TaskLines(s) :
          board[CardOf(s, claim, n)] =
            [block |-> Stamped(s, claim)[n].id, title |-> s[n].says, detached |-> FALSE]
    BY BoardFacts
  <2>3. \A c \in DOMAIN cards \ claimed : board[c] = [cards[c] EXCEPT !.detached = TRUE]
    BY BoardFacts
  <2> QED
    BY <2>1, <2>2, <2>3
<1>3. \A n \in TaskLines(s) : s[n].says \in Words /\ Stamped(s, claim)[n].id \in Ids
  BY IdsOfTasks DEF TaskLines, IsTask
<1>4. /\ DOMAIN cards \subseteq Cards /\ claimed \subseteq Cards
      /\ \A c \in DOMAIN cards : cards[c] \in [block : Ids, title : Words, detached : BOOLEAN]
  BY CardFacts DEF Claimed, TypeOK, PageOK
<1> HIDE DEF board
<1>5. ASSUME NEW c \in DOMAIN board
      PROVE  board[c] \in [block : Ids, title : Words, detached : BOOLEAN]
  <2>1. CASE c \in claimed
    <3>1. PICK n \in TaskLines(s) : c = CardOf(s, claim, n)
      BY <2>1 DEF Claimed
    <3>2. board[c] = [block |-> Stamped(s, claim)[n].id, title |-> s[n].says, detached |-> FALSE]
      BY <1>2, <3>1
    <3> QED
      BY <1>3, <3>2
  <2>2. CASE c \in DOMAIN cards \ claimed
    BY <1>2, <1>4, <2>2
  <2> QED
    BY <1>2, <1>5, <2>1, <2>2
<1>6. DOMAIN board \subseteq Cards
  BY <1>2, <1>4
<1>7. board \in [DOMAIN board -> [block : Ids, title : Words, detached : BOOLEAN]]
  BY <1>2, <1>5
<1>8. cards' = board
  BY DEF Written, board
<1> QED
  BY <1>1, <1>6, <1>7, <1>8 DEF PageOK

LEMMA KnownByCommit ==
  ASSUME TypeOK, NEW s, Held(s), NEW claim \in ClaimsOf(s), Enough(s, claim), Written(s, claim)
  PROVE  known' \in [Keys -> Ids \cup {NoId}]
<1> DEFINE at(k) == CHOOSE n \in DOMAIN s : s[n].key = k
<1>1. ASSUME NEW k \in KeysIn(s)
      PROVE  Stamped(s, claim)[at(k)].id \in Ids \cup {NoId}
  <2>1. at(k) \in DOMAIN s
    BY DEF KeysIn
  <2> QED
    BY <2>1, StampedIds
<1>2. known \in [Keys -> Ids \cup {NoId}]
  BY DEF TypeOK, LiveOK
<1>3. known' = [k \in Keys |-> IF k \notin KeysIn(live) THEN NoId
                               ELSE IF k \notin KeysIn(s) THEN known[k]
                               ELSE Stamped(s, claim)[at(k)].id]
  BY DEF Written, NoId
<1> HIDE DEF at
<1> QED
  BY <1>1, <1>2, <1>3

LEMMA BoardByCommit ==
  ASSUME TypeOK, BoardMatchesPage,
         NEW s, Held(s), NEW claim \in ClaimsOf(s), Enough(s, claim), Written(s, claim)
  PROVE  BoardMatchesPage'
<1> DEFINE board   == Reconciled(s, claim)
           plain   == Plain(Stamped(s, claim))
           Id(n)   == Stamped(s, claim)[n].id
           Card(n) == CardOf(s, claim, n)
           claimed == Claimed(s, claim)
<1>1. cards' = board /\ stored' = plain
  BY DEF Written
<1>2. /\ TaskLines(plain) = TaskLines(s) /\ TaskLines(s) \subseteq DOMAIN s
      /\ \A n \in TaskLines(s) : plain[n].id = Id(n)
  BY PlainFacts, LinesFacts
<1>3. /\ DOMAIN board = DOMAIN cards \cup claimed
      /\ \A n \in TaskLines(s) : board[Card(n)].block = Id(n) /\ ~board[Card(n)].detached
      /\ \A c \in DOMAIN cards \ claimed : board[c].block = cards[c].block /\ board[c].detached
  <2>1. DOMAIN board = DOMAIN cards \cup claimed
    BY BoardFacts
  <2>2. ASSUME NEW n \in TaskLines(s)
        PROVE  board[Card(n)].block = Id(n) /\ ~board[Card(n)].detached
    <3>1. board[Card(n)] = [block |-> Id(n), title |-> s[n].says, detached |-> FALSE]
      BY BoardFacts
    <3> HIDE DEF board, Card, Id
    <3> QED
      BY <3>1
  <2>3. ASSUME NEW c \in DOMAIN cards \ claimed
        PROVE  board[c].block = cards[c].block /\ board[c].detached
    <3>1. board[c] = [cards[c] EXCEPT !.detached = TRUE]
      BY <2>3, BoardFacts
    <3>2. cards[c] \in [block : Ids, title : Words, detached : BOOLEAN]
      BY <2>3 DEF TypeOK, PageOK
    <3> HIDE DEF board
    <3> QED
      BY <3>1, <3>2
  <2> QED
    BY <2>1, <2>2, <2>3
<1>4. ASSUME NEW n \in TaskLines(s)
      PROVE  /\ Id(n) \in Ids
             /\ \/ Card(n) \in DOMAIN cards /\ Id(n) = cards[Card(n)].block
                \/ \A c \in DOMAIN cards : cards[c].block # Id(n)
  BY IdsOfTasks, CardFacts
<1>5. \A n, m \in TaskLines(s) : n # m => Id(n) # Id(m) /\ Card(n) # Card(m)
  BY IdsOfTasksDiffer, CardFacts
<1>0. \A c : c \in claimed <=> \E n \in TaskLines(s) : c = Card(n)
  BY DEF Claimed
<1> HIDE DEF board, plain, Card, Id, claimed
<1>6. ASSUME NEW n \in TaskLines(s), NEW d \in DOMAIN cards \ claimed
      PROVE  board[Card(n)].block # board[d].block
  <2>1. board[Card(n)].block = Id(n) /\ board[d].block = cards[d].block /\ d # Card(n)
    BY <1>0, <1>3
  <2> QED
    BY <1>4, <2>1 DEF BoardMatchesPage
<1>7. ASSUME NEW c \in DOMAIN board, NEW d \in DOMAIN board, c # d
      PROVE  board[c].block # board[d].block
  <2>1. CASE c \in claimed /\ d \in claimed
    <3>1. PICK n \in TaskLines(s) : c = Card(n)
      BY <1>0, <2>1
    <3>2. PICK m \in TaskLines(s) : d = Card(m)
      BY <1>0, <2>1
    <3> QED
      BY <1>3, <1>5, <1>7, <3>1, <3>2
  <2>2. CASE c \in claimed /\ d \notin claimed
    BY <1>0, <1>3, <1>6, <1>7, <2>2
  <2>3. CASE c \notin claimed /\ d \in claimed
    BY <1>0, <1>3, <1>6, <1>7, <2>3
  <2>4. CASE c \notin claimed /\ d \notin claimed
    BY <1>3, <1>7, <2>4 DEF BoardMatchesPage
  <2> QED
    BY <2>1, <2>2, <2>3, <2>4
<1>8. ASSUME NEW c \in DOMAIN board, ~board[c].detached
      PROVE  \E n \in TaskLines(plain) : plain[n].id = board[c].block
  <2>1. PICK n \in TaskLines(s) : c = Card(n)
    BY <1>0, <1>3, <1>8
  <2> QED
    BY <1>2, <1>3, <2>1
<1>9. ASSUME NEW n \in TaskLines(plain)
      PROVE  /\ plain[n].id # NoId
             /\ \A m \in TaskLines(plain) \ {n} : plain[m].id # plain[n].id
  BY <1>2, <1>4, <1>5, Numbers
<1>10. TaskLines(stored)' = TaskLines(plain)
  BY <1>1 DEF TaskLines, IsTask
<1> QED
  BY <1>1, <1>7, <1>8, <1>9, <1>10 DEF BoardMatchesPage

-----------------------------------------------------------------------------
(* The invariant *)

LEMMA FirstPage ==
  Init => Sound
<1> SUFFICES ASSUME Init PROVE Sound
  OBVIOUS
<1> DEFINE N     == Len(First)
           Id(n) == IF First[n] = Blank THEN NoId ELSE n
<1>1. /\ N \in Nat /\ N <= MaxLines /\ DOMAIN First = 1..N
      /\ \A n \in 1..N : First[n] \in Says
  <2>1. First \in Seq(Says) /\ Len(First) <= MaxLines
    BY SaysAssumption, BoundsAssumption
  <2> QED
    BY <2>1
<1>2. /\ stored = [n \in 1..N |-> [id |-> Id(n), says |-> First[n]]]
      /\ \A n \in 1..N : n \in Ids /\ n \in Cards /\ Id(n) \in Ids \cup {NoId}
  BY <1>1, Numbers DEF Init
<1> HIDE DEF N, Id
<1>3. \A n \in 1..N : stored[n].id = Id(n) /\ stored[n].says = First[n] /\ stored[n] \in Lines
  BY <1>1, <1>2 DEF Lines
<1>4. SeqOf(stored, Lines)
  BY <1>1, <1>2, <1>3 DEF SeqOf
<1>5. \A n \in TaskLines(stored) :
        /\ n \in 1..N /\ n \in Cards /\ n \in Ids /\ n # NoId
        /\ First[n] \in Words /\ stored[n].id = n
  <2> SUFFICES ASSUME NEW n \in TaskLines(stored)
               PROVE  /\ n \in 1..N /\ n \in Cards /\ n \in Ids /\ n # NoId
                      /\ First[n] \in Words /\ stored[n].id = n
    OBVIOUS
  <2>1. n \in 1..N /\ First[n] \in Words
    BY <1>2, <1>3 DEF TaskLines, IsTask
  <2>2. First[n] # Blank
    BY <2>1, SaysAssumption
  <2>3. Id(n) = n
    BY <2>2 DEF Id
  <2> QED
    BY <1>2, <1>3, <2>1, <2>3, Numbers
<1>6. /\ cards = [n \in TaskLines(stored) |-> [block |-> n, title |-> First[n], detached |-> FALSE]]
      /\ history = {stored} /\ live = <<>> /\ room = FALSE /\ kept = FALSE /\ left = MaxSteps
      /\ flow = [w \in Writers |-> Idle] /\ known = [k \in Keys |-> NoId]
  BY DEF Init
<1>7. PageOK
  BY <1>4, <1>5, <1>6 DEF PageOK
<1>8. LiveOK
  <2>1. SeqOf(live, Keyed(Keys)) /\ DOMAIN live = {}
    BY <1>6, EmptyLive
  <2> QED
    BY <1>6, <2>1 DEF LiveOK
<1>9. FlowOK
  BY <1>6, RequestFacts, Numbers DEF FlowOK
<1>10. BoardMatchesPage
  BY <1>5, <1>6 DEF BoardMatchesPage
<1>11. NothingIsKept
  BY <1>6 DEF NothingIsKept
<1> QED
  BY <1>7, <1>8, <1>9, <1>10, <1>11 DEF Sound, TypeOK

LEMMA PageKept ==
  ASSUME PageOK, BoardMatchesPage, UNCHANGED page
  PROVE  PageOK' /\ BoardMatchesPage'
<1>1. stored' = stored /\ history' = history /\ cards' = cards
  BY DEF page
<1> QED
  BY <1>1 DEF PageOK, BoardMatchesPage, TaskLines, IsTask

LEMMA StepLeft ==
  ASSUME FlowOK, Step
  PROVE  left' \in 0..MaxSteps
  BY Numbers DEF FlowOK, Step

\* People edit the live document.
LEMMA EditSound ==
  ASSUME Sound, Type \/ Copy \/ Reword \/ Remove
  PROVE  Sound'
<1> USE DEF Sound, TypeOK
<1>1. Step /\ room = TRUE /\ room' = TRUE /\ kept' = TRUE /\ UNCHANGED page /\ flow' = flow
  BY DEF Type, Copy, Reword, Remove, Edited, LiveOK
<1>2. FlowOK'
  BY <1>1, StepLeft DEF FlowOK
<1>3. /\ SeqOf(live', Keyed(Keys))
      /\ \A n, m \in DOMAIN live' : n # m => live'[n].key # live'[m].key
  <2>1. CASE Type
    <3>1. PICK n \in 0..Len(live), says \in Words \cup {Heading} :
            live' = Into(live, n, [key |-> NewKey, id |-> NoId, says |-> says])
      BY <2>1 DEF Type
    <3>2. Len(live) < MaxLines /\ FreeKeys # {}
      BY <2>1 DEF Type
    <3>3. [key |-> NewKey, id |-> NoId, says |-> says] \in Keyed(Keys)
      BY <3>2, NewKeyFacts DEF Keyed, Says, Tasks
    <3> QED
      BY <3>1, <3>2, <3>3, NewKeyFacts, LiveInto
  <2>2. CASE Copy
    <3>1. PICK n \in DOMAIN live, m \in 0..Len(live) :
            live' = Into(live, m, [live[n] EXCEPT !.key = NewKey])
      BY <2>2 DEF Copy
    <3>2. Len(live) < MaxLines /\ FreeKeys # {}
      BY <2>2 DEF Copy
    <3>3. live[n] \in Keyed(Keys)
      BY LiveLines
    <3>4. PICK e \in Keyed(Keys) : e = [live[n] EXCEPT !.key = NewKey] /\ e.key = NewKey
      <4> DEFINE new == [live[n] EXCEPT !.key = NewKey]
      <4>1. new \in Keyed(Keys) /\ new.key = NewKey
        BY <3>2, <3>3, NewKeyFacts DEF Keyed
      <4> HIDE DEF new
      <4> QED
        BY <4>1 DEF new
    <3>5. live' = Into(live, m, e) /\ \A i \in DOMAIN live : live[i].key # e.key
      BY <3>1, <3>2, <3>4, NewKeyFacts
    <3> QED
      BY <3>2, <3>5, LiveInto
  <2>3. CASE Reword
    <3>1. PICK n \in DOMAIN live, says \in Tasks : live' = [live EXCEPT ![n].says = says]
      BY <2>3 DEF Reword
    <3>2. live' = [m \in DOMAIN live |-> live'[m]]
      BY <3>1
    <3>3. ASSUME NEW m \in DOMAIN live
          PROVE  live'[m] \in Keyed(Keys) /\ live'[m].key = live[m].key
      <4>1. live[m] \in Keyed(Keys) /\ says \in Says
        BY LiveLines DEF Says
      <4> QED
        BY <3>1, <4>1 DEF Keyed
    <3>4. SeqOf(live', Keyed(Keys))
      BY <3>2, <3>3, SeqOfMapped DEF LiveOK
    <3> QED
      BY <3>2, <3>3, <3>4 DEF LiveOK
  <2>4. CASE Remove
    <3>1. PICK n \in DOMAIN live : live' = Without(live, n)
      BY <2>4 DEF Remove
    <3> QED
      BY <3>1, LiveWithout
  <2> QED
    BY <2>1, <2>2, <2>3, <2>4
<1>4. known' \in [Keys -> Ids \cup {NoId}]
  <2>1. known \in [Keys -> Ids \cup {NoId}]
    BY DEF LiveOK
  <2>2. \/ known' = known
        \/ \E key \in Keys : known' = [known EXCEPT ![key] = NoId]
    BY NewKeyFacts, LiveLines DEF Type, Copy, Reword, Remove
  <2> QED
    BY <2>1, <2>2
<1>5. LiveOK'
  BY <1>1, <1>3, <1>4 DEF LiveOK
<1> QED
  BY <1>1, <1>2, <1>5, PageKept DEF NothingIsKept

\* A room opens, and is evicted.
LEMMA RoomSound ==
  ASSUME Sound, Open \/ Close
  PROVE  Sound'
<1> USE DEF Sound, TypeOK
<1>1. UNCHANGED page /\ kept' = kept /\ left' = left
  BY DEF Open, Close
<1>2. CASE Open
  <2>1. room' = TRUE /\ flow' = flow
    BY <1>2 DEF Open
  <2>2. FlowOK'
    BY <1>1, <2>1 DEF FlowOK
  <2>3. LiveOK'
    <3>1. CASE kept
      BY <1>1, <1>2, <2>1, <3>1 DEF Open, LiveOK
    <3>2. CASE ~kept
      <4>1. /\ live' = [n \in DOMAIN stored |->
                          [key |-> n, id |-> stored[n].id, says |-> stored[n].says]]
            /\ known' = [k \in Keys |-> IF k \in DOMAIN stored THEN stored[k].id ELSE NoId]
        BY <1>2, <3>2 DEF Open
      <4>2. SeqOf(stored, Lines)
        BY DEF PageOK
      <4>3. DOMAIN stored \subseteq Keys /\ \A n \in DOMAIN stored : stored[n] \in Lines
        BY <4>2, SeqFacts, Numbers
      <4>4. \A n \in DOMAIN stored : live'[n] \in Keyed(Keys) /\ live'[n].key = n
        BY <4>1, <4>3 DEF Lines, Keyed
      <4>5. DOMAIN live' = DOMAIN stored /\ live' = [n \in DOMAIN stored |-> live'[n]]
        BY <4>1
      <4>6. SeqOf(live', Keyed(Keys))
        BY <4>2, <4>4, <4>5, SeqOfMapped
      <4>7. known' \in [Keys -> Ids \cup {NoId}]
        BY <4>1, <4>3 DEF Lines
      <4> QED
        BY <1>1, <2>1, <4>4, <4>5, <4>6, <4>7 DEF LiveOK
    <3> QED
      BY <3>1, <3>2
  <2> QED
    BY <1>1, <2>1, <2>2, <2>3, PageKept DEF NothingIsKept
<1>3. CASE Close
  <2>1. room' = FALSE
    BY <1>3 DEF Close
  <2>2. CASE kept
    <3>1. UNCHANGED <<live, known, flow>>
      BY <1>3, <2>2 DEF Close
    <3> QED
      BY <1>1, <2>1, <2>2, <3>1, PageKept DEF NothingIsKept, FlowOK, LiveOK
  <2>3. CASE ~kept
    <3>1. Forgotten(flow)
      BY <1>3, <2>3 DEF Close
    <3>2. FlowOK' /\ LiveOK' /\ live' = <<>>
      BY <1>1, <2>1, <3>1, ForgottenTypes DEF FlowOK, LiveOK
    <3> QED
      BY <1>1, <3>2, PageKept DEF NothingIsKept
  <2> QED
    BY <2>2, <2>3
<1> QED
  BY <1>2, <1>3

LEMMA BeginTypes ==
  ASSUME FlowOK, NEW w \in Writers, NEW body, SeqOf(body, Keyed(Keys \cup {0})),
         NEW restore \in BOOLEAN, Begin(w, body, restore), left' \in 0..MaxSteps
  PROVE  FlowOK'
<1> DEFINE e == [stage |-> "taken", body |-> body, restore |-> restore]
<1>1. Request(e)
  BY RequestFacts
<1>2. flow' = [flow EXCEPT ![w] = e]
  BY DEF Begin
<1> HIDE DEF e
<1> QED
  BY <1>1, <1>2, FlowStep DEF FlowOK

\* A request takes what it will publish, or ends.
LEMMA RequestSound ==
  ASSUME Sound, NEW w \in Writers, Snapshot(w) \/ ReadRevision(w) \/ Import(w) \/ Abort(w)
  PROVE  Sound'
<1> USE DEF Sound, TypeOK
<1>1. UNCHANGED page /\ UNCHANGED <<live, room, kept, known>>
  BY DEF Snapshot, ReadRevision, Import, Abort
<1>2. LiveOK' /\ NothingIsKept'
  BY <1>1 DEF LiveOK, NothingIsKept
<1>3. FlowOK'
  <2>1. CASE Snapshot(w)
    <3>1. SeqOf(live, Keyed(Keys \cup {0}))
      <4>1. SeqOf(live, Keyed(Keys)) /\ Keyed(Keys) \subseteq Keyed(Keys \cup {0})
        BY DEF LiveOK, Keyed
      <4> QED
        BY <4>1, SeqOfLarger
    <3> QED
      BY <2>1, <3>1, BeginTypes, StepLeft DEF Snapshot
  <2>2. CASE ReadRevision(w)
    <3>1. PICK b \in history :
            Begin(w, [n \in DOMAIN b |-> [key |-> 0, id |-> b[n].id, says |-> b[n].says]], TRUE)
      BY <2>2 DEF ReadRevision
    <3> DEFINE body == [n \in DOMAIN b |-> [key |-> 0, id |-> b[n].id, says |-> b[n].says]]
    <3>2. SeqOf(b, Lines)
      BY DEF PageOK
    <3>3. \A n \in DOMAIN b : b[n] \in Lines
      BY <3>2, SeqFacts
    <3>4. \A n \in DOMAIN b : body[n] \in Keyed(Keys \cup {0})
      BY <3>3 DEF Lines, Keyed
    <3>5. SeqOf(body, Keyed(Keys \cup {0}))
      BY <3>2, <3>4, SeqOfMapped
    <3> HIDE DEF body
    <3> QED
      BY <2>2, <3>1, <3>5, BeginTypes, StepLeft DEF ReadRevision, body
  <2>3. CASE Import(w)
    <3>1. PICK f \in Imports :
            Begin(w, [n \in DOMAIN f |-> [key |-> 0, id |-> NoId, says |-> f[n]]], FALSE)
      BY <2>3 DEF Import
    <3> DEFINE body == [n \in DOMAIN f |-> [key |-> 0, id |-> NoId, says |-> f[n]]]
    <3>2. SeqOf(f, Says)
      BY SaysAssumption, BoundsAssumption, SeqIsSeqOf
    <3>3. \A n \in DOMAIN f : f[n] \in Says
      BY <3>2, SeqFacts
    <3>4. \A n \in DOMAIN f : body[n] \in Keyed(Keys \cup {0})
      BY <3>3 DEF Keyed
    <3>5. SeqOf(body, Keyed(Keys \cup {0}))
      BY <3>2, <3>4, SeqOfMapped
    <3> HIDE DEF body
    <3> QED
      BY <2>3, <3>1, <3>5, BeginTypes, StepLeft DEF Import, body
  <2>4. CASE Abort(w)
    <3>1. flow' = [flow EXCEPT ![w] = Idle] /\ left' = left
      BY <2>4 DEF Abort
    <3> QED
      BY <3>1, FlowStep, RequestFacts DEF FlowOK
  <2> QED
    BY <2>1, <2>2, <2>3, <2>4
<1> QED
  BY <1>1, <1>2, <1>3, PageKept

\* The transaction of a publish, and the board's own operations.
LEMMA CommitSound ==
  ASSUME Sound, NEW w \in Writers, Commit(w)
  PROVE  Sound'
<1> USE DEF Sound, TypeOK
<1> DEFINE s == flow[w].body
<1>1. w \in Taken /\ AppendRevision(s) /\ UNCHANGED <<live, room, kept, left>>
      /\ flow' = [flow EXCEPT ![w] = IF @.restore THEN [stage |-> "clear"] ELSE Idle]
  BY DEF Commit
<1>2. Held(s)
  BY <1>1, HeldByRequest
<1> HIDE DEF s
<1>3. PICK claim \in ClaimsOf(s) : Enough(s, claim) /\ Written(s, claim)
  BY <1>1, CommitWrites
<1>4. PageOK'
  BY <1>2, <1>3, PageByCommit
<1>5. BoardMatchesPage'
  BY <1>2, <1>3, BoardByCommit
<1>6. known' \in [Keys -> Ids \cup {NoId}]
  BY <1>2, <1>3, KnownByCommit
<1>7. LiveOK' /\ NothingIsKept'
  BY <1>1, <1>6 DEF LiveOK, NothingIsKept
<1>8. FlowOK'
  <2>1. PICK e : e \in {Idle, [stage |-> "clear"]} /\ flow' = [flow EXCEPT ![w] = e]
    BY <1>1
  <2>2. Request(e)
    BY <2>1, RequestFacts
  <2> QED
    BY <1>1, <2>1, <2>2, FlowStep DEF FlowOK
<1> QED
  BY <1>4, <1>5, <1>7, <1>8

LEMMA ClearSound ==
  ASSUME Sound, NEW w \in Writers, Clear(w)
  PROVE  Sound'
<1> USE DEF Sound, TypeOK
<1> DEFINE f == [flow EXCEPT ![w] = Idle]
<1>1. /\ kept' \in {FALSE, room /\ kept} /\ UNCHANGED page /\ room' = room /\ left' = left
      /\ IF room THEN flow' = f /\ UNCHANGED <<live, known>> ELSE Forgotten(f)
  BY DEF Clear
<1>2. f = [v \in Writers |-> f[v]] /\ \A v \in Writers : Request(f[v])
  BY FlowStep, RequestFacts DEF FlowOK
<1> HIDE DEF f
<1>3. kept' \in BOOLEAN /\ room \in BOOLEAN
  BY <1>1 DEF LiveOK
<1>4. CASE room
  <2>1. flow' = f /\ UNCHANGED <<live, known>>
    BY <1>1, <1>4
  <2>2. FlowOK'
    BY <1>1, <1>2, <2>1 DEF FlowOK
  <2>3. LiveOK' /\ NothingIsKept'
    BY <1>1, <1>3, <1>4, <2>1 DEF LiveOK, NothingIsKept
  <2> QED
    BY <1>1, <2>2, <2>3, PageKept
<1>5. CASE ~room
  <2>1. Forgotten(f)
    BY <1>1, <1>5
  <2>2. FlowOK' /\ LiveOK' /\ live' = <<>>
    BY <1>1, <1>2, <1>3, <2>1, ForgottenTypes DEF FlowOK, LiveOK
  <2> QED
    BY <1>1, <2>2, PageKept DEF NothingIsKept
<1> QED
  BY <1>4, <1>5

LEMMA CardsSound ==
  ASSUME Sound, Retitle \/ DeleteCard
  PROVE  Sound'
<1> USE DEF Sound, TypeOK
<1>1. Step /\ UNCHANGED <<stored, history, live, room, kept, flow, known>>
  BY DEF Retitle, DeleteCard
<1>2. LiveOK' /\ FlowOK' /\ NothingIsKept'
  BY <1>1, StepLeft DEF LiveOK, FlowOK, NothingIsKept
<1>3. \A c \in DOMAIN cards : cards[c] \in [block : Ids, title : Words, detached : BOOLEAN]
  BY DEF PageOK
<1>4. /\ DOMAIN cards' \subseteq DOMAIN cards /\ cards' = [c \in DOMAIN cards' |-> cards'[c]]
      /\ \A c \in DOMAIN cards' : /\ cards'[c] \in [block : Ids, title : Words, detached : BOOLEAN]
                                  /\ cards'[c].block = cards[c].block
                                  /\ cards'[c].detached = cards[c].detached
  <2>1. CASE Retitle
    <3>1. PICK c \in DOMAIN cards, says \in Words : cards' = [cards EXCEPT ![c].title = says]
      BY <2>1 DEF Retitle
    <3> QED
      BY <1>3, <3>1
  <2>2. CASE DeleteCard
    <3>1. PICK c \in DOMAIN cards : cards' = [d \in DOMAIN cards \ {c} |-> cards[d]]
      BY <2>2 DEF DeleteCard
    <3> QED
      BY <1>3, <3>1
  <2> QED
    BY <2>1, <2>2
<1>5. PageOK'
  BY <1>1, <1>4 DEF PageOK
<1>6. BoardMatchesPage'
  <2>1. TaskLines(stored)' = TaskLines(stored)
    BY <1>1 DEF TaskLines, IsTask
  <2> QED
    BY <1>1, <1>4, <2>1 DEF BoardMatchesPage
<1> QED
  BY <1>2, <1>5, <1>6

LEMMA StutterSound ==
  ASSUME Sound, UNCHANGED vars
  PROVE  Sound'
<1>1. PageOK' /\ BoardMatchesPage'
  BY PageKept DEF vars, page, Sound, TypeOK
<1> QED
  BY <1>1 DEF vars, Sound, TypeOK, LiveOK, FlowOK, NothingIsKept

LEMMA NextSound ==
  ASSUME Sound, [Next]_vars
  PROVE  Sound'
<1>1. CASE Next
  BY <1>1, RoomSound, EditSound, RequestSound, CommitSound, ClearSound, CardsSound DEF Next
<1> QED
  BY <1>1, StutterSound

\* In every state the page, the board, the live document and the requests are of their types, the
\* board is the page's, and a document that nobody holds on to is gone.
THEOREM LinesAreSound == Spec => []Sound
<1> QED
  BY FirstPage, NextSound, PTL DEF Spec

\* Whatever order publishes, restores and imports commit in, reconcile_tasks leaves no two cards of
\* one block, every attached card of a line of the page, and no two checklist lines one.
THEOREM BoardAlwaysMatches == Spec => []BoardMatchesPage
<1>1. Sound => BoardMatchesPage
  BY DEF Sound
<1> QED
  BY <1>1, LinesAreSound, PTL

-----------------------------------------------------------------------------
(* The ids that lines keep *)

\* The cards that a line without an id is offered.
Before(s, n)         == {m \in TaskLines(s) : m < n \/ Carried(s, m) # NoId}
Offered(s, claim, n) == Titled(s[n].says) \ {claim[m] : m \in Before(s, n)}

LEMMA AdoptFacts ==
  ASSUME NEW s, NEW claim \in ClaimsOf(s), NEW n \in TaskLines(s), Carried(s, n) = NoId
  PROVE  /\ Offered(s, claim, n) = {} => claim[n] = 0
         /\ Offered(s, claim, n) # {} => claim[n] \in Offered(s, claim, n)
<1> DEFINE byId    == {m \in TaskLines(s) : Carried(s, m) # NoId}
           rest    == TaskLines(s) \ byId
           open(k) == Titled(s[k].says) \ {claim[m] : m \in {m \in rest : m < k} \cup byId}
<1>1. n \in rest
  OBVIOUS
<1>2. {m \in rest : m < n} \cup byId = Before(s, n)
  BY DEF Before
<1>3. \A k \in rest : IF open(k) = {} THEN claim[k] = 0 ELSE claim[k] \in open(k)
  BY DEF ClaimsOf
<1>4. open(n) = Offered(s, claim, n)
  BY <1>2 DEF Offered
<1> HIDE DEF rest, open
<1> QED
  BY <1>1, <1>3, <1>4

\* A line that carries its id stands under it: a checklist line if it is the first that does.
LEMMA CarriedIsKept ==
  ASSUME TypeOK, NEW s, Held(s), NEW claim \in ClaimsOf(s), Enough(s, claim),
         NEW n \in DOMAIN s, s[n].id # NoId,
         n \in TaskLines(s) => \A m \in TaskLines(s) : m < n => s[m].id # s[n].id
  PROVE  Stamped(s, claim)[n].id = s[n].id
<1>1. CASE n \notin TaskLines(s)
  <2>1. n \notin Minted(s, claim)
    BY <1>1 DEF Minted
  <2> QED
    BY <1>1, <2>1, StampedLines
<1>2. CASE n \in TaskLines(s)
  <2>1. \A m \in TaskLines(s) : m < n => s[m].id # s[n].id
    BY <1>2
  <2>2. Carried(s, n) = s[n].id
    BY <2>1 DEF Carried
  <2>3. Carried(s, n) # NoId
    BY <2>2
  <2> QED
    <3>1. CASE claim[n] # 0
      <4>1. cards[claim[n]].block = Carried(s, n)
        BY <1>2, <2>3, <3>1, ClaimFacts
      <4> QED
        BY <1>2, <2>2, <3>1, <4>1, IdsOfTasks
    <3>2. CASE claim[n] = 0
      <4>1. n \notin Minted(s, claim)
        BY <1>2, <2>3, SaysAssumption DEF Minted, TaskLines, IsTask, Tasks
      <4> QED
        BY <1>2, <2>2, <3>2, <4>1, StampedLines
    <3> QED
      BY <3>1, <3>2
<1> QED
  BY <1>1, <1>2

\* A line that was never told its id adopts the one card that has its words and that nothing else
\* can claim.
LEMMA AdoptedIsKept ==
  ASSUME TypeOK, NEW s, Held(s), NEW claim \in ClaimsOf(s), Enough(s, claim),
         NEW n \in DOMAIN s, s[n].id = NoId, s[n].says \in Words,
         NEW id, Titled(s[n].says) # {}, \A c \in Titled(s[n].says) : cards[c].block = id,
         \A m \in TaskLines(s) \ {n} : s[m].id # id /\ (m < n => s[m].says # s[n].says)
  PROVE  Stamped(s, claim)[n].id = id
<1>1. n \in TaskLines(s) /\ Carried(s, n) = NoId
  BY DEF TaskLines, IsTask, Carried
<1>2. /\ 0 \notin DOMAIN cards /\ claim \in [TaskLines(s) -> DOMAIN cards \cup {0}]
      /\ TaskLines(s) \subseteq DOMAIN s /\ DOMAIN s \subseteq Int
  BY ClaimFacts, LinesFacts
<1>3. \A c \in Titled(s[n].says) : c # 0 /\ cards[c].block = id /\ cards[c].title = s[n].says
  BY <1>2 DEF Titled
<1>4. ASSUME NEW m \in Before(s, n)
      PROVE  claim[m] \notin Titled(s[n].says)
  <2>1. m \in TaskLines(s) /\ m \in DOMAIN s /\ m # n
    <3>1. m \in TaskLines(s) /\ (m < n \/ Carried(s, m) # NoId)
      BY DEF Before
    <3>2. m \in DOMAIN s /\ ~(n < n)
      BY <1>2, <3>1
    <3> QED
      BY <1>1, <3>1, <3>2
  <2>2. CASE Carried(s, m) = NoId
    <3> SUFFICES ASSUME claim[m] \in Titled(s[n].says) PROVE FALSE
      OBVIOUS
    <3>1. claim[m] # 0 /\ cards[claim[m]].title = s[n].says
      BY <1>3
    <3>2. claim[m] \in Titled(s[m].says)
      BY <2>1, <2>2, <3>1, AdoptFacts DEF Offered
    <3>3. cards[claim[m]].title = s[m].says
      BY <3>2 DEF Titled
    <3>4. m < n
      BY <2>2 DEF Before
    <3>5. s[m].says # s[n].says
      BY <2>1, <3>4
    <3> QED
      BY <3>1, <3>3, <3>5
  <2>3. CASE Carried(s, m) # NoId
    <3> SUFFICES ASSUME claim[m] \in Titled(s[n].says) PROVE FALSE
      OBVIOUS
    <3>1. claim[m] # 0 /\ cards[claim[m]].block = id
      BY <1>3
    <3>2. cards[claim[m]].block = Carried(s, m)
      BY <2>1, <2>3, <3>1, ClaimFacts
    <3>3. Carried(s, m) = s[m].id
      BY <2>3 DEF Carried
    <3> QED
      BY <2>1, <3>1, <3>2, <3>3
  <2> QED
    BY <2>2, <2>3
<1>5. Offered(s, claim, n) = Titled(s[n].says)
  BY <1>4 DEF Offered
<1>6. claim[n] \in Titled(s[n].says)
  BY <1>1, <1>5, AdoptFacts
<1>7. claim[n] # 0 /\ cards[claim[n]].block = id
  BY <1>3, <1>6
<1> QED
  BY <1>1, <1>7, IdsOfTasks

\* A publish moves only lines that it cannot recognise.
Moved(k) ==
  known[k] # NoId /\ known'[k] # known[k] =>
    \E w \in Taken : \E n \in DOMAIN flow[w].body :
      flow[w].body[n].key = k /\ ~Recognised(flow[w].body, n, known[k])

LEMMA RecognisedIsKept ==
  ASSUME TypeOK, NEW s, Held(s), NEW claim \in ClaimsOf(s), Enough(s, claim),
         NEW n \in DOMAIN s, NEW id, id # NoId, Recognised(s, n, id)
  PROVE  Stamped(s, claim)[n].id = id
<1>1. CASE s[n].id = id
  <2>1. n \in TaskLines(s) => \A m \in TaskLines(s) : m < n => s[m].id # s[n].id
    BY <1>1 DEF Recognised
  <2> QED
    BY <1>1, <2>1, CarriedIsKept
<1>2. CASE s[n].id # id
  <2>1. s[n].id = NoId /\ n \in TaskLines(s) /\ {cards[c].block : c \in Titled(s[n].says)} = {id}
    BY <1>2 DEF Recognised
  <2>2. \A m \in TaskLines(s) \ {n} : s[m].id # id /\ (m < n => s[m].says # s[n].says)
    BY <1>2 DEF Recognised
  <2>3. Titled(s[n].says) # {} /\ \A c \in Titled(s[n].says) : cards[c].block = id
    BY <2>1
  <2>4. s[n].says \in Words
    BY <2>1 DEF TaskLines, IsTask
  <2> QED
    BY <2>1, <2>2, <2>3, <2>4, AdoptedIsKept
<1> QED
  BY <1>1, <1>2

LEMMA CommitMoves ==
  ASSUME TypeOK, NEW w \in Writers, Commit(w), NEW k \in KeysIn(live)
  PROVE  Moved(k)
<1> DEFINE s == flow[w].body
<1>1. w \in Taken /\ AppendRevision(s)
  BY DEF Commit
<1>2. Held(s)
  BY <1>1, HeldByRequest
<1> HIDE DEF s
<1>4. PICK claim \in ClaimsOf(s) : Enough(s, claim) /\ Written(s, claim)
  BY <1>1, CommitWrites
<1>5. k \in Keys
  <2>1. LiveOK
    BY DEF TypeOK
  <2> QED
    BY <2>1, LiveLines DEF KeysIn
<1>6. CASE k \notin KeysIn(s)
  BY <1>4, <1>5, <1>6 DEF Written, Moved
<1>7. CASE k \in KeysIn(s)
  <2> DEFINE n == CHOOSE n \in DOMAIN s : s[n].key = k
  <2>1. n \in DOMAIN s /\ s[n].key = k
    BY <1>7 DEF KeysIn
  <2>2. known'[k] = Stamped(s, claim)[n].id
    BY <1>4, <1>5, <1>7 DEF Written
  <2> HIDE DEF n
  <2>3. known[k] # NoId /\ known'[k] # known[k] => ~Recognised(s, n, known[k])
    BY <1>2, <1>4, <2>1, <2>2, RecognisedIsKept
  <2> QED
    BY <1>1, <2>1, <2>3 DEF Moved, s
<1> QED
  BY <1>6, <1>7

\* Nothing else tells a line that stays another id.
LEMMA NextMoves ==
  ASSUME Sound, [Next]_vars, NEW k \in KeysIn(live) \cap KeysIn(live')
  PROVE  Moved(k)
<1> USE DEF Sound, TypeOK
<1>1. CASE \E w \in Writers : Commit(w)
  BY <1>1, CommitMoves
<1>2. CASE Open
  <2>1. ~room /\ live # <<>>
    BY <1>2, EmptyLive DEF Open
  <2>2. kept
    BY <2>1 DEF NothingIsKept
  <2> QED
    BY <1>2, <2>2 DEF Open, Moved
<1>3. ASSUME NEW f, Forgotten(f) PROVE FALSE
  BY <1>3, EmptyLive DEF Forgotten
<1>4. CASE Close \/ \E w \in Writers : Clear(w)
  <2>1. known' = known
    BY <1>3, <1>4 DEF Close, Clear
  <2> QED
    BY <2>1 DEF Moved
<1>5. CASE Type \/ Copy
  <2>1. known' = [known EXCEPT ![NewKey] = NoId] /\ FreeKeys # {}
    BY <1>5 DEF Type, Copy
  <2>2. k # NewKey
    BY <2>1, NewKeyFacts
  <2>3. known \in [Keys -> Ids \cup {NoId}]
    BY DEF LiveOK
  <2> QED
    BY <2>1, <2>2, <2>3 DEF Moved
<1>6. CASE Remove
  <2>1. PICK n \in DOMAIN live :
          live' = Without(live, n) /\ known' = [known EXCEPT ![live[n].key] = NoId]
    BY <1>6 DEF Remove
  <2>2. k # live[n].key
    BY <2>1, LiveWithout DEF KeysIn
  <2>3. known \in [Keys -> Ids \cup {NoId}]
    BY DEF LiveOK
  <2> QED
    BY <2>1, <2>2, <2>3 DEF Moved
<1>7. CASE \/ Reword \/ Retitle \/ DeleteCard \/ UNCHANGED vars
           \/ \E w \in Writers : Snapshot(w) \/ ReadRevision(w) \/ Import(w) \/ Abort(w)
  <2>1. known' = known
    BY <1>7 DEF Reword, Retitle, DeleteCard, vars, Snapshot, ReadRevision, Import, Abort
  <2> QED
    BY <2>1 DEF Moved
<1> QED
  BY <1>1, <1>2, <1>4, <1>5, <1>6, <1>7 DEF Next

\* A line that stays in the live document keeps its id, and so its card and the embeds of its
\* section, at every publish that can recognise it, and at every restore, import and opening.
THEOREM RecognisedLinesAlwaysKeepTheirIds == Spec => RecognisedLinesKeepTheirIds
<1>1. Sound /\ [Next]_vars => \A k \in KeysIn(live) \cap KeysIn(live') : Moved(k)
  BY NextMoves
<1>2. (\A k \in KeysIn(live) \cap KeysIn(live') : Moved(k)) =>
        \A k \in KeysIn(live) \cap KeysIn(live') :
          known[k] # NoId /\ known'[k] # known[k] =>
            \E w \in Taken : \E n \in DOMAIN flow[w].body :
              flow[w].body[n].key = k /\ ~Recognised(flow[w].body, n, known[k])
  BY DEF Moved
<1> QED
  BY <1>1, <1>2, LinesAreSound, PTL DEF Spec, RecognisedLinesKeepTheirIds

=============================================================================
