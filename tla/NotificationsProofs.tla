------------------------- MODULE NotificationsProofs -------------------------
(***************************************************************************)
(* Proofs about Notifications, for any notifications, keys and numbers of  *)
(* places.                                                                 *)
(*                                                                         *)
(* First what the functions of the queue keep.  Every one of them leads    *)
(* from a healthy queue (one card moves, none is there twice, no more than *)
(* there are places) to a healthy one, brings no notification but those it *)
(* is given, and shows none but those it is asked for or has shown.  Then  *)
(* the steps of the program: what a snapshot tells of is told by every     *)
(* later one, or has been shown.                                           *)
(***************************************************************************)
EXTENDS Notifications, FiniteSetTheorems, NaturalsInduction, TLAPS

-----------------------------------------------------------------------------
(* What is kept of a sequence                                               *)

\* Induction over the natural numbers, for a set of them: a number that is missing would
\* leave a least one.
LEMMA NaturalInduction ==
  ASSUME NEW S, 0 \in S, \A n \in Nat : n \in S => n + 1 \in S
  PROVE  Nat \subseteq S
<1> DEFINE missing == Nat \ S
<1>1. OpToRel(<, Nat) = {ss \in Nat \X Nat : ss[1] < ss[2]}
  BY DEF OpToRel
<1>2. SUFFICES ASSUME missing # {} PROVE FALSE
  OBVIOUS
<1>3. \E n \in missing : \A m \in missing : ~(<<m, n>> \in OpToRel(<, Nat))
  BY <1>2, WFMin, NatLessThanWellFounded
<1>4. PICK n \in missing : \A m \in missing : ~(m < n)
  BY <1>1, <1>3
<1>5. n # 0 /\ n - 1 \in Nat /\ n - 1 \notin missing
  BY <1>4
<1> QED
  BY <1>5

LEMMA TakenFinite ==
  ASSUME NEW s, NEW n \in Nat, NEW S
  PROVE  IsFiniteSet(Taken(s, n, S)) /\ Cardinality(Taken(s, n, S)) \in 0..n
<1>1. IsFiniteSet(1..n) /\ Cardinality(1..n) = n
  BY FS_Interval
<1>2. Taken(s, n, S) \subseteq 1..n
  BY DEF Taken
<1>3. IsFiniteSet(Taken(s, n, S)) /\ Cardinality(Taken(s, n, S)) <= n
  BY <1>1, <1>2, FS_Subset
<1> QED
  BY <1>3, FS_CardinalityType

\* One more place is one more that is taken, or none.
LEMMA OneMoreTaken ==
  ASSUME NEW s, NEW n \in Nat, NEW S
  PROVE  /\ s[n + 1] \in S =>
              /\ Taken(s, n + 1, S) = Taken(s, n, S) \cup {n + 1}
              /\ Cardinality(Taken(s, n + 1, S)) = Cardinality(Taken(s, n, S)) + 1
         /\ s[n + 1] \notin S => Taken(s, n + 1, S) = Taken(s, n, S)
<1>1. 1..(n + 1) = (1..n) \cup {n + 1} /\ n + 1 \notin 1..n
  OBVIOUS
<1>2. n + 1 \notin Taken(s, n, S)
  BY <1>1 DEF Taken
<1>3. s[n + 1] \in S => Taken(s, n + 1, S) = Taken(s, n, S) \cup {n + 1}
  BY <1>1 DEF Taken
<1>4. s[n + 1] \notin S => Taken(s, n + 1, S) = Taken(s, n, S)
  BY <1>1 DEF Taken
<1> QED
  BY <1>2, <1>3, <1>4, TakenFinite, FS_AddElement

\* Each rank is that of a place that is taken.
LEMMA EveryRankIsTaken ==
  ASSUME NEW s, NEW n \in Nat, NEW S
  PROVE  \A p \in 1..Cardinality(Taken(s, n, S)) :
           \E m \in Taken(s, n, S) : Cardinality(Taken(s, m, S)) = p
<1> DEFINE Has(l) == \A p \in 1..Cardinality(Taken(s, l, S)) :
                       \E m \in Taken(s, l, S) : Cardinality(Taken(s, m, S)) = p
           N == {l \in Nat : Has(l)}
<1>1. 0 \in N
  <2>1. Taken(s, 0, S) = {}
    BY DEF Taken
  <2>2. Cardinality(Taken(s, 0, S)) = 0
    BY <2>1, FS_EmptySet
  <2> QED
    BY <2>2
<1>2. ASSUME NEW l \in Nat, l \in N
      PROVE  l + 1 \in N
  <2>1. CASE s[l + 1] \notin S
    BY <1>2, <2>1, OneMoreTaken
  <2>2. CASE s[l + 1] \in S
    <3>1. /\ Taken(s, l + 1, S) = Taken(s, l, S) \cup {l + 1}
          /\ Cardinality(Taken(s, l + 1, S)) = Cardinality(Taken(s, l, S)) + 1
          /\ Cardinality(Taken(s, l, S)) \in Nat
      BY <2>2, OneMoreTaken, TakenFinite
    <3>2. ASSUME NEW p \in 1..Cardinality(Taken(s, l + 1, S))
          PROVE  \E m \in Taken(s, l + 1, S) : Cardinality(Taken(s, m, S)) = p
      <4>1. CASE p \in 1..Cardinality(Taken(s, l, S))
        BY <1>2, <3>1, <4>1
      <4>2. CASE p = Cardinality(Taken(s, l + 1, S))
        BY <3>1, <4>2
      <4> QED
        BY <3>1, <4>1, <4>2
    <3> QED
      BY <3>2
  <2> QED
    BY <2>1, <2>2
<1>3. Nat \subseteq N
  <2> HIDE DEF N
  <2> QED
    BY <1>1, <1>2, NaturalInduction
<1> QED
  BY <1>3

\* What is kept was there and is of the set, and no two of it were at one place.
LEMMA KeptFacts ==
  ASSUME NEW T, NEW s \in Seq(T), NEW S
  PROVE  /\ Kept(s, S) \in Seq(T)
         /\ Len(Kept(s, S)) = Cardinality(Taken(s, Len(s), S))
         /\ Len(Kept(s, S)) \in 0..Len(s)
         /\ \E at \in [DOMAIN Kept(s, S) -> DOMAIN s] :
              /\ \A p \in DOMAIN Kept(s, S) : Kept(s, S)[p] = s[at[p]] /\ s[at[p]] \in S
              /\ \A p, r \in DOMAIN Kept(s, S) : at[p] = at[r] => p = r
<1> DEFINE taken == Taken(s, Len(s), S)
           card == Cardinality(taken)
           Place(p) == CHOOSE m \in taken : Cardinality(Taken(s, m, S)) = p
           kept == [p \in 1..card |-> s[Place(p)]]
           at == [p \in 1..card |-> Place(p)]
<1>1. Len(s) \in Nat /\ card \in 0..Len(s) /\ card \in Nat
  BY TakenFinite
<1>2. \A p \in 1..card : Place(p) \in taken /\ Cardinality(Taken(s, Place(p), S)) = p
  BY <1>1, EveryRankIsTaken
<1>3. \A m \in taken : m \in DOMAIN s /\ s[m] \in S
  BY DEF Taken
<1>4. Kept(s, S) = kept
  BY DEF Kept
<1>5. \A m \in DOMAIN s : s[m] \in T
  OBVIOUS
<1> HIDE DEF taken, card, Place
<1>6. \A p \in 1..card : kept[p] \in T
  BY <1>2, <1>3, <1>5
<1>7. kept \in Seq(T) /\ Len(kept) = card /\ DOMAIN kept = 1..card
  BY <1>1, <1>6
<1>8. /\ at \in [1..card -> DOMAIN s]
      /\ \A p \in 1..card : kept[p] = s[at[p]] /\ s[at[p]] \in S
      /\ \A p, r \in 1..card : at[p] = at[r] => p = r
  BY <1>2, <1>3
<1> HIDE DEF kept, at
<1>9. /\ Kept(s, S) \in Seq(T) /\ Len(Kept(s, S)) = card
      /\ DOMAIN Kept(s, S) = 1..card
  BY <1>4, <1>7
<1>10. at \in [DOMAIN Kept(s, S) -> DOMAIN s]
  BY <1>8, <1>9
<1>11. \A p \in DOMAIN Kept(s, S) : Kept(s, S)[p] = s[at[p]] /\ s[at[p]] \in S
  BY <1>4, <1>8, <1>9
<1>12. \A p, r \in DOMAIN Kept(s, S) : at[p] = at[r] => p = r
  BY <1>8, <1>9
<1>13. \E f \in [DOMAIN Kept(s, S) -> DOMAIN s] :
         /\ \A p \in DOMAIN Kept(s, S) : Kept(s, S)[p] = s[f[p]] /\ s[f[p]] \in S
         /\ \A p, r \in DOMAIN Kept(s, S) : f[p] = f[r] => p = r
  BY <1>10, <1>11, <1>12, Zenon
<1>14. Len(Kept(s, S)) = Cardinality(Taken(s, Len(s), S)) /\ Len(Kept(s, S)) \in 0..Len(s)
  BY <1>1, <1>9 DEF card, taken
<1> QED
  BY <1>9, <1>13, <1>14, Zenon

LEMMA KeptSet ==
  ASSUME NEW T, NEW s \in Seq(T), NEW S
  PROVE  /\ ToSet(Kept(s, S)) \subseteq ToSet(s) \cap S
         /\ IsInjective(s) => IsInjective(Kept(s, S))
<1> DEFINE kept == Kept(s, S)
<1>1. PICK at \in [DOMAIN kept -> DOMAIN s] :
        /\ \A p \in DOMAIN kept : kept[p] = s[at[p]] /\ s[at[p]] \in S
        /\ \A p, r \in DOMAIN kept : at[p] = at[r] => p = r
  BY KeptFacts
<1> HIDE DEF kept
<1>2. \A p \in DOMAIN kept : kept[p] \in ToSet(s) \cap S
  BY <1>1 DEF ToSet
<1>3. ToSet(kept) \subseteq ToSet(s) \cap S
  BY <1>2 DEF ToSet
<1>4. ASSUME IsInjective(s), NEW p \in DOMAIN kept, NEW r \in DOMAIN kept, kept[p] = kept[r]
      PROVE  p = r
  <2>1. s[at[p]] = s[at[r]] /\ at[p] \in DOMAIN s /\ at[r] \in DOMAIN s
    BY <1>1, <1>4
  <2>2. at[p] = at[r]
    BY <1>4, <2>1 DEF IsInjective
  <2> QED
    BY <1>1, <2>2
<1>5. IsInjective(s) => IsInjective(kept)
  BY <1>4 DEF IsInjective
<1> QED
  BY <1>3, <1>5 DEF kept

LEMMA RemovedSet ==
  ASSUME NEW T, NEW s \in Seq(T), NEW S
  PROVE  /\ Removed(s, S) \in Seq(T) /\ Len(Removed(s, S)) \in 0..Len(s)
         /\ ToSet(Removed(s, S)) \subseteq ToSet(s) \ S
         /\ IsInjective(s) => IsInjective(Removed(s, S))
BY KeptFacts, KeptSet DEF Removed

-----------------------------------------------------------------------------
(* A queue that is in order                                                 *)

Stages == {"entering", "visible", "exiting"}

Card == [id : Notices, stage : Stages]

Keys == {KeyOf[n] : n \in Notices}

Reasons == {"panel", "detail", "sync"}

Subject == Notices \cup {None}

Queue == [visible : Seq(Card), pending : Seq(Notices), awaiting : Seq(Notices),
          exits : Seq(Notices), keys : SUBSET Keys, paused : SUBSET Reasons,
          detail : Subject, max : Nat]

\* At most one card moves, and what awaits its acknowledgement counts as one that does.
OneMoves(visible, awaiting) ==
  /\ \A i, j \in DOMAIN visible :
       visible[i].stage # "visible" /\ visible[j].stage # "visible" => i = j
  /\ Len(awaiting) <= 1
  /\ awaiting # <<>> => \A i \in DOMAIN visible : visible[i].stage = "visible"

\* No two cards are of one notification.
OneCardEach(visible) == \A i, j \in DOMAIN visible : visible[i].id = visible[j].id => i = j

\* No notification is there twice, and the keys of all are taken.
Distinct(q) ==
  /\ OneCardEach(q.visible) /\ IsInjective(q.pending)
  /\ VisibleIds(q) \cap ToSet(q.pending) = {}
  /\ VisibleIds(q) \cap ToSet(q.awaiting) = {}
  /\ ToSet(q.pending) \cap ToSet(q.awaiting) = {}
  /\ \A n \in Ids(q) : KeyOf[n] \in q.keys

\* Every card has a place.
Fits(q) == Len(q.visible) + Len(q.awaiting) <= q.max

Healthy == {q \in Queue : OneMoves(q.visible, q.awaiting) /\ Distinct(q) /\ Fits(q)}

\* What is before the reader's eyes, was, or is about to leave without being so again.
Shows(q) ==
  {n \in Notices : \/ \E e \in ToSet(q.visible) : e.id = n /\ e.stage # "entering"
                   \/ n \in ToSet(q.exits) \/ n = q.detail}

\* From q to r nothing came but what is new, and nothing was shown but what was asked for.
From(r, q, new, asked) ==
  /\ Ids(r) \subseteq Ids(q) \cup new
  /\ Shows(r) \subseteq Shows(q) \cup asked

LEMMA FromItself == \A q : From(q, q, {}, {})
BY DEF From

LEMMA FromThrough ==
  ASSUME NEW q, NEW r, NEW s, NEW n1, NEW a1, NEW n2, NEW a2, NEW n3, NEW a3,
         From(r, q, n1, a1), From(s, r, n2, a2),
         n1 \cup n2 \subseteq n3, a1 \cup a2 \subseteq a3
  PROVE  From(s, q, n3, a3)
BY DEF From

\* The parts of a healthy queue.
LEMMA HealthyParts ==
  ASSUME NEW q \in Healthy
  PROVE  /\ q \in Queue /\ OneMoves(q.visible, q.awaiting) /\ Distinct(q)
         /\ Fits(q) /\ q.visible \in Seq(Card) /\ q.pending \in Seq(Notices) /\ q.awaiting \in Seq(Notices)
         /\ q.exits \in Seq(Notices) /\ q.keys \in SUBSET Keys
         /\ q.paused \in SUBSET Reasons /\ q.detail \in Subject /\ q.max \in Nat
         /\ Len(q.visible) \in Nat /\ Len(q.awaiting) \in Nat
BY DEF Healthy, Queue

LEMMA SetOfSeq ==
  ASSUME NEW T, NEW s \in Seq(T)
  PROVE  ToSet(s) \subseteq T
BY DEF ToSet

\* Who is in a queue.
LEMMA Members ==
  ASSUME NEW q
  PROVE  /\ \A n : n \in VisibleIds(q) <=> \E i \in DOMAIN q.visible : q.visible[i].id = n
         /\ Ids(q) = VisibleIds(q) \cup ToSet(q.pending) \cup ToSet(q.awaiting)
BY DEF VisibleIds, ToSet, Ids

LEMMA NothingQueued == <<>> \in Seq(Notices)
OBVIOUS

\* Arithmetic on the lengths of two sequences.
LEMMA LengthsWithin ==
  ASSUME NEW x, NEW y, NEW a \in Nat, Len(x) \in Nat, Len(y) \in Nat
  PROVE  /\ \A b \in Nat : Len(x) + Len(y) <= a /\ a <= b => Len(x) + Len(y) <= b
         /\ ~(Len(x) + Len(y) >= a) => Len(x) + Len(y) < a
OBVIOUS

\* Nothing of what makes a queue healthy depends on the fields that are not named here.
LEMMA OtherFields ==
  ASSUME NEW q \in Healthy, NEW r \in Queue,
         r.visible = q.visible, r.pending = q.pending, r.awaiting = q.awaiting,
         q.keys \subseteq r.keys, q.max <= r.max
  PROVE  r \in Healthy /\ Ids(r) = Ids(q) /\ VisibleIds(r) = VisibleIds(q)
<1>1. Ids(r) = Ids(q) /\ VisibleIds(r) = VisibleIds(q)
  BY DEF Ids, VisibleIds
<1>2. OneMoves(q.visible, q.awaiting) /\ Distinct(q)
  BY HealthyParts
<1>3. Distinct(r)
  BY <1>1, <1>2 DEF Distinct
<1>4. /\ r.max \in Nat /\ q.max \in Nat /\ Fits(q)
      /\ Len(q.visible) \in Nat /\ Len(q.awaiting) \in Nat
  BY HealthyParts DEF Queue
<1>5. Fits(r)
  BY <1>4, LengthsWithin DEF Fits
<1> QED
  BY <1>1, <1>2, <1>3, <1>5 DEF Healthy

LEMMA SettledKeeps ==
  ASSUME NEW q \in Healthy
  PROVE  Settled(q) \in Healthy /\ From(Settled(q), q, {}, {})
<1> DEFINE r == [q EXCEPT !.exits = <<>>, !.paused = {}, !.detail = None]
<1>0. q \in Queue
  BY HealthyParts
<1>1. /\ r \in Queue /\ r.visible = q.visible /\ r.pending = q.pending /\ r.awaiting = q.awaiting
      /\ r.keys = q.keys /\ r.max = q.max /\ r.exits = <<>> /\ r.detail = None
  BY <1>0, NothingQueued DEF Queue, Subject
<1> HIDE DEF r
<1>2. r.max \in Nat /\ r.max <= r.max
  BY <1>1 DEF Queue
<1>3. r \in Healthy /\ Ids(r) = Ids(q)
  BY <1>1, <1>2, OtherFields
<1>4. Shows(r) \subseteq Shows(q)
  BY <1>1, NoticesType DEF Shows, ToSet
<1>5. From(r, q, {}, {})
  BY <1>3, <1>4 DEF From
<1>6. Settled(q) \in {q, r}
  BY DEF Settled, r
<1> QED
  BY <1>3, <1>5, <1>6, FromItself

LEMMA PausedKeeps ==
  ASSUME NEW q \in Healthy, NEW reason \in Reasons
  PROVE  Paused(q, reason) \in Healthy /\ From(Paused(q, reason), q, {}, {})
<1> DEFINE r == [q EXCEPT !.paused = @ \cup {reason}]
<1>0. q \in Queue
  BY HealthyParts
<1>1. /\ r \in Queue /\ r.visible = q.visible /\ r.pending = q.pending /\ r.awaiting = q.awaiting
      /\ r.keys = q.keys /\ r.max = q.max /\ r.exits = q.exits /\ r.detail = q.detail
  BY <1>0 DEF Queue
<1> HIDE DEF r
<1>2. r.max \in Nat /\ r.max <= r.max
  BY <1>1 DEF Queue
<1>3. r \in Healthy /\ Ids(r) = Ids(q)
  BY <1>1, <1>2, OtherFields
<1>4. From(r, q, {}, {})
  BY <1>1, <1>3 DEF Shows, From
<1> QED
  BY <1>3, <1>4, SettledKeeps DEF Paused, r

LEMMA ResumedKeeps ==
  ASSUME NEW q \in Healthy, NEW reason
  PROVE  Resumed(q, reason) \in Healthy /\ From(Resumed(q, reason), q, {}, {})
<1> DEFINE s == Settled(q)
           r == [s EXCEPT !.paused = @ \ {reason}]
<1>0. s \in Healthy /\ From(s, q, {}, {}) /\ s \in Queue
  BY SettledKeeps, HealthyParts
<1> HIDE DEF s
<1>1. /\ r \in Queue /\ r.visible = s.visible /\ r.pending = s.pending /\ r.awaiting = s.awaiting
      /\ r.keys = s.keys /\ r.max = s.max /\ r.exits = s.exits /\ r.detail = s.detail
  BY <1>0 DEF Queue
<1> HIDE DEF r
<1>2. r.max \in Nat /\ r.max <= r.max
  BY <1>1 DEF Queue
<1>3. r \in Healthy /\ Ids(r) = Ids(s)
  BY <1>0, <1>1, <1>2, OtherFields
<1>4. From(r, q, {}, {})
  BY <1>0, <1>1, <1>3 DEF Shows, From
<1> QED
  BY <1>3, <1>4 DEF Resumed, r, s

-----------------------------------------------------------------------------
(* What comes next                                                          *)

\* Where nothing moves, the first that waits enters.
LEMMA PromotedKeeps ==
  ASSUME NEW q \in Healthy
  PROVE  Promoted(q) \in Healthy /\ From(Promoted(q), q, {}, {})
<1> DEFINE e == [id |-> Head(q.pending), stage |-> "entering"]
           r == [q EXCEPT !.visible = Append(@, e), !.pending = Tail(@)]
<1>1. CASE q.pending = <<>> \/ Len(q.visible) + Len(q.awaiting) >= q.max \/ Moving(q)
  BY <1>1, FromItself DEF Promoted
<1>2. CASE ~(q.pending = <<>> \/ Len(q.visible) + Len(q.awaiting) >= q.max \/ Moving(q))
  <2>0. /\ q \in Queue /\ OneMoves(q.visible, q.awaiting) /\ Distinct(q)
        /\ q.visible \in Seq(Card) /\ q.pending \in Seq(Notices) /\ q.awaiting \in Seq(Notices)
        /\ q.max \in Nat /\ Len(q.visible) \in Nat /\ Len(q.awaiting) \in Nat
    BY HealthyParts
  <2>a. q.pending # <<>> /\ q.awaiting = <<>>
        /\ \A i \in DOMAIN q.visible : q.visible[i].stage = "visible"
    BY <1>2 DEF Moving, ToSet
  <2>b. Len(q.visible) + Len(q.awaiting) < q.max
    BY <1>2, <2>0, LengthsWithin
  <2>1. /\ q.pending # <<>> /\ Len(q.visible) + Len(q.awaiting) < q.max /\ q.awaiting = <<>>
        /\ \A i \in DOMAIN q.visible : q.visible[i].stage = "visible"
    BY <2>a, <2>b
  <2>2. /\ Head(q.pending) \in Notices /\ Tail(q.pending) \in Seq(Notices) /\ e \in Card
        /\ Len(q.pending) >= 1 /\ Head(q.pending) = q.pending[1]
        /\ Len(Tail(q.pending)) = Len(q.pending) - 1 /\ Len(q.pending) \in Nat
        /\ \A i \in 1..Len(Tail(q.pending)) : Tail(q.pending)[i] = q.pending[i + 1]
    BY <2>0, <2>1 DEF Card, Stages
  <2>3. /\ e.id = Head(q.pending) /\ e.stage = "entering"
    OBVIOUS
  <2>4. Promoted(q) = r
    BY <1>2 DEF Promoted
  <2> HIDE DEF e
  <2>5. Append(q.visible, e) \in Seq(Card)
    BY <2>0, <2>2
  <2>6. /\ r \in Queue /\ r.visible = Append(q.visible, e) /\ r.pending = Tail(q.pending)
        /\ r.awaiting = q.awaiting /\ r.exits = q.exits /\ r.keys = q.keys /\ r.detail = q.detail
        /\ r.max = q.max
    BY <2>0, <2>2, <2>5 DEF Queue
  <2> HIDE DEF r
  <2>7. /\ DOMAIN r.visible = 1..(Len(q.visible) + 1) /\ Len(r.visible) = Len(q.visible) + 1
        /\ DOMAIN q.visible = 1..Len(q.visible)
        /\ \A i \in 1..Len(q.visible) : r.visible[i] = q.visible[i]
        /\ r.visible[Len(q.visible) + 1] = e
    BY <2>0, <2>2, <2>6
  <2>8. OneMoves(r.visible, r.awaiting)
    BY <2>0, <2>1, <2>6, <2>7 DEF OneMoves
  <2>9. Fits(r)
    BY <2>0, <2>1, <2>6, <2>7 DEF Fits
  <2>10. /\ VisibleIds(r) = VisibleIds(q) \cup {e.id}
         /\ ToSet(r.pending) \subseteq ToSet(q.pending) \ {e.id} /\ e.id \in ToSet(q.pending)
         /\ IsInjective(r.pending)
    <3>0. DOMAIN r.visible = DOMAIN q.visible \cup {Len(q.visible) + 1}
      BY <2>0, <2>7
    <3>1. \A n : n \in VisibleIds(r) <=> n \in VisibleIds(q) \/ n = e.id
      <4> DEFINE l == Len(q.visible) + 1
      <4>1. \A i \in DOMAIN q.visible : i \in DOMAIN r.visible /\ r.visible[i] = q.visible[i]
        BY <2>7, <3>0
      <4>2. l \in DOMAIN r.visible /\ r.visible[l] = e
        BY <2>7, <3>0
      <4>3. DOMAIN r.visible = DOMAIN q.visible \cup {l}
        BY <3>0
      <4> HIDE DEF l
      <4>4. ASSUME NEW n, n \in VisibleIds(r)
            PROVE  n \in VisibleIds(q) \/ n = e.id
        <5>1. PICK i \in DOMAIN r.visible : r.visible[i].id = n
          BY <4>4, Members
        <5>2. CASE i \in DOMAIN q.visible
          BY <4>1, <5>1, <5>2, Members
        <5>3. CASE i = l
          BY <4>2, <5>1, <5>3
        <5> QED
          BY <4>3, <5>2, <5>3
      <4>5. ASSUME NEW n, n \in VisibleIds(q)
            PROVE  n \in VisibleIds(r)
        <5>1. PICK i \in DOMAIN q.visible : q.visible[i].id = n
          BY <4>5, Members
        <5> QED
          BY <4>1, <5>1, Members
      <4>6. e.id \in VisibleIds(r)
        BY <4>2, Members
      <4> QED
        BY <4>4, <4>5, <4>6
    <3>2. /\ DOMAIN q.pending = 1..Len(q.pending)
          /\ DOMAIN r.pending = 1..(Len(q.pending) - 1)
          /\ \A i \in DOMAIN r.pending : r.pending[i] = q.pending[i + 1] /\ i + 1 \in DOMAIN q.pending
      BY <2>0, <2>2, <2>6
    <3>3. IsInjective(q.pending)
      BY <2>0 DEF Distinct
    <3>4. ASSUME NEW i \in DOMAIN r.pending
          PROVE  r.pending[i] # e.id
      <4>1. i \in Nat /\ i + 1 # 1 /\ 1 \in DOMAIN q.pending /\ i + 1 \in DOMAIN q.pending
        BY <2>2, <3>2
      <4>2. q.pending[i + 1] # q.pending[1]
        BY <3>3, <4>1 DEF IsInjective
      <4> QED
        BY <2>2, <2>3, <3>2, <4>2
    <3>5. ASSUME NEW i \in DOMAIN r.pending, NEW j \in DOMAIN r.pending, r.pending[i] = r.pending[j]
          PROVE  i = j
      <4>1. i + 1 = j + 1
        BY <3>2, <3>3, <3>5 DEF IsInjective
      <4> QED
        BY <2>2, <3>2, <4>1
    <3>6. ToSet(r.pending) \subseteq ToSet(q.pending)
      BY <3>2 DEF ToSet
    <3>7. e.id \notin ToSet(r.pending)
      BY <3>4 DEF ToSet
    <3>8. 1 \in DOMAIN q.pending /\ q.pending[1] = e.id
      BY <2>2, <2>3, <3>2
    <3>9. e.id \in ToSet(q.pending)
      BY <3>8 DEF ToSet
    <3>10. IsInjective(r.pending)
      BY <3>5 DEF IsInjective
    <3> QED
      BY <3>1, <3>6, <3>7, <3>9, <3>10
  <2>11. Ids(r) = Ids(q)
    <3>1. ToSet(q.pending) \subseteq ToSet(r.pending) \cup {e.id}
      <4>1. ASSUME NEW i \in DOMAIN q.pending
            PROVE  q.pending[i] \in ToSet(r.pending) \cup {e.id}
        <5>1. CASE i = 1
          BY <2>2, <2>3, <5>1
        <5>2. CASE i # 1
          <6>0. /\ DOMAIN q.pending = 1..Len(q.pending) /\ Len(q.pending) \in Nat
                /\ r.pending = Tail(q.pending) /\ q.pending # << >>
            BY <2>0, <2>2, <2>6
          <6>9. i - 1 \in 1..(Len(q.pending) - 1) /\ (i - 1) + 1 = i
            BY <4>1, <5>2, <6>0
          <6>1. i - 1 \in DOMAIN r.pending /\ r.pending[i - 1] = q.pending[i]
            BY <2>0, <6>0, <6>9
          <6> QED
            BY <6>1 DEF ToSet
        <5> QED
          BY <5>1, <5>2
      <4> QED
        BY <4>1 DEF ToSet
    <3> QED
      BY <2>6, <2>10, <3>1 DEF Ids
  <2>12. Distinct(r)
    <3>1. OneCardEach(r.visible)
      <4>1. \A i \in DOMAIN q.visible : q.visible[i].id # e.id
        BY <2>0, <2>10, Members DEF Distinct
      <4>2. OneCardEach(q.visible) /\ DOMAIN r.visible = DOMAIN q.visible \cup {Len(q.visible) + 1}
        BY <2>0, <2>7 DEF Distinct
      <4> QED
        BY <2>7, <4>1, <4>2 DEF OneCardEach
    <3> QED
      BY <2>0, <2>1, <2>6, <2>10, <2>11, <3>1 DEF Distinct
  <2>13. Shows(r) \subseteq Shows(q)
    <3>1. ASSUME NEW d \in ToSet(r.visible), d.stage # "entering"
          PROVE  d \in ToSet(q.visible)
      <4>1. PICK i \in DOMAIN r.visible : r.visible[i] = d
        BY <3>1 DEF ToSet
      <4>2. i # Len(q.visible) + 1
        BY <2>3, <2>7, <3>1, <4>1
      <4>3. i \in 1..Len(q.visible)
        BY <2>0, <2>7, <4>2
      <4>4. i \in DOMAIN q.visible /\ q.visible[i] = d
        BY <2>7, <4>1, <4>3
      <4> QED
        BY <4>4 DEF ToSet
    <3> QED
      BY <2>6, <3>1 DEF Shows
  <2> QED
    BY <2>4, <2>6, <2>8, <2>9, <2>11, <2>12, <2>13 DEF Healthy, From
<1> QED
  BY <1>1, <1>2

\* A card at another stage.
LEMMA WithStageFacts ==
  ASSUME NEW q \in Healthy, NEW n \in Notices, NEW stage \in Stages
  PROVE  LET r == WithStage(q, n, stage)
         IN  /\ r \in Queue /\ Distinct(r) /\ Fits(r)
             /\ r.pending = q.pending /\ r.awaiting = q.awaiting /\ r.exits = q.exits
             /\ r.keys = q.keys /\ r.detail = q.detail /\ r.max = q.max
             /\ DOMAIN r.visible = DOMAIN q.visible
             /\ \A i \in DOMAIN q.visible :
                  r.visible[i].stage = IF q.visible[i].id = n THEN stage ELSE q.visible[i].stage
             /\ From(r, q, {}, {n})
<1> DEFINE e == [id |-> n, stage |-> stage]
           v == [i \in DOMAIN q.visible |-> IF q.visible[i].id = n THEN e ELSE q.visible[i]]
           r == [q EXCEPT !.visible = v]
<1>0. q \in Queue /\ Distinct(q) /\ Fits(q)
  BY HealthyParts
<1>1. e \in Card /\ e.id = n /\ e.stage = stage
  BY DEF Card
<1>2. q.visible \in Seq(Card) /\ Len(q.visible) \in Nat /\ DOMAIN q.visible = 1..Len(q.visible)
  BY <1>0 DEF Queue
<1> HIDE DEF e
<1>3. v \in Seq(Card) /\ Len(v) = Len(q.visible) /\ DOMAIN v = DOMAIN q.visible
  BY <1>1, <1>2
<1>4. \A i \in DOMAIN q.visible : v[i] = IF q.visible[i].id = n THEN e ELSE q.visible[i]
  OBVIOUS
<1>5. WithStage(q, n, stage) = r
  BY DEF WithStage, e
<1> HIDE DEF v
<1>6. /\ r \in Queue /\ r.visible = v /\ r.pending = q.pending /\ r.awaiting = q.awaiting
      /\ r.exits = q.exits /\ r.keys = q.keys /\ r.detail = q.detail /\ r.max = q.max
  BY <1>0, <1>3 DEF Queue
<1> HIDE DEF r
<1>7. \A i \in DOMAIN q.visible : r.visible[i].id = q.visible[i].id
  BY <1>1, <1>4, <1>6
<1>8. VisibleIds(r) = VisibleIds(q)
  <2>1. DOMAIN r.visible = DOMAIN q.visible
    BY <1>3, <1>6
  <2>2. \A m : m \in VisibleIds(r) <=> m \in VisibleIds(q)
    BY <1>7, <2>1, Members
  <2> QED
    BY <2>2
<1>9. Ids(r) = Ids(q)
  BY <1>6, <1>8 DEF Ids
<1>10. OneCardEach(r.visible)
  BY <1>0, <1>3, <1>6, <1>7 DEF OneCardEach, Distinct
<1>11. Distinct(r)
  BY <1>0, <1>6, <1>8, <1>9, <1>10 DEF Distinct
<1>12. Shows(r) \subseteq Shows(q) \cup {n}
  <2>1. ASSUME NEW d \in ToSet(r.visible), d.stage # "entering", d.id # n
        PROVE  d \in ToSet(q.visible)
    BY <1>1, <1>3, <1>4, <1>6, <2>1 DEF ToSet
  <2> QED
    BY <1>6, <2>1 DEF Shows
<1>13. From(r, q, {}, {n})
  BY <1>9, <1>12 DEF From
<1>14. Fits(r)
  BY <1>0, <1>3, <1>6 DEF Fits
<1> QED
  BY <1>1, <1>3, <1>4, <1>5, <1>6, <1>11, <1>13, <1>14

\* What does not move is visible.
LEMMA Still ==
  ASSUME NEW q, ~Moving(q)
  PROVE  q.awaiting = <<>> /\ \A i \in DOMAIN q.visible : q.visible[i].stage = "visible"
BY DEF Moving, ToSet

LEMMA ShownAgain ==
  ASSUME NEW q \in Healthy, NEW n \in Notices
  PROVE  WithStage(q, n, "visible") \in Healthy /\ From(WithStage(q, n, "visible"), q, {}, {n})
<1> DEFINE r == WithStage(q, n, "visible")
<1>0. q \in Queue /\ Distinct(q) /\ OneMoves(q.visible, q.awaiting) /\ "visible" \in Stages
  BY HealthyParts DEF Stages
<1>1. /\ r \in Queue /\ Distinct(r) /\ Fits(r)
      /\ r.pending = q.pending /\ r.awaiting = q.awaiting /\ r.exits = q.exits
      /\ r.keys = q.keys /\ r.detail = q.detail /\ r.max = q.max
      /\ DOMAIN r.visible = DOMAIN q.visible
      /\ \A i \in DOMAIN q.visible :
           r.visible[i].stage = IF q.visible[i].id = n THEN "visible" ELSE q.visible[i].stage
      /\ From(r, q, {}, {n})
  BY <1>0, WithStageFacts
<1> HIDE DEF r
<1>2. \A i \in DOMAIN r.visible : r.visible[i].stage \in {"visible", q.visible[i].stage}
  BY <1>1
<1>3. OneMoves(r.visible, r.awaiting)
  BY <1>0, <1>1, <1>2 DEF OneMoves
<1> QED
  BY <1>1, <1>3 DEF Healthy, r

\* Where nothing moves, one card may begin to exit.
LEMMA ExitBegins ==
  ASSUME NEW q \in Healthy, NEW n \in Notices, ~Moving(q)
  PROVE  WithStage(q, n, "exiting") \in Healthy /\ From(WithStage(q, n, "exiting"), q, {}, {n})
<1> DEFINE r == WithStage(q, n, "exiting")
<1>0. q \in Queue /\ Distinct(q) /\ "exiting" \in Stages
  BY HealthyParts DEF Stages
<1>1. /\ r \in Queue /\ Distinct(r) /\ Fits(r)
      /\ r.pending = q.pending /\ r.awaiting = q.awaiting /\ r.exits = q.exits
      /\ r.keys = q.keys /\ r.detail = q.detail /\ r.max = q.max
      /\ DOMAIN r.visible = DOMAIN q.visible
      /\ \A i \in DOMAIN q.visible :
           r.visible[i].stage = IF q.visible[i].id = n THEN "exiting" ELSE q.visible[i].stage
      /\ From(r, q, {}, {n})
  BY <1>0, WithStageFacts
<1> HIDE DEF r
<1>2. \A i \in DOMAIN r.visible : r.visible[i].stage = "visible" \/ q.visible[i].id = n
  BY <1>1, Still
<1>3. q.awaiting = <<>> /\ Len(q.awaiting) = 0
  BY Still
<1>4. OneMoves(r.visible, r.awaiting)
  BY <1>0, <1>1, <1>2, <1>3 DEF OneMoves, Distinct, OneCardEach
<1> QED
  BY <1>1, <1>4 DEF Healthy, r

\* The requests to exit, only.
LEMMA ExitsChanged ==
  ASSUME NEW q \in Healthy, NEW x \in Seq(Notices), NEW asked, ToSet(x) \subseteq Shows(q) \cup asked
  PROVE  LET r == [q EXCEPT !.exits = x]
         IN  /\ r \in Healthy /\ From(r, q, {}, asked)
             /\ r.visible = q.visible /\ r.awaiting = q.awaiting /\ r.exits = x
<1> DEFINE r == [q EXCEPT !.exits = x]
<1>0. q \in Queue
  BY HealthyParts
<1>1. /\ r \in Queue /\ r.visible = q.visible /\ r.pending = q.pending /\ r.awaiting = q.awaiting
      /\ r.keys = q.keys /\ r.max = q.max /\ r.exits = x /\ r.detail = q.detail
  BY <1>0 DEF Queue
<1> HIDE DEF r
<1>2. r.max \in Nat /\ r.max <= r.max
  BY <1>1 DEF Queue
<1>3. r \in Healthy /\ Ids(r) = Ids(q)
  BY <1>1, <1>2, OtherFields
<1>4. From(r, q, {}, asked)
  BY <1>1, <1>3 DEF From, Shows
<1> QED
  BY <1>1, <1>3, <1>4 DEF r

LEMMA HeadAndTail ==
  ASSUME NEW T, NEW s \in Seq(T), s # <<>>
  PROVE  Head(s) \in ToSet(s) /\ Tail(s) \in Seq(T) /\ ToSet(Tail(s)) \subseteq ToSet(s)
<1>1. /\ Len(s) \in Nat /\ Len(s) >= 1 /\ DOMAIN s = 1..Len(s) /\ Head(s) = s[1] /\ Tail(s) \in Seq(T)
      /\ DOMAIN Tail(s) = 1..(Len(s) - 1) /\ \A i \in 1..(Len(s) - 1) : Tail(s)[i] = s[i + 1]
  OBVIOUS
<1> QED
  BY <1>1 DEF ToSet

LEMMA NextExitKeeps ==
  ASSUME NEW q \in Healthy
  PROVE  NextExit(q) \in Healthy /\ From(NextExit(q), q, {}, {})
<1> DEFINE asked == Kept(q.exits, VisibleIds(q))
           r == [q EXCEPT !.exits = asked]
           s == [q EXCEPT !.exits = Tail(asked)]
<1>1. q.exits \in Seq(Notices) /\ ToSet(q.exits) \subseteq Notices
  BY HealthyParts, SetOfSeq
<1>2. asked \in Seq(Notices) /\ ToSet(asked) \subseteq ToSet(q.exits)
  BY <1>1, KeptFacts, KeptSet
<1>3. ToSet(q.exits) \subseteq Shows(q)
  BY <1>1 DEF Shows
<1>4. NextExit(q) = IF asked = <<>> \/ Moving(q) THEN r ELSE WithStage(s, Head(asked), "exiting")
  BY DEF NextExit
<1> HIDE DEF asked
<1>5. r \in Healthy /\ From(r, q, {}, {})
  BY <1>2, <1>3, ExitsChanged
<1>6. ASSUME asked # <<>>, ~Moving(q)
      PROVE  /\ WithStage(s, Head(asked), "exiting") \in Healthy
             /\ From(WithStage(s, Head(asked), "exiting"), q, {}, {})
  <2>1. /\ Head(asked) \in Notices /\ Head(asked) \in Shows(q)
        /\ Tail(asked) \in Seq(Notices) /\ ToSet(Tail(asked)) \subseteq Shows(q) \cup {}
    BY <1>1, <1>2, <1>3, <1>6, HeadAndTail
  <2>2. s \in Healthy /\ From(s, q, {}, {}) /\ s.visible = q.visible /\ s.awaiting = q.awaiting
    BY <2>1, ExitsChanged
  <2> HIDE DEF s
  <2>3. ~Moving(s)
    BY <1>6, <2>2 DEF Moving
  <2>4. /\ WithStage(s, Head(asked), "exiting") \in Healthy
        /\ From(WithStage(s, Head(asked), "exiting"), s, {}, {Head(asked)})
    BY <2>1, <2>2, <2>3, ExitBegins
  <2> QED
    BY <2>1, <2>2, <2>4 DEF From
<1> QED
  BY <1>4, <1>5, <1>6

LEMMA ContinuedKeeps ==
  ASSUME NEW q \in Healthy, NEW fillFirst
  PROVE  Continued(q, fillFirst) \in Healthy /\ From(Continued(q, fillFirst), q, {}, {})
<1>1. NextExit(q) \in Healthy /\ From(NextExit(q), q, {}, {})
  BY NextExitKeeps
<1>2. Promoted(q) \in Healthy /\ From(Promoted(q), q, {}, {})
  BY PromotedKeeps
<1>3. Promoted(NextExit(q)) \in Healthy /\ From(Promoted(NextExit(q)), NextExit(q), {}, {})
  BY <1>1, PromotedKeeps
<1>4. Continued(q, fillFirst) \in {q, Promoted(q), NextExit(q), Promoted(NextExit(q))}
  BY DEF Continued
<1>5. From(Promoted(NextExit(q)), q, {}, {})
  BY <1>1, <1>3 DEF From
<1> QED
  BY <1>1, <1>2, <1>3, <1>4, <1>5, FromItself

\* What is visible stays so, unless it was asked to exit.
LEMMA ContinuedLeavesVisible ==
  ASSUME NEW q \in Healthy, NEW n \in Notices, IsAt(q, n, "visible"), n \notin ToSet(q.exits)
  PROVE  /\ IsAt(NextExit(q), n, "visible")
         /\ IsAt(Continued(q, FALSE), n, "visible")
<1>1. ASSUME NEW s \in Healthy, IsAt(s, n, "visible")
      PROVE  IsAt(Promoted(s), n, "visible")
  <2> DEFINE e == [id |-> Head(s.pending), stage |-> "entering"]
             v == Append(s.visible, e)
  <2>1. CASE Promoted(s) = s
    BY <1>1, <2>1
  <2>2. CASE Promoted(s) # s
    <3>1. s \in Queue /\ s.visible \in Seq(Card)
      BY HealthyParts
    <3>2. Promoted(s).visible = v
      BY <2>2, <3>1 DEF Promoted, Queue
    <3> HIDE DEF e
    <3>3. ToSet(s.visible) \subseteq ToSet(v)
      <4>1. \A i \in DOMAIN s.visible : i \in DOMAIN v /\ v[i] = s.visible[i]
        BY <3>1
      <4> QED
        BY <4>1 DEF ToSet
    <3> QED
      BY <1>1, <3>2, <3>3 DEF IsAt
  <2> QED
    BY <2>1, <2>2
<1>2. IsAt(NextExit(q), n, "visible")
  <2> DEFINE asked == Kept(q.exits, VisibleIds(q))
             r == [q EXCEPT !.exits = asked]
             s == [q EXCEPT !.exits = Tail(asked)]
  <2>1. q.exits \in Seq(Notices) /\ ToSet(q.exits) \subseteq Notices /\ q \in Queue
    BY HealthyParts, SetOfSeq
  <2>2. asked \in Seq(Notices) /\ ToSet(asked) \subseteq ToSet(q.exits)
    BY <2>1, KeptFacts, KeptSet
  <2>3. NextExit(q) = IF asked = <<>> \/ Moving(q) THEN r ELSE WithStage(s, Head(asked), "exiting")
    BY DEF NextExit
  <2>4. r.visible = q.visible /\ s.visible = q.visible
    BY <2>1 DEF Queue
  <2> HIDE DEF asked, r, s
  <2>5. IsAt(r, n, "visible")
    BY <2>4 DEF IsAt
  <2>6. ASSUME asked # <<>>
        PROVE  IsAt(WithStage(s, Head(asked), "exiting"), n, "visible")
    <3>1. Head(asked) # n
      BY <2>2, <2>6, HeadAndTail
    <3>2. PICK i \in DOMAIN q.visible : q.visible[i] = [id |-> n, stage |-> "visible"]
      BY DEF IsAt, ToSet
    <3> DEFINE t == WithStage(s, Head(asked), "exiting")
    <3>3. [s EXCEPT !.visible = [k \in DOMAIN s.visible |->
              IF s.visible[k].id = Head(asked) THEN [id |-> Head(asked), stage |-> "exiting"]
              ELSE s.visible[k]]].visible
          = [k \in DOMAIN s.visible |->
              IF s.visible[k].id = Head(asked) THEN [id |-> Head(asked), stage |-> "exiting"]
              ELSE s.visible[k]]
      BY <2>1 DEF Queue, s
    <3>4. i \in DOMAIN t.visible /\ t.visible[i] = q.visible[i]
      BY <2>4, <3>1, <3>2, <3>3 DEF WithStage
    <3> QED
      BY <3>2, <3>4 DEF IsAt, ToSet
  <2> QED
    BY <2>3, <2>5, <2>6
<1>3. NextExit(q) \in Healthy
  BY NextExitKeeps
<1>4. Continued(q, FALSE) \in {q, NextExit(q), Promoted(NextExit(q))}
  BY DEF Continued
<1> QED
  BY <1>1, <1>2, <1>3, <1>4

-----------------------------------------------------------------------------
(* Arrivals                                                                 *)

LEMMA AddedToSeq ==
  ASSUME NEW T, NEW s \in Seq(T), NEW e \in T
  PROVE  /\ Append(s, e) \in Seq(T) /\ ToSet(Append(s, e)) = ToSet(s) \cup {e}
         /\ IsInjective(s) /\ e \notin ToSet(s) => IsInjective(Append(s, e))
<1> DEFINE a == Append(s, e)
<1>1. /\ a \in Seq(T) /\ Len(s) \in Nat /\ DOMAIN s = 1..Len(s) /\ DOMAIN a = 1..(Len(s) + 1)
      /\ \A i \in DOMAIN s : a[i] = s[i]
      /\ a[Len(s) + 1] = e
  OBVIOUS
<1>2. DOMAIN a = DOMAIN s \cup {Len(s) + 1} /\ Len(s) + 1 \notin DOMAIN s
  BY <1>1
<1> HIDE DEF a
<1>3. ToSet(a) = ToSet(s) \cup {e}
  BY <1>1, <1>2 DEF ToSet
<1>4. IsInjective(s) /\ e \notin ToSet(s) => IsInjective(a)
  BY <1>1, <1>2 DEF ToSet, IsInjective
<1> QED
  BY <1>1, <1>3, <1>4 DEF a

LEMMA EnqueuedKeeps ==
  ASSUME NEW q \in Healthy, NEW n \in Notices
  PROVE  Enqueued(q, n) \in Healthy /\ From(Enqueued(q, n), q, {n}, {})
<1> DEFINE s == Settled(q)
           r == [s EXCEPT !.pending = Append(@, n), !.keys = @ \cup {KeyOf[n]}]
<1>1. s \in Healthy /\ From(s, q, {}, {})
  BY SettledKeeps
<1>2. Enqueued(q, n) = IF KeyOf[n] \in s.keys THEN s ELSE Continued(r, FALSE)
  BY DEF Enqueued
<1> HIDE DEF s
<1>3. ASSUME KeyOf[n] \notin s.keys
      PROVE  r \in Healthy /\ From(r, s, {n}, {})
  <2>0. /\ s \in Queue /\ OneMoves(s.visible, s.awaiting) /\ Distinct(s) /\ Fits(s)
        /\ s.pending \in Seq(Notices) /\ s.keys \in SUBSET Keys
    BY <1>1, HealthyParts
  <2>1. Append(s.pending, n) \in Seq(Notices) /\ s.keys \cup {KeyOf[n]} \in SUBSET Keys
    BY <2>0, AddedToSeq DEF Keys
  <2>2. /\ r \in Queue /\ r.visible = s.visible /\ r.pending = Append(s.pending, n)
        /\ r.awaiting = s.awaiting /\ r.exits = s.exits /\ r.keys = s.keys \cup {KeyOf[n]}
        /\ r.detail = s.detail /\ r.max = s.max
    BY <2>0, <2>1 DEF Queue
  <2> HIDE DEF r
  <2>3. n \notin Ids(s)
    BY <1>3, <2>0 DEF Distinct
  <2>4. /\ ToSet(r.pending) = ToSet(s.pending) \cup {n} /\ IsInjective(r.pending)
        /\ VisibleIds(r) = VisibleIds(s) /\ Ids(r) = Ids(s) \cup {n}
    <3>1. IsInjective(s.pending) /\ n \notin ToSet(s.pending)
      BY <2>0, <2>3 DEF Distinct, Ids
    <3>2. ToSet(r.pending) = ToSet(s.pending) \cup {n} /\ IsInjective(r.pending)
      BY <2>0, <2>2, <3>1, AddedToSeq
    <3>3. VisibleIds(r) = VisibleIds(s)
      BY <2>2 DEF VisibleIds
    <3> QED
      BY <2>2, <3>2, <3>3 DEF Ids
  <2>5. Distinct(r)
    BY <2>0, <2>2, <2>3, <2>4 DEF Distinct, Ids
  <2>6. Fits(r)
    BY <2>0, <2>2 DEF Fits
  <2>7. Shows(r) = Shows(s)
    BY <2>2 DEF Shows
  <2> QED
    BY <2>0, <2>2, <2>4, <2>5, <2>6, <2>7 DEF Healthy, From
<1> HIDE DEF r
<1>4. ASSUME KeyOf[n] \notin s.keys
      PROVE  Continued(r, FALSE) \in Healthy /\ From(Continued(r, FALSE), r, {}, {})
  BY <1>3, <1>4, ContinuedKeeps
<1> QED
  BY <1>1, <1>2, <1>3, <1>4 DEF From

LEMMA ReleasedKeeps ==
  ASSUME NEW q \in Healthy, NEW key
  PROVE  Released(q, key) \in Healthy /\ From(Released(q, key), q, {}, {})
<1> DEFINE r == [q EXCEPT !.keys = @ \ {key}]
<1>0. q \in Queue /\ OneMoves(q.visible, q.awaiting) /\ Distinct(q) /\ Fits(q)
  BY HealthyParts
<1>1. /\ r \in Queue /\ r.visible = q.visible /\ r.pending = q.pending /\ r.awaiting = q.awaiting
      /\ r.keys = q.keys \ {key} /\ r.max = q.max /\ r.exits = q.exits /\ r.detail = q.detail
  BY <1>0 DEF Queue
<1>2. Released(q, key) = IF \E n \in Ids(q) : KeyOf[n] = key THEN q ELSE r
  BY DEF Released
<1> HIDE DEF r
<1>3. Ids(r) = Ids(q) /\ VisibleIds(r) = VisibleIds(q) /\ Shows(r) = Shows(q) /\ Fits(r)
  BY <1>0, <1>1 DEF Ids, VisibleIds, Shows, Fits
<1>4. ASSUME ~\E n \in Ids(q) : KeyOf[n] = key
      PROVE  r \in Healthy
  <2>1. Distinct(r)
    BY <1>0, <1>1, <1>3, <1>4 DEF Distinct
  <2> QED
    BY <1>0, <1>1, <1>3, <2>1 DEF Healthy
<1>5. From(r, q, {}, {})
  BY <1>3 DEF From
<1> QED
  BY <1>2, <1>4, <1>5, FromItself

-----------------------------------------------------------------------------
(* Departures                                                               *)

LEMMA JoinedSeqs ==
  ASSUME NEW T, NEW s \in Seq(T), NEW t \in Seq(T)
  PROVE  /\ s \o t \in Seq(T) /\ ToSet(s \o t) = ToSet(s) \cup ToSet(t)
         /\ IsInjective(s) /\ IsInjective(t) /\ ToSet(s) \cap ToSet(t) = {} => IsInjective(s \o t)
<1> DEFINE j == s \o t
<1>1. /\ j \in Seq(T) /\ Len(s) \in Nat /\ Len(t) \in Nat
      /\ DOMAIN s = 1..Len(s) /\ DOMAIN t = 1..Len(t) /\ DOMAIN j = 1..(Len(s) + Len(t))
      /\ \A i \in DOMAIN s : i \in DOMAIN j /\ j[i] = s[i]
      /\ \A i \in DOMAIN t : Len(s) + i \in DOMAIN j /\ j[Len(s) + i] = t[i]
  OBVIOUS
<1>2. \A i \in DOMAIN j : \/ i \in DOMAIN s /\ j[i] = s[i]
                          \/ i - Len(s) \in DOMAIN t /\ j[i] = t[i - Len(s)]
  <2>1. ASSUME NEW i \in DOMAIN j, i \notin DOMAIN s
        PROVE  i - Len(s) \in DOMAIN t /\ j[i] = t[i - Len(s)]
    <3>1. i - Len(s) \in DOMAIN t /\ Len(s) + (i - Len(s)) = i
      BY <1>1, <2>1
    <3> QED
      BY <1>1, <3>1
  <2> QED
    BY <1>1, <2>1
<1> HIDE DEF j
<1>3. ToSet(j) = ToSet(s) \cup ToSet(t)
  BY <1>1, <1>2 DEF ToSet
<1>4. ASSUME IsInjective(s), IsInjective(t), ToSet(s) \cap ToSet(t) = {},
             NEW i \in DOMAIN j, NEW k \in DOMAIN j, j[i] = j[k]
      PROVE  i = k
  <2>1. CASE i \in DOMAIN s /\ j[i] = s[i] /\ k \in DOMAIN s /\ j[k] = s[k]
    BY <1>4, <2>1 DEF IsInjective
  <2>2. CASE /\ i - Len(s) \in DOMAIN t /\ j[i] = t[i - Len(s)]
             /\ k - Len(s) \in DOMAIN t /\ j[k] = t[k - Len(s)]
    <3>1. i - Len(s) = k - Len(s)
      BY <1>4, <2>2 DEF IsInjective
    <3> QED
      BY <1>1, <3>1
  <2>3. CASE i \in DOMAIN s /\ j[i] = s[i] /\ k - Len(s) \in DOMAIN t /\ j[k] = t[k - Len(s)]
    BY <1>4, <2>3 DEF ToSet
  <2>4. CASE k \in DOMAIN s /\ j[k] = s[k] /\ i - Len(s) \in DOMAIN t /\ j[i] = t[i - Len(s)]
    BY <1>4, <2>4 DEF ToSet
  <2> QED
    BY <1>2, <2>1, <2>2, <2>3, <2>4
<1>5. IsInjective(s) /\ IsInjective(t) /\ ToSet(s) \cap ToSet(t) = {} => IsInjective(j)
  BY <1>4 DEF IsInjective
<1> QED
  BY <1>1, <1>3, <1>5 DEF j

LEMMA FunctionSeq ==
  ASSUME NEW T, NEW n \in Nat, NEW f \in [1..n -> T]
  PROVE  f \in Seq(T) /\ Len(f) = n /\ DOMAIN f = 1..n
OBVIOUS

\* The notifications of some cards, in their order.
LEMMA IdsOfCards ==
  ASSUME NEW v \in Seq(Card)
  PROVE  LET ids == [i \in DOMAIN v |-> v[i].id]
         IN  /\ ids \in Seq(Notices) /\ ToSet(ids) = {e.id : e \in ToSet(v)}
             /\ DOMAIN ids = DOMAIN v /\ (OneCardEach(v) <=> IsInjective(ids))
<1> DEFINE ids == [i \in DOMAIN v |-> v[i].id]
<1>a. Len(v) \in Nat /\ DOMAIN v = 1..Len(v) /\ \A i \in DOMAIN v : v[i] \in Card
  OBVIOUS
<1>1. \A i \in DOMAIN v : v[i].id \in Notices
  BY <1>a DEF Card
<1>2. ids \in Seq(Notices) /\ DOMAIN ids = DOMAIN v
  BY <1>a, <1>1
<1>3. ToSet(ids) = {e.id : e \in ToSet(v)}
  BY DEF ToSet
<1>4. OneCardEach(v) <=> IsInjective(ids)
  BY DEF OneCardEach, IsInjective
<1> QED
  BY <1>2, <1>3, <1>4

\* Those that are asked exit, and no one else.
LEMMA AskedToExitKeeps ==
  ASSUME NEW q \in Healthy, NEW ids
  PROVE  /\ AskedToExit(q, ids) \in Healthy /\ From(AskedToExit(q, ids), q, {}, ids)
         /\ \A n \in Notices : IsAt(q, n, "visible") /\ n \notin ToSet(q.exits) \cup ids
              => IsAt(AskedToExit(q, ids), n, "visible")
<1> DEFINE asks(e) == e.stage # "exiting" /\ e.id \notin ToSet(q.exits)
           asked == Kept(q.visible, {e \in Cards(q, ids) : asks(e)})
           new == [i \in DOMAIN asked |-> asked[i].id]
           x == q.exits \o new
           r == [q EXCEPT !.exits = x]
<1>1. q.visible \in Seq(Card) /\ q.exits \in Seq(Notices) /\ ToSet(q.exits) \subseteq Notices
  BY HealthyParts, SetOfSeq
<1>2. asked \in Seq(Card) /\ ToSet(asked) \subseteq Cards(q, ids)
  BY <1>1, KeptFacts, KeptSet
<1>3. AskedToExit(q, ids) = IF asked = <<>> THEN q ELSE NextExit(r)
  BY DEF AskedToExit
<1> HIDE DEF asked
<1>4. new \in Seq(Notices) /\ ToSet(new) \subseteq ids
  BY <1>2, IdsOfCards DEF Cards
<1> HIDE DEF new
<1>5. x \in Seq(Notices) /\ ToSet(x) \subseteq ToSet(q.exits) \cup ids
  BY <1>1, <1>4, JoinedSeqs
<1> HIDE DEF x
<1>6. ToSet(x) \subseteq Shows(q) \cup ids
  BY <1>1, <1>5 DEF Shows
<1>7. r \in Healthy /\ From(r, q, {}, ids) /\ r.visible = q.visible /\ r.exits = x
  BY <1>5, <1>6, ExitsChanged
<1> HIDE DEF r
<1>8. NextExit(r) \in Healthy /\ From(NextExit(r), r, {}, {})
  BY <1>7, NextExitKeeps
<1>9. From(NextExit(r), q, {}, ids)
  BY <1>7, <1>8 DEF From
<1>10. From(q, q, {}, ids)
  BY DEF From
<1>11. ASSUME NEW n \in Notices, IsAt(q, n, "visible"), n \notin ToSet(q.exits) \cup ids
       PROVE  IsAt(NextExit(r), n, "visible")
  <2>1. IsAt(r, n, "visible") /\ n \notin ToSet(r.exits)
    BY <1>5, <1>7, <1>11 DEF IsAt
  <2> QED
    BY <1>7, <2>1, ContinuedLeavesVisible
<1> QED
  BY <1>3, <1>8, <1>9, <1>10, <1>11

LEMMA DetailClosedKeeps ==
  ASSUME NEW q \in Healthy
  PROVE  DetailClosed(q) \in Healthy /\ From(DetailClosed(q), q, {}, {})
<1> DEFINE r == [q EXCEPT !.detail = None]
<1>0. q \in Queue
  BY HealthyParts
<1>1. /\ r \in Queue /\ r.visible = q.visible /\ r.pending = q.pending /\ r.awaiting = q.awaiting
      /\ r.keys = q.keys /\ r.max = q.max /\ r.exits = q.exits /\ r.detail = None
  BY <1>0 DEF Queue, Subject
<1>2. DetailClosed(q) = IF q.detail = None THEN Settled(q) ELSE Resumed(r, "detail")
  BY DEF DetailClosed
<1> HIDE DEF r
<1>3. r.max \in Nat /\ r.max <= r.max
  BY <1>1 DEF Queue
<1>4. r \in Healthy /\ Ids(r) = Ids(q)
  BY <1>1, <1>3, OtherFields
<1>5. From(r, q, {}, {})
  BY <1>1, <1>4, NoticesType DEF Shows, From
<1>6. Resumed(r, "detail") \in Healthy /\ From(Resumed(r, "detail"), q, {}, {})
  BY <1>4, <1>5, ResumedKeeps DEF From
<1> QED
  BY <1>2, <1>6, SettledKeeps

LEMMA ClosedForKeeps ==
  ASSUME NEW q \in Healthy, NEW n
  PROVE  ClosedFor(q, n) \in Healthy /\ From(ClosedFor(q, n), q, {}, {})
BY DetailClosedKeeps, FromItself DEF ClosedFor

LEMMA DetailOpenedKeeps ==
  ASSUME NEW q \in Healthy, NEW n \in Notices
  PROVE  /\ DetailOpened(q, n) \in Healthy
         /\ From(DetailOpened(q, n), q, {}, {DetailOpened(q, n).detail})
<1> DEFINE p == Paused(q, "detail")
           r == [p EXCEPT !.detail = n]
<1>1. p \in Healthy /\ From(p, q, {}, {}) /\ p \in Queue
  BY PausedKeeps, HealthyParts DEF Reasons
<1>2. DetailOpened(q, n) = IF n \in VisibleIds(q) /\ ~IsAt(q, n, "exiting") THEN r ELSE q
  BY DEF DetailOpened
<1> HIDE DEF p
<1>3. /\ r \in Queue /\ r.visible = p.visible /\ r.pending = p.pending /\ r.awaiting = p.awaiting
      /\ r.keys = p.keys /\ r.max = p.max /\ r.exits = p.exits /\ r.detail = n
  BY <1>1 DEF Queue, Subject
<1> HIDE DEF r
<1>4. r.max \in Nat /\ r.max <= r.max
  BY <1>3 DEF Queue
<1>5. r \in Healthy /\ Ids(r) = Ids(p)
  BY <1>1, <1>3, <1>4, OtherFields
<1>6. From(r, q, {}, {n})
  BY <1>1, <1>3, <1>5 DEF Shows, From
<1>7. From(q, q, {}, {q.detail})
  BY DEF From
<1> QED
  BY <1>2, <1>3, <1>5, <1>6, <1>7

\* Only what the reader has before the eyes, and what the detail was about, is shown after it.
LEMMA DetailDismissedKeeps ==
  ASSUME NEW q \in Healthy, NEW n \in Notices
  PROVE  LET r == DetailDismissed(q, n)
         IN  r \in Healthy /\ From(r, q, {}, {n} \cup {m \in Notices : IsAt(r, m, "visible")})
<1> DEFINE here(e) == IF e.stage = "entering" THEN [e EXCEPT !.stage = "visible"] ELSE e
           v == [i \in DOMAIN q.visible |-> here(q.visible[i])]
           p == [q EXCEPT !.visible = v]
           r == AskedToExit(p, {n})
<1>0. q \in Queue /\ OneMoves(q.visible, q.awaiting) /\ Distinct(q) /\ Fits(q) /\ q.visible \in Seq(Card)
  BY HealthyParts
<1>1. DetailDismissed(q, n) = r
  BY DEF DetailDismissed
<1>2. Len(q.visible) \in Nat /\ DOMAIN q.visible = 1..Len(q.visible) /\ \A i \in DOMAIN q.visible : q.visible[i] \in Card
  BY <1>0
<1>3. \A e \in Card : /\ here(e) \in Card /\ here(e).id = e.id
                      /\ here(e).stage = IF e.stage = "entering" THEN "visible" ELSE e.stage
  BY DEF Card, Stages
<1>4. \A i \in DOMAIN q.visible :
        /\ v[i] \in Card /\ v[i].id = q.visible[i].id
        /\ v[i].stage = IF q.visible[i].stage = "entering" THEN "visible" ELSE q.visible[i].stage
  <2> HIDE DEF here
  <2> QED
    BY <1>2, <1>3
<1>5. v \in Seq(Card) /\ Len(v) = Len(q.visible) /\ DOMAIN v = DOMAIN q.visible
  <2>1. v \in [1..Len(q.visible) -> Card]
    BY <1>2, <1>4
  <2> HIDE DEF v
  <2> QED
    BY <1>2, <2>1, FunctionSeq
<1> HIDE DEF v
<1>6. /\ p \in Queue /\ p.visible = v /\ p.pending = q.pending /\ p.awaiting = q.awaiting
      /\ p.exits = q.exits /\ p.keys = q.keys /\ p.detail = q.detail /\ p.max = q.max
  BY <1>0, <1>5 DEF Queue
<1> HIDE DEF p
<1>7. \A m : m \in VisibleIds(p) <=> m \in VisibleIds(q)
  BY <1>4, <1>5, <1>6, Members
<1>8. VisibleIds(p) = VisibleIds(q) /\ Ids(p) = Ids(q)
  BY <1>6, <1>7 DEF Ids
<1>9. OneCardEach(v)
  BY <1>0, <1>4, <1>5 DEF Distinct, OneCardEach
<1>10. Distinct(p)
  BY <1>0, <1>6, <1>8, <1>9 DEF Distinct
<1>11. OneMoves(v, p.awaiting)
  BY <1>0, <1>4, <1>5, <1>6 DEF OneMoves
<1>12. p \in Healthy
  BY <1>0, <1>5, <1>6, <1>10, <1>11 DEF Healthy, Fits
<1>13. /\ r \in Healthy /\ From(r, p, {}, {n})
       /\ \A m \in Notices : IsAt(p, m, "visible") /\ m \notin ToSet(p.exits) \cup {n} => IsAt(r, m, "visible")
  BY <1>12, AskedToExitKeeps
<1> HIDE DEF r
<1>14. ASSUME NEW m \in Shows(p), m # n, ~IsAt(r, m, "visible")
       PROVE  m \in Shows(q)
  <2>1. CASE m \in ToSet(p.exits) \/ m = p.detail
    BY <1>6, <2>1 DEF Shows
  <2>2. CASE m \notin ToSet(p.exits) /\ m # p.detail
    <3>1. m \in Notices /\ ~IsAt(p, m, "visible")
      BY <1>13, <1>14, <2>2 DEF Shows
    <3>2. PICK i \in DOMAIN v : v[i].id = m /\ v[i].stage # "entering"
      BY <1>6, <2>2 DEF Shows, ToSet
    <3>3. v[i].stage # "visible"
      <4>1. v[i].stage = "visible" => v[i] = [id |-> m, stage |-> "visible"]
        BY <1>4, <1>5, <3>2 DEF Card
      <4> QED
        BY <1>6, <3>1, <3>2, <4>1 DEF IsAt, ToSet
    <3>4. q.visible[i].id = m /\ q.visible[i].stage # "entering" /\ i \in DOMAIN q.visible
      BY <1>4, <1>5, <3>2, <3>3
    <3> QED
      BY <3>1, <3>4 DEF Shows, ToSet
  <2> QED
    BY <2>1, <2>2
<1>15. Shows(r) \subseteq Shows(q) \cup {n} \cup {m \in Notices : IsAt(r, m, "visible")}
  BY <1>13, <1>14 DEF From, Shows
<1> QED
  BY <1>1, <1>8, <1>13, <1>15 DEF From

\* What has entered is before the reader's eyes.
LEMMA HasEnteredKeeps ==
  ASSUME NEW q \in Healthy, NEW n \in Notices
  PROVE  LET r == HasEntered(q, n)
         IN  r \in Healthy /\ From(r, q, {}, {m \in Notices : IsAt(r, m, "visible")})
<1> DEFINE p == WithStage(q, n, "visible")
           r == Continued(p, FALSE)
<1>1. HasEntered(q, n) = IF IsAt(q, n, "entering") THEN r ELSE q
  BY DEF HasEntered
<1>2. CASE ~IsAt(q, n, "entering")
  BY <1>1, <1>2 DEF From
<1>3. CASE IsAt(q, n, "entering")
  <2>1. /\ p \in Healthy /\ From(p, q, {}, {n}) /\ p.exits = q.exits
        /\ DOMAIN p.visible = DOMAIN q.visible
    BY ShownAgain, WithStageFacts DEF Stages
  <2>2. IsAt(p, n, "visible")
    <3>1. PICK i \in DOMAIN q.visible : q.visible[i] = [id |-> n, stage |-> "entering"]
      BY <1>3 DEF IsAt, ToSet
    <3>2. q \in Queue /\ q.visible[i].id = n
      BY <3>1, HealthyParts
    <3>3. p.visible[i] = [id |-> n, stage |-> "visible"]
      BY <3>1, <3>2 DEF WithStage, Queue
    <3> QED
      BY <2>1, <3>3 DEF IsAt, ToSet
  <2> HIDE DEF p
  <2>3. r \in Healthy /\ From(r, p, {}, {})
    BY <2>1, ContinuedKeeps
  <2>4. n \in ToSet(q.exits) \/ IsAt(r, n, "visible")
    BY <2>1, <2>2, ContinuedLeavesVisible
  <2>5. n \in Shows(q) \/ IsAt(r, n, "visible")
    BY <2>4 DEF Shows
  <2>6. From(r, q, {}, {m \in Notices : IsAt(r, m, "visible")})
    BY <2>1, <2>3, <2>5 DEF From
  <2> QED
    BY <1>1, <1>3, <2>3, <2>6
<1> QED
  BY <1>2, <1>3

\* The one whose time has run out is visible.
LEMMA ExpiredKeeps ==
  ASSUME NEW q \in Healthy, MayExpire(q)
  PROVE  Expired(q) \in Healthy /\ From(Expired(q), q, {}, {})
<1> DEFINE n == Head(q.visible).id
<1>1. q.visible \in Seq(Card) /\ q.visible # <<>> /\ ~Moving(q)
  BY HealthyParts DEF MayExpire
<1>2. Head(q.visible) \in ToSet(q.visible) /\ Head(q.visible) \in Card
  BY <1>1, HeadAndTail
<1>3. Head(q.visible).stage # "entering" /\ n \in Notices
  BY <1>1, <1>2 DEF Moving, Card
<1>4. n \in Shows(q)
  BY <1>2, <1>3 DEF Shows
<1>5. Expired(q) \in Healthy /\ From(Expired(q), q, {}, {n})
  BY AskedToExitKeeps DEF Expired
<1> QED
  BY <1>4, <1>5 DEF From

-----------------------------------------------------------------------------
(* Removals                                                                 *)

LEMMA LesserSum ==
  ASSUME NEW a \in Nat, NEW b \in Nat, NEW m \in Nat, a + b <= m,
         NEW c \in 0..a, NEW d \in 0..b
  PROVE  c + d <= m
OBVIOUS

\* What is kept of the cards is in order, as they were.
LEMMA KeptCards ==
  ASSUME NEW v \in Seq(Card), NEW S
  PROVE  /\ OneCardEach(v) => OneCardEach(Kept(v, S))
         /\ \A a : OneMoves(v, a) => OneMoves(Kept(v, S), a)
<1> DEFINE k == Kept(v, S)
<1>1. PICK at \in [DOMAIN k -> DOMAIN v] :
        /\ \A p \in DOMAIN k : k[p] = v[at[p]] /\ v[at[p]] \in S
        /\ \A p, r \in DOMAIN k : at[p] = at[r] => p = r
  BY KeptFacts
<1> HIDE DEF k
<1>2. OneCardEach(v) => OneCardEach(k)
  BY <1>1 DEF OneCardEach
<1>3. ASSUME NEW a, OneMoves(v, a)
      PROVE  OneMoves(k, a)
  <2>1. \A p, r \in DOMAIN k : k[p].stage # "visible" /\ k[r].stage # "visible" => p = r
    BY <1>1, <1>3 DEF OneMoves
  <2>2. a # <<>> => \A p \in DOMAIN k : k[p].stage = "visible"
    BY <1>1, <1>3 DEF OneMoves
  <2> QED
    BY <1>3, <2>1, <2>2 DEF OneMoves
<1> QED
  BY <1>2, <1>3 DEF k

\* Without its card, a notification is no longer visible.
LEMMA WithoutCard ==
  ASSUME NEW q \in Healthy, NEW n \in Notices
  PROVE  LET v == Removed(q.visible, Cards(q, {n}))
         IN  /\ v \in Seq(Card) /\ OneCardEach(v) /\ Len(v) \in 0..Len(q.visible)
             /\ \A a : OneMoves(q.visible, a) => OneMoves(v, a)
             /\ ToSet(v) \subseteq ToSet(q.visible) /\ \A e \in ToSet(v) : e.id # n
             /\ n \in VisibleIds(q) => Len(v) < Len(q.visible)
<1> DEFINE rest == ToSet(q.visible) \ Cards(q, {n})
           v == Kept(q.visible, rest)
<1>1. q.visible \in Seq(Card) /\ Distinct(q)
  BY HealthyParts
<1>2. Removed(q.visible, Cards(q, {n})) = v
  BY DEF Removed
<1>3. /\ v \in Seq(Card) /\ OneCardEach(v) /\ Len(v) \in 0..Len(q.visible)
      /\ \A a : OneMoves(q.visible, a) => OneMoves(v, a)
  BY <1>1, KeptFacts, KeptCards DEF Distinct
<1>4. ToSet(v) \subseteq rest
  BY <1>1, KeptSet
<1>5. ASSUME n \in VisibleIds(q)
      PROVE  Len(v) < Len(q.visible)
  <2> DEFINE l == Len(q.visible)
             taken == Taken(q.visible, l, rest)
  <2>1. PICK i \in DOMAIN q.visible : q.visible[i].id = n
    BY <1>5, Members
  <2>2. q.visible[i] \notin rest /\ i \in 1..l /\ l \in Nat
    BY <1>1, <2>1 DEF Cards, ToSet
  <2>3. taken \subseteq 1..l /\ i \notin taken
    BY <2>2 DEF Taken
  <2> HIDE DEF taken, l
  <2>4. IsFiniteSet(1..l) /\ Cardinality(1..l) = l
    BY <2>2, FS_Interval
  <2>5. taken # 1..l
    BY <2>2, <2>3
  <2>6. Cardinality(taken) <= Cardinality(1..l)
    BY <2>3, <2>4, FS_Subset
  <2>7. Cardinality(taken) # Cardinality(1..l)
    BY <2>3, <2>4, <2>5, FS_Subset
  <2>8. Cardinality(taken) <= l /\ Cardinality(taken) # l
    BY <2>4, <2>6, <2>7
  <2>9. Len(v) = Cardinality(taken)
    BY <1>1, KeptFacts DEF taken, l
  <2> QED
    BY <1>1, <1>3, <2>8, <2>9 DEF l
<1> QED
  BY <1>2, <1>3, <1>4, <1>5 DEF Cards

\* The mailbox did not let go of it.
LEMMA RestoredKeeps ==
  ASSUME NEW q \in Healthy, NEW n \in Notices
  PROVE  Restored(q, n) \in Healthy /\ From(Restored(q, n), q, {}, {})
<1> DEFINE p == WithStage(q, n, "visible")
           x == Removed(p.exits, {n})
           r == [p EXCEPT !.exits = x]
<1>1. Restored(q, n) = IF ~IsAt(q, n, "exiting") THEN q ELSE r
  BY DEF Restored
<1>2. ASSUME IsAt(q, n, "exiting")
      PROVE  r \in Healthy /\ From(r, q, {}, {})
  <2>1. p \in Healthy /\ From(p, q, {}, {n})
    BY ShownAgain
  <2> HIDE DEF p
  <2>2. p.exits \in Seq(Notices) /\ ToSet(p.exits) \subseteq Notices
    BY <2>1, HealthyParts, SetOfSeq
  <2>3. x \in Seq(Notices) /\ ToSet(x) \subseteq ToSet(p.exits)
    BY <2>2, RemovedSet
  <2> HIDE DEF x
  <2>4. ToSet(x) \subseteq Shows(p) \cup {}
    BY <2>2, <2>3 DEF Shows
  <2>5. r \in Healthy /\ From(r, p, {}, {})
    BY <2>1, <2>3, <2>4, ExitsChanged
  <2>6. n \in Shows(q)
    BY <1>2 DEF IsAt, Shows
  <2> QED
    BY <2>1, <2>5, <2>6 DEF From
<1> QED
  BY <1>1, <1>2, FromItself

\* A card that has left awaits its acknowledgement.
LEMMA HasExitedKeeps ==
  ASSUME NEW q \in Healthy, NEW n \in Notices
  PROVE  HasExited(q, n) \in Healthy /\ From(HasExited(q, n), q, {}, {})
<1> DEFINE v == Removed(q.visible, Cards(q, {n}))
           a == Append(q.awaiting, n)
           r == [q EXCEPT !.visible = v, !.awaiting = a]
<1>0. /\ q \in Queue /\ OneMoves(q.visible, q.awaiting) /\ Distinct(q) /\ Fits(q)
      /\ q.awaiting \in Seq(Notices) /\ q.max \in Nat /\ Len(q.visible) \in Nat /\ q.visible \in Seq(Card)
  BY HealthyParts
<1>1. HasExited(q, n) = IF ~IsAt(q, n, "exiting") THEN q ELSE Settled(Promoted(ClosedFor(r, n)))
  BY DEF HasExited
<1>2. ASSUME IsAt(q, n, "exiting")
      PROVE  r \in Healthy /\ From(r, q, {}, {})
  <2>1. PICK k \in DOMAIN q.visible : q.visible[k] = [id |-> n, stage |-> "exiting"]
    BY <1>2 DEF IsAt, ToSet
  <2>2. q.visible[k].id = n /\ q.visible[k].stage = "exiting"
    BY <2>1
  <2>3. n \in VisibleIds(q)
    BY <2>2, Members
  <2>4. /\ v \in Seq(Card) /\ OneCardEach(v) /\ Len(v) \in 0..Len(q.visible)
        /\ ToSet(v) \subseteq ToSet(q.visible) /\ \A e \in ToSet(v) : e.id # n
        /\ Len(v) < Len(q.visible)
    BY <2>3, WithoutCard
  <2>5. q.awaiting = <<>>
    BY <1>0, <2>2 DEF OneMoves
  <2>6. /\ a \in Seq(Notices) /\ ToSet(a) = {n} /\ Len(a) = 1 /\ Len(q.awaiting) = 0
    <3>1. ToSet(q.awaiting) = {}
      BY <2>5 DEF ToSet
    <3>2. a \in Seq(Notices) /\ ToSet(a) = ToSet(q.awaiting) \cup {n}
      BY <1>0, AddedToSeq
    <3>3. Len(a) = 1 /\ Len(q.awaiting) = 0
      BY <1>0, <2>5
    <3> QED
      BY <3>1, <3>2, <3>3
  <2> HIDE DEF v, a
  <2>7. /\ r \in Queue /\ r.visible = v /\ r.awaiting = a /\ r.pending = q.pending
        /\ r.exits = q.exits /\ r.keys = q.keys /\ r.detail = q.detail /\ r.max = q.max
    BY <1>0, <2>4, <2>6 DEF Queue
  <2> HIDE DEF r
  <2>8. \A i \in DOMAIN v : v[i].stage = "visible"
    <3>1. ASSUME NEW i \in DOMAIN v
          PROVE  v[i].stage = "visible"
      <4>1. v[i] \in ToSet(q.visible) /\ v[i].id # n
        BY <2>4, <3>1 DEF ToSet
      <4>2. PICK j \in DOMAIN q.visible : v[i] = q.visible[j] /\ j # k
        BY <2>2, <4>1 DEF ToSet
      <4> QED
        BY <1>0, <2>2, <4>2 DEF OneMoves
    <3> QED
      BY <3>1
  <2>9. OneMoves(v, a)
    BY <2>6, <2>8 DEF OneMoves
  <2>10. VisibleIds(r) \subseteq VisibleIds(q) \ {n}
    BY <2>4, <2>7 DEF VisibleIds
  <2>11. Ids(r) \subseteq Ids(q)
    BY <2>3, <2>6, <2>7, <2>10 DEF Ids
  <2>12. n \notin ToSet(q.pending)
    BY <1>0, <2>3 DEF Distinct
  <2>13. Distinct(r)
    BY <1>0, <2>4, <2>6, <2>7, <2>10, <2>11, <2>12 DEF Distinct
  <2>14. Fits(r)
    <3>1. Len(q.visible) + 0 <= q.max /\ Len(v) + 1 <= Len(q.visible)
      BY <1>0, <2>4, <2>6 DEF Fits
    <3>2. Len(v) + 1 <= q.max
      BY <1>0, <2>4, <3>1
    <3> QED
      BY <2>6, <2>7, <3>2 DEF Fits
  <2>15. Shows(r) \subseteq Shows(q)
    BY <2>4, <2>7 DEF Shows
  <2> QED
    BY <2>7, <2>9, <2>11, <2>13, <2>14, <2>15 DEF Healthy, From
<1> HIDE DEF r
<1>3. ASSUME IsAt(q, n, "exiting")
      PROVE  LET s == Settled(Promoted(ClosedFor(r, n)))
             IN  s \in Healthy /\ From(s, q, {}, {})
  <2>1. ClosedFor(r, n) \in Healthy /\ From(ClosedFor(r, n), r, {}, {})
    BY <1>2, <1>3, ClosedForKeeps
  <2> DEFINE c == ClosedFor(r, n)
  <2> HIDE DEF c
  <2>2. Promoted(c) \in Healthy /\ From(Promoted(c), c, {}, {})
    BY <2>1, PromotedKeeps DEF c
  <2> DEFINE d == Promoted(c)
  <2> HIDE DEF d
  <2>3. Settled(d) \in Healthy /\ From(Settled(d), d, {}, {})
    BY <2>2, SettledKeeps DEF d
  <2>4. From(Settled(d), q, {}, {})
    BY <1>2, <1>3, <2>1, <2>2, <2>3 DEF From, c, d
  <2> QED
    BY <2>3, <2>4 DEF c, d
<1> QED
  BY <1>1, <1>3, FromItself

\* A notification is gone from all that the queue has of it.
LEMMA DismissedKeeps ==
  ASSUME NEW q \in Healthy, NEW n \in Notices
  PROVE  Dismissed(q, n) \in Healthy /\ From(Dismissed(q, n), q, {}, {})
<1> DEFINE v == Removed(q.visible, Cards(q, {n}))
           w == Removed(q.pending, {n})
           a == Removed(q.awaiting, {n})
           x == Removed(q.exits, {n})
           r == [q EXCEPT !.visible = v, !.pending = w, !.awaiting = a, !.exits = x]
<1>0. /\ q \in Queue /\ OneMoves(q.visible, q.awaiting) /\ Distinct(q) /\ Fits(q)
      /\ q.awaiting \in Seq(Notices) /\ q.pending \in Seq(Notices) /\ q.exits \in Seq(Notices)
      /\ q.max \in Nat /\ Len(q.visible) \in Nat /\ Len(q.awaiting) \in Nat
  BY HealthyParts
<1>1. Dismissed(q, n) = IF n \notin Ids(q) \cup ToSet(q.exits) THEN q
                        ELSE Settled(Continued(ClosedFor(r, n), TRUE))
  BY DEF Dismissed
<1>2. /\ v \in Seq(Card) /\ OneCardEach(v) /\ Len(v) \in 0..Len(q.visible)
      /\ OneMoves(v, q.awaiting) /\ ToSet(v) \subseteq ToSet(q.visible)
  BY <1>0, WithoutCard
<1>3. /\ w \in Seq(Notices) /\ ToSet(w) \subseteq ToSet(q.pending) /\ IsInjective(w)
      /\ a \in Seq(Notices) /\ ToSet(a) \subseteq ToSet(q.awaiting) /\ Len(a) \in 0..Len(q.awaiting)
      /\ x \in Seq(Notices) /\ ToSet(x) \subseteq ToSet(q.exits)
  BY <1>0, RemovedSet DEF Distinct
<1> HIDE DEF v, w, a, x
<1>4. /\ r \in Queue /\ r.visible = v /\ r.pending = w /\ r.awaiting = a /\ r.exits = x
      /\ r.keys = q.keys /\ r.detail = q.detail /\ r.max = q.max
  BY <1>0, <1>2, <1>3 DEF Queue
<1> HIDE DEF r
<1>5. VisibleIds(r) \subseteq VisibleIds(q)
  BY <1>2, <1>4 DEF VisibleIds
<1>6. Ids(r) \subseteq Ids(q)
  BY <1>3, <1>4, <1>5 DEF Ids
<1>7. Distinct(r)
  BY <1>0, <1>2, <1>3, <1>4, <1>5, <1>6 DEF Distinct
<1>8. OneMoves(v, a)
  <2>1. Len(a) <= 1
    BY <1>0, <1>3 DEF OneMoves
  <2>2. a # <<>> => q.awaiting # <<>>
    <3>1. q.awaiting = <<>> => Len(q.awaiting) = 0
      OBVIOUS
    <3>2. Len(a) = 0 => a = <<>>
      BY <1>3
    <3> QED
      BY <1>0, <1>3, <3>1, <3>2
  <2> QED
    BY <1>2, <2>1, <2>2 DEF OneMoves
<1>9. Fits(r)
  <2>1. Len(q.visible) + Len(q.awaiting) <= q.max
    BY <1>0 DEF Fits
  <2>2. Len(v) \in 0..Len(q.visible) /\ Len(a) \in 0..Len(q.awaiting)
    BY <1>2, <1>3
  <2>3. Len(v) + Len(a) <= q.max
    BY <1>0, <2>1, <2>2, LesserSum
  <2> QED
    BY <1>4, <2>3 DEF Fits
<1>10. Shows(r) \subseteq Shows(q)
  BY <1>2, <1>3, <1>4 DEF Shows
<1>11. r \in Healthy /\ From(r, q, {}, {})
  BY <1>4, <1>6, <1>7, <1>8, <1>9, <1>10 DEF Healthy, From
<1> DEFINE c == ClosedFor(r, n)
           d == Continued(c, TRUE)
<1>12. c \in Healthy /\ From(c, r, {}, {})
  BY <1>11, ClosedForKeeps
<1> HIDE DEF c
<1>13. d \in Healthy /\ From(d, c, {}, {})
  BY <1>12, ContinuedKeeps
<1> HIDE DEF d
<1>14. Settled(d) \in Healthy /\ From(Settled(d), d, {}, {})
  BY <1>13, SettledKeeps
<1>15. From(Settled(d), q, {}, {})
  BY <1>11, <1>12, <1>13, <1>14 DEF From
<1> QED
  BY <1>1, <1>14, <1>15, FromItself DEF c, d

LEMMA AcknowledgedKeeps ==
  ASSUME NEW q \in Healthy, NEW n \in Notices
  PROVE  Acknowledged(q, n) \in Healthy /\ From(Acknowledged(q, n), q, {}, {})
<1> DEFINE d == Dismissed(q, n)
<1>1. d \in Healthy /\ From(d, q, {}, {})
  BY DismissedKeeps
<1>2. Acknowledged(q, n) = IF n \in ToSet(q.awaiting) THEN Released(d, KeyOf[n]) ELSE q
  BY DEF Acknowledged
<1> HIDE DEF d
<1>3. Released(d, KeyOf[n]) \in Healthy /\ From(Released(d, KeyOf[n]), d, {}, {})
  BY <1>1, ReleasedKeeps
<1> QED
  BY <1>1, <1>2, <1>3, FromItself DEF From

-----------------------------------------------------------------------------
(* Another number of places                                                 *)

LEMMA FirstNumbers ==
  ASSUME NEW n \in Nat
  PROVE  IsFiniteSet(1..n) /\ Cardinality(1..n) = n
BY FS_Interval

LEMMA DisjointSets ==
  ASSUME NEW S, IsFiniteSet(S), NEW T, IsFiniteSet(T), S \cap T = {}
  PROVE  IsFiniteSet(S \cup T) /\ Cardinality(S \cup T) = Cardinality(S) + Cardinality(T)
<1>1. Cardinality(S) \in Nat /\ Cardinality(T) \in Nat
  BY FS_CardinalityType
<1> QED
  BY <1>1, FS_Union, FS_EmptySet

\* Those that are taken later have higher ranks.
LEMMA RanksRise ==
  ASSUME NEW s, NEW S, NEW m \in Nat, NEW k \in Nat, m < k, s[k] \in S
  PROVE  Cardinality(Taken(s, m, S)) < Cardinality(Taken(s, k, S))
<1>1. Taken(s, m, S) \subseteq Taken(s, k, S) /\ k \in Taken(s, k, S) /\ k \notin Taken(s, m, S)
  BY DEF Taken
<1>2. /\ IsFiniteSet(Taken(s, k, S)) /\ Cardinality(Taken(s, m, S)) <= Cardinality(Taken(s, k, S))
      /\ Cardinality(Taken(s, k, S)) # Cardinality(Taken(s, m, S))
  BY <1>1, TakenFinite, FS_Subset
<1> QED
  BY <1>2, TakenFinite

\* What is of the set is kept, at its rank.
LEMMA KeptAtRank ==
  ASSUME NEW T, NEW s \in Seq(T), NEW S, NEW m \in Taken(s, Len(s), S)
  PROVE  /\ Cardinality(Taken(s, m, S)) \in DOMAIN Kept(s, S)
         /\ Kept(s, S)[Cardinality(Taken(s, m, S))] = s[m]
<1> DEFINE taken == Taken(s, Len(s), S)
           rank(k) == Cardinality(Taken(s, k, S))
           card == Cardinality(taken)
<1>1. Len(s) \in Nat /\ \A k \in taken : k \in 1..Len(s) /\ s[k] \in S
  BY DEF Taken
<1>2. \A k \in 0..Len(s) : rank(k) \in Nat
  BY <1>1, TakenFinite
<1>3. \A k \in taken : rank(k) = rank(m) => k = m
  <2>1. ASSUME NEW k \in taken, k < m
        PROVE  rank(k) < rank(m)
    BY <1>1, <2>1, RanksRise
  <2>2. ASSUME NEW k \in taken, m < k
        PROVE  rank(m) < rank(k)
    BY <1>1, <2>2, RanksRise
  <2> HIDE DEF rank
  <2> QED
    BY <1>1, <1>2, <2>1, <2>2
<1>4. rank(m) \in 1..card
  <2>1. rank(0) < rank(m) /\ rank(m) \in Nat /\ rank(0) \in Nat
    BY <1>1, <1>2, RanksRise
  <2>2. Taken(s, m, S) \subseteq taken
    BY <1>1 DEF Taken
  <2>3. rank(m) <= card /\ card \in Nat
    BY <1>1, <2>2, TakenFinite, FS_Subset
  <2> HIDE DEF rank, card
  <2> QED
    BY <2>1, <2>3
<1>5. (CHOOSE k \in taken : rank(k) = rank(m)) = m
  <2> HIDE DEF rank
  <2> QED
    BY <1>3
<1>6. Kept(s, S) = [p \in 1..card |-> s[CHOOSE k \in taken : rank(k) = p]]
  BY DEF Kept
<1> HIDE DEF taken, card, rank
<1>7. rank(m) \in DOMAIN Kept(s, S) /\ Kept(s, S)[rank(m)] = s[m]
  BY <1>4, <1>5, <1>6
<1> QED
  BY <1>7 DEF rank

\* How many are not kept.
LEMMA NotKept ==
  ASSUME NEW v \in Seq(Card), NEW S
  PROVE  LET X == (1..Len(v)) \ Taken(v, Len(v), S)
         IN  /\ IsFiniteSet(X) /\ Cardinality(X) = Len(v) - Len(Kept(v, S))
             /\ \A n \in 0..1 : (\A i, j \in DOMAIN v : v[i] \notin S /\ v[j] \notin S => n = 1 /\ i = j)
                  => Cardinality(X) <= n
<1> DEFINE stay == Kept(v, S)
           D == 1..Len(v)
           N == Taken(v, Len(v), S)
           X == D \ N
<1>1. Len(v) \in Nat /\ DOMAIN v = D /\ IsFiniteSet(D) /\ Cardinality(D) = Len(v)
  <2>1. Len(v) \in Nat /\ DOMAIN v = D
    OBVIOUS
  <2> DEFINE l == Len(v)
  <2>2. l \in Nat
    BY <2>1
  <2> HIDE DEF l
  <2>3. IsFiniteSet(1..l) /\ Cardinality(1..l) = l
    BY <2>2, FirstNumbers
  <2> QED
    BY <2>1, <2>3 DEF l
<1>2. N \subseteq D /\ \A m \in D : m \in N <=> v[m] \in S
  BY DEF Taken
<1>3. IsFiniteSet(N) /\ Cardinality(N) = Len(stay)
  BY <1>1, TakenFinite, KeptFacts
<1>4. IsFiniteSet(X) /\ Cardinality(X) = Len(v) - Len(stay)
  <2>1. IsFiniteSet(X)
    BY <1>1, FS_Subset
  <2>2. X \cup N = D /\ X \cap N = {}
    BY <1>2
  <2>3. Cardinality(D) = Cardinality(X) + Cardinality(N)
    <3> HIDE DEF X, N, D
    <3> QED
      BY <1>3, <2>1, <2>2, DisjointSets
  <2>4. Cardinality(X) \in Nat /\ Cardinality(N) \in Nat
    BY <1>3, <2>1, FS_CardinalityType
  <2> HIDE DEF X, N, D, stay
  <2> QED
    BY <1>1, <1>3, <2>1, <2>3, <2>4
<1>7. ASSUME NEW n \in 0..1, \A i, j \in DOMAIN v : v[i] \notin S /\ v[j] \notin S => n = 1 /\ i = j
      PROVE  Cardinality(X) <= n
  <2>1. \A i, j \in X : n = 1 /\ i = j
    BY <1>1, <1>2, <1>7
  <2> HIDE DEF X
  <2>2. CASE X = {}
    BY <2>2, FS_EmptySet
  <2>3. CASE X # {}
    <3>1. PICK i \in X : TRUE
      BY <2>3
    <3>2. X = {i} /\ n = 1
      BY <2>1, <3>1
    <3>3. Cardinality(X) = 1
      BY <3>2, FS_Singleton
    <3> QED
      BY <3>2, <3>3
  <2> QED
    BY <2>2, <2>3
<1> QED
  BY <1>4, <1>7

LEMMA AtMostOneNotKept ==
  ASSUME NEW v \in Seq(Card), NEW S, NEW n \in 0..1,
         \A i, j \in DOMAIN v : v[i] \notin S /\ v[j] \notin S => n = 1 /\ i = j
  PROVE  Len(v) - Len(Kept(v, S)) <= n
<1> DEFINE X == (1..Len(v)) \ Taken(v, Len(v), S)
<1>1. Cardinality(X) <= n /\ Cardinality(X) = Len(v) - Len(Kept(v, S))
  BY NotKept
<1> QED
  BY <1>1

LEMMA RemovedHas ==
  ASSUME NEW T, NEW s \in Seq(T), NEW S
  PROVE  ToSet(s) \ S \subseteq ToSet(Removed(s, S))
<1> DEFINE rest == ToSet(s) \ S
<1>1. ASSUME NEW m \in DOMAIN s, s[m] \notin S
      PROVE  s[m] \in ToSet(Removed(s, S))
  <2>1. m \in 1..Len(s) /\ s[m] \in rest
    BY <1>1 DEF ToSet
  <2>2. m \in Taken(s, Len(s), rest)
    BY <2>1 DEF Taken
  <2>3. Cardinality(Taken(s, m, rest)) \in DOMAIN Kept(s, rest) /\ Kept(s, rest)[Cardinality(Taken(s, m, rest))] = s[m]
    BY <2>2, KeptAtRank
  <2> QED
    BY <2>3 DEF ToSet, Removed
<1> QED
  BY <1>1 DEF ToSet

\* Without the cards beyond the first of those that stay, no more are left than those that do
\* not stay and these.
LEMMA FewerCards ==
  ASSUME NEW v \in Seq(Card), NEW S, NEW room \in Nat
  PROVE  LET stay  == Kept(v, S)
             moved == {stay[i].id : i \in {j \in DOMAIN stay : j > room}}
             left  == Kept(v, {e \in ToSet(v) : e.id \notin moved})
         IN  Len(left) <= Len(v) - Len(stay) + room
<1> DEFINE stay == Kept(v, S)
           moved == {stay[i].id : i \in {j \in DOMAIN stay : j > room}}
           L == {e \in ToSet(v) : e.id \notin moved}
           left == Kept(v, L)
           D == 1..Len(v)
           N == Taken(v, Len(v), S)
           A == Taken(v, Len(v), L)
           X == D \ N
           rank(m) == Cardinality(Taken(v, m, S))
<1>1. Len(v) \in Nat /\ DOMAIN v = D /\ IsFiniteSet(D) /\ Cardinality(D) = Len(v)
  <2>1. Len(v) \in Nat /\ DOMAIN v = D
    OBVIOUS
  <2> DEFINE l == Len(v)
  <2>2. l \in Nat
    BY <2>1
  <2> HIDE DEF l
  <2>3. IsFiniteSet(1..l) /\ Cardinality(1..l) = l
    BY <2>2, FirstNumbers
  <2> QED
    BY <2>1, <2>3 DEF l
<1>2. N \subseteq D /\ A \subseteq D /\ \A m \in D : m \in N <=> v[m] \in S
  BY DEF Taken
<1>3. IsFiniteSet(N) /\ IsFiniteSet(A) /\ Cardinality(N) = Len(stay) /\ Cardinality(A) = Len(left)
  BY <1>1, TakenFinite, KeptFacts
<1>4. IsFiniteSet(X) /\ Cardinality(X) = Len(v) - Len(stay)
  BY NotKept
<1>5. Cardinality(A \cap N) <= room /\ IsFiniteSet(A \cap N)
  <2>1. ASSUME NEW m \in A \cap N
        PROVE  rank(m) \in DOMAIN stay /\ stay[rank(m)] = v[m] /\ rank(m) \in 1..room
    <3>1. rank(m) \in DOMAIN stay /\ stay[rank(m)] = v[m]
      BY KeptAtRank
    <3>2. v[m].id \notin moved
      BY DEF Taken
    <3>3. stay \in Seq(Card)
      BY KeptFacts
    <3> HIDE DEF stay, rank
    <3>4. ~(rank(m) > room)
      BY <3>1, <3>2
    <3>5. rank(m) \in Nat /\ rank(m) >= 1
      BY <3>1, <3>3
    <3> QED
      BY <3>1, <3>4, <3>5
  <2>2. ASSUME NEW m \in A \cap N, NEW k \in A \cap N, rank(m) = rank(k)
        PROVE  m = k
    <3>1. m \in Nat /\ k \in Nat /\ v[m] \in S /\ v[k] \in S
      BY DEF Taken
    <3>2. ~(m < k) /\ ~(k < m)
      <4>1. rank(m) \in Nat /\ rank(k) \in Nat
        BY <3>1, TakenFinite
      <4>2. m < k => rank(m) < rank(k)
        BY <3>1, RanksRise
      <4>3. k < m => rank(k) < rank(m)
        BY <3>1, RanksRise
      <4> HIDE DEF rank
      <4> QED
        BY <2>2, <4>1, <4>2, <4>3
    <3> QED
      BY <3>1, <3>2
  <2> DEFINE f == [m \in A \cap N |-> rank(m)]
  <2>3. f \in Injection(A \cap N, 1..room)
    <3> HIDE DEF rank, A, N
    <3> QED
      BY <2>1, <2>2 DEF Injection, IsInjective
  <2>4. IsFiniteSet(1..room) /\ Cardinality(1..room) = room
    BY FirstNumbers
  <2> HIDE DEF f
  <2> QED
    BY <2>3, <2>4, FS_Injection
<1>6. Cardinality(A) <= Cardinality(X) + Cardinality(A \cap N)
  <2>1. A \subseteq X \cup (A \cap N) /\ X \cap (A \cap N) = {}
    BY <1>2
  <2>2. /\ IsFiniteSet(X \cup (A \cap N))
        /\ Cardinality(X \cup (A \cap N)) = Cardinality(X) + Cardinality(A \cap N)
    <3> HIDE DEF X, A, N
    <3> QED
      BY <1>4, <1>5, <2>1, DisjointSets
  <2>3. Cardinality(A) <= Cardinality(X \cup (A \cap N))
    BY <2>1, <2>2, FS_Subset
  <2>4. Cardinality(X) \in Nat /\ Cardinality(A \cap N) \in Nat
    BY <1>4, <1>5, FS_CardinalityType
  <2> HIDE DEF X, A, N
  <2> QED
    BY <2>2, <2>3, <2>4
<1>8. Len(left) \in Nat /\ Len(stay) \in Nat
  BY KeptFacts
<1>9. Cardinality(A \cap N) \in Nat /\ Cardinality(X) \in Nat
  BY <1>4, <1>5, FS_CardinalityType
<1> HIDE DEF X, A, N, left, stay
<1>10. Len(left) <= Len(v) - Len(stay) + room
  BY <1>1, <1>3, <1>4, <1>5, <1>6, <1>8, <1>9
<1> QED
  BY <1>10 DEF left, stay

\* Those that have no place any more wait again.
LEMMA CappedAtKeeps ==
  ASSUME NEW q \in Healthy, NEW max \in Nat \ {0}
  PROVE  CappedAt(q, max) \in Healthy /\ From(CappedAt(q, max), q, {}, {})
<1> DEFINE v == q.visible
           S == ToSet(v) \ {e \in ToSet(v) : e.stage = "exiting"}
           stay == Kept(v, S)
           reserved == Len(v) - Len(stay) + Len(q.awaiting)
           room == IF max > reserved THEN max - reserved ELSE 0
           moved == {stay[i].id : i \in {j \in DOMAIN stay : j > room}}
           L == {e \in ToSet(v) : e.id \notin moved}
           left == Kept(v, L)
           back == Kept(stay, Cards(q, moved))
           ids == [i \in DOMAIN back |-> back[i].id]
           w == ids \o q.pending
           r == [q EXCEPT !.max = max, !.visible = left, !.pending = w]
<1>0. /\ q \in Queue /\ OneMoves(v, q.awaiting) /\ Distinct(q) /\ v \in Seq(Card)
      /\ q.pending \in Seq(Notices) /\ Len(v) \in Nat /\ Len(q.awaiting) \in Nat
  BY HealthyParts
<1>1. CappedAt(q, max) = Continued(r, FALSE)
  <2>1. ToSet(v) \ Cards(q, moved) = L
    BY DEF Cards
  <2> HIDE DEF L
  <2> QED
    BY <2>1 DEF CappedAt, Removed
<1>2. /\ stay \in Seq(Card) /\ Len(stay) \in 0..Len(v) /\ OneCardEach(stay)
      /\ left \in Seq(Card) /\ Len(left) \in 0..Len(v) /\ OneCardEach(left)
      /\ OneMoves(left, q.awaiting) /\ ToSet(left) \subseteq L
  <2> HIDE DEF S, L
  <2> QED
    BY <1>0, KeptFacts, KeptCards, KeptSet DEF Distinct
<1>3. reserved \in Nat /\ room \in Nat
  <2>1. reserved \in Nat
    <3> DEFINE lv == Len(v)
               ls == Len(stay)
               la == Len(q.awaiting)
    <3>1. lv \in Nat /\ ls \in 0..lv /\ la \in Nat
      BY <1>0, <1>2
    <3> HIDE DEF lv, ls, la
    <3>2. lv - ls + la \in Nat
      BY <3>1
    <3> QED
      BY <3>2 DEF lv, ls, la
  <2> HIDE DEF reserved
  <2> QED
    BY <2>1
<1>4. Len(left) <= Len(v) - Len(stay) + room
  <2> HIDE DEF S, room
  <2> QED
    BY <1>0, <1>3, FewerCards
<1> DEFINE lv == Len(v)
           ls == Len(stay)
           la == Len(q.awaiting)
           ll == Len(left)
<1>a. lv \in Nat /\ ls \in 0..lv /\ la \in Nat /\ ll \in 0..lv
  BY <1>0, <1>2
<1>b. ll <= lv - ls + room
  BY <1>4
<1>c. reserved = lv - ls + la
  OBVIOUS
<1>5. lv - ls + la <= 1
  <2>1. \A i \in DOMAIN v : v[i] \notin S => v[i].stage = "exiting"
    BY DEF ToSet
  <2>2. CASE q.awaiting = <<>>
    <3>1. \A i, j \in DOMAIN v : v[i] \notin S /\ v[j] \notin S => 1 = 1 /\ i = j
      BY <1>0, <2>1 DEF OneMoves
    <3>2. lv - ls <= 1
      <4> HIDE DEF S
      <4> QED
        BY <1>0, <3>1, AtMostOneNotKept
    <3>3. la = 0
      BY <2>2
    <3> HIDE DEF lv, ls, la
    <3> QED
      BY <1>a, <3>2, <3>3
  <2>3. CASE q.awaiting # <<>>
    <3>1. \A i, j \in DOMAIN v : v[i] \notin S /\ v[j] \notin S => 0 = 1 /\ i = j
      BY <1>0, <2>1, <2>3 DEF OneMoves
    <3>2. lv - ls <= 0
      <4> HIDE DEF S
      <4> QED
        BY <1>0, <3>1, AtMostOneNotKept
    <3>3. la <= 1
      BY <1>0 DEF OneMoves
    <3> HIDE DEF lv, ls, la
    <3> QED
      BY <1>a, <3>2, <3>3
  <2> QED
    BY <2>2, <2>3
<1>6. Len(left) + Len(q.awaiting) <= max
  <2>1. CASE max > reserved
    <3>1. room = max - reserved
      BY <2>1
    <3> HIDE DEF lv, ls, la, ll, room, reserved
    <3>2. ll + la <= max
      BY <1>a, <1>b, <1>c, <3>1
    <3> QED
      BY <3>2 DEF ll, la
  <2>2. CASE ~(max > reserved)
    <3>1. room = 0
      BY <2>2
    <3> HIDE DEF lv, ls, la, ll, room, reserved
    <3>2. ll + la <= max
      BY <1>5, <1>a, <1>b, <3>1
    <3> QED
      BY <3>2 DEF ll, la
  <2> QED
    BY <2>1, <2>2
<1>7. /\ back \in Seq(Card) /\ OneCardEach(back) /\ ToSet(back) \subseteq Cards(q, moved)
  <2> HIDE DEF stay, moved
  <2> QED
    BY <1>2, KeptFacts, KeptCards, KeptSet
<1> HIDE DEF back
<1>8. ids \in Seq(Notices) /\ IsInjective(ids) /\ ToSet(ids) = {e.id : e \in ToSet(back)}
  BY <1>7, IdsOfCards
<1>9. ToSet(ids) \subseteq VisibleIds(q) \cap moved
  BY <1>7, <1>8 DEF Cards, VisibleIds
<1> HIDE DEF ids
<1>10. w \in Seq(Notices) /\ ToSet(w) = ToSet(ids) \cup ToSet(q.pending) /\ IsInjective(w)
  <2>1. IsInjective(q.pending) /\ ToSet(ids) \cap ToSet(q.pending) = {}
    BY <1>0, <1>9 DEF Distinct
  <2> QED
    BY <1>0, <1>8, <2>1, JoinedSeqs
<1>11. \A e \in ToSet(left) : e \in ToSet(v) /\ e.id \notin moved
  BY <1>2
<1> HIDE DEF w, left, moved
<1>12. /\ r \in Queue /\ r.visible = left /\ r.pending = w /\ r.awaiting = q.awaiting /\ r.exits = q.exits
       /\ r.keys = q.keys /\ r.detail = q.detail /\ r.max = max
  BY <1>0, <1>2, <1>10 DEF Queue
<1> HIDE DEF r
<1>13. VisibleIds(r) \subseteq VisibleIds(q) \ moved
  BY <1>11, <1>12 DEF VisibleIds
<1>14. Ids(r) \subseteq Ids(q)
  BY <1>9, <1>10, <1>12, <1>13 DEF Ids
<1>15. Distinct(r)
  <2>1. VisibleIds(r) \cap ToSet(r.pending) = {}
    BY <1>0, <1>9, <1>10, <1>12, <1>13 DEF Distinct
  <2>2. VisibleIds(r) \cap ToSet(r.awaiting) = {} /\ ToSet(r.pending) \cap ToSet(r.awaiting) = {}
    BY <1>0, <1>9, <1>10, <1>12, <1>13 DEF Distinct
  <2>3. \A n \in Ids(r) : KeyOf[n] \in r.keys
    BY <1>0, <1>12, <1>14 DEF Distinct
  <2> QED
    BY <1>2, <1>10, <1>12, <2>1, <2>2, <2>3 DEF Distinct
<1>16. Shows(r) \subseteq Shows(q)
  BY <1>11, <1>12 DEF Shows
<1>17. r \in Healthy /\ From(r, q, {}, {})
  BY <1>2, <1>6, <1>12, <1>14, <1>15, <1>16 DEF Healthy, From, Fits
<1>18. Continued(r, FALSE) \in Healthy /\ From(Continued(r, FALSE), r, {}, {})
  BY <1>17, ContinuedKeeps
<1> QED
  BY <1>1, <1>17, <1>18 DEF From

-----------------------------------------------------------------------------
(* One after the other                                                      *)

LEMMA MaxOfNumbers ==
  ASSUME NEW n \in Nat, NEW S \in SUBSET (1..n), S # {}
  PROVE  Max(S) \in S /\ \A m \in S : m <= Max(S)
<1> DEFINE N == {l \in Nat : \A R \in SUBSET (1..l) : R # {} => \E x \in R : \A y \in R : x >= y}
<1>1. 0 \in N
  <2>1. 1..0 = {}
    OBVIOUS
  <2> QED
    BY <2>1
<1>2. ASSUME NEW l \in Nat, l \in N
      PROVE  l + 1 \in N
  <2>1. ASSUME NEW R \in SUBSET (1..(l + 1)), R # {}
        PROVE  \E x \in R : \A y \in R : x >= y
    <3>1. CASE l + 1 \in R
      <4>1. \A y \in R : l + 1 >= y
        OBVIOUS
      <4> QED
        BY <3>1, <4>1
    <3>2. CASE l + 1 \notin R
      <4>1. R \in SUBSET (1..l)
        BY <3>2
      <4> QED
        BY <1>2, <2>1, <4>1
    <3> QED
      BY <3>1, <3>2
  <2> QED
    BY <2>1
<1>3. Nat \subseteq N
  <2> HIDE DEF N
  <2> QED
    BY <1>1, <1>2, NaturalInduction
<1>4. \E x \in S : \A y \in S : x >= y
  BY <1>3
<1>5. Max(S) \in S /\ \A y \in S : Max(S) >= y
  BY <1>4 DEF Max
<1> QED
  BY <1>5

LEMMA MaxIsLast ==
  ASSUME NEW n \in Nat, NEW S \in SUBSET (1..n), n \in S
  PROVE  Max(S) = n
<1>1. Max(S) \in S /\ n <= Max(S)
  BY MaxOfNumbers
<1>2. Max(S) \in 1..n
  BY <1>1
<1> QED
  BY <1>1, <1>2

\* The functions that say what is done with the first n elements of a sequence one after the
\* other, for each set of them.
FoldsOf(D, base, f, s, n) ==
  {g \in [SUBSET (1..n) -> D] : \A S \in SUBSET (1..n) :
     g[S] = IF S = {} THEN base ELSE f[<<g[S \ {Max(S)}], s[Max(S)]>>]}

LEMMA FoldExists ==
  ASSUME NEW D, NEW base \in D, NEW T, NEW s \in Seq(T), NEW f \in [D \X T -> D]
  PROVE  FoldsOf(D, base, f, s, Len(s)) # {}
<1> DEFINE Is(g, S) == g[S] = IF S = {} THEN base ELSE f[<<g[S \ {Max(S)}], s[Max(S)]>>]
           N == {n \in Nat : n <= Len(s) => FoldsOf(D, base, f, s, n) # {}}
<1>0. Len(s) \in Nat /\ \A i \in 1..Len(s) : s[i] \in T
  OBVIOUS
<1>1. 0 \in N
  <2> DEFINE g == [S \in SUBSET (1..0) |-> base]
  <2>1. SUBSET (1..0) = {{}}
    OBVIOUS
  <2>2. g \in [SUBSET (1..0) -> D] /\ \A S \in SUBSET (1..0) : Is(g, S)
    BY <2>1
  <2>3. g \in FoldsOf(D, base, f, s, 0)
    BY <2>2 DEF FoldsOf
  <2> QED
    BY <2>3
<1>2. ASSUME NEW n \in Nat, n \in N
      PROVE  n + 1 \in N
  <2> SUFFICES ASSUME n + 1 <= Len(s) PROVE FoldsOf(D, base, f, s, n + 1) # {}
    OBVIOUS
  <2>0. n <= Len(s) /\ n + 1 \in Nat
    BY <1>0
  <2>1. PICK g \in [SUBSET (1..n) -> D] : \A S \in SUBSET (1..n) : Is(g, S)
    BY <1>2, <2>0 DEF FoldsOf
  <2> DEFINE h == [S \in SUBSET (1..(n + 1)) |->
                     IF n + 1 \in S THEN f[<<g[S \ {n + 1}], s[n + 1]>>] ELSE g[S]]
  <2>2. \A S \in SUBSET (1..(n + 1)) : S \ {n + 1} \in SUBSET (1..n) /\ (n + 1 \notin S => S \in SUBSET (1..n))
    OBVIOUS
  <2>3. s[n + 1] \in T
    BY <1>0
  <2>4. h \in [SUBSET (1..(n + 1)) -> D]
    BY <2>1, <2>2, <2>3
  <2>5. ASSUME NEW S \in SUBSET (1..(n + 1))
        PROVE  Is(h, S)
    <3>1. CASE n + 1 \in S
      <4>1. Max(S) = n + 1
        BY <2>0, <3>1, MaxIsLast
      <4>2. h[S] = f[<<g[S \ {n + 1}], s[n + 1]>>] /\ h[S \ {n + 1}] = g[S \ {n + 1}] /\ S # {}
        BY <2>2, <3>1
      <4> QED
        BY <4>1, <4>2
    <3>2. CASE n + 1 \notin S
      <4>1. S \in SUBSET (1..n) /\ S \ {Max(S)} \in SUBSET (1..n) /\ n + 1 \notin S \ {Max(S)}
        BY <2>2, <3>2
      <4>2. h[S] = g[S] /\ h[S \ {Max(S)}] = g[S \ {Max(S)}]
        BY <3>2, <4>1
      <4> QED
        BY <2>1, <4>1, <4>2
    <3> QED
      BY <3>1, <3>2
  <2>6. h \in FoldsOf(D, base, f, s, n + 1)
    <3> HIDE DEF h
    <3> QED
      BY <2>4, <2>5 DEF FoldsOf
  <2> HIDE DEF h
  <2> QED
    BY <2>6
<1>3. Nat \subseteq N
  <2> HIDE DEF N
  <2> QED
    BY <1>1, <1>2, NaturalInduction
<1> QED
  BY <1>0, <1>3

\* It stays where each step stays.
LEMMA FoldStays ==
  ASSUME NEW D, NEW n \in Nat, NEW g, g[{}] \in D,
         \A S \in SUBSET (1..n) : S # {} /\ g[S \ {Max(S)}] \in D => g[S] \in D
  PROVE  g[1..n] \in D
<1> DEFINE N == {l \in Nat : l <= n => g[1..l] \in D}
<1>1. 0 \in N
  <2>1. 1..0 = {}
    OBVIOUS
  <2> QED
    BY <2>1
<1>2. ASSUME NEW l \in Nat, l \in N
      PROVE  l + 1 \in N
  <2> SUFFICES ASSUME l + 1 <= n PROVE g[1..(l + 1)] \in D
    OBVIOUS
  <2> DEFINE S == 1..(l + 1)
  <2>1. S \in SUBSET (1..n) /\ S # {} /\ l + 1 \in S
    OBVIOUS
  <2>2. l + 1 \in Nat /\ l <= n /\ S \in SUBSET (1..(l + 1))
    OBVIOUS
  <2>3. Max(S) = l + 1
    BY <2>1, <2>2, MaxIsLast
  <2>4. S \ {Max(S)} = 1..l
    BY <2>3
  <2>5. g[S \ {Max(S)}] \in D
    BY <1>2, <2>2, <2>4
  <2> HIDE DEF S
  <2>6. g[S] \in D
    BY <2>1, <2>5
  <2> QED
    BY <2>6 DEF S
<1>3. Nat \subseteq N
  <2> HIDE DEF N
  <2> QED
    BY <1>1, <1>2, NaturalInduction
<1> QED
  BY <1>3

LEMMA AcknowledgedInTurn ==
  ASSUME NEW q \in Healthy, NEW s \in Seq(Notices)
  PROVE  LET r == FoldLeft(Acknowledged, q, s)
         IN  r \in Healthy /\ From(r, q, {}, {})
<1> DEFINE D == {r \in Healthy : From(r, q, {}, {})}
           f == [x \in D \X Notices |-> Acknowledged(x[1], x[2])]
           l == Len(s)
           E(g) == g = [S \in SUBSET DOMAIN s |->
                          IF S = {} THEN q ELSE Acknowledged(g[S \ {Max(S)}], s[Max(S)])]
           iter == CHOOSE g : E(g)
<1>1. FoldLeft(Acknowledged, q, s) = iter[DOMAIN s]
  BY DEF FoldLeft, MapThenFoldSet
<1>2. l \in Nat /\ DOMAIN s = 1..l /\ \A i \in 1..l : s[i] \in Notices
  OBVIOUS
<1>3. q \in D
  BY FromItself
<1>4. \A r \in D, n \in Notices : Acknowledged(r, n) \in D
  BY AcknowledgedKeeps DEF From
<1>5. \A S \in SUBSET (1..l) : S # {} => s[Max(S)] \in Notices
  BY <1>2, MaxOfNumbers
<1> HIDE DEF D
<1>6. f \in [D \X Notices -> D]
  BY <1>4
<1>7. \A r \in D, n \in Notices : f[<<r, n>>] = Acknowledged(r, n)
  OBVIOUS
<1> HIDE DEF f
<1> HIDE DEF E, iter
<1>8. \E g : E(g)
  <2>1. FoldsOf(D, q, f, s, Len(s)) # {}
    BY <1>3, <1>6, FoldExists
  <2>2. PICK g : g \in FoldsOf(D, q, f, s, l)
    BY <2>1
  <2>3. /\ g \in [SUBSET (1..l) -> D]
        /\ \A S \in SUBSET (1..l) : g[S] = IF S = {} THEN q ELSE f[<<g[S \ {Max(S)}], s[Max(S)]>>]
    BY <2>2 DEF FoldsOf
  <2>4. \A S \in SUBSET (1..l) : S \ {Max(S)} \in SUBSET (1..l) /\ g[S \ {Max(S)}] \in D
    BY <2>3
  <2>5. \A S \in SUBSET (1..l) :
          g[S] = IF S = {} THEN q ELSE Acknowledged(g[S \ {Max(S)}], s[Max(S)])
    BY <1>5, <1>7, <2>3, <2>4
  <2>6. E(g)
    BY <1>2, <2>3, <2>5 DEF E
  <2> QED
    BY <2>6
<1>9. E(iter)
  BY <1>8 DEF iter
<1> HIDE DEF l
<1>10. iter[1..l] \in D
  <2>1. \A S \in SUBSET (1..l) :
          iter[S] = IF S = {} THEN q ELSE Acknowledged(iter[S \ {Max(S)}], s[Max(S)])
    BY <1>2, <1>9 DEF E
  <2>2. iter[{}] \in D
    BY <1>3, <2>1
  <2>3. \A S \in SUBSET (1..l) : S # {} /\ iter[S \ {Max(S)}] \in D => iter[S] \in D
    BY <1>4, <1>5, <2>1
  <2> QED
    BY <1>2, <2>2, <2>3, FoldStays
<1> QED
  BY <1>1, <1>2, <1>10 DEF D

LEMMA DismissedInTurn ==
  ASSUME NEW q \in Healthy, NEW s \in Seq(Notices)
  PROVE  LET r == FoldLeft(Dismissed, q, s)
         IN  r \in Healthy /\ From(r, q, {}, {})
<1> DEFINE D == {r \in Healthy : From(r, q, {}, {})}
           f == [x \in D \X Notices |-> Dismissed(x[1], x[2])]
           l == Len(s)
           E(g) == g = [S \in SUBSET DOMAIN s |->
                          IF S = {} THEN q ELSE Dismissed(g[S \ {Max(S)}], s[Max(S)])]
           iter == CHOOSE g : E(g)
<1>1. FoldLeft(Dismissed, q, s) = iter[DOMAIN s]
  BY DEF FoldLeft, MapThenFoldSet
<1>2. l \in Nat /\ DOMAIN s = 1..l /\ \A i \in 1..l : s[i] \in Notices
  OBVIOUS
<1>3. q \in D
  BY FromItself
<1>4. \A r \in D, n \in Notices : Dismissed(r, n) \in D
  BY DismissedKeeps DEF From
<1>5. \A S \in SUBSET (1..l) : S # {} => s[Max(S)] \in Notices
  BY <1>2, MaxOfNumbers
<1> HIDE DEF D
<1>6. f \in [D \X Notices -> D]
  BY <1>4
<1>7. \A r \in D, n \in Notices : f[<<r, n>>] = Dismissed(r, n)
  OBVIOUS
<1> HIDE DEF f
<1> HIDE DEF E, iter
<1>8. \E g : E(g)
  <2>1. FoldsOf(D, q, f, s, Len(s)) # {}
    BY <1>3, <1>6, FoldExists
  <2>2. PICK g : g \in FoldsOf(D, q, f, s, l)
    BY <2>1
  <2>3. /\ g \in [SUBSET (1..l) -> D]
        /\ \A S \in SUBSET (1..l) : g[S] = IF S = {} THEN q ELSE f[<<g[S \ {Max(S)}], s[Max(S)]>>]
    BY <2>2 DEF FoldsOf
  <2>4. \A S \in SUBSET (1..l) : S \ {Max(S)} \in SUBSET (1..l) /\ g[S \ {Max(S)}] \in D
    BY <2>3
  <2>5. \A S \in SUBSET (1..l) :
          g[S] = IF S = {} THEN q ELSE Dismissed(g[S \ {Max(S)}], s[Max(S)])
    BY <1>5, <1>7, <2>3, <2>4
  <2>6. E(g)
    BY <1>2, <2>3, <2>5 DEF E
  <2> QED
    BY <2>6
<1>9. E(iter)
  BY <1>8 DEF iter
<1> HIDE DEF l
<1>10. iter[1..l] \in D
  <2>1. \A S \in SUBSET (1..l) :
          iter[S] = IF S = {} THEN q ELSE Dismissed(iter[S \ {Max(S)}], s[Max(S)])
    BY <1>2, <1>9 DEF E
  <2>2. iter[{}] \in D
    BY <1>3, <2>1
  <2>3. \A S \in SUBSET (1..l) : S # {} /\ iter[S \ {Max(S)}] \in D => iter[S] \in D
    BY <1>4, <1>5, <2>1
  <2> QED
    BY <1>2, <2>2, <2>3, FoldStays
<1> QED
  BY <1>1, <1>2, <1>10 DEF D

LEMMA AddedKeeps ==
  ASSUME NEW q \in Healthy, NEW n \in Notices
  PROVE  Added(q, n) \in Healthy /\ From(Added(q, n), q, {n}, {})
<1> DEFINE r == Released(q, KeyOf[n])
<1>1. r \in Healthy /\ From(r, q, {}, {})
  BY ReleasedKeeps
<1> HIDE DEF r
<1>2. Enqueued(r, n) \in Healthy /\ From(Enqueued(r, n), r, {n}, {})
  BY <1>1, EnqueuedKeeps
<1> QED
  BY <1>1, <1>2 DEF From, Added, r

LEMMA AddedInTurn ==
  ASSUME NEW q \in Healthy, NEW s \in Seq(Notices)
  PROVE  LET r == FoldLeft(Added, q, s)
         IN  r \in Healthy /\ From(r, q, ToSet(s), {})
<1> DEFINE D == {r \in Healthy : From(r, q, ToSet(s), {})}
           f == [x \in D \X ToSet(s) |-> Added(x[1], x[2])]
           l == Len(s)
           E(g) == g = [S \in SUBSET DOMAIN s |->
                          IF S = {} THEN q ELSE Added(g[S \ {Max(S)}], s[Max(S)])]
           iter == CHOOSE g : E(g)
<1>1. FoldLeft(Added, q, s) = iter[DOMAIN s]
  BY DEF FoldLeft, MapThenFoldSet
<1>2. l \in Nat /\ DOMAIN s = 1..l /\ \A i \in 1..l : s[i] \in ToSet(s)
  BY DEF ToSet
<1>a. s \in Seq(ToSet(s)) /\ ToSet(s) \subseteq Notices
  <2>1. ToSet(s) \subseteq Notices
    BY SetOfSeq
  <2> QED
    BY <1>2, <2>1
<1>3. q \in D
  BY DEF From
<1>4. \A r \in D, n \in ToSet(s) : Added(r, n) \in D
  BY <1>a, AddedKeeps DEF From
<1>5. \A S \in SUBSET (1..l) : S # {} => s[Max(S)] \in ToSet(s)
  BY <1>2, MaxOfNumbers
<1> HIDE DEF D
<1>6. f \in [D \X ToSet(s) -> D]
  BY <1>4
<1>7. \A r \in D, n \in ToSet(s) : f[<<r, n>>] = Added(r, n)
  OBVIOUS
<1> HIDE DEF f
<1> HIDE DEF E, iter
<1>8. \E g : E(g)
  <2>1. FoldsOf(D, q, f, s, Len(s)) # {}
    BY <1>a, <1>3, <1>6, FoldExists
  <2>2. PICK g : g \in FoldsOf(D, q, f, s, l)
    BY <2>1
  <2>3. /\ g \in [SUBSET (1..l) -> D]
        /\ \A S \in SUBSET (1..l) : g[S] = IF S = {} THEN q ELSE f[<<g[S \ {Max(S)}], s[Max(S)]>>]
    BY <2>2 DEF FoldsOf
  <2>4. \A S \in SUBSET (1..l) : S \ {Max(S)} \in SUBSET (1..l) /\ g[S \ {Max(S)}] \in D
    BY <2>3
  <2>5. \A S \in SUBSET (1..l) :
          g[S] = IF S = {} THEN q ELSE Added(g[S \ {Max(S)}], s[Max(S)])
    BY <1>5, <1>7, <2>3, <2>4
  <2>6. E(g)
    BY <1>2, <2>3, <2>5 DEF E
  <2> QED
    BY <2>6
<1>9. E(iter)
  BY <1>8 DEF iter
<1> HIDE DEF l
<1>10. iter[1..l] \in D
  <2>1. \A S \in SUBSET (1..l) :
          iter[S] = IF S = {} THEN q ELSE Added(iter[S \ {Max(S)}], s[Max(S)])
    BY <1>2, <1>9 DEF E
  <2>2. iter[{}] \in D
    BY <1>3, <2>1
  <2>3. \A S \in SUBSET (1..l) : S # {} /\ iter[S \ {Max(S)}] \in D => iter[S] \in D
    BY <1>4, <1>5, <2>1
  <2> QED
    BY <1>2, <2>2, <2>3, FoldStays
<1> QED
  BY <1>1, <1>2, <1>10 DEF D

\* The queue follows the mailbox: only those that the mailbox no longer holds are asked to leave.
LEMMA ReconciledKeeps ==
  ASSUME NEW q \in Healthy, NEW items \in Seq(Notices), NEW max \in Nat \ {0}
  PROVE  LET r == Reconciled(q, items, max)
         IN  r \in Healthy /\ From(r, q, ToSet(items), Ids(q) \ ToSet(items))
<1> DEFINE capped == CappedAt(q, max)
           away == Removed(capped.awaiting, ToSet(items))
           acked == FoldLeft(Acknowledged, capped, away)
           dropped == Removed(acked.pending, ToSet(items))
           kept == FoldLeft(Dismissed, acked, dropped)
           gone == {e.id : e \in {d \in ToSet(kept.visible) : d.stage # "exiting" /\ d.id \notin ToSet(items)}}
           asked == AskedToExit(kept, gone)
           closed == IF asked.detail \in gone THEN DetailClosed(asked) ELSE asked
           new == Removed(items, Ids(closed))
           r == FoldLeft(Added, closed, new)
<1>1. Reconciled(q, items, max) = r
  BY DEF Reconciled
<1>2. capped \in Healthy /\ From(capped, q, {}, {})
  BY CappedAtKeeps
<1> HIDE DEF capped
<1>3. away \in Seq(Notices)
  BY <1>2, HealthyParts, RemovedSet
<1> HIDE DEF away
<1>4. acked \in Healthy /\ From(acked, capped, {}, {})
  BY <1>2, <1>3, AcknowledgedInTurn
<1> HIDE DEF acked
<1>5. dropped \in Seq(Notices)
  BY <1>4, HealthyParts, RemovedSet
<1> HIDE DEF dropped
<1>6. kept \in Healthy /\ From(kept, acked, {}, {})
  BY <1>4, <1>5, DismissedInTurn
<1> HIDE DEF kept
<1>7. gone \subseteq Ids(kept) \ ToSet(items)
  BY DEF Ids, VisibleIds
<1> HIDE DEF gone
<1>8. asked \in Healthy /\ From(asked, kept, {}, gone)
  BY <1>6, AskedToExitKeeps
<1> HIDE DEF asked
<1>9. closed \in Healthy /\ From(closed, asked, {}, {})
  BY <1>8, DetailClosedKeeps, FromItself
<1> HIDE DEF closed
<1>10. new \in Seq(Notices) /\ ToSet(new) \subseteq ToSet(items)
  BY RemovedSet
<1> HIDE DEF new
<1>11. r \in Healthy /\ From(r, closed, ToSet(new), {})
  BY <1>9, <1>10, AddedInTurn
<1> HIDE DEF r
<1>12. gone \subseteq Ids(q) \ ToSet(items)
  BY <1>2, <1>4, <1>6, <1>7 DEF From
<1>13. Ids(r) \subseteq Ids(q) \cup ToSet(items)
  BY <1>2, <1>4, <1>6, <1>8, <1>9, <1>10, <1>11 DEF From
<1>14. Shows(r) \subseteq Shows(q) \cup gone
  BY <1>2, <1>4, <1>6, <1>8, <1>9, <1>11 DEF From
<1> QED
  BY <1>1, <1>11, <1>12, <1>13, <1>14 DEF From

-----------------------------------------------------------------------------
(* The invariant                                                            *)

\* The snapshots that may still reach the queue.
Carried ==
  ToSet(events) \cup reads \cup {s \in {buffer} : s # None}
  \cup {call[n].answer : n \in {m \in Notices : call[m].phase = "answered"}}

Fields ==
  /\ due \subseteq Notices /\ outbox \in Seq(Usage) /\ mailbox \in Snapshot
  /\ syncs \in Nat /\ events \in Seq(Snapshot)
  /\ call \in [Notices -> [phase : {"idle", "asked", "removed", "failed", "answered"},
                           answer : Snapshot \cup {None}]]
  /\ asking \subseteq Notices \cup {"opening"} /\ reads \subseteq Snapshot
  /\ open \in BOOLEAN /\ ready \in BOOLEAN /\ buffer \in Snapshot \cup {None} /\ applied \in Nat
  /\ places \in PlacesAsked /\ panel \in BOOLEAN

Types == Fields /\ Carried \subseteq Snapshot

\* None tells of what the mailbox has not held yet, and what one tells of is told by every
\* later one, or has been shown.
LaterTellsMore ==
  /\ \A s \in Carried : s.revision <= mailbox.revision
  /\ \A s, t \in Carried \cup {mailbox} : s.revision <= t.revision
       => ToSet(s.items) \cap Usage \subseteq ToSet(t.items) \cup shown

\* What is in the queue is told of by every snapshot that may still be applied, or has been shown.
QueueIsTold ==
  \A s \in Carried \cup {mailbox} : s.revision > applied \/ s = mailbox
    => Ids(queue) \cap Usage \subseteq ToSet(s.items) \cup shown

\* What leaves has been shown.
LeavesShown ==
  /\ Shows(queue) \cap Usage \subseteq shown
  /\ \A n \in Usage : call[n].phase # "idle" => n \in shown

NotificationInv ==
  Types /\ queue \in Healthy /\ LaterTellsMore /\ QueueIsTold /\ LeavesShown /\ NothingLeavesUnseen

-----------------------------------------------------------------------------
(* Steps                                                                    *)

\* Snapshots that were carried before, or that of the mailbox, change nothing of what they tell.
LEMMA Carriers ==
  ASSUME NotificationInv, mailbox' = mailbox, shown \subseteq shown',
         Carried' \subseteq Carried \cup {mailbox}
  PROVE  Carried' \subseteq Snapshot /\ LaterTellsMore'
<1>1. mailbox \in Snapshot /\ mailbox.revision \in Nat /\ Carried \subseteq Snapshot /\ LaterTellsMore
  BY DEF NotificationInv, Types, Fields, Snapshot
<1>2. \A s \in Carried \cup {mailbox} : s.revision <= mailbox.revision
  BY <1>1 DEF LaterTellsMore
<1>3. \A s, t \in Carried \cup {mailbox} : s.revision <= t.revision
        => ToSet(s.items) \cap Usage \subseteq ToSet(t.items) \cup shown'
  BY <1>1 DEF LaterTellsMore
<1>4. Carried' \cup {mailbox'} \subseteq Carried \cup {mailbox}
  OBVIOUS
<1>5. \A s \in Carried' : s.revision <= mailbox'.revision
  BY <1>2, <1>4
<1>6. \A s, t \in Carried' \cup {mailbox'} : s.revision <= t.revision
        => ToSet(s.items) \cap Usage \subseteq ToSet(t.items) \cup shown'
  BY <1>3, <1>4
<1> QED
  BY <1>1, <1>4, <1>5, <1>6 DEF LaterTellsMore

\* A step of the window that brings nothing new into the queue.
LEMMA SameSnapshots ==
  ASSUME NotificationInv, mailbox' = mailbox, shown \subseteq shown',
         Carried' \subseteq Carried \cup {mailbox}, applied' = applied,
         Ids(queue') \subseteq Ids(queue)
  PROVE  QueueIsTold'
<1>1. \A s \in Carried \cup {mailbox} : s.revision > applied \/ s = mailbox
        => Ids(queue) \cap Usage \subseteq ToSet(s.items) \cup shown
  BY DEF NotificationInv, QueueIsTold
<1>2. \A s \in Carried' \cup {mailbox'} : s.revision > applied' \/ s = mailbox'
        => Ids(queue') \cap Usage \subseteq ToSet(s.items) \cup shown'
  BY <1>1
<1> QED
  BY <1>2 DEF QueueIsTold

\* The panel pauses the queue or lets it go on.
LEMMA UnderPanelKeeps ==
  ASSUME NEW r \in Healthy
  PROVE  UnderPanel(r) \in Healthy /\ From(UnderPanel(r), r, {}, {})
BY PausedKeeps, ResumedKeeps DEF UnderPanel, Reasons

\* A snapshot that reaches the window, on the queue r.
LEMMA TakeKeeps ==
  ASSUME NotificationInv, NEW s \in Carried \cup {mailbox}, NEW r \in Healthy, From(r, queue, {}, {}),
         \/ Apply(s, r)
         \/ queue' = r /\ UNCHANGED applied,
         mailbox' = mailbox, shown \subseteq shown', Carried' \subseteq Carried \cup {mailbox}
  PROVE  /\ queue' \in Healthy /\ applied' \in Nat /\ QueueIsTold'
         /\ Shows(queue') \cap Usage \subseteq shown
<1>1. /\ queue \in Healthy /\ applied \in Nat /\ Carried \cup {mailbox} \subseteq Snapshot
      /\ LaterTellsMore /\ QueueIsTold /\ LeavesShown /\ places \in Nat \ {0}
  BY PlacesType DEF NotificationInv, Types, Fields
<1>2. s.revision \in Nat /\ s.items \in Seq(Notices)
  BY <1>1 DEF Snapshot
<1> DEFINE resumed == Resumed(r, "sync")
           c == Reconciled(resumed, s.items, places)
<1>3. resumed \in Healthy /\ From(resumed, r, {}, {})
  BY ResumedKeeps
<1> HIDE DEF resumed
<1>4. c \in Healthy /\ From(c, resumed, ToSet(s.items), Ids(resumed) \ ToSet(s.items))
  BY <1>1, <1>2, <1>3, ReconciledKeeps
<1> HIDE DEF c
<1>5. UnderPanel(c) \in Healthy /\ From(UnderPanel(c), c, {}, {})
  BY <1>4, UnderPanelKeeps
<1>6. CASE IsNews(s) /\ applied' = s.revision /\ queue' = UnderPanel(c)
  <2>1. s.revision > applied
    BY <1>6 DEF IsNews
  <2>2. Ids(queue) \cap Usage \subseteq ToSet(s.items) \cup shown
    BY <1>1, <2>1 DEF QueueIsTold
  <2>3. Ids(queue') \subseteq Ids(queue) \cup ToSet(s.items)
    BY <1>3, <1>4, <1>5, <1>6 DEF From
  <2>4. Ids(resumed) \cap Usage \subseteq ToSet(s.items) \cup shown
    BY <1>3, <2>2 DEF From
  <2>5. Shows(queue') \cap Usage \subseteq shown
    BY <1>1, <1>3, <1>4, <1>5, <1>6, <2>4 DEF From, LeavesShown
  <2>6. ASSUME NEW t \in Carried' \cup {mailbox'}, t.revision > applied' \/ t = mailbox'
        PROVE  Ids(queue') \cap Usage \subseteq ToSet(t.items) \cup shown'
    <3>1. t \in Carried \cup {mailbox} /\ t \in Snapshot /\ t.revision \in Nat
      BY <1>1, <2>6 DEF Snapshot
    <3>2. s.revision <= t.revision
      <4>1. s.revision <= mailbox.revision
        BY <1>1, <1>2 DEF LaterTellsMore, Snapshot
      <4> QED
        BY <1>2, <1>6, <2>6, <3>1, <4>1
    <3>3. t.revision > applied
      BY <1>1, <1>2, <2>1, <3>1, <3>2
    <3>4. Ids(queue) \cap Usage \subseteq ToSet(t.items) \cup shown
      BY <1>1, <3>1, <3>3 DEF QueueIsTold
    <3>5. ToSet(s.items) \cap Usage \subseteq ToSet(t.items) \cup shown
      BY <1>1, <3>1, <3>2 DEF LaterTellsMore
    <3> QED
      BY <2>3, <3>4, <3>5
  <2>7. QueueIsTold'
    BY <2>6 DEF QueueIsTold
  <2> QED
    BY <1>2, <1>5, <1>6, <2>5, <2>7
<1>7. ASSUME applied' = applied, queue' \in Healthy, From(queue', queue, {}, {})
      PROVE  applied' \in Nat /\ QueueIsTold' /\ Shows(queue') \cap Usage \subseteq shown
  <2>1. Ids(queue') \subseteq Ids(queue) /\ Shows(queue') \subseteq Shows(queue)
    BY <1>7 DEF From
  <2>2. Shows(queue') \cap Usage \subseteq shown
    BY <1>1, <2>1 DEF LeavesShown
  <2> QED
    BY <1>1, <1>7, <2>1, <2>2, SameSnapshots
<1>8. CASE ~IsNews(s) /\ applied' = applied /\ queue' = resumed
  <2>1. From(resumed, queue, {}, {})
    BY <1>3 DEF From
  <2> QED
    BY <1>3, <1>7, <1>8, <2>1
<1>9. CASE queue' = r /\ UNCHANGED applied
  BY <1>7, <1>9
<1>10. Apply(s, r) =>
         \/ IsNews(s) /\ applied' = s.revision /\ queue' = UnderPanel(c)
         \/ ~IsNews(s) /\ applied' = applied /\ queue' = resumed
  BY DEF Apply, resumed, c
<1> QED
  BY <1>6, <1>8, <1>9, <1>10

\* A step of the window keeps the invariant.
LEMMA WindowStep ==
  ASSUME NotificationInv, mailbox' = mailbox, outbox' = outbox, due' = due,
         doubles' = doubles, discarded' = discarded, shown \subseteq shown', Fields',
         Carried' \subseteq Carried \cup {mailbox},
         queue' \in Healthy, QueueIsTold', Shows(queue') \cap Usage \subseteq shown',
         \A n \in Usage : call'[n].phase # "idle" => n \in shown'
  PROVE  NotificationInv'
<1>1. Carried' \subseteq Snapshot /\ LaterTellsMore'
  BY Carriers
<1>2. LeavesShown'
  BY DEF LeavesShown
<1>3. NothingLeavesUnseen'
  BY DEF NotificationInv, NothingLeavesUnseen
<1> QED
  BY <1>1, <1>2, <1>3 DEF NotificationInv, Types

\* ... as one does that changes the queue alone, and shows in it only what has been before the
\* reader's eyes.
LEMMA QueueStep ==
  ASSUME NotificationInv, NowShown,
         UNCHANGED <<due, program, doubles, discarded, syncs, events, reads, open, ready, buffer, applied>>,
         asking' \subseteq Notices \cup {"opening"}, panel' \in BOOLEAN, places' = places,
         call' \in [Notices -> [phase : {"idle", "asked", "removed", "failed", "answered"},
                                answer : Snapshot \cup {None}]],
         \A n \in Notices : call'[n].phase = "answered" => call'[n] = call[n],
         \A n \in Usage : call'[n].phase # "idle" => n \in shown \/ queue.detail = n,
         queue' \in Healthy,
         From(queue', queue, {}, {n \in Notices : IsAt(queue', n, "visible") \/ n = queue'.detail})
  PROVE  NotificationInv'
<1>1. Fields /\ Types /\ LeavesShown
  BY DEF NotificationInv, Types
<1>2. Fields'
  BY <1>1 DEF Fields, program
<1>3. mailbox' = mailbox /\ outbox' = outbox /\ shown \subseteq shown'
  BY DEF program, NowShown
<1>4. Carried' \subseteq Carried
  BY DEF Carried
<1>5. Ids(queue') \subseteq Ids(queue)
  BY DEF From
<1>6. QueueIsTold'
  BY <1>3, <1>4, <1>5, SameSnapshots
<1>7. \A n \in Usage : IsAt(queue', n, "visible") \/ n = queue'.detail => n \in shown'
  BY DEF NowShown
<1>8. Shows(queue') \cap Usage \subseteq shown'
  BY <1>1, <1>3, <1>7 DEF From, LeavesShown
<1>9. \A n \in Usage : queue.detail = n => n \in shown
  BY <1>1, NoticesType DEF LeavesShown, Shows
<1>10. \A n \in Usage : call'[n].phase # "idle" => n \in shown'
  BY <1>3, <1>9
<1> QED
  BY <1>2, <1>3, <1>4, <1>6, <1>8, <1>10, WindowStep

\* Nobody dismisses a notification of usage that has not been shown.
LEMMA CallsAreOfShown ==
  ASSUME NotificationInv
  PROVE  /\ call \in [Notices -> [phase : {"idle", "asked", "removed", "failed", "answered"},
                                  answer : Snapshot \cup {None}]]
         /\ \A n \in Usage : call[n].phase # "idle" => n \in shown
         /\ queue \in Healthy /\ asking \subseteq Notices \cup {"opening"} /\ panel \in BOOLEAN
BY DEF NotificationInv, Types, Fields, LeavesShown

LEMMA EnterStep ==
  ASSUME NotificationInv, NEW n \in Notices, Enter(n)
  PROVE  NotificationInv'
<1> DEFINE r == HasEntered(queue, n)
<1>1. r \in Healthy /\ From(r, queue, {}, {m \in Notices : IsAt(r, m, "visible")})
  BY CallsAreOfShown, HasEnteredKeeps
<1> HIDE DEF r
<1>2. queue' = r /\ OnlyTheQueue
  BY DEF Enter, r
<1>3. From(r, queue, {}, {m \in Notices : IsAt(r, m, "visible") \/ m = r.detail})
  BY <1>1 DEF From
<1> QED
  BY <1>1, <1>2, <1>3, CallsAreOfShown, QueueStep DEF OnlyTheQueue, InWindow

LEMMA ExpireStep ==
  ASSUME NotificationInv, Expire
  PROVE  NotificationInv'
<1> DEFINE r == Expired(queue)
<1>1. r \in Healthy /\ From(r, queue, {}, {})
  BY CallsAreOfShown, ExpiredKeeps DEF Expire
<1> HIDE DEF r
<1>2. queue' = r /\ OnlyTheQueue
  BY DEF Expire, r
<1>3. From(r, queue, {}, {m \in Notices : IsAt(r, m, "visible") \/ m = r.detail})
  BY <1>1 DEF From
<1> QED
  BY <1>1, <1>2, <1>3, CallsAreOfShown, QueueStep DEF OnlyTheQueue, InWindow

LEMMA FollowPlacesStep ==
  ASSUME NotificationInv, FollowPlaces
  PROVE  NotificationInv'
<1> DEFINE r == CappedAt(queue, places)
<1>1. r \in Healthy /\ From(r, queue, {}, {})
  <2>1. places \in Nat \ {0}
    BY PlacesType DEF NotificationInv, Types, Fields
  <2> QED
    BY <2>1, CallsAreOfShown, CappedAtKeeps
<1> HIDE DEF r
<1>2. queue' = r /\ OnlyTheQueue
  BY DEF FollowPlaces, r
<1>3. From(r, queue, {}, {m \in Notices : IsAt(r, m, "visible") \/ m = r.detail})
  BY <1>1 DEF From
<1> QED
  BY <1>1, <1>2, <1>3, CallsAreOfShown, QueueStep DEF OnlyTheQueue, InWindow

LEMMA OpenDetailStep ==
  ASSUME NotificationInv, NEW n \in Notices, OpenDetail(n)
  PROVE  NotificationInv'
<1> DEFINE r == DetailOpened(queue, n)
<1>1. r \in Healthy /\ From(r, queue, {}, {r.detail})
  BY CallsAreOfShown, DetailOpenedKeeps
<1> HIDE DEF r
<1>2. queue' = r /\ OnlyTheQueue
  BY DEF OpenDetail, r
<1>3. From(r, queue, {}, {m \in Notices : IsAt(r, m, "visible") \/ m = r.detail})
  BY <1>1 DEF From, Shows
<1> QED
  BY <1>1, <1>2, <1>3, CallsAreOfShown, QueueStep DEF OnlyTheQueue, InWindow

LEMMA CloseDetailStep ==
  ASSUME NotificationInv, CloseDetail
  PROVE  NotificationInv'
<1> DEFINE r == DetailClosed(queue)
<1>1. r \in Healthy /\ From(r, queue, {}, {})
  BY CallsAreOfShown, DetailClosedKeeps
<1> HIDE DEF r
<1>2. queue' = r /\ OnlyTheQueue
  BY DEF CloseDetail, r
<1>3. From(r, queue, {}, {m \in Notices : IsAt(r, m, "visible") \/ m = r.detail})
  BY <1>1 DEF From
<1> QED
  BY <1>1, <1>2, <1>3, CallsAreOfShown, QueueStep DEF OnlyTheQueue, InWindow

LEMMA PanelClosesStep ==
  ASSUME NotificationInv, PanelCloses
  PROVE  NotificationInv'
<1> DEFINE r == Resumed(queue, "panel")
<1>1. r \in Healthy /\ From(r, queue, {}, {})
  BY CallsAreOfShown, ResumedKeeps
<1> HIDE DEF r
<1>2. queue' = r /\ panel' = FALSE /\ InWindow
      /\ UNCHANGED <<syncs, events, call, asking, reads, open, ready, buffer, applied, places>>
  BY DEF PanelCloses, r
<1>3. From(r, queue, {}, {m \in Notices : IsAt(r, m, "visible") \/ m = r.detail})
  BY <1>1 DEF From
<1> QED
  BY <1>1, <1>2, <1>3, CallsAreOfShown, QueueStep DEF InWindow

\* The card comes back, and waits for the snapshot.
LEMMA RestoreStep ==
  ASSUME NotificationInv, NEW n \in Notices, Restore(n)
  PROVE  NotificationInv'
<1> DEFINE p == Restored(queue, n)
           r == Paused(p, "sync")
<1>1. p \in Healthy /\ From(p, queue, {}, {})
  BY CallsAreOfShown, RestoredKeeps
<1> HIDE DEF p
<1>2. r \in Healthy /\ From(r, p, {}, {})
  BY <1>1, PausedKeeps DEF Reasons
<1> HIDE DEF r
<1>3. /\ queue' = r /\ Calls(n, "idle", None) /\ asking' = asking \cup {n} /\ InWindow
      /\ UNCHANGED <<syncs, events, reads, open, ready, buffer, applied, places, panel>>
  BY DEF Restore, p, r
<1>4. From(r, queue, {}, {m \in Notices : IsAt(r, m, "visible") \/ m = r.detail})
  BY <1>1, <1>2 DEF From
<1>5. /\ call' \in [Notices -> [phase : {"idle", "asked", "removed", "failed", "answered"},
                                answer : Snapshot \cup {None}]]
      /\ \A m \in Notices : call'[m].phase = "idle" \/ call'[m] = call[m]
  BY <1>3, CallsAreOfShown DEF Calls
<1> QED
  BY <1>2, <1>3, <1>4, <1>5, CallsAreOfShown, QueueStep, NoticesType DEF InWindow

\* What the detail was about exits, and is dismissed if it could.
LEMMA DismissDetailStep ==
  ASSUME NotificationInv, DismissDetail
  PROVE  NotificationInv'
<1> DEFINE d == queue.detail
           r == DetailDismissed(queue, d)
<1>0. d \in Notices
  BY CallsAreOfShown, HealthyParts DEF DismissDetail, Subject
<1>1. r \in Healthy /\ From(r, queue, {}, {d} \cup {m \in Notices : IsAt(r, m, "visible")})
  BY <1>0, CallsAreOfShown, DetailDismissedKeeps
<1>a. d \in Shows(queue)
  BY <1>0 DEF Shows
<1> HIDE DEF r
<1>2. /\ queue' = r /\ InWindow
      /\ UNCHANGED <<syncs, events, asking, reads, open, ready, buffer, applied, places, panel>>
      /\ call' \in {call, [call EXCEPT ![d].phase = "asked"]}
  BY DEF DismissDetail, r
<1>3. From(r, queue, {}, {m \in Notices : IsAt(r, m, "visible") \/ m = r.detail})
  BY <1>1, <1>a DEF From
<1>4. /\ call' \in [Notices -> [phase : {"idle", "asked", "removed", "failed", "answered"},
                                answer : Snapshot \cup {None}]]
      /\ \A m \in Notices : call'[m] = call[m] \/ (m = d /\ call'[m].phase = "asked")
  <2> HIDE DEF d
  <2> QED
    BY <1>0, <1>2, CallsAreOfShown
<1> HIDE DEF r
<1>5. /\ \A n \in Notices : call'[n].phase = "answered" => call'[n] = call[n]
      /\ \A n \in Usage : call'[n].phase # "idle" => n \in shown \/ queue.detail = n
  BY <1>4, CallsAreOfShown, NoticesType
<1> QED
  BY <1>1, <1>2, <1>3, <1>4, <1>5, CallsAreOfShown, QueueStep DEF InWindow

\* A step that shows nothing and changes neither the mailbox nor the outbox.
LEMMA QuietStep ==
  ASSUME NotificationInv, UNCHANGED <<due, program, history, applied>>, Fields',
         Carried' \subseteq Carried \cup {mailbox},
         queue' \in Healthy, From(queue', queue, {}, {}),
         \A n \in Usage : call'[n].phase # "idle" => n \in shown
  PROVE  NotificationInv'
<1>1. mailbox' = mailbox /\ outbox' = outbox /\ shown' = shown /\ doubles' = doubles
      /\ discarded' = discarded
  BY DEF program, history
<1>2. Ids(queue') \subseteq Ids(queue) /\ Shows(queue') \subseteq Shows(queue)
  BY DEF From
<1>3. QueueIsTold'
  BY <1>1, <1>2, SameSnapshots
<1>4. Shows(queue') \cap Usage \subseteq shown'
  BY <1>1, <1>2 DEF NotificationInv, LeavesShown
<1> QED
  BY <1>1, <1>3, <1>4, WindowStep

\* ... of which those that leave the queue alone too.
LEMMA QuieterStep ==
  ASSUME NotificationInv, UNCHANGED <<due, program, history, applied, queue>>, Fields',
         Carried' \subseteq Carried \cup {mailbox},
         \A n \in Usage : call'[n].phase # "idle" => n \in shown
  PROVE  NotificationInv'
<1>1. queue' \in Healthy /\ From(queue', queue, {}, {})
  BY CallsAreOfShown, FromItself
<1> QED
  BY <1>1, QuietStep

\* What the calls carry after one of them has gone on.
LEMMA CallGoesOn ==
  ASSUME NotificationInv, NEW n \in Notices, NEW phase \in {"idle", "asked", "removed", "failed", "answered"},
         NEW answer \in Snapshot \cup {None}, Calls(n, phase, answer)
  PROVE  /\ call' \in [Notices -> [phase : {"idle", "asked", "removed", "failed", "answered"},
                                   answer : Snapshot \cup {None}]]
         /\ call'[n] = [phase |-> phase, answer |-> answer]
         /\ \A m \in Notices \ {n} : call'[m] = call[m]
         /\ {call'[m].answer : m \in {k \in Notices : call'[k].phase = "answered"}}
              \subseteq Carried \cup (IF phase = "answered" THEN {answer} ELSE {})
<1>1. /\ call' \in [Notices -> [phase : {"idle", "asked", "removed", "failed", "answered"},
                                answer : Snapshot \cup {None}]]
      /\ call'[n] = [phase |-> phase, answer |-> answer]
      /\ \A m \in Notices \ {n} : call'[m] = call[m]
  BY CallsAreOfShown DEF Calls
<1>2. ASSUME NEW m \in Notices, call'[m].phase = "answered"
      PROVE  call'[m].answer \in Carried \cup (IF phase = "answered" THEN {answer} ELSE {})
  <2>1. CASE m = n
    BY <1>1, <1>2, <2>1
  <2>2. CASE m # n
    BY <1>1, <1>2, <2>2 DEF Carried
  <2> QED
    BY <2>1, <2>2
<1> QED
  BY <1>1, <1>2

\* The mailbox is sent to the window.
LEMMA SentEvents ==
  ASSUME NotificationInv, Sent
  PROVE  events' \in Seq(Snapshot) /\ ToSet(events') \subseteq ToSet(events) \cup {mailbox}
<1>1. events \in Seq(Snapshot) /\ mailbox \in Snapshot
  BY DEF NotificationInv, Types, Fields
<1> QED
  BY <1>1, AddedToSeq DEF Sent

LEMMA PanelOpensStep ==
  ASSUME NotificationInv, PanelOpens
  PROVE  NotificationInv'
<1> DEFINE r == Paused(queue, "panel")
<1>1. r \in Healthy /\ From(r, queue, {}, {})
  BY CallsAreOfShown, PausedKeeps DEF Reasons
<1> HIDE DEF r
<1>2. /\ queue' = r /\ panel' = TRUE
      /\ UNCHANGED <<due, program, history, syncs, events, call, asking, reads, open, ready, buffer,
                     applied, places>>
  BY DEF PanelOpens, r
<1>3. Fields'
  BY <1>2 DEF NotificationInv, Types, Fields, program
<1>4. Carried' \subseteq Carried
  BY <1>2 DEF Carried
<1> QED
  BY <1>1, <1>2, <1>3, <1>4, CallsAreOfShown, QuietStep

LEMMA SyncStep ==
  ASSUME NotificationInv, Sync \/ SyncFails
  PROVE  NotificationInv'
<1>1. /\ syncs > 0 /\ syncs' = syncs - 1 /\ (Sent \/ events' = events)
      /\ UNCHANGED <<due, program, call, asking, reads, window, history>>
  BY DEF Sync, SyncFails
<1>2. events' \in Seq(Snapshot) /\ ToSet(events') \subseteq ToSet(events) \cup {mailbox}
  BY <1>1, SentEvents DEF NotificationInv, Types, Fields
<1>3. Fields'
  BY <1>1, <1>2 DEF NotificationInv, Types, Fields, program, window
<1>4. Carried' \subseteq Carried \cup {mailbox}
  BY <1>1, <1>2 DEF Carried, window
<1> QED
  BY <1>1, <1>3, <1>4, CallsAreOfShown, QuieterStep DEF window

LEMMA DismissSendsStep ==
  ASSUME NotificationInv, NEW n \in Notices, DismissSends(n)
  PROVE  NotificationInv'
<1>1. /\ call[n].phase = "removed" /\ Sent /\ Calls(n, "answered", mailbox)
      /\ UNCHANGED <<program, due, syncs, asking, reads, window, history>>
  BY DEF DismissSends, OnlyCalls
<1>2. events' \in Seq(Snapshot) /\ ToSet(events') \subseteq ToSet(events) \cup {mailbox}
  BY <1>1, SentEvents
<1>3. mailbox \in Snapshot
  BY DEF NotificationInv, Types, Fields
<1>4. /\ call' \in [Notices -> [phase : {"idle", "asked", "removed", "failed", "answered"},
                                answer : Snapshot \cup {None}]]
      /\ \A m \in Notices \ {n} : call'[m] = call[m]
      /\ {call'[m].answer : m \in {k \in Notices : call'[k].phase = "answered"}} \subseteq Carried \cup {mailbox}
  BY <1>1, <1>3, CallGoesOn
<1>5. Fields'
  BY <1>1, <1>2, <1>4 DEF NotificationInv, Types, Fields, program, window
<1>6. Carried' \subseteq Carried \cup {mailbox}
  BY <1>1, <1>2, <1>4 DEF Carried, window
<1>7. \A m \in Usage : call'[m].phase # "idle" => m \in shown
  BY <1>1, <1>4, CallsAreOfShown, NoticesType
<1> QED
  BY <1>1, <1>5, <1>6, <1>7, QuieterStep DEF window

LEMMA DismissFailsStep ==
  ASSUME NotificationInv, NEW n \in Notices, DismissFails(n) \/ ReadAfterFailure(n)
  PROVE  NotificationInv'
<1>1. /\ call[n].phase # "idle" /\ (Calls(n, "failed", None) \/ Calls(n, "answered", mailbox))
      /\ UNCHANGED <<program, events, due, syncs, asking, reads, window, history>>
  BY DEF DismissFails, ReadAfterFailure, OnlyCalls
<1>3. mailbox \in Snapshot
  BY DEF NotificationInv, Types, Fields
<1>4. /\ call' \in [Notices -> [phase : {"idle", "asked", "removed", "failed", "answered"},
                                answer : Snapshot \cup {None}]]
      /\ \A m \in Notices \ {n} : call'[m] = call[m]
      /\ {call'[m].answer : m \in {k \in Notices : call'[k].phase = "answered"}} \subseteq Carried \cup {mailbox}
  <2>1. CASE Calls(n, "failed", None)
    BY <2>1, CallGoesOn
  <2>2. CASE Calls(n, "answered", mailbox)
    BY <1>3, <2>2, CallGoesOn
  <2> QED
    BY <1>1, <2>1, <2>2
<1>5. Fields'
  BY <1>1, <1>4 DEF NotificationInv, Types, Fields, program, window
<1>6. Carried' \subseteq Carried \cup {mailbox}
  BY <1>1, <1>4 DEF Carried, window
<1>7. \A m \in Usage : call'[m].phase # "idle" => m \in shown
  BY <1>1, <1>4, CallsAreOfShown, NoticesType
<1> QED
  BY <1>1, <1>5, <1>6, <1>7, QuieterStep DEF window

\* A card that has left the screen was before the reader's eyes.
LEMMA FinishExitStep ==
  ASSUME NotificationInv, NEW n \in Notices, FinishExit(n)
  PROVE  NotificationInv'
<1>1. /\ IsAt(queue, n, "exiting") /\ Calls(n, "asked", None)
      /\ UNCHANGED <<program, events, due, syncs, asking, reads, window, history>>
  BY DEF FinishExit, OnlyCalls
<1>2. n \in Shows(queue)
  BY <1>1 DEF IsAt, Shows
<1>3. n \in Usage => n \in shown
  BY <1>2 DEF NotificationInv, LeavesShown
<1>4. /\ call' \in [Notices -> [phase : {"idle", "asked", "removed", "failed", "answered"},
                                answer : Snapshot \cup {None}]]
      /\ \A m \in Notices \ {n} : call'[m] = call[m]
      /\ {call'[m].answer : m \in {k \in Notices : call'[k].phase = "answered"}} \subseteq Carried
  BY <1>1, CallGoesOn
<1>5. Fields'
  BY <1>1, <1>4 DEF NotificationInv, Types, Fields, program, window
<1>6. Carried' \subseteq Carried \cup {mailbox}
  BY <1>1, <1>4 DEF Carried, window
<1>7. \A m \in Usage : call'[m].phase # "idle" => m \in shown
  BY <1>3, <1>4, CallsAreOfShown, NoticesType
<1> QED
  BY <1>1, <1>5, <1>6, <1>7, QuieterStep DEF window

LEMMA AnswerReadStep ==
  ASSUME NotificationInv, NEW r, AnswerRead(r)
  PROVE  NotificationInv'
<1>1. /\ asking' = asking \ {r} /\ reads' = reads \cup {mailbox}
      /\ UNCHANGED <<due, program, syncs, events, call, window, history>>
  BY DEF AnswerRead
<1>2. Fields'
  BY <1>1 DEF NotificationInv, Types, Fields, program, window
<1>3. Carried' \subseteq Carried \cup {mailbox}
  BY <1>1 DEF Carried, window
<1> QED
  BY <1>1, <1>2, <1>3, CallsAreOfShown, QuieterStep DEF window

LEMMA OpenStep ==
  ASSUME NotificationInv, Open
  PROVE  NotificationInv'
<1>1. /\ open' = TRUE /\ asking' = {"opening"}
      /\ UNCHANGED <<due, program, syncs, events, call, reads, ready, buffer, applied, places, panel,
                     queue, history>>
  BY DEF Open
<1>2. Fields'
  BY <1>1 DEF NotificationInv, Types, Fields, program
<1>3. Carried' \subseteq Carried
  BY <1>1 DEF Carried
<1> QED
  BY <1>1, <1>2, <1>3, CallsAreOfShown, QuieterStep

LEMMA AskForPlacesStep ==
  ASSUME NotificationInv, AskForPlaces
  PROVE  NotificationInv'
<1>1. /\ places' \in PlacesAsked
      /\ UNCHANGED <<due, program, syncs, events, call, asking, reads, open, ready, buffer, applied,
                     panel, queue, history>>
  BY DEF AskForPlaces
<1>2. Fields'
  BY <1>1 DEF NotificationInv, Types, Fields, program
<1>3. Carried' \subseteq Carried
  BY <1>1 DEF Carried
<1> QED
  BY <1>1, <1>2, <1>3, CallsAreOfShown, QuieterStep

\* A snapshot arrives, with an event, a read or the answer to a call.
LEMMA TakeStep ==
  ASSUME NotificationInv, NEW s \in Carried, NEW r \in Healthy, From(r, queue, {}, {}),
         \/ Take(s, r)
         \/ Apply(s, r) /\ buffer' = None
         \/ queue' = r /\ UNCHANGED applied /\ buffer' = None,
         InWindow, UNCHANGED <<syncs, asking, open, places, panel>>, ready' \in BOOLEAN,
         events' \in Seq(Snapshot), ToSet(events') \subseteq ToSet(events), reads' \subseteq reads,
         call' \in [Notices -> [phase : {"idle", "asked", "removed", "failed", "answered"},
                                answer : Snapshot \cup {None}]],
         \A n \in Notices : call'[n] = call[n] \/ call'[n].phase = "idle"
  PROVE  NotificationInv'
<1>1. /\ mailbox' = mailbox /\ outbox' = outbox /\ due' = due /\ doubles' = doubles
      /\ discarded' = discarded /\ shown \subseteq shown'
  BY DEF InWindow, NowShown, program
<1>2. (Apply(s, r) \/ (queue' = r /\ UNCHANGED applied)) /\ buffer' \in {buffer, s, None}
  BY DEF Take
<1>3. Carried' \subseteq Carried
  <2>1. {x \in {buffer'} : x # None} \subseteq Carried
    BY <1>2 DEF Carried
  <2>2. {call'[m].answer : m \in {k \in Notices : call'[k].phase = "answered"}} \subseteq Carried
    BY DEF Carried
  <2>3. ToSet(events') \cup reads' \subseteq Carried
    BY DEF Carried
  <2> QED
    BY <2>1, <2>2, <2>3 DEF Carried
<1>4. /\ queue' \in Healthy /\ applied' \in Nat /\ QueueIsTold' /\ Shows(queue') \cap Usage \subseteq shown
  BY <1>1, <1>2, <1>3, TakeKeeps
<1>5. Fields'
  <2>1. s \in Snapshot /\ buffer \in Snapshot \cup {None}
    BY DEF NotificationInv, Types, Fields
  <2> QED
    BY <1>1, <1>2, <1>4, <2>1 DEF NotificationInv, Types, Fields
<1>6. \A n \in Usage : call'[n].phase # "idle" => n \in shown'
  BY <1>1, CallsAreOfShown, NoticesType
<1> QED
  BY <1>1, <1>3, <1>4, <1>5, <1>6, WindowStep

LEMMA EventArrivesStep ==
  ASSUME NotificationInv, EventArrives
  PROVE  NotificationInv'
<1>1. events \in Seq(Snapshot) /\ reads \subseteq Snapshot /\ ready \in BOOLEAN
  BY DEF NotificationInv, Types, Fields
<1>2. /\ events # <<>> /\ events' = Tail(events) /\ Take(Head(events), queue)
      /\ InWindow /\ UNCHANGED <<syncs, call, asking, reads, open, ready, places, panel>>
  BY DEF EventArrives
<1>3. Head(events) \in Carried /\ events' \in Seq(Snapshot) /\ ToSet(events') \subseteq ToSet(events)
  BY <1>1, <1>2, HeadAndTail DEF Carried
<1> QED
  BY <1>1, <1>2, <1>3, CallsAreOfShown, FromItself, TakeStep

LEMMA ReadArrivesStep ==
  ASSUME NotificationInv, NEW s \in reads, ReadArrives(s)
  PROVE  NotificationInv'
<1>1. events \in Seq(Snapshot) /\ reads \subseteq Snapshot /\ ready \in BOOLEAN /\ s \in Carried
  BY DEF NotificationInv, Types, Fields, Carried
<1>2. /\ reads' = reads \ {s} /\ Take(s, queue)
      /\ InWindow /\ UNCHANGED <<syncs, events, call, asking, open, ready, places, panel>>
  BY DEF ReadArrives
<1> QED
  BY <1>1, <1>2, CallsAreOfShown, FromItself, TakeStep

LEMMA PreferencesArriveStep ==
  ASSUME NotificationInv, PreferencesArrive
  PROVE  NotificationInv'
<1>1. events \in Seq(Snapshot) /\ reads \subseteq Snapshot
  BY DEF NotificationInv, Types, Fields
<1>2. /\ ready' = TRUE /\ buffer' = None
      /\ IF buffer = None THEN UNCHANGED <<applied, queue>> ELSE Apply(buffer, queue)
      /\ InWindow /\ UNCHANGED <<syncs, events, call, asking, reads, open, places, panel>>
  BY DEF PreferencesArrive
<1>3. CASE buffer # None
  <2>1. buffer \in Carried /\ Apply(buffer, queue)
    BY <1>2, <1>3 DEF Carried
  <2> QED
    BY <1>1, <1>2, <2>1, CallsAreOfShown, FromItself, TakeStep
<1>4. CASE buffer = None
  <2>1. UNCHANGED <<applied, queue>>
    BY <1>2, <1>4
  <2>2. From(queue', queue, {}, {n \in Notices : IsAt(queue', n, "visible") \/ n = queue'.detail})
    BY <2>1 DEF From
  <2>3. UNCHANGED buffer
    BY <1>2, <1>4
  <2>4. /\ mailbox' = mailbox /\ outbox' = outbox /\ due' = due /\ doubles' = doubles
        /\ discarded' = discarded /\ shown \subseteq shown'
    BY <1>2 DEF InWindow, NowShown, program
  <2>5. Carried' \subseteq Carried
    BY <1>2, <2>3 DEF Carried
  <2>6. Fields'
    BY <1>2, <2>1, <2>3, <2>4 DEF NotificationInv, Types, Fields
  <2>7. QueueIsTold'
    BY <2>1, <2>4, <2>5, SameSnapshots
  <2>8. queue' \in Healthy /\ Shows(queue') \cap Usage \subseteq shown'
    BY <2>1, <2>4 DEF NotificationInv, LeavesShown
  <2>9. \A n \in Usage : call'[n].phase # "idle" => n \in shown'
    BY <1>2, <2>4, CallsAreOfShown
  <2> QED
    BY <2>4, <2>5, <2>6, <2>7, <2>8, <2>9, WindowStep
<1> QED
  BY <1>3, <1>4

\* The mailbox has let go of a card, and says so.
LEMMA AcknowledgeStep ==
  ASSUME NotificationInv, NEW n \in Notices, Acknowledge(n)
  PROVE  NotificationInv'
<1> DEFINE p == HasExited(queue, n)
           r == Acknowledged(p, n)
           s == call[n].answer
<1>1. p \in Healthy /\ From(p, queue, {}, {})
  BY CallsAreOfShown, HasExitedKeeps
<1> HIDE DEF p
<1>2. r \in Healthy /\ From(r, p, {}, {})
  BY <1>1, AcknowledgedKeeps
<1>3. From(r, queue, {}, {})
  BY <1>1, <1>2 DEF From
<1>4. /\ s \in Carried /\ Calls(n, "idle", None) /\ Take(s, r)
      /\ InWindow /\ UNCHANGED <<syncs, events, asking, reads, open, ready, places, panel>>
  BY DEF Acknowledge, Carried, p
<1>5. /\ call' \in [Notices -> [phase : {"idle", "asked", "removed", "failed", "answered"},
                                answer : Snapshot \cup {None}]]
      /\ \A m \in Notices : call'[m] = call[m] \/ call'[m].phase = "idle"
  BY <1>4, CallsAreOfShown DEF Calls
<1>6. events \in Seq(Snapshot) /\ ready \in BOOLEAN
  BY DEF NotificationInv, Types, Fields
<1> HIDE DEF r, s
<1> QED
  BY <1>2, <1>3, <1>4, <1>5, <1>6, TakeStep

-----------------------------------------------------------------------------
(* The mailbox                                                              *)

\* A newer mailbox tells of all that the former one told of, or that has been shown.
LEMMA NewerMailbox ==
  ASSUME NotificationInv, UNCHANGED <<shown, queue, applied>>,
         Carried' \subseteq Carried, mailbox' \in Snapshot,
         mailbox'.revision = mailbox.revision + 1,
         ToSet(mailbox.items) \cap Usage \subseteq ToSet(mailbox'.items) \cup shown
  PROVE  LaterTellsMore' /\ QueueIsTold' /\ Carried' \subseteq Snapshot
<1>1. /\ mailbox \in Snapshot /\ Carried \subseteq Snapshot /\ LaterTellsMore /\ QueueIsTold
      /\ mailbox.revision \in Nat /\ shown' = shown /\ applied \in Nat
  BY DEF NotificationInv, Types, Fields, Snapshot
<1>2. \A s \in Carried : s.revision \in Nat /\ s.revision <= mailbox.revision
  BY <1>1 DEF LaterTellsMore, Snapshot
<1>3. \A s \in Carried' : s.revision <= mailbox'.revision
  BY <1>1, <1>2
<1>4. ASSUME NEW s \in Carried' \cup {mailbox'}, NEW t \in Carried' \cup {mailbox'}, s.revision <= t.revision
      PROVE  ToSet(s.items) \cap Usage \subseteq ToSet(t.items) \cup shown'
  <2>1. CASE s \in Carried /\ t \in Carried
    BY <1>1, <1>4, <2>1 DEF LaterTellsMore
  <2>2. CASE s = mailbox' /\ t = mailbox'
    BY <2>2
  <2>3. CASE s \in Carried /\ t = mailbox'
    <3>1. ToSet(s.items) \cap Usage \subseteq ToSet(mailbox.items) \cup shown
      BY <1>1, <1>2, <2>3 DEF LaterTellsMore
    <3> QED
      BY <1>1, <2>3, <3>1
  <2>4. CASE s = mailbox' /\ t \in Carried
    BY <1>1, <1>2, <1>4, <2>4
  <2> QED
    BY <2>1, <2>2, <2>3, <2>4
<1>5. LaterTellsMore'
  BY <1>3, <1>4 DEF LaterTellsMore
<1>6. ASSUME NEW s \in Carried' \cup {mailbox'}, s.revision > applied' \/ s = mailbox'
      PROVE  Ids(queue') \cap Usage \subseteq ToSet(s.items) \cup shown'
  <2>1. CASE s \in Carried /\ s.revision > applied
    BY <1>1, <2>1 DEF QueueIsTold
  <2>2. CASE s = mailbox'
    <3>1. Ids(queue) \cap Usage \subseteq ToSet(mailbox.items) \cup shown
      BY <1>1 DEF QueueIsTold
    <3> QED
      BY <1>1, <2>2, <3>1
  <2> QED
    BY <1>6, <2>1, <2>2
<1>7. QueueIsTold'
  BY <1>6 DEF QueueIsTold
<1> QED
  BY <1>1, <1>5, <1>7

\* An item that is added to the mailbox.
LEMMA MailedTellsMore ==
  ASSUME mailbox \in Snapshot, NEW n \in Notices
  PROVE  \/ Mailed(n) = mailbox
         \/ /\ Mailed(n) \in Snapshot /\ Mailed(n).revision = mailbox.revision + 1
            /\ ToSet(mailbox.items) \subseteq ToSet(Mailed(n).items)
<1> DEFINE items == Append(mailbox.items, n)
<1>1. mailbox.revision \in Nat /\ mailbox.items \in Seq(Notices)
  BY DEF Snapshot
<1>2. items \in Seq(Notices) /\ ToSet(items) = ToSet(mailbox.items) \cup {n}
  BY <1>1, AddedToSeq
<1> HIDE DEF items
<1>3. Mailed(n) = mailbox \/ Mailed(n) = [revision |-> mailbox.revision + 1, items |-> items]
  BY DEF Mailed, items
<1> QED
  BY <1>1, <1>2, <1>3 DEF Snapshot

\* A step of the program that changes its mailbox.
LEMMA MailboxStep ==
  ASSUME NotificationInv, UNCHANGED <<queue, applied, shown, events, reads, buffer>>, Fields',
         {call'[m].answer : m \in {k \in Notices : call'[k].phase = "answered"}} \subseteq Carried,
         \A n \in Usage : call'[n].phase # "idle" => n \in shown,
         \/ mailbox' = mailbox
         \/ /\ mailbox' \in Snapshot /\ mailbox'.revision = mailbox.revision + 1
            /\ ToSet(mailbox.items) \cap Usage \subseteq ToSet(mailbox'.items) \cup shown,
         NothingLeavesUnseen'
  PROVE  NotificationInv'
<1>1. Carried' \subseteq Carried
  BY DEF Carried
<1>2. LaterTellsMore' /\ QueueIsTold' /\ Carried' \subseteq Snapshot
  <2>1. CASE mailbox' = mailbox
    BY <1>1, <2>1, Carriers, SameSnapshots
  <2>2. CASE /\ mailbox' \in Snapshot /\ mailbox'.revision = mailbox.revision + 1
             /\ ToSet(mailbox.items) \cap Usage \subseteq ToSet(mailbox'.items) \cup shown
    BY <1>1, <2>2, NewerMailbox
  <2> QED
    BY <2>1, <2>2
<1>3. queue' \in Healthy /\ LeavesShown'
  BY DEF NotificationInv, LeavesShown
<1> QED
  BY <1>2, <1>3 DEF NotificationInv, Types

\* A notification is stored before it is mailed, or is refused.
LEMMA SendStep ==
  ASSUME NotificationInv, NEW n \in Notices, Send(n)
  PROVE  NotificationInv'
<1>1. /\ n \in due /\ due' = due \ {n} /\ syncs' = syncs + 1
      /\ UNCHANGED <<events, call, asking, reads, window, shown, discarded, troubles>>
      /\ \/ n \notin Usage /\ mailbox' = Mailed(n) /\ UNCHANGED <<outbox, doubles>>
         \/ n \in Usage /\ doubles' = doubles \cup {n} /\ UNCHANGED program
         \/ n \in Usage /\ outbox' = Append(outbox, n) /\ mailbox' = Mailed(n) /\ UNCHANGED doubles
  BY DEF Send
<1>2. Fields /\ NothingLeavesUnseen
  BY DEF NotificationInv, Types
<1>3. mailbox \in Snapshot /\ outbox \in Seq(Usage)
  BY <1>2 DEF Fields
<1>4. \/ mailbox' = mailbox
      \/ /\ mailbox' \in Snapshot /\ mailbox'.revision = mailbox.revision + 1
         /\ ToSet(mailbox.items) \cap Usage \subseteq ToSet(mailbox'.items) \cup shown
  BY <1>1, <1>3, MailedTellsMore DEF program
<1>5. outbox' \in Seq(Usage) /\ ToSet(outbox) \subseteq ToSet(outbox')
      /\ (n \in Usage => n \in ToSet(outbox') \cup doubles') /\ doubles \subseteq doubles'
  <2>2. CASE n \in Usage /\ outbox' = Append(outbox, n) /\ UNCHANGED doubles
    <3>1. outbox' \in Seq(Usage) /\ ToSet(outbox') = ToSet(outbox) \cup {n}
      BY <1>3, <2>2, AddedToSeq
    <3> QED
      BY <2>2, <3>1
  <2>3. CASE n \in Usage /\ doubles' = doubles \cup {n} /\ UNCHANGED program
    BY <1>3, <2>3 DEF program
  <2>4. CASE n \notin Usage /\ UNCHANGED <<outbox, doubles>>
    BY <1>3, <2>4
  <2> QED
    BY <1>1, <2>2, <2>3, <2>4
<1>6. NothingLeavesUnseen'
  BY <1>1, <1>2, <1>5 DEF NothingLeavesUnseen
<1>7. Fields'
  BY <1>1, <1>2, <1>4, <1>5 DEF Fields, window
<1>8. {call'[m].answer : m \in {k \in Notices : call'[k].phase = "answered"}} \subseteq Carried
  BY <1>1 DEF Carried
<1> QED
  BY <1>1, <1>4, <1>5, <1>6, <1>7, <1>8, CallsAreOfShown, MailboxStep DEF window

\* What is dismissed has been shown.
LEMMA DismissStep ==
  ASSUME NotificationInv, NEW n \in Notices, Dismiss(n)
  PROVE  NotificationInv'
<1>1. /\ call[n].phase = "asked" /\ Calls(n, "removed", None)
      /\ UNCHANGED <<events, due, syncs, asking, reads, window, history>>
      /\ \/ UNCHANGED program
         \/ /\ outbox' = Removed(outbox, {n})
            /\ mailbox' = [revision |-> mailbox.revision + 1, items |-> Removed(mailbox.items, {n})]
  BY DEF Dismiss, OnlyCalls
<1>2. Fields /\ NothingLeavesUnseen
  BY DEF NotificationInv, Types
<1>3. n \in Usage => n \in shown
  BY <1>1, CallsAreOfShown
<1>4. mailbox.revision \in Nat /\ mailbox.items \in Seq(Notices) /\ outbox \in Seq(Usage)
  BY <1>2 DEF Fields, Snapshot
<1> DEFINE items == Removed(mailbox.items, {n})
           rows == Removed(outbox, {n})
<1>5. items \in Seq(Notices) /\ rows \in Seq(Usage)
  BY <1>4, RemovedSet
<1>6. ToSet(mailbox.items) \ {n} \subseteq ToSet(items) /\ ToSet(outbox) \ {n} \subseteq ToSet(rows)
  BY <1>4, RemovedHas
<1> HIDE DEF items, rows
<1>7. \/ mailbox' = mailbox
      \/ /\ mailbox' \in Snapshot /\ mailbox'.revision = mailbox.revision + 1
         /\ ToSet(mailbox.items) \cap Usage \subseteq ToSet(mailbox'.items) \cup shown
  <2>1. CASE UNCHANGED program
    BY <2>1 DEF program
  <2>2. CASE mailbox' = [revision |-> mailbox.revision + 1, items |-> items]
    BY <1>3, <1>4, <1>5, <1>6, <2>2 DEF Snapshot
  <2> QED
    BY <1>1, <2>1, <2>2 DEF items
<1>8. outbox' \in Seq(Usage) /\ ToSet(outbox) \subseteq ToSet(outbox') \cup shown
  <2>1. ToSet(outbox) \subseteq Usage
    BY <1>4, SetOfSeq
  <2>2. outbox' = outbox \/ outbox' = rows
    BY <1>1 DEF program, rows
  <2> QED
    BY <1>3, <1>4, <1>5, <1>6, <2>1, <2>2
<1>9. /\ call' \in [Notices -> [phase : {"idle", "asked", "removed", "failed", "answered"},
                                answer : Snapshot \cup {None}]]
      /\ \A m \in Notices \ {n} : call'[m] = call[m]
      /\ {call'[m].answer : m \in {k \in Notices : call'[k].phase = "answered"}} \subseteq Carried
  BY <1>1, CallGoesOn
<1>10. \A m \in Usage : call'[m].phase # "idle" => m \in shown
  BY <1>3, <1>9, CallsAreOfShown, NoticesType
<1>11. NothingLeavesUnseen'
  BY <1>1, <1>2, <1>8 DEF NothingLeavesUnseen, history
<1>12. Fields'
  BY <1>1, <1>2, <1>7, <1>8, <1>9 DEF Fields, window
<1> QED
  BY <1>1, <1>7, <1>9, <1>10, <1>11, <1>12, MailboxStep DEF window, history

\* What is deleted though nobody has dismissed it is remembered; no snapshot tells of it.
LEMMA DiscardsStep ==
  ASSUME NotificationInv, NEW gone, Discards(gone)
  PROVE  NotificationInv'
<1> DEFINE rows == Removed(outbox, gone)
<1>1. /\ outbox' = rows /\ discarded' = discarded \cup gone
      /\ UNCHANGED <<due, mailbox, syncs, events, call, asking, reads, window, shown, doubles>>
  BY DEF Discards
<1>2. Fields /\ NothingLeavesUnseen
  BY DEF NotificationInv, Types
<1>3. outbox \in Seq(Usage)
  BY <1>2 DEF Fields
<1>4. rows \in Seq(Usage) /\ ToSet(outbox) \ gone \subseteq ToSet(rows)
  BY <1>3, RemovedSet, RemovedHas
<1> HIDE DEF rows
<1>5. Fields'
  BY <1>1, <1>2, <1>4 DEF Fields, window
<1>6. NothingLeavesUnseen'
  BY <1>1, <1>2, <1>4 DEF NothingLeavesUnseen
<1>7. {call'[m].answer : m \in {k \in Notices : call'[k].phase = "answered"}} \subseteq Carried
  BY <1>1 DEF Carried
<1> QED
  BY <1>1, <1>5, <1>6, <1>7, CallsAreOfShown, MailboxStep DEF window

\* A window with nothing in it.
LEMMA NothingYet ==
  ASSUME NEW max \in Nat
  PROVE  /\ NoQueue(max) \in Healthy /\ Ids(NoQueue(max)) = {} /\ Shows(NoQueue(max)) = {}
         /\ NoMail \in Snapshot /\ ToSet(NoMail.items) = {}
<1> DEFINE r == NoQueue(max)
<1>1. /\ <<>> \in Seq(Card) /\ <<>> \in Seq(Notices) /\ DOMAIN <<>> = {}
      /\ Len(<<>>) = 0
  OBVIOUS
<1>2. ToSet(<<>>) = {}
  BY <1>1 DEF ToSet
<1>3. r \in Queue
  BY <1>1 DEF NoQueue, Queue, Subject
<1>4. /\ r.visible = <<>> /\ r.pending = <<>> /\ r.awaiting = <<>> /\ r.exits = <<>> /\ r.detail = None
      /\ r.max = max
  BY DEF NoQueue
<1> HIDE DEF r
<1>5. Ids(r) = {} /\ VisibleIds(r) = {}
  BY <1>2, <1>4 DEF Ids, VisibleIds
<1>6. OneMoves(r.visible, r.awaiting) /\ Distinct(r) /\ Fits(r)
  BY <1>1, <1>2, <1>4, <1>5 DEF OneMoves, Distinct, OneCardEach, Fits, IsInjective
<1>7. Shows(r) = {}
  BY <1>2, <1>4, NoticesType DEF Shows
<1>8. NoMail \in Snapshot /\ ToSet(NoMail.items) = {}
  BY <1>1, <1>2 DEF NoMail, Snapshot
<1> QED
  BY <1>3, <1>5, <1>6, <1>7, <1>8 DEF Healthy, r

\* The outbox is all that is left of what was to be shown.
LEMMA RestartStep ==
  ASSUME NotificationInv, Restart
  PROVE  NotificationInv'
<1>1. /\ mailbox' = IF outbox = <<>> THEN NoMail ELSE [revision |-> 1, items |-> outbox]
      /\ syncs' = 0 /\ events' = <<>> /\ call' = [n \in Notices |-> NoCall]
      /\ asking' = {} /\ reads' = {}
      /\ open' = FALSE /\ ready' = FALSE /\ buffer' = None /\ applied' = 0
      /\ panel' = FALSE /\ queue' = NoQueue(places)
      /\ UNCHANGED <<due, outbox, places, history>>
  BY DEF Restart
<1>2. Fields /\ NothingLeavesUnseen /\ places \in Nat /\ outbox \in Seq(Usage)
  BY PlacesType DEF NotificationInv, Types, Fields
<1>3. /\ queue' \in Healthy /\ Ids(queue') = {} /\ Shows(queue') = {}
      /\ NoMail \in Snapshot
  BY <1>1, <1>2, NothingYet
<1>4. mailbox' \in Snapshot
  BY <1>1, <1>2, <1>3, NoticesType DEF Snapshot
<1>5. <<>> \in Seq(Snapshot) /\ ToSet(events') = {}
  BY <1>1 DEF ToSet
<1>6. \A n \in Notices : call'[n].phase = "idle"
  BY <1>1 DEF NoCall
<1>7. Carried' = {}
  BY <1>1, <1>5, <1>6 DEF Carried
<1>8. Fields'
  BY <1>1, <1>2, <1>4, <1>5 DEF Fields, NoCall
<1>9. LaterTellsMore' /\ QueueIsTold'
  BY <1>3, <1>7 DEF LaterTellsMore, QueueIsTold
<1>10. LeavesShown' /\ NothingLeavesUnseen'
  BY <1>1, <1>2, <1>3, <1>6, NoticesType DEF LeavesShown, NothingLeavesUnseen, history
<1> QED
  BY <1>3, <1>7, <1>8, <1>9, <1>10 DEF NotificationInv, Types

LEMMA NotificationInvInit ==
  ASSUME NotificationInit
  PROVE  NotificationInv
<1>1. /\ due = Notices /\ outbox = <<>> /\ mailbox = NoMail /\ syncs = 0 /\ events = <<>>
      /\ call = [n \in Notices |-> NoCall] /\ asking = {} /\ reads = {}
      /\ open = FALSE /\ ready = FALSE /\ buffer = None /\ applied = 0
      /\ places \in PlacesAsked /\ panel = FALSE /\ queue = NoQueue(places)
  BY DEF NotificationInit
<1>2. places \in Nat
  BY <1>1, PlacesType
<1>3. queue \in Healthy /\ Ids(queue) = {} /\ Shows(queue) = {} /\ mailbox \in Snapshot
  BY <1>1, <1>2, NothingYet
<1>4. <<>> \in Seq(Snapshot) /\ <<>> \in Seq(Usage) /\ ToSet(events) = {}
  BY <1>1 DEF ToSet
<1>5. \A n \in Notices : call[n].phase = "idle"
  BY <1>1 DEF NoCall
<1>6. Carried = {}
  BY <1>1, <1>4, <1>5 DEF Carried
<1>7. Fields
  BY <1>1, <1>3, <1>4 DEF Fields, NoCall
<1>8. LaterTellsMore /\ QueueIsTold
  BY <1>3, <1>6 DEF LaterTellsMore, QueueIsTold
<1>9. LeavesShown /\ NothingLeavesUnseen
  BY <1>1, <1>3, <1>5, NoticesType DEF LeavesShown, NothingLeavesUnseen
<1> QED
  BY <1>3, <1>6, <1>7, <1>8, <1>9 DEF NotificationInv, Types

-----------------------------------------------------------------------------
(* Theorems                                                                 *)

LEMMA AtMostOne ==
  ASSUME NEW T, NEW s \in Seq(T), Len(s) <= 1
  PROVE  Len(s) \in 0..1 /\ IsInjective(s)
<1>1. Len(s) \in Nat /\ DOMAIN s = 1..Len(s)
  OBVIOUS
<1>2. Len(s) \in 0..1
  BY <1>1
<1>3. \A i, j \in DOMAIN s : i = j
  BY <1>1, <1>2
<1> QED
  BY <1>2, <1>3 DEF IsInjective

LEMMA NotificationInvNext ==
  ASSUME NotificationInv, [NotificationNext]_nvars
  PROVE  NotificationInv'
<1>1. CASE \E n \in Notices : Send(n) \/ CardStep(n) \/ DismissFails(n) \/ Enter(n) \/ FinishExit(n)
  BY <1>1, SendStep, DismissStep, DismissSendsStep, DismissFailsStep, AcknowledgeStep, RestoreStep,
     EnterStep, FinishExitStep DEF CardStep
<1>2. CASE Sync \/ SyncFails \/ Restart \/ Prune \/ ClearRuntimeData \/ AccountGoes
  BY <1>2, SyncStep, RestartStep, DiscardsStep DEF Prune, ClearRuntimeData, AccountGoes
<1>3. CASE \E r \in Notices \cup {"opening"} : AnswerRead(r)
  BY <1>3, AnswerReadStep
<1>4. CASE Open \/ PreferencesArrive \/ Told \/ Expire \/ FollowPlaces
  BY <1>4, OpenStep, PreferencesArriveStep, EventArrivesStep, ReadArrivesStep, ExpireStep,
     FollowPlacesStep DEF Told
<1>5. CASE User
  BY <1>5, CloseDetailStep, DismissDetailStep, PanelOpensStep, PanelClosesStep, AskForPlacesStep,
     OpenDetailStep DEF User
<1>6. CASE UNCHANGED nvars
  <2>1. UNCHANGED <<due, program, syncs, events, call, asking, reads, window, history>>
    BY <1>6 DEF nvars
  <2>2. Fields'
    BY <2>1 DEF NotificationInv, Types, Fields, program, window
  <2>3. Carried' \subseteq Carried
    BY <2>1 DEF Carried, window
  <2> QED
    BY <2>1, <2>2, <2>3, CallsAreOfShown, QuieterStep DEF window
<1> QED
  BY <1>1, <1>2, <1>3, <1>4, <1>5, <1>6 DEF NotificationNext

\* The invariant, whatever the notifications, their keys and the numbers of places, and
\* whichever rows of the outbox are pruned, cleared or go with their account.
THEOREM NotificationInvariant == NotificationSpec => []NotificationInv
<1>1. NotificationInit => NotificationInv
  BY NotificationInvInit
<1>2. NotificationInv /\ [NotificationNext]_nvars => NotificationInv'
  BY NotificationInvNext
<1> QED
  BY <1>1, <1>2, PTL DEF NotificationSpec

\* Every variable has a value of its type: those of the program and what it sends to its
\* window, and the queue of the window.
THEOREM NotificationTypesCorrect == NotificationSpec => []NotificationTypeOK
<1>1. NotificationInv => NotificationTypeOK
  <2> SUFFICES ASSUME NotificationInv PROVE NotificationTypeOK
    OBVIOUS
  <2>1. Fields /\ queue \in Queue
    BY HealthyParts DEF NotificationInv, Types
  <2> QED
    BY <2>1 DEF NotificationTypeOK, Fields, Queue, Card, Stages, Reasons, Subject
<1> QED
  BY <1>1, NotificationInvariant, PTL

\* However snapshots, answers, timers and the user meet, at most one card of the window moves,
\* no more are there than there are places, and none is there twice.
THEOREM OneCardMovesAlways == NotificationSpec => []OneCardMoves
<1>1. NotificationInv => OneCardMoves
  <2> SUFFICES ASSUME NotificationInv PROVE OneCardMoves
    OBVIOUS
  <2> DEFINE moving == {i \in DOMAIN queue.visible : queue.visible[i].stage # "visible"}
             ids == [i \in DOMAIN queue.visible |-> queue.visible[i].id]
             two == ids \o queue.pending
             all == two \o queue.awaiting
  <2>1. /\ OneMoves(queue.visible, queue.awaiting) /\ Distinct(queue) /\ Fits(queue)
        /\ queue.visible \in Seq(Card) /\ queue.pending \in Seq(Notices) /\ queue.awaiting \in Seq(Notices)
    BY HealthyParts DEF NotificationInv
  <2>2. Cardinality(moving) + Len(queue.awaiting) <= 1
    <3> DEFINE la == Len(queue.awaiting)
    <3>1. la \in 0..1
      BY <2>1, AtMostOne DEF OneMoves
    <3>2. CASE moving = {}
      <4>1. Cardinality(moving) = 0
        BY <3>2, FS_EmptySet
      <4> HIDE DEF moving, la
      <4>2. Cardinality(moving) + la <= 1
        BY <3>1, <4>1
      <4> QED
        BY <4>2 DEF la
    <3>3. CASE moving # {}
      <4>1. PICK i \in moving : TRUE
        BY <3>3
      <4>2. moving = {i}
        BY <2>1 DEF OneMoves
      <4>3. Cardinality(moving) = 1
        BY <4>2, FS_Singleton
      <4>4. queue.awaiting = <<>>
        BY <2>1, <4>1 DEF OneMoves
      <4>5. la = 0
        BY <4>4
      <4> HIDE DEF moving, la
      <4>6. Cardinality(moving) + la <= 1
        BY <4>3, <4>5
      <4> QED
        BY <4>6 DEF la
    <3> QED
      BY <3>2, <3>3
  <2>3. IsInjective(all)
    <3>1. ids \in Seq(Notices) /\ ToSet(ids) = VisibleIds(queue) /\ IsInjective(ids)
      BY <2>1, IdsOfCards DEF Distinct, VisibleIds
    <3> HIDE DEF ids
    <3>2. two \in Seq(Notices) /\ ToSet(two) = VisibleIds(queue) \cup ToSet(queue.pending) /\ IsInjective(two)
      BY <2>1, <3>1, JoinedSeqs DEF Distinct
    <3> HIDE DEF two
    <3>4. IsInjective(queue.awaiting)
      BY <2>1, AtMostOne DEF OneMoves
    <3>5. ToSet(two) \cap ToSet(queue.awaiting) = {}
      BY <2>1, <3>2 DEF Distinct
    <3> QED
      BY <2>1, <3>2, <3>4, <3>5, JoinedSeqs
  <2> QED
    BY <2>1, <2>2, <2>3 DEF OneCardMoves, Fits
<1> QED
  BY <1>1, NotificationInvariant, PTL

\* What tells of usage stays in the outbox until it has been before the reader's eyes, unless
\* one of the same was there when it was sent, or its row was pruned after seven days, cleared
\* with all the data or deleted with its account: whatever fails, comes late or is lost with
\* the program, a dismissal only deletes what has been seen.
THEOREM NothingLeavesUnseenAlways == NotificationSpec => []NothingLeavesUnseen
<1>1. NotificationInv => NothingLeavesUnseen
  BY DEF NotificationInv
<1> QED
  BY <1>1, NotificationInvariant, PTL

=============================================================================
