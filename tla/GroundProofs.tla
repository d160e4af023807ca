---------------------------- MODULE GroundProofs ----------------------------
(***************************************************************************)
(* Theorems about the three modules the others stand on: Intake, which     *)
(* brings messages to Turns, Connection, which carries the tables of       *)
(* Scheduler and Subagent, and Cron, which says what Scheduler inserts.    *)
(* They share nothing but the lemmas on finite sets and sequences ahead of  *)
(* them.                                                                   *)
(***************************************************************************)
EXTENDS Intake, Connection, Cron, TLAPS, SequenceTheorems, FiniteSetTheorems,
        FunctionTheorems, WellFoundedInduction

-----------------------------------------------------------------------------
(* Sequences without duplicates. *)

In(q, x) == \E i \in 1..Len(q) : q[i] = x
Distinct(q) == \A i, j \in 1..Len(q) : q[i] = q[j] => i = j

(* Appending what is not there.                                            *)
LEMMA AppendIs ==
  ASSUME NEW S, NEW q \in Seq(S), NEW x \in S
  PROVE  /\ Append(q, x) \in Seq(S) /\ Len(Append(q, x)) = Len(q) + 1
         /\ Append(q, x)[Len(q) + 1] = x
         /\ \A i \in 1..Len(q) : Append(q, x)[i] = q[i]
         /\ \A y : In(Append(q, x), y) <=> In(q, y) \/ y = x
         /\ Distinct(q) /\ ~In(q, x) => Distinct(Append(q, x))
<1> DEFINE a == Append(q, x)
<1>1. /\ a \in Seq(S) /\ Len(a) = Len(q) + 1 /\ a[Len(q) + 1] = x
      /\ \A i \in 1..Len(q) : a[i] = q[i]
      /\ Len(q) \in Nat
  BY AppendProperties, LenProperties
<1> HIDE DEF a
<1>2. ASSUME NEW y PROVE In(a, y) <=> In(q, y) \/ y = x
  <2>1. ASSUME In(a, y) PROVE In(q, y) \/ y = x
    BY <1>1, <2>1 DEF In
  <2>2. ASSUME In(q, y) PROVE In(a, y)
    <3>1. PICK i \in 1..Len(q) : q[i] = y
      BY <2>2 DEF In
    <3> QED BY <1>1, <3>1 DEF In
  <2>3. In(a, x)
    <3>1. Len(q) + 1 \in 1..Len(a)
      BY <1>1
    <3> QED BY <1>1, <3>1 DEF In
  <2> QED BY <2>1, <2>2, <2>3
<1>3. Distinct(q) /\ ~In(q, x) => Distinct(a)
  BY <1>1 DEF Distinct, In
<1> QED BY <1>1, <1>2, <1>3 DEF a

(* What follows the first element.                                         *)
LEMMA TailIs ==
  ASSUME NEW S, NEW q \in Seq(S), q # <<>>, Distinct(q)
  PROVE  /\ Tail(q) \in Seq(S) /\ Len(q) > 0 /\ Len(Tail(q)) = Len(q) - 1
         /\ \A i \in 1..Len(Tail(q)) : Tail(q)[i] = q[i + 1]
         /\ Distinct(Tail(q))
         /\ \A y : In(Tail(q), y) <=> In(q, y) /\ y # q[1]
<1> DEFINE r == Tail(q)
<1>1. /\ Len(q) \in Nat /\ Len(q) > 0
      /\ r \in Seq(S) /\ Len(r) = Len(q) - 1
      /\ \A i \in 1..Len(r) : r[i] = q[i + 1]
  BY HeadTailProperties, LenProperties, EmptySeq
<1> HIDE DEF r
<1>2. Distinct(r)
  <2> SUFFICES ASSUME NEW i \in 1..Len(r), NEW j \in 1..Len(r), r[i] = r[j]
               PROVE  i = j
    BY DEF Distinct
  <2>1. i + 1 \in 1..Len(q) /\ j + 1 \in 1..Len(q) /\ q[i + 1] = q[j + 1]
    BY <1>1
  <2> QED BY <1>1, <2>1 DEF Distinct
<1>3. ASSUME NEW y PROVE In(r, y) <=> In(q, y) /\ y # q[1]
  <2>1. ASSUME In(r, y) PROVE In(q, y) /\ y # q[1]
    <3>1. PICK i \in 1..Len(r) : r[i] = y
      BY <2>1 DEF In
    <3>2. i + 1 \in 1..Len(q) /\ q[i + 1] = y /\ 1 \in 1..Len(q) /\ i + 1 # 1
      BY <1>1, <3>1
    <3> QED BY <3>2 DEF In, Distinct
  <2>2. ASSUME In(q, y), y # q[1] PROVE In(r, y)
    <3>1. PICK i \in 1..Len(q) : q[i] = y
      BY <2>2 DEF In
    <3>2. i - 1 \in 1..Len(r) /\ r[i - 1] = y
      <4>1. i # 1 /\ i \in Nat
        BY <2>2, <3>1
      <4>2. i - 1 \in 1..Len(r) /\ (i - 1) + 1 = i
        BY <1>1, <3>1, <4>1
      <4> QED BY <1>1, <3>1, <4>2
    <3> QED BY <3>2 DEF In
  <2> QED BY <2>1, <2>2
<1> QED BY <1>1, <1>2, <1>3 DEF r

(* Cutting one element out.                                                *)
LEMMA WithoutIs ==
  ASSUME NEW S, NEW q \in Seq(S), Distinct(q), NEW x, In(q, x)
  PROVE  /\ Without(q, x) \in Seq(S) /\ Distinct(Without(q, x))
         /\ \A y : In(Without(q, x), y) <=> In(q, y) /\ y # x
<1> DEFINE k == CHOOSE i \in DOMAIN q : q[i] = x
           a == SubSeq(q, 1, k - 1)
           b == SubSeq(q, k + 1, Len(q))
           r == a \o b
<1>1. DOMAIN q = 1..Len(q) /\ Len(q) \in Nat /\ \A i \in 1..Len(q) : q[i] \in S
  BY LenProperties, ElementOfSeq
<1>2. k \in 1..Len(q) /\ q[k] = x
  <2>1. \E i \in DOMAIN q : q[i] = x
    BY <1>1 DEF In
  <2> QED BY <1>1, <2>1
<1>0. Without(q, x) = r
  BY DEF Without
<1> HIDE DEF k
<1>3. a \in Seq(S) /\ Len(a) = k - 1 /\ \A i \in 1..(k - 1) : a[i] = q[i]
  <2>1. 1 \in Int /\ k - 1 \in Int /\ \A i \in 1..(k - 1) : q[i] \in S
    BY <1>1, <1>2
  <2> QED BY <1>2, <2>1, SubSeqProperties
<1>4. /\ b \in Seq(S) /\ Len(b) = Len(q) - k
      /\ \A i \in 1..(Len(q) - k) : b[i] = q[k + i]
  <2>1. k + 1 \in Int /\ Len(q) \in Int /\ \A i \in (k + 1)..Len(q) : q[i] \in S
    BY <1>1, <1>2
  <2>2. b \in Seq(S)
    BY <2>1, SubSeqProperties
  <2>3. Len(b) = IF k + 1 <= Len(q) THEN Len(q) - (k + 1) + 1 ELSE 0
    BY <2>1, SubSeqProperties
  <2>4. \A i \in 1..(Len(q) - (k + 1) + 1) : b[i] = q[(k + 1) + i - 1]
    BY <2>1, SubSeqProperties
  <2> HIDE DEF b
  <2>5. k \in Nat /\ 1 <= k /\ k <= Len(q) /\ Len(q) \in Nat
    BY <1>1, <1>2
  <2>6. Len(b) = Len(q) - k
    BY <2>3, <2>5
  <2>7. ASSUME NEW i \in 1..(Len(q) - k) PROVE b[i] = q[k + i]
    <3>1. i \in 1..(Len(q) - (k + 1) + 1) /\ (k + 1) + i - 1 = k + i
      BY <2>5
    <3> QED BY <2>4, <3>1
  <2> QED BY <2>2, <2>6, <2>7
<1> HIDE DEF a, b
<1>5. /\ r \in Seq(S) /\ Len(r) = Len(a) + Len(b)
      /\ \A i \in 1..(Len(a) + Len(b)) : r[i] = IF i <= Len(a) THEN a[i] ELSE b[i - Len(a)]
  BY <1>3, <1>4, ConcatProperties
<1> HIDE DEF r
<1>6. Len(r) = Len(q) - 1
  BY <1>1, <1>2, <1>3, <1>4, <1>5
<1>7. ASSUME NEW i \in 1..Len(r)
      PROVE  r[i] = IF i < k THEN q[i] ELSE q[i + 1]
  <2>1. i \in Nat /\ i \in 1..(Len(a) + Len(b))
    BY <1>1, <1>2, <1>3, <1>4, <1>6
  <2>2. CASE i < k
    <3>1. i <= Len(a) /\ i \in 1..(k - 1)
      BY <1>2, <1>3, <2>1, <2>2
    <3> QED BY <1>3, <1>5, <2>1, <2>2, <3>1
  <2>3. CASE ~(i < k)
    <3>1. /\ ~(i <= Len(a)) /\ i - Len(a) \in 1..(Len(q) - k)
          /\ k + (i - Len(a)) = i + 1
      BY <1>1, <1>2, <1>3, <1>6, <2>1, <2>3
    <3>2. r[i] = b[i - Len(a)] /\ b[i - Len(a)] = q[k + (i - Len(a))]
      BY <1>4, <1>5, <2>1, <3>1
    <3> QED BY <2>3, <3>1, <3>2
  <2> QED BY <2>2, <2>3
<1>8. Distinct(r)
  <2> SUFFICES ASSUME NEW i \in 1..Len(r), NEW j \in 1..Len(r), r[i] = r[j]
               PROVE  i = j
    BY DEF Distinct
  <2> DEFINE u == IF i < k THEN i ELSE i + 1
             v == IF j < k THEN j ELSE j + 1
  <2>1. u \in 1..Len(q) /\ v \in 1..Len(q) /\ q[u] = q[v]
    BY <1>1, <1>2, <1>6, <1>7
  <2>2. u = v
    BY <2>1 DEF Distinct
  <2> QED BY <1>2, <1>6, <2>2
<1>9. ASSUME NEW y PROVE In(r, y) <=> In(q, y) /\ y # x
  <2>1. ASSUME In(r, y) PROVE In(q, y) /\ y # x
    <3>1. PICK i \in 1..Len(r) : r[i] = y
      BY <2>1 DEF In
    <3> DEFINE u == IF i < k THEN i ELSE i + 1
    <3>2. u \in 1..Len(q) /\ u # k /\ q[u] = y
      BY <1>1, <1>2, <1>6, <1>7, <3>1
    <3> QED BY <1>2, <3>2 DEF In, Distinct
  <2>2. ASSUME In(q, y), y # x PROVE In(r, y)
    <3>1. PICK j \in 1..Len(q) : q[j] = y
      BY <2>2 DEF In
    <3> DEFINE u == IF j < k THEN j ELSE j - 1
    <3>2. j # k
      BY <1>2, <2>2, <3>1
    <3>3. u \in 1..Len(r) /\ r[u] = q[j]
      BY <1>1, <1>2, <1>6, <1>7, <3>1, <3>2
    <3> QED BY <3>1, <3>3 DEF In
  <2> QED BY <2>1, <2>2
<1> QED BY <1>0, <1>5, <1>8, <1>9

(* A finite set of numbers has a least one: the smallest of the sets that  *)
(* hold all its members up to one of them ends there.                      *)
LEMMA LeastExists ==
  ASSUME NEW T, T \subseteq Int, T # {}, IsFiniteSet(T)
  PROVE  \E x \in T : \A y \in T : x <= y
<1> DEFINE Upto(t) == {y \in T : y <= t}
           C == {Upto(t) : t \in T}
<1>1. \A t \in T : Upto(t) \in SUBSET T /\ IsFiniteSet(Upto(t))
  BY FS_Subset
<1>2. C \subseteq FiniteSubsetsOf(T) /\ C # {}
  BY <1>1 DEF FiniteSubsetsOf
<1>3. \E U \in C : \A V \in C : ~(<<V, U>> \in StrictSubsetOrdering(T))
  <2> HIDE DEF C
  <2> QED BY <1>2, WFMin, FS_StrictSubsetOrderingWellFounded
<1>4. PICK x \in T : \A V \in C : ~(<<V, Upto(x)>> \in StrictSubsetOrdering(T))
  BY <1>3
<1>5. ASSUME NEW y \in T, y < x PROVE FALSE
  <2>1. Upto(y) \subseteq Upto(x) /\ Upto(y) # Upto(x)
    <3>1. ASSUME NEW z \in Upto(y) PROVE z \in Upto(x)
      <4>1. x \in Int /\ y \in Int /\ z \in Int /\ z \in T /\ z <= y
        OBVIOUS
      <4> QED BY <1>5, <4>1
    <3>2. x \in Upto(x) /\ x \notin Upto(y)
      BY <1>5
    <3> QED BY <3>1, <3>2
  <2>2. <<Upto(y), Upto(x)>> \in StrictSubsetOrdering(T)
    <3> HIDE DEF Upto
    <3> QED BY <1>1, <2>1 DEF StrictSubsetOrdering
  <2> QED BY <2>2, <1>4
<1> QED BY <1>5

-----------------------------------------------------------------------------
(* The inductive invariant. *)

(* The types of what decides where a message and its upload are, and of    *)
(* the rest.                                                               *)
Core ==
  /\ stage \in [Msgs -> {"new"} \cup Moving \cup Over]
  /\ files \subseteq Msgs \ Texts
  /\ bucket \in [Groups -> Seq(Photos)]
  /\ \A g \in Groups : /\ Len(bucket[g]) <= MaxPhotos
                       /\ \A p \in Members(g) : GroupOf[p] = g /\ stage[p] = "bucket"
  /\ {opened[i] : i \in DOMAIN opened} = {g \in Groups : Open(g)}
  /\ queue \in Seq(Msgs) /\ batch \in [Msgs -> SUBSET Msgs]
  /\ todo \in [Texts -> Seq(Groups)] /\ held \in [Texts -> SUBSET Photos]

Rest ==
  /\ up \in {"up", "stopping", "down"}
  /\ told \in [Groups -> BOOLEAN]
  /\ task \in [Groups -> Photos \cup {None}] /\ timers \subseteq Photos
  /\ waits \in [Texts -> Msgs \cup {None}]
  /\ faults \in 0..MaxFaults /\ lives \in 1..MaxLives
  /\ up = "down" => lives < MaxLives

(* What no message of a kind ever comes to.                                *)
Ways ==
  \A m \in Msgs :
    /\ m \in Texts => stage[m] \notin {"download", "health", "bucket"}
    /\ m \in Photos => stage[m] \notin {"health", "link", "flush"}

(* A photo that says it is in a bucket is in that of its album, and no     *)
(* bucket is in the registry twice.                                        *)
Registry ==
  /\ opened \in Seq(Groups) /\ Distinct(opened)
  /\ \A m \in Msgs : stage[m] = "bucket" => m \in Photos /\ m \in Members(GroupOf[m])

(* A turn is at the lock exactly while its message says so.  It answers    *)
(* that message and, for an album, photos that are through.                *)
AtLock ==
  /\ Distinct(queue)
  /\ \A t \in Msgs :
       /\ stage[t] = "lock" <=> In(queue, t)
       /\ stage[t] = "lock" => t \in batch[t]
       /\ stage[t] # "lock" => batch[t] = {}
       /\ \A m \in batch[t] : m = t \/ (m \in Photos /\ t \in Photos /\ stage[m] = "over")
       /\ Cardinality(batch[t]) <= MaxPhotos

(* No message is part of two turns.                                        *)
Apart == \A t, u \in Msgs : t # u => batch[t] \cap batch[u] = {}

(* Only a bucket, a turn or an accident accounts for an upload.            *)
Uploads == \A m \in files : stage[m] \in {"bucket", "left"} \/ \E t \in Msgs : m \in batch[t]

(* Where a photo can be that has once been in a bucket.                    *)
Fetched == {"bucket", "lock", "reply", "over", "left"}

(* A photo that a text has found in a bucket is still in one only while    *)
(* the text has that bucket to flush, and its turn is never behind that of *)
(* the text.                                                               *)
Ahead(m, p) ==
  /\ stage[p] \in Fetched
  /\ stage[p] = "bucket" => stage[m] = "flush" /\ In(todo[m], GroupOf[p])
  /\ \A i, j \in 1..Len(queue) : queue[j] = m /\ p \in batch[queue[i]] => i < j

TextsWait ==
  \A m \in Texts : stage[m] \in {"flush", "link", "lock"} => \A p \in held[m] : Ahead(m, p)

Placed == Core /\ Ways /\ Registry /\ AtLock /\ Apart /\ Uploads /\ TextsWait

IInv == Placed /\ Rest

LEMMA TypesAre == IInv => TypeOK
  BY DEF IInv, Placed, Core, Rest, TypeOK

LEMMA InitIInv == Init => IInv
<1> SUFFICES ASSUME Init PROVE IInv
  OBVIOUS
<1> USE NamesAssumption, GroupAssumption, BoundsAssumption DEF Init
<1>1. Core
  <2>1. <<>> \in Seq(Photos) /\ <<>> \in Seq(Msgs) /\ <<>> \in Seq(Groups) /\ Len(<<>>) = 0
    OBVIOUS
  <2>2. \A g \in Groups : bucket[g] = <<>> /\ ~Open(g)
    BY DEF Open
  <2>3. \A g \in Groups : DOMAIN bucket[g] = {}
    BY <2>2, <2>1
  <2>4. {opened[i] : i \in DOMAIN opened} = {}
    BY <2>1
  <2> QED BY <2>1, <2>2, <2>3, <2>4 DEF Core, Members
<1>2. Rest
  BY DEF Rest
<1>3. Ways /\ Registry
  BY EmptySeq DEF Ways, Registry, Distinct
<1>4. AtLock
  <2>1. Cardinality({}) = 0
    BY FS_EmptySet
  <2> QED BY <2>1, EmptySeq DEF AtLock, Distinct, In
<1>5. Apart /\ Uploads /\ TextsWait
  BY DEF Apart, Uploads, TextsWait
<1> QED BY <1>1, <1>2, <1>3, <1>4, <1>5 DEF IInv, Placed

(* A bucket has no more photos than its length.                            *)
LEMMA CountIs ==
  ASSUME Core, NEW g \in Groups
  PROVE  /\ Members(g) \subseteq Photos /\ IsFiniteSet(Members(g))
         /\ Cardinality(Members(g)) \in Nat /\ Cardinality(Members(g)) <= Len(bucket[g])
<1> DEFINE b == bucket[g]
<1>1. b \in Seq(Photos) /\ Len(b) \in Nat /\ DOMAIN b = 1..Len(b)
      /\ \A i \in 1..Len(b) : b[i] \in Photos
  BY LenProperties, ElementOfSeq DEF Core
<1>2. Members(g) = {b[i] : i \in 1..Len(b)}
  BY <1>1 DEF Members
<1>3. b \in Surjection(1..Len(b), Members(g))
  <2>1. b = [i \in 1..Len(b) |-> b[i]]
    BY <1>1, LenProperties
  <2> QED BY <1>2, <2>1 DEF Surjection
<1>4. IsFiniteSet(1..Len(b)) /\ Cardinality(1..Len(b)) = Len(b)
  <2>1. \A n \in Int : IsFiniteSet(1..n) /\ Cardinality(1..n) = IF 1 > n THEN 0 ELSE n - 1 + 1
    BY FS_Interval
  <2> QED BY <1>1, <2>1
<1>5. IsFiniteSet(Members(g)) /\ Cardinality(Members(g)) <= Len(b)
  BY <1>3, <1>4, FS_Surjection DEF ExistsSurjection
<1> QED BY <1>1, <1>2, <1>5, FS_CardinalityType

(* An open bucket is in the registry, holds its leader, and fits one turn. *)
LEMMA BucketIs ==
  ASSUME Core, NEW g \in Groups, Open(g)
  PROVE  /\ Leader(g) \in Members(g)
         /\ Members(g) \subseteq Photos
         /\ \A p \in Members(g) : GroupOf[p] = g /\ stage[p] = "bucket"
         /\ Cardinality(Members(g)) <= MaxPhotos
         /\ \E i \in DOMAIN opened : opened[i] = g
<1> DEFINE b == bucket[g]
<1>1. b \in Seq(Photos) /\ b # <<>> /\ Len(b) <= MaxPhotos
  BY DEF Core, Open
<1>2. Len(b) \in Nat /\ DOMAIN b = 1..Len(b) /\ Len(b) > 0 /\ \A i \in 1..Len(b) : b[i] \in Photos
  BY <1>1, LenProperties, ElementOfSeq, EmptySeq
<1>3. Members(g) = {b[i] : i \in 1..Len(b)}
  BY <1>2 DEF Members
<1>4. Leader(g) \in Members(g) /\ Members(g) \subseteq Photos
  BY <1>2, <1>3 DEF Leader
<1>5. Cardinality(Members(g)) <= MaxPhotos
  BY <1>1, <1>2, CountIs, BoundsAssumption
<1>6. \E i \in DOMAIN opened : opened[i] = g
  BY DEF Core
<1> QED BY <1>4, <1>5, <1>6 DEF Core

-----------------------------------------------------------------------------
(* A message that is in no bucket and at no lock goes on, is refused, or is *)
(* left.                                                                   *)
LEMMA MoveStep ==
  ASSUME Placed, NEW m \in Msgs, NEW s, Goes(m, s),
         UNCHANGED <<bucket, opened, queue, batch, todo, held>>,
         stage[m] \in {"new", "download", "health", "link", "reply"},
         s \in {"download", "health", "over", "left"},
         s = "download" => stage[m] \in {"new", "health"} /\ m \notin Texts,
         s = "health" => stage[m] = "new" /\ m \in Others,
         files' = files \/ (files' = files \cup {m} /\ s = "left" /\ m \notin Texts)
  PROVE  Placed'
<1> USE DEF Placed
<1>0. /\ stage' \in [Msgs -> {"new"} \cup Moving \cup Over] /\ stage'[m] = s
      /\ \A x \in Msgs : x # m => stage'[x] = stage[x]
  BY DEF Core, Goes, Moving, Over
<1>1. /\ Photos \subseteq Msgs /\ GroupOf \in [Photos -> Groups]
      /\ \A g \in Groups : Members(g)' = Members(g) /\ Open(g)' = Open(g)
  BY GroupAssumption DEF Msgs, Members, Open
<1>2. Core'
  <2>1. files' \subseteq Msgs \ Texts
    BY DEF Core
  <2>2. ASSUME NEW g \in Groups, NEW p \in Members(g)
        PROVE  GroupOf[p] = g /\ stage'[p] = "bucket" /\ p \in Msgs
    <3>1. GroupOf[p] = g /\ stage[p] = "bucket" /\ p \in Photos
      BY BucketIs, <2>2 DEF Core, Open, Members
    <3> QED BY <1>0, <1>1, <3>1
  <2> QED BY <1>0, <1>1, <2>1, <2>2 DEF Core
<1>3. Ways' /\ Registry'
  BY <1>0, <1>1, NamesAssumption DEF Ways, Registry
<1>4. AtLock'
  <2>1. ASSUME NEW t \in Msgs, NEW x \in batch[t] PROVE stage'[x] = stage[x] /\ x \in Msgs
    BY <1>0 DEF AtLock, Core
  <2> QED BY <1>0, <2>1 DEF AtLock, Core
<1>5. Apart'
  BY DEF Apart
<1>6. Uploads'
  <2>1. m \notin files
    BY DEF Uploads, AtLock, Core
  <2> QED BY <1>0, <2>1 DEF Uploads, Core
<1>7. TextsWait'
  <2> SUFFICES ASSUME NEW n \in Texts, stage'[n] \in {"flush", "link", "lock"},
                      NEW p \in held[n]
               PROVE  Ahead(n, p)'
    BY DEF TextsWait
  <2>1. n \in Msgs /\ n # m /\ p \in Photos /\ p \in Msgs
    BY <1>0, <1>1 DEF Msgs, Core
  <2>2. Ahead(n, p)
    BY <1>0, <2>1 DEF TextsWait
  <2> QED BY <1>0, <2>1, <2>2 DEF Ahead, Fetched
<1> QED BY <1>2, <1>3, <1>4, <1>5, <1>6, <1>7

(* What a text leaves behind it when it goes to its turn, or to the        *)
(* health check before it: no bucket it has found is still to be flushed.  *)
Through(m) ==
  /\ todo' \in [Texts -> Seq(Groups)] /\ held' \in [Texts -> SUBSET Photos]
  /\ \A n \in Texts \ {m} : todo'[n] = todo[n] /\ held'[n] = held[n]
  /\ m \in Texts => \A p \in held'[m] : stage[p] \in Fetched \ {"bucket"}

LEMMA LinkStep ==
  ASSUME Placed, NEW m \in Texts, Goes(m, "link"), stage[m] \in {"new", "flush"}, Through(m),
         UNCHANGED <<files, bucket, opened, queue, batch>>
  PROVE  Placed'
<1> USE DEF Placed
<1>0. /\ stage' \in [Msgs -> {"new"} \cup Moving \cup Over] /\ stage'[m] = "link"
      /\ \A x \in Msgs : x # m => stage'[x] = stage[x]
      /\ m \in Msgs /\ m \notin Photos
  BY NamesAssumption DEF Core, Goes, Moving, Msgs
<1>1. /\ Photos \subseteq Msgs /\ GroupOf \in [Photos -> Groups]
      /\ \A g \in Groups : Members(g)' = Members(g) /\ Open(g)' = Open(g)
  BY GroupAssumption DEF Msgs, Members, Open
<1>2. Core'
  <2>1. ASSUME NEW g \in Groups, NEW p \in Members(g)
        PROVE  GroupOf[p] = g /\ stage'[p] = "bucket"
    <3>1. GroupOf[p] = g /\ stage[p] = "bucket" /\ p \in Photos
      BY BucketIs, <2>1 DEF Core, Open, Members
    <3> QED BY <1>0, <1>1, <3>1
  <2> QED BY <1>0, <1>1, <2>1 DEF Core, Through
<1>3. Ways' /\ Registry'
  BY <1>0, <1>1, NamesAssumption DEF Ways, Registry
<1>4. AtLock'
  <2>1. ASSUME NEW t \in Msgs, NEW x \in batch[t] PROVE stage'[x] = stage[x] /\ x \in Msgs
    BY <1>0 DEF AtLock, Core
  <2> QED BY <1>0, <2>1 DEF AtLock, Core
<1>5. Apart'
  BY DEF Apart
<1>6. Uploads'
  BY <1>0 DEF Uploads, Core
<1>7. TextsWait'
  <2> SUFFICES ASSUME NEW n \in Texts, stage'[n] \in {"flush", "link", "lock"},
                      NEW p \in held'[n]
               PROVE  Ahead(n, p)'
    BY DEF TextsWait
  <2>0. n \in Msgs /\ p \in Photos /\ p \in Msgs /\ p # m
    BY <1>0, <1>1 DEF Msgs, Through
  <2>1. CASE n = m
    <3>1. \A j \in 1..Len(queue) : queue[j] # m
      BY <1>0 DEF AtLock, In
    <3> QED BY <1>0, <2>0, <2>1, <3>1 DEF Ahead, Through
  <2>2. CASE n # m
    <3>1. Ahead(n, p) /\ todo'[n] = todo[n]
      BY <1>0, <2>0, <2>2 DEF TextsWait, Through
    <3> QED BY <1>0, <2>0, <2>2, <3>1 DEF Ahead
  <2> QED BY <2>1, <2>2
<1> QED BY <1>2, <1>3, <1>4, <1>5, <1>6, <1>7

(* A message of no album goes to its turn.                                 *)
LEMMA AloneStep ==
  ASSUME Placed, NEW m \in Msgs \ Photos, HandlesAlone(m), Through(m),
         stage[m] \in {"new", "flush", "link", "download"},
         UNCHANGED <<bucket, opened>>,
         files' = files \/ (files' = files \cup {m} /\ m \notin Texts)
  PROVE  Placed'
<1> USE DEF Placed
<1>0. /\ stage' \in [Msgs -> {"new"} \cup Moving \cup Over] /\ stage'[m] = "lock"
      /\ \A x \in Msgs : x # m => stage'[x] = stage[x]
  BY DEF Core, HandlesAlone, Goes, Moving
<1>1. /\ Photos \subseteq Msgs /\ GroupOf \in [Photos -> Groups]
      /\ \A g \in Groups : Members(g)' = Members(g) /\ Open(g)' = Open(g)
  BY GroupAssumption DEF Msgs, Members, Open
<1>2. /\ batch' \in [Msgs -> SUBSET Msgs] /\ batch'[m] = {m}
      /\ \A t \in Msgs : t # m => batch'[t] = batch[t]
      /\ batch[m] = {} /\ \A t \in Msgs : m \notin batch[t]
  <2>1. batch \in [Msgs -> SUBSET Msgs] /\ batch' = [batch EXCEPT ![m] = {m}]
    BY DEF Core, HandlesAlone, Enqueue
  <2>2. stage[m] # "lock" /\ batch[m] = {} /\ \A t \in Msgs : m \notin batch[t]
    BY DEF AtLock
  <2> QED BY <2>1, <2>2
<1>3. /\ queue' \in Seq(Msgs) /\ Distinct(queue') /\ Len(queue') = Len(queue) + 1
      /\ queue'[Len(queue) + 1] = m /\ Len(queue) \in Nat
      /\ \A i \in 1..Len(queue) : queue'[i] = queue[i]
      /\ \A y : In(queue', y) <=> In(queue, y) \/ y = m
      /\ ~In(queue, m)
  <2>1. queue' = Append(queue, m) /\ queue \in Seq(Msgs) /\ Distinct(queue) /\ ~In(queue, m)
    BY DEF Core, HandlesAlone, Enqueue, AtLock
  <2> QED BY <2>1, AppendIs, LenProperties
<1>4. Core'
  <2>1. ASSUME NEW g \in Groups, NEW p \in Members(g)
        PROVE  GroupOf[p] = g /\ stage'[p] = "bucket"
    <3>1. GroupOf[p] = g /\ stage[p] = "bucket" /\ p \in Photos
      BY BucketIs, <2>1 DEF Core, Open, Members
    <3> QED BY <1>0, <1>1, <3>1
  <2>2. files' \subseteq Msgs \ Texts
    BY DEF Core
  <2> QED BY <1>0, <1>1, <1>2, <1>3, <2>1, <2>2 DEF Core, Through
<1>5. Ways' /\ Registry'
  BY <1>0, <1>1 DEF Ways, Registry
<1>6. AtLock'
  <2>1. ASSUME NEW t \in Msgs, NEW x \in batch[t] PROVE stage'[x] = stage[x] /\ x \in Msgs
    BY <1>0, <1>2 DEF Core
  <2>2. Cardinality({m}) <= MaxPhotos
    BY FS_Singleton, BoundsAssumption
  <2> SUFFICES ASSUME NEW t \in Msgs
               PROVE  /\ stage'[t] = "lock" <=> In(queue', t)
                      /\ stage'[t] = "lock" => t \in batch'[t]
                      /\ stage'[t] # "lock" => batch'[t] = {}
                      /\ \A x \in batch'[t] :
                           x = t \/ (x \in Photos /\ t \in Photos /\ stage'[x] = "over")
                      /\ Cardinality(batch'[t]) <= MaxPhotos
    BY <1>3 DEF AtLock
  <2>3. CASE t = m
    BY <1>0, <1>2, <1>3, <2>2, <2>3
  <2>4. CASE t # m
    BY <1>0, <1>2, <1>3, <2>1, <2>4 DEF AtLock
  <2> QED BY <2>3, <2>4
<1>7. Apart'
  BY <1>2 DEF Apart
<1>8. Uploads'
  <2> SUFFICES ASSUME NEW x \in files'
               PROVE  stage'[x] \in {"bucket", "left"} \/ \E t \in Msgs : x \in batch'[t]
    BY DEF Uploads
  <2>1. CASE x = m
    BY <1>2, <2>1
  <2>2. CASE x # m
    <3>1. x \in files /\ x \in Msgs
      BY <2>2 DEF Core
    <3>2. ASSUME NEW t \in Msgs, x \in batch[t] PROVE x \in batch'[t]
      BY <1>2, <2>2, <3>2
    <3> QED BY <1>0, <2>2, <3>1, <3>2 DEF Uploads
  <2> QED BY <2>1, <2>2
<1>9. TextsWait'
  <2> SUFFICES ASSUME NEW n \in Texts, stage'[n] \in {"flush", "link", "lock"},
                      NEW p \in held'[n]
               PROVE  Ahead(n, p)'
    BY DEF TextsWait
  <2>0. n \in Msgs /\ p \in Photos /\ p \in Msgs /\ p # m /\ stage'[p] = stage[p]
    BY <1>0, <1>1 DEF Msgs, Through
  <2>1. ASSUME NEW i \in 1..Len(queue'), p \in batch'[queue'[i]]
        PROVE  i \in 1..Len(queue) /\ p \in batch[queue[i]] /\ queue'[i] = queue[i]
    <3>1. i # Len(queue) + 1
      BY <1>2, <1>3, <2>0, <2>1
    <3>2. i \in 1..Len(queue) /\ queue'[i] = queue[i] /\ queue[i] \in Msgs
      BY <1>3, <3>1, ElementOfSeq DEF Core
    <3>3. queue[i] # m
      BY <1>3, <3>2 DEF In
    <3> QED BY <1>2, <2>1, <3>2, <3>3
  <2>2. CASE n = m
    <3>1. stage[p] \in Fetched \ {"bucket"}
      BY <2>2 DEF Through
    <3>2. ASSUME NEW i \in 1..Len(queue'), NEW j \in 1..Len(queue'),
                 queue'[j] = m, p \in batch'[queue'[i]]
          PROVE  i < j
      <4>1. j = Len(queue) + 1
        BY <1>3, <3>2 DEF In
      <4> QED BY <1>3, <2>1, <3>2, <4>1
    <3> QED BY <2>0, <2>2, <3>1, <3>2 DEF Ahead
  <2>3. CASE n # m
    <3>1. Ahead(n, p) /\ todo'[n] = todo[n] /\ stage'[n] = stage[n]
      BY <1>0, <2>0, <2>3 DEF TextsWait, Through
    <3>2. ASSUME NEW i \in 1..Len(queue'), NEW j \in 1..Len(queue'),
                 queue'[j] = n, p \in batch'[queue'[i]]
          PROVE  i < j
      <4>1. j \in 1..Len(queue) /\ queue[j] = n
        BY <1>3, <2>3, <3>2
      <4> QED BY <2>1, <3>1, <3>2, <4>1 DEF Ahead
    <3> QED BY <2>0, <3>1, <3>2 DEF Ahead
  <2> QED BY <2>2, <2>3
<1> QED BY <1>4, <1>5, <1>6, <1>7, <1>8, <1>9

(* A bucket becomes a turn; the text that has flushed it, if there is one, *)
(* waits for that turn.                                                    *)
LEMMA FlushStep ==
  ASSUME Placed, NEW g \in Groups, Open(g), DoFlush(g), NEW W \in SUBSET Texts,
         stage' \in [Msgs -> {"new"} \cup Moving \cup Over],
         \A x \in Msgs : stage'[x] = IF x \in W THEN "flush" ELSE AfterFlush(g)[x],
         \A n \in W : stage[n] \in {"new", "flush"},
         files' = files,
         todo' \in [Texts -> Seq(Groups)], held' \in [Texts -> SUBSET Photos],
         \A n \in Texts \ W : todo'[n] = todo[n] /\ held'[n] = held[n],
         \A n \in W : \A p \in held'[n] :
           /\ stage[p] \in Fetched
           /\ stage[p] = "bucket" /\ GroupOf[p] # g => In(todo'[n], GroupOf[p])
  PROVE  Placed'
<1> USE DEF Placed
<1> DEFINE L == Leader(g)
           ms == Members(g)
<1>0. /\ L \in ms /\ ms \subseteq Photos /\ Cardinality(ms) <= MaxPhotos
      /\ \A p \in ms : GroupOf[p] = g /\ stage[p] = "bucket"
      /\ \E i \in DOMAIN opened : opened[i] = g
  BY BucketIs
<1>1. /\ Photos \subseteq Msgs /\ Photos \cap W = {} /\ W \subseteq Msgs
      /\ GroupOf \in [Photos -> Groups]
  BY NamesAssumption, GroupAssumption DEF Msgs
<1>2. /\ bucket' = [bucket EXCEPT ![g] = <<>>] /\ opened' = Without(opened, g)
      /\ queue' = Append(queue, L) /\ batch' = [batch EXCEPT ![L] = ms]
  BY DEF DoFlush, Enqueue
<1>3. \A x \in Msgs : AfterFlush(g)[x] = IF x = L THEN "lock" ELSE IF x \in ms THEN "over" ELSE stage[x]
  BY DEF AfterFlush
<1>4. ASSUME NEW h \in Groups, h # g
      PROVE  /\ bucket'[h] = bucket[h] /\ Members(h)' = Members(h) /\ Open(h)' = Open(h)
  BY <1>2, <1>4 DEF Core, Members, Open
<1>5. /\ bucket' \in [Groups -> Seq(Photos)] /\ bucket'[g] = <<>>
      /\ ~Open(g)' /\ Members(g)' = {} /\ Len(bucket'[g]) = 0
  <2>1. bucket \in [Groups -> Seq(Photos)] /\ <<>> \in Seq(Photos)
    BY DEF Core
  <2>2. bucket' \in [Groups -> Seq(Photos)] /\ bucket'[g] = <<>>
    BY <1>2, <2>1
  <2> QED BY <2>2, EmptySeq DEF Open, Members
<1> HIDE DEF L, ms
<1>6. /\ stage' \in [Msgs -> {"new"} \cup Moving \cup Over]
      /\ stage'[L] = "lock" /\ \A x \in ms : x # L => stage'[x] = "over"
      /\ \A x \in W : stage'[x] = "flush"
      /\ \A x \in Msgs : x \notin ms /\ x \notin W => stage'[x] = stage[x]
  BY <1>0, <1>1, <1>3 DEF Core, Moving, Over
<1>7. L \in Msgs /\ L \in Photos /\ L \notin Texts
  BY <1>0, <1>1, NamesAssumption
<1>8. /\ batch' \in [Msgs -> SUBSET Msgs] /\ batch'[L] = ms
      /\ \A t \in Msgs : t # L => batch'[t] = batch[t]
  BY <1>0, <1>1, <1>2, <1>7 DEF Core
<1>9. \A t \in Msgs : batch[t] \cap ms = {} /\ batch[t] \cap W = {}
  BY <1>0, <1>1, NamesAssumption DEF AtLock
<1>10. batch[L] = {} /\ ~In(queue, L)
  BY <1>0, <1>7 DEF AtLock
<1>11. /\ queue' \in Seq(Msgs) /\ Distinct(queue') /\ Len(queue') = Len(queue) + 1
      /\ queue'[Len(queue) + 1] = L /\ Len(queue) \in Nat
      /\ \A i \in 1..Len(queue) : queue'[i] = queue[i]
  BY <1>2, <1>7, <1>10, AppendIs, LenProperties DEF Core, AtLock
<1>20. \A y : In(queue', y) <=> In(queue, y) \/ y = L
  <2>1. queue \in Seq(Msgs) /\ queue' = Append(queue, L)
    BY <1>2 DEF Core
  <2> QED BY <1>7, <2>1, AppendIs
<1>12. /\ opened' \in Seq(Groups) /\ Distinct(opened')
       /\ {opened'[i] : i \in DOMAIN opened'} = {h \in Groups : Open(h)'}
  <2>1. opened \in Seq(Groups) /\ Distinct(opened) /\ In(opened, g)
    BY <1>0, LenProperties DEF Registry, In
  <2>2. /\ opened' \in Seq(Groups) /\ Distinct(opened')
        /\ \A y : In(opened', y) <=> In(opened, y) /\ y # g
    BY <1>2, <2>1, WithoutIs
  <2>3. \A y : In(opened, y) <=> y \in Groups /\ Open(y)
    BY <2>1, LenProperties DEF Core, In
  <2>4. \A y : In(opened', y) <=> y \in Groups /\ Open(y)'
    <3>1. \A y \in Groups : Open(y)' <=> y # g /\ Open(y)
      BY <1>4, <1>5
    <3> QED BY <2>2, <2>3, <3>1
  <2> QED BY <2>2, <2>4, LenProperties DEF In
<1>13. Core'
  <2>1. ASSUME NEW h \in Groups
        PROVE  /\ Len(bucket'[h]) <= MaxPhotos
               /\ \A p \in Members(h)' : GroupOf[p] = h /\ stage'[p] = "bucket"
    <3>1. CASE h = g
      BY <1>5, <3>1, BoundsAssumption
    <3>2. CASE h # g
      <4>1. ASSUME NEW p \in Members(h) PROVE GroupOf[p] = h /\ stage'[p] = "bucket"
        <5>1. GroupOf[p] = h /\ stage[p] = "bucket" /\ p \in Photos
          BY BucketIs, <4>1 DEF Core, Open, Members
        <5>2. p \notin ms /\ p \notin W /\ p \in Msgs
          BY <1>0, <1>1, <3>2, <5>1
        <5> QED BY <1>6, <5>1, <5>2
      <4> QED BY <1>4, <3>2, <4>1 DEF Core
    <3> QED BY <3>1, <3>2
  <2> QED BY <1>5, <1>6, <1>8, <1>11, <1>12, <2>1 DEF Core
<1>14. Ways' /\ Registry'
  <2>1. Ways'
    BY <1>0, <1>1, <1>6, <1>7, NamesAssumption DEF Ways
  <2>2. ASSUME NEW m \in Msgs, stage'[m] = "bucket"
        PROVE  m \in Photos /\ m \in Members(GroupOf[m])'
    <3>1. m \notin ms /\ m \notin W /\ stage[m] = "bucket"
      BY <1>6, <2>2
    <3>2. m \in Photos /\ m \in Members(GroupOf[m]) /\ GroupOf[m] \in Groups
      BY <1>1, <3>1 DEF Registry
    <3>3. GroupOf[m] # g
      BY <3>1, <3>2 DEF ms
    <3> QED BY <1>4, <3>2, <3>3
  <2> QED BY <1>12, <2>1, <2>2 DEF Registry
<1>15. AtLock'
  <2> SUFFICES ASSUME NEW t \in Msgs
               PROVE  /\ stage'[t] = "lock" <=> In(queue', t)
                      /\ stage'[t] = "lock" => t \in batch'[t]
                      /\ stage'[t] # "lock" => batch'[t] = {}
                      /\ \A x \in batch'[t] :
                           x = t \/ (x \in Photos /\ t \in Photos /\ stage'[x] = "over")
                      /\ Cardinality(batch'[t]) <= MaxPhotos
    BY <1>11 DEF AtLock
  <2>1. CASE t = L
    BY <1>20, <1>0, <1>6, <1>7, <1>8, <2>1
  <2>2. CASE t # L
    <3>1. stage'[t] = "lock" <=> stage[t] = "lock"
      BY <1>0, <1>6, <2>2
    <3>2. batch'[t] = batch[t] /\ (In(queue', t) <=> In(queue, t))
      BY <1>20, <1>8, <2>2
    <3>3. ASSUME NEW x \in batch[t] PROVE stage'[x] = stage[x]
      BY <1>6, <1>9 DEF Core
    <3> QED BY <3>1, <3>2, <3>3 DEF AtLock
  <2> QED BY <2>1, <2>2
<1>16. Apart'
  BY <1>8, <1>9 DEF Apart
<1>17. Uploads'
  <2> SUFFICES ASSUME NEW x \in files
               PROVE  stage'[x] \in {"bucket", "left"} \/ \E t \in Msgs : x \in batch'[t]
    BY DEF Uploads
  <2>1. CASE x \in ms
    BY <1>7, <1>8, <2>1
  <2>2. CASE x \notin ms
    <3>1. x \in Msgs /\ x \notin W /\ stage'[x] = stage[x]
      BY <1>6, <2>2 DEF Core
    <3>2. ASSUME NEW t \in Msgs, x \in batch[t] PROVE x \in batch'[t]
      BY <1>8, <1>10, <3>2
    <3> QED BY <3>1, <3>2 DEF Uploads
  <2> QED BY <2>1, <2>2
<1>18. TextsWait'
  <2> SUFFICES ASSUME NEW n \in Texts, stage'[n] \in {"flush", "link", "lock"},
                      NEW p \in held'[n]
               PROVE  Ahead(n, p)'
    BY DEF TextsWait
  <2>0. n \in Msgs /\ p \in Photos /\ p \in Msgs /\ p \notin W /\ n \notin Photos /\ n \notin ms
    BY <1>0, <1>1, NamesAssumption DEF Msgs
  <2>1. stage[p] \in Fetched => stage'[p] \in Fetched
    BY <1>6, <2>0 DEF Fetched
  <2>2. stage'[p] = "bucket" => stage[p] = "bucket" /\ GroupOf[p] # g
    <3>1. stage'[p] = "bucket" => p \notin ms /\ stage[p] = "bucket"
      BY <1>6, <2>0
    <3>2. stage[p] = "bucket" /\ GroupOf[p] = g => p \in ms
      BY <2>0 DEF Registry, ms
    <3> QED BY <3>1, <3>2
  <2>3. CASE n \in W
    <3>1. \A j \in 1..Len(queue') : queue'[j] # n
      <4>1. stage[n] # "lock" /\ n # L
        BY <1>7, <2>3
      <4>2. ~In(queue', n)
        BY <1>20, <2>0, <4>1 DEF AtLock
      <4> QED BY <4>2 DEF In
    <3> QED BY <1>6, <2>1, <2>2, <2>3, <3>1 DEF Ahead
  <2>4. CASE n \notin W
    <3>1. stage'[n] = stage[n] /\ held'[n] = held[n] /\ todo'[n] = todo[n]
      BY <1>6, <2>0, <2>4
    <3>2. Ahead(n, p)
      BY <3>1 DEF TextsWait
    <3>3. ASSUME NEW i \in 1..Len(queue'), NEW j \in 1..Len(queue'),
                 queue'[j] = n, p \in batch'[queue'[i]]
          PROVE  i < j
      <4>1. j \in 1..Len(queue) /\ queue[j] = n
        <5>1. j # Len(queue) + 1
          BY <1>7, <1>11, <3>3
        <5> QED BY <1>11, <3>3, <5>1
      <4>2. p \notin ms
        <5>1. stage[n] = "lock"
          BY <2>0, <4>1 DEF AtLock, In
        <5> QED BY <1>0, <3>2, <5>1 DEF Ahead
      <4>3. i # Len(queue) + 1
        BY <1>8, <1>7, <1>11, <3>3, <4>2
      <4>4. i \in 1..Len(queue) /\ queue'[i] = queue[i] /\ queue[i] \in Msgs
        BY <1>11, <3>3, <4>3, ElementOfSeq DEF Core
      <4>5. queue[i] # L
        BY <1>10, <4>4 DEF In
      <4>6. p \in batch[queue[i]]
        BY <1>8, <3>3, <4>4, <4>5
      <4> QED BY <3>2, <4>1, <4>4, <4>6 DEF Ahead
    <3> QED BY <2>1, <2>2, <3>1, <3>2, <3>3 DEF Ahead
  <2> QED BY <2>3, <2>4
<1> QED BY <1>13, <1>14, <1>15, <1>16, <1>17, <1>18

(* A photo that has been fetched joins the bucket of its album.            *)
LEMMA AddStep ==
  ASSUME Placed, NEW p \in Photos, stage[p] = "download", ~Overflows(p), Add(p),
         UNCHANGED <<queue, batch, todo, held>>
  PROVE  Placed'
<1> USE DEF Placed
<1> DEFINE g == GroupOf[p]
           a == Append(bucket[g], p)
<1>0. /\ Photos \subseteq Msgs /\ p \in Msgs /\ p \notin Texts /\ g \in Groups
  BY NamesAssumption, GroupAssumption DEF Msgs
<1>1. /\ stage' = [stage EXCEPT ![p] = "bucket"] /\ files' = files \cup {p}
      /\ bucket' = [bucket EXCEPT ![g] = a]
      /\ opened' = IF Open(g) THEN opened ELSE Append(opened, g)
  BY DEF Add, Goes
<1>2. /\ stage' \in [Msgs -> {"new"} \cup Moving \cup Over] /\ stage'[p] = "bucket"
      /\ \A x \in Msgs : x # p => stage'[x] = stage[x]
  BY <1>0, <1>1 DEF Core, Moving
<1>3. /\ a \in Seq(Photos) /\ Len(a) <= MaxPhotos /\ a # <<>>
      /\ {a[i] : i \in DOMAIN a} = Members(g) \cup {p}
  <2>1. bucket[g] \in Seq(Photos) /\ Len(bucket[g]) \in Nat
    BY <1>0, LenProperties DEF Core
  <2>2. ~(Len(bucket[g]) >= MaxPhotos) /\ MaxPhotos \in Nat
    BY BoundsAssumption DEF Overflows
  <2>3. /\ a \in Seq(Photos) /\ Len(a) = Len(bucket[g]) + 1 /\ a # <<>>
        /\ \A i \in 1..Len(bucket[g]) : a[i] = bucket[g][i]
        /\ a[Len(bucket[g]) + 1] = p
    BY <2>1, AppendProperties
  <2>4. \A y : In(a, y) <=> In(bucket[g], y) \/ y = p
    BY <2>1, AppendIs
  <2> HIDE DEF a, g
  <2>5. DOMAIN a = 1..Len(a) /\ DOMAIN bucket[g] = 1..Len(bucket[g])
    BY <2>1, <2>3, LenProperties
  <2>6. {a[i] : i \in DOMAIN a} = Members(g) \cup {p}
    <3>1. \A y : In(a, y) <=> y \in {a[i] : i \in DOMAIN a}
      BY <2>5 DEF In
    <3>2. \A y : In(bucket[g], y) <=> y \in Members(g)
      BY <2>5 DEF In, Members
    <3> QED BY <2>4, <3>1, <3>2
  <2> QED BY <2>1, <2>2, <2>3, <2>6
<1> HIDE DEF a
<1>4. /\ bucket' \in [Groups -> Seq(Photos)] /\ bucket'[g] = a
      /\ \A h \in Groups : h # g => bucket'[h] = bucket[h]
  BY <1>0, <1>1, <1>3 DEF Core
<1>5. /\ Open(g)' /\ Members(g)' = Members(g) \cup {p}
      /\ \A h \in Groups : h # g => Open(h)' = Open(h) /\ Members(h)' = Members(h)
  <2> HIDE DEF g
  <2>1. Members(g)' = {bucket'[g][i] : i \in DOMAIN bucket'[g]}
    BY DEF Members
  <2>2. Open(g)' /\ Members(g)' = Members(g) \cup {p}
    BY <1>3, <1>4, <2>1 DEF Open
  <2>3. \A h \in Groups : h # g => Open(h)' = Open(h) /\ Members(h)' = Members(h)
    BY <1>4 DEF Open, Members
  <2> QED BY <2>2, <2>3
<1> HIDE DEF g
<1>6. /\ opened' \in Seq(Groups) /\ Distinct(opened')
      /\ {opened'[i] : i \in DOMAIN opened'} = {h \in Groups : Open(h)'}
  <2>1. opened \in Seq(Groups) /\ Distinct(opened)
    BY DEF Registry
  <2>2. \A y : In(opened, y) <=> y \in Groups /\ Open(y)
    BY <2>1, LenProperties DEF Core, In
  <2>3. CASE Open(g)
    <3>1. \A h \in Groups : Open(h)' = Open(h)
      BY <1>5, <2>3 DEF Open
    <3> QED BY <1>1, <2>1, <2>3, <3>1 DEF Core
  <2>4. CASE ~Open(g)
    <3>1. ~In(opened, g)
      BY <2>2, <2>4
    <3>2. /\ opened' \in Seq(Groups) /\ Distinct(opened')
          /\ \A y : In(opened', y) <=> In(opened, y) \/ y = g
      BY <1>0, <1>1, <2>1, <2>4, <3>1, AppendIs
    <3>3. \A h \in Groups : Open(h)' <=> h = g \/ Open(h)
      BY <1>5
    <3>4. \A y : In(opened', y) <=> y \in Groups /\ Open(y)'
      BY <1>0, <2>2, <3>2, <3>3
    <3> QED BY <3>2, <3>4, LenProperties DEF In
  <2> QED BY <2>3, <2>4
<1>7. Core'
  <2>1. ASSUME NEW h \in Groups
        PROVE  /\ Len(bucket'[h]) <= MaxPhotos
               /\ \A x \in Members(h)' : GroupOf[x] = h /\ stage'[x] = "bucket"
    <3>1. ASSUME NEW x \in Members(h) PROVE GroupOf[x] = h /\ stage'[x] = "bucket"
      <4>1. GroupOf[x] = h /\ stage[x] = "bucket" /\ x \in Photos
        BY BucketIs, <3>1 DEF Core, Open, Members
      <4> QED BY <1>0, <1>2, <4>1
    <3>2. CASE h = g
      BY <1>2, <1>3, <1>4, <1>5, <3>1, <3>2 DEF g
    <3>3. CASE h # g
      BY <1>4, <1>5, <3>1, <3>3 DEF Core
    <3> QED BY <3>2, <3>3
  <2>2. files' \subseteq Msgs \ Texts
    BY <1>0, <1>1 DEF Core
  <2> QED BY <1>2, <1>4, <1>6, <2>1, <2>2 DEF Core
<1>8. Ways' /\ Registry'
  <2>1. Ways'
    BY <1>0, <1>2 DEF Ways
  <2>2. ASSUME NEW m \in Msgs, stage'[m] = "bucket"
        PROVE  m \in Photos /\ m \in Members(GroupOf[m])'
    <3>1. CASE m = p
      BY <1>5, <3>1 DEF g
    <3>2. CASE m # p
      <4>1. m \in Photos /\ m \in Members(GroupOf[m]) /\ GroupOf[m] \in Groups
        BY <1>2, <2>2, <3>2, GroupAssumption DEF Registry
      <4> QED BY <1>5, <4>1
    <3> QED BY <3>1, <3>2
  <2> QED BY <1>6, <2>1, <2>2 DEF Registry
<1>9. AtLock'
  <2>1. ASSUME NEW t \in Msgs, NEW x \in batch[t] PROVE stage'[x] = stage[x] /\ x \in Msgs
    BY <1>2 DEF AtLock, Core
  <2>2. \A t \in Msgs : stage'[t] = "lock" <=> stage[t] = "lock"
    BY <1>2
  <2> QED BY <2>1, <2>2 DEF AtLock
<1>10. Apart'
  BY DEF Apart
<1>11. Uploads'
  BY <1>1, <1>2 DEF Uploads, Core
<1>12. TextsWait'
  <2> SUFFICES ASSUME NEW n \in Texts, stage'[n] \in {"flush", "link", "lock"},
                      NEW x \in held[n]
               PROVE  Ahead(n, x)'
    BY DEF TextsWait
  <2>1. n \in Msgs /\ n # p /\ x \in Msgs /\ stage'[n] = stage[n]
    BY <1>0, <1>2 DEF Msgs, Core
  <2>2. Ahead(n, x)
    BY <2>1 DEF TextsWait
  <2>3. x # p
    BY <2>2 DEF Ahead, Fetched
  <2> QED BY <1>2, <2>1, <2>2, <2>3 DEF Ahead
<1> QED BY <1>7, <1>8, <1>9, <1>10, <1>11, <1>12

(* The first turn at the lock ends or raises.  What stays on the disk of   *)
(* its uploads is left behind.                                             *)
LEMMA LeaveStep ==
  ASSUME Placed, NEW t \in Msgs, Has(t), NEW s \in {"reply", "left"}, Goes(t, s),
         queue' = Tail(queue), batch' = [batch EXCEPT ![t] = {}],
         held' = [m \in Texts |-> IF m = t THEN {} ELSE held[m]],
         UNCHANGED <<bucket, opened, todo>>,
         files' \subseteq files,
         \A x \in files' : x \in batch[t] => s = "left" /\ t \notin Photos
  PROVE  Placed'
<1> USE DEF Placed
<1>0. /\ queue \in Seq(Msgs) /\ queue # <<>> /\ Distinct(queue) /\ queue[1] = t
  BY DEF Core, AtLock, Has
<1>1. /\ queue' \in Seq(Msgs) /\ Len(queue) > 0 /\ Len(queue') = Len(queue) - 1
      /\ Distinct(queue') /\ Len(queue) \in Nat
      /\ \A i \in 1..Len(queue') : queue'[i] = queue[i + 1]
  BY <1>0, TailIs, LenProperties
<1>2. \A y : In(queue', y) <=> In(queue, y) /\ y # t
  BY <1>0, TailIs
<1>3. stage[t] = "lock"
  BY <1>0, <1>1 DEF AtLock, In
<1>4. /\ stage' \in [Msgs -> {"new"} \cup Moving \cup Over] /\ stage'[t] = s
      /\ \A x \in Msgs : x # t => stage'[x] = stage[x]
  BY DEF Core, Goes, Moving, Over
<1>5. /\ Photos \subseteq Msgs /\ GroupOf \in [Photos -> Groups]
      /\ \A g \in Groups : Members(g)' = Members(g) /\ Open(g)' = Open(g)
  BY GroupAssumption DEF Msgs, Members, Open
<1>6. /\ batch' \in [Msgs -> SUBSET Msgs] /\ batch'[t] = {}
      /\ \A u \in Msgs : u # t => batch'[u] = batch[u]
  BY DEF Core
<1>7. Core'
  <2>1. ASSUME NEW g \in Groups, NEW p \in Members(g)
        PROVE  GroupOf[p] = g /\ stage'[p] = "bucket"
    <3>1. GroupOf[p] = g /\ stage[p] = "bucket" /\ p \in Photos
      BY BucketIs, <2>1 DEF Core, Open, Members
    <3> QED BY <1>3, <1>4, <1>5, <3>1
  <2>2. files' \subseteq Msgs \ Texts /\ held' \in [Texts -> SUBSET Photos]
    BY DEF Core
  <2> QED BY <1>1, <1>4, <1>5, <1>6, <2>1, <2>2 DEF Core
<1>8. Ways' /\ Registry'
  BY <1>3, <1>4, <1>5 DEF Ways, Registry
<1>9. AtLock'
  <2> SUFFICES ASSUME NEW u \in Msgs
               PROVE  /\ stage'[u] = "lock" <=> In(queue', u)
                      /\ stage'[u] = "lock" => u \in batch'[u]
                      /\ stage'[u] # "lock" => batch'[u] = {}
                      /\ \A x \in batch'[u] :
                           x = u \/ (x \in Photos /\ u \in Photos /\ stage'[x] = "over")
                      /\ Cardinality(batch'[u]) <= MaxPhotos
    BY <1>1 DEF AtLock
  <2>1. CASE u = t
    <3>1. Cardinality({}) <= MaxPhotos
      BY FS_EmptySet, BoundsAssumption
    <3> QED BY <1>2, <1>4, <1>6, <2>1, <3>1
  <2>2. CASE u # t
    <3>1. ASSUME NEW x \in batch[u], x # u PROVE stage'[x] = stage[x]
      BY <1>3, <1>4, <3>1 DEF AtLock, Core
    <3> QED BY <1>2, <1>4, <1>6, <2>2, <3>1 DEF AtLock
  <2> QED BY <2>1, <2>2
<1>10. Apart'
  BY <1>6 DEF Apart
<1>11. Uploads'
  <2> SUFFICES ASSUME NEW x \in files'
               PROVE  stage'[x] \in {"bucket", "left"} \/ \E u \in Msgs : x \in batch'[u]
    BY DEF Uploads
  <2>0. x \in files /\ x \in Msgs
    BY DEF Core
  <2>1. CASE x \in batch[t]
    <3>1. s = "left" /\ t \notin Photos
      BY <2>1
    <3>2. x = t
      BY <2>1, <3>1 DEF AtLock
    <3> QED BY <1>4, <3>1, <3>2
  <2>2. CASE x \notin batch[t]
    <3>1. x # t
      BY <1>3, <2>2 DEF AtLock
    <3>2. ASSUME NEW u \in Msgs, x \in batch[u] PROVE x \in batch'[u]
      BY <1>6, <2>2, <3>2
    <3> QED BY <1>4, <2>0, <3>1, <3>2 DEF Uploads
  <2> QED BY <2>1, <2>2
<1>12. TextsWait'
  <2> SUFFICES ASSUME NEW n \in Texts, stage'[n] \in {"flush", "link", "lock"},
                      NEW p \in held'[n]
               PROVE  Ahead(n, p)'
    BY DEF TextsWait
  <2>1. n \in Msgs /\ n # t /\ stage'[n] = stage[n] /\ held'[n] = held[n]
    BY <1>4 DEF Msgs
  <2>2. Ahead(n, p) /\ p \in Msgs
    BY <1>5, <2>1 DEF TextsWait, Core
  <2>3. stage'[p] \in Fetched /\ (stage'[p] = "bucket" => stage[p] = "bucket")
    BY <1>4, <2>2 DEF Ahead, Fetched
  <2>4. ASSUME NEW i \in 1..Len(queue'), NEW j \in 1..Len(queue'),
               queue'[j] = n, p \in batch'[queue'[i]]
        PROVE  i < j
    <3>1. /\ i + 1 \in 1..Len(queue) /\ j + 1 \in 1..Len(queue)
          /\ queue'[i] = queue[i + 1] /\ queue'[j] = queue[j + 1]
      BY <1>1
    <3>2. queue[i + 1] \in Msgs
      BY <1>0, <3>1, ElementOfSeq
    <3>3. p \in batch[queue[i + 1]]
      BY <1>6, <2>4, <3>1, <3>2
    <3>4. i + 1 < j + 1
      BY <2>2, <2>4, <3>1, <3>3 DEF Ahead
    <3> QED BY <3>4
  <2> QED BY <2>1, <2>2, <2>3, <2>4 DEF Ahead
<1> QED BY <1>7, <1>8, <1>9, <1>10, <1>11, <1>12

(* Nothing of this changes.                                                *)
LEMMA IdleStep ==
  ASSUME Placed, UNCHANGED <<stage, files, bucket, opened, queue, batch, todo, held>>
  PROVE  Placed'
<1>1. \A g \in Groups : Members(g)' = Members(g) /\ Open(g)' = Open(g)
  BY DEF Members, Open
<1>2. Core'
  <2>1. {opened'[i] : i \in DOMAIN opened'} = {opened[i] : i \in DOMAIN opened}
    OBVIOUS
  <2>2. {g \in Groups : Open(g)'} = {g \in Groups : Open(g)}
    BY <1>1
  <2>3. \A g \in Groups : /\ Len(bucket'[g]) <= MaxPhotos
                         /\ \A p \in Members(g)' : GroupOf[p] = g /\ stage'[p] = "bucket"
    BY <1>1 DEF Placed, Core
  <2> QED BY <2>1, <2>2, <2>3 DEF Placed, Core
<1>3. Ways' /\ Apart' /\ Uploads'
  BY DEF Placed, Ways, Apart, Uploads
<1>6. Registry'
  <2>1. ASSUME NEW m \in Msgs, stage'[m] = "bucket"
        PROVE  m \in Photos /\ m \in Members(GroupOf[m])'
    <3>1. m \in Photos /\ m \in Members(GroupOf[m]) /\ GroupOf[m] \in Groups
      BY <2>1, GroupAssumption DEF Placed, Registry
    <3> QED BY <1>1, <3>1
  <2> QED BY <2>1 DEF Placed, Registry, Distinct
<1>4. AtLock'
  BY DEF Placed, AtLock, Distinct, In
<1>5. TextsWait'
  <2>1. \A m, p : Ahead(m, p) => Ahead(m, p)'
    BY DEF Ahead, In
  <2> QED BY <2>1 DEF Placed, TextsWait
<1> QED BY <1>2, <1>3, <1>4, <1>5, <1>6 DEF Placed

(* A bucket that is closed holds nothing.                                  *)
LEMMA ClosedIs ==
  ASSUME Core, Registry, NEW p \in Photos, stage[p] = "bucket"
  PROVE  GroupOf[p] \in Groups /\ Open(GroupOf[p])
<1>1. p \in Members(GroupOf[p]) /\ GroupOf[p] \in Groups
  BY GroupAssumption DEF Registry, Msgs
<1>2. DOMAIN <<>> = {}
  OBVIOUS
<1> QED BY <1>1, <1>2 DEF Members, Open

(* Of the buckets of a list the first that is open is flushed, if any is.  *)
LEMMA FirstOpenIs ==
  ASSUME NEW gs \in Seq(Groups), FirstOpen(gs) = {}, NEW g, In(gs, g)
  PROVE  ~Open(g)
<1> SUFFICES ASSUME Open(g) PROVE FALSE
  OBVIOUS
<1> DEFINE T == {i \in DOMAIN gs : Open(gs[i])}
<1>1. DOMAIN gs = 1..Len(gs) /\ Len(gs) \in Nat
  BY LenProperties
<1>2. T \subseteq Int /\ T # {}
  BY <1>1 DEF In
<1>3. IsFiniteSet(T)
  <2>1. \A n \in Int : IsFiniteSet(1..n)
    BY FS_Interval
  <2>2. IsFiniteSet(1..Len(gs)) /\ T \in SUBSET (1..Len(gs))
    BY <1>1, <2>1
  <2> HIDE DEF T
  <2> QED BY <2>2, FS_Subset
<1>4. PICK i \in T : \A j \in T : i <= j
  <2> HIDE DEF T
  <2> QED BY <1>2, <1>3, LeastExists
<1>5. ASSUME NEW j \in 1..(i - 1), Open(gs[j]) PROVE FALSE
  <2>1. j \in T /\ ~(i <= j)
    BY <1>1, <1>5
  <2> QED BY <1>4, <2>1
<1>6. i \in FirstOpen(gs)
  BY <1>5 DEF FirstOpen
<1> QED BY <1>6

LEMMA ChatStep ==
  ASSUME Placed, NEW m \in Texts, stage[m] \in {"new", "flush"},
         NEW gs \in Seq(Groups), FlushForChat(m, gs), files' = files,
         NEW h \in SUBSET Photos, held' = [held EXCEPT ![m] = h],
         \A p \in h : stage[p] \in Fetched /\ (stage[p] = "bucket" => In(gs, GroupOf[p]))
  PROVE  Placed'
<1>0. /\ m \in Msgs /\ m \notin Photos
      /\ todo \in [Texts -> Seq(Groups)] /\ held \in [Texts -> SUBSET Photos]
      /\ held' \in [Texts -> SUBSET Photos] /\ held'[m] = h
      /\ \A n \in Texts : n # m => held'[n] = held[n]
  BY NamesAssumption DEF Placed, Core, Msgs
<1>1. CASE FirstOpen(gs) = {}
  <2>1. /\ Answer(m) /\ todo' = [todo EXCEPT ![m] = <<>>] /\ UNCHANGED <<bucket, opened>>
    BY <1>1 DEF FlushForChat, buckets
  <2>2. ASSUME NEW p \in h PROVE stage[p] \in Fetched \ {"bucket"}
    <3>1. stage[p] = "bucket" => Open(GroupOf[p])
      BY ClosedIs DEF Placed
    <3>2. In(gs, GroupOf[p]) => ~Open(GroupOf[p])
      BY <1>1, FirstOpenIs
    <3> QED BY <3>1, <3>2
  <2>3. Through(m)
    <3>1. <<>> \in Seq(Groups)
      OBVIOUS
    <3> QED BY <1>0, <2>1, <2>2, <3>1 DEF Through
  <2>4. CASE HandlesAlone(m)
    BY <1>0, <2>1, <2>3, <2>4, AloneStep
  <2>5. CASE UrlNext(m)
    BY <2>1, <2>3, <2>5, LinkStep DEF UrlNext, turns
  <2> QED BY <2>1, <2>4, <2>5 DEF Answer
<1>2. ASSUME NEW i \in FirstOpen(gs), DoFlush(gs[i]),
             stage' = [AfterFlush(gs[i]) EXCEPT ![m] = "flush"],
             todo' = [todo EXCEPT ![m] = SubSeq(gs, i + 1, Len(gs))]
      PROVE  Placed'
  <2> DEFINE g == gs[i]
             rest == SubSeq(gs, i + 1, Len(gs))
  <2>1. /\ Len(gs) \in Nat /\ i \in 1..Len(gs) /\ g \in Groups /\ Open(g)
        /\ \A j \in 1..(i - 1) : ~Open(gs[j])
    BY LenProperties, ElementOfSeq DEF FirstOpen
  <2>2. rest \in Seq(Groups)
    <3>1. i + 1 \in Int /\ Len(gs) \in Int /\ \A k \in (i + 1)..Len(gs) : gs[k] \in Groups
      BY <2>1, ElementOfSeq
    <3> QED BY <3>1, SubSeqProperties
  <2>3. ASSUME NEW k \in 1..Len(gs), k > i PROVE In(rest, gs[k])
    <3>1. i + 1 \in Int /\ Len(gs) \in Int /\ \A x \in (i + 1)..Len(gs) : gs[x] \in Groups
      BY <2>1, ElementOfSeq
    <3>2. Len(rest) = IF i + 1 <= Len(gs) THEN Len(gs) - (i + 1) + 1 ELSE 0
      BY <3>1, SubSeqProperties
    <3>3. \A x \in 1..(Len(gs) - (i + 1) + 1) : rest[x] = gs[(i + 1) + x - 1]
      BY <3>1, SubSeqProperties
    <3> HIDE DEF rest
    <3>4. k - i \in 1..Len(rest) /\ k - i \in 1..(Len(gs) - (i + 1) + 1)
      BY <2>1, <2>3, <3>2
    <3>5. rest[k - i] = gs[k]
      BY <2>1, <2>3, <3>3, <3>4
    <3> QED BY <3>4, <3>5 DEF In
  <2> HIDE DEF rest, g
  <2>4. todo' \in [Texts -> Seq(Groups)] /\ todo'[m] = rest
        /\ \A n \in Texts : n # m => todo'[n] = todo[n]
    BY <1>0, <1>2, <2>2 DEF rest
  <2>5. ASSUME NEW p \in h, stage[p] = "bucket", GroupOf[p] # g PROVE In(rest, GroupOf[p])
    <3>1. PICK k \in 1..Len(gs) : gs[k] = GroupOf[p]
      BY <2>5 DEF In
    <3>2. Open(gs[k])
      BY <2>5, <3>1, ClosedIs DEF Placed
    <3>3. k > i
      BY <2>1, <2>5, <3>1, <3>2 DEF g
    <3> QED BY <2>3, <3>1, <3>3
  <2> DEFINE W == {m}
  <2>6. /\ stage' \in [Msgs -> {"new"} \cup Moving \cup Over]
        /\ \A x \in Msgs : stage'[x] = IF x \in W THEN "flush" ELSE AfterFlush(g)[x]
    BY <1>0, <1>2 DEF AfterFlush, g, Placed, Core, Moving, Over
  <2>7. DoFlush(g)
    BY <1>2 DEF g
  <2>8. /\ W \in SUBSET Texts
        /\ \A n \in W : stage[n] \in {"new", "flush"}
        /\ \A n \in Texts \ W : todo'[n] = todo[n] /\ held'[n] = held[n]
    BY <1>0, <2>4
  <2>9. \A n \in W : \A p \in held'[n] :
          /\ stage[p] \in Fetched
          /\ stage[p] = "bucket" /\ GroupOf[p] # g => In(todo'[n], GroupOf[p])
    BY <1>0, <2>4, <2>5
  <2> HIDE DEF W
  <2> QED BY <1>0, <2>1, <2>4, <2>6, <2>7, <2>8, <2>9, FlushStep
<1> QED BY <1>1, <1>2 DEF FlushForChat

(* Empty buckets are what the types ask of buckets.                        *)
LEMMA EmptyBuckets ==
  ASSUME bucket' = [g \in Groups |-> <<>>], opened' = <<>>
  PROVE  /\ bucket' \in [Groups -> Seq(Photos)]
         /\ \A g \in Groups : Len(bucket'[g]) <= MaxPhotos /\ Members(g)' = {}
         /\ {opened'[i] : i \in DOMAIN opened'} = {g \in Groups : Open(g)'}
         /\ opened' \in Seq(Groups) /\ Distinct(opened')
<1>1. /\ <<>> \in Seq(Photos) /\ <<>> \in Seq(Groups) /\ Len(<<>>) = 0 /\ DOMAIN <<>> = {}
  OBVIOUS
<1>2. \A g \in Groups : bucket'[g] = <<>>
  OBVIOUS
<1>3. \A g \in Groups : Members(g)' = {} /\ ~Open(g)'
  BY <1>1, <1>2 DEF Members, Open
<1>4. {opened'[i] : i \in DOMAIN opened'} = {}
  BY <1>1
<1>5. {g \in Groups : Open(g)'} = {}
  BY <1>3
<1>6. opened' \in Seq(Groups) /\ Distinct(opened')
  BY <1>1 DEF Distinct
<1> QED BY <1>1, <1>2, <1>3, <1>4, <1>5, <1>6, BoundsAssumption

(* The buckets are dropped.                                                *)
LEMMA StopStep == Placed /\ Stop => Placed'
<1> SUFFICES ASSUME Placed, Stop PROVE Placed'
  OBVIOUS
<1> USE DEF Placed
<1>0. /\ stage' = [m \in Msgs |-> IF stage[m] = "bucket" THEN "left" ELSE stage[m]]
      /\ UNCHANGED <<files, queue, batch, todo, held>>
      /\ bucket' = [g \in Groups |-> <<>>] /\ opened' = <<>>
  BY DEF Stop, CancelAll, turns, texts
<1>1. /\ bucket' \in [Groups -> Seq(Photos)]
      /\ \A g \in Groups : Len(bucket'[g]) <= MaxPhotos /\ Members(g)' = {}
      /\ {opened'[i] : i \in DOMAIN opened'} = {g \in Groups : Open(g)'}
      /\ opened' \in Seq(Groups) /\ Distinct(opened')
  BY <1>0, EmptyBuckets
<1>2. /\ stage' \in [Msgs -> {"new"} \cup Moving \cup Over]
      /\ \A m \in Msgs : stage'[m] = IF stage[m] = "bucket" THEN "left" ELSE stage[m]
  BY <1>0 DEF Core, Moving, Over
<1>3. Core'
  <2>1. /\ files' \subseteq Msgs \ Texts /\ queue' \in Seq(Msgs) /\ batch' \in [Msgs -> SUBSET Msgs]
        /\ todo' \in [Texts -> Seq(Groups)] /\ held' \in [Texts -> SUBSET Photos]
    BY <1>0 DEF Core
  <2> QED BY <1>1, <1>2, <2>1 DEF Core
<1>4. Ways' /\ Registry'
  BY <1>1, <1>2 DEF Ways, Registry
<1>5. AtLock'
  <2>1. ASSUME NEW t \in Msgs, NEW x \in batch[t] PROVE x = t \/ stage'[x] = stage[x]
    BY <1>2 DEF AtLock, Core
  <2>2. \A t \in Msgs : stage'[t] = "lock" <=> stage[t] = "lock"
    BY <1>2
  <2> QED BY <1>0, <2>1, <2>2 DEF AtLock
<1>6. Apart' /\ Uploads'
  BY <1>0, <1>2 DEF Apart, Uploads, Core
<1>7. TextsWait'
  <2> SUFFICES ASSUME NEW n \in Texts, stage'[n] \in {"flush", "link", "lock"},
                      NEW p \in held[n]
               PROVE  Ahead(n, p)'
    BY <1>0 DEF TextsWait
  <2>1. n \in Msgs /\ p \in Msgs /\ stage'[n] = stage[n]
    BY <1>2 DEF Msgs, Core
  <2>2. Ahead(n, p)
    BY <2>1 DEF TextsWait
  <2> QED BY <1>0, <1>2, <2>1, <2>2 DEF Ahead, Fetched
<1> QED BY <1>3, <1>4, <1>5, <1>6, <1>7

(* A death leaves no bucket and no turn.                                   *)
LEMMA PerishStep == Placed /\ Perish => Placed'
<1> SUFFICES ASSUME Placed, Perish PROVE Placed'
  OBVIOUS
<1> USE DEF Placed
<1>0. /\ stage' = [m \in Msgs |-> IF stage[m] \in Moving \/ m \in files THEN "left" ELSE stage[m]]
      /\ files' \in {files, files \cup {m \in Msgs : stage[m] = "download"}}
      /\ bucket' = [g \in Groups |-> <<>>] /\ opened' = <<>>
      /\ queue' = <<>> /\ batch' = [m \in Msgs |-> {}]
      /\ todo' = [m \in Texts |-> <<>>] /\ held' = [m \in Texts |-> {}]
  BY DEF Perish, StaysBehind
<1>1. /\ bucket' \in [Groups -> Seq(Photos)]
      /\ \A g \in Groups : Len(bucket'[g]) <= MaxPhotos /\ Members(g)' = {}
      /\ {opened'[i] : i \in DOMAIN opened'} = {g \in Groups : Open(g)'}
      /\ opened' \in Seq(Groups) /\ Distinct(opened')
  BY <1>0, EmptyBuckets
<1>2. /\ stage' \in [Msgs -> {"new"} \cup Moving \cup Over]
      /\ \A m \in Msgs : stage'[m] \in {"new", "over", "left"}
      /\ \A m \in Msgs : stage[m] = "download" \/ m \in files => stage'[m] = "left"
  BY <1>0 DEF Core, Moving, Over
<1>3. Core'
  <2>1. <<>> \in Seq(Msgs) /\ <<>> \in Seq(Groups)
    OBVIOUS
  <2>2. /\ queue' \in Seq(Msgs) /\ batch' \in [Msgs -> SUBSET Msgs]
        /\ todo' \in [Texts -> Seq(Groups)] /\ held' \in [Texts -> SUBSET Photos]
    BY <1>0, <2>1
  <2>3. files' \subseteq Msgs \ Texts
    BY <1>0 DEF Core, Ways
  <2> QED BY <1>1, <1>2, <2>2, <2>3 DEF Core
<1>4. Ways' /\ Registry'
  BY <1>1, <1>2 DEF Ways, Registry
<1>5. AtLock'
  <2>1. Cardinality({}) <= MaxPhotos
    BY FS_EmptySet, BoundsAssumption
  <2>2. Len(<<>>) = 0
    OBVIOUS
  <2> QED BY <1>0, <1>2, <2>1, <2>2 DEF AtLock, Distinct, In
<1>6. Apart' /\ Uploads'
  BY <1>0, <1>2 DEF Apart, Uploads, Core
<1>7. TextsWait'
  BY <1>0 DEF TextsWait
<1> QED BY <1>3, <1>4, <1>5, <1>6, <1>7

(* The sweep of a start takes every upload.                                *)
LEMMA BootStep == Placed /\ Boot => Placed'
<1> SUFFICES ASSUME Placed, Boot PROVE Placed'
  OBVIOUS
<1> USE DEF Placed
<1>0. files' = {} /\ UNCHANGED <<stage, bucket, opened, queue, batch, todo, held>>
  BY DEF Boot, buckets, turns, texts
<1>1. \A g \in Groups : Members(g)' = Members(g) /\ Open(g)' = Open(g)
  BY <1>0 DEF Members, Open
<1>2. Core'
  <2>1. {opened'[i] : i \in DOMAIN opened'} = {opened[i] : i \in DOMAIN opened}
    BY <1>0
  <2>2. {g \in Groups : Open(g)'} = {g \in Groups : Open(g)}
    BY <1>1
  <2>3. \A g \in Groups : /\ Len(bucket'[g]) <= MaxPhotos
                         /\ \A p \in Members(g)' : GroupOf[p] = g /\ stage'[p] = "bucket"
    BY <1>0, <1>1 DEF Core
  <2> QED BY <1>0, <2>1, <2>2, <2>3 DEF Core
<1>3. Ways' /\ Apart' /\ Uploads'
  BY <1>0 DEF Ways, Apart, Uploads
<1>4. Registry'
  <2>1. ASSUME NEW m \in Msgs, stage'[m] = "bucket"
        PROVE  m \in Photos /\ m \in Members(GroupOf[m])'
    <3>1. m \in Photos /\ m \in Members(GroupOf[m]) /\ GroupOf[m] \in Groups
      BY <1>0, <2>1, GroupAssumption DEF Registry
    <3> QED BY <1>1, <3>1
  <2> QED BY <1>0, <2>1 DEF Registry, Distinct
<1>5. AtLock'
  BY <1>0 DEF AtLock, Distinct, In
<1>6. TextsWait'
  <2>1. \A m, p : Ahead(m, p) => Ahead(m, p)'
    BY <1>0 DEF Ahead, In
  <2> QED BY <1>0, <2>1 DEF TextsWait
<1> QED BY <1>2, <1>3, <1>4, <1>5, <1>6

-----------------------------------------------------------------------------
(* Every step keeps the invariant. *)

(* A message arrives.                                                      *)
LEMMA ArrivesStep ==
  ASSUME Placed, NEW m \in Msgs, Arrive(m)
  PROVE  Placed'
<1> USE NamesAssumption
<1>0. Core /\ TextsWait /\ Registry
  BY DEF Placed
<1>1. ASSUME NEW s \in {"download", "health", "over"}, Begins(m, s) \/ (s = "over" /\ Refused(m)),
             s # "over" => m \notin Texts, s = "health" => m \in Others
      PROVE  Placed'
  <2>1. stage[m] = "new" /\ Goes(m, s)
        /\ UNCHANGED <<files, bucket, opened, queue, batch, todo, held>>
    BY <1>1 DEF Begins, Refused, New, buckets, turns, texts
  <2> QED BY <1>1, <2>1, MoveStep
<1>2. CASE m \in Texts /\ TextArrives(m)
  <2> DEFINE h == {p \in Photos : stage[p] = "bucket"}
  <2>1. /\ stage[m] = "new" /\ files' = files /\ FlushForChat(m, opened)
        /\ held' = [held EXCEPT ![m] = h] /\ h \in SUBSET Photos
        /\ m \in Texts /\ opened \in Seq(Groups)
    BY <1>0, <1>2 DEF TextArrives, New, Registry
  <2>2. ASSUME NEW p \in h PROVE stage[p] \in Fetched /\ (stage[p] = "bucket" => In(opened, GroupOf[p]))
    <3>1. GroupOf[p] \in Groups /\ Open(GroupOf[p])
      BY <1>0, ClosedIs
    <3>2. \E i \in DOMAIN opened : opened[i] = GroupOf[p]
      BY <1>0, <3>1, BucketIs
    <3> QED BY <2>1, <3>2, LenProperties DEF Fetched, In
  <2> HIDE DEF h
  <2> QED BY <2>1, <2>2, ChatStep
<1>3. CASE Refused(m)
  BY <1>1, <1>3
<1>4. CASE PhotoArrives(m) \/ DocumentArrives(m)
  BY <1>1, <1>4 DEF PhotoArrives, DocumentArrives
<1>5. CASE VoiceArrives(m) \/ AudioArrives(m) \/ AudioDocumentArrives(m)
  BY <1>1, <1>5 DEF VoiceArrives, AudioArrives, AudioDocumentArrives
<1> QED BY <1>2, <1>3, <1>4, <1>5 DEF Arrive

(* A debounce task wakes.                                                  *)
LEMMA TimerStep ==
  ASSUME Placed, NEW p \in Photos, TimerFires(p)
  PROVE  Placed'
<1> DEFINE g == GroupOf[p]
<1>0. g \in Groups /\ Core
  BY GroupAssumption DEF Placed
<1>1. UNCHANGED <<files, todo, held>>
  BY DEF TimerFires, texts
<1>2. CASE Open(g)
  <2>1. DoFlush(g) /\ stage' = AfterFlush(g)
    BY <1>2 DEF TimerFires
  <2>2. /\ stage' \in [Msgs -> {"new"} \cup Moving \cup Over]
        /\ \A x \in Msgs : stage'[x] = IF x \in {} THEN "flush" ELSE AfterFlush(g)[x]
    BY <1>0, <2>1 DEF AfterFlush, Core, Moving, Over
  <2>3. todo' \in [Texts -> Seq(Groups)] /\ held' \in [Texts -> SUBSET Photos]
    BY <1>0, <1>1 DEF Core
  <2> DEFINE W == {}
  <2>4. /\ W \in SUBSET Texts
        /\ \A n \in W : stage[n] \in {"new", "flush"}
        /\ \A n \in Texts \ W : todo'[n] = todo[n] /\ held'[n] = held[n]
        /\ \A n \in W : \A x \in held'[n] :
             /\ stage[x] \in Fetched
             /\ stage[x] = "bucket" /\ GroupOf[x] # g => In(todo'[n], GroupOf[x])
        /\ \A x \in Msgs : stage'[x] = IF x \in W THEN "flush" ELSE AfterFlush(g)[x]
    BY <1>1, <2>2
  <2> HIDE DEF W, g
  <2> QED BY <1>0, <1>1, <1>2, <2>1, <2>2, <2>3, <2>4, FlushStep
<1>3. CASE ~Open(g)
  <2>1. UNCHANGED <<stage, files, bucket, opened, queue, batch, todo, held>>
    BY <1>1, <1>3 DEF TimerFires, turns
  <2> QED BY <2>1, IdleStep
<1> QED BY <1>2, <1>3

(* A message goes on its way.                                              *)
LEMMA WorksStep ==
  ASSUME Placed, NEW m \in Msgs, Works(m)
  PROVE  Placed'
<1> USE NamesAssumption
<1>0. Core /\ TextsWait /\ Ways /\ AtLock
  BY DEF Placed
<1>1. ASSUME UNCHANGED <<todo, held>>, m \in Texts => stage[m] = "link"
      PROVE  Through(m)
  <2>1. todo' \in [Texts -> Seq(Groups)] /\ held' \in [Texts -> SUBSET Photos]
    BY <1>0, <1>1 DEF Core
  <2>2. ASSUME m \in Texts, NEW p \in held'[m] PROVE stage[p] \in Fetched \ {"bucket"}
    <3>1. Ahead(m, p) /\ stage[m] = "link"
      BY <1>0, <1>1, <2>2 DEF TextsWait
    <3> QED BY <3>1 DEF Ahead
  <2> QED BY <1>1, <2>1, <2>2 DEF Through
<1>2. CASE m \in Texts /\ TextGoesOn(m)
  <2> DEFINE gs == todo[m]
             h == held[m]
  <2>1. /\ m \in Texts /\ stage[m] = "flush" /\ FlushForChat(m, gs) /\ files' = files
        /\ gs \in Seq(Groups) /\ h \in SUBSET Photos /\ held' = [held EXCEPT ![m] = h]
    BY <1>0, <1>2 DEF TextGoesOn, Core
  <2>2. \A p \in h : stage[p] \in Fetched /\ (stage[p] = "bucket" => In(gs, GroupOf[p]))
    BY <1>0, <2>1 DEF TextsWait, Ahead
  <2> HIDE DEF gs, h
  <2> QED BY <2>1, <2>2, ChatStep
<1>3. CASE SidecarHealthy(m)
  <2>1. UNCHANGED <<files, bucket, opened, todo, held>>
    BY <1>3 DEF SidecarHealthy, buckets, texts
  <2>2. CASE stage[m] = "health" /\ Goes(m, "download") /\ UNCHANGED turns
    <3>1. m \notin Texts /\ UNCHANGED <<queue, batch>>
      BY <1>0, <2>2 DEF Ways, turns
    <3> QED BY <2>1, <2>2, <3>1, MoveStep
  <2>3. CASE stage[m] = "link" /\ HandlesAlone(m)
    <3>1. m \notin Photos
      BY <1>0, <2>3 DEF Ways
    <3> QED BY <1>1, <2>1, <2>3, <3>1, AloneStep
  <2> QED BY <1>3, <2>2, <2>3 DEF SidecarHealthy
<1>4. CASE SidecarOffline(m) \/ DownloadFails(m) \/ Replies(m)
  <2>1. /\ stage[m] \in {"health", "link", "download", "reply"} /\ Goes(m, "over")
        /\ UNCHANGED <<files, bucket, opened, queue, batch, todo, held>>
    BY <1>4 DEF SidecarOffline, DownloadFails, Replies, buckets, turns, texts
  <2> QED BY <2>1, MoveStep
<1>5. CASE PhotoDownloaded(m)
  <2>1. m \in Photos /\ stage[m] = "download" /\ UNCHANGED <<queue, batch, todo, held>>
    BY <1>5 DEF PhotoDownloaded, turns, texts
  <2>2. CASE Overflows(m)
    <3>1. Goes(m, "over") /\ UNCHANGED <<files, bucket, opened>>
      BY <1>5, <2>2 DEF PhotoDownloaded, Overflow
    <3> QED BY <2>1, <3>1, MoveStep
  <2>3. CASE ~Overflows(m)
    <3>1. Add(m)
      BY <1>5, <2>3 DEF PhotoDownloaded
    <3> QED BY <2>1, <2>3, <3>1, AddStep
  <2> QED BY <2>2, <2>3
<1>6. CASE Downloaded(m)
  <2>1. /\ m \in Others /\ stage[m] = "download" /\ files' = files \cup {m} /\ HandlesAlone(m)
        /\ UNCHANGED <<bucket, opened, todo, held>>
    BY <1>6 DEF Downloaded, buckets, texts
  <2> QED BY <1>1, <2>1, AloneStep
<1>7. CASE ApologyRaises(m) \/ ReplyRaises(m)
  <2>1. /\ stage[m] \in {"download", "reply"} /\ Goes(m, "left")
        /\ UNCHANGED <<bucket, opened, queue, batch, todo, held>>
    BY <1>7 DEF ApologyRaises, ReplyRaises, buckets, turns, texts
  <2>2. files' = files \/ (files' = files \cup {m} /\ m \notin Texts)
    BY <1>0, <1>7 DEF ApologyRaises, ReplyRaises, StaysBehind, Ways
  <2> QED BY <2>1, <2>2, MoveStep
<1>8. CASE m \in Photos /\ TimerFires(m)
  BY <1>8, TimerStep
<1>9. CASE TurnEnds(m) \/ TurnRaises(m)
  <2>1. /\ Has(m) /\ queue' = Tail(queue) /\ batch' = [batch EXCEPT ![m] = {}]
        /\ held' = [n \in Texts |-> IF n = m THEN {} ELSE held[n]]
        /\ UNCHANGED <<bucket, opened, todo>>
    BY <1>9 DEF TurnEnds, TurnRaises, LetsGo, buckets
  <2>2. CASE TurnEnds(m)
    <3>1. Goes(m, "reply") /\ files' \subseteq files /\ \A x \in files' : x \notin batch[m]
      BY <2>2 DEF TurnEnds
    <3> QED BY <2>1, <3>1, LeaveStep
  <2>3. CASE TurnRaises(m)
    <3>1. Goes(m, "left") /\ files' \subseteq files /\ \A x \in files' : x \in batch[m] => m \notin Photos
      BY <2>3 DEF TurnRaises
    <3> QED BY <2>1, <3>1, LeaveStep
  <2> QED BY <1>9, <2>2, <2>3
<1> QED BY <1>2, <1>3, <1>4, <1>5, <1>6, <1>7, <1>8, <1>9 DEF Works

(* The types of the rest.                                                  *)
LEMMA RestStep == IInv /\ [Next]_vars => Rest'
<1> SUFFICES ASSUME IInv, [Next]_vars PROVE Rest'
  OBVIOUS
<1> USE BoundsAssumption, GroupAssumption
<1>0. Core /\ Rest /\ Placed
  BY DEF IInv, Placed
<1>1. ASSUME NEW g \in Groups, DoFlush(g), UNCHANGED <<up, faults, lives>>,
             waits' \in [Texts -> Msgs \cup {None}]
      PROVE  Rest'
  BY <1>0, <1>1 DEF DoFlush, Rest
<1>2. ASSUME UNCHANGED <<up, told, task, timers, waits>>, UNCHANGED bounds \/ Fault PROVE Rest'
  BY <1>0, <1>2 DEF Rest, bounds, Fault
<1>3. ASSUME NEW m \in Texts, NEW gs \in Seq(Groups), FlushForChat(m, gs),
             UNCHANGED <<up, faults, lives>>
      PROVE  Rest'
  <2>1. CASE waits' = [waits EXCEPT ![m] = None] /\ UNCHANGED buckets
    BY <1>0, <1>3, <2>1 DEF Rest, buckets
  <2>2. ASSUME NEW i \in FirstOpen(gs), DoFlush(gs[i]), waits' = [waits EXCEPT ![m] = Leader(gs[i])]
        PROVE  Rest'
    <3>1. gs[i] \in Groups /\ Open(gs[i])
      BY LenProperties, ElementOfSeq DEF FirstOpen
    <3>2. Leader(gs[i]) \in Msgs
      BY <1>0, <3>1, BucketIs DEF Msgs
    <3>3. waits' \in [Texts -> Msgs \cup {None}]
      BY <1>0, <2>2, <3>2 DEF Rest
    <3> QED BY <1>1, <1>3, <2>2, <3>1, <3>3
  <2> QED BY <1>3, <2>1, <2>2 DEF FlushForChat
<1>4. ASSUME NEW m \in Msgs, Arrive(m) PROVE Rest'
  <2>1. CASE m \in Texts /\ TextArrives(m)
    BY <1>0, <1>3, <2>1 DEF TextArrives, bounds, Placed, Registry
  <2>2. CASE Refused(m)
    BY <1>2, <2>2 DEF Refused, buckets, texts
  <2>3. CASE \E s \in {"download", "health"} : Begins(m, s)
    BY <1>2, <2>3 DEF Begins, buckets, texts
  <2> QED BY <1>4, <2>1, <2>2, <2>3
          DEF Arrive, PhotoArrives, DocumentArrives, VoiceArrives, AudioArrives, AudioDocumentArrives
<1>5. ASSUME NEW m \in Msgs, Works(m) PROVE Rest'
  <2>1. CASE m \in Texts /\ TextGoesOn(m)
    BY <1>0, <1>3, <2>1 DEF TextGoesOn, bounds, Core
  <2>2. CASE SidecarHealthy(m) \/ SidecarOffline(m) \/ Downloaded(m) \/ DownloadFails(m)
    BY <1>2, <2>2 DEF SidecarHealthy, SidecarOffline, Downloaded, DownloadFails, buckets, texts
  <2>3. CASE ApologyRaises(m) \/ Replies(m) \/ ReplyRaises(m)
    BY <1>2, <2>3 DEF ApologyRaises, Replies, ReplyRaises, buckets, texts
  <2>4. CASE TurnEnds(m) \/ TurnRaises(m)
    BY <1>2, <2>4 DEF TurnEnds, TurnRaises, LetsGo, buckets
  <2>5. CASE PhotoDownloaded(m)
    <3>1. m \in Photos /\ UNCHANGED <<up, waits, faults, lives>> /\ (Overflow(m) \/ Add(m))
      BY <2>5 DEF PhotoDownloaded, texts, bounds
    <3>2. told' \in [Groups -> BOOLEAN]
      BY <1>0, <3>1 DEF Overflow, Add, Rest
    <3>3. task' \in [Groups -> Photos \cup {None}] /\ timers' \subseteq Photos
      BY <1>0, <3>1 DEF Overflow, Add, Rest
    <3> QED BY <1>0, <3>1, <3>2, <3>3 DEF Rest
  <2>6. CASE m \in Photos /\ TimerFires(m)
    <3>1. GroupOf[m] \in Groups /\ UNCHANGED <<up, waits, faults, lives>>
      BY <2>6 DEF TimerFires, texts, bounds
    <3>2. waits' \in [Texts -> Msgs \cup {None}]
      BY <1>0, <3>1 DEF Rest
    <3>3. CASE Open(GroupOf[m])
      BY <1>1, <2>6, <3>1, <3>2, <3>3 DEF TimerFires
    <3>4. CASE ~Open(GroupOf[m])
      BY <1>0, <2>6, <3>1, <3>4 DEF TimerFires, Rest
    <3> QED BY <3>3, <3>4
  <2> QED BY <1>5, <2>1, <2>2, <2>3, <2>4, <2>5, <2>6 DEF Works
<1>6. CASE Stop
  BY <1>0, <1>6 DEF Stop, CancelAll, Rest, texts, bounds
<1>7. CASE Perish
  BY <1>0, <1>7 DEF Perish, Rest, bounds
<1>8. CASE Boot
  BY <1>0, <1>8 DEF Boot, Rest, buckets, texts
<1>9. CASE UNCHANGED vars
  BY <1>0, <1>9 DEF vars, Rest
<1> QED BY <1>4, <1>5, <1>6, <1>7, <1>8, <1>9 DEF Next, Working

LEMMA NextIInv == IInv /\ [Next]_vars => IInv'
<1> SUFFICES ASSUME IInv, [Next]_vars PROVE Placed'
  BY RestStep DEF IInv
<1>0. Placed
  BY DEF IInv
<1>1. CASE UNCHANGED vars
  BY <1>0, <1>1, IdleStep DEF vars
<1>2. CASE \E m \in Msgs : Arrive(m)
  BY <1>0, <1>2, ArrivesStep
<1>3. CASE Working
  BY <1>0, <1>3, WorksStep DEF Working
<1>4. CASE Stop \/ Perish \/ Boot
  BY <1>0, <1>4, StopStep, PerishStep, BootStep
<1> QED BY <1>1, <1>2, <1>3, <1>4 DEF Next

(* The inductive invariant, for any number of messages, albums and faults. *)
THEOREM IntakeInvariant == Spec => []IInv
<1> QED BY InitIInv, NextIInv, PTL DEF Spec

-----------------------------------------------------------------------------
(* What the invariant says of messages and uploads. *)

(* The types hold, buckets are those of their albums and never too full.   *)
THEOREM TypesHold == Spec => []TypeOK
<1> QED BY IntakeInvariant, TypesAre, PTL

LEMMA GoesOnceIs == IInv => PhotoGoesOnce
<1> SUFFICES ASSUME IInv PROVE PhotoGoesOnce
  OBVIOUS
<1>0. Core /\ AtLock /\ Apart
  BY DEF IInv, Placed
<1>1. ASSUME NEW p \in Photos
      PROVE  Cardinality({g \in Groups : p \in Members(g)} \cup {t \in Msgs : p \in batch[t]}) <= 1
  <2> DEFINE gs == {g \in Groups : p \in Members(g)}
             ts == {t \in Msgs : p \in batch[t]}
  <2>1. \A g, h \in gs : g = h
    BY <1>0 DEF Core
  <2>2. \A t, u \in ts : t = u
    BY <1>0 DEF Apart
  <2>3. gs # {} => ts = {}
    <3> SUFFICES ASSUME NEW g \in gs, NEW t \in ts PROVE FALSE
      OBVIOUS
    <3>1. stage[p] = "bucket"
      BY <1>0 DEF Core
    <3>2. p # t => stage[p] = "over"
      BY <1>0 DEF AtLock
    <3>3. stage[t] = "lock"
      BY <1>0 DEF AtLock
    <3> QED BY <3>1, <3>2, <3>3
  <2> HIDE DEF gs, ts
  <2>4. gs \cup ts = {} \/ \E x : gs \cup ts = {x}
    <3>1. CASE gs = {} /\ ts = {}
      BY <3>1
    <3>2. CASE gs # {}
      <4>1. PICK g : g \in gs
        BY <3>2
      <4>2. gs \cup ts = {g}
        BY <2>1, <2>3, <4>1
      <4> QED BY <4>2
    <3>3. CASE ts # {}
      <4>1. PICK t : t \in ts
        BY <3>3
      <4>2. gs \cup ts = {t}
        BY <2>2, <2>3, <4>1
      <4> QED BY <4>2
    <3> QED BY <3>1, <3>2, <3>3
  <2>5. Cardinality({}) <= 1 /\ \A x : Cardinality({x}) <= 1
    BY FS_EmptySet, FS_Singleton
  <2>6. Cardinality(gs \cup ts) <= 1
    BY <2>4, <2>5
  <2> QED BY <2>6 DEF gs, ts
<1>2. \A t \in Photos : Cardinality(batch[t]) <= MaxPhotos
  BY <1>0 DEF AtLock, Msgs
<1>3. \A i, j \in DOMAIN queue : queue[i] = queue[j] => i = j
  BY <1>0, LenProperties DEF Core, AtLock, Distinct
<1> QED BY <1>1, <1>2, <1>3 DEF PhotoGoesOnce

(* A photo is in one bucket or in one turn, and a turn is at the lock once. *)
THEOREM PhotosGoOnce == Spec => []PhotoGoesOnce
<1> QED BY IntakeInvariant, GoesOnceIs, PTL

LEMMA HeldIs == IInv => UploadIsHeld
<1> SUFFICES ASSUME IInv, NEW m \in files PROVE InHands(m) \/ stage[m] = "left"
  BY DEF UploadIsHeld
<1>0. AtLock /\ Uploads
  BY DEF IInv, Placed
<1>1. ASSUME NEW t \in Msgs, m \in batch[t] PROVE InHands(m)
  BY <1>0, <1>1 DEF AtLock, InHands
<1> QED BY <1>0, <1>1 DEF Uploads, InHands

(* An upload on the disk is in somebody's hands, or is left to the sweep.  *)
THEOREM UploadsAreHeld == Spec => []UploadIsHeld
<1> QED BY IntakeInvariant, HeldIs, PTL

LEMMA PhotosFirst == IInv => HeldPhotosFirst
<1> SUFFICES ASSUME IInv, NEW m \in Texts, Has(m), NEW p \in held[m], Pending(p) PROVE FALSE
  BY DEF HeldPhotosFirst
<1>0. Core /\ AtLock /\ TextsWait /\ m \in Msgs /\ Photos \subseteq Msgs
  BY DEF IInv, Placed, Msgs
<1>1. Len(queue) \in Nat /\ 1 \in 1..Len(queue) /\ queue[1] = m
  BY <1>0, LenProperties, EmptySeq DEF Core, Has
<1>2. stage[m] = "lock"
  BY <1>0, <1>1 DEF AtLock, In
<1>3. Ahead(m, p)
  BY <1>0, <1>2 DEF TextsWait
<1>4. PICK t \in Photos : p \in batch[t] /\ stage[t] = "lock"
  BY <1>2, <1>3 DEF Pending, Ahead
<1>5. PICK i \in 1..Len(queue) : queue[i] = t
  BY <1>0, <1>4 DEF AtLock, In
<1>6. i < 1
  BY <1>1, <1>3, <1>4, <1>5 DEF Ahead
<1> QED BY <1>1, <1>5, <1>6

(* When the turn of a text runs, the photos it found have had theirs.      *)
THEOREM HeldPhotosGoFirst == Spec => []HeldPhotosFirst
<1> QED BY IntakeInvariant, PhotosFirst, PTL

-----------------------------------------------------------------------------
(* Nobody waits for what will not come.  What a message waits for, and     *)
(* what its album does, is part of the invariant this takes.               *)

(* The flush_task of a bucket belongs to a photo of its album and sleeps   *)
(* as long as the bucket is open.                                          *)
Timed ==
  \A g \in Groups :
    /\ task[g] # None => task[g] \in Photos /\ GroupOf[task[g]] = g
    /\ Open(g) => task[g] # None /\ task[g] \in timers

(* A message that has come to the lock goes nowhere but on from there.     *)
Late == {"lock", "reply"} \cup Over

(* A text waits for a turn that has been queued.                           *)
Expected(m) == waits[m] \in Msgs /\ stage[waits[m]] \in Late
Waits == \A m \in Msgs : stage[m] = "flush" => m \in Texts /\ Expected(m)

(* What a step does to the two: who is late stays late, and who waits has  *)
(* waited before, or waits for a turn that has just been queued.           *)
Onward ==
  /\ \A x \in Msgs : stage[x] \in Late => stage'[x] \in Late
  /\ \A m \in Msgs : stage'[m] = "flush" =>
       \/ stage[m] = "flush" /\ (m \in Texts => waits'[m] = waits[m])
       \/ m \in Texts /\ waits'[m] \in Msgs /\ stage'[waits'[m]] = "lock"

LEMMA OnwardIs == Waits /\ Onward => Waits'
  BY DEF Waits, Onward, Expected, Late

LEMMA GoesOnward ==
  ASSUME Core, NEW m \in Msgs, NEW s, Goes(m, s), UNCHANGED waits, s # "flush",
         stage[m] \in Late => s \in Late
  PROVE  Onward
<1>1. stage'[m] = s /\ \A x \in Msgs : x # m => stage'[x] = stage[x]
  BY DEF Goes, Core
<1> QED BY <1>1 DEF Onward, Msgs

(* Whoever flushes a bucket, its first photo goes to the lock.             *)
LEMMA FlushOnward ==
  ASSUME Core, NEW g \in Groups, Open(g), NEW W \in SUBSET Texts,
         \A n \in W : stage[n] \in {"new", "flush"} /\ waits'[n] = Leader(g),
         \A n \in Texts \ W : waits'[n] = waits[n],
         \A x \in Msgs : stage'[x] = IF x \in W THEN "flush" ELSE AfterFlush(g)[x]
  PROVE  Onward
<1>1. /\ Leader(g) \in Members(g) /\ Members(g) \subseteq Photos
      /\ \A p \in Members(g) : stage[p] = "bucket"
  BY BucketIs
<1>2. Leader(g) \in Msgs /\ Leader(g) \notin W
  BY <1>1, NamesAssumption DEF Msgs
<1>3. stage'[Leader(g)] = "lock"
  BY <1>2 DEF AfterFlush
<1>4. ASSUME NEW x \in Msgs, stage[x] \in Late PROVE stage'[x] \in Late
  <2>1. x \notin W /\ x \notin Members(g)
    BY <1>1, <1>4 DEF Late, Over
  <2> QED BY <1>1, <1>4, <2>1 DEF AfterFlush
<1>5. ASSUME NEW m \in Msgs, stage'[m] = "flush"
      PROVE  \/ stage[m] = "flush" /\ (m \in Texts => waits'[m] = waits[m])
             \/ m \in Texts /\ waits'[m] \in Msgs /\ stage'[waits'[m]] = "lock"
  <2>1. CASE m \in W
    BY <1>2, <1>3, <2>1
  <2>2. CASE m \notin W
    BY <1>5, <2>2 DEF AfterFlush, Msgs
  <2> QED BY <2>1, <2>2
<1> QED BY <1>4, <1>5 DEF Onward

LEMMA ChatOnward ==
  ASSUME Core, NEW m \in Texts, stage[m] \in {"new", "flush"},
         NEW gs \in Seq(Groups), FlushForChat(m, gs), waits \in [Texts -> Msgs \cup {None}]
  PROVE  Onward
<1>0. m \in Msgs
  BY DEF Msgs
<1>1. CASE Answer(m) /\ waits' = [waits EXCEPT ![m] = None]
  <2>1. PICK s \in {"lock", "link"} : Goes(m, s)
    BY <1>1 DEF Answer, HandlesAlone, UrlNext
  <2>2. /\ stage'[m] = s /\ \A x \in Msgs : x # m => stage'[x] = stage[x]
        /\ \A x \in Texts : x # m => waits'[x] = waits[x]
    BY <1>0, <1>1, <2>1 DEF Goes, Core
  <2> QED BY <1>0, <2>2 DEF Onward, Late, Over, Msgs
<1>2. ASSUME NEW i \in FirstOpen(gs), stage' = [AfterFlush(gs[i]) EXCEPT ![m] = "flush"],
             waits' = [waits EXCEPT ![m] = Leader(gs[i])]
      PROVE  Onward
  <2> DEFINE W == {m}
  <2>1. gs[i] \in Groups /\ Open(gs[i])
    BY LenProperties, ElementOfSeq DEF FirstOpen
  <2>2. /\ W \in SUBSET Texts
        /\ \A n \in W : stage[n] \in {"new", "flush"} /\ waits'[n] = Leader(gs[i])
        /\ \A n \in Texts \ W : waits'[n] = waits[n]
        /\ \A x \in Msgs : stage'[x] = IF x \in W THEN "flush" ELSE AfterFlush(gs[i])[x]
    BY <1>0, <1>2 DEF AfterFlush
  <2> HIDE DEF W
  <2> QED BY <2>1, <2>2, FlushOnward
<1> QED BY <1>1, <1>2 DEF FlushForChat

LEMMA ArrivesOnward ==
  ASSUME Placed, Rest, NEW m \in Msgs, Arrive(m)
  PROVE  Onward
<1>0. Core /\ waits \in [Texts -> Msgs \cup {None}] /\ opened \in Seq(Groups)
  BY DEF Placed, Rest, Registry
<1>1. CASE m \in Texts /\ TextArrives(m)
  BY <1>0, <1>1, ChatOnward DEF TextArrives, New
<1>2. CASE Refused(m)
  BY <1>0, <1>2, GoesOnward DEF Refused, New, Late, Over, texts
<1>3. ASSUME NEW s \in {"download", "health"}, Begins(m, s) PROVE Onward
  BY <1>0, <1>3, GoesOnward DEF Begins, New, Late, Over, texts
<1> QED BY <1>1, <1>2, <1>3
        DEF Arrive, PhotoArrives, DocumentArrives, VoiceArrives, AudioArrives, AudioDocumentArrives

LEMMA WorksOnward ==
  ASSUME Placed, Rest, NEW m \in Msgs, Works(m)
  PROVE  Onward
<1>0. Core /\ waits \in [Texts -> Msgs \cup {None}] /\ Photos \subseteq Msgs /\ Photos \cap Texts = {}
  BY NamesAssumption DEF Placed, Rest, Msgs
<1>1. CASE m \in Texts /\ TextGoesOn(m)
  BY <1>0, <1>1, ChatOnward DEF TextGoesOn, Core
<1>2. CASE SidecarHealthy(m) \/ SidecarOffline(m)
  BY <1>0, <1>2, GoesOnward DEF SidecarHealthy, SidecarOffline, HandlesAlone, texts, Late, Over
<1>3. CASE DownloadFails(m) \/ ApologyRaises(m) \/ Downloaded(m)
  BY <1>0, <1>3, GoesOnward DEF DownloadFails, ApologyRaises, Downloaded, HandlesAlone, texts, Late, Over
<1>4. CASE PhotoDownloaded(m)
  BY <1>0, <1>4, GoesOnward DEF PhotoDownloaded, Overflow, Add, texts, Late, Over
<1>5. CASE m \in Photos /\ TimerFires(m)
  <2> DEFINE g == GroupOf[m]
  <2>1. CASE Open(g)
    <3>1. g \in Groups /\ stage' = AfterFlush(g) /\ waits' = waits
      BY <1>5, <2>1, GroupAssumption DEF TimerFires, texts
    <3> DEFINE W == {}
    <3>2. /\ W \in SUBSET Texts
          /\ \A n \in W : stage[n] \in {"new", "flush"} /\ waits'[n] = Leader(g)
          /\ \A n \in Texts \ W : waits'[n] = waits[n]
          /\ \A x \in Msgs : stage'[x] = IF x \in W THEN "flush" ELSE AfterFlush(g)[x]
      BY <3>1
    <3> HIDE DEF W, g
    <3> QED BY <1>0, <2>1, <3>1, <3>2, FlushOnward
  <2>2. CASE ~Open(g)
    BY <1>5, <2>2 DEF TimerFires, texts, Onward, Msgs
  <2> QED BY <2>1, <2>2
<1>6. CASE TurnEnds(m) \/ TurnRaises(m)
  BY <1>0, <1>6, GoesOnward DEF TurnEnds, TurnRaises, LetsGo, Late, Over
<1>7. CASE Replies(m) \/ ReplyRaises(m)
  BY <1>0, <1>7, GoesOnward DEF Replies, ReplyRaises, texts, Late, Over
<1> QED BY <1>1, <1>2, <1>3, <1>4, <1>5, <1>6, <1>7 DEF Works

LEMMA WaitsStep == IInv /\ Waits /\ [Next]_vars => Waits'
<1> SUFFICES ASSUME IInv, Waits, [Next]_vars PROVE Waits'
  OBVIOUS
<1>0. Placed /\ Rest /\ Core
  BY DEF IInv, Placed
<1>1. CASE \E m \in Msgs : Arrive(m)
  BY <1>0, <1>1, ArrivesOnward, OnwardIs
<1>2. CASE Working
  BY <1>0, <1>2, WorksOnward, OnwardIs DEF Working
<1>3. CASE Stop
  <2>1. Onward
    BY <1>3 DEF Stop, texts, Onward, Late, Over, Msgs
  <2> QED BY <2>1, OnwardIs
<1>4. CASE Perish
  <2>1. Onward
    BY <1>0, <1>4 DEF Perish, Onward, Late, Over, Moving, Msgs, Core
  <2> QED BY <2>1, OnwardIs
<1>5. CASE Boot \/ UNCHANGED vars
  BY <1>5 DEF Boot, vars, texts, Waits, Expected
<1> QED BY <1>1, <1>2, <1>3, <1>4, <1>5 DEF Next

(* A debounce task that ends takes no other with it.                       *)
LEMMA FlushTimed ==
  ASSUME Core, Rest, Timed, NEW g \in Groups, DoFlush(g)
  PROVE  Timed'
<1>1. /\ bucket'[g] = <<>> /\ task'[g] = None
      /\ \A h \in Groups : h # g => bucket'[h] = bucket[h] /\ task'[h] = task[h]
      /\ timers' = timers \ {task[g]}
  BY DEF DoFlush, Core, Rest
<1>2. \A h \in Groups : h # g /\ task[h] # None => task[h] # task[g]
  BY DEF Timed
<1> QED BY <1>1, <1>2 DEF Timed, Open

LEMMA AddTimed ==
  ASSUME Core, Rest, Timed, NEW p \in Photos, Add(p)
  PROVE  Timed'
<1> DEFINE g == GroupOf[p]
<1>0. g \in Groups /\ p # None
  BY GroupAssumption, NamesAssumption DEF Msgs
<1>1. /\ task'[g] = p
      /\ \A h \in Groups : h # g => bucket'[h] = bucket[h] /\ task'[h] = task[h]
      /\ timers' = (timers \ {task[g]}) \cup {p}
  BY <1>0 DEF Add, Core, Rest
<1>2. \A h \in Groups : h # g /\ task[h] # None => task[h] # task[g]
  BY <1>0 DEF Timed
<1> QED BY <1>0, <1>1, <1>2 DEF Timed, Open

LEMMA ChatTimed ==
  ASSUME Core, Rest, Timed, NEW m, NEW gs \in Seq(Groups), FlushForChat(m, gs)
  PROVE  Timed'
<1>1. CASE UNCHANGED buckets
  BY <1>1 DEF buckets, Timed, Open
<1>2. ASSUME NEW i \in FirstOpen(gs), DoFlush(gs[i]) PROVE Timed'
  <2>1. gs[i] \in Groups
    BY LenProperties, ElementOfSeq DEF FirstOpen
  <2> QED BY <1>2, <2>1, FlushTimed
<1> QED BY <1>1, <1>2 DEF FlushForChat

LEMMA TimedStep == IInv /\ Timed /\ [Next]_vars => Timed'
<1> SUFFICES ASSUME IInv, Timed, [Next]_vars PROVE Timed'
  OBVIOUS
<1>0. Core /\ Rest /\ opened \in Seq(Groups) /\ todo \in [Texts -> Seq(Groups)]
  BY DEF IInv, Placed, Core, Registry
<1>1. CASE UNCHANGED <<bucket, task, timers>>
  BY <1>1 DEF Timed, Open
<1>2. ASSUME NEW m \in Texts, TextArrives(m) \/ TextGoesOn(m) PROVE Timed'
  BY <1>0, <1>2, ChatTimed DEF TextArrives, TextGoesOn
<1>3. ASSUME NEW p \in Photos, Add(p) PROVE Timed'
  BY <1>0, <1>3, AddTimed
<1>4. ASSUME NEW p \in Photos, TimerFires(p) PROVE Timed'
  <2> DEFINE g == GroupOf[p]
  <2>1. g \in Groups
    BY GroupAssumption
  <2>2. CASE Open(g)
    BY <1>0, <1>4, <2>1, <2>2, FlushTimed DEF TimerFires
  <2>3. CASE ~Open(g)
    <3>1. UNCHANGED <<bucket, task>> /\ timers' = timers \ {p}
      BY <1>4, <2>3 DEF TimerFires
    <3>2. \A h \in Groups : Open(h) => task[h] # p
      BY <2>3 DEF Timed
    <3> QED BY <3>1, <3>2 DEF Timed, Open
  <2> QED BY <2>2, <2>3
<1>5. CASE Stop \/ Perish
  <2>1. \A g \in Groups : bucket'[g] = <<>> /\ task'[g] = None
    BY <1>5 DEF Stop, CancelAll, Perish
  <2> QED BY <2>1 DEF Timed, Open
<1>6. ASSUME NEW m \in Msgs, Arrive(m) PROVE Timed'
  BY <1>1, <1>2, <1>6
     DEF Arrive, Refused, PhotoArrives, DocumentArrives, VoiceArrives, AudioArrives,
         AudioDocumentArrives, Begins, buckets
<1>7. ASSUME NEW m \in Msgs, Works(m) PROVE Timed'
  <2>1. CASE PhotoDownloaded(m)
    BY <1>1, <1>3, <2>1 DEF PhotoDownloaded, Overflow
  <2> QED BY <1>1, <1>2, <1>4, <1>7, <2>1
          DEF Works, SidecarHealthy, SidecarOffline, Downloaded, DownloadFails, ApologyRaises,
              TurnEnds, TurnRaises, Replies, ReplyRaises, LetsGo, buckets
<1>8. CASE Boot \/ UNCHANGED vars
  BY <1>1, <1>8 DEF Boot, vars, buckets
<1> QED BY <1>5, <1>6, <1>7, <1>8 DEF Next, Working

(* As long as a message is on its way some task can go on: its own, the    *)
(* debounce task of its bucket, that of the first turn at the lock, or     *)
(* that of the answer it waits for.                                        *)
LEMMA ReadyIs == IInv /\ Timed /\ Waits => SomebodyIsReady
<1> SUFFICES ASSUME IInv, Timed, Waits, NEW m \in Msgs, stage[m] \in Moving
             PROVE  \E x \in Msgs : Ready(x)
  BY DEF SomebodyIsReady
<1>0. Core /\ Registry /\ AtLock /\ Photos \subseteq Msgs
  BY DEF IInv, Placed, Msgs
<1>1. ASSUME NEW t \in Msgs, stage[t] = "lock" PROVE \E x \in Msgs : Ready(x)
  <2>1. In(queue, t) /\ queue \in Seq(Msgs)
    BY <1>0, <1>1 DEF AtLock, Core
  <2>2. queue # <<>> /\ queue[1] \in Msgs
    BY <2>1, LenProperties, ElementOfSeq, EmptySeq DEF In
  <2> QED BY <2>2 DEF Ready, Has
<1>2. CASE stage[m] \in {"download", "health", "link", "reply"}
  BY <1>2 DEF Ready
<1>3. CASE stage[m] = "bucket"
  <2>1. m \in Photos /\ GroupOf[m] \in Groups /\ Open(GroupOf[m])
    BY <1>0, <1>3, ClosedIs, GroupAssumption DEF Registry
  <2> QED BY <1>0, <2>1 DEF Timed, Ready
<1>4. CASE stage[m] = "flush"
  <2>1. waits[m] \in Msgs /\ stage[waits[m]] \in Late
    BY <1>4 DEF Waits, Expected
  <2>2. CASE stage[waits[m]] = "lock"
    BY <1>1, <2>1, <2>2
  <2> QED BY <1>4, <2>1, <2>2 DEF Late, Ready
<1> QED BY <1>1, <1>2, <1>3, <1>4 DEF Moving

THEOREM SomebodyGoesOn == Spec => []SomebodyIsReady
<1>1. Init => Timed /\ Waits
  BY DEF Init, Timed, Open, Waits, Moving
<1>2. Spec => [](Timed /\ Waits)
  BY <1>1, TimedStep, WaitsStep, IntakeInvariant, PTL DEF Spec
<1> QED BY <1>2, ReadyIs, IntakeInvariant, PTL

-----------------------------------------------------------------------------
(* Intake implements Inbox.  A message is due while it is part of a turn.  *)
Asked(m) == \E t \in Msgs : m \in batch[t]
Line == [i \in DOMAIN queue |-> batch[queue[i]]]

LEMMA FateIs ==
  ASSUME Placed, NEW m \in Msgs
  PROVE  /\ Fate(m) = "due" <=> Asked(m)
         /\ Fate(m) = "fetched" <=> stage[m] = "bucket"
         /\ Fate(m) = "new" <=> stage[m] \in {"new", "download", "health", "link", "flush"}
         /\ Fate(m) = "gone" <=> stage[m] \in Over \cup {"reply"} /\ ~Asked(m)
         /\ Asked(m) => stage[m] \in {"lock", "over"}
         /\ stage[m] = "lock" => Asked(m)
<1>1. Asked(m) => stage[m] \in {"lock", "over"}
  BY DEF Asked, Placed, AtLock
<1>2. stage[m] = "lock" => Asked(m)
  BY DEF Asked, Placed, AtLock
<1>3. stage[m] \in {"new"} \cup Moving \cup Over
  BY DEF Placed, Core
<1> QED BY <1>1, <1>2, <1>3 DEF Fate, Asked, Moving, Over

(* What a step that moves some messages looks like to the owner.           *)
LEMMA BecomeIs ==
  ASSUME NEW ms \in SUBSET Msgs, NEW f,
         \A m \in Msgs : Fate(m)' = IF m \in ms THEN f ELSE Fate(m)
  PROVE  Ask!Become(ms, f)
  BY DEF Ask!Become

(* The line of turns follows the queue at the lock.                        *)
LEMMA LineStays ==
  ASSUME Core, queue' = queue, \A i \in DOMAIN queue : batch'[queue[i]] = batch[queue[i]]
  PROVE  Line' = Line
  BY DEF Line

LEMMA LineGrows ==
  ASSUME Core, NEW m \in Msgs, NEW ms \in SUBSET Msgs, ~In(queue, m), Enqueue(m, ms)
  PROVE  Line' = Append(Line, ms)
<1> DEFINE n == Len(queue)
<1>1. /\ queue \in Seq(Msgs) /\ n \in Nat /\ DOMAIN queue = 1..n
      /\ \A i \in 1..n : queue[i] \in Msgs /\ queue[i] # m
  BY LenProperties, ElementOfSeq DEF Core, In
<1>2. /\ DOMAIN queue' = 1..(n + 1) /\ queue'[n + 1] = m
      /\ \A i \in 1..n : queue'[i] = queue[i]
  <2>1. queue' = Append(queue, m)
    BY DEF Enqueue
  <2> QED BY <1>1, <2>1, AppendProperties, LenProperties
<1>3. batch'[m] = ms /\ \A t \in Msgs : t # m => batch'[t] = batch[t]
  BY DEF Enqueue, Core
<1>4. Line \in Seq(SUBSET Msgs) /\ Len(Line) = n /\ \A i \in 1..n : Line[i] = batch[queue[i]]
  <2>1. Line = [i \in 1..n |-> batch[queue[i]]] /\ \A i \in 1..n : batch[queue[i]] \in SUBSET Msgs
    BY <1>1 DEF Line, Core
  <2> QED BY <1>1, <2>1, IsASeq
<1>5. Line' = [i \in 1..(n + 1) |-> IF i = n + 1 THEN ms ELSE Line[i]]
  BY <1>1, <1>2, <1>3, <1>4 DEF Line
<1>6. Append(Line, ms) = [i \in 1..(n + 1) |-> IF i = n + 1 THEN ms ELSE Line[i]]
  <2> DEFINE A == Append(Line, ms)
  <2>1. /\ A \in Seq(SUBSET Msgs) /\ Len(A) = n + 1 /\ A[n + 1] = ms
        /\ \A i \in 1..n : A[i] = Line[i]
    BY <1>1, <1>4, AppendProperties
  <2>2. A = [i \in 1..Len(A) |-> A[i]]
    BY <2>1, LenProperties
  <2> HIDE DEF A
  <2>3. \A i \in 1..(n + 1) : A[i] = IF i = n + 1 THEN ms ELSE Line[i]
    BY <1>1, <2>1
  <2> QED BY <2>1, <2>2, <2>3 DEF A
<1> QED BY <1>5, <1>6

LEMMA LineMoves ==
  ASSUME Core, Distinct(queue), queue # <<>>, queue' = Tail(queue),
         batch' = [batch EXCEPT ![queue[1]] = {}]
  PROVE  Line # <<>> /\ Head(Line) = batch[queue[1]] /\ Line' = Tail(Line)
<1> DEFINE n == Len(queue)
<1>1. /\ queue \in Seq(Msgs) /\ n \in Nat /\ n > 0 /\ DOMAIN queue = 1..n
      /\ \A i \in 1..n : queue[i] \in Msgs
  BY LenProperties, ElementOfSeq, EmptySeq DEF Core
<1>2. /\ DOMAIN queue' = 1..(n - 1) /\ \A i \in 1..(n - 1) : queue'[i] = queue[i + 1]
  BY <1>1, TailIs, LenProperties
<1>3. \A i \in 1..n : i # 1 => batch'[queue[i]] = batch[queue[i]]
  <2>1. \A i \in 1..n : i # 1 => queue[i] # queue[1]
    BY <1>1 DEF Distinct
  <2> QED BY <1>1, <2>1 DEF Core
<1>4. Line \in Seq(SUBSET Msgs) /\ Len(Line) = n /\ \A i \in 1..n : Line[i] = batch[queue[i]]
  <2>1. Line = [i \in 1..n |-> batch[queue[i]]] /\ \A i \in 1..n : batch[queue[i]] \in SUBSET Msgs
    BY <1>1 DEF Line, Core
  <2> QED BY <1>1, <2>1, IsASeq
<1>5. Line' = [i \in 1..(n - 1) |-> Line[i + 1]]
  <2>1. \A i \in 1..(n - 1) : i + 1 \in 1..n /\ i + 1 # 1
    BY <1>1
  <2> QED BY <1>2, <1>3, <1>4, <2>1 DEF Line
<1>6. Tail(Line) = [i \in 1..(n - 1) |-> Line[i + 1]] /\ Head(Line) = Line[1] /\ Line # <<>>
  <2> DEFINE A == Tail(Line)
  <2>1. Line # <<>> /\ Head(Line) = Line[1]
    BY <1>1, <1>4, EmptySeq, HeadTailProperties
  <2>2. A \in Seq(SUBSET Msgs) /\ Len(A) = n - 1 /\ \A i \in 1..(n - 1) : A[i] = Line[i + 1]
    BY <1>4, <2>1, HeadTailProperties
  <2>3. A = [i \in 1..Len(A) |-> A[i]]
    BY <2>2, LenProperties
  <2> HIDE DEF A
  <2> QED BY <2>1, <2>2, <2>3 DEF A
<1> QED BY <1>1, <1>4, <1>5, <1>6

(* One message goes on, and no turn has anything to do with it.            *)
LEMMA GoesIs ==
  ASSUME Placed, NEW m \in Msgs, NEW s, Goes(m, s), UNCHANGED <<queue, batch>>, ~Asked(m)
  PROVE  /\ Line' = Line
         /\ \A x \in Msgs : x # m => Fate(x)' = Fate(x)
         /\ s \in Over \cup {"reply"} => Fate(m)' = "gone"
         /\ s = "bucket" => Fate(m)' = "fetched"
         /\ s \in {"download", "health", "link", "flush"} => Fate(m)' = "new"
<1>1. Line' = Line
  BY LineStays DEF Placed
<1>2. stage'[m] = s /\ \A x \in Msgs : x # m => stage'[x] = stage[x]
  BY DEF Goes, Placed, Core
<1> QED BY <1>1, <1>2 DEF Fate, Asked, Over

LEMMA DropsIs ==
  ASSUME Placed, NEW m \in Msgs, NEW s \in Over, Goes(m, s), UNCHANGED <<queue, batch>>,
         stage[m] \in {"new", "download", "health", "link", "flush"}
  PROVE  Ask!Next
<1>1. Fate(m) = "new" /\ ~Asked(m)
  BY FateIs
<1>2. /\ Line' = Line /\ Fate(m)' = "gone"
      /\ \A x \in Msgs : x # m => Fate(x)' = Fate(x)
  BY <1>1, GoesIs
<1>3. Ask!Become({m}, "gone")
  BY <1>2, BecomeIs
<1>4. Ask!Drop(m)
  BY <1>1, <1>2, <1>3 DEF Ask!Drop, Line
<1> QED BY <1>4 DEF Ask!Next

LEMMA StaysIs ==
  ASSUME Placed, NEW m \in Msgs, NEW s, Goes(m, s), UNCHANGED <<queue, batch>>,
         \/ /\ stage[m] \in {"new", "download", "health", "link", "flush"}
            /\ s \in {"download", "health", "link", "flush"}
         \/ stage[m] = "reply" /\ s \in Over
  PROVE  UNCHANGED Ask!vars
<1>1. ~Asked(m) /\ Fate(m) = IF stage[m] = "reply" THEN "gone" ELSE "new"
  BY FateIs
<1>2. Line' = Line /\ \A x \in Msgs : Fate(x)' = Fate(x)
  BY <1>1, GoesIs
<1> QED BY <1>2 DEF Ask!vars, Line

LEMMA JoinsAlone ==
  ASSUME Placed, NEW m \in Msgs \ Photos, HandlesAlone(m),
         stage[m] \in {"new", "download", "health", "link", "flush"}
  PROVE  Ask!Next
<1>1. Fate(m) = "new" /\ ~Asked(m) /\ ~In(queue, m) /\ Core
  BY FateIs DEF Placed, AtLock
<1>2. /\ batch'[m] = {m} /\ stage'[m] = "lock" /\ batch[m] = {}
      /\ \A x \in Msgs : x # m => stage'[x] = stage[x] /\ batch'[x] = batch[x]
  BY <1>1 DEF HandlesAlone, Goes, Enqueue, Core, Placed, AtLock
<1>3. \A x \in Msgs : Fate(x)' = IF x \in {m} THEN "due" ELSE Fate(x)
  BY <1>2 DEF Fate
<1>4. Ask!Become({m}, "due")
  BY <1>3, BecomeIs
<1>5. Line' = Append(Line, {m})
  <2>1. {m} \in SUBSET Msgs /\ Enqueue(m, {m})
    BY DEF HandlesAlone
  <2> QED BY <1>1, <2>1, LineGrows
<1>6. Ask!JoinAlone(m)
  BY <1>1, <1>4, <1>5 DEF Ask!JoinAlone, Ask!Join, Line
<1> QED BY <1>6 DEF Ask!Next

(* A bucket goes into a turn as a whole, whoever flushes it.               *)
LEMMA JoinsAsAlbum ==
  ASSUME Placed, NEW g \in Groups, Open(g), DoFlush(g), NEW W \in SUBSET Texts,
         \A n \in W : stage[n] \in {"new", "flush"},
         \A x \in Msgs : stage'[x] = IF x \in W THEN "flush" ELSE AfterFlush(g)[x]
  PROVE  Ask!Next
<1> DEFINE L == Leader(g)
           ms == Members(g)
<1>0. Core /\ Registry /\ AtLock /\ Photos \subseteq Msgs /\ Photos \cap Texts = {}
  BY NamesAssumption DEF Placed, Msgs
<1>1. /\ L \in ms /\ ms \subseteq Photos /\ \A p \in ms : GroupOf[p] = g /\ stage[p] = "bucket"
  BY <1>0, BucketIs
<1>2. /\ Enqueue(L, ms) /\ \A x \in Msgs :
           stage'[x] = IF x \in W THEN "flush"
                       ELSE IF x = L THEN "lock" ELSE IF x \in ms THEN "over" ELSE stage[x]
  BY DEF DoFlush, AfterFlush
<1>3. ms = Ask!Album(g)
  <2>1. \A p \in Photos : Fate(p) = "fetched" <=> stage[p] = "bucket"
    BY <1>0, FateIs
  <2>2. \A p \in Photos : stage[p] = "bucket" /\ GroupOf[p] = g => p \in ms
    BY <1>0 DEF Registry
  <2> QED BY <1>0, <1>1, <2>1, <2>2 DEF Ask!Album
<1> HIDE DEF L, ms
<1>4. /\ batch'[L] = ms /\ batch[L] = {} /\ ~In(queue, L)
      /\ \A t \in Msgs : t # L => batch'[t] = batch[t]
  BY <1>0, <1>1, <1>2 DEF Enqueue, Core, AtLock
<1>5. \A x \in Msgs : Asked(x)' <=> Asked(x) \/ x \in ms
  BY <1>0, <1>1, <1>4 DEF Asked
<1>6. \A x \in Msgs : Fate(x)' = IF x \in ms THEN "due" ELSE Fate(x)
  <2>1. ASSUME NEW x \in ms PROVE x \in Msgs /\ Fate(x)' = "due"
    BY <1>0, <1>1, <1>2, <1>5, <2>1 DEF Fate, Asked, Over
  <2>2. ASSUME NEW x \in W PROVE Fate(x)' = Fate(x)
    BY <1>0, <1>2, <2>2 DEF Fate, Over, Msgs
  <2>3. ASSUME NEW x \in Msgs, x \notin ms, x \notin W PROVE Fate(x)' = Fate(x)
    <3>1. stage'[x] = stage[x]
      BY <1>1, <1>2, <2>3
    <3> QED BY <1>5, <2>3, <3>1 DEF Fate, Asked
  <2> QED BY <1>0, <1>1, <2>1, <2>2, <2>3
<1>7. Ask!Become(ms, "due")
  BY <1>0, <1>1, <1>6, BecomeIs
<1>8. Line' = Append(Line, ms)
  BY <1>0, <1>1, <1>2, <1>4, LineGrows
<1>9. Ask!JoinAlbum(g)
  BY <1>1, <1>3, <1>7, <1>8 DEF Ask!JoinAlbum, Ask!Join, Line
<1> QED BY <1>9 DEF Ask!Next

(* The turn in front has ended or has raised.                              *)
LEMMA ServesIs ==
  ASSUME Placed, NEW t \in Msgs, Has(t), NEW s \in {"reply", "left"}, Goes(t, s),
         queue' = Tail(queue), batch' = [batch EXCEPT ![t] = {}]
  PROVE  Ask!Next
<1>0. Core /\ AtLock /\ Apart
  BY DEF Placed
<1>1. queue # <<>> /\ queue[1] = t
  BY DEF Has
<1>2. Line # <<>> /\ Head(Line) = batch[t] /\ Line' = Tail(Line)
  BY <1>0, <1>1, LineMoves DEF AtLock
<1>3. /\ batch'[t] = {} /\ \A u \in Msgs : u # t => batch'[u] = batch[u]
      /\ stage'[t] = s /\ \A x \in Msgs : x # t => stage'[x] = stage[x]
  BY <1>0 DEF Goes, Core
<1>4. stage[t] = "lock" /\ t \in batch[t] /\ batch[t] \subseteq Msgs
  <2>1. In(queue, t)
    BY <1>0, <1>1, LenProperties, EmptySeq DEF Core, In
  <2> QED BY <1>0, <2>1 DEF AtLock, Core
<1>5. \A x \in Msgs : Asked(x)' <=> Asked(x) /\ x \notin batch[t]
  BY <1>0, <1>3 DEF Asked, Apart
<1>6. \A x \in Msgs : Fate(x)' = IF x \in batch[t] THEN "gone" ELSE Fate(x)
  <2>1. ASSUME NEW x \in batch[t] PROVE Fate(x)' = "gone"
    <3>1. x = t \/ stage'[x] = "over"
      BY <1>0, <1>3, <1>4, <2>1 DEF AtLock
    <3> QED BY <1>3, <1>4, <1>5, <2>1, <3>1 DEF Fate, Asked, Over
  <2>2. ASSUME NEW x \in Msgs, x \notin batch[t] PROVE Fate(x)' = Fate(x)
    BY <1>3, <1>4, <1>5, <2>2 DEF Fate, Asked
  <2> QED BY <2>1, <2>2
<1>7. Ask!Become(batch[t], "gone")
  BY <1>4, <1>6, BecomeIs
<1>8. Ask!Serve
  BY <1>2, <1>7 DEF Ask!Serve, Line
<1> QED BY <1>8 DEF Ask!Next

(* A photo that has been fetched joins its album while it fits.            *)
LEMMA FetchesIs ==
  ASSUME Placed, NEW p \in Photos, stage[p] = "download", ~Overflows(p), Add(p),
         UNCHANGED <<queue, batch>>
  PROVE  Ask!Next
<1> DEFINE g == GroupOf[p]
<1>0. Core /\ Registry /\ Photos \subseteq Msgs /\ g \in Groups
  BY GroupAssumption DEF Placed, Msgs
<1>1. Fate(p) = "new" /\ ~Asked(p)
  BY <1>0, FateIs
<1>2. /\ Line' = Line /\ Fate(p)' = "fetched"
      /\ \A x \in Msgs : x # p => Fate(x)' = Fate(x)
  BY <1>0, <1>1, GoesIs DEF Add
<1>3. Ask!Become({p}, "fetched")
  BY <1>0, <1>2, BecomeIs
<1>4. Members(g) = Ask!Album(g)
  <2>1. \A x \in Photos : Fate(x) = "fetched" <=> stage[x] = "bucket"
    BY <1>0, FateIs
  <2>2. \A x \in Photos : stage[x] = "bucket" /\ GroupOf[x] = g => x \in Members(g)
    BY <1>0 DEF Registry
  <2>3. Members(g) \subseteq Photos /\ \A x \in Members(g) : GroupOf[x] = g /\ stage[x] = "bucket"
    BY <1>0, CountIs DEF Core
  <2> QED BY <1>0, <2>1, <2>2, <2>3 DEF Ask!Album
<1>5. Cardinality(Members(g)) < MaxPhotos
  <2>1. Len(bucket[g]) < MaxPhotos /\ Len(bucket[g]) \in Nat
    BY <1>0, BoundsAssumption, LenProperties DEF Overflows, Core
  <2> QED BY <1>0, <2>1, CountIs, BoundsAssumption
<1>6. Cardinality(Ask!Album(GroupOf[p])) < MaxPhotos
  BY <1>4, <1>5
<1>7. [m \in Msgs |-> Fate(m)][p] = "new" /\ Line' = Line
  BY <1>0, <1>1, <1>2
<1> HIDE DEF g
<1>8. Ask!Fetch(p)
  BY ONLY <1>3, <1>6, <1>7 DEF Ask!Fetch, Line, Cardinality, Ask!Cardinality
<1> QED BY <1>8 DEF Ask!Next

(* A text goes to its turn, or flushes an album first.                     *)
LEMMA ChatIs ==
  ASSUME Placed, NEW m \in Texts, stage[m] \in {"new", "flush"},
         NEW gs \in Seq(Groups), FlushForChat(m, gs)
  PROVE  Ask!Next \/ UNCHANGED Ask!vars
<1>0. m \in Msgs \ Photos
  BY NamesAssumption DEF Msgs
<1>1. CASE Answer(m)
  <2>1. CASE HandlesAlone(m)
    BY <1>0, <2>1, JoinsAlone
  <2>2. CASE UrlNext(m)
    BY <1>0, <2>2, StaysIs DEF UrlNext, turns
  <2> QED BY <1>1, <2>1, <2>2 DEF Answer
<1>2. ASSUME NEW i \in FirstOpen(gs), DoFlush(gs[i]),
             stage' = [AfterFlush(gs[i]) EXCEPT ![m] = "flush"]
      PROVE  Ask!Next
  <2> DEFINE W == {m}
  <2>1. gs[i] \in Groups /\ Open(gs[i])
    BY LenProperties, ElementOfSeq DEF FirstOpen
  <2>2. /\ W \in SUBSET Texts /\ \A n \in W : stage[n] \in {"new", "flush"}
        /\ \A x \in Msgs : stage'[x] = IF x \in W THEN "flush" ELSE AfterFlush(gs[i])[x]
    BY <1>0, <1>2 DEF AfterFlush
  <2> HIDE DEF W
  <2> QED BY <1>2, <2>1, <2>2, JoinsAsAlbum
<1> QED BY <1>1, <1>2 DEF FlushForChat

LEMMA ArrivesIs ==
  ASSUME Placed, NEW m \in Msgs, Arrive(m)
  PROVE  Ask!Next \/ UNCHANGED Ask!vars
<1>1. CASE m \in Texts /\ TextArrives(m)
  BY <1>1, ChatIs DEF TextArrives, New, Placed, Registry
<1>2. CASE Refused(m)
  BY <1>2, DropsIs DEF Refused, New, Over, turns
<1>3. ASSUME NEW s \in {"download", "health"}, Begins(m, s) PROVE UNCHANGED Ask!vars
  BY <1>3, StaysIs DEF Begins, New, turns
<1> QED BY <1>1, <1>2, <1>3
        DEF Arrive, PhotoArrives, DocumentArrives, VoiceArrives, AudioArrives, AudioDocumentArrives

LEMMA WorksIs ==
  ASSUME Placed, NEW m \in Msgs, Works(m)
  PROVE  Ask!Next \/ UNCHANGED Ask!vars
<1>0. Core /\ Ways
  BY DEF Placed
<1>1. CASE m \in Texts /\ TextGoesOn(m)
  BY <1>0, <1>1, ChatIs DEF TextGoesOn, Core
<1>2. CASE SidecarHealthy(m)
  <2>1. CASE stage[m] = "health" /\ Goes(m, "download") /\ UNCHANGED turns
    BY <2>1, StaysIs DEF turns
  <2>2. CASE stage[m] = "link" /\ HandlesAlone(m)
    BY <1>0, <2>2, JoinsAlone DEF Ways
  <2> QED BY <1>2, <2>1, <2>2 DEF SidecarHealthy
<1>3. CASE SidecarOffline(m) \/ DownloadFails(m) \/ ApologyRaises(m)
  BY <1>3, DropsIs DEF SidecarOffline, DownloadFails, ApologyRaises, Over, turns
<1>4. CASE PhotoDownloaded(m)
  <2>1. m \in Photos /\ stage[m] = "download" /\ UNCHANGED <<queue, batch>>
    BY <1>4 DEF PhotoDownloaded, turns
  <2>2. CASE Overflows(m)
    BY <1>4, <2>1, <2>2, DropsIs DEF PhotoDownloaded, Overflow, Over
  <2>3. CASE ~Overflows(m)
    BY <1>4, <2>1, <2>3, FetchesIs DEF PhotoDownloaded
  <2> QED BY <2>2, <2>3
<1>5. CASE Downloaded(m)
  BY <1>5, JoinsAlone, NamesAssumption DEF Downloaded
<1>6. CASE m \in Photos /\ TimerFires(m)
  <2> DEFINE g == GroupOf[m]
  <2>1. CASE Open(g)
    <3>1. g \in Groups /\ DoFlush(g) /\ stage' = AfterFlush(g)
      BY <1>6, <2>1, GroupAssumption DEF TimerFires
    <3> DEFINE W == {}
    <3>2. /\ W \in SUBSET Texts /\ \A n \in W : stage[n] \in {"new", "flush"}
          /\ \A x \in Msgs : stage'[x] = IF x \in W THEN "flush" ELSE AfterFlush(g)[x]
      BY <3>1
    <3> HIDE DEF W, g
    <3> QED BY <2>1, <3>1, <3>2, JoinsAsAlbum
  <2>2. CASE ~Open(g)
    BY <1>6, <2>2 DEF TimerFires, turns, Ask!vars, Fate
  <2> QED BY <2>1, <2>2
<1>7. CASE TurnEnds(m) \/ TurnRaises(m)
  BY <1>7, ServesIs DEF TurnEnds, TurnRaises, LetsGo
<1>8. CASE Replies(m) \/ ReplyRaises(m)
  BY <1>8, StaysIs DEF Replies, ReplyRaises, Over, turns
<1> QED BY <1>1, <1>2, <1>3, <1>4, <1>5, <1>6, <1>7, <1>8 DEF Works

LEMMA StopIs == Placed /\ Stop => Ask!Next
<1> SUFFICES ASSUME Placed, Stop PROVE Ask!Next
  OBVIOUS
<1>1. /\ UNCHANGED <<queue, batch>>
      /\ \A m \in Msgs : stage'[m] = IF stage[m] = "bucket" THEN "left" ELSE stage[m]
  BY DEF Stop, turns
<1>2. \A m \in Msgs : /\ Fate(m) = "fetched" <=> stage[m] = "bucket"
                      /\ stage[m] = "bucket" => ~Asked(m)
  BY FateIs
<1>3. \A m \in Msgs : Fate(m)' = IF m \in Ask!With("fetched") THEN "gone" ELSE Fate(m)
  BY <1>1, <1>2 DEF Ask!With, Fate, Asked, Over
<1>4. Ask!With("fetched") \in SUBSET Msgs
  BY DEF Ask!With
<1>5. Ask!Become(Ask!With("fetched"), "gone")
  BY <1>3, <1>4, BecomeIs
<1>6. Line' = Line
  BY <1>1, LineStays DEF Placed
<1> QED BY <1>5, <1>6 DEF Ask!Next, Ask!Close, Line

LEMMA PerishIs == Placed /\ Perish => Ask!Next
<1> SUFFICES ASSUME Placed, Perish PROVE Ask!Next
  OBVIOUS
<1> DEFINE ms == {m \in Msgs : stage[m] = "new"}
<1>1. /\ queue' = <<>> /\ batch' = [m \in Msgs |-> {}]
      /\ \A m \in Msgs : stage'[m] = IF stage[m] \in Moving \/ m \in files THEN "left" ELSE stage[m]
  BY DEF Perish
<1>2. /\ ms \in SUBSET Msgs /\ \A m \in ms : Fate(m) = "new"
      /\ \A m \in ms : m \notin files
  BY FateIs DEF Placed, Uploads, Asked
<1>3. \A m \in Msgs : stage[m] \in {"new"} \cup Moving \cup Over
  BY DEF Placed, Core
<1>4. \A m \in Msgs : Fate(m)' = IF m \in Msgs \ ms THEN "gone" ELSE Fate(m)
  BY <1>1, <1>2, <1>3 DEF Fate, Moving, Over
<1>5. Ask!Become(Msgs \ ms, "gone") /\ ms \in SUBSET Ask!With("new")
  <2>1. Msgs \ ms \in SUBSET Msgs
    OBVIOUS
  <2> HIDE DEF ms
  <2> QED BY <1>2, <1>4, <2>1, BecomeIs DEF Ask!With
<1>6. Line' = <<>>
  <2>1. DOMAIN queue' = {}
    BY <1>1
  <2> QED BY <2>1 DEF Line
<1> HIDE DEF ms
<1>7. Ask!Die
  BY <1>5, <1>6 DEF Ask!Die, Line
<1> QED BY <1>7 DEF Ask!Next

(* Intake implements Inbox: whichever of timers, texts, downloads and      *)
(* stops come first, a message is part of one turn at most, an album that  *)
(* has been fetched goes into one turn as a whole, turns keep their order, *)
(* and a message that is over stays so.                                    *)
THEOREM IntakeImplementsInbox == Spec => InboxSpec
<1>1. Init => Ask!Init
  <2> SUFFICES ASSUME Init PROVE Ask!Init
    OBVIOUS
  <2>1. \A m \in Msgs : Fate(m) = "new"
    BY DEF Init, Fate, Over
  <2>2. Line = <<>>
    <3>1. DOMAIN queue = {}
      BY DEF Init
    <3> QED BY <3>1 DEF Line
  <2> QED BY <2>1, <2>2 DEF Ask!Init, Line
<1>2. IInv /\ [Next]_vars => [Ask!Next]_(Ask!vars)
  <2> SUFFICES ASSUME IInv, [Next]_vars PROVE Ask!Next \/ UNCHANGED Ask!vars
    OBVIOUS
  <2>0. Placed
    BY DEF IInv
  <2>1. CASE \E m \in Msgs : Arrive(m)
    BY <2>0, <2>1, ArrivesIs
  <2>2. CASE Working
    BY <2>0, <2>2, WorksIs DEF Working
  <2>3. CASE Stop \/ Perish
    BY <2>0, <2>3, StopIs, PerishIs
  <2>4. CASE Boot \/ UNCHANGED vars
    BY <2>4 DEF Boot, vars, turns, Ask!vars, Fate
  <2> QED BY <2>1, <2>2, <2>3, <2>4 DEF Next
<1> QED BY <1>1, <1>2, IntakeInvariant, PTL DEF Spec, InboxSpec, Ask!Spec

-----------------------------------------------------------------------------
(* Connection, for every set of calls and every bound.  The inductive      *)
(* invariant says where the rows of a call are while it runs (RowsKept),   *)
(* what the lock of the scheduler's store leaves to the loop (StoreLocked),*)
(* and what the loop has in its transaction (WholeMinute).                 *)

(* What a call has written is somewhere until it returns, and on disk      *)
(* afterwards; only the rollback of another call takes it away.            *)
RowsKept ==
  \A c \in Calls \ {Loop} :
    /\ pc[c] \in {"fetch", "commit", "rollback"} => Row(c) \in Visible \cup lost
    /\ pc[c] = "returned" => Row(c) \in disk \cup lost

(* While the loop is at its two statements, no other call of the           *)
(* scheduler's store is between its own.                                   *)
StoreLocked == pc[Loop] \in Inside => \A c \in Marks : pc[c] \notin Inside

(* The trigger goes ahead of last_fire_at between the two statements only, *)
(* and the loop reaches the second statement with the first in hand.       *)
WholeMinute ==
  ~split =>
    /\ "trigger" \in disk <=> "last_fire_at" \in disk
    /\ pc[Loop] = "bump" => "trigger" \in open
    /\ pc[Loop] # "bump" => ("trigger" \in open <=> "last_fire_at" \in open)

(* A minute that has fired stays on disk, so that a second INSERT for it   *)
(* gets through only after a rollback has taken it away.                   *)
OnceKept ==
  /\ pc[Loop] \in {"bump", "commit"} => "trigger" \in Visible \cup lost
  /\ fires >= 1 => "trigger" \in disk \cup lost
  /\ fires >= 1 /\ pc[Loop] \in {"bump", "commit"} => "trigger" \in lost
  /\ MinuteFiresOnce

ConnectionInv == ConnectionTypeOK /\ RowsKept /\ StoreLocked /\ WholeMinute /\ OnceKept /\ NothingIsLeftOpen

-----------------------------------------------------------------------------
(* Every step keeps the types.                                             *)
LEMMA TypeStep == ConnectionTypeOK /\ [ConnectionNext]_connectionVars => ConnectionTypeOK'
<1> SUFFICES ASSUME ConnectionTypeOK, [ConnectionNext]_connectionVars PROVE ConnectionTypeOK'
  OBVIOUS
<1> USE ConnectionAssumption DEF ConnectionTypeOK, Labels, Inside, database, history, budgets
<1>1. ASSUME NEW c \in OneWrite, Write(c) PROVE ConnectionTypeOK'
  BY <1>1 DEF Write, MayEnter, Executes, Reaches, Calls, Rows
<1>2. ASSUME NEW c \in Appends, Fetch(c) PROVE ConnectionTypeOK'
  BY <1>2 DEF Fetch, Reaches
<1>3. ASSUME NEW c \in Starts, RecordStarted(c) PROVE ConnectionTypeOK'
  BY <1>3 DEF RecordStarted, Executes, Reaches, Rows
<1>4. CASE InsertTrigger
  <2>1. ticks' \in 0..MaxTicks /\ cancels' \in 0..MaxCancels /\ crashes' \in 0..MaxCrashes
    BY <1>4 DEF InsertTrigger
  <2>2. /\ disk' \in SUBSET Rows /\ open' \in SUBSET Rows /\ inTx' \in BOOLEAN
        /\ busy' \in SUBSET Appends /\ pc' \in [Calls -> Labels]
    BY <1>4 DEF InsertTrigger, Executes, Reaches, Rows
  <2>3. fires' \in Nat /\ lost' \in SUBSET Rows /\ split' \in BOOLEAN /\ left' \in BOOLEAN
    BY <1>4 DEF InsertTrigger
  <2>4. QED
    BY <2>1, <2>2, <2>3
<1>5. CASE Bump
  BY <1>5 DEF Bump, Executes, Reaches, Rows
<1>6. ASSUME NEW c \in Calls, Commit(c) PROVE ConnectionTypeOK'
  <2>1. /\ disk' \in SUBSET Rows /\ open' \in SUBSET Rows /\ inTx' \in BOOLEAN
        /\ busy' \in SUBSET Appends /\ pc' \in [Calls -> Labels]
    BY <1>6 DEF Commit, Ends, Leaves, Reaches, Visible
  <2>2. fires' \in Nat
    BY <1>6 DEF Commit
  <2>3. lost' \in SUBSET Rows /\ left' \in BOOLEAN
    BY <1>6 DEF Commit, Ends
  <2>4. split' \in BOOLEAN
    BY <1>6 DEF Commit, Splits
  <2>5. QED
    BY <1>6, <2>1, <2>2, <2>3, <2>4 DEF Commit
<1>7. ASSUME NEW c \in Calls, CommitRaises(c) PROVE ConnectionTypeOK'
  BY <1>7 DEF CommitRaises, Leaves, Reaches
<1>8. ASSUME NEW c \in Calls, Rollback(c) PROVE ConnectionTypeOK'
  BY <1>8 DEF Rollback, Ends, Splits, Leaves, Reaches
<1>9. ASSUME NEW c \in Calls, Cancel(c) PROVE ConnectionTypeOK'
  BY <1>9 DEF Cancel, Reaches
<1>10. CASE Crash
  <2>1. pc' \in [Calls -> Labels]
    BY <1>10 DEF Crash
  <2>2. crashes' \in 0..MaxCrashes
    BY <1>10 DEF Crash
  <2>3. QED
    BY <1>10, <2>1, <2>2 DEF Crash
<1>11. CASE UNCHANGED connectionVars
  BY <1>11 DEF connectionVars
<1>12. QED
  BY <1>1, <1>2, <1>3, <1>4, <1>5, <1>6, <1>7, <1>8, <1>9, <1>10, <1>11 DEF ConnectionNext

(* A call's row leaves the transaction for the disk with a commit, for     *)
(* lost with a rollback, and with a death only together with the call.     *)
LEMMA KeptStep == ConnectionTypeOK /\ RowsKept /\ [ConnectionNext]_connectionVars => RowsKept'
<1> SUFFICES ASSUME ConnectionTypeOK, RowsKept, [ConnectionNext]_connectionVars, NEW d \in Calls \ {Loop}
             PROVE  /\ pc'[d] \in {"fetch", "commit", "rollback"} =>
                         Row(d) \in (Visible \cup lost)'
                    /\ pc'[d] = "returned" => Row(d) \in (disk \cup lost)'
  BY DEF RowsKept, Row
<1> DEFINE Safe ==
      /\ pc[d] \in {"fetch", "commit", "rollback"} => Row(d) \in Visible \cup lost
      /\ pc[d] = "returned" => Row(d) \in disk \cup lost
<1>0. Safe
  BY DEF RowsKept
<1> USE <1>0, ConnectionAssumption DEF ConnectionTypeOK, Inside, Visible, database, history, budgets
<1>1. ASSUME NEW c \in OneWrite, Write(c) PROVE Safe'
  <2>1. Row(c) = c
    BY DEF Row, OneWrite
  <2>2. QED
    BY <1>1, <2>1 DEF Write, MayEnter, Executes, Reaches, Calls, Row
<1>2. ASSUME NEW c \in Appends, Fetch(c) PROVE Safe'
  BY <1>2 DEF Fetch, Reaches, Row
<1>3. ASSUME NEW c \in Starts, RecordStarted(c) PROVE Safe'
  BY <1>3 DEF RecordStarted, Executes, Reaches, Row
<1>4. CASE InsertTrigger
  BY <1>4 DEF InsertTrigger, Executes, Reaches, Row
<1>5. CASE Bump
  BY <1>5 DEF Bump, Executes, Reaches, Row
<1>6. ASSUME NEW c \in Calls, Commit(c) PROVE Safe'
  BY <1>6 DEF Commit, Ends, Leaves, Reaches, Row
<1>7. ASSUME NEW c \in Calls, CommitRaises(c) PROVE Safe'
  BY <1>7 DEF CommitRaises, Leaves, Reaches, Row
<1>8. ASSUME NEW c \in Calls, Rollback(c) PROVE Safe'
  BY <1>8 DEF Rollback, Ends, Leaves, Reaches, Row
<1>9. ASSUME NEW c \in Calls, Cancel(c) PROVE Safe'
  BY <1>9 DEF Cancel, Reaches, Row
<1>10. CASE Crash
  BY <1>10 DEF Crash, Row
<1>11. CASE UNCHANGED connectionVars
  BY <1>11 DEF connectionVars, Row
<1>12. QED
  BY <1>1, <1>2, <1>3, <1>4, <1>5, <1>6, <1>7, <1>8, <1>9, <1>10, <1>11 DEF ConnectionNext

(* A call of the scheduler's store enters when no other of them is inside. *)
LEMMA LockedStep == ConnectionTypeOK /\ StoreLocked /\ [ConnectionNext]_connectionVars => StoreLocked'
<1> SUFFICES ASSUME ConnectionTypeOK, StoreLocked, [ConnectionNext]_connectionVars PROVE StoreLocked'
  OBVIOUS
<1> USE ConnectionAssumption DEF ConnectionTypeOK, StoreLocked, Inside, OneWrite, Calls
<1>1. ASSUME NEW c \in OneWrite, Write(c) PROVE StoreLocked'
  BY <1>1 DEF Write, MayEnter, StoreOf, Reaches
<1>2. ASSUME NEW c \in Appends, Fetch(c) PROVE StoreLocked'
  BY <1>2 DEF Fetch, Reaches
<1>3. ASSUME NEW c \in Starts, RecordStarted(c) PROVE StoreLocked'
  BY <1>3 DEF RecordStarted, Reaches
<1>4. CASE InsertTrigger
  BY <1>4 DEF InsertTrigger, MayEnter, StoreOf, Reaches
<1>5. CASE Bump
  BY <1>5 DEF Bump, Reaches
<1>6. ASSUME NEW c \in Calls, Commit(c) PROVE StoreLocked'
  BY <1>6 DEF Commit, Leaves, Reaches
<1>7. ASSUME NEW c \in Calls, CommitRaises(c) PROVE StoreLocked'
  BY <1>7 DEF CommitRaises, Leaves, Reaches
<1>8. ASSUME NEW c \in Calls, Rollback(c) PROVE StoreLocked'
  BY <1>8 DEF Rollback, Leaves, Reaches
<1>9. ASSUME NEW c \in Calls, Cancel(c) PROVE StoreLocked'
  BY <1>9 DEF Cancel, Reaches
<1>10. CASE Crash
  BY <1>10 DEF Crash
<1>11. CASE UNCHANGED connectionVars
  BY <1>11 DEF connectionVars
<1>12. QED
  BY <1>1, <1>2, <1>3, <1>4, <1>5, <1>6, <1>7, <1>8, <1>9, <1>10, <1>11 DEF ConnectionNext

(* The transaction that carries a minute ends by the loop's own commit or  *)
(* rollback, by the death of the process, or splits it.                    *)
LEMMA MinuteStep == ConnectionTypeOK /\ StoreLocked /\ WholeMinute /\ [ConnectionNext]_connectionVars => WholeMinute'
<1> SUFFICES ASSUME ConnectionTypeOK, StoreLocked, WholeMinute, [ConnectionNext]_connectionVars PROVE WholeMinute'
  OBVIOUS
<1> USE ConnectionAssumption DEF ConnectionTypeOK, WholeMinute, Inside, Visible, database, history, budgets
<1>1. ASSUME NEW c \in OneWrite, Write(c) PROVE WholeMinute'
  <2>1. c \notin {"trigger", "last_fire_at"} /\ c # Loop
    BY DEF OneWrite
  <2>2. pc'[Loop] = pc[Loop]
    BY <1>1, <2>1 DEF Write, Reaches, Calls
  <2>3. disk' = disk /\ open' = open \cup {c} /\ lost' = lost /\ split' = split /\ fires' = fires
    BY <1>1 DEF Write, Executes
  <2>4. QED
    BY <2>1, <2>2, <2>3
<1>2. ASSUME NEW c \in Appends, Fetch(c) PROVE WholeMinute'
  BY <1>2 DEF Fetch, Reaches, OneWrite
<1>3. ASSUME NEW c \in Starts, RecordStarted(c) PROVE WholeMinute'
  BY <1>3 DEF RecordStarted, Executes, Reaches
<1>4. CASE InsertTrigger
  BY <1>4 DEF InsertTrigger, MayEnter, Executes, Reaches, Calls
<1>5. CASE Bump
  BY <1>5 DEF Bump, Executes, Reaches, Calls
<1>6. ASSUME NEW c \in Calls, Commit(c) PROVE WholeMinute'
  <2>1. CASE c = Loop
    BY <1>6, <2>1 DEF Commit, Ends, Splits, Leaves, Reaches
  <2>2. CASE c \in Marks
    BY <1>6, <2>2 DEF Commit, Ends, Splits, Leaves, Reaches, StoreLocked, OneWrite
  <2>3. CASE StoreOf(c) # "scheduler"
    <3>1. c # Loop
      BY <2>3 DEF StoreOf
    <3>2. pc'[Loop] = pc[Loop]
      BY <1>6, <3>1 DEF Commit, Leaves, Reaches, Calls
    <3>3. split \/ pc[Loop] \in {"bump", "commit"} => split'
      BY <1>6, <2>3 DEF Commit, Splits
    <3>4. QED
      BY <1>6, <3>2, <3>3 DEF Commit, Ends
  <2>4. QED
    BY <2>1, <2>2, <2>3 DEF StoreOf
<1>7. ASSUME NEW c \in Calls, CommitRaises(c) PROVE WholeMinute'
  BY <1>7 DEF CommitRaises, Leaves, Reaches
<1>8. ASSUME NEW c \in Calls, Rollback(c) PROVE WholeMinute'
  <2>1. CASE c = Loop
    BY <1>8, <2>1 DEF Rollback, Ends, Splits, Leaves, Reaches
  <2>2. CASE c \in Marks
    BY <1>8, <2>2 DEF Rollback, Ends, Splits, Leaves, Reaches, StoreLocked, OneWrite
  <2>3. CASE StoreOf(c) # "scheduler"
    <3>1. c # Loop
      BY <2>3 DEF StoreOf
    <3>2. pc'[Loop] = pc[Loop]
      BY <1>8, <3>1 DEF Rollback, Leaves, Reaches, Calls
    <3>3. split \/ pc[Loop] \in {"bump", "commit"} => split'
      BY <1>8, <2>3 DEF Rollback, Splits
    <3>4. QED
      BY <1>8, <3>2, <3>3 DEF Rollback, Ends
  <2>4. QED
    BY <2>1, <2>2, <2>3 DEF StoreOf
<1>9. ASSUME NEW c \in Calls, Cancel(c) PROVE WholeMinute'
  <2>1. (split' = split /\ pc'[Loop] = pc[Loop]) \/ split'
    BY <1>9 DEF Cancel, Reaches, Calls
  <2>2. QED
    BY <1>9, <2>1 DEF Cancel
<1>10. CASE Crash
  BY <1>10 DEF Crash, Calls
<1>11. CASE UNCHANGED connectionVars
  BY <1>11 DEF connectionVars
<1>12. QED
  BY <1>1, <1>2, <1>3, <1>4, <1>5, <1>6, <1>7, <1>8, <1>9, <1>10, <1>11 DEF ConnectionNext

(* An id for the minute comes from a commit of the loop, which has its row *)
(* in hand unless a rollback has just taken it.                            *)
LEMMA OnceStep == ConnectionTypeOK /\ OnceKept /\ [ConnectionNext]_connectionVars => OnceKept'
<1> SUFFICES ASSUME ConnectionTypeOK, OnceKept, [ConnectionNext]_connectionVars PROVE OnceKept'
  OBVIOUS
<1> USE ConnectionAssumption
    DEF ConnectionTypeOK, OnceKept, MinuteFiresOnce, Inside, Visible, database, history, budgets
<1>1. ASSUME NEW c \in OneWrite, Write(c) PROVE OnceKept'
  <2>1. c \notin {"trigger", "last_fire_at"} /\ c # Loop
    OBVIOUS
  <2>2. pc'[Loop] = pc[Loop]
    BY <1>1, <2>1 DEF Write, Reaches, Calls
  <2>3. disk' = disk /\ open' = open \cup {c} /\ lost' = lost /\ split' = split /\ fires' = fires
    BY <1>1 DEF Write, Executes
  <2>4. QED
    BY <2>1, <2>2, <2>3
<1>2. ASSUME NEW c \in Appends, Fetch(c) PROVE OnceKept'
  BY <1>2 DEF Fetch, Reaches, OneWrite
<1>3. ASSUME NEW c \in Starts, RecordStarted(c) PROVE OnceKept'
  BY <1>3 DEF RecordStarted, Executes, Reaches
<1>4. CASE InsertTrigger
  BY <1>4 DEF InsertTrigger, Executes, Reaches, Calls
<1>5. CASE Bump
  BY <1>5 DEF Bump, Executes, Reaches, Calls
<1>6. ASSUME NEW c \in Calls, Commit(c) PROVE OnceKept'
  BY <1>6 DEF Commit, Ends, Leaves, Reaches
<1>7. ASSUME NEW c \in Calls, CommitRaises(c) PROVE OnceKept'
  BY <1>7 DEF CommitRaises, Leaves, Reaches
<1>8. ASSUME NEW c \in Calls, Rollback(c) PROVE OnceKept'
  BY <1>8 DEF Rollback, Ends, Leaves, Reaches
<1>9. ASSUME NEW c \in Calls, Cancel(c) PROVE OnceKept'
  BY <1>9 DEF Cancel, Reaches
<1>10. CASE Crash
  BY <1>10 DEF Crash, Calls
<1>11. CASE UNCHANGED connectionVars
  BY <1>11 DEF connectionVars
<1>12. QED
  BY <1>1, <1>2, <1>3, <1>4, <1>5, <1>6, <1>7, <1>8, <1>9, <1>10, <1>11 DEF ConnectionNext

(* A statement opens the transaction for a call that is inside, and a call *)
(* leaves by ending it or by saying that it is left.                       *)
LEMMA OpenStep == ConnectionTypeOK /\ NothingIsLeftOpen /\ [ConnectionNext]_connectionVars => NothingIsLeftOpen'
<1> SUFFICES ASSUME ConnectionTypeOK, NothingIsLeftOpen, [ConnectionNext]_connectionVars PROVE NothingIsLeftOpen'
  OBVIOUS
<1> USE ConnectionAssumption
    DEF ConnectionTypeOK, NothingIsLeftOpen, Inside, Calls, OneWrite, database, history, budgets
<1>1. ASSUME NEW c \in OneWrite, Write(c) PROVE NothingIsLeftOpen'
  <2>1. pc'[c] \in Inside
    BY <1>1 DEF Write, Reaches
  <2>2. QED
    BY <2>1
<1>2. ASSUME NEW c \in Appends, Fetch(c) PROVE NothingIsLeftOpen'
  <2>1. pc'[c] \in Inside
    BY <1>2 DEF Fetch, Reaches
  <2>2. QED
    BY <2>1
<1>3. ASSUME NEW c \in Starts, RecordStarted(c) PROVE NothingIsLeftOpen'
  <2>1. pc'[c] \in Inside
    BY <1>3 DEF RecordStarted, Reaches
  <2>2. QED
    BY <2>1
<1>4. CASE InsertTrigger
  <2>1. pc'[Loop] \in Inside
    BY <1>4 DEF InsertTrigger, Reaches
  <2>2. QED
    BY <2>1
<1>5. CASE Bump
  <2>1. pc'[Loop] \in Inside
    BY <1>5 DEF Bump, Reaches
  <2>2. QED
    BY <2>1
<1>6. ASSUME NEW c \in Calls, Commit(c) PROVE NothingIsLeftOpen'
  BY <1>6 DEF Commit, Ends
<1>7. ASSUME NEW c \in Calls, CommitRaises(c) PROVE NothingIsLeftOpen'
  BY <1>7 DEF CommitRaises
<1>8. ASSUME NEW c \in Calls, Rollback(c) PROVE NothingIsLeftOpen'
  BY <1>8 DEF Rollback, Ends
<1>9. ASSUME NEW c \in Calls, Cancel(c) PROVE NothingIsLeftOpen'
  BY <1>9 DEF Cancel
<1>10. CASE Crash
  BY <1>10 DEF Crash
<1>11. CASE UNCHANGED connectionVars
  BY <1>11 DEF connectionVars
<1>12. QED
  BY <1>1, <1>2, <1>3, <1>4, <1>5, <1>6, <1>7, <1>8, <1>9, <1>10, <1>11 DEF ConnectionNext

-----------------------------------------------------------------------------
(* The inductive invariant, for any number of calls of every store.        *)
THEOREM ConnectionInvariant == ConnectionSpec => []ConnectionInv
<1>1. ConnectionInit => ConnectionInv
  <2> SUFFICES ASSUME ConnectionInit PROVE ConnectionInv
    OBVIOUS
  <2>1. ConnectionTypeOK
    <3>1. pc \in [Calls -> Labels]
      BY DEF ConnectionInit, Labels
    <3>2. ticks \in 0..MaxTicks /\ cancels \in 0..MaxCancels /\ crashes \in 0..MaxCrashes
      BY ConnectionAssumption DEF ConnectionInit
    <3>3. fires \in Nat /\ inTx \in BOOLEAN /\ split \in BOOLEAN /\ left \in BOOLEAN
      BY DEF ConnectionInit
    <3>4. QED
      BY <3>1, <3>2, <3>3 DEF ConnectionInit, ConnectionTypeOK
  <2>2. RowsKept /\ StoreLocked
    BY ConnectionAssumption DEF ConnectionInit, RowsKept, StoreLocked, Inside, Calls, OneWrite
  <2>3. WholeMinute /\ OnceKept /\ NothingIsLeftOpen
    BY DEF ConnectionInit, WholeMinute, OnceKept, MinuteFiresOnce, NothingIsLeftOpen, Calls
  <2>4. QED
    BY <2>1, <2>2, <2>3 DEF ConnectionInv
<1>2. ConnectionInv /\ [ConnectionNext]_connectionVars => ConnectionInv'
  BY TypeStep, KeptStep, LockedStep, MinuteStep, OnceStep, OpenStep DEF ConnectionInv
<1>3. QED
  BY <1>1, <1>2, PTL DEF ConnectionSpec

(* The variables keep their types and the budgets.                          *)
THEOREM TypeCorrect == ConnectionSpec => []ConnectionTypeOK
<1>1. ConnectionInv => ConnectionTypeOK
  BY DEF ConnectionInv
<1>2. QED
  BY <1>1, ConnectionInvariant, PTL

(* A call that has returned has its row on disk, whoever committed it, or  *)
(* lost it to the rollback of another call's duplicate.                    *)
THEOREM ReturnedDurable == ConnectionSpec => []ReturnedIsDurable
<1>1. ConnectionInv => ReturnedIsDurable
  BY DEF ConnectionInv, RowsKept, ReturnedIsDurable
<1>2. QED
  BY <1>1, ConnectionInvariant, PTL

(* The trigger and the last_fire_at of its schedule reach the disk         *)
(* together while only the scheduler's own store ends transactions.        *)
THEOREM MinuteWhole == ConnectionSpec => []MinuteIsWhole
<1>1. ConnectionInv => MinuteIsWhole
  BY DEF ConnectionInv, WholeMinute, MinuteIsWhole
<1>2. QED
  BY <1>1, ConnectionInvariant, PTL

(* The loop enqueues a minute a second time only after losing its row.     *)
THEOREM MinuteOnce == ConnectionSpec => []MinuteFiresOnce
<1>1. ConnectionInv => MinuteFiresOnce
  BY DEF ConnectionInv, OnceKept
<1>2. QED
  BY <1>1, ConnectionInvariant, PTL

(* A transaction that is open belongs to a call that runs, or was left by  *)
(* an exception or a cancellation.                                         *)
THEOREM NothingLeft == ConnectionSpec => []NothingIsLeftOpen
<1>1. ConnectionInv => NothingIsLeftOpen
  BY DEF ConnectionInv
<1>2. QED
  BY <1>1, ConnectionInvariant, PTL

-----------------------------------------------------------------------------
(* Cron, for every calendar, clock change, expression and bound.           *)

(* A minute that the expression names.                                     *)
Due(u) == IsExisting(Wall(u)) /\ Matches(expr, Wall(u))

(* The types, and what goes before the first firing.                       *)
Clock ==
  /\ zone \in Zones
  /\ now \in Nat /\ since \in Nat /\ since <= now + 1 /\ ticked \in BOOLEAN
  /\ last \in Int \cup {Nothing} /\ promise \in Int \cup {Nothing} /\ fired \subseteq Int
  /\ last # Nothing => last <= now /\ last \in fired
  /\ expr = Nothing => last = Nothing /\ promise = Nothing
  /\ last = Nothing => fired = {}

(* A minute of the repeated hour has fired as its first occurrence.        *)
FirstOnes == \A u \in fired : u = ToUtc(Wall(u), 0)

(* A schedule that never fired has had no minute to fire in.               *)
Fresh ==
  expr # Nothing /\ last = Nothing =>
    \A u \in since..now : Due(u) => u = now /\ ~ticked

(* The walk does not look behind last_fire_at, and need not.               *)
Behind ==
  last # Nothing => \A u \in since..now : u <= last /\ Due(u) => Canonical(u) \in fired

(* A minute that is about to leave the window has been taken; the tick of  *)
(* the last minute it is in sees to that.                                  *)
Caught ==
  expr # Nothing =>
    \A u \in since..now :
      Due(u) /\ (u < now - Window \/ (u = now - Window /\ ticked)) => Canonical(u) \in fired

(* What was promised is the first minute due since then, or its first      *)
(* occurrence.  The loop fires it when it comes to that minute, or earlier *)
(* if a tick in the minute of the request has set last_fire_at back before *)
(* the first occurrence; or else the minute waits for its window to end.   *)
Quiet(from, to) == \A u \in from..to : ~Due(u)
Before(u) == now < u \/ (now = u /\ ~ticked)

Foretold(m) ==
  /\ m \in Int /\ since <= m /\ promise = Canonical(m) /\ Due(m)
  /\ Quiet(since, m - 1)
  /\ \/ promise \in fired
     \/ promise = m
     \/ Before(m) /\ (last # Nothing => Quiet(last + 1, m - 1))
     \/ /\ Before(since) /\ promise < since
        /\ last # Nothing /\ last < promise /\ Quiet(last + 1, promise - 1)

Announced == promise # Nothing => \E m \in Int : Foretold(m)

CronInv == Clock /\ FirstOnes /\ Fresh /\ Behind /\ Caught

(* The helpers of FiniteSetsExt, on two numbers and on finite sets.        *)
LEMMA MinIs ==
  ASSUME NEW T, T \subseteq Int, T # {}, IsFiniteSet(T)
  PROVE  Min(T) \in T /\ \A y \in T : Min(T) <= y
<1>1. \E x \in T : \A y \in T : x <= y
  BY LeastExists
<1> QED BY <1>1 DEF Min

LEMMA PairIs ==
  ASSUME NEW a \in Int, NEW b \in Int
  PROVE  /\ Max({a, b}) = IF a >= b THEN a ELSE b
         /\ Min({a, b}) = IF a >= b THEN b ELSE a
<1>1. Max({a, b}) \in {a, b} /\ \A y \in {a, b} : Max({a, b}) >= y
  <2>1. \E x \in {a, b} : \A y \in {a, b} : x >= y
    OBVIOUS
  <2> QED BY <2>1 DEF Max
<1>2. Min({a, b}) \in {a, b} /\ \A y \in {a, b} : Min({a, b}) <= y
  <2>1. \E x \in {a, b} : \A y \in {a, b} : x <= y
    OBVIOUS
  <2> QED BY <2>1 DEF Min
<1> HIDE DEF Max, Min
<1> QED BY <1>1, <1>2

LEMMA SpanIsFinite ==
  ASSUME NEW m \in Int, NEW n \in Int
  PROVE  IsFiniteSet(m..n)
<1>1. \A a, b \in Int : IsFiniteSet(a..b)
  BY FS_Interval
<1> QED BY <1>1

(* The rules of the clock: each minute has a wall time that occurs, and    *)
(* the first occurrence of that time is the minute itself or, behind the   *)
(* change, the minute as long before as the clock is set back.             *)
LEMMA CanonicalIs ==
  ASSUME zone \in Zones, NEW u \in Int
  PROVE  /\ Canonical(u) \in Int /\ Canonical(u) <= u
         /\ IsExisting(Wall(u))
         /\ Canonical(u) = ToUtc(Wall(u), 0) /\ Wall(Canonical(u)) = Wall(u)
         /\ Canonical(u) # u => /\ zone.before > zone.after
                                /\ Canonical(u) = u - (zone.before - zone.after)
                                /\ Canonical(u) < zone.at /\ zone.at <= u
<1> DEFINE t == zone.at
           b == zone.before
           a == zone.after
           w == Wall(u)
           c == ToUtc(w, 0)
           d == ToUtc(w, 1)
<1>1. t \in Int /\ b \in Int /\ a \in Int
  BY ZonesAssumption
<1>2. w = u + (IF u < t THEN b ELSE a)
  BY DEF Wall
<1>3. c = w - (IF w < t + (IF b >= a THEN b ELSE a) THEN b ELSE a)
  BY <1>1, PairIs DEF ToUtc
<1>4. d = w - (IF w < t + (IF b >= a THEN a ELSE b) THEN b ELSE a)
  <2>1. 1 # 0
    OBVIOUS
  <2> QED BY <1>1, <2>1, PairIs DEF ToUtc
<1>5. Wall(c) = c + (IF c < t THEN b ELSE a)
  BY DEF Wall
<1>6. Canonical(u) = IF c # d THEN c ELSE u
  BY DEF Canonical, IsAmbiguous
<1>7. IsExisting(w) <=> Wall(c) = w
  BY DEF IsExisting
<1> HIDE DEF t, b, a, w, c, d
<1>8. w \in Int /\ c \in Int /\ d \in Int
  BY <1>1, <1>2, <1>3, <1>4
<1>9. c = d => c = u
  BY <1>1, <1>2, <1>3, <1>4, <1>8
<1>10. Wall(c) = w
  BY <1>1, <1>2, <1>3, <1>5, <1>8
<1>11. c # u => b > a /\ c = u - (b - a) /\ c < t /\ t <= u
  BY <1>1, <1>2, <1>3, <1>8
<1>12. Canonical(u) = c
  BY <1>6, <1>9
<1>13. c <= u
  BY <1>1, <1>8, <1>11
<1> QED BY <1>7, <1>8, <1>10, <1>11, <1>12, <1>13 DEF t, b, a, w, c

(* The minute a walk finds, if it finds one.                               *)
LEMMA WalkIs ==
  ASSUME NEW T, NEW from \in Int, NEW to \in Int, T \subseteq from..to, T # {}
  PROVE  Min(T) \in T /\ \A y \in from..(Min(T) - 1) : y \notin T
<1>1. T \subseteq Int /\ IsFiniteSet(T)
  <2> DEFINE S == from..to
  <2>1. T \in SUBSET S /\ IsFiniteSet(S) /\ S \subseteq Int
    BY SpanIsFinite
  <2> HIDE DEF S
  <2> QED BY <2>1, FS_Subset
<1>2. Min(T) \in T /\ \A y \in T : Min(T) <= y
  BY <1>1, MinIs
<1> HIDE DEF Min
<1>3. Min(T) \in Int
  BY <1>1, <1>2
<1> QED BY <1>1, <1>2, <1>3

From == IF last = Nothing THEN now ELSE last + 1

LEMMA IsDueIs ==
  ASSUME Clock
  PROVE  \/ /\ IsDue(expr) = Nothing
            /\ \A u \in From..now : Due(u) => now - u > Window
         \/ \E v \in From..now :
              /\ Due(v) /\ now - v <= Window /\ IsDue(expr) = Canonical(v)
              /\ \A u \in From..(v - 1) : Due(u) => now - u > Window
<1> DEFINE found == {u \in Candidates(expr, From, now) : now - u <= Window}
<1>1. IsDue(expr) = IF found = {} THEN Nothing ELSE Canonical(Min(found))
  BY DEF IsDue, From
<1>2. \A u : u \in found <=> u \in From..now /\ Due(u) /\ now - u <= Window
  BY DEF Candidates, Due
<1>3. now \in Int /\ From \in Int /\ Window \in Int
  BY CronBoundsAssumption DEF Clock, From
<1> HIDE DEF found
<1>4. CASE found = {}
  BY <1>1, <1>2, <1>3, <1>4
<1>5. CASE found # {}
  <2>1. found \subseteq From..now
    BY <1>2
  <2> DEFINE v == Min(found)
  <2>2. v \in found /\ \A u \in From..(v - 1) : u \notin found
    BY <1>3, <1>5, <2>1, WalkIs
  <2>3. IsDue(expr) = Canonical(v)
    BY <1>1, <1>5
  <2> HIDE DEF v
  <2>4. v \in From..now /\ Due(v) /\ now - v <= Window
    BY <1>2, <2>2
  <2>5. ASSUME NEW u \in From..(v - 1), Due(u) PROVE now - u > Window
    <3>1. u \in From..now /\ ~(now - u <= Window)
      BY <1>2, <1>3, <2>2, <2>4, <2>5
    <3> QED BY <1>3, <3>1
  <2> QED BY <2>3, <2>4, <2>5
<1> QED BY <1>4, <1>5

LEMMA NextFireIs ==
  ASSUME NEW e, NEW from \in Int
  PROVE  \/ NextFire(e, from) = Nothing
         \/ \E m \in Int :
              /\ from + 1 <= m /\ NextFire(e, from) = Canonical(m)
              /\ IsExisting(Wall(m)) /\ Matches(e, Wall(m))
              /\ \A u \in (from + 1)..(m - 1) : ~(IsExisting(Wall(u)) /\ Matches(e, Wall(u)))
<1> DEFINE start == from + 1
           end == from + Lookahead
           found == Candidates(e, start, end)
           m == Min(found)
<1>1. NextFire(e, from) = IF found = {} THEN Nothing ELSE Canonical(Min(found))
  BY DEF NextFire
<1>2. \A u : u \in found <=> u \in start..end /\ IsExisting(Wall(u)) /\ Matches(e, Wall(u))
  BY DEF Candidates
<1>3. start \in Int /\ end \in Int
  BY CronBoundsAssumption
<1> HIDE DEF found, end
<1>4. CASE found = {}
  BY <1>1, <1>4
<1>5. CASE found # {}
  <2>1. found \subseteq start..end
    BY <1>2
  <2>2. m \in found /\ \A u \in start..(m - 1) : u \notin found
    BY <1>3, <1>5, <2>1, WalkIs
  <2>3. NextFire(e, from) = Canonical(m)
    BY <1>1, <1>5
  <2> HIDE DEF m, start
  <2>4. m \in Int /\ start <= m /\ m <= end /\ IsExisting(Wall(m)) /\ Matches(e, Wall(m))
    BY <1>2, <1>3, <2>2
  <2>5. ASSUME NEW u \in start..(m - 1) PROVE ~(IsExisting(Wall(u)) /\ Matches(e, Wall(u)))
    <3>1. u \in start..end
      BY <1>3, <2>4
    <3> QED BY <1>2, <2>2, <3>1
  <2> QED BY <2>3, <2>4, <2>5 DEF start
<1> QED BY <1>4, <1>5

(* The clock of a schedule does not change.                                *)
LEMMA ZoneStays ==
  ASSUME zone' = zone
  PROVE  \A u : /\ Wall(u)' = Wall(u) /\ Canonical(u)' = Canonical(u)
                /\ ToUtc(Wall(u), 0)' = ToUtc(Wall(u), 0)
                /\ IsExisting(Wall(u))' = IsExisting(Wall(u))
<1> QED BY DEF Wall, Canonical, IsAmbiguous, IsExisting, ToUtc

LEMMA DueStays ==
  ASSUME zone' = zone, expr' = expr
  PROVE  \A u : Due(u)' = Due(u)
<1>1. \A u : Matches(expr, Wall(u))' = Matches(expr, Wall(u))
  BY ZoneStays DEF Matches
<1> QED BY <1>1, ZoneStays DEF Due

LEMMA CronInitInv == CronInit => CronInv /\ Announced
<1> SUFFICES ASSUME CronInit PROVE CronInv /\ Announced
  OBVIOUS
<1>1. Clock
  <2>1. zone \in Zones /\ ticked \in BOOLEAN /\ fired \subseteq Int
    BY DEF CronInit
  <2>2. now \in Nat /\ since \in Nat /\ since <= now + 1
    BY DEF CronInit
  <2>3. last = Nothing /\ promise = Nothing /\ fired = {}
    BY DEF CronInit
  <2> QED BY <2>1, <2>2, <2>3 DEF Clock
<1> QED BY <1>1 DEF CronInit, CronInv, FirstOnes, Fresh, Behind, Caught, Announced

(* A new schedule has nothing to catch up with.                            *)
LEMMA AddScheduleStep ==
  ASSUME CronInv, NEW text \in Expressions, AddSchedule(text)
  PROVE  /\ CronInv' /\ Announced'
         /\ expr' # Nothing
<1> USE CronBoundsAssumption
<1>0. /\ Clock /\ expr = Nothing /\ last = Nothing /\ fired = {}
      /\ promise' = NextFire(expr', now) /\ since' = now + 1
      /\ UNCHANGED <<zone, now, ticked, last, fired>>
  BY DEF CronInv, Clock, AddSchedule
<1>1. expr' # Nothing
  BY ExpressionsAssumption DEF AddSchedule
<1>2. now \in Int /\ now \in Nat
  BY <1>0 DEF Clock
<1>3. \/ promise' = Nothing
      \/ \E m \in Int :
           /\ now + 1 <= m /\ promise' = Canonical(m)
           /\ IsExisting(Wall(m)) /\ Matches(expr', Wall(m))
           /\ \A u \in (now + 1)..(m - 1) : ~(IsExisting(Wall(u)) /\ Matches(expr', Wall(u)))
  BY <1>0, <1>2, NextFireIs
<1>4. promise' \in Int \cup {Nothing}
  BY <1>0, <1>3, CanonicalIs DEF Clock
<1>5. Clock'
  BY <1>0, <1>1, <1>2, <1>4 DEF Clock
<1>6. FirstOnes' /\ Behind'
  BY <1>0 DEF FirstOnes, Behind
<1>7. Fresh' /\ Caught'
  BY <1>0, <1>2 DEF Fresh, Caught
<1>8. ASSUME promise' # Nothing PROVE \E m \in Int : Foretold(m)'
  <2>1. PICK m \in Int :
           /\ now + 1 <= m /\ promise' = Canonical(m)
           /\ IsExisting(Wall(m)) /\ Matches(expr', Wall(m))
           /\ \A u \in (now + 1)..(m - 1) : ~(IsExisting(Wall(u)) /\ Matches(expr', Wall(u)))
    BY <1>3, <1>8
  <2>2. \A u : Due(u)' <=> IsExisting(Wall(u)) /\ Matches(expr', Wall(u))
    <3>1. \A u : Matches(expr, Wall(u))' <=> Matches(expr', Wall(u))
      BY <1>0, ZoneStays DEF Matches
    <3> QED BY <1>0, <3>1, ZoneStays DEF Due
  <2>3. promise' = Canonical(m)' /\ Due(m)' /\ Quiet(since, m - 1)'
    BY <1>0, <2>1, <2>2, ZoneStays DEF Quiet
  <2>4. Before(m)' /\ since' <= m /\ last' = Nothing
    BY <1>0, <1>2, <2>1 DEF Before
  <2> QED BY <2>3, <2>4 DEF Foretold
<1> QED BY <1>1, <1>5, <1>6, <1>7, <1>8 DEF CronInv, Announced

(* What a tick does.                                                       *)
LEMMA TickIs ==
  ASSUME Clock, Tick
  PROVE  /\ ticked' = TRUE /\ UNCHANGED <<zone, now, expr, since, promise>>
         /\ \/ /\ UNCHANGED <<last, fired>>
               /\ \/ expr = Nothing
                  \/ \A u \in From..now : Due(u) => now - u > Window
                  \/ \E v \in From..now :
                       /\ Due(v) /\ now - v <= Window /\ Canonical(v) \in fired
                       /\ \A u \in From..(v - 1) : Due(u) => now - u > Window
            \/ /\ expr # Nothing
               /\ \E v \in From..now :
                    /\ Due(v) /\ now - v <= Window /\ Canonical(v) \notin fired
                    /\ last' = Canonical(v) /\ fired' = fired \cup {Canonical(v)}
                    /\ \A u \in From..(v - 1) : Due(u) => now - u > Window
<1>1. ticked' = TRUE /\ UNCHANGED <<zone, now, expr, since, promise>>
  BY DEF Tick
<1>2. CASE expr = Nothing
  BY <1>1, <1>2 DEF Tick
<1>3. CASE expr # Nothing
  <2>1. CASE IsDue(expr) = Nothing /\ \A u \in From..now : Due(u) => now - u > Window
    BY <1>1, <1>3, <2>1 DEF Tick
  <2>2. ASSUME NEW v \in From..now,
               Due(v), now - v <= Window, IsDue(expr) = Canonical(v),
               \A u \in From..(v - 1) : Due(u) => now - u > Window
        PROVE  \/ /\ UNCHANGED <<last, fired>> /\ Canonical(v) \in fired
               \/ /\ last' = Canonical(v) /\ fired' = fired \cup {Canonical(v)}
                  /\ Canonical(v) \notin fired
    <3>1. From \in Int /\ now \in Int
      BY DEF Clock, From
    <3>2. Canonical(v) # Nothing
      BY <3>1, CanonicalIs, NothingAssumption DEF Clock
    <3> QED BY <1>3, <2>2, <3>2 DEF Tick
  <2> QED BY <1>1, <1>3, <2>1, <2>2, IsDueIs
<1> QED BY <1>2, <1>3

(* A tick takes the oldest minute of the window that is not taken.         *)
LEMMA TickStep == CronInv /\ Tick => CronInv'
<1> SUFFICES ASSUME CronInv, Tick PROVE CronInv'
  OBVIOUS
<1> USE CronBoundsAssumption
<1>0. Clock /\ FirstOnes /\ Fresh /\ Behind /\ Caught
  BY DEF CronInv
<1>1. ticked' = TRUE /\ UNCHANGED <<zone, now, expr, since, promise>>
  BY <1>0, TickIs
<1>2. \A u : Due(u)' = Due(u) /\ Canonical(u)' = Canonical(u)
              /\ ToUtc(Wall(u), 0)' = ToUtc(Wall(u), 0)
  BY <1>1, ZoneStays, DueStays
<1>3. now \in Int /\ since \in Int /\ Window \in Int /\ From \in Int /\ Window >= 0
  BY <1>0 DEF Clock, From
<1>4. ASSUME expr # Nothing, NEW u \in since..now, Due(u), u < From PROVE Canonical(u) \in fired
  <2>1. CASE last = Nothing
    <3>1. u = now /\ From = now
      BY <1>0, <1>4, <2>1 DEF From, Fresh
    <3> QED BY <1>3, <1>4, <3>1
  <2>2. CASE last # Nothing
    BY <1>0, <1>3, <1>4, <2>2 DEF From, Behind, Clock
  <2> QED BY <2>1, <2>2
<1>5. ASSUME UNCHANGED <<last, fired>>,
             \/ expr = Nothing
             \/ \A u \in From..now : Due(u) => now - u > Window
             \/ \E v \in From..now :
                  /\ Due(v) /\ now - v <= Window /\ Canonical(v) \in fired
                  /\ \A u \in From..(v - 1) : Due(u) => now - u > Window
      PROVE  CronInv'
  <2>1. Clock' /\ FirstOnes' /\ Behind'
    BY <1>0, <1>1, <1>2, <1>5 DEF Clock, FirstOnes, Behind
  <2>2. Fresh'
    <3> SUFFICES ASSUME expr # Nothing, last = Nothing, NEW u \in since..now, Due(u) PROVE FALSE
      BY <1>1, <1>2, <1>5 DEF Fresh
    <3>1. u = now /\ From = now /\ fired = {}
      BY <1>0 DEF Fresh, From, Clock
    <3> QED BY <1>3, <1>5, <3>1
  <2>3. Caught'
    <3> SUFFICES ASSUME expr # Nothing, NEW u \in since..now, Due(u), u <= now - Window
                 PROVE  Canonical(u) \in fired
      BY <1>1, <1>2, <1>3, <1>5 DEF Caught
    <3>1. CASE u < now - Window
      BY <1>0, <3>1 DEF Caught
    <3>2. CASE u < From
      BY <1>4, <3>2
    <3>3. CASE u = now - Window /\ ~(u < From)
      <4>1. u \in From..now /\ now - u = Window
        BY <1>3, <3>3
      <4>2. PICK v \in From..now :
              /\ Due(v) /\ now - v <= Window /\ Canonical(v) \in fired
              /\ \A x \in From..(v - 1) : Due(x) => now - x > Window
        BY <1>3, <1>5, <4>1
      <4>3. u = v
        BY <1>3, <4>1, <4>2
      <4> QED BY <4>2, <4>3
    <3> QED BY <1>3, <3>1, <3>2, <3>3
  <2> QED BY <2>1, <2>2, <2>3 DEF CronInv
<1>6. ASSUME NEW v \in From..now, Due(v), now - v <= Window, expr # Nothing,
             last' = Canonical(v), fired' = fired \cup {Canonical(v)},
             \A u \in From..(v - 1) : Due(u) => now - u > Window
      PROVE  CronInv'
  <2> DEFINE c == Canonical(v)
  <2>0. /\ v \in Int /\ c \in Int /\ c <= v /\ v <= now /\ c # Nothing
        /\ c = ToUtc(Wall(v), 0) /\ Wall(c) = Wall(v)
    BY <1>0, <1>3, CanonicalIs, NothingAssumption DEF Clock
  <2>00. last' = c /\ fired' = fired \cup {c}
    BY <1>6
  <2> HIDE DEF c
  <2>1. Clock'
    <3>1. last' <= now' /\ last' # Nothing /\ last' \in Int
      BY <1>1, <1>3, <2>0, <2>00
    <3>2. last' \in fired' /\ fired' \subseteq Int
      BY <1>0, <2>0, <2>00 DEF Clock
    <3> QED BY <1>0, <1>1, <1>6, <3>1, <3>2 DEF Clock
  <2>2. FirstOnes'
    <3>1. c = ToUtc(Wall(c), 0)
      BY <2>0
    <3> QED BY <1>0, <1>2, <2>00, <3>1 DEF FirstOnes
  <2>3. Fresh'
    BY <2>0, <2>00 DEF Fresh
  <2>4. Behind'
    <3> SUFFICES ASSUME NEW u \in since..now, u <= c, Due(u) PROVE Canonical(u) \in fired'
      BY <1>1, <1>2, <2>00 DEF Behind
    <3>1. CASE u < From
      BY <1>4, <1>6, <2>00, <3>1
    <3>2. CASE u = v
      BY <2>00, <3>2 DEF c
    <3>3. CASE ~(u < From) /\ u # v
      <4>1. u \in From..(v - 1)
        BY <1>3, <2>0, <3>3
      <4>2. u < now - Window
        BY <1>3, <1>6, <4>1
      <4> QED BY <1>0, <1>6, <2>00, <4>2 DEF Caught
    <3> QED BY <3>1, <3>2, <3>3
  <2>5. Caught'
    <3> SUFFICES ASSUME NEW u \in since..now, Due(u), u <= now - Window
                 PROVE  Canonical(u) \in fired'
      BY <1>1, <1>2, <1>3 DEF Caught
    <3>1. CASE u < now - Window
      BY <1>0, <1>6, <2>00, <3>1 DEF Caught
    <3>2. CASE u < From
      BY <1>4, <1>6, <2>00, <3>2
    <3>3. CASE u = now - Window /\ ~(u < From)
      <4>1. u = v
        BY <1>3, <1>6, <2>0, <3>3
      <4> QED BY <2>00, <4>1 DEF c
    <3> QED BY <1>3, <3>1, <3>2, <3>3
  <2> QED BY <2>1, <2>2, <2>3, <2>4, <2>5 DEF CronInv
<1> QED BY <1>0, <1>5, <1>6, TickIs

LEMMA MinutePassesStep == CronInv /\ MinutePasses => CronInv'
<1> SUFFICES ASSUME CronInv, MinutePasses PROVE CronInv'
  OBVIOUS
<1> USE CronBoundsAssumption
<1>0. Clock /\ FirstOnes /\ Fresh /\ Behind /\ Caught
  BY DEF CronInv
<1>1. /\ ticked /\ now' = now + 1 /\ ticked' = FALSE
      /\ UNCHANGED <<zone, expr, last, fired, since, promise>>
  BY DEF MinutePasses
<1>2. \A u : Due(u)' = Due(u) /\ Canonical(u)' = Canonical(u)
              /\ ToUtc(Wall(u), 0)' = ToUtc(Wall(u), 0)
  BY <1>1, ZoneStays, DueStays
<1>3. now \in Int /\ since \in Int /\ Window \in Int /\ Window >= 0
  BY <1>0 DEF Clock
<1>4. Clock'
  <2>1. now' \in Nat /\ since' <= now' + 1 /\ (last' # Nothing => last' <= now')
    BY <1>0, <1>1, <1>3 DEF Clock
  <2> QED BY <1>0, <1>1, <2>1 DEF Clock
<1>5. FirstOnes'
  BY <1>0, <1>1, <1>2 DEF FirstOnes
<1>6. Fresh'
  <2> SUFFICES ASSUME expr # Nothing, last = Nothing, NEW u \in since..(now + 1), Due(u)
               PROVE  u = now + 1
    BY <1>1, <1>2 DEF Fresh
  <2>1. CASE u \in since..now
    BY <1>0, <1>1, <2>1 DEF Fresh
  <2> QED BY <1>3, <2>1
<1>7. Behind'
  <2> SUFFICES ASSUME last # Nothing, NEW u \in since..(now + 1), u <= last, Due(u)
               PROVE  Canonical(u) \in fired
    BY <1>1, <1>2 DEF Behind
  <2>1. u \in since..now
    BY <1>0, <1>3, NothingAssumption DEF Clock
  <2> QED BY <1>0, <2>1 DEF Behind
<1>8. Caught'
  <2> SUFFICES ASSUME expr # Nothing, NEW u \in since..(now + 1), Due(u), u < (now + 1) - Window
               PROVE  Canonical(u) \in fired
    BY <1>1, <1>2 DEF Caught
  <2>1. u \in since..now /\ (u < now - Window \/ u = now - Window)
    BY <1>3
  <2> QED BY <1>0, <1>1, <2>1 DEF Caught
<1> QED BY <1>4, <1>5, <1>6, <1>7, <1>8 DEF CronInv

(* A pause starts the count of minutes anew.                               *)
LEMMA MissStep ==
  ASSUME CronInv, NEW minutes \in 1..(Window + 2), Miss(minutes)
  PROVE  CronInv' /\ promise' = Nothing
<1> USE CronBoundsAssumption
<1>0. Clock /\ FirstOnes
  BY DEF CronInv
<1>1. /\ now' = now + minutes /\ ticked' = FALSE /\ since' = now' /\ promise' = Nothing
      /\ UNCHANGED <<zone, expr, last, fired>>
  BY DEF Miss
<1>2. \A u : Due(u)' = Due(u) /\ Canonical(u)' = Canonical(u)
              /\ ToUtc(Wall(u), 0)' = ToUtc(Wall(u), 0)
  BY <1>1, ZoneStays, DueStays
<1>3. now \in Nat /\ minutes \in Int /\ minutes > 0 /\ Window \in Int /\ Window >= 0
  BY <1>0 DEF Clock
<1>4. Clock'
  <2>1. now' \in Nat /\ since' \in Nat /\ since' <= now' + 1 /\ (last' # Nothing => last' <= now')
    BY <1>0, <1>1, <1>3 DEF Clock
  <2> QED BY <1>0, <1>1, <2>1 DEF Clock
<1>5. FirstOnes'
  BY <1>0, <1>1, <1>2 DEF FirstOnes
<1>6. \A u \in since'..now' : u = now' /\ u > now
  BY <1>1, <1>3
<1>7. Fresh'
  BY <1>1, <1>6 DEF Fresh
<1>8. Behind'
  <2>1. last # Nothing => last \in Int /\ last <= now
    BY <1>0 DEF Clock
  <2>2. ASSUME last # Nothing, NEW u \in since'..now', u <= last PROVE FALSE
    BY <1>1, <1>3, <1>6, <2>1, <2>2
  <2> QED BY <1>1, <2>2 DEF Behind
<1>9. Caught'
  <2>1. ASSUME NEW u \in since'..now', u < now' - Window PROVE FALSE
    BY <1>1, <1>3, <1>6, <2>1
  <2> QED BY <1>1, <2>1 DEF Caught
<1> QED BY <1>1, <1>4, <1>5, <1>7, <1>8, <1>9 DEF CronInv

LEMMA CronUnchanged ==
  ASSUME UNCHANGED cronVars
  PROVE  /\ CronInv => CronInv'
         /\ Announced => Announced'
<1>1. UNCHANGED <<zone, now, ticked, expr, last, fired, since, promise>>
  BY DEF cronVars
<1>2. \A u : Due(u)' = Due(u) /\ Canonical(u)' = Canonical(u)
              /\ ToUtc(Wall(u), 0)' = ToUtc(Wall(u), 0)
  BY <1>1, ZoneStays, DueStays
<1>3. CronInv => CronInv'
  BY <1>1, <1>2 DEF CronInv, Clock, FirstOnes, Fresh, Behind, Caught
<1>4. \A m : Foretold(m) => Foretold(m)'
  BY <1>1, <1>2 DEF Foretold, Quiet, Before
<1> QED BY <1>1, <1>3, <1>4 DEF Announced

LEMMA CronNextInv == CronInv /\ [CronNext]_cronVars => CronInv'
<1> QED BY AddScheduleStep, TickStep, MinutePassesStep, MissStep, CronUnchanged DEF CronNext

(* The inductive invariant of the schedule.                                *)
THEOREM CronInvariant == CronSpec => []CronInv
<1> QED BY CronInitInv, CronNextInv, PTL DEF CronSpec

(* No wall-clock minute fires twice, for any expression and any change of  *)
(* the clock.                                                              *)
THEOREM FiresOncePerWallMinute == CronSpec => []OncePerWallMinute
<1>1. CronInv => OncePerWallMinute
  BY DEF CronInv, FirstOnes, OncePerWallMinute
<1> QED BY <1>1, CronInvariant, PTL

(* No minute that the loop was there for is lost.                          *)
THEOREM NothingLost == CronSpec => []NothingIsLost
<1>1. CronInv => NothingIsLost
  <2> SUFFICES ASSUME CronInv, expr # Nothing, NEW u \in since..(now - Window - 1),
                      u \in Candidates(expr, u, u)
               PROVE  Canonical(u) \in fired
    BY DEF NothingIsLost
  <2>1. Due(u)
    BY DEF Candidates, Due
  <2>2. now \in Int /\ since \in Int /\ Window \in Int /\ Window >= 0
    BY CronBoundsAssumption DEF CronInv, Clock
  <2>3. u \in since..now /\ u < now - Window
    BY <2>2
  <2> QED BY <2>1, <2>3 DEF CronInv, Caught
<1> QED BY <1>1, CronInvariant, PTL

(* The minutes among which is_due chooses, in the words of Scheduler, to   *)
(* which the minutes an expression matches are given.                      *)
DueMinutes ==
  {m \in Int : /\ Due(m) /\ m <= now /\ now - m <= Window
               /\ IF last = Nothing THEN m = now ELSE m > last}

SchedulersRule ==
  expr # Nothing /\ zone.before <= zone.after =>
    IF DueMinutes = {} THEN IsDue(expr) = Nothing
    ELSE IsDue(expr) \in DueMinutes /\ \A other \in DueMinutes : IsDue(expr) <= other

(* What Scheduler assumes of is_due holds wherever no clock is set back:   *)
(* it returns the oldest matching minute after last_fire_at that is inside *)
(* the window, and nothing only if there is none.                          *)
THEOREM TakesTheOldest == CronSpec => []SchedulersRule
<1>1. ASSUME Clock, zone.before <= zone.after, expr # Nothing
      PROVE  IF DueMinutes = {} THEN IsDue(expr) = Nothing
             ELSE IsDue(expr) \in DueMinutes /\ \A other \in DueMinutes : IsDue(expr) <= other
  <2>1. /\ zone \in Zones /\ now \in Int /\ last \in Int \cup {Nothing} /\ Window \in Int
        /\ zone.before \in Int /\ zone.after \in Int /\ From \in Int
    BY <1>1, CronBoundsAssumption, ZonesAssumption DEF Clock, From
  <2>2. \A m : m \in DueMinutes <=> m \in From..now /\ Due(m) /\ now - m <= Window
    BY <2>1 DEF DueMinutes, From
  <2>3. \A u \in Int : Canonical(u) = u
    BY <1>1, <2>1, CanonicalIs
  <2>4. CASE IsDue(expr) = Nothing /\ \A u \in From..now : Due(u) => now - u > Window
    BY <2>1, <2>2, <2>4
  <2>5. ASSUME NEW v \in From..now, Due(v), now - v <= Window, IsDue(expr) = Canonical(v),
               \A u \in From..(v - 1) : Due(u) => now - u > Window
        PROVE  IsDue(expr) \in DueMinutes /\ \A other \in DueMinutes : IsDue(expr) <= other
    <3>1. IsDue(expr) = v /\ v \in DueMinutes
      BY <2>1, <2>2, <2>3, <2>5
    <3>2. ASSUME NEW other \in DueMinutes PROVE v <= other
      BY <2>1, <2>2, <2>5, <3>2
    <3> QED BY <3>1, <3>2
  <2> QED BY <1>1, <2>4, <2>5, IsDueIs
<1>2. CronInv => SchedulersRule
  BY <1>1 DEF CronInv, SchedulersRule
<1> QED BY <1>2, CronInvariant, PTL

(* A minute and its mirror in the repeated hour are due together.          *)
LEMMA MirrorIs ==
  ASSUME zone \in Zones, zone.before > zone.after, NEW u \in Int,
         u < zone.at, u + (zone.before - zone.after) >= zone.at
  PROVE  Due(u + (zone.before - zone.after)) <=> Due(u)
<1>1. zone.at \in Int /\ zone.before \in Int /\ zone.after \in Int
  BY ZonesAssumption
<1>2. Wall(u + (zone.before - zone.after)) = Wall(u)
  BY <1>1 DEF Wall
<1> QED BY <1>2 DEF Due

(* The announced minute comes as one of the four ways say, as long as the  *)
(* clock is not set back by more than the window.                          *)
LEMMA TickForetold ==
  ASSUME \A z \in Zones : z.before - z.after <= Window,
         CronInv, Tick, promise # Nothing, NEW m \in Int, Foretold(m)
  PROVE  Foretold(m)'
<1> USE CronBoundsAssumption
<1> DEFINE j == zone.before - zone.after
<1>0. Clock /\ FirstOnes /\ Fresh /\ expr # Nothing
  BY DEF CronInv, Clock
<1>1. ticked' = TRUE /\ UNCHANGED <<zone, now, expr, since, promise>>
  BY <1>0, TickIs
<1>2. \A u : Due(u)' = Due(u) /\ Canonical(u)' = Canonical(u)
  BY <1>1, ZoneStays, DueStays
<1>3. /\ now \in Int /\ since \in Int /\ since <= now + 1 /\ Window \in Int /\ From \in Int
      /\ zone.at \in Int /\ j \in Int /\ j <= Window /\ zone \in Zones /\ Window >= 0
      /\ zone.before \in Int /\ zone.after \in Int
  BY <1>0, ZonesAssumption DEF Clock, From
<1>4. /\ since <= m /\ promise = Canonical(m) /\ Due(m)
      /\ \A u \in since..(m - 1) : ~Due(u)
  BY DEF Foretold, Quiet
<1>5. /\ promise \in Int /\ promise <= m /\ Wall(promise) = Wall(m)
      /\ promise # m => /\ zone.before > zone.after /\ promise = m - j
                        /\ promise < zone.at /\ zone.at <= m
  BY <1>3, <1>4, CanonicalIs
<1> DEFINE FourWays ==
      \/ promise \in fired \/ promise = m
      \/ Before(m) /\ (last # Nothing => Quiet(last + 1, m - 1))
      \/ /\ Before(since) /\ promise < since
         /\ last # Nothing /\ last < promise /\ Quiet(last + 1, promise - 1)
<1>6. SUFFICES FourWays'
  <2>1. Quiet(since, m - 1)'
    BY <1>1, <1>2, <1>4 DEF Quiet
  <2> QED BY <1>1, <1>2, <1>4, <2>1 DEF Foretold
<1>7. SUFFICES ASSUME promise \notin fired', promise # m PROVE FourWays'
  BY <1>1
<1>8. /\ zone.before > zone.after /\ promise = m - j /\ promise < m
      /\ promise < zone.at /\ zone.at <= m
  BY <1>3, <1>5, <1>7
<1>9. promise \notin fired
  BY <1>0, <1>7, TickIs
<1>10. Canonical(promise) = promise
  BY <1>3, <1>5, <1>8, CanonicalIs
<1> HIDE DEF j
<1>11. \/ /\ UNCHANGED <<last, fired>>
          /\ \/ \A u \in From..now : Due(u) => now - u > Window
             \/ \E v \in From..now :
                  /\ Due(v) /\ now - v <= Window /\ Canonical(v) \in fired
                  /\ \A u \in From..(v - 1) : Due(u) => now - u > Window
       \/ \E v \in From..now :
            /\ Due(v) /\ now - v <= Window
            /\ last' = Canonical(v) /\ fired' = fired \cup {Canonical(v)}
            /\ \A u \in From..(v - 1) : Due(u) => now - u > Window
  BY <1>0, TickIs
<1>12. CASE Before(m) /\ (last # Nothing => Quiet(last + 1, m - 1))
  <2>1. now <= m /\ (now = m => ~ticked)
    BY <1>12, <1>3 DEF Before
  <2>2. ASSUME NEW v \in From..now, Due(v)
        PROVE  v = m \/ (last = Nothing /\ v = now /\ now < since)
    <3>1. CASE last # Nothing
      BY <1>3, <1>12, <2>1, <2>2, <3>1 DEF From, Quiet
    <3>2. CASE last = Nothing
      <4>1. v = now
        BY <1>3, <2>2, <3>2 DEF From
      <4> QED BY <1>3, <1>4, <2>1, <2>2, <3>2, <4>1
    <3> QED BY <3>1, <3>2
  <2>3. m = now => From <= m
    <3>1. ASSUME last # Nothing, last = m PROVE FALSE
      <4>1. m = ToUtc(Wall(m), 0)
        BY <1>0, <3>1 DEF Clock, FirstOnes
      <4> QED BY <1>3, <1>4, <1>7, <4>1, CanonicalIs
    <3>2. last # Nothing => last \in Int /\ last <= now
      BY <1>0 DEF Clock
    <3> QED BY <1>3, <3>1, <3>2 DEF From
  <2>4. CASE UNCHANGED <<last, fired>> /\ now < m
    BY <1>1, <1>2, <1>12, <2>4 DEF Before, Quiet
  <2>5. CASE UNCHANGED <<last, fired>> /\ now = m
    <3>1. m \in From..now /\ ~(now - m > Window)
      BY <1>3, <2>3, <2>5
    <3>2. PICK v \in From..now :
                 /\ Due(v)
                 /\ \/ Canonical(v) \in fired
                    \/ last' = Canonical(v) /\ fired' = fired \cup {Canonical(v)}
      BY <1>4, <1>11, <3>1
    <3>3. v = m
      BY <1>3, <1>4, <2>2, <2>5, <3>2
    <3> QED BY <1>4, <1>7, <1>9, <3>2, <3>3
  <2>6. ASSUME NEW v \in From..now, Due(v), last' = Canonical(v), fired' = fired \cup {Canonical(v)}
        PROVE  FourWays'
    <3>0. v \in Int /\ v # m
      BY <1>3, <1>4, <1>7, <2>6
    <3>1. last = Nothing /\ v = now /\ now < since
      BY <2>2, <2>6, <3>0
    <3>2. v + 1 = since /\ v < m
      BY <1>3, <1>4, <3>0, <3>1
    <3>3. CASE Canonical(v) = v
      <4>1. Before(m)' /\ Quiet(last + 1, m - 1)'
        BY <1>1, <1>2, <1>4, <2>6, <3>1, <3>2, <3>3 DEF Before, Quiet
      <4> QED BY <4>1
    <3>4. CASE Canonical(v) # v
      <4>1. /\ Canonical(v) = v - j /\ Canonical(v) \in Int /\ zone.at <= v
            /\ Canonical(v) # Nothing
        BY <1>3, <3>0, <3>4, CanonicalIs, NothingAssumption DEF j
      <4>2. last' # Nothing /\ last' < promise /\ promise < since
        BY <1>3, <1>5, <1>8, <2>6, <3>0, <3>1, <3>2, <4>1
      <4>3. ASSUME NEW u \in (last' + 1)..(promise - 1), Due(u) PROVE FALSE
        <5>1. u \in Int /\ u < zone.at /\ u + j >= zone.at /\ u + j \in since..(m - 1)
          BY <1>3, <1>5, <1>8, <2>6, <3>0, <3>2, <4>1
        <5>2. Due(u + j)
          BY <1>3, <1>8, <4>3, <5>1, MirrorIs DEF j
        <5> QED BY <1>4, <5>1, <5>2
      <4>4. Before(since)'
        BY <1>1, <3>1 DEF Before
      <4>5. Quiet(last + 1, promise - 1)'
        BY <1>1, <1>2, <4>3 DEF Quiet
      <4> QED BY <1>1, <4>2, <4>4, <4>5
    <3> QED BY <3>3, <3>4
  <2>7. CASE UNCHANGED <<last, fired>>
    BY <1>3, <2>1, <2>4, <2>5, <2>7
  <2> QED BY <1>11, <2>6, <2>7
<1>13. CASE /\ Before(since) /\ promise < since
            /\ last # Nothing /\ last < promise /\ Quiet(last + 1, promise - 1)
  <2>1. From = last + 1 /\ last \in Int /\ now <= since
    BY <1>0, <1>3, <1>13 DEF From, Clock, Before
  <2>2. promise \in From..now /\ now - promise <= Window
    BY <1>3, <1>4, <1>5, <1>8, <1>13, <2>1
  <2>3. Due(promise)
    BY <1>4, <1>5 DEF Due
  <2>4. PICK v \in From..now :
          /\ Due(v) /\ (Canonical(v) \in fired \/ fired' = fired \cup {Canonical(v)})
          /\ \A u \in From..(v - 1) : Due(u) => now - u > Window
    BY <1>3, <1>5, <1>11, <2>2, <2>3
  <2>5. v = promise
    <3>1. ~(v < promise)
      BY <1>3, <1>5, <1>13, <2>1, <2>4 DEF Quiet
    <3>2. ~(v > promise)
      BY <1>3, <1>5, <2>2, <2>3, <2>4
    <3> QED BY <1>3, <1>5, <3>1, <3>2
  <2> QED BY <1>7, <1>9, <1>10, <2>4, <2>5
<1> QED BY <1>7, <1>9, <1>12, <1>13 DEF Foretold

LEMMA PassesForetold ==
  ASSUME CronInv, MinutePasses, NEW m \in Int, Foretold(m)
  PROVE  Foretold(m)'
<1>1. /\ ticked = TRUE /\ now' = now + 1 /\ ticked' = FALSE
      /\ UNCHANGED <<zone, expr, last, fired, since, promise>>
      /\ now \in Int /\ since \in Int
  BY DEF MinutePasses, CronInv, Clock
<1>2. \A u : Due(u)' = Due(u) /\ Canonical(u)' = Canonical(u)
  BY <1>1, ZoneStays, DueStays
<1>3. /\ since' <= m /\ promise' = Canonical(m)' /\ Due(m)' /\ Quiet(since, m - 1)'
  BY <1>1, <1>2 DEF Foretold, Quiet
<1>4. (Before(m) => Before(m)') /\ (Before(since) => Before(since)')
  BY <1>1 DEF Before
<1>5. /\ Quiet(last + 1, m - 1) => Quiet(last + 1, m - 1)'
      /\ Quiet(last + 1, promise - 1) => Quiet(last + 1, promise - 1)'
  BY <1>1, <1>2 DEF Quiet
<1>6. \/ promise \in fired \/ promise = m
      \/ Before(m) /\ (last # Nothing => Quiet(last + 1, m - 1))
      \/ /\ Before(since) /\ promise < since
         /\ last # Nothing /\ last < promise /\ Quiet(last + 1, promise - 1)
  BY DEF Foretold
<1> QED BY <1>1, <1>3, <1>4, <1>5, <1>6 DEF Foretold

LEMMA AnnouncedStep ==
  ASSUME \A z \in Zones : z.before - z.after <= Window
  PROVE  CronInv /\ Announced /\ [CronNext]_cronVars => Announced'
<1> SUFFICES ASSUME CronInv, Announced, [CronNext]_cronVars PROVE Announced'
  OBVIOUS
<1>1. CASE Tick
  <2> SUFFICES ASSUME promise' # Nothing PROVE \E m \in Int : Foretold(m)'
    BY DEF Announced
  <2>1. promise # Nothing
    BY <1>1 DEF Tick
  <2> QED BY <1>1, <2>1, TickForetold DEF Announced
<1>2. CASE MinutePasses
  <2> SUFFICES ASSUME promise' # Nothing PROVE \E m \in Int : Foretold(m)'
    BY DEF Announced
  <2>1. promise # Nothing
    BY <1>2 DEF MinutePasses
  <2> QED BY <1>2, <2>1, PassesForetold DEF Announced
<1>3. CASE \E text \in Expressions : AddSchedule(text)
  BY <1>3, AddScheduleStep
<1>4. ASSUME NEW minutes \in 1..(Window + 2), Miss(minutes) PROVE Announced'
  BY <1>4, MissStep DEF Announced
<1>5. CASE UNCHANGED cronVars
  BY <1>5, CronUnchanged
<1> QED BY <1>1, <1>2, <1>3, <1>4, <1>5 DEF CronNext

(* What next_fire has announced is what is_due makes the loop insert, as   *)
(* long as the catch-up window is not shorter than what the clock is set   *)
(* back by (one hour and one hour, as a rule).                             *)
THEOREM PromiseKept ==
  ASSUME \A z \in Zones : z.before - z.after <= Window
  PROVE  CronSpec => []PromiseIsKept
<1>1. CronInv /\ Announced => PromiseIsKept
  <2> SUFFICES ASSUME CronInv, Announced, promise # Nothing, now > promise + Window + 1, ticked
               PROVE  promise \in fired
    BY DEF PromiseIsKept
  <2>1. PICK m \in Int : Foretold(m)
    BY DEF Announced
  <2>2. /\ now \in Int /\ since \in Int /\ zone \in Zones /\ Window \in Int /\ Window >= 0
        /\ promise \in Int /\ expr # Nothing
        /\ zone.before \in Int /\ zone.after \in Int
    BY CronBoundsAssumption, ZonesAssumption DEF CronInv, Clock
  <2>3. /\ since <= m /\ promise = Canonical(m) /\ Due(m)
        /\ promise # m => promise = m - (zone.before - zone.after)
    BY <2>1, <2>2, CanonicalIs DEF Foretold
  <2>4. CASE promise = m
    <3>1. m \in since..now /\ m < now - Window
      BY <2>2, <2>3, <2>4
    <3> QED BY <2>2, <2>3, <3>1 DEF CronInv, Caught
  <2>5. CASE promise # m
    <3>1. zone.before - zone.after <= Window
      BY <2>2
    <3>2. m <= promise + Window
      BY <2>2, <2>3, <2>5, <3>1
    <3>3. ~Before(m) /\ ~Before(since)
      BY <2>2, <2>3, <3>2 DEF Before
    <3> QED BY <2>1, <2>5, <3>3 DEF Foretold
  <2> QED BY <2>4, <2>5
<1>2. CronInv /\ Announced /\ [CronNext]_cronVars => (CronInv /\ Announced)'
  BY CronNextInv, AnnouncedStep
<1> QED BY <1>1, <1>2, CronInitInv, PTL DEF CronSpec

=============================================================================
