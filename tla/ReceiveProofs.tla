--------------------------- MODULE ReceiveProofs ----------------------------
(***************************************************************************)
(* The Noticeboard keeps its dummies and their ids together, and with its  *)
(* churns and prunings, under the queries of the Receive screen, it        *)
(* implements the plain list of pending deposits.  The argument is about   *)
(* lists: what filters return is proved first, by induction.               *)
(***************************************************************************)
EXTENDS Receive, FiniteSetTheorems, SequenceTheorems, WellFoundedInduction, TLAPS

-----------------------------------------------------------------------------
(* Filters *)

\* A non-empty set of naturals has a least element.
LEMMA Least ==
  ASSUME NEW N \in SUBSET Nat, N # {}
  PROVE  \E n \in N : \A m \in N : n <= m
<1> DEFINE R == OpToRel(<, Nat)
<1>1. \A m, n \in Nat : m < n => <<m, n>> \in R
  BY DEF OpToRel
<1>2. IsWellFoundedOn(R, Nat)
  BY NatLessThanWellFounded
<1> HIDE DEF R
<1>3. PICK n \in N : \A m \in N : ~ (<<m, n>> \in R)
  BY <1>2, WFMin
<1>4. ASSUME NEW m \in N PROVE n <= m
  <2>1. m \in Nat /\ n \in Nat
    OBVIOUS
  <2>2. ~ (m < n)
    BY <1>1, <1>3, <2>1
  <2> QED
    BY <2>1, <2>2
<1> QED
  BY <1>4

\* Induction over sequences: a collection of sequences that is not empty has
\* one that is empty or whose front is not in the collection.
LEMMA Shortest ==
  ASSUME NEW S, NEW B \in SUBSET Seq(S), B # {}
  PROVE  << >> \in B \/ \E t \in Seq(S) \ B, x \in S : Append(t, x) \in B
<1> DEFINE N == {Len(s) : s \in B}
<1>1. N \in SUBSET Nat /\ N # {}
  BY LenProperties
<1>2. PICK n \in N : \A m \in N : n <= m
  <2> HIDE DEF N
  <2> QED
    BY <1>1, Least
<1>3. PICK s \in B : Len(s) = n
  BY <1>2
<1>4. SUFFICES ASSUME s # << >>
               PROVE  \E t \in Seq(S) \ B, x \in S : Append(t, x) \in B
  BY <1>3
<1>5. PICK t \in Seq(S), x \in S : s = Append(t, x)
  BY <1>4, SequenceEmptyOrAppend
<1>6. Len(t) \in Nat /\ Len(s) = Len(t) + 1
  BY <1>5
<1>7. t \notin B
  BY <1>2, <1>3, <1>6
<1> QED
  BY <1>3, <1>5, <1>7

\* The recursive function of Only.
Steps(s, T, f) ==
  f = [i \in 0..Len(s) |->
         IF i = 0 THEN << >>
         ELSE IF s[i] \in T THEN Append(f[i - 1], s[i]) ELSE f[i - 1]]

LEMMA OnlyIsSteps ==
  ASSUME NEW s, NEW T
  PROVE  Only(s, T) = (CHOOSE f : Steps(s, T, f))[Len(s)]
BY DEF Only, Steps

LEMMA StepsExist ==
  ASSUME NEW S, NEW T, NEW s \in Seq(S)
  PROVE  \E f : Steps(s, T, f)
<1> DEFINE B == {r \in Seq(S) : ~ \E f : Steps(r, T, f)}
<1> SUFFICES ASSUME B # {} PROVE FALSE
  OBVIOUS
<1>1. ASSUME << >> \in B PROVE FALSE
  <2> DEFINE f == [i \in 0..0 |-> << >>]
  <2>1. Steps(<< >>, T, f)
    BY DEF Steps
  <2> QED
    BY <1>1, <2>1
<1>2. ASSUME NEW t \in Seq(S) \ B, NEW x \in S, Append(t, x) \in B PROVE FALSE
  <2>1. PICK g : Steps(t, T, g)
    OBVIOUS
  <2> DEFINE n == Len(t)
             f == [i \in 0..(n + 1) |->
                     IF i <= n THEN g[i] ELSE IF x \in T THEN Append(g[n], x) ELSE g[n]]
  <2>2. n \in Nat /\ Len(Append(t, x)) = n + 1 /\ Append(t, x)[n + 1] = x
        /\ \A i \in 1..n : Append(t, x)[i] = t[i]
    BY AppendProperties
  <2>3. \A i \in 0..n : g[i] = IF i = 0 THEN << >>
                               ELSE IF t[i] \in T THEN Append(g[i - 1], t[i]) ELSE g[i - 1]
    BY <2>1 DEF Steps
  <2>4. ASSUME NEW i \in 0..(n + 1)
        PROVE  f[i] = IF i = 0 THEN << >>
                      ELSE IF Append(t, x)[i] \in T THEN Append(f[i - 1], Append(t, x)[i])
                      ELSE f[i - 1]
    <3>1. CASE i = 0
      BY <3>1, <2>2, <2>3
    <3>2. CASE i \in 1..n
      <4>1. f[i] = g[i] /\ f[i - 1] = g[i - 1]
        BY <3>2, <2>2
      <4> HIDE DEF f
      <4> QED
        BY <4>1, <3>2, <2>2, <2>3
    <3>3. CASE i = n + 1
      <4>1. f[i - 1] = g[n] /\ f[i] = IF x \in T THEN Append(g[n], x) ELSE g[n]
        BY <3>3, <2>2
      <4> HIDE DEF f
      <4> QED
        BY <4>1, <3>3, <2>2
    <3> QED
      BY <3>1, <3>2, <3>3, <2>2
  <2>5. Steps(Append(t, x), T, f)
    <3>1. f = [i \in 0..(n + 1) |-> f[i]]
      OBVIOUS
    <3> HIDE DEF f
    <3> QED
      BY <3>1, <2>2, <2>4 DEF Steps
  <2> QED
    BY <1>2, <2>5
<1> HIDE DEF B
<1>3. B \in SUBSET Seq(S)
  BY DEF B
<1> QED
  BY <1>1, <1>2, <1>3, Shortest

LEMMA StepsAgree ==
  ASSUME NEW S, NEW T, NEW s \in Seq(S), NEW x \in S, NEW f, NEW g,
         Steps(s, T, f), Steps(Append(s, x), T, g)
  PROVE  \A i \in 0..Len(s) : f[i] = g[i]
<1> DEFINE n == Len(s)
           N == {i \in 0..n : f[i] # g[i]}
<1> SUFFICES ASSUME N # {} PROVE FALSE
  OBVIOUS
<1>1. n \in Nat /\ Len(Append(s, x)) = n + 1 /\ \A i \in 1..n : Append(s, x)[i] = s[i]
  BY AppendProperties
<1>2. PICK i \in N : \A m \in N : i <= m
  <2>1. N \in SUBSET Nat
    BY <1>1
  <2> HIDE DEF N
  <2> QED
    BY <2>1, Least
<1>3. f[0] = << >> /\ g[0] = << >>
  BY <1>1 DEF Steps
<1>4. i \in 1..n /\ f[i - 1] = g[i - 1]
  BY <1>1, <1>2, <1>3
<1>5. f[i] = IF s[i] \in T THEN Append(f[i - 1], s[i]) ELSE f[i - 1]
  <2>1. i \in 0..Len(s) /\ i # 0
    BY <1>1, <1>4
  <2> QED
    BY <2>1 DEF Steps
<1>6. g[i] = IF s[i] \in T THEN Append(g[i - 1], s[i]) ELSE g[i - 1]
  <2>1. i \in 0..Len(Append(s, x)) /\ i # 0 /\ Append(s, x)[i] = s[i]
    BY <1>1, <1>4
  <2> QED
    BY <2>1 DEF Steps
<1> QED
  BY <1>2, <1>4, <1>5, <1>6

\* What a filter does with a list that is built element by element.
LEMMA OnlyEmpty ==
  ASSUME NEW T PROVE Only(<< >>, T) = << >>
<1>1. << >> \in Seq({})
  OBVIOUS
<1>2. Steps(<< >>, T, CHOOSE f : Steps(<< >>, T, f))
  BY <1>1, StepsExist
<1> DEFINE g == CHOOSE f : Steps(<< >>, T, f)
<1> HIDE DEF g
<1>3. g[0] = << >>
  BY <1>2 DEF Steps, g
<1> QED
  BY <1>3, OnlyIsSteps DEF g

LEMMA OnlyAppend ==
  ASSUME NEW S, NEW T, NEW s \in Seq(S), NEW x \in S
  PROVE  Only(Append(s, x), T) = IF x \in T THEN Append(Only(s, T), x) ELSE Only(s, T)
<1> DEFINE f == CHOOSE h : Steps(s, T, h)
           g == CHOOSE h : Steps(Append(s, x), T, h)
           n == Len(s)
<1>1. n \in Nat /\ Append(s, x) \in Seq(S) /\ Len(Append(s, x)) = n + 1 /\ Append(s, x)[n + 1] = x
  BY AppendProperties
<1>2. Steps(s, T, f) /\ Steps(Append(s, x), T, g)
  BY <1>1, StepsExist
<1>3. Only(s, T) = f[n] /\ Only(Append(s, x), T) = g[n + 1]
  BY <1>1, OnlyIsSteps
<1> HIDE DEF f, g
<1>4. f[n] = g[n]
  <2>1. n \in 0..Len(s)
    BY <1>1
  <2>2. \A i \in 0..Len(s) : f[i] = g[i]
    BY <1>2, StepsAgree
  <2> QED
    BY <2>1, <2>2
<1>5. g[n + 1] = IF x \in T THEN Append(g[n], x) ELSE g[n]
  <2>1. n + 1 \in 0..Len(Append(s, x)) /\ n + 1 # 0 /\ (n + 1) - 1 = n
    BY <1>1
  <2>2. Steps(Append(s, x), T, g) /\ Append(s, x)[n + 1] = x
    BY <1>1, <1>2
  <2> HIDE DEF n
  <2> QED
    BY <2>1, <2>2 DEF Steps
<1> QED
  BY <1>3, <1>4, <1>5
LEMMA ConcatAppend ==
  ASSUME NEW S, NEW s \in Seq(S), NEW t \in Seq(S), NEW x \in S
  PROVE  s \o Append(t, x) = Append(s \o t, x)
<1>1. <<x>> \in Seq(S)
  OBVIOUS
<1>2. Append(t, x) = t \o <<x>> /\ s \o t \in Seq(S) /\ Append(s \o t, x) = (s \o t) \o <<x>>
  BY AppendIsConcat, ConcatProperties
<1> QED
  BY <1>1, <1>2, ConcatAssociative

\* A filter returns elements of the list that it keeps.
LEMMA OnlySeq ==
  ASSUME NEW S, NEW T, NEW s \in Seq(S)
  PROVE  Only(s, T) \in Seq(S \cap T)
<1> DEFINE B == {r \in Seq(S) : Only(r, T) \notin Seq(S \cap T)}
<1> SUFFICES ASSUME B # {} PROVE FALSE
  OBVIOUS
<1>1. << >> \notin B
  BY OnlyEmpty, EmptySeq
<1>2. ASSUME NEW t \in Seq(S) \ B, NEW x \in S PROVE Append(t, x) \notin B
  <2>1. Only(t, T) \in Seq(S \cap T)
    OBVIOUS
  <2>2. Only(Append(t, x), T) = IF x \in T THEN Append(Only(t, T), x) ELSE Only(t, T)
    BY OnlyAppend
  <2>3. x \in T => Append(Only(t, T), x) \in Seq(S \cap T)
    BY <2>1, AppendProperties
  <2> QED
    BY <2>1, <2>2, <2>3
<1>3. B \in SUBSET Seq(S)
  OBVIOUS
<1> HIDE DEF B
<1> QED
  BY <1>1, <1>2, <1>3, Shortest

LEMMA OnlyIn ==
  ASSUME NEW S, NEW T, NEW s \in Seq(S)
  PROVE  Only(s, T) \in Seq(S)
<1>1. Only(s, T) \in Seq(S \cap T) /\ S \cap T \subseteq S
  BY OnlySeq
<1> QED
  BY <1>1, SeqMonotonic

\* Two filters that keep the same of a list's elements return the same.
LEMMA OnlySame ==
  ASSUME NEW S, NEW T, NEW U, \A x \in S : x \in T <=> x \in U
  PROVE  \A s \in Seq(S) : Only(s, T) = Only(s, U)
<1> DEFINE B == {r \in Seq(S) : Only(r, T) # Only(r, U)}
<1> SUFFICES ASSUME B # {} PROVE FALSE
  OBVIOUS
<1>1. << >> \notin B
  BY OnlyEmpty
<1>2. ASSUME NEW t \in Seq(S) \ B, NEW x \in S PROVE Append(t, x) \notin B
  <2>1. Only(t, T) = Only(t, U)
    OBVIOUS
  <2>2. /\ Only(Append(t, x), T) = IF x \in T THEN Append(Only(t, T), x) ELSE Only(t, T)
        /\ Only(Append(t, x), U) = IF x \in U THEN Append(Only(t, U), x) ELSE Only(t, U)
    BY OnlyAppend
  <2>3. Only(Append(t, x), T) = Only(Append(t, x), U)
    BY <2>1, <2>2
  <2> QED
    BY <2>3
<1>3. B \in SUBSET Seq(S)
  OBVIOUS
<1> HIDE DEF B
<1> QED
  BY <1>1, <1>2, <1>3, Shortest

LEMMA OnlyAll ==
  ASSUME NEW S, NEW T, S \subseteq T
  PROVE  \A s \in Seq(S) : Only(s, T) = s
<1> DEFINE B == {r \in Seq(S) : Only(r, T) # r}
<1> SUFFICES ASSUME B # {} PROVE FALSE
  OBVIOUS
<1>1. << >> \notin B
  BY OnlyEmpty
<1>2. ASSUME NEW t \in Seq(S) \ B, NEW x \in S PROVE Append(t, x) \notin B
  BY OnlyAppend
<1>3. B \in SUBSET Seq(S)
  OBVIOUS
<1> HIDE DEF B
<1> QED
  BY <1>1, <1>2, <1>3, Shortest

LEMMA OnlyNone ==
  ASSUME NEW S, NEW T, S \cap T = {}
  PROVE  \A s \in Seq(S) : Only(s, T) = << >>
<1> TAKE s \in Seq(S)
<1>1. Only(s, T) \in Seq({})
  BY OnlySeq
<1> QED
  BY <1>1

\* Filters one after the other keep what both keep.
LEMMA OnlyTwice ==
  ASSUME NEW S, NEW T, NEW U, NEW s \in Seq(S)
  PROVE  Only(Only(s, T), U) = Only(s, T \cap U)
<1> DEFINE B == {r \in Seq(S) : Only(Only(r, T), U) # Only(r, T \cap U)}
<1> SUFFICES ASSUME B # {} PROVE FALSE
  OBVIOUS
<1>1. << >> \notin B
  BY OnlyEmpty
<1>2. ASSUME NEW t \in Seq(S) \ B, NEW x \in S PROVE Append(t, x) \notin B
  <2>1. Only(Only(t, T), U) = Only(t, T \cap U)
    OBVIOUS
  <2>2. /\ Only(Append(t, x), T) = IF x \in T THEN Append(Only(t, T), x) ELSE Only(t, T)
        /\ Only(Append(t, x), T \cap U) =
             IF x \in T \cap U THEN Append(Only(t, T \cap U), x) ELSE Only(t, T \cap U)
    BY OnlyAppend
  <2>3. Only(t, T) \in Seq(S)
    BY OnlyIn
  <2>4. Only(Append(Only(t, T), x), U) =
          IF x \in U THEN Append(Only(Only(t, T), U), x) ELSE Only(Only(t, T), U)
    BY <2>3, OnlyAppend
  <2>5. Only(Only(Append(t, x), T), U) = Only(Append(t, x), T \cap U)
    <3>1. CASE x \in T
      <4>1. Only(Append(t, x), T) = Append(Only(t, T), x)
        BY <3>1, <2>2
      <4>2. x \in T \cap U <=> x \in U
        BY <3>1
      <4>3. CASE x \in U
        BY <4>1, <4>2, <4>3, <2>1, <2>2, <2>4
      <4>4. CASE x \notin U
        BY <4>1, <4>2, <4>4, <2>1, <2>2, <2>4
      <4> QED
        BY <4>3, <4>4
    <3>2. CASE x \notin T
      BY <3>2, <2>1, <2>2
    <3> QED
      BY <3>1, <3>2
  <2> QED
    BY <2>5
<1>3. B \in SUBSET Seq(S)
  OBVIOUS
<1> HIDE DEF B
<1> QED
  BY <1>1, <1>2, <1>3, Shortest

\* The filter of a list that was appended to another.
LEMMA OnlyConcat ==
  ASSUME NEW S, NEW T, NEW s \in Seq(S), NEW r \in Seq(S)
  PROVE  Only(s \o r, T) = Only(s, T) \o Only(r, T)
<1> DEFINE B == {u \in Seq(S) : Only(s \o u, T) # Only(s, T) \o Only(u, T)}
<1> SUFFICES ASSUME B # {} PROVE FALSE
  OBVIOUS
<1>0. Only(s, T) \in Seq(S)
  BY OnlyIn
<1>1. << >> \notin B
  BY <1>0, OnlyEmpty, ConcatEmptySeq
<1>2. ASSUME NEW t \in Seq(S) \ B, NEW x \in S PROVE Append(t, x) \notin B
  <2>1. Only(s \o t, T) = Only(s, T) \o Only(t, T)
    OBVIOUS
  <2>2. Only(Append(t, x), T) = IF x \in T THEN Append(Only(t, T), x) ELSE Only(t, T)
    BY OnlyAppend
  <2>3. s \o Append(t, x) = Append(s \o t, x) /\ s \o t \in Seq(S)
    <3>1. t \in Seq(S)
      BY Zenon
    <3> HIDE DEF B
    <3>2. s \o t \in Seq(S)
      BY <3>1, ConcatProperties
    <3> QED
      BY <3>1, <3>2, ConcatAppend
  <2>4. Only(Append(s \o t, x), T) =
          IF x \in T THEN Append(Only(s \o t, T), x) ELSE Only(s \o t, T)
    <3> DEFINE u == s \o t
    <3>1. u \in Seq(S)
      BY <2>3
    <3> HIDE DEF u
    <3>2. Only(Append(u, x), T) = IF x \in T THEN Append(Only(u, T), x) ELSE Only(u, T)
      BY <3>1, OnlyAppend
    <3> QED
      BY <3>2 DEF u
  <2>5. Only(t, T) \in Seq(S)
    BY OnlyIn
  <2>6. Only(s, T) \o Append(Only(t, T), x) = Append(Only(s, T) \o Only(t, T), x)
    BY <1>0, <2>5, ConcatAppend
  <2> QED
    BY <2>1, <2>2, <2>3, <2>4, <2>6
<1>3. B \in SUBSET Seq(S)
  OBVIOUS
<1> HIDE DEF B
<1> QED
  BY <1>1, <1>2, <1>3, Shortest

-----------------------------------------------------------------------------
(* Lists of announcements *)

\* The announcements a board can hold: of a deposit, or of a dummy, which has no
\* Storages and is never consumed.
Entries == {a \in Announcement : a.deposit_id \in DummyIds => ~a.consumed /\ ~a.storage}

Live == {a \in Announcement : ~a.consumed /\ a.storage}
Dummies == {a \in Announcement : a.deposit_id \in DummyIds}
Kept(R) == {a \in Announcement : a.deposit_id \notin R}

Ids(l) == [i \in 1..Len(l) |-> l[i].deposit_id]
IdSet(l) == {l[i].deposit_id : i \in 1..Len(l)}
Distinct(l) == \A i, j \in 1..Len(l) : l[i].deposit_id = l[j].deposit_id => i = j

\* The deposits announced and not consumed.
Listed(l) == Ids(Only(l, Live))

\* The dummies of a list are those with the ids D, each of them once.
Good(l, D) ==
  /\ l \in Seq(Entries)
  /\ Distinct(Only(l, Dummies)) /\ IdSet(Only(l, Dummies)) = D

-----------------------------------------------------------------------------
(* Ids of lists *)

LEMMA IdOf ==
  ASSUME NEW l \in Seq(Announcement), NEW i \in 1..Len(l)
  PROVE  l[i] \in Announcement /\ l[i].deposit_id \in Deposits \cup DummyIds
<1>1. l[i] \in Announcement
  BY ElementOfSeq
<1> QED
  BY <1>1 DEF Announcement

LEMMA IdsSeq ==
  ASSUME NEW S, NEW l \in Seq(Announcement), \A i \in 1..Len(l) : l[i].deposit_id \in S
  PROVE  Ids(l) \in Seq(S) /\ Len(Ids(l)) = Len(l)
<1> DEFINE n == Len(l)
           f == Ids(l)
<1>1. n \in Nat
  OBVIOUS
<1>2. f \in [1..n -> S] /\ DOMAIN f = 1..n
  BY DEF Ids
<1> HIDE DEF n, f
<1>3. f \in Seq(S)
  BY <1>1, <1>2, SeqDef
<1>4. Len(f) = n
  BY <1>1, <1>2, <1>3, LenProperties
<1> QED
  BY <1>3, <1>4 DEF f, n

LEMMA IdsEmpty == Ids(<< >>) = << >>
<1>1. << >> \in Seq(Announcement) /\ Len(<< >>) = 0
  BY EmptySeq
<1>2. \A i \in 1..Len(<< >>) : << >>[i].deposit_id \in {}
  BY <1>1
<1>3. Ids(<< >>) \in Seq({})
  BY <1>1, <1>2, IdsSeq
<1> QED
  BY <1>3

LEMMA IdsAppend ==
  ASSUME NEW l \in Seq(Announcement), NEW a \in Announcement
  PROVE  Ids(Append(l, a)) = Append(Ids(l), a.deposit_id)
<1> DEFINE n == Len(l)
           k == Append(l, a)
<1>1. n \in Nat /\ Len(k) = n + 1 /\ k[n + 1] = a /\ \A i \in 1..n : k[i] = l[i]
  BY AppendProperties
<1>2. Ids(l) \in Seq(Deposits \cup DummyIds) /\ Len(Ids(l)) = n
  <2>1. \A i \in 1..n : l[i].deposit_id \in Deposits \cup DummyIds
    BY IdOf
  <2> QED
    BY <2>1, IdsSeq
<1>3. a.deposit_id \in Deposits \cup DummyIds
  BY DEF Announcement
<1>4. /\ Append(Ids(l), a.deposit_id) \in Seq(Deposits \cup DummyIds)
      /\ Len(Append(Ids(l), a.deposit_id)) = n + 1
      /\ \A i \in 1..n : Append(Ids(l), a.deposit_id)[i] = Ids(l)[i]
      /\ Append(Ids(l), a.deposit_id)[n + 1] = a.deposit_id
  BY <1>2, <1>3, AppendProperties
<1>5. Ids(k) \in Seq(Deposits \cup DummyIds) /\ Len(Ids(k)) = n + 1
  <2>1. k \in Seq(Announcement)
    BY AppendProperties
  <2>2. \A i \in 1..Len(k) : k[i].deposit_id \in Deposits \cup DummyIds
    <3> HIDE DEF k
    <3> QED
      BY <2>1, IdOf
  <2> HIDE DEF k
  <2> QED
    BY <2>1, <2>2, <1>1, IdsSeq
<1>6. \A i \in 1..(n + 1) : Ids(k)[i] = Append(Ids(l), a.deposit_id)[i]
  <2> HIDE DEF k
  <2> QED
    BY <1>1, <1>4 DEF Ids
<1> HIDE DEF n, k
<1>7. Ids(k) = Append(Ids(l), a.deposit_id)
  BY <1>1, <1>4, <1>5, <1>6, SeqEqual
<1> QED
  BY <1>7 DEF k

LEMMA DistinctAppend ==
  ASSUME NEW l \in Seq(Announcement), NEW a \in Announcement
  PROVE  /\ IdSet(Append(l, a)) = IdSet(l) \cup {a.deposit_id}
         /\ Distinct(Append(l, a)) <=> Distinct(l) /\ a.deposit_id \notin IdSet(l)
<1> DEFINE n == Len(l)
           k == Append(l, a)
<1>1. n \in Nat /\ Len(k) = n + 1 /\ k[n + 1] = a /\ \A i \in 1..n : k[i] = l[i]
  BY AppendProperties
<1> HIDE DEF k
<1>2. 1..(n + 1) = 1..n \cup {n + 1}
  BY <1>1
<1>3. IdSet(k) = IdSet(l) \cup {a.deposit_id}
  <2>1. ASSUME NEW i \in 1..(n + 1) PROVE k[i].deposit_id \in IdSet(l) \cup {a.deposit_id}
    BY <1>1, <1>2 DEF IdSet
  <2>2. ASSUME NEW i \in 1..n PROVE l[i].deposit_id \in IdSet(k)
    BY <1>1, <1>2 DEF IdSet
  <2>3. a.deposit_id \in IdSet(k)
    BY <1>1, <1>2 DEF IdSet
  <2> QED
    BY <1>1, <2>1, <2>2, <2>3 DEF IdSet
<1>4. ASSUME Distinct(k) PROVE Distinct(l) /\ a.deposit_id \notin IdSet(l)
  BY <1>1, <1>4 DEF Distinct, IdSet
<1>5. ASSUME Distinct(l), a.deposit_id \notin IdSet(l) PROVE Distinct(k)
  <2>1. ASSUME NEW i \in 1..(n + 1), NEW j \in 1..(n + 1), k[i].deposit_id = k[j].deposit_id
        PROVE  i = j
    <3>1. CASE i \in 1..n /\ j \in 1..n
      BY <1>1, <1>5, <2>1, <3>1 DEF Distinct
    <3>2. CASE i = n + 1 /\ j \in 1..n
      BY <1>1, <1>5, <2>1, <3>2 DEF IdSet
    <3>3. CASE i \in 1..n /\ j = n + 1
      BY <1>1, <1>5, <2>1, <3>3 DEF IdSet
    <3> QED
      BY <1>2, <3>1, <3>2, <3>3
  <2> QED
    BY <1>1, <2>1 DEF Distinct
<1> QED
  BY <1>3, <1>4, <1>5 DEF k

LEMMA DistinctConcat ==
  ASSUME NEW l \in Seq(Announcement), NEW m \in Seq(Announcement),
         Distinct(l), Distinct(m), IdSet(l) \cap IdSet(m) = {}
  PROVE  Distinct(l \o m) /\ IdSet(l \o m) = IdSet(l) \cup IdSet(m)
<1> DEFINE k == l \o m
           p == Len(l)
           q == Len(m)
<1>1. /\ p \in Nat /\ q \in Nat /\ Len(k) = p + q
      /\ \A i \in 1..(p + q) : k[i] = IF i <= p THEN l[i] ELSE m[i - p]
  <2>1. p \in Nat /\ q \in Nat
    BY LenProperties
  <2>2. /\ Len(k) = p + q
        /\ \A i \in 1..(p + q) : k[i] = IF i <= p THEN l[i] ELSE m[i - p]
    BY ConcatProperties
  <2> QED
    BY <2>1, <2>2
<1> HIDE DEF k
<1>2. \A i \in 1..p : i \in 1..(p + q) /\ k[i] = l[i]
  BY <1>1
<1>3. \A i \in 1..q : i + p \in 1..(p + q) /\ k[i + p] = m[i]
  BY <1>1
<1>4. \A i \in 1..(p + q) : i \in 1..p \/ \E j \in 1..q : i = j + p
  <2> TAKE i \in 1..(p + q)
  <2>1. i \in 1..p \/ (i - p \in 1..q /\ i = (i - p) + p)
    BY <1>1
  <2> QED
    BY <2>1
<1>5. IdSet(k) = IdSet(l) \cup IdSet(m)
  <2>1. /\ IdSet(l) = {l[i].deposit_id : i \in 1..p}
        /\ IdSet(m) = {m[i].deposit_id : i \in 1..q}
        /\ IdSet(k) = {k[i].deposit_id : i \in 1..(p + q)}
    BY <1>1 DEF IdSet
  <2>2. ASSUME NEW x \in IdSet(l) PROVE x \in IdSet(k)
    <3>1. PICK i \in 1..p : x = l[i].deposit_id
      BY <2>1
    <3> QED
      BY <1>2, <2>1, <3>1
  <2>3. ASSUME NEW x \in IdSet(m) PROVE x \in IdSet(k)
    <3>1. PICK i \in 1..q : x = m[i].deposit_id
      BY <2>1
    <3> QED
      BY <1>3, <2>1, <3>1
  <2>4. ASSUME NEW x \in IdSet(k) PROVE x \in IdSet(l) \cup IdSet(m)
    <3>1. PICK i \in 1..(p + q) : x = k[i].deposit_id
      BY <2>1
    <3>2. CASE i \in 1..p
      BY <1>2, <2>1, <3>1, <3>2
    <3>3. CASE \E j \in 1..q : i = j + p
      BY <1>3, <2>1, <3>1, <3>3
    <3> QED
      BY <1>4, <3>2, <3>3
  <2> QED
    BY <2>2, <2>3, <2>4, Zenon
<1>6. \A i \in 1..p, u \in 1..q : k[i].deposit_id # k[u + p].deposit_id
  <2> TAKE i \in 1..p, u \in 1..q
  <2>1. k[i].deposit_id \in IdSet(l) /\ k[u + p].deposit_id \in IdSet(m)
    BY <1>2, <1>3 DEF IdSet
  <2> QED
    BY <2>1
<1>7. ASSUME NEW i \in 1..(p + q), NEW j \in 1..(p + q), k[i].deposit_id = k[j].deposit_id
      PROVE  i = j
  <2>1. CASE i \in 1..p /\ j \in 1..p
    BY <1>2, <1>7, <2>1 DEF Distinct
  <2>2. CASE i \in 1..p /\ \E v \in 1..q : j = v + p
    BY <1>6, <1>7, <2>2
  <2>3. CASE j \in 1..p /\ \E u \in 1..q : i = u + p
    BY <1>6, <1>7, <2>3
  <2>4. CASE (\E u \in 1..q : i = u + p) /\ \E v \in 1..q : j = v + p
    BY <1>3, <1>7, <2>4 DEF Distinct
  <2> QED
    BY <1>4, <2>1, <2>2, <2>3, <2>4
<1> QED
  BY <1>1, <1>5, <1>7 DEF k, Distinct

LEMMA DistinctKept ==
  ASSUME NEW R
  PROVE  \A l \in Seq(Announcement) :
           Distinct(l) => /\ Distinct(Only(l, Kept(R)))
                          /\ IdSet(Only(l, Kept(R))) = IdSet(l) \ R
<1> DEFINE P(l) == Distinct(l) => /\ Distinct(Only(l, Kept(R)))
                                  /\ IdSet(Only(l, Kept(R))) = IdSet(l) \ R
           B == {r \in Seq(Announcement) : ~ P(r)}
<1> SUFFICES ASSUME B # {} PROVE FALSE
  OBVIOUS
<1>1. << >> \notin B
  BY OnlyEmpty, EmptySeq DEF Distinct, IdSet
<1>2. ASSUME NEW t \in Seq(Announcement) \ B, NEW x \in Announcement, Append(t, x) \in B
      PROVE  FALSE
  <2>1. P(t) /\ Distinct(Append(t, x))
    BY <1>2
  <2> DEFINE k == Only(t, Kept(R))
  <2>2. Distinct(t) /\ x.deposit_id \notin IdSet(t)
        /\ IdSet(Append(t, x)) = IdSet(t) \cup {x.deposit_id}
    BY <2>1, DistinctAppend
  <2>3. k \in Seq(Announcement)
    BY OnlyIn
  <2>4. Distinct(k) /\ IdSet(k) = IdSet(t) \ R
    BY <2>1, <2>2
  <2>5. Only(Append(t, x), Kept(R)) = IF x \in Kept(R) THEN Append(k, x) ELSE k
    BY OnlyAppend
  <2> HIDE DEF k
  <2>6. /\ IdSet(Append(k, x)) = IdSet(k) \cup {x.deposit_id}
        /\ Distinct(Append(k, x))
    BY <2>2, <2>3, <2>4, DistinctAppend
  <2>7. P(Append(t, x))
    <3>1. CASE x \in Kept(R)
      <4>1. x.deposit_id \notin R
        BY <3>1 DEF Kept
      <4>2. Only(Append(t, x), Kept(R)) = Append(k, x)
        BY <2>5, <3>1
      <4>3. IdSet(Append(k, x)) = IdSet(Append(t, x)) \ R
        BY <2>2, <2>4, <2>6, <4>1
      <4> QED
        BY <2>6, <4>2, <4>3
    <3>2. CASE x \notin Kept(R)
      <4>1. x.deposit_id \in R
        BY <3>2 DEF Kept
      <4>2. Only(Append(t, x), Kept(R)) = k
        BY <2>5, <3>2
      <4>3. IdSet(k) = IdSet(Append(t, x)) \ R
        BY <2>2, <2>4, <4>1
      <4> QED
        BY <2>4, <4>2, <4>3
    <3> QED
      BY <3>1, <3>2
  <2> QED
    BY <1>2, <2>7
<1>3. B \in SUBSET Seq(Announcement)
  OBVIOUS
<1> HIDE DEF B
<1> QED
  BY <1>1, <1>2, <1>3, Shortest

\* A list whose ids are distinct is as long as they are many.
LEMMA DistinctLen ==
  ASSUME NEW l \in Seq(Announcement), Distinct(l)
  PROVE  IsFiniteSet(IdSet(l)) /\ Cardinality(IdSet(l)) = Len(l)
<1> DEFINE n == Len(l)
           f == [i \in 1..n |-> l[i].deposit_id]
<1>1. n \in Nat
  OBVIOUS
<1>2. f \in Bijection(1..n, IdSet(l))
  BY <1>1 DEF Bijection, Injection, Surjection, IdSet, Distinct, IsInjective
<1>3. ExistsBijection(1..n, IdSet(l))
  BY <1>2 DEF ExistsBijection
<1>4. IsFiniteSet(1..n) /\ Cardinality(1..n) = n
  <2> HIDE DEF n
  <2>1. IsFiniteSet(1..n)
        /\ Cardinality(1..n) = IF 1 > n THEN 0 ELSE n - 1 + 1
    BY <1>1, FS_Interval
  <2> QED
    BY <1>1, <2>1
<1> QED
  BY <1>1, <1>3, <1>4, FS_Bijection

-----------------------------------------------------------------------------
(* The order in which SetToSeq takes a set, and subsets of a given size *)

LEMMA OrderOf ==
  ASSUME NEW D, IsFiniteSet(D)
  PROVE  /\ Cardinality(D) \in Nat
         /\ SetToSeq(D) \in Bijection(1..Cardinality(D), D)
<1> DEFINE n == Cardinality(D)
<1>1. n \in Nat /\ ExistsBijection(1..n, D)
  BY FS_CardinalityType
<1>2. PICK f \in Bijection(1..n, D) : TRUE
  BY <1>1 DEF ExistsBijection
<1>3. f \in [1..n -> D] /\ IsInjective(f)
  BY <1>2 DEF Bijection, Injection, IsInjective
<1>4. SetToSeq(D) \in [1..n -> D] /\ IsInjective(SetToSeq(D))
  BY <1>3 DEF SetToSeq
<1>5. SetToSeq(D) \in Injection(1..n, D)
  BY <1>4 DEF Injection, IsInjective
<1>6. IsFiniteSet(1..n) /\ Cardinality(1..n) = n
  BY <1>1, FS_Interval
<1>7. SetToSeq(D) \in Surjection(1..n, D)
  BY <1>5, <1>6, FS_Injection
<1> QED
  BY <1>1, <1>5, <1>7 DEF Bijection

LEMMA SubsetOfSize ==
  ASSUME NEW D, IsFiniteSet(D), NEW n \in Nat, n <= Cardinality(D)
  PROVE  \E C \in SUBSET D : Cardinality(C) = n
<1> DEFINE f == SetToSeq(D)
           C == {f[i] : i \in 1..n}
           g == [i \in 1..n |-> f[i]]
<1>1. f \in Bijection(1..Cardinality(D), D) /\ Cardinality(D) \in Nat
  BY OrderOf
<1> HIDE DEF f
<1>2. 1..n \subseteq 1..Cardinality(D)
  BY <1>1
<1>3. f \in [1..Cardinality(D) -> D]
      /\ \A i, j \in 1..Cardinality(D) : f[i] = f[j] => i = j
  BY <1>1 DEF Bijection, Injection, IsInjective
<1>4. C \in SUBSET D
  BY <1>2, <1>3
<1>5. g \in Bijection(1..n, C)
  BY <1>2, <1>3 DEF Bijection, Injection, Surjection, IsInjective
<1>6. ExistsBijection(1..n, C)
  BY <1>5 DEF ExistsBijection
<1>7. Cardinality(C) = n
  BY <1>6, FS_CountingElements
<1> QED
  BY <1>4, <1>7

LEMMA PoolFinite ==
  IsFiniteSet(DummyIds) /\ Cardinality(DummyIds) = PoolSize
BY NoticeboardAssumption, FS_Interval DEF DummyIds

\* A list of new dummies, in the order in which WithDummies and announce make them.
DummyList(D) == [i \in 1..Cardinality(D) |-> Entry(SetToSeq(D)[i], FALSE)]

LEMMA NewDummies ==
  ASSUME NEW D \in SUBSET DummyIds
  PROVE  /\ DummyList(D) \in Seq(Entries \cap Dummies)
         /\ Distinct(DummyList(D)) /\ IdSet(DummyList(D)) = D
<1> DEFINE n == Cardinality(D)
           f == SetToSeq(D)
           l == DummyList(D)
<1>1. n \in Nat /\ f \in Bijection(1..n, D)
  BY PoolFinite, FS_Subset, OrderOf
<1>2. /\ f \in [1..n -> D]
      /\ \A i, j \in 1..n : f[i] = f[j] => i = j
      /\ \A d \in D : \E i \in 1..n : f[i] = d
  BY <1>1 DEF Bijection, Injection, Surjection, IsInjective
<1>3. l = [i \in 1..n |-> Entry(f[i], FALSE)]
  BY DEF DummyList
<1> HIDE DEF n, f, l
<1>4. \A d \in D : Entry(d, FALSE) \in Entries \cap Dummies /\ Entry(d, FALSE).deposit_id = d
  BY DEF Entry, Entries, Dummies, Announcement
<1>5. l \in [1..n -> Entries \cap Dummies] /\ \A i \in 1..n : l[i].deposit_id = f[i]
  BY <1>2, <1>3, <1>4
<1>6. l \in Seq(Entries \cap Dummies)
  BY <1>1, <1>5, SeqDef
<1>7. Len(l) = n
  BY <1>1, <1>5, <1>6, LenProperties
<1>8. Distinct(l) /\ IdSet(l) = D
  BY <1>2, <1>5, <1>7 DEF Distinct, IdSet
<1> QED
  BY <1>6, <1>8 DEF l

-----------------------------------------------------------------------------
(* What the operations do to a list *)

LEMMA EntriesFacts ==
  /\ Entries \subseteq Announcement
  /\ \A a \in Entries :
       /\ a \in Live => a \notin Dummies /\ a.deposit_id \in Deposits
       /\ a \in Dummies => a.deposit_id \in DummyIds /\ ~a.consumed /\ ~a.storage
       /\ a \notin Dummies => a.deposit_id \in Deposits /\ a.deposit_id \notin DummyIds
BY NoticeboardAssumption DEF Entries, Live, Dummies, Announcement

LEMMA EntriesSeq ==
  ASSUME NEW l \in Seq(Entries)
  PROVE  l \in Seq(Announcement)
BY EntriesFacts, SeqMonotonic

LEMMA ListedSeq ==
  ASSUME NEW l \in Seq(Entries)
  PROVE  /\ Listed(l) \in Seq(Deposits)
         /\ Len(Listed(l)) = Len(Only(l, Live))
<1> DEFINE k == Only(l, Live)
<1>1. k \in Seq(Entries \cap Live) /\ k \in Seq(Announcement)
  BY OnlySeq, OnlyIn, EntriesSeq
<1> HIDE DEF k
<1>2. \A i \in 1..Len(k) : k[i] \in Entries \cap Live
  BY <1>1, ElementOfSeq
<1>3. \A i \in 1..Len(k) : k[i].deposit_id \in Deposits
  BY <1>2, EntriesFacts
<1> QED
  BY <1>1, <1>3, IdsSeq DEF k, Listed

LEMMA ListedAppend ==
  ASSUME NEW l \in Seq(Announcement), NEW a \in Announcement
  PROVE  Listed(Append(l, a)) =
           IF a \in Live THEN Append(Listed(l), a.deposit_id) ELSE Listed(l)
<1>1. Only(Append(l, a), Live) = IF a \in Live THEN Append(Only(l, Live), a) ELSE Only(l, Live)
  BY OnlyAppend
<1>2. Only(l, Live) \in Seq(Announcement)
  BY OnlyIn
<1>3. Ids(Append(Only(l, Live), a)) = Append(Ids(Only(l, Live)), a.deposit_id)
  BY <1>2, IdsAppend
<1> QED
  BY <1>1, <1>3 DEF Listed

\* New dummies at the end of a list.
LEMMA GoodConcat ==
  ASSUME NEW D, NEW l, Good(l, D), D \subseteq DummyIds, NEW C \in SUBSET (DummyIds \ D)
  PROVE  Good(l \o DummyList(C), D \cup C) /\ Listed(l \o DummyList(C)) = Listed(l)
<1> DEFINE k == DummyList(C)
<1>1. k \in Seq(Entries \cap Dummies) /\ Distinct(k) /\ IdSet(k) = C
  BY NewDummies
<1>2. l \in Seq(Entries) /\ Distinct(Only(l, Dummies)) /\ IdSet(Only(l, Dummies)) = D
  BY DEF Good
<1> HIDE DEF k
<1>3. k \in Seq(Entries)
  <2>1. Entries \cap Dummies \subseteq Entries
    OBVIOUS
  <2> QED
    BY <1>1, <2>1, SeqMonotonic
<1>4. l \o k \in Seq(Entries)
  BY <1>2, <1>3, ConcatProperties
<1>5. Only(l \o k, Dummies) = Only(l, Dummies) \o k
  <2>1. Only(k, Dummies) = k
    <3>1. Entries \cap Dummies \subseteq Dummies
      OBVIOUS
    <3> QED
      BY <1>1, <3>1, OnlyAll
  <2>2. Only(l \o k, Dummies) = Only(l, Dummies) \o Only(k, Dummies)
    BY <1>2, <1>3, OnlyConcat
  <2> QED
    BY <2>1, <2>2
<1>6. Only(l, Dummies) \in Seq(Announcement) /\ k \in Seq(Announcement)
  BY <1>2, <1>3, OnlyIn, EntriesSeq
<1>7. /\ Distinct(Only(l, Dummies) \o k)
      /\ IdSet(Only(l, Dummies) \o k) = D \cup C
  <2>1. IdSet(Only(l, Dummies)) \cap IdSet(k) = {}
    BY <1>1, <1>2
  <2> QED
    BY <1>1, <1>2, <1>6, <2>1, DistinctConcat
<1>8. Only(l \o k, Live) = Only(l, Live)
  <2>1. Only(k, Live) = << >>
    <3>1. (Entries \cap Dummies) \cap Live = {}
      BY EntriesFacts
    <3> QED
      BY <1>1, <3>1, OnlyNone
  <2>2. Only(l, Live) \in Seq(Entries)
    BY <1>2, OnlyIn
  <2>3. Only(l \o k, Live) = Only(l, Live) \o Only(k, Live)
    BY <1>2, <1>3, OnlyConcat
  <2> QED
    BY <2>1, <2>2, <2>3, ConcatEmptySeq
<1> QED
  BY <1>4, <1>5, <1>7, <1>8 DEF Good, Listed, k

\* A list without the entries whose ids are in R, which are dummies.
LEMMA GoodKept ==
  ASSUME NEW D, NEW l, Good(l, D), NEW R \in SUBSET DummyIds
  PROVE  Good(Only(l, Kept(R)), D \ R) /\ Listed(Only(l, Kept(R))) = Listed(l)
<1> DEFINE k == Only(l, Kept(R))
<1>1. l \in Seq(Entries) /\ Distinct(Only(l, Dummies)) /\ IdSet(Only(l, Dummies)) = D
  BY DEF Good
<1>2. k \in Seq(Entries)
  BY <1>1, OnlyIn
<1>3. Only(k, Dummies) = Only(Only(l, Dummies), Kept(R))
  <2>1. Only(k, Dummies) = Only(l, Kept(R) \cap Dummies)
    BY <1>1, OnlyTwice
  <2>2. Only(Only(l, Dummies), Kept(R)) = Only(l, Dummies \cap Kept(R))
    BY <1>1, OnlyTwice
  <2>3. Dummies \cap Kept(R) = Kept(R) \cap Dummies
    OBVIOUS
  <2> QED
    BY <2>1, <2>2, <2>3
<1>4. Distinct(Only(k, Dummies)) /\ IdSet(Only(k, Dummies)) = D \ R
  <2>1. Only(l, Dummies) \in Seq(Announcement)
    BY <1>1, OnlyIn, EntriesSeq
  <2> QED
    BY <1>1, <1>3, <2>1, DistinctKept
<1>5. Only(k, Live) = Only(l, Live)
  <2>1. Only(k, Live) = Only(l, Kept(R) \cap Live)
    BY <1>1, OnlyTwice
  <2>2. \A a \in Entries : a \in Kept(R) \cap Live <=> a \in Live
    BY NoticeboardAssumption, EntriesFacts DEF Kept
  <2>3. Only(l, Kept(R) \cap Live) = Only(l, Live)
    BY <1>1, <2>2, OnlySame
  <2> QED
    BY <2>1, <2>3
<1> QED
  BY <1>2, <1>4, <1>5 DEF Good, Listed

\* prune: no dummy is consumed, and nothing consumed is listed.
LEMMA GoodUnconsumed ==
  ASSUME NEW D, NEW l, Good(l, D)
  PROVE  LET k == Only(l, {a \in Announcement : ~a.consumed})
         IN  Good(k, D) /\ Listed(k) = Listed(l)
<1> DEFINE U == {a \in Announcement : ~a.consumed}
           k == Only(l, U)
<1>1. l \in Seq(Entries) /\ Distinct(Only(l, Dummies)) /\ IdSet(Only(l, Dummies)) = D
  BY DEF Good
<1>2. k \in Seq(Entries)
  BY <1>1, OnlyIn
<1>3. /\ \A a \in Entries : a \in U \cap Dummies <=> a \in Dummies
      /\ \A a \in Entries : a \in U \cap Live <=> a \in Live
  BY EntriesFacts DEF Live
<1>4. /\ Only(k, Dummies) = Only(l, U \cap Dummies)
      /\ Only(k, Live) = Only(l, U \cap Live)
  BY <1>1, OnlyTwice
<1>5. Only(l, U \cap Dummies) = Only(l, Dummies)
  BY <1>1, <1>3, OnlySame
<1>6. Only(l, U \cap Live) = Only(l, Live)
  BY <1>1, <1>3, OnlySame
<1> QED
  BY <1>1, <1>2, <1>4, <1>5, <1>6 DEF Good, Listed

\* announce: one more entry of a deposit at the end, listed if it has Storages.
LEMMA GoodAnnounce ==
  ASSUME NEW D, NEW l, Good(l, D), NEW d \in Deposits, NEW storage \in BOOLEAN
  PROVE  /\ Good(Append(l, Entry(d, storage)), D)
         /\ Listed(Append(l, Entry(d, storage))) =
              IF storage THEN Append(Listed(l), d) ELSE Listed(l)
<1> DEFINE a == Entry(d, storage)
<1>1. l \in Seq(Entries) /\ Distinct(Only(l, Dummies)) /\ IdSet(Only(l, Dummies)) = D
  BY DEF Good
<1>2. a \in Entries /\ (a \in Live <=> storage) /\ a \notin Dummies /\ a.deposit_id = d
  BY NoticeboardAssumption DEF Entry, Entries, Live, Dummies, Announcement
<1> HIDE DEF a
<1>3. Append(l, a) \in Seq(Entries)
  BY <1>1, <1>2, AppendProperties
<1>4. Only(Append(l, a), Dummies) = Only(l, Dummies)
  BY <1>1, <1>2, OnlyAppend
<1>5. Listed(Append(l, a)) = IF storage THEN Append(Listed(l), d) ELSE Listed(l)
  BY <1>1, <1>2, EntriesFacts, EntriesSeq, ListedAppend
<1> QED
  BY <1>1, <1>3, <1>4, <1>5 DEF Good, a

\* consume: what is done to each entry, and to the list.
Consumed(a, d) == IF a.deposit_id = d THEN [a EXCEPT !.consumed = TRUE] ELSE a
AllConsumed(l, d) == [i \in DOMAIN l |-> Consumed(l[i], d)]

LEMMA ConsumedFacts ==
  ASSUME NEW d \in Deposits, NEW a \in Entries
  PROVE  /\ Consumed(a, d) \in Entries
         /\ a \in Dummies => Consumed(a, d) = a
         /\ Consumed(a, d) \in Dummies <=> a \in Dummies
         /\ Consumed(a, d) \in Live <=> a \in Live /\ a.deposit_id # d
         /\ Consumed(a, d).deposit_id = a.deposit_id
<1>1. a \in Announcement
  BY EntriesFacts
<1>2. CASE a.deposit_id # d
  BY <1>2 DEF Consumed
<1>3. CASE a.deposit_id = d
  <2>1. a \notin Dummies
    BY <1>1, <1>3, NoticeboardAssumption, EntriesFacts DEF Dummies, Announcement
  <2>2. /\ Consumed(a, d) = [a EXCEPT !.consumed = TRUE]
        /\ Consumed(a, d) \in Announcement
        /\ Consumed(a, d).consumed
        /\ Consumed(a, d).deposit_id = d
    BY <1>1, <1>3, <2>1 DEF Consumed, Announcement
  <2> QED
    BY <1>3, <2>1, <2>2, NoticeboardAssumption DEF Entries, Dummies, Live
<1> QED
  BY <1>2, <1>3

LEMMA AllConsumedAppend ==
  ASSUME NEW d \in Deposits, NEW l \in Seq(Entries), NEW a \in Entries,
         AllConsumed(l, d) \in Seq(Entries)
  PROVE  AllConsumed(Append(l, a), d) = Append(AllConsumed(l, d), Consumed(a, d))
<1> DEFINE n == Len(l)
           k == AllConsumed(Append(l, a), d)
           m == Append(AllConsumed(l, d), Consumed(a, d))
<1>1. /\ n \in Nat /\ Append(l, a) \in Seq(Entries)
      /\ DOMAIN Append(l, a) = 1..(n + 1) /\ Append(l, a)[n + 1] = a
      /\ \A i \in 1..n : Append(l, a)[i] = l[i]
  BY AppendProperties, LenProperties
<1>2. DOMAIN AllConsumed(l, d) = 1..n /\ Len(AllConsumed(l, d)) = n
  <2>1. DOMAIN AllConsumed(l, d) = 1..n
    BY LenProperties DEF AllConsumed
  <2> QED
    BY <2>1, <1>1, LenProperties
<1>3. \A i \in 1..n : AllConsumed(l, d)[i] = Consumed(l[i], d)
  BY <1>2 DEF AllConsumed
<1>4. Consumed(a, d) \in Entries
  BY ConsumedFacts
<1>5. /\ m \in Seq(Entries) /\ Len(m) = n + 1 /\ m[n + 1] = Consumed(a, d)
      /\ \A i \in 1..n : m[i] = Consumed(l[i], d)
  BY <1>2, <1>3, <1>4, AppendProperties
<1>6. m = [i \in 1..(n + 1) |-> m[i]]
  <2> HIDE DEF m
  <2> QED
    BY <1>5, LenProperties
<1>7. k = [i \in 1..(n + 1) |-> Consumed(Append(l, a)[i], d)]
  BY <1>1 DEF AllConsumed
<1>8. \A i \in 1..(n + 1) : m[i] = Consumed(Append(l, a)[i], d)
  <2> HIDE DEF m
  <2> TAKE i \in 1..(n + 1)
  <2>1. i \in 1..n \/ i = n + 1
    BY <1>1
  <2> QED
    BY <2>1, <1>1, <1>5
<1> HIDE DEF m, k
<1>9. k = m
  BY <1>6, <1>7, <1>8
<1> QED
  BY <1>9 DEF m, k

LEMMA ConsumeFacts ==
  ASSUME NEW d \in Deposits
  PROVE  \A l \in Seq(Entries) :
           /\ AllConsumed(l, d) \in Seq(Entries)
           /\ Only(AllConsumed(l, d), Dummies) = Only(l, Dummies)
           /\ Listed(AllConsumed(l, d)) = Only(Listed(l), Deposits \ {d})
<1> DEFINE P(l) == /\ AllConsumed(l, d) \in Seq(Entries)
                   /\ Only(AllConsumed(l, d), Dummies) = Only(l, Dummies)
                   /\ Listed(AllConsumed(l, d)) = Only(Listed(l), Deposits \ {d})
           B == {r \in Seq(Entries) : ~ P(r)}
<1> SUFFICES ASSUME B # {} PROVE FALSE
  OBVIOUS
<1>1. << >> \notin B
  <2>1. AllConsumed(<< >>, d) = << >>
    BY DEF AllConsumed
  <2>2. Listed(<< >>) = << >>
    BY OnlyEmpty, IdsEmpty DEF Listed
  <2> QED
    BY <2>1, <2>2, OnlyEmpty, EmptySeq
<1>2. ASSUME NEW t \in Seq(Entries) \ B, NEW a \in Entries, Append(t, a) \in B
      PROVE  FALSE
  <2> DEFINE k == AllConsumed(t, d)
             b == Consumed(a, d)
             s == Append(t, a)
  <2>1. P(t)
    OBVIOUS
  <2>2. /\ b \in Entries /\ b.deposit_id = a.deposit_id
        /\ a \in Dummies => b = a
        /\ b \in Dummies <=> a \in Dummies
        /\ b \in Live <=> a \in Live /\ a.deposit_id # d
    BY ConsumedFacts
  <2>3. AllConsumed(s, d) = Append(k, b)
    BY <2>1, AllConsumedAppend
  <2> HIDE DEF k, b
  <2>4. k \in Seq(Entries) /\ Only(k, Dummies) = Only(t, Dummies)
        /\ Listed(k) = Only(Listed(t), Deposits \ {d})
    BY <2>1 DEF k
  <2>5. Append(k, b) \in Seq(Entries)
    BY <2>2, <2>4, AppendProperties
  <2>6. Only(Append(k, b), Dummies) = Only(s, Dummies)
    <3>1. /\ Only(Append(k, b), Dummies) =
                IF b \in Dummies THEN Append(Only(k, Dummies), b) ELSE Only(k, Dummies)
          /\ Only(s, Dummies) =
                IF a \in Dummies THEN Append(Only(t, Dummies), a) ELSE Only(t, Dummies)
      BY <2>2, <2>4, OnlyAppend
    <3> QED
      BY <2>2, <2>4, <3>1
  <2>7. Listed(Append(k, b)) = Only(Listed(s), Deposits \ {d})
    <3>1. /\ Listed(Append(k, b)) =
               IF b \in Live THEN Append(Listed(k), b.deposit_id) ELSE Listed(k)
          /\ Listed(s) = IF a \in Live THEN Append(Listed(t), a.deposit_id) ELSE Listed(t)
      BY <2>2, <2>4, EntriesFacts, EntriesSeq, ListedAppend
    <3>2. CASE a \notin Live
      BY <2>2, <2>4, <3>1, <3>2
    <3>3. CASE a \in Live
      <4>1. a.deposit_id \in Deposits /\ Listed(t) \in Seq(Deposits)
        BY <3>3, EntriesFacts, ListedSeq
      <4>2. Only(Append(Listed(t), a.deposit_id), Deposits \ {d}) =
              IF a.deposit_id \in Deposits \ {d}
              THEN Append(Only(Listed(t), Deposits \ {d}), a.deposit_id)
              ELSE Only(Listed(t), Deposits \ {d})
        <5> DEFINE u == Listed(t)
                   e == a.deposit_id
        <5> HIDE DEF u, e
        <5>1. e \in Deposits /\ u \in Seq(Deposits)
          BY <4>1 DEF u, e
        <5>2. Only(Append(u, e), Deposits \ {d}) =
                IF e \in Deposits \ {d} THEN Append(Only(u, Deposits \ {d}), e)
                ELSE Only(u, Deposits \ {d})
          BY <5>1, OnlyAppend
        <5> QED
          BY <5>2 DEF u, e
      <4>3. CASE a.deposit_id = d
        BY <2>2, <2>4, <3>1, <3>3, <4>2, <4>3
      <4>4. CASE a.deposit_id # d
        BY <2>2, <2>4, <3>1, <3>3, <4>1, <4>2, <4>4
      <4> QED
        BY <4>3, <4>4
    <3> QED
      BY <3>2, <3>3
  <2> QED
    BY <1>2, <2>3, <2>5, <2>6, <2>7
<1>3. B \in SUBSET Seq(Entries)
  OBVIOUS
<1> HIDE DEF B
<1> QED
  BY <1>1, <1>2, <1>3, Shortest

-----------------------------------------------------------------------------
(* The Noticeboard's operations *)

\* What is always true of the board: its dummies are those with the ids in
\* dummy_ids, and it is empty until the pool has been filled.
BoardTrue ==
  /\ Good(announcements, dummy_ids)
  /\ dummy_ids \subseteq DummyIds /\ pool_initialized \in BOOLEAN
  /\ ~pool_initialized => announcements = << >> /\ dummy_ids = {}

LEMMA EmptyGood == Good(<< >>, {}) /\ Listed(<< >>) = << >>
<1>1. Only(<< >>, Dummies) = << >> /\ Only(<< >>, Live) = << >>
  BY OnlyEmpty
<1>2. << >> \in Seq(Entries) /\ Len(<< >>) = 0
  BY EmptySeq
<1>3. Distinct(<< >>) /\ IdSet(<< >>) = {}
  BY <1>2 DEF Distinct, IdSet
<1> QED
  BY <1>1, <1>2, <1>3, IdsEmpty DEF Good, Listed

LEMMA FullGood == Good(DummyList(DummyIds), DummyIds) /\ Listed(DummyList(DummyIds)) = << >>
<1>1. DummyIds \in SUBSET (DummyIds \ {}) /\ {} \subseteq DummyIds /\ {} \cup DummyIds = DummyIds
  OBVIOUS
<1>2. DummyList(DummyIds) \in Seq(Entries \cap Dummies)
  BY NewDummies
<1>3. << >> \o DummyList(DummyIds) = DummyList(DummyIds)
  BY <1>2, ConcatEmptySeq
<1>4. Good(<< >> \o DummyList(DummyIds), {} \cup DummyIds)
      /\ Listed(<< >> \o DummyList(DummyIds)) = Listed(<< >>)
  BY <1>1, EmptyGood, GoodConcat
<1> QED
  BY <1>1, <1>3, <1>4, EmptyGood

LEMMA WithDummiesBoard ==
  ASSUME NEW list, NEW ids, NEW n \in Nat, Good(list, ids), ids \subseteq DummyIds,
         n + Cardinality(ids) <= PoolSize, WithDummies(list, ids, n)
  PROVE  /\ Good(announcements', dummy_ids') /\ dummy_ids' \subseteq DummyIds
         /\ Listed(announcements') = Listed(list)
<1> DEFINE C == CHOOSE S \in SUBSET (DummyIds \ ids) : Cardinality(S) = n
<1>1. /\ IsFiniteSet(DummyIds \ ids) /\ IsFiniteSet(ids)
      /\ Cardinality(DummyIds \ ids) = PoolSize - Cardinality(ids)
  <2>1. IsFiniteSet(DummyIds)
    BY PoolFinite
  <2>2. IsFiniteSet(ids)
    BY <2>1, FS_Subset
  <2>3. DummyIds \cap ids = ids
    BY Zenon
  <2>4. /\ IsFiniteSet(DummyIds \ ids)
        /\ Cardinality(DummyIds \ ids)
             = Cardinality(DummyIds) - Cardinality(DummyIds \cap ids)
    BY <2>1, FS_Difference, Zenon
  <2> QED
    BY <2>2, <2>3, <2>4, PoolFinite
<1>2. Cardinality(ids) \in Nat /\ PoolSize \in Nat
  BY <1>1, FS_CardinalityType, NoticeboardAssumption
<1>3. \E S \in SUBSET (DummyIds \ ids) : Cardinality(S) = n
  <2>1. n <= Cardinality(DummyIds \ ids)
    BY <1>1, <1>2
  <2> QED
    BY <1>1, <2>1, SubsetOfSize
<1>4. C \in SUBSET (DummyIds \ ids) /\ Cardinality(C) = n
  BY <1>3
<1>5. announcements' = list \o [i \in 1..n |-> Entry(SetToSeq(C)[i], FALSE)]
      /\ dummy_ids' = ids \cup C
  BY DEF WithDummies
<1> HIDE DEF C
<1>6. announcements' = list \o DummyList(C)
  BY <1>4, <1>5 DEF DummyList
<1>7. Good(list \o DummyList(C), ids \cup C) /\ Listed(list \o DummyList(C)) = Listed(list)
  BY <1>4, GoodConcat
<1> QED
  BY <1>4, <1>5, <1>6, <1>7

LEMMA AnnounceBoard ==
  ASSUME BoardTrue, NEW d \in Deposits, NEW storage \in BOOLEAN, announce(d, storage)
  PROVE  /\ BoardTrue'
         /\ Listed(announcements') =
              IF storage THEN Append(Listed(announcements), d) ELSE Listed(announcements)
<1> DEFINE filled == IF pool_initialized THEN announcements ELSE DummyList(DummyIds)
           ids == IF pool_initialized THEN dummy_ids ELSE DummyIds
<1>1. /\ announcements' = Append(filled, Entry(d, storage))
      /\ dummy_ids' = ids /\ pool_initialized' = TRUE
  BY PoolFinite DEF announce, DummyList
<1>2. Good(filled, ids) /\ Listed(filled) = Listed(announcements) /\ ids \subseteq DummyIds
  BY FullGood, EmptyGood DEF BoardTrue
<1> HIDE DEF filled, ids
<1>3. /\ Good(Append(filled, Entry(d, storage)), ids)
      /\ Listed(Append(filled, Entry(d, storage))) =
           IF storage THEN Append(Listed(filled), d) ELSE Listed(filled)
  BY <1>2, GoodAnnounce
<1> QED
  BY <1>1, <1>2, <1>3 DEF BoardTrue

LEMMA ConsumeBoard ==
  ASSUME BoardTrue, NEW d \in Deposits, consume(d)
  PROVE  /\ BoardTrue'
         /\ Listed(announcements') = Only(Listed(announcements), Deposits \ {d})
<1>1. announcements' = AllConsumed(announcements, d)
      /\ dummy_ids' = dummy_ids /\ pool_initialized' = pool_initialized
  BY DEF consume, AllConsumed, Consumed
<1>2. announcements \in Seq(Entries)
  BY DEF BoardTrue, Good
<1>3. /\ AllConsumed(announcements, d) \in Seq(Entries)
      /\ Only(AllConsumed(announcements, d), Dummies) = Only(announcements, Dummies)
      /\ Listed(AllConsumed(announcements, d)) = Only(Listed(announcements), Deposits \ {d})
  BY <1>2, ConsumeFacts
<1>4. ~pool_initialized => AllConsumed(announcements, d) = << >>
  BY DEF BoardTrue, AllConsumed
<1> QED
  BY <1>1, <1>3, <1>4 DEF BoardTrue, Good

LEMMA InitializeBoard ==
  ASSUME BoardTrue, ensure_initialized
  PROVE  BoardTrue' /\ Listed(announcements') = Listed(announcements)
<1>1. /\ announcements = << >> /\ pool_initialized' = TRUE
      /\ WithDummies(<< >>, {}, PoolSize)
  BY DEF BoardTrue, ensure_initialized
<1>2. PoolSize \in Nat /\ PoolSize + Cardinality({}) <= PoolSize
  BY NoticeboardAssumption, FS_EmptySet
<1>3. /\ Good(announcements', dummy_ids') /\ dummy_ids' \subseteq DummyIds
      /\ Listed(announcements') = Listed(<< >>)
  BY <1>1, <1>2, EmptyGood, WithDummiesBoard
<1> QED
  BY <1>1, <1>3 DEF BoardTrue

LEMMA ChurnBoard ==
  ASSUME BoardTrue, do_churn
  PROVE  BoardTrue' /\ Listed(announcements') = Listed(announcements)
<1>1. PICK R \in SUBSET dummy_ids :
        LET left == Only(announcements, {a \in Announcement : a.deposit_id \notin R})
            Real == {a \in Announcement : ~a.consumed /\ a.deposit_id \notin dummy_ids \ R}
            active == Len(Only(left, Real)) + Cardinality(dummy_ids \ R)
        IN  WithDummies(left, dummy_ids \ R, IF active < PoolSize THEN PoolSize - active ELSE 0)
  BY DEF do_churn
<1> DEFINE left == Only(announcements, Kept(R))
           Real == {a \in Announcement : ~a.consumed /\ a.deposit_id \notin dummy_ids \ R}
           ids == dummy_ids \ R
           active == Len(Only(left, Real)) + Cardinality(ids)
           n == IF active < PoolSize THEN PoolSize - active ELSE 0
<1>2. WithDummies(left, ids, n)
  BY <1>1 DEF Kept
<1>3. pool_initialized' = TRUE
  BY DEF do_churn
<1>4. Good(left, ids) /\ Listed(left) = Listed(announcements) /\ ids \subseteq DummyIds
  <2>1. R \in SUBSET DummyIds
    BY DEF BoardTrue
  <2> QED
    BY <2>1, GoodKept DEF BoardTrue
<1>5. Len(Only(left, Real)) \in Nat /\ Cardinality(ids) \in Nat /\ PoolSize \in Nat
      /\ Cardinality(ids) <= PoolSize
  <2>1. left \in Seq(Entries)
    BY <1>4 DEF Good
  <2>2. Only(left, Real) \in Seq(Entries)
    BY <2>1, OnlyIn
  <2>3. IsFiniteSet(ids) /\ Cardinality(ids) <= PoolSize
    BY <1>4, PoolFinite, FS_Subset
  <2> QED
    BY <2>2, <2>3, LenProperties, FS_CardinalityType, NoticeboardAssumption
<1>6. n \in Nat /\ n + Cardinality(ids) <= PoolSize
  BY <1>5
<1> HIDE DEF left, ids, n
<1>7. /\ Good(announcements', dummy_ids') /\ dummy_ids' \subseteq DummyIds
      /\ Listed(announcements') = Listed(left)
  BY <1>2, <1>4, <1>6, WithDummiesBoard
<1> QED
  BY <1>3, <1>4, <1>7 DEF BoardTrue

LEMMA PruneBoard ==
  ASSUME BoardTrue, prune
  PROVE  BoardTrue' /\ Listed(announcements') = Listed(announcements)
<1> DEFINE k == Only(announcements, {a \in Announcement : ~a.consumed})
           gone == {id \in dummy_ids : \E i \in DOMAIN announcements :
                      announcements[i].deposit_id = id /\ announcements[i].consumed}
<1>1. announcements' = k /\ dummy_ids' = dummy_ids \ gone /\ pool_initialized' = pool_initialized
  BY DEF prune
<1>2. gone = {}
  <2> SUFFICES ASSUME NEW i \in DOMAIN announcements, announcements[i].deposit_id \in dummy_ids,
                      announcements[i].consumed
               PROVE  FALSE
    OBVIOUS
  <2>1. announcements \in Seq(Entries)
    BY DEF BoardTrue, Good
  <2>2. announcements[i] \in Entries
    BY <2>1, ElementOfSeq, LenProperties
  <2>3. announcements[i].deposit_id \in DummyIds
    BY DEF BoardTrue
  <2> QED
    BY <2>2, <2>3, EntriesFacts
<1>3. Good(k, dummy_ids) /\ Listed(k) = Listed(announcements)
  BY GoodUnconsumed DEF BoardTrue
<1>4. ~pool_initialized => k = << >>
  BY OnlyEmpty DEF BoardTrue
<1> HIDE DEF k, gone
<1>5. dummy_ids' = dummy_ids
  BY <1>1, <1>2
<1> QED
  BY <1>1, <1>3, <1>4, <1>5 DEF BoardTrue

LEMMA MaintainBoard ==
  ASSUME BoardTrue, Maintain
  PROVE  BoardTrue' /\ Listed(announcements') = Listed(announcements)
BY InitializeBoard, ChurnBoard, PruneBoard DEF Maintain

-----------------------------------------------------------------------------
(* The state of the Noticeboard and the screen *)

ReceiveInv ==
  /\ TypeOK /\ BoardTrue
  /\ consuming \subseteq paid
  /\ \A s \in Scans : scan[s].at # "answered" => scan[s].page = << >>

ScanStates == [at : {"idle", "pin", "sent", "answered"}, page : Seq(Deposits)]

\* What the screen's steps change.
ScreenOK ==
  /\ scan \in [Scans -> ScanStates] /\ scanning \in BOOLEAN /\ cached \in Seq(Deposits)
  /\ \A s \in Scans : scan[s].at # "answered" => scan[s].page = << >>

ClaimsOK ==
  /\ claimed \cup hardFailed \cup processing \subseteq Deposits
  /\ claiming \in [Deposits -> 0..MaxClaims]

PaidOK == paid \cup lost \subseteq Deposits /\ consuming \subseteq paid

CountersOK ==
  /\ announced \in [Deposits -> 0..MaxAnnounced]
  /\ resets \in 0..MaxResets /\ mishaps \in 0..MaxMishaps

LEMMA InvParts ==
  ReceiveInv <=> BoardTrue /\ ScreenOK /\ ClaimsOK /\ PaidOK /\ CountersOK
<1>1. BoardTrue => announcements \in Seq(Announcement)
  BY EntriesSeq DEF BoardTrue, Good
<1> QED
  BY <1>1 DEF ReceiveInv, TypeOK, BoardTrue, ScreenOK, ClaimsOK, PaidOK, CountersOK, ScanStates

LEMMA InitInv == Init => ReceiveInv
<1> SUFFICES ASSUME Init PROVE BoardTrue /\ ScreenOK /\ ClaimsOK /\ PaidOK /\ CountersOK
  BY InvParts
<1>1. BoardTrue
  BY EmptyGood DEF Init, InitBoard, BoardTrue
<1>2. NoScan \in ScanStates /\ NoScan.page = << >>
  BY EmptySeq DEF NoScan, ScanStates
<1>3. ScreenOK
  BY <1>2, EmptySeq DEF Init, ScreenOK
<1>4. ClaimsOK /\ PaidOK /\ CountersOK
  BY ReceiveAssumption DEF Init, ClaimsOK, PaidOK, CountersOK
<1> QED
  BY <1>1, <1>3, <1>4

\* A claim that fails loses a deposit, or not.
Loses(d) == UNCHANGED <<paid, consuming>> /\ lost' \in {lost, lost \cup ({d} \cap Mine)}

LEMMA CountersStep ==
  ASSUME CountersOK
  PROVE  (Mishap \/ NoMishap) /\ announced' = announced => CountersOK'
BY ReceiveAssumption DEF CountersOK, Mishap, NoMishap, counters

\* The first deposits of the board, in order.
LEMMA PageFacts ==
  ASSUME BoardTrue, NEW limit \in Nat
  PROVE  LET listed == Listed(announcements)
             n == IF Len(listed) < limit THEN Len(listed) ELSE limit
         IN  Page(limit) = SubSeq(listed, 1, n) /\ Page(limit) \in Seq(Deposits)
<1> DEFINE k == Only(announcements, Live)
           listed == Listed(announcements)
           n == IF Len(k) < limit THEN Len(k) ELSE limit
           page == [i \in 1..n |-> k[i].deposit_id]
           r == SubSeq(listed, 1, n)
<1>1. /\ listed \in Seq(Deposits) /\ Len(listed) = Len(k)
      /\ listed = [i \in 1..Len(k) |-> k[i].deposit_id]
  BY ListedSeq DEF BoardTrue, Good, Listed, Ids
<1>2. Page(limit) = page
  BY DEF Page, Pending, Live
<1>3. Len(k) \in Nat /\ n \in Nat /\ n <= Len(k)
  BY <1>1, LenProperties
<1> HIDE DEF n, listed, k
<1>4. \A i \in 1..n : i \in 1..Len(k) /\ listed[i] \in Deposits
  BY <1>1, <1>3, ElementOfSeq
<1>5. /\ r \in Seq(Deposits) /\ Len(r) = n /\ \A i \in 1..n : r[i] = listed[i]
  <2>1. /\ Len(r) = IF 1 <= n THEN n - 1 + 1 ELSE 0
        /\ r \in Seq(Deposits)
        /\ \A i \in 1..n - 1 + 1 : r[i] = listed[1 + i - 1]
    BY <1>3, <1>4, SubSeqProperties
  <2>2. \A i \in 1..n : i \in 1..n - 1 + 1 /\ 1 + i - 1 = i
    BY <1>3
  <2>3. Len(r) = n
    BY <1>3, <2>1
  <2> HIDE DEF r
  <2> QED
    BY <2>1, <2>2, <2>3
<1>6. \A i \in 1..n : page[i] = r[i]
  <2> HIDE DEF r
  <2> QED
    BY <1>1, <1>4, <1>5
<1>7. page \in [1..n -> Deposits]
  <2> HIDE DEF r
  <2>1. \A i \in 1..n : k[i].deposit_id \in Deposits
    BY <1>1, <1>4
  <2> QED
    BY <2>1
<1>8. page \in Seq(Deposits)
  BY <1>3, <1>7, SeqDef
<1>9. Len(page) = n
  BY <1>3, <1>7, <1>8, LenProperties
<1> HIDE DEF page, r
<1>10. page = r
  BY <1>5, <1>6, <1>8, <1>9, SeqEqual
<1> QED
  BY <1>1, <1>2, <1>8, <1>10 DEF listed, n, r

-----------------------------------------------------------------------------
(* Every step keeps the invariant *)

LEMMA BoardKept ==
  ASSUME ReceiveInv, Next
  PROVE  BoardTrue'
<1>1. BoardTrue
  BY DEF ReceiveInv
<1>2. CASE UNCHANGED boardVars
  BY <1>1, <1>2 DEF boardVars, BoardTrue
<1>3. ASSUME NEW d \in Deposits, Announce(d) PROVE BoardTrue'
  BY <1>1, <1>3, AnnounceBoard DEF Announce
<1>4. ASSUME NEW d \in Deposits, Consume(d) PROVE BoardTrue'
  BY <1>1, <1>2, <1>4, ConsumeBoard DEF Consume
<1>5. ASSUME Maintain PROVE BoardTrue'
  BY <1>1, <1>5, MaintainBoard
<1>6. ASSUME NEW d \in Deposits, OtherClaims(d) \/ Claim(d) \/ ClaimGoesOn(d)
      PROVE  UNCHANGED boardVars
  BY <1>6 DEF OtherClaims, Claim, ClaimGoesOn, ClaimSucceeds, ClaimRefused, ClaimFails, ClaimEnds
<1>7. ASSUME NEW s \in Scans, Scan(s) \/ ScanGoesOn(s)
      PROVE  UNCHANGED boardVars
  BY <1>7 DEF Scan, ScanGoesOn, VerifyPin, ScanExecute, ScanAnswer
<1>8. ASSUME Reset PROVE UNCHANGED boardVars
  BY <1>8 DEF Reset
<1> QED
  BY <1>2, <1>3, <1>4, <1>5, <1>6, <1>7, <1>8 DEF Next

LEMMA PaidKept ==
  ASSUME ReceiveInv, Next
  PROVE  PaidOK'
<1>1. PaidOK
  BY InvParts
<1>2. CASE UNCHANGED i2Vars
  BY <1>1, <1>2 DEF PaidOK, i2Vars
<1>3. ASSUME NEW d \in Deposits, Pay(d) \/ Loses(d) PROVE PaidOK'
  BY <1>1, <1>3 DEF PaidOK, Pay, Loses
<1>4. ASSUME NEW d \in Deposits, Consume(d) PROVE PaidOK'
  BY <1>1, <1>4 DEF PaidOK, Consume
<1>5. ASSUME NEW d \in Deposits, Announce(d) \/ OtherClaims(d) \/ Claim(d) \/ ClaimGoesOn(d)
      PROVE  UNCHANGED i2Vars \/ Pay(d) \/ Loses(d)
  BY <1>5 DEF Announce, OtherClaims, Claim, ClaimGoesOn, ClaimSucceeds, ClaimRefused, ClaimFails,
     Loses
<1>6. ASSUME NEW s \in Scans, Scan(s) \/ ScanGoesOn(s)
      PROVE  UNCHANGED i2Vars
  BY <1>6 DEF Scan, ScanGoesOn, VerifyPin, ScanExecute, ScanAnswer
<1>7. ASSUME Maintain \/ Reset PROVE UNCHANGED i2Vars
  BY <1>7 DEF Maintain, Reset
<1> QED
  BY <1>2, <1>3, <1>4, <1>5, <1>6, <1>7 DEF Next

LEMMA CountersKept ==
  ASSUME ReceiveInv, Next
  PROVE  CountersOK'
<1>1. CountersOK
  BY InvParts
<1>2. CASE (Mishap \/ NoMishap) /\ announced' = announced
  BY <1>1, <1>2, CountersStep
<1>3. ASSUME NEW d \in Deposits, Consume(d) \/ OtherClaims(d) \/ Claim(d) \/ ClaimGoesOn(d)
      PROVE  (Mishap \/ NoMishap) /\ announced' = announced
  <2>1. CASE Consume(d) \/ OtherClaims(d) \/ Claim(d)
    BY <2>1 DEF Consume, OtherClaims, Claim
  <2>2. CASE ClaimGoesOn(d)
    BY <2>2 DEF ClaimGoesOn, ClaimSucceeds, ClaimRefused, ClaimFails, ClaimEnds
  <2> QED
    BY <1>3, <2>1, <2>2
<1>4. ASSUME NEW s \in Scans, Scan(s) \/ ScanGoesOn(s)
      PROVE  (Mishap \/ NoMishap) /\ announced' = announced
  BY <1>4 DEF Scan, ScanGoesOn, VerifyPin, ScanExecute, ScanAnswer
<1>5. ASSUME Maintain PROVE NoMishap /\ announced' = announced
  BY <1>5 DEF Maintain, NoMishap
<1>6. ASSUME Reset PROVE CountersOK'
  BY <1>1, <1>6, ReceiveAssumption DEF Reset, CountersOK
<1>7. ASSUME NEW d \in Deposits, Announce(d) PROVE CountersOK'
  <2>1. announced[d] \in 0..MaxAnnounced /\ announced[d] < MaxAnnounced /\ MaxAnnounced \in Nat
    BY <1>1, <1>7, ReceiveAssumption DEF CountersOK, Announce
  <2>2. announced[d] + 1 \in 0..MaxAnnounced
    BY <2>1
  <2> QED
    BY <1>1, <1>7, <2>2 DEF Announce, CountersOK, counters
<1> QED
  BY <1>2, <1>3, <1>4, <1>5, <1>6, <1>7 DEF Next

LEMMA ClaimsKept ==
  ASSUME ReceiveInv, Next
  PROVE  ClaimsOK'
<1>1. ClaimsOK
  BY InvParts
<1>2. CASE UNCHANGED claimVars
  BY <1>1, <1>2 DEF ClaimsOK, claimVars
<1>3. ASSUME NEW d \in Deposits, Announce(d) \/ Consume(d) \/ OtherClaims(d)
      PROVE  UNCHANGED claimVars
  BY <1>3 DEF Announce, Consume, OtherClaims
<1>4. ASSUME NEW d \in Deposits, Claim(d) PROVE ClaimsOK'
  <2>1. claiming[d] \in 0..MaxClaims /\ claiming[d] < MaxClaims /\ MaxClaims \in Nat
    BY <1>1, <1>4, ReceiveAssumption DEF ClaimsOK, Claim
  <2>2. claiming[d] + 1 \in 0..MaxClaims
    BY <2>1
  <2> QED
    BY <1>1, <1>4, <2>2 DEF Claim, ClaimsOK
<1>5. ASSUME NEW d \in Deposits, ClaimGoesOn(d) PROVE ClaimsOK'
  <2>1. /\ ClaimEnds(d)
        /\ claimed' \subseteq claimed \cup {d} /\ hardFailed' \subseteq hardFailed \cup {d}
    BY <1>5 DEF ClaimGoesOn, ClaimSucceeds, ClaimRefused, ClaimFails
  <2>2. claiming[d] \in 0..MaxClaims /\ claiming[d] > 0 /\ MaxClaims \in Nat
    BY <1>1, <2>1, ReceiveAssumption DEF ClaimsOK, ClaimEnds
  <2>3. claiming[d] - 1 \in 0..MaxClaims
    BY <2>2
  <2> QED
    BY <1>1, <2>1, <2>3 DEF ClaimEnds, ClaimsOK
<1>6. ASSUME NEW s \in Scans, Scan(s) \/ ScanGoesOn(s)
      PROVE  UNCHANGED claimVars
  BY <1>6 DEF Scan, ScanGoesOn, VerifyPin, ScanExecute, ScanAnswer
<1>7. ASSUME Maintain PROVE UNCHANGED claimVars
  BY <1>7 DEF Maintain
<1>8. ASSUME Reset PROVE ClaimsOK'
  BY <1>1, <1>8 DEF Reset, ClaimsOK
<1> QED
  BY <1>2, <1>3, <1>4, <1>5, <1>6, <1>7, <1>8 DEF Next

LEMMA ScreenKept ==
  ASSUME ReceiveInv, Next
  PROVE  ScreenOK'
<1>1. ScreenOK /\ BoardTrue
  BY InvParts
<1>2. CASE UNCHANGED scanVars
  BY <1>1, <1>2 DEF ScreenOK, scanVars
<1>3. ASSUME NEW d \in Deposits,
             Announce(d) \/ Consume(d) \/ OtherClaims(d) \/ Claim(d) \/ ClaimGoesOn(d)
      PROVE  UNCHANGED scanVars
  BY <1>3 DEF Announce, Consume, OtherClaims, Claim, ClaimGoesOn, ClaimSucceeds, ClaimRefused,
     ClaimFails, ClaimEnds
<1>4. ASSUME Maintain PROVE UNCHANGED scanVars
  BY <1>4 DEF Maintain
<1>5. ASSUME NEW s \in Scans, Scan(s) \/ VerifyPin(s) PROVE ScreenOK'
  <2>1. /\ cached' = cached /\ scanning' \in BOOLEAN
        /\ scan[s].at \in {"idle", "pin"}
        /\ \E a \in {"pin", "sent", "idle"} : scan' = [scan EXCEPT ![s].at = a]
    BY <1>1, <1>5 DEF Scan, VerifyPin, ScreenOK
  <2> QED
    BY <1>1, <2>1 DEF ScreenOK, ScanStates
<1>6. ASSUME NEW s \in Scans, ScanExecute(s) PROVE ScreenOK'
  <2>1. Page(Limit) \in Seq(Deposits)
    BY <1>1, PageFacts, ReceiveAssumption
  <2>2. scan' = [scan EXCEPT ![s].at = "answered", ![s].page = Page(Limit)]
        /\ UNCHANGED <<scanning, cached>>
    BY <1>6 DEF ScanExecute
  <2> QED
    BY <1>1, <2>1, <2>2 DEF ScreenOK, ScanStates
<1>7. ASSUME NEW s \in Scans, ScanAnswer(s) PROVE ScreenOK'
  <2>1. scan[s].page \in Seq(Deposits)
    BY <1>1 DEF ScreenOK, ScanStates
  <2>2. cached' \in Seq(Deposits)
    BY <1>1, <1>7, <2>1, OnlyIn DEF ScanAnswer, Shown, ScreenOK
  <2>3. NoScan \in ScanStates /\ NoScan.page = << >>
    BY EmptySeq DEF NoScan, ScanStates
  <2>4. scan' = [scan EXCEPT ![s] = NoScan] /\ scanning' = FALSE
    BY <1>7 DEF ScanAnswer
  <2> QED
    BY <1>1, <2>2, <2>3, <2>4 DEF ScreenOK
<1>8. ASSUME Reset PROVE ScreenOK'
  <2>1. scan' = scan /\ scanning' = FALSE /\ cached' = << >>
    BY <1>8 DEF Reset
  <2> QED
    BY <1>1, <2>1, EmptySeq DEF ScreenOK
<1> QED
  BY <1>2, <1>3, <1>4, <1>5, <1>6, <1>7, <1>8 DEF Next, ScanGoesOn

LEMMA NextInv == ReceiveInv /\ [Next]_vars => ReceiveInv'
<1> SUFFICES ASSUME ReceiveInv, [Next]_vars PROVE ReceiveInv'
  OBVIOUS
<1>1. CASE UNCHANGED vars
  BY <1>1 DEF ReceiveInv, TypeOK, BoardTrue, vars, boardVars, i2Vars, scanVars, claimVars, counters
<1>2. CASE Next
  <2>1. (BoardTrue /\ ScreenOK /\ ClaimsOK /\ PaidOK /\ CountersOK)'
    BY <1>2, BoardKept, ScreenKept, ClaimsKept, PaidKept, CountersKept
  <2> QED
    BY <2>1, InvParts, PTL
<1> QED
  BY <1>1, <1>2

LEMMA InvHolds == Spec => []ReceiveInv
BY InitInv, NextInv, PTL DEF Spec

-----------------------------------------------------------------------------
(* Theorems *)

\* The state of the Noticeboard, of the payments and of the Receive screen keeps
\* its type, through answers and results that come after the session has ended.
THEOREM ReceiveTypes == Spec => []TypeOK
<1>1. ReceiveInv => TypeOK
  BY DEF ReceiveInv
<1> QED
  BY <1>1, InvHolds, PTL

\* After any announcements, churns and prunings the dummies of the list are those
\* whose ids the Noticeboard keeps, each once, at most PoolSize, none consumed.
THEOREM DummiesAlwaysMatch == Spec => []DummiesMatch
<1>1. ReceiveInv => DummiesMatch
  <2> SUFFICES ASSUME ReceiveInv PROVE DummiesMatch
    OBVIOUS
  <2> DEFINE list == Only(announcements, Dummies)
  <2>1. /\ announcements \in Seq(Entries) /\ Distinct(list) /\ IdSet(list) = dummy_ids
        /\ dummy_ids \subseteq DummyIds
    BY DEF ReceiveInv, BoardTrue, Good
  <2>2. list \in Seq(Entries \cap Dummies)
    BY <2>1, OnlySeq
  <2>3. list \in Seq(Announcement)
    BY <2>1, OnlyIn, EntriesSeq
  <2> HIDE DEF list
  <2>4. DOMAIN list = 1..Len(list)
    BY <2>3, LenProperties
  <2>5. ToSet([i \in DOMAIN list |-> list[i].deposit_id]) = dummy_ids
    BY <2>1, <2>4 DEF ToSet, IdSet
  <2>6. Len(list) = Cardinality(dummy_ids)
    BY <2>1, <2>3, DistinctLen
  <2>7. Len(list) <= PoolSize
    BY <2>1, <2>6, PoolFinite, FS_Subset
  <2>8. \A i \in DOMAIN list : ~list[i].consumed /\ ~list[i].storage
    <3> TAKE i \in DOMAIN list
    <3>1. list[i] \in Entries \cap Dummies
      BY <2>2, <2>4, ElementOfSeq
    <3> QED
      BY <3>1, EntriesFacts
  <2>9. list = Only(announcements, {a \in Announcement : a.deposit_id \in DummyIds})
    BY DEF list, Dummies
  <2> QED
    BY <2>5, <2>6, <2>7, <2>8, <2>9 DEF DummiesMatch
<1> QED
  BY <1>1, InvHolds, PTL

LEMMA PendingIs ==
  ASSUME BoardTrue
  PROVE  PendingDeposits = Listed(announcements)
<1> DEFINE n == Len(Pending)
           listed == Listed(announcements)
<1>1. announcements \in Seq(Entries)
  BY DEF BoardTrue, Good
<1>2. Pending = Only(announcements, Live)
  BY DEF Pending, Live
<1>3. listed \in Seq(Deposits) /\ Len(listed) = n /\ n \in Nat
  BY <1>1, <1>2, ListedSeq, LenProperties
<1>4. PendingDeposits = SubSeq(listed, 1, IF Len(listed) < n THEN Len(listed) ELSE n)
  BY <1>3, PageFacts DEF PendingDeposits
<1> HIDE DEF n, listed
<1>5. PendingDeposits = SubSeq(listed, 1, Len(listed))
  BY <1>3, <1>4
<1> QED
  BY <1>3, <1>5, SubSeqFull DEF listed

LEMMA SameFilter ==
  ASSUME NEW s, NEW T
  PROVE  Abstract!Only(s, T) = Only(s, T)
BY DEF Only, Abstract!Only

\* The board, with what the queries have been answered.
Answers == [s \in Scans |-> [read |-> scan[s].at = "answered", page |-> scan[s].page]]

LEMMA InitImplements == Init => Abstract!Init
<1> SUFFICES ASSUME Init PROVE Abstract!Init
  OBVIOUS
<1>1. PendingDeposits = << >>
  <2>1. BoardTrue /\ announcements = << >>
    BY InitInv DEF ReceiveInv, Init, InitBoard
  <2> QED
    BY <2>1, PendingIs, EmptyGood
<1>2. paid = {}
  BY DEF Init
<1>3. \A s \in Scans : scan[s].at = "idle" /\ scan[s].page = << >>
  BY DEF Init, NoScan
<1> QED
  BY <1>1, <1>2, <1>3 DEF Abstract!Init, Abstract!NoAnswer

\* A step that leaves the board's list, the payments and the answers alone.
LEMMA Stutters ==
  ASSUME PendingDeposits' = PendingDeposits, paid' = paid, Answers' = Answers
  PROVE  UNCHANGED Abstract!vars
BY DEF Abstract!vars, Answers

LEMMA NextImplements == ReceiveInv /\ ReceiveInv' /\ [Next]_vars => [Abstract!Next]_(Abstract!vars)
<1> SUFFICES ASSUME ReceiveInv, ReceiveInv', [Next]_vars
             PROVE  [Abstract!Next]_(Abstract!vars)
  OBVIOUS
<1>1. /\ BoardTrue /\ BoardTrue' /\ ScreenOK /\ PaidOK
  BY InvParts DEF ReceiveInv
<1>2. PendingDeposits = Listed(announcements) /\ PendingDeposits' = Listed(announcements')
  <2>1. BoardTrue => PendingDeposits = Listed(announcements)
    BY PendingIs
  <2>2. (BoardTrue => PendingDeposits = Listed(announcements))'
    BY PendingIs, PTL
  <2> QED
    BY <1>1, <2>1, <2>2
<1>3. ASSUME UNCHANGED boardVars PROVE PendingDeposits' = PendingDeposits
  BY <1>2, <1>3 DEF boardVars
<1>4. ASSUME UNCHANGED scan PROVE Answers' = Answers
  BY <1>4 DEF Answers
<1>5. ASSUME NEW d \in Deposits, Announce(d)
      PROVE  Abstract!Next \/ UNCHANGED Abstract!vars
  <2>1. PendingDeposits' =
          IF announced[d] = 0 THEN Append(PendingDeposits, d) ELSE PendingDeposits
    BY <1>1, <1>2, <1>5, AnnounceBoard DEF Announce
  <2>2. UNCHANGED <<paid, scan>>
    BY <1>5 DEF Announce, i2Vars, scanVars
  <2>3. CASE announced[d] = 0
    <3>1. Abstract!Announce(d)
      BY <2>1, <2>2, <2>3 DEF Abstract!Announce
    <3> QED
      BY <3>1 DEF Abstract!Next
  <2>4. CASE announced[d] # 0
    BY <1>4, <2>1, <2>2, <2>4, Stutters
  <2> QED
    BY <2>3, <2>4
<1>6. ASSUME NEW d \in Deposits, Consume(d)
      PROVE  Abstract!Next \/ UNCHANGED Abstract!vars
  <2>1. UNCHANGED <<paid, scan>> /\ d \in paid
    BY <1>1, <1>6 DEF Consume, scanVars, PaidOK
  <2>2. CASE consume(d)
    <3>1. PendingDeposits' = Abstract!Only(PendingDeposits, Deposits \ {d})
      BY <1>1, <1>2, <2>2, ConsumeBoard, SameFilter
    <3>2. Abstract!Consume(d)
      BY <2>1, <3>1 DEF Abstract!Consume
    <3> QED
      BY <3>2 DEF Abstract!Next
  <2>3. CASE UNCHANGED boardVars
    BY <1>3, <1>4, <2>1, <2>3, Stutters
  <2> QED
    BY <1>6, <2>2, <2>3 DEF Consume
<1>7. ASSUME NEW d \in Deposits, Pay(d), UNCHANGED boardVars, UNCHANGED scan PROVE Abstract!Next
  <2>1. Abstract!Pay(d)
    BY <1>3, <1>7 DEF Pay, Abstract!Pay
  <2> QED
    BY <2>1 DEF Abstract!Next
<1>8. ASSUME NEW d \in Deposits, OtherClaims(d) \/ Claim(d) \/ ClaimGoesOn(d)
      PROVE  Abstract!Next \/ UNCHANGED Abstract!vars
  <2>1. UNCHANGED boardVars /\ UNCHANGED scan
    BY <1>8 DEF OtherClaims, Claim, ClaimGoesOn, ClaimSucceeds, ClaimRefused, ClaimFails, ClaimEnds,
       scanVars
  <2>2. Pay(d) \/ paid' = paid
    BY <1>8 DEF OtherClaims, Claim, ClaimGoesOn, ClaimSucceeds, ClaimRefused, ClaimFails, i2Vars
  <2> QED
    BY <1>3, <1>4, <1>7, <2>1, <2>2, Stutters
<1>9. ASSUME Maintain PROVE UNCHANGED Abstract!vars
  <2>1. PendingDeposits' = PendingDeposits
    BY <1>1, <1>2, <1>9, MaintainBoard
  <2>2. UNCHANGED <<paid, scan>>
    BY <1>9 DEF Maintain, i2Vars, scanVars
  <2> QED
    BY <1>4, <2>1, <2>2, Stutters
<1>10. ASSUME NEW s \in Scans, Scan(s) \/ VerifyPin(s) PROVE UNCHANGED Abstract!vars
  <2>1. /\ UNCHANGED boardVars /\ paid' = paid /\ scan[s].at \in {"idle", "pin"}
        /\ \E a \in {"pin", "sent", "idle"} : scan' = [scan EXCEPT ![s].at = a]
    BY <1>10 DEF Scan, VerifyPin, i2Vars
  <2>2. Answers' = Answers
    BY <1>1, <2>1 DEF Answers, ScreenOK, ScanStates
  <2> QED
    BY <1>3, <2>1, <2>2, Stutters
<1>11. ASSUME NEW s \in Scans, ScanExecute(s) PROVE Abstract!Next
  <2>1. /\ UNCHANGED boardVars /\ paid' = paid /\ scan[s].at = "sent"
        /\ scan' = [scan EXCEPT ![s].at = "answered", ![s].page = Page(Limit)]
    BY <1>11 DEF ScanExecute, i2Vars
  <2>2. Page(Limit) = Abstract!FirstPage
    BY <1>1, <1>2, PageFacts, ReceiveAssumption DEF Abstract!FirstPage
  <2>3. Answers[s] = Abstract!NoAnswer
    BY <1>1, <2>1 DEF Answers, ScreenOK, ScanStates, Abstract!NoAnswer
  <2>4. Answers' = [Answers EXCEPT ![s] = [read |-> TRUE, page |-> Abstract!FirstPage]]
    BY <1>1, <2>1, <2>2 DEF Answers, ScreenOK, ScanStates
  <2>5. Abstract!Read(s)
    BY <1>3, <2>1, <2>3, <2>4 DEF Abstract!Read, Answers
  <2> QED
    BY <2>5 DEF Abstract!Next
<1>12. ASSUME NEW s \in Scans, ScanAnswer(s) PROVE Abstract!Next
  <2>1. /\ UNCHANGED boardVars /\ paid' = paid
        /\ scan' = [scan EXCEPT ![s] = NoScan]
    BY <1>12 DEF ScanAnswer, i2Vars
  <2>2. Answers' = [Answers EXCEPT ![s] = Abstract!NoAnswer]
    BY <1>1, <2>1 DEF Answers, ScreenOK, NoScan, Abstract!NoAnswer
  <2>3. Abstract!Deliver(s)
    BY <1>3, <2>1, <2>2 DEF Abstract!Deliver, Answers
  <2> QED
    BY <2>3 DEF Abstract!Next
<1>13. ASSUME Reset PROVE UNCHANGED Abstract!vars
  <2>1. UNCHANGED boardVars /\ UNCHANGED <<paid, scan>>
    BY <1>13 DEF Reset, i2Vars
  <2> QED
    BY <1>3, <1>4, <2>1, Stutters
<1>14. ASSUME UNCHANGED vars PROVE UNCHANGED Abstract!vars
  <2>1. UNCHANGED boardVars /\ UNCHANGED <<paid, scan>>
    BY <1>14 DEF vars, i2Vars, scanVars
  <2> QED
    BY <1>3, <1>4, <2>1, Stutters
<1> QED
  BY <1>5, <1>6, <1>8, <1>9, <1>10, <1>11, <1>12, <1>13, <1>14 DEF Next, ScanGoesOn

\* The Noticeboard with its dummies, churns and prunings, and the page's queries,
\* implement the plain list of pending deposits: whatever is churned or pruned
\* around them, deposits are pending in the order of their announcement until
\* they are consumed, which is after they have been paid, and a query is answered
\* with the first of those that were pending at one moment.
THEOREM BoardImplemented == Spec => ImplementsBoard
BY InitImplements, NextImplements, InvHolds, PTL DEF Spec, ImplementsBoard, Abstract!Spec
=============================================================================
