---------------------------- MODULE RouterClaims ----------------------------
(***************************************************************************)
(* The claims on the pool: pool_claims covers what the sealed deposits owe *)
(* as long as no error result was answered, and is exactly that as long as *)
(* nothing failed.  The argument follows the money of a deposit from the   *)
(* client's transfer to the claim that a seal computes out of it.  From    *)
(* the claims it follows what the mixer holds: where no two calls are      *)
(* about to pay out at the same time, it covers the sealed deposits that   *)
(* are still to be paid for; and from the mixer what the fee buffer holds, *)
(* so that no finalization gives up.                                       *)
(***************************************************************************)
EXTENDS RouterSafety

-----------------------------------------------------------------------------
(* Sums over finite sets.  Total(f, S) adds the elements of S one by one in *)
(* the order in which CHOOSE takes them; what it adds up to does not depend *)
(* on the order.  Induction over the finite subsets of a set is stated as   *)
(* the existence of a smallest one in any collection of them.               *)

LEMMA Smallest ==
  ASSUME NEW S, IsFiniteSet(S), NEW T \in SUBSET SUBSET S, T # {}
  PROVE  \E X \in T : \A Y \in T : Y \subseteq X => Y = X
<1> DEFINE R == StrictSubsetOrdering(S)
<1>1. IsWellFoundedOn(R, SUBSET S)
  BY FS_StrictSubsetOrderingWellFounded, FS_FiniteSubsetsOfFinite
<1>2. \E X \in T : \A Y \in T : ~ (<<Y, X>> \in R)
  <2> HIDE DEF R
  <2> QED
    BY <1>1, WFMin
<1> QED
  BY <1>2 DEF StrictSubsetOrdering

\* The element that is added first, and a sum over every subset of S.
First(S) == CHOOSE x \in S : TRUE
Rest(S) == S \ {First(S)}
AddsUp(g, f, S) ==
  \A X \in SUBSET S : g[X] = IF X = {} THEN 0 ELSE f[First(X)] + g[Rest(X)]
IsTotal(g, f, S) == g \in [SUBSET S -> Nat] /\ AddsUp(g, f, S)

LEMMA RestFacts ==
  ASSUME NEW S, S # {}
  PROVE  First(S) \in S /\ Rest(S) \subseteq S /\ Rest(S) # S
  BY DEF First, Rest

\* Two such sums agree where both are defined.
LEMMA TotalsAgree ==
  ASSUME NEW S, IsFiniteSet(S), NEW f, NEW T \in SUBSET S,
         NEW g, AddsUp(g, f, S), NEW h, AddsUp(h, f, T)
  PROVE  g[T] = h[T]
<1> DEFINE U == {X \in SUBSET T : g[X] # h[X]}
<1>1. SUFFICES ASSUME U # {} PROVE FALSE
  OBVIOUS
<1>2. IsFiniteSet(T) /\ U \in SUBSET SUBSET T
  BY FS_Subset
<1>3. PICK X \in U : \A Y \in U : Y \subseteq X => Y = X
  <2> HIDE DEF U
  <2> QED
    BY <1>1, <1>2, Smallest
<1>4. X \in SUBSET S /\ X \in SUBSET T
  OBVIOUS
<1>5. CASE X = {}
  BY <1>4, <1>5 DEF AddsUp
<1>6. CASE X # {}
  <2>1. Rest(X) \subseteq X /\ Rest(X) # X
    BY <1>6, RestFacts
  <2>2. g[Rest(X)] = h[Rest(X)]
    BY <1>3, <1>4, <2>1
  <2> QED
    BY <1>4, <1>6, <2>2 DEF AddsUp
<1> QED
  BY <1>5, <1>6

LEMMA TotalExists ==
  ASSUME NEW S, IsFiniteSet(S), NEW f, \A x \in S : f[x] \in Nat
  PROVE  \E g : IsTotal(g, f, S)
<1> DEFINE U == {X \in SUBSET S : ~\E g : IsTotal(g, f, X)}
<1>1. SUFFICES ASSUME U # {} PROVE FALSE
  OBVIOUS
<1>2. PICK X \in U : \A Y \in U : Y \subseteq X => Y = X
  <2>1. U \in SUBSET SUBSET S
    OBVIOUS
  <2> HIDE DEF U
  <2> QED
    BY <1>1, <2>1, Smallest
<1> DEFINE G(Y) == CHOOSE g : IsTotal(g, f, Y)
           total == [Y \in SUBSET X |-> IF Y = {} THEN 0
                       ELSE f[First(Y)] + G(Rest(Y))[Rest(Y)]]
<1>3. X \in SUBSET S /\ ~\E g : IsTotal(g, f, X)
  OBVIOUS
<1>4. ASSUME NEW Y \in SUBSET X, Y # X
      PROVE  IsTotal(G(Y), f, Y)
  <2>1. Y \notin U /\ Y \in SUBSET S
    BY <1>2, <1>4
  <2>2. \E g : IsTotal(g, f, Y)
    BY <2>1
  <2> QED
    BY <2>2
<1> HIDE DEF G
<1>5. ASSUME NEW Y \in SUBSET X, Y # {}
      PROVE  Rest(Y) \in SUBSET X /\ Rest(Y) # X /\ First(Y) \in Y
  BY <1>5, RestFacts
<1>6. ASSUME NEW Y \in SUBSET X, Y # X
      PROVE  total[Y] = G(Y)[Y]
  <2>1. IsTotal(G(Y), f, Y)
    BY <1>4, <1>6
  <2>2. CASE Y = {}
    BY <2>1, <2>2 DEF IsTotal, AddsUp
  <2>3. CASE Y # {}
    <3>1. G(Y)[Y] = f[First(Y)] + G(Y)[Rest(Y)]
      BY <2>1, <2>3 DEF IsTotal, AddsUp
    <3>2. Rest(Y) \in SUBSET Y /\ Rest(Y) # X
      BY <1>5, <2>3, RestFacts
    <3>3. IsTotal(G(Rest(Y)), f, Rest(Y))
      BY <1>4, <3>2
    <3>4. IsFiniteSet(Y)
      BY <1>3, FS_Subset
    <3>5. G(Y)[Rest(Y)] = G(Rest(Y))[Rest(Y)]
      BY <2>1, <3>2, <3>3, <3>4, TotalsAgree DEF IsTotal
    <3> QED
      BY <2>3, <3>1, <3>5
  <2> QED
    BY <2>2, <2>3
<1>7. ASSUME NEW Y \in SUBSET X
      PROVE  /\ total[Y] \in Nat
             /\ total[Y] = IF Y = {} THEN 0 ELSE f[First(Y)] + total[Rest(Y)]
  <2>1. CASE Y = {}
    BY <2>1
  <2>2. CASE Y # {}
    <3>1. Rest(Y) \in SUBSET X /\ Rest(Y) # X /\ First(Y) \in S
      BY <1>3, <1>5, <2>2
    <3>2. G(Rest(Y))[Rest(Y)] \in Nat
      BY <1>4, <3>1 DEF IsTotal, AddsUp
    <3>3. total[Rest(Y)] = G(Rest(Y))[Rest(Y)]
      BY <1>6, <3>1
    <3>4. total[Y] = f[First(Y)] + G(Rest(Y))[Rest(Y)]
      BY <2>2
    <3> HIDE DEF total
    <3> QED
      BY <2>2, <3>1, <3>2, <3>3, <3>4
  <2> QED
    BY <2>1, <2>2
<1>8. IsTotal(total, f, X)
  <2>1. total = [Y \in SUBSET X |-> total[Y]]
    OBVIOUS
  <2> HIDE DEF total
  <2> QED
    BY <1>7, <2>1 DEF IsTotal, AddsUp
<1> QED
  BY <1>3, <1>8

LEMMA TotalIs ==
  ASSUME NEW S, IsFiniteSet(S), NEW f, \A x \in S : f[x] \in Nat
  PROVE  \E g : IsTotal(g, f, S) /\ \A X \in SUBSET S : Total(f, X) = g[X]
<1>1. PICK g : IsTotal(g, f, S)
  BY TotalExists
<1>2. ASSUME NEW X \in SUBSET S
      PROVE  Total(f, X) = g[X]
  <2> DEFINE Body(h, Y) == IF Y = {} THEN 0
                ELSE f[CHOOSE x \in Y : TRUE] + h[Y \ {CHOOSE x \in Y : TRUE}]
             h == CHOOSE h : h = [Y \in SUBSET X |-> Body(h, Y)]
  <2>1. Total(f, X) = h[X]
    BY DEF Total, MapThenSumSet, MapThenFoldSet
  <2>2. PICK k : IsTotal(k, f, X)
    BY <1>2, FS_Subset, TotalExists
  <2>3. k = [Y \in SUBSET X |-> Body(k, Y)]
    BY <2>2 DEF IsTotal, AddsUp, First, Rest
  <2>4. h = [Y \in SUBSET X |-> Body(h, Y)]
    BY <2>3
  <2> HIDE DEF h
  <2>5. ASSUME NEW Y \in SUBSET X
        PROVE  h[Y] = IF Y = {} THEN 0 ELSE f[First(Y)] + h[Rest(Y)]
    BY <2>4 DEF First, Rest
  <2>6. AddsUp(g, f, S) /\ AddsUp(h, f, X)
    BY <1>1, <2>5 DEF IsTotal, AddsUp
  <2>7. g[X] = h[X]
    BY <1>2, <2>6, TotalsAgree
  <2> QED
    BY <2>1, <2>7
<1> QED
  BY <1>1, <1>2

LEMMA TotalNat ==
  ASSUME NEW S, IsFiniteSet(S), NEW f, \A x \in S : f[x] \in Nat
  PROVE  Total(f, S) \in Nat
<1>1. PICK g : IsTotal(g, f, S) /\ \A X \in SUBSET S : Total(f, X) = g[X]
  BY TotalIs
<1> QED
  BY <1>1 DEF IsTotal

LEMMA TotalEmpty ==
  ASSUME NEW f
  PROVE  Total(f, {}) = 0
<1>1. PICK g : IsTotal(g, f, {}) /\ \A X \in SUBSET {} : Total(f, X) = g[X]
  BY TotalIs, FS_EmptySet
<1> QED
  BY <1>1 DEF IsTotal, AddsUp

\* A sum without one of its elements, whichever it is.
LEMMA TotalRemove ==
  ASSUME NEW S, IsFiniteSet(S), NEW f, \A x \in S : f[x] \in Nat, NEW x \in S
  PROVE  Total(f, S) = f[x] + Total(f, S \ {x})
<1>1. PICK g : IsTotal(g, f, S) /\ \A X \in SUBSET S : Total(f, X) = g[X]
  BY TotalIs
<1> DEFINE U == {X \in SUBSET S : \E y \in X : g[X] # f[y] + g[X \ {y}]}
<1>2. CASE U = {}
  <2>1. S \in SUBSET S /\ S \ {x} \in SUBSET S
    OBVIOUS
  <2>2. \A y \in S : g[S] = f[y] + g[S \ {y}]
    BY <1>2, <2>1
  <2> HIDE DEF U
  <2>3. Total(f, S) = g[S] /\ Total(f, S \ {x}) = g[S \ {x}]
    BY <1>1, <2>1, Zenon
  <2> QED
    BY <2>2, <2>3, Zenon
<1>3. CASE U # {}
  <2>1. PICK X \in U : \A Y \in U : Y \subseteq X => Y = X
    <3>1. U \in SUBSET SUBSET S
      OBVIOUS
    <3> HIDE DEF U
    <3> QED
      BY <1>3, <3>1, Smallest
  <2>2. PICK y \in X : g[X] # f[y] + g[X \ {y}]
    OBVIOUS
  <2>3. ASSUME NEW Y \in SUBSET X, Y # X, NEW z \in Y
        PROVE  g[Y] = f[z] + g[Y \ {z}]
    BY <2>1, <2>3
  <2>4. X \in SUBSET S
    OBVIOUS
  <2> HIDE DEF U
  <2> DEFINE z == First(X)
  <2>5. z \in X /\ g[X] = f[z] + g[X \ {z}]
    BY <1>1, <2>4, RestFacts DEF IsTotal, AddsUp, Rest
  <2> HIDE DEF z
  <2>6. y # z
    BY <2>2, <2>5
  <2>7. g[X \ {z}] = f[y] + g[(X \ {z}) \ {y}]
    BY <2>2, <2>3, <2>5, <2>6
  <2>8. g[X \ {y}] = f[z] + g[(X \ {y}) \ {z}]
    BY <2>2, <2>3, <2>5, <2>6
  <2>9. /\ (X \ {y}) \ {z} = (X \ {z}) \ {y}
        /\ (X \ {y}) \ {z} \in SUBSET S
    BY <2>4
  <2>10. f[y] \in Nat /\ f[z] \in Nat /\ g[(X \ {y}) \ {z}] \in Nat
    BY <1>1, <2>4, <2>5, <2>9 DEF IsTotal
  <2>11. PICK r \in Nat : r = g[(X \ {y}) \ {z}] /\ r = g[(X \ {z}) \ {y}]
    BY <2>9, <2>10
  <2>12. g[X] = f[y] + g[X \ {y}]
    BY <2>5, <2>7, <2>8, <2>10, <2>11
  <2> QED
    BY <2>2, <2>12
<1> QED
  BY <1>2, <1>3

LEMMA TotalAdd ==
  ASSUME NEW S, IsFiniteSet(S), NEW f, \A x \in S : f[x] \in Nat,
         NEW x, x \notin S, f[x] \in Nat
  PROVE  Total(f, S \cup {x}) = f[x] + Total(f, S)
<1> DEFINE T == S \cup {x}
<1>1. IsFiniteSet(T) /\ x \in T /\ T \ {x} = S /\ \A y \in T : f[y] \in Nat
  BY FS_AddElement
<1> HIDE DEF T
<1>2. Total(f, T) = f[x] + Total(f, T \ {x})
  BY <1>1, TotalRemove
<1> QED
  BY <1>1, <1>2 DEF T

\* A part adds up to no more than the whole.
LEMMA TotalPart ==
  ASSUME NEW S, IsFiniteSet(S), NEW f, \A x \in S : f[x] \in Nat,
         NEW T \in SUBSET S
  PROVE  Total(f, T) <= Total(f, S)
<1> DEFINE U == {X \in SUBSET S : T \subseteq X /\ ~(Total(f, T) <= Total(f, X))}
<1>1. CASE U = {}
  BY <1>1
<1>2. CASE U # {}
  <2>1. PICK X \in U : \A Y \in U : Y \subseteq X => Y = X
    <3>1. U \in SUBSET SUBSET S
      OBVIOUS
    <3> HIDE DEF U
    <3> QED
      BY <1>2, <3>1, Smallest
  <2>2. X \in SUBSET S /\ T \subseteq X /\ ~(Total(f, T) <= Total(f, X))
    OBVIOUS
  <2>3. IsFiniteSet(T) /\ IsFiniteSet(X) /\ Total(f, T) \in Nat
    BY <2>2, FS_Subset, TotalNat
  <2>4. PICK x \in X : x \notin T
    BY <2>2, <2>3
  <2>5. X \ {x} \in SUBSET S /\ T \subseteq X \ {x} /\ X \ {x} # X
    BY <2>2, <2>4
  <2>6. Total(f, T) <= Total(f, X \ {x})
    BY <2>1, <2>5
  <2>7. Total(f, X) = f[x] + Total(f, X \ {x}) /\ f[x] \in Nat
    BY <2>2, <2>3, TotalRemove
  <2>8. Total(f, X \ {x}) \in Nat
    BY <2>5, FS_Subset, TotalNat
  <2> HIDE DEF U
  <2> QED
    BY <2>2, <2>3, <2>6, <2>7, <2>8
<1> QED
  BY <1>1, <1>2

\* A part and the rest.
LEMMA TotalParts ==
  ASSUME NEW S, IsFiniteSet(S), NEW f, \A x \in S : f[x] \in Nat,
         NEW T \in SUBSET S
  PROVE  Total(f, S) = Total(f, T) + Total(f, S \ T)
<1> DEFINE R(X) == S \ X
           U == {X \in SUBSET S : Total(f, S) # Total(f, X) + Total(f, R(X))}
<1>1. SUFFICES ASSUME U # {} PROVE FALSE
  OBVIOUS
<1>2. PICK X \in U : \A Y \in U : Y \subseteq X => Y = X
  <2>1. U \in SUBSET SUBSET S
    OBVIOUS
  <2> HIDE DEF U
  <2> QED
    BY <1>1, <2>1, Smallest
<1>3. X \in SUBSET S /\ Total(f, S) # Total(f, X) + Total(f, R(X))
  OBVIOUS
<1>4. IsFiniteSet(X) /\ IsFiniteSet(R(X)) /\ R(X) \in SUBSET S
  BY <1>3, FS_Subset
<1>5. CASE X = {}
  <2>1. R(X) = S
    BY <1>5
  <2>2. Total(f, X) = 0 /\ Total(f, S) \in Nat
    BY <1>5, TotalEmpty, TotalNat
  <2> HIDE DEF R
  <2> QED
    BY <1>3, <2>1, <2>2
<1>6. CASE X # {}
  <2>1. PICK x \in X : TRUE
    BY <1>6
  <2> DEFINE Y == X \ {x}
  <2>2. /\ Y \in SUBSET S /\ Y \subseteq X /\ Y # X /\ IsFiniteSet(Y)
        /\ R(Y) = R(X) \cup {x} /\ x \notin R(X) /\ f[x] \in Nat
    BY <1>3, <1>4, <2>1, FS_Subset
  <2>3. Total(f, S) = Total(f, Y) + Total(f, R(Y))
    BY <1>2, <2>2
  <2>4. \A y \in R(X) : f[y] \in Nat
    BY <1>4
  <2>5. Total(f, R(X) \cup {x}) = f[x] + Total(f, R(X))
    <3> HIDE DEF R
    <3> QED
      BY <1>4, <2>2, <2>4, TotalAdd
  <2>6. Total(f, X) = f[x] + Total(f, Y)
    BY <1>3, <1>4, <2>1, TotalRemove
  <2>7. Total(f, Y) \in Nat /\ Total(f, R(X)) \in Nat
    <3>1. \A y \in Y : f[y] \in Nat
      BY <2>2
    <3> HIDE DEF R, Y
    <3> QED
      BY <1>4, <2>2, <2>4, <3>1, TotalNat
  <2> HIDE DEF R, Y, U
  <2> QED
    BY <1>3, <2>2, <2>3, <2>5, <2>6, <2>7
<1> QED
  BY <1>5, <1>6

\* The sum of a sum of two.
LEMMA TotalSplits ==
  ASSUME NEW S, IsFiniteSet(S), NEW f, NEW g, NEW h,
         \A x \in S : g[x] \in Nat /\ h[x] \in Nat /\ f[x] = g[x] + h[x]
  PROVE  Total(f, S) = Total(g, S) + Total(h, S)
<1> DEFINE U == {X \in SUBSET S : Total(f, X) # Total(g, X) + Total(h, X)}
<1>1. SUFFICES ASSUME U # {} PROVE FALSE
  OBVIOUS
<1>2. PICK X \in U : \A Y \in U : Y \subseteq X => Y = X
  <2>1. U \in SUBSET SUBSET S
    OBVIOUS
  <2> HIDE DEF U
  <2> QED
    BY <1>1, <2>1, Smallest
<1>3. X \in SUBSET S /\ Total(f, X) # Total(g, X) + Total(h, X)
  OBVIOUS
<1>4. X # {}
  <2>1. Total(f, {}) = 0 /\ Total(g, {}) = 0 /\ Total(h, {}) = 0
    BY TotalEmpty
  <2> HIDE DEF U
  <2>2. CASE X = {}
    <3>1. Total(f, X) = 0 /\ Total(g, X) = 0 /\ Total(h, X) = 0
      BY <2>1, <2>2, Zenon
    <3> QED
      BY <1>3, <3>1
  <2> QED
    BY <2>2
<1>5. PICK x \in X : TRUE
  BY <1>4
<1> DEFINE Y == X \ {x}
<1>6. Y \in SUBSET S /\ Y \subseteq X /\ Y # X
  BY <1>3, <1>5
<1>7. Total(f, Y) = Total(g, Y) + Total(h, Y)
  BY <1>2, <1>6
<1>8. IsFiniteSet(X) /\ IsFiniteSet(Y)
  BY <1>3, <1>6, FS_Subset
<1>9. \A y \in S : /\ f[y] \in Nat /\ g[y] \in Nat /\ h[y] \in Nat
                   /\ f[y] = g[y] + h[y]
  OBVIOUS
<1>10. /\ \A y \in X : f[y] \in Nat /\ g[y] \in Nat /\ h[y] \in Nat
       /\ \A y \in Y : f[y] \in Nat /\ g[y] \in Nat /\ h[y] \in Nat
       /\ f[x] = g[x] + h[x]
  BY <1>3, <1>5, <1>9
<1>11. /\ Total(f, X) = f[x] + Total(f, Y) /\ Total(g, X) = g[x] + Total(g, Y)
       /\ Total(h, X) = h[x] + Total(h, Y)
  BY <1>5, <1>8, <1>10, TotalRemove
<1>12. Total(g, Y) \in Nat /\ Total(h, Y) \in Nat
  <2> HIDE DEF Y
  <2> QED
    BY <1>8, <1>10, TotalNat
<1> HIDE DEF Y, U
<1>13. g[x] \in Nat /\ h[x] \in Nat
  BY <1>5, <1>10
<1> QED
  BY <1>3, <1>7, <1>10, <1>11, <1>12, <1>13

-----------------------------------------------------------------------------
(* The accounts of the deposits *)

\* No error result was answered: there are none, and calls may be rejected, or
\* nothing has failed so far.
Calm == "err" \notin FaultKinds \/ faults = MaxFaults

\* What the client sent for a deposit; a deposit that was prepared and from
\* which nothing else was taken; what deposit_prepare may have converted.
Whole(d) == RouterDeposit(Amount[d], quote[d])
Intact(d) == d \in funded /\ sub[d] + deposits[d].spawn_fee = Whole(d)
Conversions(d) == {ConvertAmount(Whole(d), r, Pct[d]) : r \in Rates}

\* Awaits of deposit_prepare before and after its conversion, and those past a
\* deposit's seal or refund.
EarlyPcs == {"prepare_balance", "prepare_rate", "prepare_convert"}
DrawnPcs == {"prepare_notify", "prepare_spawn", "prepare_topups"}
PastPcs == TailPcs \cup {"reclaim_leftover"}

\* A quote precedes the transfer, and the transfer whatever the account holds.
QuoteTrue(d) ==
  /\ d \notin issued => quote[d] = 0
  /\ quote[d] = 0 \/ \E r \in Rates : quote[d] = SpawnFeeEstimate(r)
  /\ d \in funded => quote[d] > 0
  /\ d \notin funded => sub[d] = 0
  /\ deposits[d].amount = 0

\* What a call knows of its deposit and of the account ...
CallTrue(s) ==
  LET pc == call[s].pc
      d == call[s].id
  IN /\ pc = "alloc_rate" => quote[d] = 0
     /\ pc \in PastPcs /\ d # None =>
          deposits[d].state \notin {"allocated", "created"}
     /\ pc \in SealPcs => call[s].spawn_fee = deposits[d].spawn_fee

\* ... and what it knows as long as no error was answered.
CalmDeposit(d) ==
  /\ deposits[d].state = "allocated" /\ d \in funded /\ d \notin locks =>
       sub[d] = Whole(d)
  /\ deposits[d].state = "created" =>
       /\ d \in funded
       /\ \E x \in Conversions(d) : deposits[d].spawn_fee = x + LEDGER_FEE
CalmCall(s) ==
  LET pc == call[s].pc
      d == call[s].id
  IN /\ pc \in EarlyPcs /\ d \in funded => sub[d] = Whole(d)
     /\ pc = "prepare_rate" /\ call[s].bal # 0 =>
          d \in funded /\ call[s].bal = Whole(d)
     /\ pc = "prepare_convert" \/ pc \in DrawnPcs =>
          d \in funded /\ call[s].amt \in Conversions(d)
     /\ pc \in DrawnPcs => sub[d] + call[s].amt + LEDGER_FEE = Whole(d)
     /\ pc \in {"seal_rate", "seal_compute"} => call[s].bal = sub[d]
     /\ pc = "seal_compute" => call[s].rate \in Rates

\* The deposits whose claim was recorded and not yet taken out: sealed, about
\* to be sealed or about to be paid; and those an interrupted seal has drawn on.
Charges(s, d) == /\ call[s].id = d
                 /\ At(s, "seal_transfer") \/ call[s].pc \in FinalizePcs
Drawn(d) == deposits[d].state = "created" /\ alice[d] = 0 /\ ~Intact(d)
Owes(d) == \/ deposits[d].state = "sealed"
           \/ \E s \in Slots : Charges(s, d)
           \/ Drawn(d)
Owed == {d \in Deposits : Owes(d)}

\* The deposits that are over: an id that was stored and is not any more, or never
\* will be.  What the claim of such a deposit lacked pool_claims lacks for ever,
\* because what is subtracted from it is all that Bob was paid.
Gone(d) == /\ d \in issued /\ deposits[d].state = "none"
           /\ \A s \in Slots : At(s, "alloc_rate") => call[s].id # d
Over == {d \in Deposits : Gone(d) /\ ~Owes(d)}

\* What is left of an amount where its claim is rounded down.
Covered == [d \in Deposits |-> Amount[d] - Dropped[d]]
ClaimsCover == pool_claims + Total(Dropped, Over) >= Total(Covered, Owed)

Books ==
  /\ \A d \in Deposits : QuoteTrue(d)
  /\ \A s \in Slots : CallTrue(s)
  /\ faults <= MaxFaults
  /\ Calm => /\ \A d \in Deposits : CalmDeposit(d)
             /\ \A s \in Slots : CalmCall(s)
             /\ ClaimsCover

\* The claim a seal computes is at least what Alice seals for Bob but for the
\* fraction that is dropped, whatever the rates of the quote and of the seal.
ClaimsSuffice ==
  \A d \in Deposits, r1 \in Rates, r2 \in Rates :
    LET whole == RouterDeposit(Amount[d], SpawnFeeEstimate(r1))
    IN  \A balance \in 0..whole :
          SealSplit(balance, whole - balance, r2, Pct[d]).claim >= Covered[d]

-----------------------------------------------------------------------------
(* What a step leaves alone *)

Kept(d) ==
  /\ deposits'[d] = deposits[d] /\ sub'[d] = sub[d] /\ quote'[d] = quote[d]
  /\ alice'[d] = alice[d]
  /\ d \in funded' <=> d \in funded
  /\ d \in issued' <=> d \in issued

Steady == UNCHANGED <<deposits, sub, quote, funded, alice, issued, pool_claims>>

\* Awaits at which a call knows nothing of its deposit's account.
QuietPcs == Pcs \ (SealPcs \cup EarlyPcs \cup DrawnPcs \cup PastPcs
                     \cup {"alloc_rate"})

LEMMA AmountNat == \A d \in Deposits : Amount[d] \in Nat
  BY DepositFacts

LEMMA WholeNat ==
  ASSUME TypeOK, NEW d \in Deposits
  PROVE  /\ quote[d] \in Nat /\ sub[d] \in Nat /\ alice[d] \in Nat
         /\ deposits[d].spawn_fee \in Nat /\ deposits[d].amount \in Nat
         /\ Whole(d) \in Nat
<1>1. quote[d] \in Nat /\ sub[d] \in Nat /\ alice[d] \in Nat
  BY DEF TypeOK, ClientType, LedgerType
<1>2. deposits[d] \in [state : DepositStates, amount : Nat, spawn_fee : Nat]
  BY DEF TypeOK, DepositsType
<1>3. deposits[d].spawn_fee \in Nat /\ deposits[d].amount \in Nat
  BY <1>2
<1>4. Amount[d] \in Nat /\ LEDGER_FEE \in Nat
  BY DepositFacts, ParameterFacts
<1> QED
  BY <1>1, <1>3, <1>4 DEF Whole, RouterDeposit

LEMMA CalmBefore ==
  ASSUME TypeOK, Books, faults' \in {faults, faults - 1}, Calm'
  PROVE  Calm
  BY DEF Books, Calm, TypeOK, ClientType

\* An error result ends the calm.
LEMMA ErrorEndsCalm ==
  ASSUME TypeOK, Books, Fault("err")
  PROVE  ~Calm'
  BY RouterAssumption DEF Books, Calm, Fault, TypeOK, ClientType

LEMMA FaultCounts ==
  ASSUME NoFault \/ Fault("err") \/ Fault("reject")
  PROVE  faults' \in {faults, faults - 1}
  BY DEF NoFault, Fault

LEMMA KeptQuote ==
  ASSUME NEW d, Kept(d), QuoteTrue(d)
  PROVE  QuoteTrue(d)'
  BY DEF Kept, QuoteTrue

LEMMA KeptDeposit ==
  ASSUME NEW d, Kept(d), d \in locks <=> d \in locks', CalmDeposit(d)
  PROVE  CalmDeposit(d)'
<1>1. Whole(d)' = Whole(d) /\ Conversions(d)' = Conversions(d)
  BY DEF Kept, Whole, Conversions
<1> QED
  BY <1>1 DEF Kept, CalmDeposit

\* A call that goes on as it was, on a deposit that was left alone.
LEMMA KeptCall ==
  ASSUME NEW t, call'[t] = call[t], Kept(call[t].id)
  PROVE  /\ CallTrue(t) => CallTrue(t)'
         /\ CalmCall(t) => CalmCall(t)'
<1> DEFINE d == call[t].id
<1>1. Whole(d)' = Whole(d) /\ Conversions(d)' = Conversions(d)
  BY DEF Kept, Whole, Conversions
<1>2. CallTrue(t) => CallTrue(t)'
  BY DEF Kept, CallTrue
<1>3. CalmCall(t) => CalmCall(t)'
  BY <1>1 DEF Kept, CalmCall
<1> QED
  BY <1>2, <1>3

LEMMA BooksPcFacts ==
  /\ "prepare_balance" \in EarlyPcs /\ "prepare_rate" \in EarlyPcs
  /\ "prepare_convert" \in EarlyPcs
  /\ "prepare_notify" \in DrawnPcs /\ "prepare_spawn" \in DrawnPcs
  /\ "prepare_topups" \in DrawnPcs
  /\ PreparePcs = EarlyPcs \cup DrawnPcs
  /\ "seal_transfer" \notin NeutralPcs
  /\ \A pc \in PastPcs : /\ pc \in NeutralPcs /\ pc \notin FinalizePcs
                         /\ pc # "seal_transfer"
  /\ \A pc \in NeutralPcs : /\ pc \notin EarlyPcs /\ pc \notin DrawnPcs
                            /\ pc \notin SealPcs /\ pc \notin FinalizePcs
                            /\ pc # "alloc_rate" /\ pc # "seal_transfer"
  /\ \A pc \in PastPcs \cup FinalizePcs \cup ReclaimPcs :
       /\ pc \notin EarlyPcs /\ pc \notin DrawnPcs
       /\ pc \notin SealPcs /\ pc # "alloc_rate"
  /\ \A pc \in EarlyPcs \cup DrawnPcs :
       /\ pc \notin SealPcs /\ pc \notin PastPcs /\ pc # "alloc_rate"
       /\ pc \notin FinalizePcs
  /\ \A pc \in EarlyPcs : pc \notin DrawnPcs
  /\ \A pc \in SealPcs : pc \notin PastPcs /\ pc # "alloc_rate"
                         /\ pc \notin EarlyPcs /\ pc \notin DrawnPcs
                         /\ pc \notin FinalizePcs
  /\ "alloc_rate" \notin EarlyPcs /\ "alloc_rate" \notin DrawnPcs
  /\ "alloc_rate" \notin SealPcs /\ "alloc_rate" \notin PastPcs
  /\ "alloc_rate" \notin FinalizePcs
  BY DEF EarlyPcs, DrawnPcs, PastPcs, NeutralPcs, TailPcs, FreePcs, PreparePcs,
         SealPcs, FinalizePcs, ReclaimPcs

LEMMA QuietPcFacts ==
  /\ \A pc \in FinalizePcs \cup ReclaimPcs : pc \in QuietPcs
  /\ "idle" \in QuietPcs /\ "alloc_rand" \in QuietPcs
  /\ "alloc_check" \in QuietPcs /\ "prepare_rand" \in QuietPcs
  /\ "prepare_check" \in QuietPcs
  BY DEF QuietPcs, Pcs, LockedPcs, FreePcs, EarlyPcs, DrawnPcs, PastPcs,
         TailPcs, PreparePcs, SealPcs, FinalizePcs, ReclaimPcs

LEMMA QuietCall ==
  ASSUME NEW s, call'[s].pc \in QuietPcs
  PROVE  CallTrue(s)' /\ CalmCall(s)'
<1>1. /\ call'[s].pc # "alloc_rate" /\ call'[s].pc \notin PastPcs
      /\ call'[s].pc \notin SealPcs /\ call'[s].pc \notin EarlyPcs
      /\ call'[s].pc \notin DrawnPcs
  BY DEF QuietPcs
<1>2. /\ call'[s].pc # "prepare_rate" /\ call'[s].pc # "prepare_convert"
      /\ call'[s].pc \notin {"seal_rate", "seal_compute"}
  BY <1>1, BooksPcFacts, PhaseFacts
<1> QED
  BY <1>1, <1>2 DEF CallTrue, CalmCall

\* A call past the seal or the refund of its deposit, or without one.
LEMMA PastCall ==
  ASSUME NEW s, call'[s].pc \in NeutralPcs,
         call'[s].pc \in PastPcs /\ call'[s].id # None =>
           deposits'[call'[s].id].state \notin {"allocated", "created"}
  PROVE  CallTrue(s)' /\ CalmCall(s)'
<1>1. /\ call'[s].pc # "alloc_rate" /\ call'[s].pc \notin SealPcs
      /\ call'[s].pc \notin EarlyPcs /\ call'[s].pc \notin DrawnPcs
  BY BooksPcFacts
<1>2. /\ call'[s].pc # "prepare_rate" /\ call'[s].pc # "prepare_convert"
      /\ call'[s].pc \notin {"seal_rate", "seal_compute"}
  BY <1>1, BooksPcFacts, PhaseFacts
<1> QED
  BY <1>1, <1>2 DEF CallTrue, CalmCall

-----------------------------------------------------------------------------
(* What is owed *)

LEMMA AmountParts ==
  ASSUME NEW d \in Deposits
  PROVE  /\ Dropped[d] \in Nat /\ Covered[d] \in Nat
         /\ Amount[d] = Covered[d] + Dropped[d]
<1>1. Amount[d] \in Nat /\ E8S_PER_ICP \in Nat \ {0}
  BY AmountNat, UnitAssumption
<1>2. \A a \in Nat, b \in Nat \ {0} : a % b \in Nat /\ a % b <= a
  OBVIOUS
<1>3. Dropped[d] \in {0, Amount[d] % E8S_PER_ICP}
  BY DEF Dropped
<1>4. Dropped[d] \in Nat /\ Dropped[d] <= Amount[d]
  BY <1>1, <1>2, <1>3
<1> QED
  BY <1>1, <1>4 DEF Covered

LEMMA OwedNat ==
  ASSUME IsFiniteSet(Deposits), NEW S \in SUBSET Deposits
  PROVE  /\ IsFiniteSet(S) /\ Total(Amount, S) \in Nat
         /\ Total(Covered, S) \in Nat /\ Total(Dropped, S) \in Nat
<1>1. IsFiniteSet(S)
  BY FS_Subset
<1>2. \A d \in S : Amount[d] \in Nat /\ Covered[d] \in Nat /\ Dropped[d] \in Nat
  BY AmountNat, AmountParts
<1> QED
  BY <1>1, <1>2, TotalNat

\* A deposit that is over stays over.
LEMMA GoneStays ==
  ASSUME NEW s \in Slots, NEW d, Others(s), deposits'[d] = deposits[d],
         d \in issued => d \in issued',
         call'[s].pc = "alloc_rate" => call'[s].id # d, Gone(d)
  PROVE  Gone(d)'
<1>1. \A t \in Slots \ {s} : call'[t] = call[t]
  BY DEF Others
<1>2. ASSUME NEW t \in Slots, At(t, "alloc_rate")'
      PROVE  call'[t].id # d
  BY <1>1, <1>2 DEF Gone, At
<1> QED
  BY <1>2 DEF Gone

LEMMA OwedShrinks ==
  ASSUME IsFiniteSet(Deposits), TypeOK, TypeOK', ClaimsCover, Owed' \subseteq Owed,
         \A d \in Deposits : Gone(d) => Gone(d)', pool_claims' >= pool_claims
  PROVE  ClaimsCover'
<1>1. /\ Owed \in SUBSET Deposits /\ Owed' \in SUBSET Owed
      /\ Over' \in SUBSET Deposits /\ Over \in SUBSET Over'
  BY DEF Owed, Over
<1>2. /\ IsFiniteSet(Owed) /\ IsFiniteSet(Over')
      /\ \A d \in Owed : Covered[d] \in Nat
      /\ \A d \in Over' : Dropped[d] \in Nat
  BY <1>1, OwedNat, AmountParts
<1>3. Total(Covered, Owed') <= Total(Covered, Owed)
  BY <1>1, <1>2, TotalPart
<1>4. Total(Dropped, Over) <= Total(Dropped, Over')
  BY <1>1, <1>2, TotalPart
<1>5. /\ Total(Covered, Owed) \in Nat /\ Total(Covered, Owed') \in Nat
      /\ Total(Dropped, Over) \in Nat /\ Total(Dropped, Over') \in Nat
  BY <1>1, OwedNat
<1>6. pool_claims \in Nat /\ pool_claims' \in Nat
  BY DEF TypeOK, ServiceType
<1>7. ClaimsCover' <=> pool_claims' + Total(Dropped, Over') >= Total(Covered, Owed')
  BY DEF ClaimsCover
<1> QED
  BY <1>3, <1>4, <1>5, <1>6, <1>7 DEF ClaimsCover

LEMMA OwedGrows ==
  ASSUME IsFiniteSet(Deposits), TypeOK, TypeOK', ClaimsCover, NEW d \in Deposits,
         Owed' \subseteq Owed \cup {d}, pool_claims' >= pool_claims + Covered[d],
         ~Gone(d), \A e \in Deposits : Gone(e) => Gone(e)'
  PROVE  ClaimsCover'
<1>1. /\ Owed \in SUBSET Deposits /\ Owed' \in SUBSET Deposits
      /\ Over' \in SUBSET Deposits /\ Over \in SUBSET Over'
  BY DEF Owed, Over
<1> DEFINE more == Owed \cup {d}
<1>2. more \in SUBSET Deposits
  BY <1>1
<1>3. /\ IsFiniteSet(Owed) /\ IsFiniteSet(more) /\ IsFiniteSet(Over')
      /\ \A e \in Owed : Covered[e] \in Nat
      /\ \A e \in more : Covered[e] \in Nat
      /\ \A e \in Over' : Dropped[e] \in Nat
      /\ Covered[d] \in Nat
  BY <1>1, <1>2, OwedNat, AmountParts
<1>4. /\ Total(Covered, Owed) \in Nat /\ Total(Covered, Owed') \in Nat
      /\ Total(Covered, more) \in Nat
      /\ Total(Dropped, Over) \in Nat /\ Total(Dropped, Over') \in Nat
  BY <1>1, <1>2, OwedNat
<1>5. Total(Covered, more) <= Covered[d] + Total(Covered, Owed)
  <2>1. CASE d \in Owed
    <3>1. more = Owed
      BY <2>1
    <3> HIDE DEF more
    <3> QED
      BY <1>3, <1>4, <3>1
  <2>2. CASE d \notin Owed
    <3>1. Total(Covered, more) = Covered[d] + Total(Covered, Owed)
      BY <1>3, <2>2, TotalAdd
    <3> HIDE DEF more
    <3> QED
      BY <1>3, <1>4, <3>1
  <2> QED
    BY <2>1, <2>2
<1>6. Total(Covered, Owed') <= Total(Covered, more)
  <2>1. Owed' \in SUBSET more
    BY <1>1
  <2> HIDE DEF more
  <2> QED
    BY <1>3, <2>1, TotalPart
<1>7. Total(Dropped, Over) <= Total(Dropped, Over')
  BY <1>1, <1>3, TotalPart
<1>8. pool_claims \in Nat /\ pool_claims' \in Nat
  BY DEF TypeOK, ServiceType
<1>9. ClaimsCover' <=> pool_claims' + Total(Dropped, Over') >= Total(Covered, Owed')
  BY DEF ClaimsCover
<1> HIDE DEF more
<1> QED
  BY <1>3, <1>4, <1>5, <1>6, <1>7, <1>8, <1>9 DEF ClaimsCover

LEMMA OwedLess ==
  ASSUME IsFiniteSet(Deposits), TypeOK, TypeOK', ClaimsCover, NEW d \in Owed,
         Owed' \subseteq Owed \ {d}, Gone(d)',
         \A e \in Deposits : Gone(e) => Gone(e)',
         pool_claims' = Monus(pool_claims, Amount[d])
  PROVE  ClaimsCover'
<1> DEFINE less == Owed \ {d}
           over == Over \cup {d}
<1>1. /\ Owed \in SUBSET Deposits /\ d \in Deposits /\ d \notin Over
      /\ less \in SUBSET Deposits /\ Owed' \in SUBSET less
      /\ Over \in SUBSET Deposits /\ Over' \in SUBSET Deposits
      /\ over \in SUBSET Over'
  BY DEF Owed, Over
<1>2. /\ IsFiniteSet(Owed) /\ IsFiniteSet(less) /\ IsFiniteSet(Over)
      /\ IsFiniteSet(Over') /\ over \in SUBSET Deposits
      /\ \A e \in Owed : Covered[e] \in Nat
      /\ \A e \in less : Covered[e] \in Nat
      /\ \A e \in Over : Dropped[e] \in Nat
      /\ \A e \in Over' : Dropped[e] \in Nat
  BY <1>1, OwedNat, AmountParts
<1>3. Total(Covered, Owed) = Covered[d] + Total(Covered, less)
  BY <1>2, TotalRemove
<1>4. Total(Covered, Owed') <= Total(Covered, less)
  <2> HIDE DEF less
  <2> QED
    BY <1>1, <1>2, TotalPart
<1>5. Dropped[d] \in Nat /\ Covered[d] \in Nat /\ Amount[d] = Covered[d] + Dropped[d]
  BY <1>1, AmountParts
<1>6. Total(Dropped, over) = Dropped[d] + Total(Dropped, Over)
  BY <1>1, <1>2, <1>5, TotalAdd
<1>7. Total(Dropped, over) <= Total(Dropped, Over')
  <2> HIDE DEF over
  <2> QED
    BY <1>1, <1>2, TotalPart
<1>8. /\ Total(Covered, Owed) \in Nat /\ Total(Covered, Owed') \in Nat
      /\ Total(Covered, less) \in Nat /\ Total(Dropped, Over) \in Nat
      /\ Total(Dropped, Over') \in Nat /\ Total(Dropped, over) \in Nat
  <2> HIDE DEF less, over
  <2> QED
    BY <1>1, <1>2, OwedNat
<1>9. pool_claims \in Nat /\ pool_claims' \in Nat
  BY DEF TypeOK, ServiceType
<1>10. ClaimsCover' <=> pool_claims' + Total(Dropped, Over') >= Total(Covered, Owed')
  BY DEF ClaimsCover
<1> HIDE DEF less, over
<1>11. pool_claims' >= pool_claims - Amount[d]
  BY <1>5, <1>9 DEF Monus
<1> QED
  BY <1>3, <1>4, <1>5, <1>6, <1>7, <1>8, <1>9, <1>10, <1>11 DEF ClaimsCover

-----------------------------------------------------------------------------
(* Steps of a call that leave the deposits and their accounts alone *)

Stuck(s) == /\ call[s].rest # <<>>
            /\ ~Covers(sub[call[s].id], Head(call[s].rest))

Moves(s) ==
  /\ Others(s) /\ Steady /\ faults' \in {faults, faults - 1}
  /\ call'[s].pc # "seal_transfer" /\ call'[s].pc # "alloc_rate"
  /\ call'[s].pc \in FinalizePcs =>
       \/ call[s].pc \in FinalizePcs /\ call'[s].id = call[s].id
       \/ deposits[call'[s].id].state = "sealed"
  /\ \/ locks \subseteq locks'
     \/ /\ locks' = locks \ {call[s].id}
        /\ call[s].pc \in LockedPcs \ DrawnPcs \/ ~Calm'
  /\ At(s, "seal_transfer") => faults' # faults \/ Stuck(s)

\* Such a step after which the call knows nothing of the account, or still
\* only that its deposit is past it.
Idles(s) ==
  /\ Moves(s)
  /\ \/ call'[s].pc \in QuietPcs
     \/ /\ call'[s].pc \in PastPcs
        /\ \/ call'[s].id = None
           \/ call[s].pc \in PastPcs /\ call'[s].id = call[s].id

\* Calls of other slots, on a deposit that was left alone or on one whose
\* record and account do not concern them.
LEMMA OthersTrue ==
  ASSUME Payments, Books, NEW s \in Slots, Others(s), NEW t \in Slots \ {s},
         call[t].id # None => Kept(call[t].id)
  PROVE  CallTrue(t)' /\ (CalmCall(t) => CalmCall(t)')
<1>1. call'[t] = call[t] /\ CallTrue(t)
  BY DEF Others, Books
<1>2. CASE call[t].id # None
  BY <1>1, <1>2, KeptCall
<1>3. CASE call[t].id = None
  <2>1. call'[t].pc \in AnonymousPcs /\ call'[t].id = None
    BY <1>1, <1>3 DEF Payments, Exclusive, TypeOK, CallType
  <2>2. call'[t].pc \in QuietPcs \/ call'[t].pc \in PastPcs
    BY <2>1, QuietPcFacts DEF AnonymousPcs, PastPcs, TailPcs
  <2>3. CASE call'[t].pc \in QuietPcs
    BY <2>3, QuietCall
  <2>4. CASE call'[t].pc \in PastPcs
    <3>1. call'[t].pc \notin SealPcs /\ call'[t].pc # "alloc_rate"
          /\ call'[t].pc \notin EarlyPcs /\ call'[t].pc \notin DrawnPcs
          /\ call'[t].pc \notin {"seal_rate", "seal_compute", "prepare_rate",
                                 "prepare_convert"}
      BY <2>4, BooksPcFacts, PhaseFacts
    <3> QED
      BY <2>1, <3>1 DEF CallTrue, CalmCall
  <2> QED
    BY <2>2, <2>3, <2>4
<1> QED
  BY <1>2, <1>3

\* The state of a deposit on which a call holds a lock.
LEMMA LockedState ==
  ASSUME Payments, Books, NEW s \in Slots, call[s].id # None,
         call[s].pc \in LockedPcs \ PreparePcs
  PROVE  deposits[call[s].id].state # "allocated"
<1>1. InFlight(s) /\ CallTrue(s)
  BY DEF Payments, PaymentsMatchRecords, Books
<1>2. call[s].pc \in SealPcs \cup TailPcs \cup FinalizePcs \cup ReclaimPcs
  BY DEF LockedPcs
<1>3. CASE call[s].pc \in TailPcs
  BY <1>1, <1>3 DEF CallTrue, PastPcs
<1>4. CASE call[s].pc \in SealPcs
  BY <1>1, <1>4 DEF InFlight, Fits
<1>5. CASE call[s].pc \in FinalizePcs
  BY <1>1, <1>5 DEF InFlight, Fits, PayPcs, Payable
<1>6. CASE call[s].pc \in ReclaimPcs
  BY <1>1, <1>6 DEF InFlight, Fits, RefundPcs
<1> QED
  BY <1>2, <1>3, <1>4, <1>5, <1>6

LEMMA MovesKeeps ==
  ASSUME IsFiniteSet(Deposits), Payments, Books, TypeOK', NEW s \in Slots,
         Moves(s), CallTrue(s)', Calm /\ Calm' => CalmCall(s)'
  PROVE  Books'
<1>1. TypeOK /\ Others(s) /\ Steady /\ faults' \in {faults, faults - 1}
  BY DEF Payments, Exclusive, Moves
<1>2. \A d : Kept(d)
  BY <1>1 DEF Kept, Steady
<1>3. \A d \in Deposits : QuoteTrue(d)'
  BY <1>2, KeptQuote DEF Books
<1>4. faults' <= MaxFaults
  BY <1>1, RouterAssumption DEF Books, TypeOK, ClientType
<1>5. \A t \in Slots \ {s} : CallTrue(t)' /\ (CalmCall(t) => CalmCall(t)')
  BY <1>1, <1>2, OthersTrue
<1>6. ASSUME Calm'
      PROVE  /\ \A d \in Deposits : CalmDeposit(d)'
             /\ \A t \in Slots : CalmCall(t)'
             /\ ClaimsCover'
  <2>1. /\ Calm /\ \A d \in Deposits : CalmDeposit(d)
        /\ \A t \in Slots : CalmCall(t)
        /\ ClaimsCover
    BY <1>1, <1>6, CalmBefore DEF Books
  <2>2. ASSUME NEW d \in Deposits
        PROVE  CalmDeposit(d)'
    <3>1. Whole(d)' = Whole(d) /\ Conversions(d)' = Conversions(d)
      BY <1>1 DEF Steady, Whole, Conversions
    <3>2. d \in locks /\ d \notin locks' /\ d \in funded =>
            deposits[d].state # "allocated" \/ sub[d] = Whole(d)
      <4>1. SUFFICES ASSUME d \in locks, d \notin locks', d \in funded,
                            deposits[d].state = "allocated"
                     PROVE  sub[d] = Whole(d)
        OBVIOUS
      <4>2. call[s].id = d /\ call[s].pc \in LockedPcs \ DrawnPcs
        BY <1>6, <4>1 DEF Moves
      <4>3. call[s].pc \in EarlyPcs
        BY <4>1, <4>2, LockedState, DepositFacts, BooksPcFacts
      <4> QED
        BY <2>1, <4>1, <4>2, <4>3 DEF CalmCall
    <3> QED
      BY <1>1, <2>1, <3>1, <3>2 DEF CalmDeposit, Steady
  <2>3. Owed' \subseteq Owed
    <3>1. ASSUME NEW d \in Deposits, Owes(d)'
          PROVE  Owes(d)
      <4>1. CASE (deposits[d].state = "sealed")'
        BY <1>1, <4>1 DEF Owes, Steady
      <4>2. CASE Drawn(d)'
        BY <1>1, <4>2 DEF Owes, Drawn, Intact, Whole, Steady
      <4>3. ASSUME NEW t \in Slots, Charges(t, d)'
            PROVE  Owes(d)
        <5>1. CASE t # s
          BY <1>1, <4>3, <5>1 DEF Charges, Others, At, Owes
        <5>2. CASE t = s
          <6>1. call'[s].id = d /\ call'[s].pc # "seal_transfer"
            BY <4>3, <5>2, BooksPcFacts, PhaseFacts
               DEF Charges, Moves
          <6>2. call'[s].pc \in FinalizePcs
            BY <4>3, <5>2, <6>1 DEF Charges, At
          <6> QED
            BY <1>1, <6>1, <6>2 DEF Moves, Owes, Charges
        <5> QED
          BY <5>1, <5>2
      <4> QED
        BY <3>1, <4>1, <4>2, <4>3 DEF Owes
    <3> QED
      BY <3>1 DEF Owed
  <2>4. ClaimsCover'
    <3>1. pool_claims' >= pool_claims
      BY <1>1 DEF Steady, TypeOK, ServiceType
    <3>2. \A d \in Deposits : Gone(d) => Gone(d)'
      BY <1>1, GoneStays DEF Moves, Steady
    <3> QED
      BY <1>1, <2>1, <2>3, <3>1, <3>2, OwedShrinks
  <2> QED
    BY <1>5, <1>6, <2>1, <2>2, <2>4
<1> QED
  BY <1>3, <1>4, <1>5, <1>6 DEF Books

LEMMA IdlesKeeps ==
  ASSUME IsFiniteSet(Deposits), Payments, Books, TypeOK', NEW s \in Slots, Idles(s)
  PROVE  Books'
<1>1. Steady /\ Moves(s)
  BY DEF Idles, Moves
<1>2. CallTrue(s)' /\ CalmCall(s)'
  <2>1. CASE call'[s].pc \in QuietPcs
    BY <2>1, QuietCall
  <2>2. CASE /\ call'[s].pc \in PastPcs
             /\ \/ call'[s].id = None
                \/ call[s].pc \in PastPcs /\ call'[s].id = call[s].id
    <3>1. call'[s].id # None =>
            deposits'[call'[s].id].state \notin {"allocated", "created"}
      BY <1>1, <2>2 DEF Books, CallTrue, Steady
    <3>2. call'[s].pc \in NeutralPcs
      BY <2>2, BooksPcFacts
    <3> QED
      BY <3>1, <3>2, PastCall
  <2> QED
    BY <2>1, <2>2 DEF Idles
<1> QED
  BY <1>1, <1>2, MovesKeeps

-----------------------------------------------------------------------------
(* Steps of a call that change its deposit or its account *)

\* The other deposits owe what they owed.
LEMMA OwesElsewhere ==
  ASSUME TypeOK, NEW s \in Slots, NEW d \in Deposits, Others(s),
         call[s].id \in {d, None}, call'[s].id \in {d, None},
         NEW e \in Deposits, e # d, Kept(e)
  PROVE  Owes(e)' <=> Owes(e)
<1>1. e # None
  BY DepositFacts
<1>2. ASSUME NEW t \in Slots
      PROVE  Charges(t, e)' <=> Charges(t, e)
  <2>1. CASE t = s
    BY <1>1, <2>1 DEF Charges
  <2>2. CASE t # s
    BY <2>2 DEF Charges, Others, At
  <2> QED
    BY <2>1, <2>2
<1>3. Drawn(e)' <=> Drawn(e)
  BY DEF Kept, Drawn, Intact, Whole
<1> QED
  BY <1>2, <1>3 DEF Owes, Kept

LEMMA GoneElsewhere ==
  ASSUME NEW s \in Slots, NEW d \in Deposits, Others(s), call'[s].id \in {d, None},
         NEW e \in Deposits, e # d, Kept(e), Gone(e)
  PROVE  Gone(e)'
<1>1. e # None
  BY DepositFacts
<1> QED
  BY <1>1, GoneStays DEF Kept

\* The call that works on d is the only one that knows of its account.
LEMMA ActiveBooks ==
  ASSUME IsFiniteSet(Deposits), Payments, Books, NEW s \in Slots,
         NEW d \in Deposits, call[s].id = d, call[s].pc \notin NeutralPcs,
         Others(s), faults' \in {faults, faults - 1},
         \A e \in Deposits \ {d} : Kept(e) /\ (e \in locks <=> e \in locks'),
         deposits'[d].state \in {"allocated", "created"} =>
           deposits[d].state \in {"allocated", "created"} \/ At(s, "alloc_rate"),
         QuoteTrue(d)', CallTrue(s)',
         Calm /\ Calm' => CalmDeposit(d)' /\ CalmCall(s)' /\ ClaimsCover'
  PROVE  Books'
<1>1. TypeOK
  BY DEF Payments, Exclusive
<1>2. \A e \in Deposits : QuoteTrue(e)'
  BY KeptQuote DEF Books
<1>3. faults' <= MaxFaults
  BY <1>1, RouterAssumption DEF Books, TypeOK, ClientType
<1>4. ASSUME NEW t \in Slots \ {s}
      PROVE  CallTrue(t)' /\ (CalmCall(t) => CalmCall(t)')
  <2>1. CASE call[t].id = d
    <3>1. call[t].pc \in NeutralPcs
      BY <2>1, Apart
    <3>2. call'[t] = call[t] /\ CallTrue(t)
      BY DEF Others, Books
    <3>3. ASSUME call[t].pc \in PastPcs
          PROVE  deposits'[d].state \notin {"allocated", "created"}
      <4>1. ~At(s, "alloc_rate")
        BY <2>1 DEF Payments, PaymentsMatchRecords, InFlight
      <4>2. deposits[d].state \notin {"allocated", "created"}
        BY <2>1, <3>2, <3>3, DepositFacts DEF CallTrue
      <4> QED
        BY <4>1, <4>2
    <3> QED
      BY <2>1, <3>1, <3>2, <3>3, PastCall
  <2>2. CASE call[t].id # d
    <3>1. call[t].id # None => call[t].id \in Deposits
      BY <1>1, CallFacts DEF CallRecords
    <3> QED
      BY <2>2, <3>1, OthersTrue
  <2> QED
    BY <2>1, <2>2
<1>5. ASSUME Calm'
      PROVE  /\ \A e \in Deposits : CalmDeposit(e)'
             /\ \A t \in Slots : CalmCall(t)'
             /\ ClaimsCover'
  <2>1. Calm /\ (\A e \in Deposits : CalmDeposit(e)) /\ \A t \in Slots : CalmCall(t)
    BY <1>1, <1>5, CalmBefore DEF Books
  <2>2. \A e \in Deposits : CalmDeposit(e)'
    BY <1>5, <2>1, KeptDeposit
  <2> QED
    BY <1>4, <1>5, <2>1, <2>2
<1> QED
  BY <1>2, <1>3, <1>4, <1>5 DEF Books

\* A step that keeps the claims: no deposit begins to owe.
LEMMA ClaimsKept ==
  ASSUME IsFiniteSet(Deposits), TypeOK, TypeOK', NEW s \in Slots,
         NEW d \in Deposits, ClaimsCover, Others(s),
         call[s].id \in {d, None}, call'[s].id \in {d, None},
         \A e \in Deposits \ {d} : Kept(e),
         Owes(d)' => Owes(d), Gone(d) => Gone(d)', pool_claims' >= pool_claims
  PROVE  ClaimsCover'
<1>1. Owed' \subseteq Owed
  BY OwesElsewhere DEF Owed
<1>2. \A e \in Deposits : Gone(e) => Gone(e)'
  BY GoneElsewhere
<1> QED
  BY <1>1, <1>2, OwedShrinks

\* A call of its own on a deposit that nobody else can charge.
LEMMA SoleCharge ==
  ASSUME Payments, NEW s \in Slots, NEW d \in Deposits, call[s].id = d,
         call[s].pc \notin NeutralPcs, Others(s), NEW t \in Slots, t # s
  PROVE  ~Charges(t, d) /\ ~Charges(t, d)'
<1>1. call[t].id = d => call[t].pc \in NeutralPcs
  BY Apart
<1>2. ~Charges(t, d)
  BY <1>1, BooksPcFacts DEF Charges, At
<1>3. call'[t] = call[t]
  BY DEF Others
<1> QED
  BY <1>2, <1>3 DEF Charges, At

-----------------------------------------------------------------------------
(* The steps that leave the deposits and the accounts alone *)

LEMMA PastFacts ==
  /\ "recycle_read" \in PastPcs /\ "recycle_wedge" \in PastPcs
  /\ "recycle_burn" \in PastPcs /\ "leftover" \in PastPcs
  /\ "sweep_read" \in PastPcs /\ "sweep_compute" \in PastPcs
  /\ "sweep_pay" \in PastPcs /\ "buffer_read" \in PastPcs
  /\ "buffer_pay" \in PastPcs /\ "reclaim_leftover" \in PastPcs
  BY DEF PastPcs, TailPcs

LEMMA ReturnIdles ==
  ASSUME TypeOK, NEW s \in Slots, Return(s), Steady, LockStep(s),
         faults' \in {faults, faults - 1},
         call[s].pc \notin DrawnPcs \/ ~Calm' \/ locks' = locks,
         At(s, "seal_transfer") => faults' # faults \/ Stuck(s)
  PROVE  Idles(s)
<1>1. Others(s) /\ call'[s] = Idle
  BY CallUpdated DEF Return
<1>2. call'[s].pc = "idle"
  BY <1>1 DEF Idle
<1>3. "idle" \notin FinalizePcs /\ "idle" \in QuietPcs
  BY QuietPcFacts DEF FinalizePcs
<1>4. \/ locks \subseteq locks'
      \/ /\ locks' = locks \ {call[s].id}
         /\ call[s].pc \in LockedPcs \ DrawnPcs \/ ~Calm'
  BY DEF LockStep, Keeps, Takes, Frees, Abandons, Holds
<1>5. Moves(s)
  BY <1>1, <1>2, <1>3, <1>4 DEF Moves
<1> QED
  BY <1>2, <1>3, <1>5 DEF Idles

LEMMA MoveIdles ==
  ASSUME TypeOK, NEW s \in Slots, NEW c, call' = [call EXCEPT ![s] = c],
         Steady, LockStep(s), faults' \in {faults, faults - 1},
         call[s].pc \notin DrawnPcs, ~At(s, "seal_transfer"),
         \/ c.pc \in QuietPcs \ FinalizePcs
         \/ /\ c.pc \in FinalizePcs
            /\ \/ call[s].pc \in FinalizePcs /\ c.id = call[s].id
               \/ deposits[c.id].state = "sealed"
         \/ /\ c.pc \in PastPcs
            /\ c.id = None \/ (call[s].pc \in PastPcs /\ c.id = call[s].id)
  PROVE  Idles(s)
<1>1. Others(s) /\ call'[s] = c
  BY CallUpdated
<1>2. c.pc # "seal_transfer" /\ c.pc # "alloc_rate"
  BY BooksPcFacts, PhaseFacts DEF QuietPcs
<1>3. c.pc \in FinalizePcs =>
        \/ call[s].pc \in FinalizePcs /\ c.id = call[s].id
        \/ deposits[c.id].state = "sealed"
  BY BooksPcFacts
<1>4. \/ locks \subseteq locks'
      \/ locks' = locks \ {call[s].id} /\ call[s].pc \in LockedPcs \ DrawnPcs
  BY DEF LockStep, Keeps, Takes, Frees, Abandons, Holds
<1>5. Moves(s)
  BY <1>1, <1>2, <1>3, <1>4 DEF Moves
<1> QED
  BY <1>1, <1>5, QuietPcFacts DEF Idles

LEMMA GotoIdles ==
  ASSUME TypeOK, NEW s \in Slots, NEW pc, Goto(s, pc),
         Steady, LockStep(s), faults' \in {faults, faults - 1},
         call[s].pc \notin DrawnPcs, ~At(s, "seal_transfer"),
         \/ pc \in QuietPcs \ FinalizePcs
         \/ pc \in FinalizePcs /\ call[s].pc \in FinalizePcs
         \/ /\ pc \in PastPcs
            /\ call[s].id = None \/ call[s].pc \in PastPcs
  PROVE  Idles(s)
<1> DEFINE c == [call[s] EXCEPT !.pc = pc]
<1>1. call' = [call EXCEPT ![s] = c]
  BY DEF Goto
<1>2. c.pc = pc /\ c.id = call[s].id
  BY CallFacts DEF CallRecords
<1> HIDE DEF c
<1> QED
  BY <1>1, <1>2, MoveIdles

LEMMA PrepareSecretIdles ==
  ASSUME TypeOK, NEW s \in Slots, LockStep(s), PrepareSecret(s)
  PROVE  Idles(s)
<1>1. /\ Goto(s, "prepare_check") /\ Steady
      /\ faults' \in {faults, faults - 1} /\ call[s].pc = "prepare_rand"
  BY FaultCounts
     DEF PrepareSecret, SecretReply, Steady, ledgerVars, clientVars,
         quoteVars, At
<1>2. /\ "prepare_check" \in QuietPcs \ FinalizePcs
      /\ "prepare_rand" \notin DrawnPcs
  BY QuietPcFacts DEF FinalizePcs, DrawnPcs
<1> QED
  BY <1>1, <1>2, GotoIdles DEF At

LEMMA AllocSecretIdles ==
  ASSUME TypeOK, NEW s \in Slots, LockStep(s), AllocSecret(s)
  PROVE  Idles(s)
<1>1. /\ Goto(s, "alloc_check") /\ Steady
      /\ faults' \in {faults, faults - 1} /\ call[s].pc = "alloc_rand"
  BY FaultCounts
     DEF AllocSecret, SecretReply, Steady, ledgerVars, clientVars,
         quoteVars, At
<1>2. /\ "alloc_check" \in QuietPcs \ FinalizePcs
      /\ "alloc_rand" \notin DrawnPcs
  BY QuietPcFacts DEF FinalizePcs, DrawnPcs
<1> QED
  BY <1>1, <1>2, GotoIdles DEF At

\* The steps of a call that begins.
LEMMA StartIdles ==
  ASSUME TypeOK, NEW s \in Slots, LockStep(s),
         \/ AllocCall(s)
         \/ AdminSweepPool(s) /\ call[s].id = None
         \/ \E d \in Deposits : PrepareCall(s, d) \/ FinalizeCall(s, d)
                                \/ ReclaimCall(s, d)
  PROVE  Idles(s)
<1>1. /\ Steady /\ faults' \in {faults, faults - 1} /\ call[s].pc = "idle"
  BY DEF AllocCall, PrepareCall, EnsureSecret, FinalizeCall, ReclaimCall,
         AdminSweepPool, Called, At, Steady, routerVars, ledgerVars,
         clientVars, quoteVars, serviceVars
<1>2. call[s].pc \notin DrawnPcs /\ ~At(s, "seal_transfer")
  BY <1>1 DEF DrawnPcs, At
<1>3. ASSUME NEW pc \in {"alloc_rand", "alloc_check", "prepare_rand",
                         "prepare_check", "reclaim_balance"},
             NEW d, call' = [call EXCEPT ![s].pc = pc, ![s].id = d]
      PROVE  Idles(s)
  <2> DEFINE c == [call[s] EXCEPT !.pc = pc, !.id = d]
  <2>1. call' = [call EXCEPT ![s] = c]
    BY <1>3
  <2>2. c.pc = pc
    BY CallFacts DEF CallRecords
  <2>3. pc \in QuietPcs \ FinalizePcs
    BY QuietPcFacts DEF FinalizePcs, ReclaimPcs
  <2> HIDE DEF c
  <2> QED
    BY <1>1, <1>2, <2>1, <2>2, <2>3, MoveIdles
<1>4. ASSUME NEW d \in Deposits, FinalizeCall(s, d)
      PROVE  Idles(s)
  <2> DEFINE c == [call[s] EXCEPT !.pc = "fin_preload", !.id = d]
  <2>1. call' = [call EXCEPT ![s] = c] /\ deposits[d].state = "sealed"
    BY <1>4 DEF FinalizeCall
  <2>2. c.pc \in FinalizePcs /\ c.id = d
    BY CallFacts DEF CallRecords, FinalizePcs
  <2> HIDE DEF c
  <2> QED
    BY <1>1, <1>2, <2>1, <2>2, MoveIdles
<1>5. ASSUME AdminSweepPool(s), call[s].id = None
      PROVE  Idles(s)
  BY <1>1, <1>2, <1>5, GotoIdles, PastFacts DEF AdminSweepPool
<1>6. CASE AllocCall(s)
  <2>1. \E pc \in {"alloc_rand", "alloc_check"} :
          call' = [call EXCEPT ![s].pc = pc, ![s].id = None]
    BY <1>6 DEF AllocCall, EnsureSecret
  <2> QED
    BY <1>3, <2>1
<1>7. ASSUME NEW d \in Deposits, PrepareCall(s, d)
      PROVE  Idles(s)
  <2>1. \E pc \in {"prepare_rand", "prepare_check"} :
          call' = [call EXCEPT ![s].pc = pc, ![s].id = d]
    BY <1>7 DEF PrepareCall, EnsureSecret
  <2> QED
    BY <1>3, <2>1
<1>8. ASSUME NEW d \in Deposits, ReclaimCall(s, d)
      PROVE  Idles(s)
  BY <1>3, <1>8 DEF ReclaimCall
<1> QED
  BY <1>4, <1>5, <1>6, <1>7, <1>8

LEMMA RejectIdles ==
  ASSUME TypeOK, NEW s \in Slots, LockStep(s),
         PrepareReject(s) \/ SealReject(s) \/ FinalizeReject(s)
  PROVE  Idles(s)
<1>1. /\ Return(s) /\ Steady /\ Fault("reject")
      /\ locks' = locks \/ call[s].pc \notin DrawnPcs
  BY DEF PrepareReject, SealReject, FinalizeReject, ReturnUnlocked, Steady,
         routerVars, ledgerVars, clientVars, quoteVars, serviceVars, DrawnPcs,
         At
<1>2. faults' # faults
  BY <1>1 DEF Fault, TypeOK, ClientType
<1> QED
  BY <1>1, <1>2, FaultCounts, ReturnIdles

LEMMA RecycleIdles ==
  ASSUME TypeOK, NEW s \in Slots, LockStep(s),
         RecycleRead(s) \/ RecycleWedge(s) \/ RecycleBurn(s)
  PROVE  Idles(s)
<1>1. /\ Steady /\ (NoFault \/ Fault("err"))
      /\ call[s].pc \in PastPcs
  BY PastFacts
     DEF RecycleRead, RecycleWedge, RecycleBurn, Steady, NoFault, At,
         routerVars, ledgerVars, clientVars, quoteVars, serviceVars
<1>2. call[s].pc \notin DrawnPcs /\ ~At(s, "seal_transfer")
  BY <1>1, BooksPcFacts DEF At
<1>3. faults' \in {faults, faults - 1}
  BY <1>1, FaultCounts
<1>4. CASE RecycleRead(s)
  <2>1. CASE Goto(s, "leftover")
    BY <1>1, <1>2, <1>3, <2>1, PastFacts, GotoIdles
  <2>2. CASE call' = [call EXCEPT ![s].pc = "recycle_wedge", ![s].bal = mixer]
    <3> DEFINE c == [call[s] EXCEPT !.pc = "recycle_wedge", !.bal = mixer]
    <3>1. call' = [call EXCEPT ![s] = c]
      BY <2>2
    <3>2. c.pc = "recycle_wedge" /\ c.id = call[s].id
      BY CallFacts DEF CallRecords
    <3> HIDE DEF c
    <3> QED
      BY <1>1, <1>2, <1>3, <3>1, <3>2, PastFacts, MoveIdles
  <2> QED
    BY <1>4, <2>1, <2>2 DEF RecycleRead
<1>5. CASE RecycleWedge(s)
  <2>1. PICK recycle :
          call' = [call EXCEPT
                     ![s].pc = IF recycle = 0 THEN "leftover"
                               ELSE "recycle_burn",
                     ![s].bal = 0,
                     ![s].amt = recycle]
    BY <1>5 DEF RecycleWedge
  <2> DEFINE pc == IF recycle = 0 THEN "leftover" ELSE "recycle_burn"
             c == [call[s] EXCEPT !.pc = pc, !.bal = 0, !.amt = recycle]
  <2>2. call' = [call EXCEPT ![s] = c]
    BY <2>1
  <2>3. pc \in PastPcs
    BY PastFacts
  <2> HIDE DEF pc
  <2>4. c.pc = pc /\ c.id = call[s].id
    BY CallFacts DEF CallRecords
  <2> HIDE DEF c
  <2> QED
    BY <1>1, <1>2, <1>3, <2>2, <2>3, <2>4, MoveIdles
<1>6. CASE RecycleBurn(s)
  <2> DEFINE c == [call[s] EXCEPT !.pc = "leftover", !.amt = 0]
  <2>1. call' = [call EXCEPT ![s] = c]
    BY <1>6 DEF RecycleBurn
  <2>2. c.pc = "leftover" /\ c.id = call[s].id
    BY CallFacts DEF CallRecords
  <2> HIDE DEF c
  <2> QED
    BY <1>1, <1>2, <1>3, <2>1, <2>2, PastFacts, MoveIdles
<1> QED
  BY <1>4, <1>5, <1>6

LEMMA SweepIdles ==
  ASSUME TypeOK, NEW s \in Slots, LockStep(s),
         \/ SweepRead(s) \/ SweepCompute(s) \/ SweepPay(s)
         \/ BufferRead(s) \/ BufferPay(s)
  PROVE  Idles(s)
<1>1. /\ Steady /\ (NoFault \/ Fault("err") \/ Fault("reject"))
      /\ call[s].pc \in PastPcs
  BY PastFacts
     DEF SweepRead, SweepCompute, SweepPay, BufferRead, BufferPay, Steady,
         NoFault, At, routerVars, ledgerVars, clientVars, quoteVars, serviceVars
<1>2. call[s].pc \notin DrawnPcs /\ ~At(s, "seal_transfer")
  BY <1>1, BooksPcFacts DEF At
<1>3. faults' \in {faults, faults - 1}
  BY <1>1, FaultCounts
<1>4. ASSUME NEW c, call' = [call EXCEPT ![s] = c],
             c.id = call[s].id, c.pc \in PastPcs
      PROVE  Idles(s)
  BY <1>1, <1>2, <1>3, <1>4, MoveIdles
<1>5. CASE Return(s)
  BY <1>1, <1>2, <1>3, <1>5, ReturnIdles
<1>6. CASE SweepRead(s)
  <2> DEFINE c == [call[s] EXCEPT !.pc = "sweep_compute", !.bal = mixer]
  <2>1. call' = [call EXCEPT ![s] = c]
    BY <1>6 DEF SweepRead
  <2>2. c.pc = "sweep_compute" /\ c.id = call[s].id
    BY CallFacts DEF CallRecords
  <2> HIDE DEF c
  <2> QED
    BY <1>4, <2>1, <2>2, PastFacts
<1>7. CASE SweepCompute(s)
  <2> DEFINE amt == Monus(Monus(call[s].bal, pool_claims + POOL_SWEEP_THRESHOLD),
                          LEDGER_FEE)
             c == [call[s] EXCEPT !.pc = "sweep_pay", !.bal = 0, !.amt = amt]
  <2>1. call' = [call EXCEPT ![s] = c]
    BY <1>7 DEF SweepCompute
  <2> HIDE DEF amt
  <2>2. c.pc = "sweep_pay" /\ c.id = call[s].id
    BY CallFacts DEF CallRecords
  <2> HIDE DEF c
  <2> QED
    BY <1>4, <2>1, <2>2, PastFacts
<1>8. CASE SweepPay(s) /\ ~Return(s)
  <2> DEFINE c == [call[s] EXCEPT !.pc = "buffer_read", !.amt = 0]
  <2>1. call' = [call EXCEPT ![s] = c]
    BY <1>8 DEF SweepPay, ReturnUnlocked
  <2>2. c.pc = "buffer_read" /\ c.id = call[s].id
    BY CallFacts DEF CallRecords
  <2> HIDE DEF c
  <2> QED
    BY <1>4, <2>1, <2>2, PastFacts
<1>9. CASE BufferRead(s)
  <2> DEFINE c == [call[s] EXCEPT !.pc = "buffer_pay", !.bal = fee_buf]
  <2>1. call' = [call EXCEPT ![s] = c]
    BY <1>9 DEF BufferRead
  <2>2. c.pc = "buffer_pay" /\ c.id = call[s].id
    BY CallFacts DEF CallRecords
  <2> HIDE DEF c
  <2> QED
    BY <1>4, <2>1, <2>2, PastFacts
<1>10. CASE BufferPay(s)
  BY <1>5, <1>10 DEF BufferPay, ReturnUnlocked
<1> QED
  BY <1>5, <1>6, <1>7, <1>8, <1>9, <1>10

LEMMA FinalizeIdles ==
  ASSUME TypeOK, NEW s \in Slots, LockStep(s),
         \/ FinalizePreload(s) \/ FinalizeBalance(s) \/ FinalizeTopUp(s)
         \/ FinalizeEnsure(s) \/ FinalizeDeficit(s) \/ FinalizeTransfer(s)
  PROVE  Idles(s)
<1>1. /\ "fin_preload" \in FinalizePcs /\ "fin_balance" \in FinalizePcs
      /\ "fin_topup" \in FinalizePcs /\ "fin_ensure" \in FinalizePcs
      /\ "fin_deficit" \in FinalizePcs /\ "fin_transfer" \in FinalizePcs
      /\ "fin_commit" \in FinalizePcs
  BY DEF FinalizePcs
<1>2. Steady /\ (NoFault \/ Fault("err")) /\ call[s].pc \in FinalizePcs
  <2>1. CASE FinalizePreload(s)
    BY <1>1, <2>1
       DEF FinalizePreload, FromBuffer, Steady, NoFault, At, ledgerVars,
           clientVars, quoteVars, serviceVars
  <2>2. CASE FinalizeTopUp(s) \/ FinalizeDeficit(s)
    BY <1>1, <2>2
       DEF FinalizeTopUp, FinalizeDeficit, TopUp, FromBuffer, Steady, NoFault,
           At, ledgerVars, clientVars, quoteVars, serviceVars
  <2>3. CASE FinalizeBalance(s) \/ FinalizeEnsure(s)
    BY <1>1, <2>3
       DEF FinalizeBalance, FinalizeEnsure, ReadMixer, Steady, NoFault, At,
           routerVars, ledgerVars, clientVars, quoteVars, serviceVars
  <2>4. CASE FinalizeTransfer(s)
    BY <1>1, <2>4
       DEF FinalizeTransfer, Steady, NoFault, At, ledgerVars, clientVars,
           quoteVars, serviceVars
  <2> QED
    BY <2>1, <2>2, <2>3, <2>4
<1>3. call[s].pc \notin DrawnPcs /\ ~At(s, "seal_transfer")
  BY <1>2, BooksPcFacts DEF At, FinalizePcs
<1>4. faults' \in {faults, faults - 1}
  BY <1>2, FaultCounts
<1>5. ASSUME NEW pc \in FinalizePcs, Goto(s, pc)
      PROVE  Idles(s)
  BY <1>2, <1>3, <1>4, <1>5, GotoIdles
<1>6. CASE Return(s)
  BY <1>2, <1>3, <1>4, <1>6, ReturnIdles
<1>7. ASSUME NEW pc, NEW next \in FinalizePcs, ReadMixer(s, pc, next)
      PROVE  Idles(s)
  <2> DEFINE c == [call[s] EXCEPT !.pc = next, !.bal = mixer]
  <2>1. call' = [call EXCEPT ![s] = c]
    BY <1>7 DEF ReadMixer
  <2>2. c.pc = next /\ c.id = call[s].id
    BY CallFacts DEF CallRecords
  <2> HIDE DEF c
  <2> QED
    BY <1>2, <1>3, <1>4, <2>1, <2>2, MoveIdles
<1>8. \/ Return(s)
      \/ \E pc \in FinalizePcs : Goto(s, pc)
      \/ \E pc, next \in FinalizePcs : ReadMixer(s, pc, next)
  <2>1. CASE FinalizePreload(s)
    BY <1>1, <2>1 DEF FinalizePreload, FromBuffer, ReturnUnlocked
  <2>2. CASE FinalizeTopUp(s)
    BY <1>1, <2>2 DEF FinalizeTopUp, TopUp, FromBuffer, ReturnUnlocked
  <2>3. CASE FinalizeDeficit(s)
    BY <1>1, <2>3 DEF FinalizeDeficit, TopUp, FromBuffer, ReturnUnlocked
  <2>4. CASE FinalizeBalance(s) \/ FinalizeEnsure(s)
    BY <1>1, <2>4 DEF FinalizeBalance, FinalizeEnsure
  <2>5. CASE FinalizeTransfer(s)
    BY <1>1, <2>5 DEF FinalizeTransfer, ReturnUnlocked
  <2> QED
    BY <2>1, <2>2, <2>3, <2>4, <2>5
<1> QED
  BY <1>5, <1>6, <1>7, <1>8

LEMMA ReclaimBalanceIdles ==
  ASSUME TypeOK, NEW s \in Slots, LockStep(s), ReclaimBalance(s)
  PROVE  Idles(s)
<1> DEFINE c == [call[s] EXCEPT !.pc = "reclaim_transfer",
                                !.bal = sub[call[s].id]]
<1>1. call' = [call EXCEPT ![s] = c]
  BY DEF ReclaimBalance
<1>2. c.pc = "reclaim_transfer"
  BY CallFacts DEF CallRecords
<1> HIDE DEF c
<1>3. Steady /\ call[s].pc = "reclaim_balance" /\ faults' = faults
  BY DEF ReclaimBalance, Steady, At, routerVars, ledgerVars, clientVars,
         quoteVars, serviceVars
<1>4. /\ "reclaim_balance" \notin DrawnPcs
      /\ "reclaim_transfer" \in QuietPcs \ FinalizePcs
  BY QuietPcFacts DEF DrawnPcs, ReclaimPcs, FinalizePcs
<1> QED
  BY <1>1, <1>2, <1>3, <1>4, MoveIdles DEF At

-----------------------------------------------------------------------------
(* The steps that learn something of a deposit or its account *)

\* A call that goes on in its slot, whatever it learns.
LEMMA LearnsMoves ==
  ASSUME TypeOK, NEW s \in Slots, NEW c, call' = [call EXCEPT ![s] = c],
         Steady, LockStep(s), faults' \in {faults, faults - 1},
         c.pc \notin FinalizePcs, c.pc \notin {"seal_transfer", "alloc_rate"},
         ~At(s, "seal_transfer"),
         call[s].pc \in DrawnPcs => locks' = locks
  PROVE  Moves(s) /\ call'[s] = c
<1>1. Others(s) /\ call'[s] = c
  BY CallUpdated
<1>2. \/ locks \subseteq locks'
      \/ locks' = locks \ {call[s].id} /\ call[s].pc \in LockedPcs \ DrawnPcs
  BY DEF LockStep, Keeps, Takes, Frees, Abandons, Holds
<1> QED
  BY <1>1, <1>2 DEF Moves

\* A step of the call in slot s, in a state where the books are right.
Ready(s) == /\ IsFiniteSet(Deposits) /\ Payments /\ Books /\ TypeOK'
            /\ LockStep(s)

LEMMA ReadyFacts ==
  ASSUME NEW s \in Slots, Ready(s)
  PROVE  /\ IsFiniteSet(Deposits) /\ Payments /\ Books /\ TypeOK /\ TypeOK'
         /\ LockStep(s) /\ InFlight(s) /\ CallTrue(s)
         /\ call[s].pc \notin AnonymousPcs => call[s].id \in Deposits
  BY CallFacts DEF Ready, Payments, Exclusive, PaymentsMatchRecords, Books

LEMMA EarlyCall ==
  ASSUME NEW s, call'[s].pc \in EarlyPcs \cup DrawnPcs
  PROVE  CallTrue(s)'
<1>1. /\ call'[s].pc \notin SealPcs /\ call'[s].pc \notin PastPcs
      /\ call'[s].pc # "alloc_rate"
  BY BooksPcFacts
<1>2. call'[s].pc \notin {"seal_rate", "seal_compute"}
  BY <1>1, PhaseFacts
<1> QED
  BY <1>1, <1>2 DEF CallTrue

LEMMA SealCalm ==
  ASSUME NEW s, call'[s].pc \in SealPcs,
         call'[s].pc \notin {"seal_rate", "seal_compute"}
  PROVE  CalmCall(s)'
<1>1. call'[s].pc \notin EarlyPcs /\ call'[s].pc \notin DrawnPcs
  BY BooksPcFacts
<1>2. call'[s].pc # "prepare_rate" /\ call'[s].pc # "prepare_convert"
  BY <1>1, BooksPcFacts
<1> QED
  BY <1>1, <1>2 DEF CalmCall

LEMMA PrepareCheckBooks ==
  ASSUME NEW s \in Slots, Ready(s), PrepareCheck(s)
  PROVE  Books'
<1>1. /\ TypeOK /\ TypeOK' /\ LockStep(s) /\ call[s].pc = "prepare_check"
      /\ call[s].id \in Deposits
  BY ReadyFacts DEF PrepareCheck, At, AnonymousPcs
<1>2. PICK d \in Deposits : d = call[s].id
  BY <1>1
<1>3. Steady /\ faults' = faults
  BY DEF PrepareCheck, Steady, ledgerVars, clientVars, quoteVars, serviceVars
<1>4. "prepare_check" \notin DrawnPcs
  BY DEF DrawnPcs
<1>5. CASE Return(s)
  <2>1. Idles(s)
    BY <1>1, <1>3, <1>4, <1>5, ReturnIdles DEF At
  <2> QED
    BY <2>1, IdlesKeeps, ReadyFacts
<1>6. CASE /\ deposits[d].state = "allocated" /\ d \notin locks
           /\ Goto(s, "prepare_balance")
  <2> DEFINE c == [call[s] EXCEPT !.pc = "prepare_balance"]
  <2>1. call' = [call EXCEPT ![s] = c]
    BY <1>6 DEF Goto
  <2>2. c.pc = "prepare_balance" /\ c.id = d
    BY <1>1, <1>2, CallFacts DEF CallRecords
  <2> HIDE DEF c
  <2>3. "prepare_balance" \in EarlyPcs /\ "prepare_balance" \notin FinalizePcs
    BY BooksPcFacts
  <2>4. Moves(s) /\ call'[s] = c
    BY <1>1, <1>3, <1>4, <2>1, <2>2, <2>3, LearnsMoves DEF At
  <2>5. CallTrue(s)'
    BY <2>2, <2>3, <2>4, EarlyCall
  <2>6. ASSUME Calm
        PROVE  CalmCall(s)'
    <3>1. d \in funded => sub[d] = Whole(d)
      BY <1>6, <2>6, ReadyFacts DEF Books, CalmDeposit
    <3>2. sub'[d] = sub[d] /\ Whole(d)' = Whole(d) /\ funded' = funded
      BY <1>3 DEF Steady, Whole
    <3>3. "prepare_balance" \notin DrawnPcs
      BY DEF DrawnPcs
    <3> QED
      BY <2>2, <2>4, <3>1, <3>2, <3>3 DEF CalmCall
  <2> QED
    BY <2>4, <2>5, <2>6, MovesKeeps, ReadyFacts
<1> QED
  BY <1>2, <1>5, <1>6 DEF PrepareCheck

LEMMA PrepareBalanceBooks ==
  ASSUME NEW s \in Slots, Ready(s), PrepareBalance(s)
  PROVE  Books'
<1>1. /\ TypeOK /\ LockStep(s) /\ call[s].pc = "prepare_balance"
      /\ call[s].id \in Deposits
  BY ReadyFacts DEF PrepareBalance, At, AnonymousPcs
<1>2. PICK d \in Deposits : d = call[s].id
  BY <1>1
<1>3. Steady /\ faults' = faults
  BY DEF PrepareBalance, Steady, routerVars, ledgerVars, clientVars, quoteVars,
         serviceVars
<1> DEFINE c == [call[s] EXCEPT !.pc = "prepare_rate", !.bal = sub[d]]
<1>4. call' = [call EXCEPT ![s] = c]
  BY <1>2 DEF PrepareBalance
<1>5. c.pc = "prepare_rate" /\ c.id = d /\ c.bal = sub[d]
  BY <1>2, CallFacts, <1>1 DEF CallRecords
<1> HIDE DEF c
<1>6. /\ "prepare_rate" \in EarlyPcs /\ "prepare_rate" \notin FinalizePcs
      /\ "prepare_rate" \notin DrawnPcs /\ "prepare_balance" \notin DrawnPcs
      /\ "prepare_balance" \in EarlyPcs
  BY BooksPcFacts
<1>7. Moves(s) /\ call'[s] = c
  BY <1>1, <1>3, <1>4, <1>5, <1>6, LearnsMoves DEF At
<1>8. CallTrue(s)'
  BY <1>5, <1>6, <1>7, EarlyCall
<1>9. ASSUME Calm
      PROVE  CalmCall(s)'
  <2>1. d \in funded => sub[d] = Whole(d)
    BY <1>1, <1>2, <1>6, <1>9, ReadyFacts DEF Books, CalmCall
  <2>2. d \notin funded => sub[d] = 0
    BY ReadyFacts DEF Books, QuoteTrue
  <2>3. sub'[d] = sub[d] /\ Whole(d)' = Whole(d) /\ funded' = funded
    BY <1>3 DEF Steady, Whole
  <2> QED
    BY <1>5, <1>6, <1>7, <2>1, <2>2, <2>3 DEF CalmCall
<1> QED
  BY <1>7, <1>8, <1>9, MovesKeeps, ReadyFacts

LEMMA PrepareRateBooks ==
  ASSUME NEW s \in Slots, Ready(s), PrepareRate(s)
  PROVE  Books'
<1>1. /\ TypeOK /\ TypeOK' /\ LockStep(s) /\ call[s].pc = "prepare_rate"
      /\ call[s].id \in Deposits
  BY ReadyFacts DEF PrepareRate, At, AnonymousPcs
<1>2. PICK d \in Deposits : d = call[s].id
  BY <1>1
<1>3. Steady /\ faults' \in {faults, faults - 1}
  BY FaultCounts
     DEF PrepareRate, Steady, ledgerVars, clientVars, quoteVars, serviceVars
<1>4. "prepare_rate" \notin DrawnPcs
  BY BooksPcFacts
<1>5. CASE Return(s)
  <2>1. Idles(s)
    BY <1>1, <1>3, <1>4, <1>5, ReturnIdles DEF At
  <2> QED
    BY <2>1, IdlesKeeps, ReadyFacts
<1>6. CASE ~Return(s)
  <2>1. PICK r \in Rates :
          /\ ConvertAmount(call[s].bal, r, Pct[d]) # 0
          /\ call' = [call EXCEPT
                        ![s].pc = "prepare_convert", ![s].bal = 0,
                        ![s].amt = ConvertAmount(call[s].bal, r, Pct[d])]
    BY <1>2, <1>6 DEF PrepareRate, ReturnUnlocked
  <2> DEFINE convert == ConvertAmount(call[s].bal, r, Pct[d])
             c == [call[s] EXCEPT !.pc = "prepare_convert", !.bal = 0,
                                  !.amt = convert]
  <2>2. call' = [call EXCEPT ![s] = c]
    BY <2>1
  <2>3. convert # 0
    BY <2>1
  <2>4. convert \in Nat
    <3>1. call[s].bal \in Nat /\ r \in Nat \ {0}
      BY <1>1, CallFacts, RateFacts, Zenon
    <3>2. Pct[d] \in 0..100
      BY DepositFacts
    <3> QED
      BY <3>1, <3>2, ConvertAmountNat
  <2>5. call[s].bal # 0
    <3>1. SUFFICES ASSUME call[s].bal = 0
                   PROVE  convert = 0
      BY <2>3
    <3>2. Monus(call[s].bal, 5 * LEDGER_FEE) = 0
      BY <3>1, ParameterFacts DEF Monus
    <3>3. \A x : Lesser(x, 0) = 0 \/ (Lesser(x, 0) = x /\ x < 0)
      BY DEF Lesser
    <3>4. PICK x : convert = Lesser(x, 0)
      BY <3>2 DEF ConvertAmount
    <3> HIDE DEF convert
    <3> QED
      BY <2>4, <3>3, <3>4
  <2> HIDE DEF convert
  <2>6. c.pc = "prepare_convert" /\ c.id = d /\ c.amt = convert
    BY <1>1, <1>2, CallFacts DEF CallRecords
  <2> HIDE DEF c
  <2>7. /\ "prepare_convert" \in EarlyPcs /\ "prepare_convert" \notin FinalizePcs
        /\ "prepare_convert" \notin DrawnPcs /\ "prepare_rate" \in EarlyPcs
    BY BooksPcFacts
  <2>8. Moves(s) /\ call'[s] = c
    BY <1>1, <1>3, <1>4, <2>2, <2>6, <2>7, LearnsMoves DEF At
  <2>9. CallTrue(s)'
    BY <2>6, <2>7, <2>8, EarlyCall
  <2>10. ASSUME Calm
         PROVE  CalmCall(s)'
    <3>1. /\ d \in funded /\ call[s].bal = Whole(d)
          /\ sub[d] = Whole(d)
      BY <1>1, <1>2, <2>5, <2>7, <2>10, ReadyFacts DEF Books, CalmCall
    <3>2. convert \in Conversions(d)
      BY <3>1 DEF Conversions, convert
    <3>3. /\ sub'[d] = sub[d] /\ Whole(d)' = Whole(d) /\ funded' = funded
          /\ Conversions(d)' = Conversions(d)
      BY <1>3 DEF Steady, Whole, Conversions
    <3> QED
      BY <2>6, <2>7, <2>8, <3>1, <3>2, <3>3 DEF CalmCall
  <2> QED
    BY <2>8, <2>9, <2>10, MovesKeeps, ReadyFacts
<1> QED
  BY <1>5, <1>6

LEMMA PrepareSpawnBooks ==
  ASSUME NEW s \in Slots, Ready(s), PrepareNotify(s) \/ PrepareSpawn(s)
  PROVE  Books'
<1>1. /\ TypeOK /\ TypeOK' /\ LockStep(s)
      /\ call[s].pc \in {"prepare_notify", "prepare_spawn"}
      /\ call[s].id \in Deposits
  BY ReadyFacts DEF PrepareNotify, PrepareSpawn, At, AnonymousPcs
<1>2. PICK d \in Deposits : d = call[s].id
  BY <1>1
<1>3. Steady /\ faults' \in {faults, faults - 1}
  BY FaultCounts
     DEF PrepareNotify, PrepareSpawn, Steady, ledgerVars, clientVars, quoteVars,
         serviceVars
<1>4. CASE Fault("err") /\ Return(s)
  <2>1. ~Calm'
    BY <1>4, ErrorEndsCalm, ReadyFacts
  <2>2. Idles(s)
    BY <1>1, <1>3, <1>4, <2>1, ReturnIdles DEF At
  <2> QED
    BY <2>2, IdlesKeeps, ReadyFacts
<1>5. ASSUME NEW pc \in {"prepare_spawn", "prepare_topups"}, Goto(s, pc),
             UNCHANGED locks
      PROVE  Books'
  <2> DEFINE c == [call[s] EXCEPT !.pc = pc]
  <2>1. call' = [call EXCEPT ![s] = c]
    BY <1>5 DEF Goto
  <2>2. c.pc = pc /\ c.id = d /\ c.amt = call[s].amt
    BY <1>1, <1>2, CallFacts DEF CallRecords
  <2> HIDE DEF c
  <2>3. pc \in DrawnPcs /\ pc \notin FinalizePcs /\ pc # "seal_transfer"
        /\ call[s].pc \in DrawnPcs
    BY <1>1, BooksPcFacts
  <2>4. Moves(s) /\ call'[s] = c
    BY <1>1, <1>3, <1>5, <2>1, <2>2, <2>3, LearnsMoves DEF At
  <2>5. CallTrue(s)'
    BY <2>2, <2>3, <2>4, EarlyCall
  <2>6. ASSUME Calm
        PROVE  CalmCall(s)'
    <3>1. /\ d \in funded /\ call[s].amt \in Conversions(d)
          /\ sub[d] + call[s].amt + LEDGER_FEE = Whole(d)
      BY <1>2, <2>3, <2>6, ReadyFacts DEF Books, CalmCall
    <3>2. /\ sub'[d] = sub[d] /\ Whole(d)' = Whole(d) /\ funded' = funded
          /\ Conversions(d)' = Conversions(d)
      BY <1>3 DEF Steady, Whole, Conversions
    <3>3. pc \notin EarlyPcs /\ pc # "prepare_rate" /\ pc # "prepare_convert"
          /\ pc # "seal_compute"
      BY DEF EarlyPcs
    <3> QED
      BY <2>2, <2>3, <2>4, <3>1, <3>2, <3>3 DEF CalmCall
  <2> QED
    BY <2>4, <2>5, <2>6, MovesKeeps, ReadyFacts
<1> QED
  BY <1>4, <1>5 DEF PrepareNotify, PrepareSpawn, ReturnUnlocked

LEMMA SealCallBooks ==
  ASSUME NEW s \in Slots, Ready(s), NEW d \in Deposits, SealCall(s, d)
  PROVE  Books'
<1>1. TypeOK /\ TypeOK' /\ LockStep(s) /\ call[s].pc = "idle"
  BY ReadyFacts DEF SealCall, Called, At
<1>2. Steady /\ faults' = faults
  BY DEF SealCall, Steady, ledgerVars, quoteVars, serviceVars
<1> DEFINE c == [call[s] EXCEPT !.pc = "seal_balance", !.id = d,
                                !.spawn_fee = deposits[d].spawn_fee]
<1>3. call' = [call EXCEPT ![s] = c]
  BY DEF SealCall
<1>4. /\ c.pc = "seal_balance" /\ c.id = d
      /\ c.spawn_fee = deposits[d].spawn_fee
  BY <1>1, CallFacts DEF CallRecords
<1> HIDE DEF c
<1>5. /\ "seal_balance" \in SealPcs /\ "seal_balance" \notin FinalizePcs
      /\ "idle" \notin DrawnPcs /\ "seal_balance" \notin PastPcs
      /\ "seal_balance" \notin {"seal_rate", "seal_compute", "alloc_rate"}
  BY BooksPcFacts, PhaseFacts DEF DrawnPcs
<1>6. Moves(s) /\ call'[s] = c
  BY <1>1, <1>2, <1>3, <1>4, <1>5, LearnsMoves DEF At
<1>7. CallTrue(s)'
  BY <1>2, <1>4, <1>5, <1>6 DEF CallTrue, Steady
<1>8. CalmCall(s)'
  BY <1>4, <1>5, <1>6, SealCalm
<1> QED
  BY <1>6, <1>7, <1>8, MovesKeeps, ReadyFacts

LEMMA SealBalanceBooks ==
  ASSUME NEW s \in Slots, Ready(s), SealBalance(s)
  PROVE  Books'
<1>1. /\ TypeOK /\ LockStep(s) /\ call[s].pc = "seal_balance"
      /\ call[s].id \in Deposits
  BY ReadyFacts DEF SealBalance, At, AnonymousPcs
<1>2. PICK d \in Deposits : d = call[s].id
  BY <1>1
<1>3. Steady /\ faults' = faults
  BY DEF SealBalance, Steady, routerVars, ledgerVars, clientVars, quoteVars,
         serviceVars
<1> DEFINE c == [call[s] EXCEPT !.pc = "seal_rate", !.bal = sub[d]]
<1>4. call' = [call EXCEPT ![s] = c]
  BY <1>2 DEF SealBalance
<1>5. /\ c.pc = "seal_rate" /\ c.id = d /\ c.bal = sub[d]
      /\ c.spawn_fee = call[s].spawn_fee
  BY <1>1, <1>2, CallFacts DEF CallRecords
<1> HIDE DEF c
<1>6. /\ "seal_rate" \in SealPcs /\ "seal_rate" \notin FinalizePcs
      /\ "seal_balance" \notin DrawnPcs /\ "seal_rate" \notin PastPcs
      /\ "seal_rate" # "alloc_rate" /\ "seal_balance" \in SealPcs
  BY BooksPcFacts, PhaseFacts
<1>7. Moves(s) /\ call'[s] = c
  BY <1>1, <1>3, <1>4, <1>5, <1>6, LearnsMoves DEF At
<1>8. CallTrue(s)'
  <2>1. call[s].spawn_fee = deposits[d].spawn_fee
    BY <1>1, <1>2, <1>6, ReadyFacts DEF CallTrue
  <2> QED
    BY <1>3, <1>5, <1>6, <1>7, <2>1 DEF CallTrue, Steady
<1>9. CalmCall(s)'
  <2>1. "seal_rate" \notin EarlyPcs /\ "seal_rate" \notin DrawnPcs
        /\ "seal_rate" \notin {"prepare_rate", "prepare_convert", "seal_compute"}
    BY <1>6, BooksPcFacts
  <2> QED
    BY <1>3, <1>5, <1>7, <2>1 DEF CalmCall, Steady
<1> QED
  BY <1>7, <1>8, <1>9, MovesKeeps, ReadyFacts

LEMMA SealRateBooks ==
  ASSUME NEW s \in Slots, Ready(s), SealRate(s)
  PROVE  Books'
<1>1. /\ TypeOK /\ TypeOK' /\ LockStep(s) /\ call[s].pc = "seal_rate"
      /\ call[s].id \in Deposits
  BY ReadyFacts DEF SealRate, At, AnonymousPcs
<1>2. PICK d \in Deposits : d = call[s].id
  BY <1>1
<1>3. Steady /\ faults' \in {faults, faults - 1}
  BY FaultCounts
     DEF SealRate, Steady, ledgerVars, clientVars, quoteVars, serviceVars
<1>4. /\ "seal_compute" \in SealPcs /\ "seal_compute" \notin FinalizePcs
      /\ "seal_rate" \notin DrawnPcs /\ "seal_compute" \notin PastPcs
      /\ "seal_compute" # "alloc_rate" /\ "seal_rate" \in SealPcs
  BY BooksPcFacts, PhaseFacts
<1>5. CASE Return(s)
  <2>1. Idles(s)
    BY <1>1, <1>3, <1>4, <1>5, ReturnIdles DEF At
  <2> QED
    BY <2>1, IdlesKeeps, ReadyFacts
<1>6. CASE ~Return(s)
  <2>1. PICK r \in Rates \cup {0} :
          /\ IF r = 0 THEN Fault("err") ELSE NoFault
          /\ call' = [call EXCEPT ![s].pc = "seal_compute", ![s].rate = r]
          /\ UNCHANGED locks
    BY <1>6 DEF SealRate, ReturnUnlocked
  <2> DEFINE c == [call[s] EXCEPT !.pc = "seal_compute", !.rate = r]
  <2>2. call' = [call EXCEPT ![s] = c]
    BY <2>1
  <2>3. /\ c.pc = "seal_compute" /\ c.id = d /\ c.rate = r
        /\ c.spawn_fee = call[s].spawn_fee /\ c.bal = call[s].bal
    BY <1>1, <1>2, CallFacts DEF CallRecords
  <2> HIDE DEF c
  <2>4. Moves(s) /\ call'[s] = c
    BY <1>1, <1>3, <1>4, <2>2, <2>3, LearnsMoves DEF At
  <2>5. CallTrue(s)'
    <3>1. call[s].spawn_fee = deposits[d].spawn_fee
      BY <1>1, <1>2, <1>4, ReadyFacts DEF CallTrue
    <3> QED
      BY <1>3, <1>4, <2>3, <2>4, <3>1 DEF CallTrue, Steady
  <2>6. ASSUME Calm, Calm'
        PROVE  CalmCall(s)'
    <3>1. r \in Rates
      BY <2>1, <2>6, ErrorEndsCalm, ReadyFacts
    <3>2. call[s].bal = sub[d] /\ sub'[d] = sub[d]
      BY <1>1, <1>2, <1>3, <2>6, ReadyFacts DEF Books, CalmCall, Steady
    <3>3. "seal_compute" \notin EarlyPcs /\ "seal_compute" \notin DrawnPcs
          /\ "seal_compute" # "prepare_rate" /\ "seal_compute" # "prepare_convert"
      BY <1>4, BooksPcFacts
    <3> QED
      BY <2>3, <2>4, <3>1, <3>2, <3>3 DEF CalmCall
  <2> QED
    BY <2>4, <2>5, <2>6, MovesKeeps, ReadyFacts
<1> QED
  BY <1>5, <1>6

-----------------------------------------------------------------------------
(* deposit_alloc and deposit_prepare, where they change records or accounts *)

LEMMA AllocCheckBooks ==
  ASSUME NEW s \in Slots, Ready(s), AllocCheck(s)
  PROVE  Books'
<1>1. /\ TypeOK /\ TypeOK' /\ LockStep(s) /\ call[s].pc = "alloc_check"
      /\ Payments /\ Books
  BY ReadyFacts DEF AllocCheck, At
<1>2. /\ UNCHANGED <<deposits, sub, quote, funded, alice, pool_claims, locks>>
      /\ faults' = faults
  BY DEF AllocCheck, ledgerVars, clientVars, quoteVars
<1>3. CASE Return(s) /\ UNCHANGED issued
  <2>1. Idles(s)
    BY <1>1, <1>2, <1>3, ReturnIdles DEF At, Steady
  <2> QED
    BY <2>1, IdlesKeeps, ReadyFacts
<1>4. ASSUME NEW d \in Deposits \ issued, issued' = issued \cup {d},
             call' = [call EXCEPT ![s].pc = "alloc_rate", ![s].id = d]
      PROVE  Books'
  <2> DEFINE c == [call[s] EXCEPT !.pc = "alloc_rate", !.id = d]
  <2>1. call' = [call EXCEPT ![s] = c]
    BY <1>4
  <2>2. c.pc = "alloc_rate" /\ c.id = d
    BY <1>1, CallFacts DEF CallRecords
  <2> HIDE DEF c
  <2>3. Others(s) /\ call'[s] = c
    BY <1>1, <2>1, CallUpdated
  <2>4. \A e \in Deposits : QuoteTrue(e)'
    BY <1>1, <1>2, <1>4 DEF Books, QuoteTrue
  <2>5. \A e : e # d => Kept(e)
    BY <1>2, <1>4 DEF Kept
  <2>6. ASSUME NEW t \in Slots \ {s}
        PROVE  CallTrue(t)' /\ (CalmCall(t) => CalmCall(t)')
    <3>1. call[t].id # None => call[t].id # d
      BY <1>1, <1>4 DEF Payments, PaymentsMatchRecords, InFlight
    <3> QED
      BY <1>1, <2>3, <2>5, <3>1, OthersTrue
  <2>7. CallTrue(s)' /\ CalmCall(s)'
    <3>1. quote'[d] = 0
      BY <1>1, <1>2, <1>4 DEF Books, QuoteTrue
    <3>2. /\ "alloc_rate" \notin EarlyPcs \cup DrawnPcs \cup SealPcs \cup PastPcs
          /\ "alloc_rate" \notin {"prepare_rate", "prepare_convert",
                                  "seal_rate", "seal_compute"}
      BY BooksPcFacts
    <3> QED
      BY <2>2, <2>3, <3>1, <3>2 DEF CallTrue, CalmCall
  <2>8. ASSUME Calm'
        PROVE  /\ \A e \in Deposits : CalmDeposit(e)'
               /\ \A t \in Slots : CalmCall(t)'
               /\ ClaimsCover'
    <3>1. /\ Calm /\ (\A e \in Deposits : CalmDeposit(e))
          /\ (\A t \in Slots : CalmCall(t)) /\ ClaimsCover
      BY <1>1, <1>2, <2>8, CalmBefore DEF Books
    <3>2. \A e \in Deposits : CalmDeposit(e)'
      BY <1>2, <3>1 DEF CalmDeposit, Whole, Conversions
    <3>3. ASSUME NEW e \in Deposits, Owes(e)'
          PROVE  Owes(e)
      <4>1. ~Charges(s, e)'
        BY <2>2, <2>3 DEF Charges, At, FinalizePcs
      <4>2. \A t \in Slots \ {s} : Charges(t, e)' => Charges(t, e)
        BY <2>3 DEF Charges, At, Others
      <4>3. Drawn(e)' => Drawn(e)
        BY <1>2 DEF Drawn, Intact, Whole
      <4> QED
        BY <1>2, <3>3, <4>1, <4>2, <4>3 DEF Owes
    <3>4. Owed' \subseteq Owed
      BY <3>3 DEF Owed
    <3>5. pool_claims' >= pool_claims
      BY <1>1, <1>2 DEF TypeOK, ServiceType
    <3>6. \A e \in Deposits : Gone(e) => Gone(e)'
      <4>1. \A e \in Deposits : Gone(e) => e # d
        BY <1>4 DEF Gone
      <4> QED
        BY <1>2, <1>4, <2>2, <2>3, <4>1, GoneStays
    <3> QED
      BY <1>1, <2>6, <2>7, <3>1, <3>2, <3>4, <3>5, <3>6, OwedShrinks, ReadyFacts
  <2>9. faults' <= MaxFaults
    BY <1>1, <1>2 DEF Books
  <2> QED
    BY <2>4, <2>6, <2>7, <2>8, <2>9 DEF Books
<1> QED
  BY <1>3, <1>4 DEF AllocCheck

LEMMA AllocRateBooks ==
  ASSUME NEW s \in Slots, Ready(s), AllocRate(s)
  PROVE  Books'
<1>1. /\ TypeOK /\ TypeOK' /\ LockStep(s) /\ call[s].pc = "alloc_rate"
      /\ Payments /\ Books /\ call[s].id \in Deposits
  BY ReadyFacts DEF AllocRate, At, AnonymousPcs
<1>2. PICK d \in Deposits : d = call[s].id
  BY <1>1
<1>3. /\ UNCHANGED <<sub, funded, alice, issued, pool_claims, locks>>
      /\ faults' \in {faults, faults - 1} /\ Return(s)
  BY FaultCounts DEF AllocRate, ledgerVars, serviceVars
<1>4. "alloc_rate" \notin DrawnPcs /\ "alloc_rate" \notin NeutralPcs
  BY BooksPcFacts
<1>5. CASE UNCHANGED <<deposits, quote>>
  <2>1. Idles(s)
    BY <1>1, <1>3, <1>4, <1>5, ReturnIdles DEF At, Steady
  <2> QED
    BY <2>1, IdlesKeeps, ReadyFacts
<1>6. ASSUME NEW r \in Rates,
             quote' = [quote EXCEPT ![d] = SpawnFeeEstimate(r)],
             deposits' = [deposits EXCEPT ![d] =
                            [NoDeposit EXCEPT !.state = "allocated"]]
      PROVE  Books'
  <2>1. Others(s) /\ call'[s] = Idle
    BY <1>1, <1>3, CallUpdated DEF Return
  <2>2. call'[s].pc = "idle" /\ call'[s].id = None
    BY <2>1 DEF Idle
  <2>3. \A e \in Deposits \ {d} : Kept(e) /\ (e \in locks <=> e \in locks')
    BY <1>1, <1>3, <1>6 DEF Kept
  <2>4. /\ deposits'[d].state = "allocated" /\ deposits'[d].amount = 0
        /\ quote'[d] = SpawnFeeEstimate(r)
    BY <1>1, <1>6 DEF TypeOK, DepositsType, ClientType, NoDeposit
  <2>5. quote[d] = 0 /\ d \in issued
    BY <1>1, <1>2, DepositFacts, ReadyFacts DEF CallTrue, InFlight
  <2>6. d \notin funded /\ sub[d] = 0
    BY <1>1, <2>5 DEF Books, QuoteTrue
  <2>7. QuoteTrue(d)'
    BY <1>3, <2>4, <2>5, <2>6 DEF QuoteTrue
  <2>8. CallTrue(s)' /\ CalmCall(s)'
    BY <2>2, QuietPcFacts, QuietCall
  <2>9. CalmDeposit(d)'
    BY <1>3, <2>4, <2>6 DEF CalmDeposit
  <2>10. ASSUME Calm
         PROVE  ClaimsCover'
    <3>1. ClaimsCover
      BY <1>1, <2>10 DEF Books
    <3>2. ~Owes(d)'
      <4>1. \A t \in Slots \ {s} : ~Charges(t, d)'
        BY <1>1, <1>2, <1>4, <2>1, SoleCharge
      <4>2. ~Charges(s, d)'
        BY <2>2, DepositFacts DEF Charges
      <4> QED
        BY <2>4, <4>1, <4>2 DEF Owes, Drawn
    <3>3. pool_claims' >= pool_claims
      BY <1>1, <1>3 DEF TypeOK, ServiceType
    <3>4. ~Gone(d)
      BY <1>1, <1>2 DEF Gone, At
    <3> QED
      BY <1>1, <1>2, <2>1, <2>2, <2>3, <3>1, <3>2, <3>3, <3>4, ClaimsKept,
         ReadyFacts
  <2> QED
    BY <1>1, <1>2, <1>3, <1>4, <2>1, <2>3, <2>7, <2>8, <2>9, <2>10,
       ActiveBooks, ReadyFacts DEF At
<1> QED
  BY <1>2, <1>5, <1>6 DEF AllocRate

LEMMA PrepareConvertBooks ==
  ASSUME NEW s \in Slots, Ready(s), PrepareConvert(s)
  PROVE  Books'
<1>1. /\ TypeOK /\ TypeOK' /\ LockStep(s) /\ call[s].pc = "prepare_convert"
      /\ Payments /\ Books /\ call[s].id \in Deposits
  BY ReadyFacts DEF PrepareConvert, At, AnonymousPcs
<1>2. PICK d \in Deposits : d = call[s].id
  BY <1>1
<1>3. /\ UNCHANGED <<deposits, quote, funded, alice, issued, pool_claims>>
      /\ faults' \in {faults, faults - 1}
  BY FaultCounts DEF PrepareConvert, clientVars, quoteVars, serviceVars
<1>4. /\ "prepare_convert" \notin DrawnPcs /\ "prepare_convert" \in EarlyPcs
      /\ "prepare_convert" \notin NeutralPcs /\ "prepare_convert" \in PreparePcs
  BY BooksPcFacts, PhaseFacts
<1>5. CASE Return(s) /\ UNCHANGED sub
  <2>1. Idles(s)
    BY <1>1, <1>3, <1>4, <1>5, ReturnIdles DEF At, Steady
  <2> QED
    BY <2>1, IdlesKeeps, ReadyFacts
<1>6. CASE /\ Covers(sub[d], call[s].amt)
           /\ sub' = [sub EXCEPT ![d] = After(@, call[s].amt)]
           /\ Goto(s, "prepare_notify") /\ UNCHANGED locks
  <2> DEFINE c == [call[s] EXCEPT !.pc = "prepare_notify"]
  <2>1. call' = [call EXCEPT ![s] = c]
    BY <1>6 DEF Goto
  <2>2. c.pc = "prepare_notify" /\ c.id = d /\ c.amt = call[s].amt
    BY <1>1, <1>2, CallFacts DEF CallRecords
  <2> HIDE DEF c
  <2>3. Others(s) /\ call'[s] = c
    BY <1>1, <2>1, CallUpdated
  <2>4. \A e \in Deposits \ {d} : Kept(e) /\ (e \in locks <=> e \in locks')
    BY <1>1, <1>3, <1>6 DEF Kept
  <2>5. /\ sub[d] \in Nat /\ call[s].amt \in Nat /\ LEDGER_FEE \in Nat
        /\ sub[d] >= call[s].amt + LEDGER_FEE
        /\ sub'[d] = sub[d] - (call[s].amt + LEDGER_FEE)
    BY <1>1, <1>6, WholeNat, CallFacts, ParameterFacts
       DEF TypeOK, LedgerType, Covers, After
  <2>6. deposits[d].state = "allocated" /\ d \in issued
    BY <1>1, <1>2, <1>4, DepositFacts, ReadyFacts DEF InFlight, Fits
  <2>7. QuoteTrue(d)'
    <3>1. QuoteTrue(d)
      BY <1>1 DEF Books
    <3>2. sub[d] = 0 => sub'[d] = 0
      BY <2>5
    <3> QED
      BY <1>3, <3>1, <3>2 DEF QuoteTrue
  <2>8. CallTrue(s)'
    BY <2>2, <2>3, BooksPcFacts, EarlyCall
  <2>9. ASSUME Calm
        PROVE  CalmDeposit(d)' /\ CalmCall(s)' /\ ClaimsCover'
    <3>1. /\ d \in funded /\ call[s].amt \in Conversions(d)
          /\ sub[d] = Whole(d) /\ ClaimsCover
      BY <1>1, <1>2, <1>4, <2>9 DEF Books, CalmCall
    <3>2. /\ Whole(d)' = Whole(d) /\ Conversions(d)' = Conversions(d)
      BY <1>3 DEF Whole, Conversions
    <3>3. sub'[d] + call[s].amt + LEDGER_FEE = Whole(d)
      BY <2>5, <3>1
    <3>4. CalmCall(s)'
      <4>1. "prepare_notify" \notin EarlyPcs
            /\ "prepare_notify" \notin {"prepare_rate", "prepare_convert",
                                        "seal_compute"}
        BY DEF EarlyPcs
      <4> QED
        BY <1>3, <2>2, <2>3, <3>1, <3>2, <3>3, <4>1 DEF CalmCall
    <3>5. CalmDeposit(d)'
      <4>1. d \in locks
        <5>1. Holds(s) /\ LockDiscipline
          BY <1>1, HoldsLock, LockedPcFacts
             DEF Payments, Exclusive, AnonymousPcs
        <5> QED
          BY <1>2, <5>1, DisciplineFacts
      <4> QED
        BY <1>3, <1>6, <2>6, <4>1 DEF CalmDeposit
    <3>6. ~Owes(d)'
      <4>1. \A t \in Slots \ {s} : ~Charges(t, d)'
        BY <1>1, <1>2, <1>4, <2>3, SoleCharge
      <4>2. ~Charges(s, d)'
        BY <2>2, <2>3 DEF Charges, At, FinalizePcs
      <4> QED
        BY <1>3, <2>6, <4>1, <4>2 DEF Owes, Drawn
    <3>7. pool_claims' >= pool_claims
      BY <1>1, <1>3 DEF TypeOK, ServiceType
    <3>8. ~Gone(d)
      BY <2>6 DEF Gone
    <3>9. ClaimsCover'
      BY <1>1, <1>2, <2>2, <2>3, <2>4, <3>1, <3>6, <3>7, <3>8, ClaimsKept,
         ReadyFacts
    <3> QED
      BY <3>4, <3>5, <3>9
  <2> QED
    BY <1>1, <1>2, <1>3, <1>4, <2>3, <2>4, <2>6, <2>7, <2>8, <2>9,
       ActiveBooks, ReadyFacts
<1> QED
  BY <1>2, <1>5, <1>6 DEF PrepareConvert, ReturnUnlocked

LEMMA PrepareTopUpsBooks ==
  ASSUME NEW s \in Slots, Ready(s), PrepareTopUps(s)
  PROVE  Books'
<1>1. /\ TypeOK /\ TypeOK' /\ LockStep(s) /\ call[s].pc = "prepare_topups"
      /\ Payments /\ Books /\ call[s].id \in Deposits
  BY ReadyFacts DEF PrepareTopUps, At, AnonymousPcs
<1>2. PICK d \in Deposits : d = call[s].id
  BY <1>1
<1>3. /\ UNCHANGED <<sub, quote, funded, alice, issued, pool_claims>>
      /\ faults' = faults /\ Return(s) /\ locks' = locks \ {d}
      /\ deposits' = [deposits EXCEPT ![d] =
                       [NoDeposit EXCEPT !.state = "created",
                                         !.spawn_fee = call[s].amt + LEDGER_FEE]]
  BY <1>2 DEF PrepareTopUps, ReturnUnlocked, clientVars, quoteVars, serviceVars,
              ledgerVars
<1>4. /\ "prepare_topups" \in DrawnPcs /\ "prepare_topups" \in PreparePcs
      /\ "prepare_topups" \notin NeutralPcs
  BY BooksPcFacts, PhaseFacts
<1>5. Others(s) /\ call'[s].pc = "idle" /\ call'[s].id = None
  <2>1. Others(s) /\ call'[s] = Idle
    BY <1>1, <1>3, CallUpdated DEF Return
  <2> QED
    BY <2>1 DEF Idle
<1>6. /\ deposits'[d].state = "created" /\ deposits'[d].amount = 0
      /\ deposits'[d].spawn_fee = call[s].amt + LEDGER_FEE
  BY <1>1, <1>3 DEF TypeOK, DepositsType, NoDeposit
<1>7. \A e \in Deposits \ {d} : Kept(e) /\ (e \in locks <=> e \in locks')
  BY <1>1, <1>3 DEF Kept
<1>8. deposits[d].state = "allocated"
  BY <1>1, <1>2, <1>4, ReadyFacts DEF InFlight, Fits
<1>9. QuoteTrue(d)'
  BY <1>1, <1>3, <1>6 DEF Books, QuoteTrue
<1>10. CallTrue(s)' /\ CalmCall(s)'
  BY <1>5, QuietPcFacts, QuietCall
<1>11. ASSUME Calm
       PROVE  CalmDeposit(d)' /\ ClaimsCover'
  <2>1. /\ d \in funded /\ call[s].amt \in Conversions(d)
        /\ sub[d] + call[s].amt + LEDGER_FEE = Whole(d) /\ ClaimsCover
    BY <1>1, <1>2, <1>4, <1>11 DEF Books, CalmCall
  <2>2. /\ Whole(d)' = Whole(d) /\ Conversions(d)' = Conversions(d)
    BY <1>3 DEF Whole, Conversions
  <2>3. CalmDeposit(d)'
    BY <1>3, <1>6, <2>1, <2>2 DEF CalmDeposit
  <2>4. ~Owes(d)'
    <3>1. \A t \in Slots \ {s} : ~Charges(t, d)'
      BY <1>1, <1>2, <1>4, <1>5, SoleCharge
    <3>2. ~Charges(s, d)'
      BY <1>5, DepositFacts DEF Charges
    <3>3. Intact(d)'
      <4>1. sub[d] \in Nat /\ call[s].amt \in Nat /\ LEDGER_FEE \in Nat
        BY <1>1, WholeNat, CallFacts, ParameterFacts
      <4>2. sub'[d] + deposits'[d].spawn_fee = Whole(d)
        BY <1>3, <1>6, <2>1, <4>1
      <4> QED
        BY <1>3, <2>1, <2>2, <4>2 DEF Intact
    <3> QED
      BY <1>6, <3>1, <3>2, <3>3 DEF Owes, Drawn
  <2>5. pool_claims' >= pool_claims
    BY <1>1, <1>3 DEF TypeOK, ServiceType
  <2>6. ~Gone(d)
    BY <1>8 DEF Gone
  <2>7. ClaimsCover'
    BY <1>1, <1>2, <1>5, <1>7, <2>1, <2>4, <2>5, <2>6, ClaimsKept, ReadyFacts
  <2> QED
    BY <2>3, <2>7
<1> QED
  BY <1>1, <1>2, <1>3, <1>4, <1>5, <1>7, <1>8, <1>9, <1>10, <1>11,
     ActiveBooks, ReadyFacts

-----------------------------------------------------------------------------
(* seal_push, where it records the claim and moves the deposit *)

\* An account that covers what it pays; an empty one can only pay nothing.
LEMMA PaidOut ==
  ASSUME TypeOK, NEW d \in Deposits, NEW amount \in Nat,
         \/ UNCHANGED sub
         \/ /\ Covers(sub[d], amount)
            /\ sub' = [sub EXCEPT ![d] = After(@, amount)]
  PROVE  /\ \A e \in Deposits \ {d} : sub'[e] = sub[e]
         /\ sub[d] = 0 => sub'[d] = 0
         /\ sub'[d] # sub[d] => sub'[d] = sub[d] - (amount + LEDGER_FEE)
<1>1. sub[d] \in Nat /\ LEDGER_FEE \in Nat
  BY WholeNat, ParameterFacts
<1>2. CASE UNCHANGED sub
  BY <1>2
<1>3. CASE /\ Covers(sub[d], amount)
           /\ sub' = [sub EXCEPT ![d] = After(@, amount)]
  <2>1. /\ sub'[d] = sub[d] - (amount + LEDGER_FEE)
        /\ sub[d] >= amount + LEDGER_FEE
    BY <1>3 DEF TypeOK, LedgerType, Covers, After
  <2>2. \A e \in Deposits \ {d} : sub'[e] = sub[e]
    BY <1>3 DEF TypeOK, LedgerType
  <2> QED
    BY <1>1, <2>1, <2>2
<1> QED
  BY <1>2, <1>3

\* The claim a seal computes covers the deposit, or the deposit was drawn on
\* by an earlier seal, which has recorded its claim.
LEMMA ClaimIsEnough ==
  ASSUME ClaimsSuffice, TypeOK, NEW d \in Deposits, Intact(d), QuoteTrue(d),
         NEW r \in Rates
  PROVE  SealSplit(sub[d], deposits[d].spawn_fee, r, Pct[d]).claim >= Covered[d]
<1>1. d \in funded /\ sub[d] + deposits[d].spawn_fee = Whole(d)
  BY DEF Intact
<1>2. quote[d] > 0
  BY <1>1 DEF QuoteTrue
<1>3. PICK r1 \in Rates : quote[d] = SpawnFeeEstimate(r1)
  BY <1>2, WholeNat DEF QuoteTrue
<1> DEFINE whole == RouterDeposit(Amount[d], SpawnFeeEstimate(r1))
<1>4. whole = Whole(d)
  BY <1>3 DEF Whole
<1>5. /\ sub[d] \in Nat /\ deposits[d].spawn_fee \in Nat /\ Whole(d) \in Nat
  BY WholeNat
<1>6. /\ \A balance \in 0..whole :
           SealSplit(balance, whole - balance, r, Pct[d]).claim >= Covered[d]
  BY DEF ClaimsSuffice
<1> HIDE DEF whole
<1>7. sub[d] \in 0..whole /\ whole - sub[d] = deposits[d].spawn_fee
  BY <1>1, <1>4, <1>5
<1> QED
  BY <1>6, <1>7

LEMMA SealComputeBooks ==
  ASSUME ClaimsSuffice, NEW s \in Slots, Ready(s), SealCompute(s)
  PROVE  Books'
<1>1. /\ TypeOK /\ TypeOK' /\ LockStep(s) /\ call[s].pc = "seal_compute"
      /\ Payments /\ Books /\ call[s].id \in Deposits
  BY ReadyFacts DEF SealCompute, At, AnonymousPcs
<1>2. PICK d \in Deposits : d = call[s].id
  BY <1>1
<1> DEFINE split == SealSplit(call[s].bal, call[s].spawn_fee, call[s].rate,
                              Pct[d])
           claim == split.claim
           share == split.fee_buffer
           residue == Residue(split.to_cycles, call[s].spawn_fee)
           parts == Decompose(Byte[d])[claim]
           c == [call[s] EXCEPT !.pc = "seal_transfer", !.bal = 0,
                                !.amt = residue, !.rest = parts]
<1>3. claim \in Nat /\ share \in Nat
  BY <1>1, SplitFacts
<1>4. /\ UNCHANGED <<deposits, quote, funded, alice, issued>>
      /\ faults' \in {faults, faults - 1}
  BY FaultCounts DEF SealCompute, clientVars, quoteVars, serviceVars
<1>5. /\ pool_claims' = pool_claims + claim
      /\ \/ UNCHANGED sub
         \/ /\ Covers(sub[d], share)
            /\ sub' = [sub EXCEPT ![d] = After(@, share)]
      /\ \/ call' = [call EXCEPT ![s] = c]
         \/ Return(s) /\ UNCHANGED sub
      /\ locks' = locks \/ locks' = locks \ {d}
  BY <1>2 DEF SealCompute, ReturnUnlocked
<1> HIDE DEF split, residue, parts
<1>6. /\ "seal_compute" \in SealPcs /\ "seal_compute" \notin NeutralPcs
      /\ "seal_transfer" \in SealPcs /\ "seal_transfer" \notin PastPcs
      /\ "seal_transfer" \notin {"seal_rate", "seal_compute", "alloc_rate"}
  BY BooksPcFacts, PhaseFacts, PhasesApart
<1>7. /\ c.pc = "seal_transfer" /\ c.id = d /\ c.spawn_fee = call[s].spawn_fee
  BY <1>1, <1>2, CallFacts DEF CallRecords
<1>8. /\ Others(s)
      /\ \/ call'[s] = c
         \/ call'[s] = Idle /\ UNCHANGED sub
  BY <1>1, <1>5, CallUpdated DEF Return
<1> HIDE DEF c, share, claim
<1>9. /\ deposits[d].state = "created" /\ alice[d] = 0 /\ d \in issued
      /\ call[s].spawn_fee = deposits[d].spawn_fee
  BY <1>1, <1>2, <1>6, DepositFacts, ReadyFacts DEF InFlight, Fits, CallTrue
<1>10. \A e \in Deposits \ {d} : Kept(e) /\ (e \in locks <=> e \in locks')
  <2>1. \A e \in Deposits \ {d} : sub'[e] = sub[e]
    BY <1>1, <1>3, <1>5, PaidOut
  <2> QED
    BY <1>4, <1>5, <2>1 DEF Kept
<1>11. QuoteTrue(d)'
  <2>1. QuoteTrue(d)
    BY <1>1 DEF Books
  <2>2. sub[d] = 0 => sub'[d] = 0
    BY <1>1, <1>3, <1>5, PaidOut
  <2> QED
    BY <1>4, <2>1, <2>2 DEF QuoteTrue
<1>12. CallTrue(s)' /\ CalmCall(s)'
  <2>1. CASE call'[s] = c
    <3>1. CallTrue(s)'
      BY <1>4, <1>6, <1>7, <1>9, <2>1 DEF CallTrue
    <3> QED
      BY <1>6, <1>7, <2>1, <3>1, SealCalm
  <2>2. CASE call'[s] = Idle
    <3>1. call'[s].pc = "idle"
      BY <2>2 DEF Idle
    <3> QED
      BY <3>1, QuietPcFacts, QuietCall
  <2> QED
    BY <1>8, <2>1, <2>2
<1>13. call'[s].id \in {d, None}
  BY <1>7, <1>8 DEF Idle
<1>14. ASSUME Calm
       PROVE  CalmDeposit(d)' /\ ClaimsCover'
  <2>1. CalmDeposit(d) /\ CalmCall(s) /\ ClaimsCover /\ QuoteTrue(d)
    BY <1>1, <1>14 DEF Books
  <2>2. CalmDeposit(d)'
    BY <1>4, <1>9, <2>1 DEF CalmDeposit, Whole, Conversions
  <2>3. Owed' \subseteq Owed \cup {d}
    <3>1. \A e \in Deposits \ {d} : Owes(e)' => Owes(e)
      BY <1>1, <1>2, <1>8, <1>10, <1>13, OwesElsewhere
    <3> QED
      BY <3>1 DEF Owed
  <2>4. pool_claims \in Nat
    BY <1>1 DEF TypeOK, ServiceType
  <2>5. ~Gone(d)
    BY <1>9 DEF Gone
  <2>6. \A e \in Deposits : Gone(e) => Gone(e)'
    BY <1>8, <1>10, <1>13, <2>5, GoneElsewhere
  <2>7. CASE Intact(d)
    <3>1. call[s].rate \in Rates /\ call[s].bal = sub[d]
      BY <1>1, <1>2, <2>1 DEF CalmCall
    <3>2. claim >= Covered[d]
      BY <1>1, <1>9, <2>1, <2>7, <3>1, ClaimIsEnough DEF claim, split
    <3>3. pool_claims' >= pool_claims + Covered[d]
      BY <1>3, <1>5, <2>4, <3>2, AmountParts
    <3> QED
      BY <1>1, <2>1, <2>2, <2>3, <2>5, <2>6, <3>3, OwedGrows, ReadyFacts
  <2>8. CASE ~Intact(d)
    <3>1. d \in Owed
      BY <1>9, <2>8 DEF Owed, Owes, Drawn
    <3>2. Owed' \subseteq Owed
      BY <2>3, <3>1
    <3>3. pool_claims' >= pool_claims
      BY <1>3, <1>5, <2>4
    <3> QED
      BY <1>1, <2>1, <2>2, <2>6, <3>2, <3>3, OwedShrinks, ReadyFacts
  <2> QED
    BY <2>7, <2>8
<1> QED
  BY <1>1, <1>2, <1>4, <1>6, <1>8, <1>9, <1>10, <1>11, <1>12, <1>14,
     ActiveBooks, ReadyFacts

\* A transfer out of the deposit's account by the seal that has recorded its
\* claim, or the end of that seal.
LEMMA SealPaysBooks ==
  ASSUME NEW s \in Slots, Ready(s), NEW d \in Deposits, d = call[s].id,
         At(s, "seal_transfer"), Others(s), NEW amount \in Nat,
         UNCHANGED <<deposits, quote, funded, alice, issued, pool_claims>>,
         faults' \in {faults, faults - 1},
         \/ UNCHANGED sub
         \/ /\ Covers(sub[d], amount)
            /\ sub' = [sub EXCEPT ![d] = After(@, amount)],
         locks' = locks \/ locks' = locks \ {d},
         \/ call'[s] = Idle
         \/ /\ call'[s].pc = "seal_transfer" /\ call'[s].id = d
            /\ call'[s].spawn_fee = call[s].spawn_fee
  PROVE  Books'
<1>1. TypeOK /\ TypeOK' /\ Payments /\ Books
  BY ReadyFacts
<1>2. /\ "seal_transfer" \in SealPcs /\ "seal_transfer" \notin NeutralPcs
      /\ "seal_transfer" \notin PastPcs
      /\ "seal_transfer" \notin {"seal_rate", "seal_compute", "alloc_rate"}
  BY BooksPcFacts, PhaseFacts
<1>3. /\ deposits[d].state = "created"
      /\ call[s].spawn_fee = deposits[d].spawn_fee
  BY <1>2, ReadyFacts DEF InFlight, Fits, CallTrue, At
<1>4. \A e \in Deposits \ {d} : Kept(e) /\ (e \in locks <=> e \in locks')
  <2>1. \A e \in Deposits \ {d} : sub'[e] = sub[e]
    BY <1>1, PaidOut
  <2> QED
    BY <2>1 DEF Kept
<1>5. QuoteTrue(d)'
  <2>1. QuoteTrue(d)
    BY <1>1 DEF Books
  <2>2. sub[d] = 0 => sub'[d] = 0
    BY <1>1, PaidOut
  <2> QED
    BY <2>1, <2>2 DEF QuoteTrue
<1>6. CallTrue(s)' /\ CalmCall(s)'
  <2>1. CASE /\ call'[s].pc = "seal_transfer" /\ call'[s].id = d
             /\ call'[s].spawn_fee = call[s].spawn_fee
    <3>1. CallTrue(s)'
      BY <1>2, <1>3, <2>1 DEF CallTrue
    <3> QED
      BY <1>2, <2>1, <3>1, SealCalm
  <2>2. CASE call'[s] = Idle
    <3>1. call'[s].pc = "idle"
      BY <2>2 DEF Idle
    <3> QED
      BY <3>1, QuietPcFacts, QuietCall
  <2> QED
    BY <2>1, <2>2
<1>7. ASSUME Calm
      PROVE  CalmDeposit(d)' /\ ClaimsCover'
  <2>1. CalmDeposit(d) /\ ClaimsCover
    BY <1>1, <1>7 DEF Books
  <2>2. CalmDeposit(d)'
    BY <1>3, <2>1 DEF CalmDeposit, Whole, Conversions
  <2>3. Owes(d)
    BY DEF Owes, Charges
  <2>4. pool_claims' >= pool_claims
    BY <1>1 DEF TypeOK, ServiceType
  <2>5. call[s].id \in {d, None} /\ call'[s].id \in {d, None}
    BY DEF Idle
  <2>6. ~Gone(d)
    BY <1>3 DEF Gone
  <2>7. ClaimsCover'
    BY <1>1, <1>4, <2>1, <2>3, <2>4, <2>5, <2>6, ClaimsKept, ReadyFacts
  <2> QED
    BY <2>2, <2>7
<1> QED
  BY <1>1, <1>2, <1>3, <1>4, <1>5, <1>6, <1>7, ActiveBooks, ReadyFacts DEF At

LEMMA SealTransferBooks ==
  ASSUME NEW s \in Slots, Ready(s), SealTransfer(s)
  PROVE  Books'
<1>1. /\ TypeOK /\ call[s].pc = "seal_transfer" /\ call[s].id \in Deposits
  BY ReadyFacts DEF SealTransfer, At, AnonymousPcs
<1>2. PICK d \in Deposits : d = call[s].id
  BY <1>1
<1>3. call[s].rest \in Seq(Nat) /\ call[s].rest # <<>>
  BY <1>1, CallFacts DEF SealTransfer
<1> DEFINE part == Head(call[s].rest)
           rest == Tail(call[s].rest)
           c == [call[s] EXCEPT !.rest = rest]
<1>4. part \in Nat
  BY <1>3
<1>5. /\ UNCHANGED <<deposits, quote, funded, alice, issued, pool_claims>>
      /\ faults' \in {faults, faults - 1}
  BY FaultCounts DEF SealTransfer, clientVars, quoteVars, serviceVars
<1>6. /\ \/ UNCHANGED sub
         \/ /\ Covers(sub[d], part)
            /\ sub' = [sub EXCEPT ![d] = After(@, part)]
      /\ locks' = locks \/ locks' = locks \ {d}
      /\ call' = [call EXCEPT ![s] = c] \/ Return(s)
  BY <1>2 DEF SealTransfer, ReturnUnlocked
<1> HIDE DEF part, rest
<1>7. /\ c.pc = "seal_transfer" /\ c.id = d
      /\ c.spawn_fee = call[s].spawn_fee
  BY <1>1, <1>2, CallFacts DEF CallRecords
<1> HIDE DEF c
<1>8. Others(s) /\ (call'[s] = c \/ call'[s] = Idle)
  BY <1>1, <1>6, CallUpdated DEF Return
<1> QED
  BY <1>1, <1>2, <1>4, <1>5, <1>6, <1>7, <1>8, SealPaysBooks DEF At

LEMMA SealConvertBooks ==
  ASSUME NEW s \in Slots, Ready(s), SealConvert(s)
  PROVE  Books'
<1>1. /\ TypeOK /\ call[s].pc = "seal_transfer" /\ call[s].id \in Deposits
  BY ReadyFacts DEF SealConvert, At, AnonymousPcs
<1>2. PICK d \in Deposits : d = call[s].id
  BY <1>1
<1>3. PICK amt \in Nat : amt = call[s].amt
  BY <1>1, CallFacts
<1> DEFINE c == [call[s] EXCEPT !.amt = 0]
<1>4. /\ UNCHANGED <<deposits, quote, funded, alice, issued, pool_claims>>
      /\ faults' \in {faults, faults - 1}
  BY FaultCounts
     DEF SealConvert, clientVars, quoteVars, serviceVars, routerVars
<1>5. /\ \/ UNCHANGED sub
         \/ /\ Covers(sub[d], amt)
            /\ sub' = [sub EXCEPT ![d] = After(@, amt)]
      /\ locks' = locks
      /\ call' = [call EXCEPT ![s] = c]
  BY <1>2, <1>3 DEF SealConvert, routerVars
<1>6. /\ c.pc = "seal_transfer" /\ c.id = d
      /\ c.spawn_fee = call[s].spawn_fee
  BY <1>1, <1>2, CallFacts DEF CallRecords
<1> HIDE DEF c
<1>7. Others(s) /\ call'[s] = c
  BY <1>1, <1>5, CallUpdated
<1> QED
  BY <1>1, <1>2, <1>4, <1>5, <1>6, <1>7, SealPaysBooks DEF At

LEMMA SealCommitBooks ==
  ASSUME NEW s \in Slots, Ready(s), SealCommit(s)
  PROVE  Books'
<1>1. /\ TypeOK /\ TypeOK' /\ Payments /\ Books
      /\ call[s].pc = "seal_transfer" /\ call[s].id \in Deposits
  BY ReadyFacts DEF SealCommit, At, AnonymousPcs
<1>2. PICK d \in Deposits : d = call[s].id
  BY <1>1
<1> DEFINE pc == IF seal_count' = 0 /\ call[s].rate > 0
                 THEN "recycle_read" ELSE "leftover"
           c == [call[s] EXCEPT !.pc = pc, !.spawn_fee = 0]
<1>3. /\ UNCHANGED <<sub, quote, funded, alice, issued, pool_claims, locks>>
      /\ faults' = faults
      /\ deposits' = [deposits EXCEPT ![d] =
                        [NoDeposit EXCEPT !.state = "sealed",
                                          !.spawn_fee = call[s].spawn_fee]]
      /\ call' = [call EXCEPT ![s] = c]
  BY <1>2 DEF SealCommit, ledgerVars, clientVars, quoteVars
<1>4. pc \in PastPcs
  BY PastFacts
<1> HIDE DEF pc
<1>5. c.pc = pc /\ c.id = d
  BY <1>1, <1>2, CallFacts DEF CallRecords
<1> HIDE DEF c
<1>6. Others(s) /\ call'[s] = c
  BY <1>1, <1>3, CallUpdated
<1>7. deposits'[d].state = "sealed" /\ deposits'[d].amount = 0
  BY <1>1, <1>3 DEF TypeOK, DepositsType, NoDeposit
<1>8. \A e \in Deposits \ {d} : Kept(e) /\ (e \in locks <=> e \in locks')
  BY <1>1, <1>3 DEF Kept
<1>9. QuoteTrue(d)'
  BY <1>1, <1>3, <1>7 DEF Books, QuoteTrue
<1>10. CallTrue(s)' /\ CalmCall(s)'
  BY <1>4, <1>5, <1>6, <1>7, BooksPcFacts, PastCall
<1>11. ASSUME Calm
       PROVE  CalmDeposit(d)' /\ ClaimsCover'
  <2>1. ClaimsCover
    BY <1>1, <1>11 DEF Books
  <2>2. CalmDeposit(d)'
    BY <1>7 DEF CalmDeposit
  <2>3. Owes(d)
    BY <1>1, <1>2 DEF Owes, Charges, At
  <2>4. pool_claims' >= pool_claims
    BY <1>1, <1>3 DEF TypeOK, ServiceType
  <2>5. ~Gone(d)
    <3>1. call[s].pc \in SealPcs
      BY <1>1 DEF SealPcs
    <3>2. deposits[d].state = "created"
      BY <1>2, <3>1, ReadyFacts DEF InFlight, Fits
    <3> QED
      BY <3>2 DEF Gone
  <2>6. ClaimsCover'
    BY <1>1, <1>2, <1>5, <1>6, <1>8, <2>1, <2>3, <2>4, <2>5, ClaimsKept,
       ReadyFacts
  <2> QED
    BY <2>2, <2>6
<1>12. "seal_transfer" \notin NeutralPcs
  BY BooksPcFacts
<1> QED
  BY <1>1, <1>2, <1>3, <1>6, <1>7, <1>8, <1>9, <1>10, <1>11, <1>12,
     ActiveBooks, ReadyFacts

-----------------------------------------------------------------------------
(* The treasury's leftover, finalize and reclaim *)

\* Emptying the account of a deposit that is past its seal or its refund: the
\* calls that know of an account have a deposit that is not.
LEMMA LeftoverBooks ==
  ASSUME NEW s \in Slots, Ready(s), SealLeftover(s) \/ ReclaimLeftover(s)
  PROVE  Books'
<1>1. /\ TypeOK /\ TypeOK' /\ Payments /\ Books
      /\ call[s].pc \in {"leftover", "reclaim_leftover"}
      /\ call[s].id \in Deposits
  BY ReadyFacts DEF SealLeftover, ReclaimLeftover, At, AnonymousPcs
<1>2. PICK d \in Deposits : d = call[s].id
  BY <1>1
<1>3. /\ UNCHANGED <<deposits, quote, funded, alice, issued, pool_claims, locks>>
      /\ faults' \in {faults, faults - 1}
      /\ UNCHANGED sub \/ sub' = [sub EXCEPT ![d] = 0]
      /\ Goto(s, "sweep_read") \/ Return(s)
  BY <1>2, FaultCounts
     DEF SealLeftover, ReclaimLeftover, SweepLeftover, clientVars, quoteVars,
         serviceVars, routerVars
<1>4. /\ Others(s) /\ call'[s].id \in {d, None}
      /\ call'[s].pc = "idle" \/ (call'[s].pc = "sweep_read" /\ call'[s].id = d)
  <2>1. CASE Goto(s, "sweep_read")
    BY <1>1, <1>2, <2>1, GotoUpdates
  <2>2. CASE Return(s)
    <3>1. Others(s) /\ call'[s] = Idle
      BY <1>1, <2>2, CallUpdated DEF Return
    <3> QED
      BY <3>1 DEF Idle
  <2> QED
    BY <1>3, <2>1, <2>2
<1>5. deposits[d].state \notin {"allocated", "created"}
  <2>1. call[s].pc \in PastPcs /\ CallTrue(s)
    BY <1>1, PastFacts, ReadyFacts
  <2> QED
    BY <1>2, <2>1, DepositFacts DEF CallTrue
<1>6. \A e \in Deposits \ {d} : Kept(e) /\ (e \in locks <=> e \in locks')
  <2>1. \A e \in Deposits \ {d} : sub'[e] = sub[e]
    BY <1>1, <1>3 DEF TypeOK, LedgerType
  <2> QED
    BY <1>3, <2>1 DEF Kept
<1>7. sub'[d] = sub[d] \/ sub'[d] = 0
  BY <1>1, <1>3 DEF TypeOK, LedgerType
<1>8. \A e \in Deposits : QuoteTrue(e)'
  <2>1. QuoteTrue(d)'
    BY <1>1, <1>3, <1>7 DEF Books, QuoteTrue
  <2> QED
    BY <1>1, <1>6, <2>1, KeptQuote DEF Books
<1>9. CallTrue(s)' /\ CalmCall(s)'
  <2>1. CASE call'[s].pc = "idle"
    BY <2>1, QuietPcFacts, QuietCall
  <2>2. CASE call'[s].pc = "sweep_read" /\ call'[s].id = d
    BY <1>3, <1>5, <2>2, PastFacts, BooksPcFacts, PastCall
  <2> QED
    BY <1>4, <2>1, <2>2
<1>10. ASSUME NEW t \in Slots \ {s}
       PROVE  CallTrue(t)' /\ (CalmCall(t) => CalmCall(t)')
  <2>1. CASE call[t].id = d
    <3>1. call'[t] = call[t] /\ CallTrue(t) /\ InFlight(t)
      BY <1>1, <1>4 DEF Others, Books, Payments, PaymentsMatchRecords
    <3>2. call[t].pc \notin SealPcs /\ call[t].pc \notin PreparePcs
      BY <1>5, <2>1, <3>1 DEF InFlight, Fits
    <3>3. /\ call[t].pc \notin EarlyPcs /\ call[t].pc \notin DrawnPcs
          /\ call[t].pc \notin {"seal_rate", "seal_compute", "prepare_rate",
                                "prepare_convert"}
      BY <3>2, BooksPcFacts, PhaseFacts
    <3>4. CallTrue(t)'
      BY <1>3, <3>1, <3>2, <3>3 DEF CallTrue
    <3>5. CalmCall(t)'
      BY <3>1, <3>3 DEF CalmCall
    <3> QED
      BY <3>4, <3>5
  <2>2. CASE call[t].id # d
    <3>1. call[t].id # None => call[t].id \in Deposits
      BY <1>1, CallFacts DEF CallRecords
    <3> QED
      BY <1>1, <1>4, <1>6, <2>2, <3>1, OthersTrue
  <2> QED
    BY <2>1, <2>2
<1>11. ASSUME Calm'
       PROVE  /\ \A e \in Deposits : CalmDeposit(e)'
              /\ \A t \in Slots : CalmCall(t)'
              /\ ClaimsCover'
  <2>1. /\ Calm /\ (\A e \in Deposits : CalmDeposit(e))
        /\ (\A t \in Slots : CalmCall(t)) /\ ClaimsCover
    BY <1>1, <1>3, <1>11, CalmBefore DEF Books
  <2>2. CalmDeposit(d)'
    BY <1>3, <1>5 DEF CalmDeposit
  <2>3. \A e \in Deposits : CalmDeposit(e)'
    BY <1>6, <2>1, <2>2, KeptDeposit
  <2>4. Owes(d)' => Owes(d)
    <3>1. ~Drawn(d)'
      BY <1>3, <1>5 DEF Drawn
    <3>2. \A t \in Slots : Charges(t, d)' => Charges(t, d)
      <4>1. ~Charges(s, d)'
        BY <1>4 DEF Charges, At, FinalizePcs
      <4> QED
        BY <1>4, <4>1 DEF Charges, At, Others
    <3> QED
      BY <1>3, <3>1, <3>2 DEF Owes
  <2>5. pool_claims' >= pool_claims
    BY <1>1, <1>3 DEF TypeOK, ServiceType
  <2>6. Gone(d) => Gone(d)'
    BY <1>3, <1>4, GoneStays
  <2>7. ClaimsCover'
    BY <1>1, <1>2, <1>4, <1>6, <2>1, <2>4, <2>5, <2>6, ClaimsKept, ReadyFacts
  <2> QED
    BY <1>9, <1>10, <2>1, <2>3, <2>7
<1>12. faults' <= MaxFaults
  BY <1>1, <1>3, RouterAssumption DEF Books, TypeOK, ClientType
<1> QED
  BY <1>8, <1>9, <1>10, <1>11, <1>12 DEF Books

LEMMA FinalizeCommitBooks ==
  ASSUME NEW s \in Slots, Ready(s), FinalizeCommit(s)
  PROVE  Books'
<1>1. /\ TypeOK /\ TypeOK' /\ Payments /\ Books
      /\ call[s].pc = "fin_commit" /\ call[s].id \in Deposits
  BY ReadyFacts DEF FinalizeCommit, At, AnonymousPcs
<1>2. PICK d \in Deposits : d = call[s].id
  BY <1>1
<1>3. /\ UNCHANGED <<sub, quote, funded, alice, issued>>
      /\ faults' = faults /\ Return(s) /\ locks' = locks \ {d}
      /\ pool_claims' = Monus(pool_claims, Amount[d])
      /\ deposits' = [deposits EXCEPT ![d] = NoDeposit]
  BY <1>2 DEF FinalizeCommit, ReturnUnlocked, serviceVars, ledgerVars,
              clientVars, quoteVars
<1>4. Others(s) /\ call'[s].pc = "idle" /\ call'[s].id = None
  <2>1. Others(s) /\ call'[s] = Idle
    BY <1>1, <1>3, CallUpdated DEF Return
  <2> QED
    BY <2>1 DEF Idle
<1>5. deposits'[d].state = "none" /\ deposits'[d].amount = 0
  BY <1>1, <1>3 DEF TypeOK, DepositsType, NoDeposit
<1>6. \A e \in Deposits \ {d} : Kept(e) /\ (e \in locks <=> e \in locks')
  BY <1>1, <1>3 DEF Kept
<1>7. QuoteTrue(d)'
  BY <1>1, <1>3, <1>5 DEF Books, QuoteTrue
<1>8. CallTrue(s)' /\ CalmCall(s)'
  BY <1>4, QuietPcFacts, QuietCall
<1>9. CalmDeposit(d)'
  BY <1>5 DEF CalmDeposit
<1>10. "fin_commit" \in FinalizePcs /\ "fin_commit" \notin NeutralPcs
  BY BooksPcFacts DEF FinalizePcs
<1>11. ASSUME Calm
       PROVE  ClaimsCover'
  <2>1. ClaimsCover
    BY <1>1, <1>11 DEF Books
  <2>2. d \in Owed
    BY <1>1, <1>2, <1>10 DEF Owed, Owes, Charges
  <2>3. ~Owes(d)'
    <3>1. \A t \in Slots \ {s} : ~Charges(t, d)'
      BY <1>1, <1>2, <1>4, <1>10, SoleCharge
    <3>2. ~Charges(s, d)'
      BY <1>4, DepositFacts DEF Charges
    <3> QED
      BY <1>5, <3>1, <3>2 DEF Owes, Drawn
  <2>4. \A e \in Deposits \ {d} : Owes(e)' => Owes(e)
    BY <1>1, <1>2, <1>4, <1>6, OwesElsewhere
  <2>5. Owed' \subseteq Owed \ {d}
    BY <2>3, <2>4 DEF Owed
  <2>6. Gone(d)'
    <3>1. d \in issued
      BY <1>2, DepositFacts, ReadyFacts DEF InFlight
    <3>2. ASSUME NEW t \in Slots, call'[t].pc = "alloc_rate"
          PROVE  call'[t].id # d
      <4>1. t # s /\ call'[t] = call[t]
        BY <1>4, <3>2 DEF Others
      <4>2. InFlight(t)
        BY <1>1 DEF Payments, PaymentsMatchRecords
      <4> QED
        BY <1>2, <3>2, <4>1, <4>2 DEF InFlight, At
    <3> QED
      BY <1>3, <1>5, <3>1, <3>2 DEF Gone, At
  <2>7. \A e \in Deposits : Gone(e) => Gone(e)'
    BY <1>1, <1>2, <1>4, <1>6, <2>6, GoneElsewhere
  <2> QED
    BY <1>1, <1>3, <2>1, <2>2, <2>5, <2>6, <2>7, OwedLess, ReadyFacts
<1> QED
  BY <1>1, <1>2, <1>3, <1>4, <1>5, <1>6, <1>7, <1>8, <1>9, <1>10, <1>11,
     ActiveBooks, ReadyFacts

LEMMA ReclaimTransferBooks ==
  ASSUME NEW s \in Slots, Ready(s), ReclaimTransfer(s)
  PROVE  Books'
<1>1. /\ TypeOK /\ TypeOK' /\ LockStep(s) /\ Payments /\ Books
      /\ call[s].pc = "reclaim_transfer" /\ call[s].id \in Deposits
  BY ReadyFacts DEF ReclaimTransfer, At, AnonymousPcs
<1>2. PICK d \in Deposits : d = call[s].id
  BY <1>1
<1> DEFINE refund == Monus(call[s].bal, LEDGER_FEE)
<1>3. refund \in Nat
  BY <1>1, CallFacts, ParameterFacts, MonusNat
<1>4. /\ UNCHANGED <<deposits, quote, funded, issued, pool_claims>>
      /\ faults' \in {faults, faults - 1}
  BY FaultCounts DEF ReclaimTransfer, clientVars, quoteVars, serviceVars
<1>5. \/ Return(s) /\ UNCHANGED <<sub, alice>>
      \/ /\ refund > 0 /\ Covers(sub[d], refund)
         /\ sub' = [sub EXCEPT ![d] = After(@, refund)]
         /\ alice' = [alice EXCEPT ![d] = @ + refund]
         /\ Goto(s, "reclaim_commit") /\ UNCHANGED locks
  BY <1>2 DEF ReclaimTransfer, ReturnUnlocked
<1> HIDE DEF refund
<1>6. /\ "reclaim_transfer" \notin DrawnPcs /\ "reclaim_transfer" \notin NeutralPcs
      /\ "reclaim_transfer" \in RefundPcs /\ "reclaim_commit" \in QuietPcs
  BY PhaseFacts, PhasesApart, BooksPcFacts, QuietPcFacts DEF DrawnPcs, ReclaimPcs
<1>7. CASE Return(s) /\ UNCHANGED <<sub, alice>>
  <2>1. Idles(s)
    BY <1>1, <1>4, <1>6, <1>7, ReturnIdles DEF At, Steady
  <2> QED
    BY <2>1, IdlesKeeps, ReadyFacts
<1>8. CASE /\ refund > 0 /\ Covers(sub[d], refund)
           /\ sub' = [sub EXCEPT ![d] = After(@, refund)]
           /\ alice' = [alice EXCEPT ![d] = @ + refund]
           /\ Goto(s, "reclaim_commit") /\ UNCHANGED locks
  <2>1. Others(s) /\ call'[s].pc = "reclaim_commit" /\ call'[s].id = d
    BY <1>1, <1>2, <1>8, GotoUpdates
  <2>2. /\ \A e \in Deposits \ {d} : sub'[e] = sub[e]
        /\ sub[d] = 0 => sub'[d] = 0
    BY <1>1, <1>3, <1>8, PaidOut
  <2>3. /\ \A e \in Deposits \ {d} : alice'[e] = alice[e]
        /\ alice'[d] = alice[d] + refund
    BY <1>1, <1>8 DEF TypeOK, LedgerType
  <2>4. alice'[d] # 0
    BY <1>1, <1>3, <1>8, <2>3, WholeNat
  <2>5. \A e \in Deposits \ {d} : Kept(e) /\ (e \in locks <=> e \in locks')
    BY <1>4, <1>8, <2>2, <2>3 DEF Kept
  <2>6. deposits[d].state = "created"
    BY <1>1, <1>2, <1>6, ReadyFacts DEF InFlight, Fits
  <2>7. QuoteTrue(d)'
    BY <1>1, <1>4, <2>2 DEF Books, QuoteTrue
  <2>8. CallTrue(s)' /\ CalmCall(s)'
    BY <1>6, <2>1, QuietCall
  <2>9. ASSUME Calm
        PROVE  CalmDeposit(d)' /\ ClaimsCover'
    <3>1. CalmDeposit(d) /\ ClaimsCover
      BY <1>1, <2>9 DEF Books
    <3>2. CalmDeposit(d)'
      BY <1>4, <2>6, <3>1 DEF CalmDeposit, Whole, Conversions
    <3>3. ~Owes(d)'
      <4>1. \A t \in Slots \ {s} : ~Charges(t, d)'
        BY <1>1, <1>2, <1>6, <2>1, SoleCharge
      <4>2. ~Charges(s, d)'
        BY <2>1 DEF Charges, At, FinalizePcs
      <4> QED
        BY <1>4, <2>4, <2>6, <4>1, <4>2 DEF Owes, Drawn
    <3>4. pool_claims' >= pool_claims
      BY <1>1, <1>4 DEF TypeOK, ServiceType
    <3>5. ~Gone(d)
      BY <2>6 DEF Gone
    <3>6. ClaimsCover'
      BY <1>1, <1>2, <2>1, <2>5, <3>1, <3>3, <3>4, <3>5, ClaimsKept, ReadyFacts
    <3> QED
      BY <3>2, <3>6
  <2> QED
    BY <1>1, <1>2, <1>4, <1>6, <2>1, <2>5, <2>6, <2>7, <2>8, <2>9,
       ActiveBooks, ReadyFacts
<1> QED
  BY <1>5, <1>7, <1>8

LEMMA ReclaimCommitBooks ==
  ASSUME NEW s \in Slots, Ready(s), ReclaimCommit(s)
  PROVE  Books'
<1>1. /\ TypeOK /\ TypeOK' /\ Payments /\ Books
      /\ call[s].pc = "reclaim_commit" /\ call[s].id \in Deposits
  BY ReadyFacts DEF ReclaimCommit, At, AnonymousPcs
<1>2. PICK d \in Deposits : d = call[s].id
  BY <1>1
<1> DEFINE c == [call[s] EXCEPT !.pc = "reclaim_leftover", !.bal = 0]
<1>3. /\ UNCHANGED <<sub, quote, funded, alice, issued, pool_claims>>
      /\ faults' = faults /\ locks' = locks \ {d}
      /\ deposits' = [deposits EXCEPT ![d] = NoDeposit]
      /\ call' = [call EXCEPT ![s] = c]
  BY <1>2 DEF ReclaimCommit, ledgerVars, clientVars, quoteVars, serviceVars
<1>4. c.pc = "reclaim_leftover" /\ c.id = d
  BY <1>1, <1>2, CallFacts DEF CallRecords
<1> HIDE DEF c
<1>5. Others(s) /\ call'[s] = c
  BY <1>1, <1>3, CallUpdated
<1>6. deposits'[d].state = "none" /\ deposits'[d].amount = 0
  BY <1>1, <1>3 DEF TypeOK, DepositsType, NoDeposit
<1>7. \A e \in Deposits \ {d} : Kept(e) /\ (e \in locks <=> e \in locks')
  BY <1>1, <1>3 DEF Kept
<1>8. QuoteTrue(d)'
  BY <1>1, <1>3, <1>6 DEF Books, QuoteTrue
<1>9. CallTrue(s)' /\ CalmCall(s)'
  BY <1>4, <1>5, <1>6, PastFacts, BooksPcFacts, PastCall
<1>10. CalmDeposit(d)'
  BY <1>6 DEF CalmDeposit
<1>11. "reclaim_commit" \notin NeutralPcs
  BY PhasesApart
<1>12. ASSUME Calm
       PROVE  ClaimsCover'
  <2>1. ClaimsCover
    BY <1>1, <1>12 DEF Books
  <2>2. ~Owes(d)'
    <3>1. \A t \in Slots \ {s} : ~Charges(t, d)'
      BY <1>1, <1>2, <1>5, <1>11, SoleCharge
    <3>2. ~Charges(s, d)'
      BY <1>4, <1>5 DEF Charges, At, FinalizePcs
    <3> QED
      BY <1>6, <3>1, <3>2 DEF Owes, Drawn
  <2>3. pool_claims' >= pool_claims
    BY <1>1, <1>3 DEF TypeOK, ServiceType
  <2>4. Gone(d) => Gone(d)'
    <3>1. call[s].pc \in ReclaimPcs
      BY <1>1 DEF ReclaimPcs
    <3>2. deposits[d].state = "created"
      BY <1>1, <1>2, ReadyFacts DEF InFlight, Fits
    <3> QED
      BY <3>2 DEF Gone
  <2> QED
    BY <1>1, <1>2, <1>4, <1>5, <1>7, <2>1, <2>2, <2>3, <2>4, ClaimsKept,
       ReadyFacts
<1> QED
  BY <1>1, <1>2, <1>3, <1>5, <1>6, <1>7, <1>8, <1>9, <1>10, <1>11, <1>12,
     ActiveBooks, ReadyFacts

LEMMA CallBooks ==
  ASSUME ClaimsSuffice, NEW s \in Slots, Ready(s), Start(s) \/ Continue(s)
  PROVE  Books'
<1>1. TypeOK /\ LockStep(s) /\ IsFiniteSet(Deposits) /\ Payments /\ Books /\ TypeOK'
  BY ReadyFacts
<1>2. Idles(s) => Books'
  BY <1>1, IdlesKeeps
<1>3. CASE Start(s)
  <2>1. At(s, "idle") => call[s].id = None
    BY <1>1 DEF Payments, Exclusive, IdleCalls
  <2>2. AdminSweepPool(s) => call[s].id = None
    BY <2>1 DEF AdminSweepPool, Called
  <2>3. ASSUME NEW d \in Deposits, SealCall(s, d)
        PROVE  Books'
    BY <2>3, SealCallBooks
  <2> QED
    BY <1>1, <1>2, <1>3, <2>2, <2>3, StartIdles DEF Start
<1>4. CASE AllocStep(s)
  BY <1>1, <1>2, <1>4, AllocSecretIdles, AllocCheckBooks, AllocRateBooks
     DEF AllocStep
<1>5. CASE PrepareStep(s)
  BY <1>1, <1>2, <1>5, PrepareSecretIdles, PrepareCheckBooks,
     PrepareBalanceBooks, PrepareRateBooks, PrepareConvertBooks,
     PrepareSpawnBooks, PrepareTopUpsBooks, RejectIdles
     DEF PrepareStep
<1>6. CASE SealStep(s)
  BY <1>1, <1>2, <1>6, SealBalanceBooks, SealRateBooks, SealComputeBooks,
     SealTransferBooks, SealConvertBooks, SealCommitBooks, RejectIdles
     DEF SealStep
<1>7. CASE MaintenanceStep(s)
  BY <1>1, <1>2, <1>7, RecycleIdles, SweepIdles, LeftoverBooks
     DEF MaintenanceStep
<1>8. CASE FinalizeStep(s)
  BY <1>1, <1>2, <1>8, FinalizeIdles, FinalizeCommitBooks, RejectIdles
     DEF FinalizeStep
<1>9. CASE ReclaimStep(s)
  BY <1>1, <1>2, <1>9, ReclaimBalanceIdles, ReclaimTransferBooks,
     ReclaimCommitBooks, LeftoverBooks
     DEF ReclaimStep
<1> QED
  BY <1>3, <1>4, <1>5, <1>6, <1>7, <1>8, <1>9 DEF Continue

-----------------------------------------------------------------------------
(* The environment *)

\* Nothing the books depend on changes.
LEMMA UnchangedBooks ==
  ASSUME Books,
         UNCHANGED <<deposits, sub, quote, funded, alice, issued, pool_claims,
                     locks, call, faults>>
  PROVE  Books'
<1>1. \A d \in Deposits : QuoteTrue(d)'
  BY DEF Books, QuoteTrue
<1>2. \A s \in Slots : CallTrue(s)'
  BY DEF Books, CallTrue
<1>3. \A d : Whole(d)' = Whole(d) /\ Conversions(d)' = Conversions(d)
  BY DEF Whole, Conversions
<1>4. \A d \in Deposits : CalmDeposit(d) => CalmDeposit(d)'
  BY <1>3 DEF CalmDeposit
<1>5. \A s \in Slots : CalmCall(s) => CalmCall(s)'
  BY <1>3 DEF CalmCall
<1>6. Owed' = Owed
  <2>1. \A d \in Deposits : Owes(d)' <=> Owes(d)
    BY <1>3 DEF Owes, Drawn, Intact, Charges, At
  <2> QED
    BY <2>1 DEF Owed
<1>7. Over' = Over
  <2>1. \A d \in Deposits : Gone(d)' <=> Gone(d)
    BY DEF Gone, At
  <2>2. \A d \in Deposits : Owes(d)' <=> Owes(d)
    BY <1>3 DEF Owes, Drawn, Intact, Charges, At
  <2> QED
    BY <2>1, <2>2 DEF Over
<1>8. (Calm' <=> Calm) /\ (ClaimsCover' <=> ClaimsCover)
  BY <1>6, <1>7 DEF Calm, ClaimsCover
<1> QED
  BY <1>1, <1>2, <1>4, <1>5, <1>8 DEF Books

\* The client's transfer: the deposit was quoted and not prepared yet.
LEMMA FundBooks ==
  ASSUME IsFiniteSet(Deposits), Payments, Books, TypeOK', NEW d \in Deposits,
         Fund(d)
  PROVE  Books'
<1>1. TypeOK
  BY DEF Payments, Exclusive
<1>2. /\ UNCHANGED <<deposits, quote, alice, issued, pool_claims, locks, call,
                     faults>>
      /\ quote[d] > 0 /\ d \notin funded /\ funded' = funded \cup {d}
  BY DEF Fund, routerVars, serviceVars
<1>3. \A e : Whole(e)' = Whole(e) /\ Conversions(e)' = Conversions(e)
  BY <1>2 DEF Whole, Conversions
<1>4. QuoteTrue(d) /\ sub[d] = 0
  BY <1>2 DEF Books, QuoteTrue
<1>5. sub'[d] = Whole(d) /\ \A e \in Deposits \ {d} : sub'[e] = sub[e]
  <2>1. sub'[d] = sub[d] + Whole(d) /\ \A e \in Deposits \ {d} : sub'[e] = sub[e]
    BY <1>1 DEF Fund, Whole, TypeOK, LedgerType
  <2> QED
    BY <1>1, <1>4, <2>1, WholeNat
<1>6. \A e \in Deposits \ {d} : Kept(e) /\ (e \in locks <=> e \in locks')
  BY <1>2, <1>5 DEF Kept
<1>7. \A e \in Deposits : QuoteTrue(e)'
  <2>1. QuoteTrue(d)'
    BY <1>2, <1>4 DEF QuoteTrue
  <2> QED
    BY <1>6, <2>1, KeptQuote DEF Books
<1>8. \A s \in Slots : CallTrue(s)'
  BY <1>2 DEF Books, CallTrue
<1>9. ASSUME Calm
      PROVE  /\ \A e \in Deposits : CalmDeposit(e)'
             /\ \A s \in Slots : CalmCall(s)'
             /\ ClaimsCover'
  <2>1. /\ \A e \in Deposits : CalmDeposit(e)
        /\ \A s \in Slots : CalmCall(s)
        /\ ClaimsCover
    BY <1>9 DEF Books
  <2>2. deposits[d].state # "created"
    BY <1>2, <2>1 DEF CalmDeposit
  <2>3. \A e \in Deposits : CalmDeposit(e)'
    <3>1. CalmDeposit(d)'
      BY <1>2, <1>3, <1>5, <2>2 DEF CalmDeposit
    <3> QED
      BY <1>6, <2>1, <3>1, KeptDeposit
  <2>4. ASSUME NEW s \in Slots
        PROVE  CalmCall(s)'
    <3>1. CASE call[s].id = d
      <4>1. call[s].pc \notin SealPcs
        BY <2>2, <3>1 DEF Payments, PaymentsMatchRecords, InFlight, Fits
      <4>2. call[s].pc \notin {"seal_rate", "seal_compute"}
        BY <4>1, PhaseFacts
      <4> QED
        BY <1>2, <1>3, <1>5, <2>1, <3>1, <4>2 DEF CalmCall
    <3>2. CASE call[s].id \in Deposits \ {d}
      BY <1>2, <1>6, <2>1, <3>2, KeptCall
    <3>3. CASE call[s].id = None
      <4>1. call[s].pc \in AnonymousPcs
        BY <1>1, <3>3 DEF TypeOK, CallType
      <4>2. /\ call[s].pc \notin EarlyPcs /\ call[s].pc \notin DrawnPcs
            /\ call[s].pc \notin {"prepare_rate", "prepare_convert",
                                  "seal_rate", "seal_compute"}
        BY <4>1 DEF AnonymousPcs, EarlyPcs, DrawnPcs
      <4> QED
        BY <1>2, <4>2 DEF CalmCall
    <3> QED
      BY <1>1, <3>1, <3>2, <3>3, CallFacts DEF CallRecords
  <2>5. Owed' \subseteq Owed
    <3>1. ASSUME NEW e \in Deposits, Owes(e)'
          PROVE  Owes(e)
      <4>1. Drawn(e)' => Drawn(e)
        BY <1>2, <1>3, <1>6, <2>2 DEF Drawn, Intact, Kept
      <4> QED
        BY <1>2, <3>1, <4>1 DEF Owes, Charges, At
    <3> QED
      BY <3>1 DEF Owed
  <2>6. pool_claims' >= pool_claims
    BY <1>1, <1>2 DEF TypeOK, ServiceType
  <2>7. \A e \in Deposits : Gone(e) => Gone(e)'
    BY <1>2 DEF Gone, At
  <2> QED
    BY <1>1, <2>1, <2>3, <2>4, <2>5, <2>6, <2>7, OwedShrinks
<1>10. Calm' <=> Calm
  BY <1>2 DEF Calm
<1> QED
  BY <1>2, <1>7, <1>8, <1>9, <1>10 DEF Books

\* admin_clear_deposit subtracts the amount of the record, which is 0.
LEMMA ClearDepositBooks ==
  ASSUME IsFiniteSet(Deposits), Payments, Books, TypeOK', NEW d \in Deposits,
         AdminClearDeposit(d)
  PROVE  Books'
<1>1. TypeOK
  BY DEF Payments, Exclusive
<1>2. /\ UNCHANGED <<sub, quote, funded, alice, issued, locks, call, faults>>
      /\ deposits[d].state = "sealed"
      /\ deposits' = [deposits EXCEPT ![d] = NoDeposit]
  BY DEF AdminClearDeposit, serviceVars, ledgerVars, clientVars, quoteVars
<1>3. pool_claims' = pool_claims
  <2>1. deposits[d].amount = 0 /\ pool_claims \in Nat
    BY <1>1 DEF Books, QuoteTrue, TypeOK, ServiceType
  <2> QED
    BY <2>1 DEF AdminClearDeposit, Monus
<1>4. deposits'[d].state = "none" /\ deposits'[d].amount = 0
  BY <1>1, <1>2 DEF TypeOK, DepositsType, NoDeposit
<1>5. \A e \in Deposits \ {d} : Kept(e) /\ (e \in locks <=> e \in locks')
  BY <1>1, <1>2 DEF Kept, TypeOK, DepositsType
<1>6. \A e \in Deposits : QuoteTrue(e)'
  <2>1. QuoteTrue(d)'
    BY <1>2, <1>4 DEF Books, QuoteTrue
  <2> QED
    BY <1>5, <2>1, KeptQuote DEF Books
<1>7. ASSUME NEW s \in Slots
      PROVE  CallTrue(s)' /\ (CalmCall(s) => CalmCall(s)')
  <2>1. CallTrue(s) /\ InFlight(s)
    BY DEF Books, Payments, PaymentsMatchRecords
  <2>2. CalmCall(s) => CalmCall(s)'
    BY <1>2 DEF CalmCall, Whole, Conversions
  <2>3. CASE call[s].id = d
    <3>1. call[s].pc \notin SealPcs
      BY <1>2, <2>1, <2>3 DEF InFlight, Fits
    <3> QED
      BY <1>2, <1>4, <2>1, <2>2, <2>3, <3>1 DEF CallTrue
  <2>4. CASE call[s].id \in Deposits \ {d}
    BY <1>2, <1>5, <2>1, <2>2, <2>4, KeptCall
  <2>5. CASE call[s].id = None
    <3>1. call[s].pc \in AnonymousPcs
      BY <1>1, <2>5 DEF TypeOK, CallType
    <3>2. call[s].pc \notin SealPcs /\ call[s].pc # "alloc_rate"
      BY <3>1 DEF AnonymousPcs, SealPcs
    <3> QED
      BY <1>2, <2>2, <2>5, <3>2 DEF CallTrue
  <2> QED
    BY <1>1, <2>3, <2>4, <2>5, CallFacts DEF CallRecords
<1>8. ASSUME Calm
      PROVE  /\ \A e \in Deposits : CalmDeposit(e)'
             /\ \A s \in Slots : CalmCall(s)'
             /\ ClaimsCover'
  <2>1. /\ \A e \in Deposits : CalmDeposit(e)
        /\ \A s \in Slots : CalmCall(s)
        /\ ClaimsCover
    BY <1>8 DEF Books
  <2>2. \A e \in Deposits : CalmDeposit(e)'
    <3>1. CalmDeposit(d)'
      BY <1>4 DEF CalmDeposit
    <3> QED
      BY <1>5, <2>1, <3>1, KeptDeposit
  <2>3. Owed' \subseteq Owed
    <3>1. ASSUME NEW e \in Deposits, Owes(e)'
          PROVE  Owes(e)
      <4>1. Drawn(e)' => Drawn(e)
        BY <1>4, <1>5 DEF Drawn, Intact, Kept, Whole
      <4> QED
        BY <1>2, <1>4, <1>5, <3>1, <4>1 DEF Owes, Charges, At, Kept
    <3> QED
      BY <3>1 DEF Owed
  <2>4. pool_claims' >= pool_claims
    BY <1>1, <1>3 DEF TypeOK, ServiceType
  <2>5. \A e \in Deposits : Gone(e) => Gone(e)'
    BY <1>2, <1>4, <1>5 DEF Gone, At, Kept
  <2> QED
    BY <1>1, <1>7, <2>1, <2>2, <2>3, <2>4, <2>5, OwedShrinks
<1>9. (Calm' <=> Calm) /\ faults' = faults
  BY <1>2 DEF Calm
<1> QED
  BY <1>6, <1>7, <1>8, <1>9 DEF Books

LEMMA UpgradeBooks ==
  ASSUME IsFiniteSet(Deposits), Payments, Books, TypeOK', Upgrade
  PROVE  Books'
<1>1. TypeOK
  BY DEF Payments, Exclusive
<1>2. /\ UNCHANGED <<sub, quote, funded, alice, issued, pool_claims, call, faults>>
      /\ \A s \in Slots : call[s].pc = "idle"
      /\ \A d \in Deposits : deposits'[d].state = "none" /\ deposits'[d].amount = 0
  BY DEF Upgrade, NoDeposit, At, serviceVars, ledgerVars, clientVars, quoteVars
<1>3. \A d \in Deposits : QuoteTrue(d)'
  BY <1>2 DEF Books, QuoteTrue
<1>4. \A s \in Slots : CallTrue(s)' /\ CalmCall(s)'
  <2>1. \A s \in Slots : call'[s].pc \in QuietPcs
    BY <1>2, QuietPcFacts
  <2> QED
    BY <2>1, QuietCall
<1>5. \A d \in Deposits : CalmDeposit(d)'
  BY <1>2 DEF CalmDeposit
<1>6. Owed' \subseteq Owed
  <2>1. \A d \in Deposits : ~Owes(d)'
    BY <1>2 DEF Owes, Drawn, Charges, At, FinalizePcs
  <2> QED
    BY <2>1 DEF Owed
<1>7. ASSUME Calm
      PROVE  ClaimsCover'
  <2>1. ClaimsCover
    BY <1>7 DEF Books
  <2>2. pool_claims' >= pool_claims
    BY <1>1, <1>2 DEF TypeOK, ServiceType
  <2>3. \A d \in Deposits : Gone(d) => Gone(d)'
    BY <1>2 DEF Gone, At
  <2> QED
    BY <1>1, <1>6, <2>1, <2>2, <2>3, OwedShrinks
<1>8. (Calm' <=> Calm) /\ faults' = faults
  BY <1>2 DEF Calm
<1> QED
  BY <1>3, <1>4, <1>5, <1>7, <1>8 DEF Books

-----------------------------------------------------------------------------
(* How far the price may move *)

\* Rounding to the nearest ICP.
LEMMA RoundsUp ==
  ASSUME NEW x \in Nat, NEW icp \in Nat,
         icp * E8S_PER_ICP <= x + E8S_PER_ICP \div 2
  PROVE  RoundICP(x) >= icp * E8S_PER_ICP
<1>1. PICK e \in Nat \ {0} : e = E8S_PER_ICP
  BY UnitAssumption
<1>2. PICK y \in Nat : y = x + e \div 2
  BY <1>1, DivNat
<1>3. PICK q \in Nat : q = y \div e
  BY <1>1, <1>2, DivNat
<1>4. y < q * e + e
  <2>1. y = e * (y \div e) + (y % e) /\ y % e < e /\ y % e \in Nat
    BY <1>1, <1>2
  <2>2. PICK z \in Nat : z = y % e
    BY <2>1
  <2>3. y = e * q + z /\ z < e
    BY <1>3, <2>1, <2>2
  <2>4. e * q \in Nat /\ e * q = q * e
    BY <1>1, <1>3
  <2> QED
    BY <1>1, <2>3, <2>4
<1>5. icp <= q
  <2>1. SUFFICES ASSUME q + 1 <= icp PROVE FALSE
    BY <1>3
  <2>2. \A a, b, c \in Nat : a <= b => a * c <= b * c
    OBVIOUS
  <2>3. (q + 1) * e <= icp * e
    BY <1>1, <1>3, <2>1, <2>2
  <2>4. (q + 1) * e = q * e + e
    BY <1>1, <1>3
  <2>5. q * e \in Nat /\ icp * e \in Nat
    BY <1>1, <1>3
  <2>6. icp * e <= y
    BY <1>1, <1>2
  <2> QED
    BY <1>1, <1>2, <1>4, <2>3, <2>4, <2>5, <2>6
<1>6. icp * e <= q * e
  <2>1. \A a, b, c \in Nat : a <= b => a * c <= b * c
    OBVIOUS
  <2> QED
    BY <1>1, <1>3, <1>5, <2>1
<1>7. RoundICP(x) = q * e
  BY <1>1, <1>2, <1>3 DEF RoundICP
<1>8. q * e \in Nat /\ icp * e \in Nat
  BY <1>1, <1>3
<1> QED
  BY <1>1, <1>6, <1>7, <1>8

LEMMA ClaimRoundsUp ==
  ASSUME NEW amount \in Nat \ {0}, NEW r1 \in Nat \ {0}, NEW r2 \in Nat \ {0},
         NEW pct, NEW icp \in Nat \ {0},
         icp * E8S_PER_ICP + SealedCycles(r2) + 3 * LEDGER_FEE
           <= amount + QuotedCycles(r1) + E8S_PER_ICP \div 2,
         NEW whole, whole = RouterDeposit(amount, SpawnFeeEstimate(r1)),
         NEW balance \in 0..whole
  PROVE  SealSplit(balance, whole - balance, r2, pct).claim >= icp * E8S_PER_ICP
<1>1. PICK fee \in Nat : fee = LEDGER_FEE
  BY FeeAssumption
<1>2. PICK zz \in Nat : zz = SealedCycles(r2)
  <2>1. TOTAL_CYCLES * 11 \in Nat /\ r2 * 10 \in Nat \ {0}
    BY CyclesAssumption
  <2> QED
    BY <2>1, DivNat DEF SealedCycles
<1>3. PICK ceil \in Nat : ceil = QuotedCycles(r1)
  <2>1. (TOTAL_CYCLES * 11) \div 10 \in Nat
    BY CyclesAssumption, DivNat
  <2> QED
    BY <2>1, CeilDivNat DEF QuotedCycles
<1>4. PICK half \in Nat : half = E8S_PER_ICP \div 2
  BY UnitAssumption, DivNat
<1>5. half < E8S_PER_ICP
  BY <1>4, UnitAssumption
<1>6. PICK claim \in Nat : claim = icp * E8S_PER_ICP
  <2>1. \A a, b \in Nat : a * b \in Nat
    OBVIOUS
  <2> QED
    BY <2>1, UnitAssumption
<1>7. whole = amount + ceil + 7 * fee
  BY <1>1, <1>3 DEF RouterDeposit, SpawnFeeEstimate, QuotedCycles
<1>8. claim + zz + 3 * fee <= amount + ceil + half
  BY <1>1, <1>2, <1>3, <1>4, <1>6
<1> DEFINE x == Monus(whole, zz + 10 * fee)
<1>9. E8S_PER_ICP <= claim
  <2>1. \A a, b \in Nat : a # 0 => b <= a * b
    OBVIOUS
  <2> QED
    BY <1>6, <2>1, UnitAssumption
<1>10. x = whole - (zz + 10 * fee) /\ x \in Nat
  <2>1. whole > zz + 10 * fee
    BY <1>4, <1>5, <1>7, <1>8, <1>9, UnitAssumption
  <2> QED
    BY <1>7, <2>1 DEF Monus
<1>11. claim <= x + half
  BY <1>7, <1>8, <1>10
<1> HIDE DEF x
<1>12. RoundICP(x) >= claim
  BY <1>4, <1>6, <1>10, <1>11, RoundsUp
<1>13. SealSplit(balance, whole - balance, r2, pct).claim = RoundICP(x)
  <2>1. balance + (whole - balance) = whole
    BY <1>7
  <2>2. TotalFees = 10 * fee
    BY <1>1 DEF TotalFees
  <2>3. (IF r2 > 0 THEN (TOTAL_CYCLES * 11) \div (r2 * 10) ELSE 0) = zz
    BY <1>2 DEF SealedCycles
  <2> QED
    BY <2>1, <2>2, <2>3 DEF SealSplit, x
<1> QED
  BY <1>6, <1>12, <1>13

LEMMA ClaimCovers ==
  ASSUME PriceHolds, NEW d \in Deposits, NEW r1 \in Rates, NEW r2 \in Rates,
         NEW balance \in 0..RouterDeposit(Amount[d], SpawnFeeEstimate(r1))
  PROVE  SealSplit(balance,
            RouterDeposit(Amount[d], SpawnFeeEstimate(r1)) - balance,
            r2, Pct[d]).claim >= Covered[d]
<1> DEFINE whole == RouterDeposit(Amount[d], SpawnFeeEstimate(r1))
           claim == SealSplit(balance, whole - balance, r2, Pct[d]).claim
           part == Amount[d] % E8S_PER_ICP
           icp == Amount[d] \div E8S_PER_ICP
<1>1. PICK e \in Nat \ {0} : e = E8S_PER_ICP
  BY UnitAssumption
<1>2. PICK a \in Nat \ {0} : a = Amount[d]
  BY DepositFacts
<1>3. r1 \in Nat \ {0} /\ r2 \in Nat \ {0}
  BY RateFacts
<1>4. icp \in Nat /\ part \in Nat /\ a = icp * e + part
  <2>1. \A x \in Nat, y \in Nat \ {0} :
          /\ x \div y \in Nat /\ x % y \in Nat
          /\ x = (x \div y) * y + (x % y)
    OBVIOUS
  <2> QED
    BY <1>1, <1>2, <2>1
<1>5. PICK c1 \in Nat : c1 = QuotedCycles(r1)
  <2>1. (TOTAL_CYCLES * 11) \div 10 \in Nat
    BY CyclesAssumption, DivNat
  <2> QED
    BY <1>3, <2>1, CeilDivNat DEF QuotedCycles
<1>6. PICK c2 \in Nat : c2 = SealedCycles(r2) + 3 * LEDGER_FEE
  <2>1. TOTAL_CYCLES * 11 \in Nat /\ r2 * 10 \in Nat \ {0}
    BY <1>3, CyclesAssumption
  <2>2. SealedCycles(r2) \in Nat
    BY <2>1, DivNat DEF SealedCycles
  <2> QED
    BY <2>2, FeeAssumption
<1>7. PICK half \in Nat : half = E8S_PER_ICP \div 2
  BY UnitAssumption, DivNat
<1>8. c2 <= c1 + half
  BY <1>5, <1>6, <1>7 DEF PriceHolds
<1>9. ASSUME NEW n \in Nat \ {0}, n * e + c2 <= a + c1 + half
      PROVE  claim >= n * e
  <2>1. n * E8S_PER_ICP + SealedCycles(r2) + 3 * LEDGER_FEE
          <= Amount[d] + QuotedCycles(r1) + E8S_PER_ICP \div 2
    <3>1. PICK m \in Nat : m = n * e
      OBVIOUS
    <3>2. PICK z \in Nat : z = SealedCycles(r2)
      BY <1>3, CyclesAssumption, DivNat DEF SealedCycles
    <3>3. PICK f \in Nat : f = LEDGER_FEE
      BY FeeAssumption
    <3> QED
      BY <1>1, <1>2, <1>5, <1>6, <1>7, <1>9, <3>1, <3>2, <3>3
  <2> HIDE DEF whole
  <2>2. whole = RouterDeposit(Amount[d], SpawnFeeEstimate(r1))
    BY DEF whole
  <2>3. balance \in 0..whole /\ Amount[d] \in Nat \ {0}
    BY <1>2, <2>2
  <2> QED
    BY <1>1, <1>3, <2>1, <2>2, <2>3, ClaimRoundsUp
<1>10. claim \in Nat
  <2>1. whole \in Nat
    <3>1. SpawnFeeEstimate(r1) \in Nat
      BY <1>3, SpawnFeeEstimateNat
    <3> QED
      BY <1>2, <3>1, FeeAssumption DEF RouterDeposit
  <2> HIDE DEF whole
  <2>2. balance \in Nat /\ whole - balance \in Nat
    BY <2>1 DEF whole
  <2>3. r2 \in Nat /\ Pct[d] \in 0..100
    BY <1>3, DepositFacts
  <2> QED
    BY <2>2, <2>3, SealSplitNat, Zenon
<1>11. Covered[d] = a - Dropped[d] /\ part < e
  <2>1. \A x \in Nat, y \in Nat \ {0} : x % y < y
    OBVIOUS
  <2> QED
    BY <1>1, <1>2, <2>1 DEF Covered
<1>12. ASSUME \A q1 \in Rates, q2 \in Rates :
              E8S_PER_ICP + SealedCycles(q2) + 3 * LEDGER_FEE
                <= part + QuotedCycles(q1) + E8S_PER_ICP \div 2
       PROVE  claim >= Covered[d]
  <2>1. Covered[d] = a
    BY <1>2, <1>11, <1>12 DEF Dropped
  <2>2. e + c2 <= part + c1 + half
    <3>1. PICK z \in Nat : z = SealedCycles(r2)
      BY <1>3, CyclesAssumption, DivNat DEF SealedCycles
    <3>2. PICK f \in Nat : f = LEDGER_FEE
      BY FeeAssumption
    <3>3. E8S_PER_ICP + SealedCycles(r2) + 3 * LEDGER_FEE
            <= part + QuotedCycles(r1) + E8S_PER_ICP \div 2
      BY <1>12
    <3> HIDE DEF part
    <3> QED
      BY <1>1, <1>4, <1>5, <1>6, <1>7, <3>1, <3>2, <3>3
  <2> HIDE DEF icp, part, claim
  <2>3. icp + 1 \in Nat \ {0} /\ (icp + 1) * e = icp * e + e
    BY <1>1, <1>4
  <2>4. PICK m \in Nat : m = icp * e
    BY <1>1, <1>4
  <2>5. PICK n \in Nat \ {0} : n = icp + 1
    BY <1>4
  <2>6. n * e = m + e
    BY <2>3, <2>4, <2>5
  <2>7. n * e + c2 <= a + c1 + half
    BY <1>1, <1>4, <2>2, <2>4, <2>6
  <2>8. claim >= n * e
    BY <1>9, <2>7
  <2> QED
    BY <1>1, <1>4, <1>10, <1>11, <2>1, <2>4, <2>6, <2>8
<1>13. ASSUME ~\A q1 \in Rates, q2 \in Rates :
               E8S_PER_ICP + SealedCycles(q2) + 3 * LEDGER_FEE
                 <= part + QuotedCycles(q1) + E8S_PER_ICP \div 2
       PROVE  claim >= Covered[d]
  <2>1. Dropped[d] = part
    BY <1>13 DEF Dropped
  <2> HIDE DEF icp, part, claim
  <2>2. PICK m \in Nat : m = icp * e
    BY <1>1, <1>4
  <2>3. Covered[d] = m
    BY <1>4, <1>11, <2>1, <2>2
  <2>4. CASE icp = 0
    BY <1>1, <1>10, <2>2, <2>3, <2>4
  <2>5. CASE icp # 0
    <3>1. icp * e + c2 <= a + c1 + half
      BY <1>4, <1>8, <2>2
    <3>2. claim >= icp * e
      BY <1>4, <1>9, <2>5, <3>1
    <3> QED
      BY <2>2, <2>3, <3>2
  <2> QED
    BY <2>4, <2>5
<1> QED
  BY <1>12, <1>13

LEMMA PriceSuffices ==
  ASSUME PriceHolds
  PROVE  ClaimsSuffice
<1> SUFFICES ASSUME NEW d \in Deposits, NEW r1 \in Rates, NEW r2 \in Rates,
                    NEW balance \in
                          0..RouterDeposit(Amount[d], SpawnFeeEstimate(r1))
             PROVE  SealSplit(balance,
                       RouterDeposit(Amount[d], SpawnFeeEstimate(r1)) - balance,
                       r2, Pct[d]).claim >= Covered[d]
  BY DEF ClaimsSuffice
<1> QED
  BY ClaimCovers

-----------------------------------------------------------------------------
(* The theorems *)

LEMMA InitBooks ==
  ASSUME IsFiniteSet(Deposits), Init
  PROVE  Books
<1>1. /\ pool_claims = 0 /\ faults = MaxFaults /\ funded = {}
      /\ \A d \in Deposits : /\ deposits[d].state = "none"
                             /\ deposits[d].amount = 0
                             /\ sub[d] = 0 /\ quote[d] = 0
      /\ \A s \in Slots : call[s].pc = "idle"
  BY DEF Init, NoDeposit, Idle
<1>2. \A d \in Deposits : QuoteTrue(d) /\ CalmDeposit(d)
  BY <1>1 DEF QuoteTrue, CalmDeposit
<1>3. \A s \in Slots : CallTrue(s) /\ CalmCall(s)
  BY <1>1 DEF CallTrue, CalmCall, PastPcs, TailPcs, SealPcs, EarlyPcs, DrawnPcs
<1>4. ClaimsCover
  <2>1. Owed = {}
    BY <1>1 DEF Owed, Owes, Drawn, Charges, At, FinalizePcs
  <2>2. Over = {}
    BY DEF Init, Over, Gone
  <2>3. Total(Covered, {}) = 0 /\ Total(Dropped, {}) = 0
    BY TotalEmpty
  <2> QED
    BY <1>1, <2>1, <2>2, <2>3 DEF ClaimsCover
<1>5. faults <= MaxFaults
  BY <1>1, RouterAssumption
<1> QED
  BY <1>2, <1>3, <1>4, <1>5 DEF Books

LEMMA NextBooks ==
  ASSUME "clear_lock" \notin Operations, IsFiniteSet(Deposits), PriceHolds,
         Payments, Books, [Next]_vars
  PROVE  Books'
<1>1. TypeOK /\ TypeOK'
  BY NextType DEF Payments, Exclusive
<1>2. CASE Environment
  <2>1. CASE SetPaused \/ \E d \in Deposits : Expire(d)
    BY <2>1, UnchangedBooks
       DEF SetPaused, Expire, routerVars, serviceVars, ledgerVars, clientVars,
           quoteVars
  <2>2. CASE Upgrade
    BY <1>1, <2>2, UpgradeBooks
  <2>3. ASSUME NEW d \in Deposits, Fund(d)
        PROVE  Books'
    BY <1>1, <2>3, FundBooks
  <2>4. ASSUME NEW d \in Deposits, AdminClearDeposit(d)
        PROVE  Books'
    BY <1>1, <2>4, ClearDepositBooks
  <2>5. \A d \in Deposits : ~AdminClearLock(d)
    BY DEF AdminClearLock
  <2> QED
    BY <1>2, <2>1, <2>2, <2>3, <2>4, <2>5 DEF Environment
<1>3. ASSUME NEW s \in Slots, Start(s) \/ Continue(s)
      PROVE  Books'
  <2>1. LockStep(s)
    BY <1>1, <1>3, StartLocks, ContinueLocks DEF Payments, Exclusive
  <2>2. Ready(s)
    BY <1>1, <2>1 DEF Ready
  <2> QED
    BY <1>3, <2>2, PriceSuffices, CallBooks
<1>4. CASE UNCHANGED vars
  BY <1>4, UnchangedBooks
     DEF vars, routerVars, serviceVars, ledgerVars, clientVars, quoteVars
<1> QED
  BY <1>2, <1>3, <1>4 DEF Next

\* However many deposits and calls there are, in whatever order they run, while
\* the administrator clears deposits, sweeps, pauses and upgrades, and whatever
\* Alice's amounts are: pool_claims falls short of what the sealed deposits owe by
\* no more than the fractions of an ICP that the rounding has dropped from those
\* sealed so far, for whole amounts not at all.  This holds until something fails,
\* and as long as calls are rejected and no error result is answered, also after.
THEOREM ClaimsCoverDebts ==
  ASSUME "clear_lock" \notin Operations, IsFiniteSet(Deposits), PriceHolds
  PROVE  Spec => [](Calm => CommitmentsCovered)
<1>1. Init => Payments /\ Books
  BY InitPayments, InitBooks
<1>2. Payments /\ Books /\ [Next]_vars => (Payments /\ Books)'
  BY NextPayments, NextBooks
<1>3. Payments /\ Books => (Calm => CommitmentsCovered)
  <2> SUFFICES ASSUME Payments, Books, ClaimsCover
               PROVE  CommitmentsCovered
    BY DEF Books
  <2> DEFINE part == Settled \ Sealed
  <2>1. /\ Sealed \in SUBSET Owed /\ Owed \in SUBSET Deposits
        /\ Over \in SUBSET Deposits
    BY DEF Sealed, Owed, Owes, Over
  <2>2. TypeOK /\ \A s \in Slots : InFlight(s)
    BY DEF Payments, Exclusive, PaymentsMatchRecords
  <2>3. Settled \in SUBSET Deposits /\ Sealed \in SUBSET Settled
    <3>1. \A d \in Deposits : d \notin issued => deposits[d].state = "none"
      BY DEF Payments, PaymentsMatchRecords, Account
    <3> QED
      BY <2>2, <3>1 DEF Settled, Sealed, TypeOK, ServiceType
  <2>4. Over \in SUBSET part
    <3>1. \A d \in Over : d \in issued /\ deposits[d].state = "none"
      BY DEF Over, Gone
    <3> QED
      BY <3>1 DEF Settled, Sealed
  <2>5. part \in SUBSET Settled /\ part \in SUBSET Deposits
    BY <2>3
  <2> HIDE DEF part
  <2>6. /\ IsFiniteSet(Owed) /\ IsFiniteSet(Sealed) /\ IsFiniteSet(Settled)
        /\ IsFiniteSet(part)
    BY <2>1, <2>3, <2>5, OwedNat
  <2>7. /\ \A d \in Owed : Covered[d] \in Nat
        /\ \A d \in Settled : Dropped[d] \in Nat
        /\ \A d \in part : Dropped[d] \in Nat
        /\ \A d \in Sealed : /\ Covered[d] \in Nat /\ Dropped[d] \in Nat
                              /\ Amount[d] = Covered[d] + Dropped[d]
    BY <2>1, <2>3, <2>5, AmountParts
  <2>8. Total(Covered, Sealed) <= Total(Covered, Owed)
    BY <2>1, <2>6, <2>7, TotalPart
  <2>9. Total(Amount, Sealed) = Total(Covered, Sealed) + Total(Dropped, Sealed)
    BY <2>6, <2>7, TotalSplits
  <2>10. Total(Dropped, Settled) = Total(Dropped, Sealed) + Total(Dropped, part)
    BY <2>3, <2>6, <2>7, TotalParts DEF part
  <2>11. Total(Dropped, Over) <= Total(Dropped, part)
    BY <2>4, <2>6, <2>7, TotalPart
  <2>12. /\ Total(Covered, Sealed) \in Nat /\ Total(Covered, Owed) \in Nat
         /\ Total(Dropped, Sealed) \in Nat /\ Total(Dropped, Over) \in Nat
         /\ Total(Dropped, part) \in Nat
    BY <2>1, <2>3, <2>5, OwedNat
  <2>13. pool_claims \in Nat
    BY <2>2 DEF TypeOK, ServiceType
  <2> QED
    BY <2>8, <2>9, <2>10, <2>11, <2>12, <2>13 DEF ClaimsCover, CommitmentsCovered
<1> QED
  BY <1>1, <1>2, <1>3, PTL DEF Spec

\* The same where no error result is ever answered.
THEOREM ClaimsAreCovered ==
  ASSUME "clear_lock" \notin Operations, IsFiniteSet(Deposits), PriceHolds,
         "err" \notin FaultKinds
  PROVE  Spec => []CommitmentsCovered
<1>1. Spec => [](Calm => CommitmentsCovered)
  BY ClaimsCoverDebts
<1>2. (Calm => CommitmentsCovered) => CommitmentsCovered
  BY DEF Calm
<1> QED
  BY <1>1, <1>2, PTL

-----------------------------------------------------------------------------
(* The claims, to the unit.  Until something fails no seal is cut short: what *)
(* deposit_prepare left pays for all that a seal transfers, so the claim that *)
(* a seal records becomes the claim of a sealed deposit.                      *)

\* The deposits whose claim pool_claims counts.
Due == Sealed \cup Sealing

\* A deposit that no seal is paying out holds what deposit_prepare left, and one
\* that is being paid out holds what its seal has still to transfer.
Remains(d) ==
  deposits[d].state = "created" /\ alice[d] = 0 /\ d \notin Sealing => Intact(d)
Affordable(s) ==
  At(s, "seal_transfer") =>
    LET rest == call[s].rest
    IN  /\ Len(rest) <= MAX_POOL_TRANSFERS
        /\ Sum(rest) + Len(rest) * LEDGER_FEE <= sub[call[s].id]

Exact ==
  /\ \A d \in Deposits : Remains(d)
  /\ \A s \in Slots : Affordable(s)
  /\ pool_claims = Total(Amount, Due)

\* A step of the call in slot s with which nothing has failed yet.
Untroubled(s) == Ready(s) /\ Calm /\ Exact /\ faults' = faults

LEMMA UntroubledFacts ==
  ASSUME NEW s \in Slots, Untroubled(s)
  PROVE  /\ Ready(s) /\ Calm /\ Exact /\ faults' = faults
         /\ IsFiniteSet(Deposits) /\ Payments /\ Books /\ TypeOK /\ TypeOK'
         /\ InFlight(s) /\ CallTrue(s) /\ CalmCall(s)
         /\ call[s].pc \notin AnonymousPcs => call[s].id \in Deposits
  BY ReadyFacts DEF Untroubled, Books

LEMMA NothingFails ==
  ASSUME NEW s \in Slots, Untroubled(s), NEW kind
  PROVE  ~Fault(kind)
  BY UntroubledFacts DEF Fault, TypeOK, ClientType

\* What is left of the transfers after one of them.
LEMMA SumOfRest ==
  ASSUME NEW t \in Seq(Nat), t # <<>>, Len(t) <= MAX_POOL_TRANSFERS
  PROVE  /\ Sum(t) = Head(t) + Sum(Tail(t)) /\ Sum(Tail(t)) \in Nat
         /\ Head(t) \in Nat
         /\ Len(Tail(t)) \in Nat /\ Len(t) = Len(Tail(t)) + 1
         /\ Len(Tail(t)) <= MAX_POOL_TRANSFERS
<1>1. Tail(t) \in Seq(Nat) /\ Head(t) \in Nat /\ Len(t) \in Nat
  OBVIOUS
<1>2. Len(t) = Len(Tail(t)) + 1 /\ Len(Tail(t)) \in Nat /\ Head(t) = t[1]
  OBVIOUS
<1>3. ASSUME NEW i \in 1..4
      PROVE  Part(Tail(t), i) = Part(t, i + 1)
  BY <1>2 DEF Part
<1>4. Part(t, 1) = Head(t)
  BY <1>1, <1>2 DEF Part
<1>5. Part(Tail(t), 5) = 0
  BY <1>1, <1>2 DEF Part, MAX_POOL_TRANSFERS
<1>6. /\ Part(t, 1) \in Nat /\ Part(t, 2) \in Nat /\ Part(t, 3) \in Nat
      /\ Part(t, 4) \in Nat /\ Part(t, 5) \in Nat
  BY PartNat
<1>7. /\ Part(Tail(t), 1) = Part(t, 2) /\ Part(Tail(t), 2) = Part(t, 3)
      /\ Part(Tail(t), 3) = Part(t, 4) /\ Part(Tail(t), 4) = Part(t, 5)
  BY <1>3
<1>8. Sum(t) = Head(t) + Sum(Tail(t)) /\ Sum(Tail(t)) \in Nat
  <2> DEFINE a == Part(t, 1)
             b == Part(t, 2)
             c == Part(t, 3)
             d == Part(t, 4)
             e == Part(t, 5)
  <2>1. Sum(Tail(t)) = b + c + d + e + 0
    BY <1>5, <1>7 DEF Sum
  <2>2. Sum(t) = a + b + c + d + e
    BY DEF Sum
  <2>3. /\ a \in Nat /\ b \in Nat /\ c \in Nat /\ d \in Nat /\ e \in Nat
        /\ a = Head(t)
    BY <1>4, <1>6
  <2> DEFINE r == Sum(Tail(t))
             w == Sum(t)
             h == Head(t)
  <2>4. r = b + c + d + e + 0 /\ w = a + b + c + d + e /\ a = h
    BY <2>1, <2>2, <2>3
  <2> HIDE DEF a, b, c, d, e, r, w, h
  <2>5. w = h + r /\ r \in Nat
    BY <2>3, <2>4
  <2> QED
    BY <2>5 DEF r, w, h
<1>9. Len(Tail(t)) <= MAX_POOL_TRANSFERS
  BY <1>2 DEF MAX_POOL_TRANSFERS
<1> QED
  BY <1>1, <1>2, <1>8, <1>9

\* A balance that covers the transfers covers the first one and then the rest.
LEMMA OutlayOfRest ==
  ASSUME NEW t \in Seq(Nat), t # <<>>, Len(t) <= MAX_POOL_TRANSFERS,
         NEW balance \in Nat, Sum(t) + Len(t) * LEDGER_FEE <= balance
  PROVE  /\ Covers(balance, Head(t))
         /\ Len(Tail(t)) <= MAX_POOL_TRANSFERS
         /\ Sum(Tail(t)) + Len(Tail(t)) * LEDGER_FEE <= After(balance, Head(t))
<1>1. /\ Sum(t) = Head(t) + Sum(Tail(t)) /\ Sum(Tail(t)) \in Nat
      /\ Head(t) \in Nat /\ Len(Tail(t)) \in Nat /\ Len(t) = Len(Tail(t)) + 1
      /\ Len(Tail(t)) <= MAX_POOL_TRANSFERS
  BY SumOfRest
<1>2. PICK n \in Nat : n = Len(Tail(t))
  BY <1>1
<1>3. PICK fee \in Nat : fee = LEDGER_FEE
  BY ParameterFacts
<1>4. PICK more \in Nat : more = n * fee /\ (n + 1) * fee = fee + more
  <2>1. \A i, j \in Nat : (i + 1) * j = j + i * j /\ i * j \in Nat
    OBVIOUS
  <2> QED
    BY <2>1
<1>5. PICK first \in Nat, sum \in Nat :
        first = Head(t) /\ sum = Sum(Tail(t)) /\ Sum(t) = first + sum
  BY <1>1
<1>6. first + sum + fee + more <= balance
  <2>1. Len(t) * LEDGER_FEE = fee + more
    BY <1>1, <1>2, <1>3, <1>4
  <2> QED
    BY <1>5, <2>1
<1>7. Covers(balance, first) /\ sum + more <= After(balance, first)
  BY <1>3, <1>6 DEF Covers, After
<1> QED
  BY <1>1, <1>2, <1>3, <1>4, <1>5, <1>7

-----------------------------------------------------------------------------
(* Steps that leave the claims and what they count alone *)

LEMMA PassesExact ==
  ASSUME NEW s \in Slots, Exact, Others(s),
         UNCHANGED <<deposits, sub, quote, funded, alice, pool_claims>>,
         ~At(s, "seal_transfer"), call'[s].pc # "seal_transfer"
  PROVE  Exact'
<1>1. \A t \in Slots : At(t, "seal_transfer")' => call'[t] = call[t]
  BY DEF At, Others
<1>2. \A t \in Slots : At(t, "seal_transfer") => call'[t] = call[t]
  BY DEF At, Others
<1>3. Sealing' = Sealing
  BY <1>1, <1>2 DEF Sealing, At
<1>4. \A d \in Deposits : Remains(d)'
  BY <1>3 DEF Exact, Remains, Intact, Whole
<1>5. \A t \in Slots : Affordable(t)'
  BY <1>1 DEF Exact, Affordable, At
<1>6. Due' = Due
  BY <1>3 DEF Due, Sealed
<1> QED
  BY <1>4, <1>5, <1>6 DEF Exact

\* The steps of a call that know nothing of the account before or after, or end
\* the call.
LEMMA MovesExact ==
  ASSUME NEW s \in Slots, Untroubled(s), Moves(s)
  PROVE  Exact'
<1>1. ~At(s, "seal_transfer")
  <2>1. SUFFICES ASSUME At(s, "seal_transfer")
                 PROVE  FALSE
    OBVIOUS
  <2>2. Stuck(s)
    BY <2>1, UntroubledFacts DEF Moves
  <2>3. /\ call[s].rest \in Seq(Nat) /\ call[s].rest # <<>>
        /\ call[s].id \in Deposits
    BY <2>1, <2>2, UntroubledFacts, CallFacts DEF Stuck, At, AnonymousPcs
  <2>4. PICK t \in Seq(Nat) : t = call[s].rest
    BY <2>3
  <2>5. PICK d \in Deposits : d = call[s].id
    BY <2>3
  <2>6. /\ Len(t) <= MAX_POOL_TRANSFERS
        /\ Sum(t) + Len(t) * LEDGER_FEE <= sub[d]
    BY <2>1, <2>4, <2>5, UntroubledFacts DEF Exact, Affordable
  <2>7. Covers(sub[d], Head(t))
    BY <2>3, <2>4, <2>6, UntroubledFacts, WholeNat, OutlayOfRest
  <2> QED
    BY <2>2, <2>4, <2>5, <2>7 DEF Stuck
<1> QED
  BY <1>1, PassesExact, UntroubledFacts DEF Moves, Steady

LEMMA IdlesExact ==
  ASSUME NEW s \in Slots, Untroubled(s), Idles(s)
  PROVE  Exact'
  BY MovesExact DEF Idles

\* The steps of a call that learns something of its deposit.
LEMMA LearningSteps ==
  ASSUME TypeOK, NEW s \in Slots,
         \/ AllocCheck(s) \/ PrepareCheck(s) \/ PrepareBalance(s)
         \/ PrepareRate(s) \/ PrepareNotify(s) \/ PrepareSpawn(s)
         \/ SealBalance(s) \/ SealRate(s)
         \/ \E d \in Deposits : SealCall(s, d)
  PROVE  /\ Others(s) /\ ~At(s, "seal_transfer")
         /\ call'[s].pc # "seal_transfer"
         /\ UNCHANGED <<deposits, sub, quote, funded, alice, pool_claims>>
<1>1. /\ UNCHANGED <<deposits, sub, quote, funded, alice, pool_claims>>
      /\ ~At(s, "seal_transfer")
  BY DEF AllocCheck, PrepareCheck, PrepareBalance, PrepareRate, PrepareNotify,
         PrepareSpawn, SealBalance, SealRate, SealCall, Called, At, routerVars,
         serviceVars, ledgerVars, clientVars, quoteVars
<1>2. SUFFICES Others(s) /\ call'[s].pc # "seal_transfer"
  BY <1>1
<1>3. CASE Return(s)
  <2>1. Others(s) /\ call'[s] = Idle
    BY <1>3, CallUpdated DEF Return
  <2> QED
    BY <2>1 DEF Idle
<1>4. ASSUME NEW pc, pc # "seal_transfer", Goto(s, pc)
      PROVE  Others(s) /\ call'[s].pc # "seal_transfer"
  BY <1>4, GotoUpdates
<1>5. call[s] \in CallRecords
  BY CallFacts
<1>6. CASE AllocCheck(s) /\ ~Return(s)
  <2>1. PICK d : call' = [call EXCEPT ![s].pc = "alloc_rate", ![s].id = d]
    BY <1>6 DEF AllocCheck
  <2> DEFINE c == [call[s] EXCEPT !.pc = "alloc_rate", !.id = d]
  <2>2. call' = [call EXCEPT ![s] = c] /\ c.pc = "alloc_rate"
    BY <1>5, <2>1 DEF CallRecords
  <2> HIDE DEF c
  <2>3. Others(s) /\ call'[s] = c
    BY <2>2, CallUpdated
  <2> QED
    BY <2>2, <2>3
<1>7. CASE PrepareBalance(s)
  <2> DEFINE c == [call[s] EXCEPT !.pc = "prepare_rate",
                                  !.bal = sub[call[s].id]]
  <2>1. call' = [call EXCEPT ![s] = c] /\ c.pc = "prepare_rate"
    BY <1>5, <1>7 DEF PrepareBalance, CallRecords
  <2> HIDE DEF c
  <2>3. Others(s) /\ call'[s] = c
    BY <2>1, CallUpdated
  <2> QED
    BY <2>1, <2>3
<1>8. CASE PrepareRate(s) /\ ~Return(s)
  <2>1. PICK convert : call' = [call EXCEPT ![s].pc = "prepare_convert",
                                  ![s].bal = 0, ![s].amt = convert]
    BY <1>8 DEF PrepareRate, ReturnUnlocked
  <2> DEFINE c == [call[s] EXCEPT !.pc = "prepare_convert", !.bal = 0,
                                  !.amt = convert]
  <2>2. call' = [call EXCEPT ![s] = c] /\ c.pc = "prepare_convert"
    BY <1>5, <2>1 DEF CallRecords
  <2> HIDE DEF c
  <2>3. Others(s) /\ call'[s] = c
    BY <2>2, CallUpdated
  <2> QED
    BY <2>2, <2>3
<1>9. CASE SealBalance(s)
  <2> DEFINE c == [call[s] EXCEPT !.pc = "seal_rate", !.bal = sub[call[s].id]]
  <2>1. call' = [call EXCEPT ![s] = c] /\ c.pc = "seal_rate"
    BY <1>5, <1>9 DEF SealBalance, CallRecords
  <2> HIDE DEF c
  <2>3. Others(s) /\ call'[s] = c
    BY <2>1, CallUpdated
  <2> QED
    BY <2>1, <2>3
<1>10. CASE SealRate(s) /\ ~Return(s)
  <2>1. PICK r : call' = [call EXCEPT ![s].pc = "seal_compute", ![s].rate = r]
    BY <1>10 DEF SealRate, ReturnUnlocked
  <2> DEFINE c == [call[s] EXCEPT !.pc = "seal_compute", !.rate = r]
  <2>2. call' = [call EXCEPT ![s] = c] /\ c.pc = "seal_compute"
    BY <1>5, <2>1 DEF CallRecords
  <2> HIDE DEF c
  <2>3. Others(s) /\ call'[s] = c
    BY <2>2, CallUpdated
  <2> QED
    BY <2>2, <2>3
<1>11. ASSUME NEW d \in Deposits, SealCall(s, d)
       PROVE  Others(s) /\ call'[s].pc # "seal_transfer"
  <2> DEFINE c == [call[s] EXCEPT !.pc = "seal_balance", !.id = d,
                                  !.spawn_fee = deposits[d].spawn_fee]
  <2>1. call' = [call EXCEPT ![s] = c]
    BY <1>11 DEF SealCall
  <2>2. c.pc = "seal_balance"
    BY <1>5 DEF CallRecords
  <2> HIDE DEF c
  <2>3. Others(s) /\ call'[s] = c
    BY <2>1, CallUpdated
  <2> QED
    BY <2>2, <2>3
<1>12. CASE PrepareCheck(s) /\ ~Return(s)
  <2>1. Goto(s, "prepare_balance")
    BY <1>12 DEF PrepareCheck
  <2> QED
    BY <1>4, <2>1
<1>13. CASE (PrepareNotify(s) \/ PrepareSpawn(s)) /\ ~Return(s)
  <2>1. Goto(s, "prepare_spawn") \/ Goto(s, "prepare_topups")
    BY <1>13 DEF PrepareNotify, PrepareSpawn, ReturnUnlocked
  <2> QED
    BY <1>4, <2>1
<1> QED
  BY <1>3, <1>6, <1>7, <1>8, <1>9, <1>10, <1>11, <1>12, <1>13

LEMMA LearningExact ==
  ASSUME NEW s \in Slots, Untroubled(s),
         \/ AllocCheck(s) \/ PrepareCheck(s) \/ PrepareBalance(s)
         \/ PrepareRate(s) \/ PrepareNotify(s) \/ PrepareSpawn(s)
         \/ SealBalance(s) \/ SealRate(s)
         \/ \E d \in Deposits : SealCall(s, d)
  PROVE  Exact'
  BY LearningSteps, PassesExact, UntroubledFacts

-----------------------------------------------------------------------------
(* Steps that change a deposit, its account or the claims *)

LEMMA SealTransferActs ==
  /\ "seal_transfer" \notin NeutralPcs
  /\ "seal_transfer" \in SealPcs
  /\ "seal_transfer" \notin AnonymousPcs
  BY BooksPcFacts, PhaseFacts DEF AnonymousPcs

\* While a call works on a deposit it is alone in sealing it.
LEMMA SoleSealing ==
  ASSUME Payments, NEW s \in Slots, NEW d \in Deposits, call[s].id = d,
         call[s].pc \notin NeutralPcs, NEW t \in Slots, t # s, call[t].id = d
  PROVE  ~At(t, "seal_transfer")
  BY Apart, SealTransferActs DEF At

LEMMA ActiveExact ==
  ASSUME TypeOK, NEW s \in Slots, NEW d \in Deposits, Exact, Others(s),
         call[s].id \in {d, None}, call'[s].id \in {d, None},
         \A e \in Deposits \ {d} : Kept(e),
         \A t \in Slots \ {s} : call[t].id = d => ~At(t, "seal_transfer"),
         Remains(d)', Affordable(s)', pool_claims' = Total(Amount, Due')
  PROVE  Exact'
<1>1. ASSUME NEW e \in Deposits \ {d}
      PROVE  e \in Sealing' <=> e \in Sealing
  <2>1. \A t \in Slots :
          /\ At(t, "seal_transfer") /\ call[t].id = e => call'[t] = call[t]
          /\ At(t, "seal_transfer")' /\ call'[t].id = e => call'[t] = call[t]
    BY DepositFacts DEF Others
  <2> QED
    BY <2>1 DEF Sealing, At
<1>2. ASSUME NEW e \in Deposits \ {d}
      PROVE  Remains(e)'
  BY <1>1 DEF Exact, Remains, Intact, Whole, Kept
<1>3. ASSUME NEW t \in Slots \ {s}
      PROVE  Affordable(t)'
  <2>1. SUFFICES ASSUME At(t, "seal_transfer")'
                 PROVE  Affordable(t)'
    BY DEF Affordable
  <2>2. call'[t] = call[t] /\ At(t, "seal_transfer")
    BY <2>1 DEF Others, At
  <2>3. call[t].id \in Deposits \ {d}
    BY <2>2, CallFacts, SealTransferActs DEF At
  <2>4. sub'[call[t].id] = sub[call[t].id]
    BY <2>3 DEF Kept
  <2> QED
    BY <2>2, <2>4 DEF Exact, Affordable
<1> QED
  BY <1>2, <1>3 DEF Exact

\* Which of the deposits the claims count, after such a step.
LEMMA DueElsewhere ==
  ASSUME NEW s \in Slots, NEW d \in Deposits, Others(s),
         call[s].id \in {d, None}, call'[s].id \in {d, None},
         \A e \in Deposits \ {d} : Kept(e)
  PROVE  \A e \in Deposits \ {d} : e \in Due' <=> e \in Due
<1>1. ASSUME NEW e \in Deposits \ {d}
      PROVE  e \in Due' <=> e \in Due
  <2>1. \A t \in Slots :
          /\ At(t, "seal_transfer") /\ call[t].id = e => call'[t] = call[t]
          /\ At(t, "seal_transfer")' /\ call'[t].id = e => call'[t] = call[t]
    BY DepositFacts DEF Others
  <2> QED
    BY <2>1 DEF Due, Sealed, Sealing, At, Kept
<1> QED
  BY <1>1

\* A deposit that no seal is paying out is due when it is sealed.
LEMMA DueWhenSealed ==
  ASSUME NEW d \in Deposits,
         \A t \in Slots : call[t].id = d => ~At(t, "seal_transfer")
  PROVE  d \notin Sealing /\ (d \in Due <=> deposits[d].state = "sealed")
  BY DEF Due, Sealed, Sealing

\* A step after which a deposit is due as it was.
LEMMA SameClaims ==
  ASSUME TypeOK, NEW s \in Slots, NEW d \in Deposits, Exact, Others(s),
         call[s].id \in {d, None}, call'[s].id \in {d, None},
         \A e \in Deposits \ {d} : Kept(e),
         \A t \in Slots \ {s} : call[t].id = d => ~At(t, "seal_transfer"),
         Remains(d)', Affordable(s)', d \in Due' <=> d \in Due,
         pool_claims' = pool_claims
  PROVE  Exact'
<1>1. Due' = Due
  <2>1. Due \subseteq Deposits /\ Due' \subseteq Deposits
    BY DEF Due, Sealed, Sealing
  <2>2. \A e \in Deposits \ {d} : e \in Due' <=> e \in Due
    BY DueElsewhere
  <2> QED
    BY <2>1, <2>2
<1>2. pool_claims' = Total(Amount, Due')
  BY <1>1 DEF Exact
<1> QED
  BY <1>2, ActiveExact

LEMMA NotSealing ==
  ASSUME NEW s \in Slots, NEW d \in Deposits, Others(s),
         \A t \in Slots \ {s} : call[t].id = d => ~At(t, "seal_transfer")
  PROVE  /\ ~At(s, "seal_transfer") =>
              d \notin Sealing /\ (d \in Due <=> deposits[d].state = "sealed")
         /\ ~At(s, "seal_transfer")' =>
              /\ d \notin Sealing'
              /\ d \in Due' <=> deposits'[d].state = "sealed"
<1>1. ~At(s, "seal_transfer") => d \notin Sealing
  BY DEF Sealing
<1>2. ~At(s, "seal_transfer")' => d \notin Sealing'
  BY DEF Sealing, At, Others
<1> QED
  BY <1>1, <1>2 DEF Due, Sealed

LEMMA AllocRateExact ==
  ASSUME NEW s \in Slots, Untroubled(s), AllocRate(s)
  PROVE  Exact'
<1>1. /\ TypeOK /\ TypeOK' /\ call[s].pc = "alloc_rate" /\ Payments /\ Exact
      /\ call[s].id \in Deposits
  BY UntroubledFacts DEF AllocRate, At, AnonymousPcs
<1>2. PICK d \in Deposits : d = call[s].id
  BY <1>1
<1>3. PICK r \in Rates :
        /\ UNCHANGED <<sub, funded, alice, issued, pool_claims>> /\ Return(s)
        /\ quote' = [quote EXCEPT ![d] = SpawnFeeEstimate(r)]
        /\ deposits' = [deposits EXCEPT ![d] =
                          [NoDeposit EXCEPT !.state = "allocated"]]
  BY <1>2, NothingFails DEF AllocRate, ledgerVars, serviceVars
<1>4. Others(s) /\ call'[s].pc = "idle" /\ call'[s].id = None
  <2>1. Others(s) /\ call'[s] = Idle
    BY <1>1, <1>3, CallUpdated DEF Return
  <2> QED
    BY <2>1 DEF Idle
<1>5. \A e \in Deposits \ {d} : Kept(e)
  BY <1>1, <1>3 DEF Kept
<1>6. deposits'[d].state = "allocated" /\ deposits[d].state = "none"
  <2>1. deposits'[d].state = "allocated"
    BY <1>1, <1>3 DEF TypeOK, DepositsType, NoDeposit
  <2> QED
    BY <1>1, <1>2, <2>1, UntroubledFacts DEF InFlight, Fits
<1>7. \A t \in Slots \ {s} : call[t].id = d => ~At(t, "seal_transfer")
  BY <1>1, <1>2, BooksPcFacts, SoleSealing
<1>8. d \in Due' <=> d \in Due
  BY <1>1, <1>4, <1>6, <1>7, NotSealing DEF At
<1>9. Remains(d)' /\ Affordable(s)'
  BY <1>4, <1>6 DEF Remains, Affordable, At
<1> QED
  BY <1>1, <1>2, <1>3, <1>4, <1>5, <1>7, <1>8, <1>9, SameClaims

LEMMA PrepareConvertExact ==
  ASSUME NEW s \in Slots, Untroubled(s), PrepareConvert(s)
  PROVE  Exact'
<1>1. /\ TypeOK /\ TypeOK' /\ call[s].pc = "prepare_convert" /\ Payments
      /\ Exact /\ call[s].id \in Deposits
  BY UntroubledFacts DEF PrepareConvert, At, AnonymousPcs
<1>2. PICK d \in Deposits : d = call[s].id
  BY <1>1
<1>3. UNCHANGED <<deposits, quote, funded, alice, issued, pool_claims>>
  BY DEF PrepareConvert, clientVars, quoteVars, serviceVars
<1>4. CASE Return(s) /\ UNCHANGED sub
  <2>1. Others(s) /\ call'[s] = Idle
    BY <1>1, <1>4, CallUpdated DEF Return
  <2>2. call'[s].pc = "idle"
    BY <2>1 DEF Idle
  <2> QED
    BY <1>1, <1>3, <1>4, <2>1, <2>2, PassesExact DEF At
<1>5. CASE /\ sub' = [sub EXCEPT ![d] = After(@, call[s].amt)]
           /\ Goto(s, "prepare_notify")
  <2>1. Others(s) /\ call'[s].pc = "prepare_notify" /\ call'[s].id = d
    BY <1>1, <1>2, <1>5, GotoUpdates
  <2>2. \A e \in Deposits \ {d} : Kept(e)
    BY <1>1, <1>3, <1>5 DEF Kept, TypeOK, LedgerType
  <2>3. deposits[d].state = "allocated"
    BY <1>1, <1>2, PhaseFacts, UntroubledFacts DEF InFlight, Fits
  <2>4. \A t \in Slots \ {s} : call[t].id = d => ~At(t, "seal_transfer")
    BY <1>1, <1>2, BooksPcFacts, PhasesApart, SoleSealing
  <2>5. d \in Due' <=> d \in Due
    BY <1>1, <1>3, <2>1, <2>4, NotSealing DEF At
  <2>6. Remains(d)' /\ Affordable(s)'
    BY <1>3, <2>1, <2>3 DEF Remains, Affordable, At
  <2> QED
    BY <1>1, <1>2, <1>3, <2>1, <2>2, <2>4, <2>5, <2>6, SameClaims
<1> QED
  BY <1>2, <1>4, <1>5 DEF PrepareConvert, ReturnUnlocked

LEMMA PrepareTopUpsExact ==
  ASSUME NEW s \in Slots, Untroubled(s), PrepareTopUps(s)
  PROVE  Exact'
<1>1. /\ TypeOK /\ TypeOK' /\ call[s].pc = "prepare_topups" /\ Payments
      /\ Exact /\ call[s].id \in Deposits
  BY UntroubledFacts DEF PrepareTopUps, At, AnonymousPcs
<1>2. PICK d \in Deposits : d = call[s].id
  BY <1>1
<1>3. /\ UNCHANGED <<sub, quote, funded, alice, issued, pool_claims>>
      /\ Return(s)
      /\ deposits' = [deposits EXCEPT ![d] =
                       [NoDeposit EXCEPT !.state = "created",
                                         !.spawn_fee = call[s].amt + LEDGER_FEE]]
  BY <1>2 DEF PrepareTopUps, ReturnUnlocked, clientVars, quoteVars, serviceVars,
              ledgerVars
<1>4. Others(s) /\ call'[s].pc = "idle" /\ call'[s].id = None
  <2>1. Others(s) /\ call'[s] = Idle
    BY <1>1, <1>3, CallUpdated DEF Return
  <2> QED
    BY <2>1 DEF Idle
<1>5. \A e \in Deposits \ {d} : Kept(e)
  BY <1>1, <1>3 DEF Kept
<1>6. /\ deposits'[d].state = "created" /\ deposits[d].state = "allocated"
      /\ deposits'[d].spawn_fee = call[s].amt + LEDGER_FEE
  <2>1. /\ deposits'[d].state = "created"
        /\ deposits'[d].spawn_fee = call[s].amt + LEDGER_FEE
    BY <1>1, <1>3 DEF TypeOK, DepositsType, NoDeposit
  <2> QED
    BY <1>1, <1>2, <2>1, PhaseFacts, UntroubledFacts DEF InFlight, Fits
<1>7. \A t \in Slots \ {s} : call[t].id = d => ~At(t, "seal_transfer")
  BY <1>1, <1>2, BooksPcFacts, PhasesApart, SoleSealing
<1>8. d \in Due' <=> d \in Due
  BY <1>1, <1>4, <1>6, <1>7, NotSealing DEF At
<1>9. Intact(d)'
  <2>1. d \in funded /\ sub[d] + call[s].amt + LEDGER_FEE = Whole(d)
    BY <1>1, <1>2, BooksPcFacts, UntroubledFacts DEF CalmCall
  <2>2. sub[d] \in Nat /\ call[s].amt \in Nat /\ LEDGER_FEE \in Nat
    BY <1>1, WholeNat, CallFacts, ParameterFacts
  <2>3. sub'[d] + deposits'[d].spawn_fee = Whole(d)
    BY <1>3, <1>6, <2>1, <2>2
  <2>4. Whole(d)' = Whole(d)
    BY <1>3 DEF Whole
  <2> QED
    BY <1>3, <2>1, <2>3, <2>4 DEF Intact
<1>10. Remains(d)' /\ Affordable(s)'
  BY <1>4, <1>9 DEF Remains, Affordable, At
<1> QED
  BY <1>1, <1>2, <1>3, <1>4, <1>5, <1>7, <1>8, <1>10, SameClaims

\* What a seal computes for a deposit that holds what deposit_prepare left.
LEMMA SealIsExact ==
  ASSUME SealsGoThrough, TypeOK, NEW d \in Deposits, Intact(d), QuoteTrue(d),
         NEW r \in Rates,
         \E x \in Conversions(d) : deposits[d].spawn_fee = x + LEDGER_FEE
  PROVE  LET split == SealSplit(sub[d], deposits[d].spawn_fee, r, Pct[d])
         IN  /\ split.claim = Amount[d]
             /\ (split.fee_buffer + LEDGER_FEE)
                  + (Amount[d] + MAX_POOL_TRANSFERS * LEDGER_FEE) <= sub[d]
<1>1. d \in funded /\ sub[d] + deposits[d].spawn_fee = Whole(d)
  BY DEF Intact
<1>2. quote[d] > 0
  BY <1>1 DEF QuoteTrue
<1>3. PICK r1 \in Rates : quote[d] = SpawnFeeEstimate(r1)
  BY <1>2, WholeNat DEF QuoteTrue
<1>4. PICK r2 \in Rates :
        deposits[d].spawn_fee = ConvertAmount(Whole(d), r2, Pct[d]) + LEDGER_FEE
  BY DEF Conversions
<1> DEFINE whole == RouterDeposit(Amount[d], SpawnFeeEstimate(r1))
           spent == ConvertAmount(whole, r2, Pct[d]) + LEDGER_FEE
           rest == whole - spent
           split == SealSplit(rest, spent, r, Pct[d])
<1>5. whole = Whole(d) /\ spent = deposits[d].spawn_fee
  BY <1>3, <1>4 DEF Whole
<1>6. /\ split.claim = Amount[d]
      /\ (split.fee_buffer + LEDGER_FEE)
           + (Amount[d] + MAX_POOL_TRANSFERS * LEDGER_FEE) <= rest
  BY DEF SealsGoThrough
<1>7. rest = sub[d]
  <2>1. sub[d] \in Nat /\ deposits[d].spawn_fee \in Nat /\ Whole(d) \in Nat
    BY WholeNat
  <2> HIDE DEF whole, spent
  <2> QED
    BY <1>1, <1>5, <2>1
<1> HIDE DEF whole, spent, rest
<1> QED
  BY <1>5, <1>6, <1>7

\* A seal with which nothing has failed claims what Alice seals for Bob.
LEMMA SealClaims ==
  ASSUME SealsGoThrough, NEW s \in Slots, Untroubled(s), SealCompute(s)
  PROVE  LET d == call[s].id
             split == SealSplit(call[s].bal, call[s].spawn_fee, call[s].rate,
                                Pct[d])
         IN  /\ split.claim = Amount[d]
             /\ (split.fee_buffer + LEDGER_FEE)
                  + (Amount[d] + MAX_POOL_TRANSFERS * LEDGER_FEE) <= sub[d]
<1>1. /\ TypeOK /\ call[s].pc = "seal_compute" /\ Payments /\ Books
      /\ Exact /\ Calm /\ call[s].id \in Deposits
  BY UntroubledFacts DEF SealCompute, At, AnonymousPcs
<1>2. PICK d \in Deposits : d = call[s].id
  BY <1>1
<1>3. /\ deposits[d].state = "created" /\ alice[d] = 0
      /\ call[s].spawn_fee = deposits[d].spawn_fee
  BY <1>1, <1>2, PhaseFacts, UntroubledFacts DEF InFlight, Fits, CallTrue
<1>4. d \notin Sealing
  <2>1. \A t \in Slots \ {s} : call[t].id = d => ~At(t, "seal_transfer")
    BY <1>1, <1>2, PhaseFacts, PhasesApart, SoleSealing
  <2> QED
    BY <1>1, <1>2, <2>1 DEF Sealing, At
<1>5. Intact(d)
  BY <1>1, <1>3, <1>4 DEF Exact, Remains
<1>6. call[s].bal = sub[d] /\ call[s].rate \in Rates
  BY <1>1, <1>2, UntroubledFacts DEF CalmCall
<1>7. QuoteTrue(d) /\ CalmDeposit(d)
  BY <1>1 DEF Books
<1>8. \E x \in Conversions(d) : deposits[d].spawn_fee = x + LEDGER_FEE
  BY <1>3, <1>7 DEF CalmDeposit
<1> QED
  BY <1>1, <1>2, <1>3, <1>5, <1>6, <1>7, <1>8, SealIsExact

LEMMA SealComputeExact ==
  ASSUME SealsGoThrough, NEW s \in Slots, Untroubled(s), SealCompute(s)
  PROVE  Exact'
<1>1. /\ TypeOK /\ TypeOK' /\ call[s].pc = "seal_compute" /\ Payments /\ Books
      /\ Exact /\ Calm /\ call[s].id \in Deposits /\ IsFiniteSet(Deposits)
  BY UntroubledFacts DEF SealCompute, At, AnonymousPcs
<1>2. PICK d \in Deposits : d = call[s].id
  BY <1>1
<1> DEFINE split == SealSplit(call[s].bal, call[s].spawn_fee, call[s].rate,
                              Pct[d])
           claim == split.claim
           share == split.fee_buffer
           residue == Residue(split.to_cycles, call[s].spawn_fee)
           parts == Decompose(Byte[d])[claim]
           c == [call[s] EXCEPT !.pc = "seal_transfer", !.bal = 0,
                                !.amt = residue, !.rest = parts]
<1>3. share \in Nat
  BY <1>1, SplitFacts
<1>4. \A t \in Slots \ {s} : call[t].id = d => ~At(t, "seal_transfer")
  BY <1>1, <1>2, PhaseFacts, PhasesApart, SoleSealing
<1>5. d \notin Sealing /\ (d \in Due <=> deposits[d].state = "sealed")
  <2>1. ~At(s, "seal_transfer")
    BY <1>1 DEF At
  <2> QED
    BY <1>2, <1>4, <2>1, DueWhenSealed
<1>6. /\ deposits[d].state = "created" /\ alice[d] = 0
      /\ call[s].spawn_fee = deposits[d].spawn_fee
  BY <1>1, <1>2, PhaseFacts, UntroubledFacts DEF InFlight, Fits, CallTrue
<1>7. /\ claim = Amount[d]
      /\ (share + LEDGER_FEE) + (Amount[d] + MAX_POOL_TRANSFERS * LEDGER_FEE)
           <= sub[d]
  BY <1>2, SealClaims
<1>8. LEDGER_FEE \in Nat /\ sub[d] \in Nat /\ Amount[d] \in Nat
  BY <1>1, ParameterFacts, WholeNat, DepositFacts
<1>9. Covers(sub[d], share)
  BY <1>3, <1>7, <1>8 DEF Covers, MAX_POOL_TRANSFERS
<1>10. /\ UNCHANGED <<deposits, quote, funded, alice, issued>>
       /\ pool_claims' = pool_claims + claim
       /\ sub' = [sub EXCEPT ![d] = After(@, share)]
       /\ call' = [call EXCEPT ![s] = c]
  BY <1>2, <1>9, NothingFails
     DEF SealCompute, clientVars, quoteVars, serviceVars
<1>11. c.pc = "seal_transfer" /\ c.id = d /\ c.rest = parts
  BY <1>1, <1>2, CallFacts DEF CallRecords
<1> HIDE DEF c
<1>12. Others(s) /\ call'[s] = c
  BY <1>1, <1>10, CallUpdated
<1> HIDE DEF share, claim
<1>13. \A e \in Deposits \ {d} : Kept(e)
  BY <1>1, <1>10 DEF Kept, TypeOK, LedgerType
<1>14. /\ Len(parts) <= MAX_POOL_TRANSFERS /\ Len(parts) \in Nat
       /\ Sum(parts) = Amount[d]
  <2>1. parts \in Seq(Nat)
    BY <1>7, <1>8, DepositFacts, TransfersAddUp
  <2>2. Len(parts) <= MAX_POOL_TRANSFERS /\ Sum(parts) = claim
    BY <1>7, <1>8, DepositFacts, TransfersAddUp
  <2>3. Len(parts) \in Nat
    <3> HIDE DEF parts
    <3> QED
      BY <2>1
  <2> QED
    BY <1>7, <2>2, <2>3
<1> HIDE DEF parts
<1>15. Affordable(s)'
  <2>1. sub'[d] = sub[d] - (share + LEDGER_FEE)
    BY <1>1, <1>10 DEF TypeOK, LedgerType, After
  <2>2. PICK n \in Nat : n = Len(parts) /\ n <= 5
    BY <1>14 DEF MAX_POOL_TRANSFERS
  <2>3. n * LEDGER_FEE \in Nat /\ n * LEDGER_FEE <= 5 * LEDGER_FEE
    <3>1. n = 0 \/ n = 1 \/ n = 2 \/ n = 3 \/ n = 4 \/ n = 5
      BY <2>2
    <3> QED
      BY <1>8, <3>1
  <2>4. Sum(parts) + n * LEDGER_FEE <= sub'[d]
    BY <1>3, <1>7, <1>8, <1>14, <2>1, <2>3 DEF MAX_POOL_TRANSFERS
  <2> QED
    BY <1>11, <1>12, <1>14, <2>2, <2>4 DEF Affordable
<1>16. d \in Sealing' /\ d \notin Due /\ Remains(d)'
  <2>1. d \in Sealing'
    BY <1>11, <1>12 DEF Sealing, At
  <2> QED
    BY <1>5, <1>6, <2>1 DEF Remains
<1>17. Due' = Due \cup {d}
  <2>1. \A e \in Deposits \ {d} : e \in Due' <=> e \in Due
    BY <1>2, <1>11, <1>12, <1>13, DueElsewhere
  <2>2. Due \subseteq Deposits /\ Due' \subseteq Deposits /\ d \in Due'
    BY <1>16 DEF Due, Sealed, Sealing
  <2> QED
    BY <2>1, <2>2
<1>18. pool_claims' = Total(Amount, Due')
  <2>1. Due \in SUBSET Deposits
    BY DEF Due, Sealed, Sealing
  <2>2. Total(Amount, Due \cup {d}) = Amount[d] + Total(Amount, Due)
    BY <1>1, <1>16, <2>1, OwedNat, AmountNat, TotalAdd
  <2>3. pool_claims = Total(Amount, Due) /\ pool_claims \in Nat
    BY <1>1 DEF Exact, TypeOK, ServiceType
  <2> QED
    BY <1>7, <1>8, <1>10, <1>17, <2>2, <2>3
<1> QED
  BY <1>1, <1>2, <1>4, <1>11, <1>12, <1>13, <1>15, <1>16, <1>18, ActiveExact

LEMMA SealTransferExact ==
  ASSUME NEW s \in Slots, Untroubled(s), SealTransfer(s)
  PROVE  Exact'
<1>1. /\ TypeOK /\ TypeOK' /\ call[s].pc = "seal_transfer" /\ Payments
      /\ Exact /\ call[s].id \in Deposits
      /\ call[s].rest \in Seq(Nat) /\ call[s].rest # <<>>
  BY UntroubledFacts, CallFacts DEF SealTransfer, At, AnonymousPcs
<1>2. PICK d \in Deposits : d = call[s].id
  BY <1>1
<1>3. PICK t \in Seq(Nat) : t = call[s].rest /\ t # <<>>
  BY <1>1
<1>4. /\ Covers(sub[d], Head(t)) /\ Len(Tail(t)) <= MAX_POOL_TRANSFERS
      /\ Sum(Tail(t)) + Len(Tail(t)) * LEDGER_FEE <= After(sub[d], Head(t))
  <2>1. Len(t) <= MAX_POOL_TRANSFERS /\ Sum(t) + Len(t) * LEDGER_FEE <= sub[d]
    BY <1>1, <1>2, <1>3 DEF Exact, Affordable, At
  <2> QED
    BY <1>1, <1>3, <2>1, WholeNat, OutlayOfRest
<1> DEFINE c == [call[s] EXCEPT !.rest = Tail(t)]
<1>5. /\ UNCHANGED <<deposits, quote, funded, alice, issued, pool_claims>>
      /\ sub' = [sub EXCEPT ![d] = After(@, Head(t))]
      /\ call' = [call EXCEPT ![s].rest = Tail(@)]
  BY <1>2, <1>3, <1>4, NothingFails
     DEF SealTransfer, clientVars, quoteVars, serviceVars
<1>6. call' = [call EXCEPT ![s] = c]
  BY <1>3, <1>5
<1>7. c.pc = "seal_transfer" /\ c.id = d /\ c.rest = Tail(t)
  BY <1>1, <1>2, CallFacts DEF CallRecords
<1> HIDE DEF c
<1>8. Others(s) /\ call'[s] = c
  BY <1>1, <1>6, CallUpdated
<1>9. \A e \in Deposits \ {d} : Kept(e)
  BY <1>1, <1>5 DEF Kept, TypeOK, LedgerType
<1>10. \A u \in Slots \ {s} : call[u].id = d => ~At(u, "seal_transfer")
  BY <1>1, <1>2, SealTransferActs, SoleSealing
<1>11. sub'[d] = After(sub[d], Head(t))
  BY <1>1, <1>5 DEF TypeOK, LedgerType
<1>12. Affordable(s)'
  BY <1>4, <1>7, <1>8, <1>11 DEF Affordable
<1>13. d \in Sealing /\ d \in Sealing'
  BY <1>1, <1>2, <1>7, <1>8 DEF Sealing, At
<1>14. Remains(d)' /\ (d \in Due' <=> d \in Due)
  BY <1>13 DEF Remains, Due
<1> QED
  BY <1>1, <1>2, <1>5, <1>7, <1>8, <1>9, <1>10, <1>12, <1>14, SameClaims

LEMMA SealConvertExact ==
  ASSUME NEW s \in Slots, Untroubled(s), SealConvert(s)
  PROVE  Exact'
<1>1. /\ TypeOK /\ TypeOK' /\ call[s].pc = "seal_transfer" /\ Payments
      /\ Exact /\ call[s].id \in Deposits /\ call[s].rest = <<>>
  BY UntroubledFacts, CallFacts DEF SealConvert, At, AnonymousPcs
<1>2. PICK d \in Deposits : d = call[s].id
  BY <1>1
<1> DEFINE c == [call[s] EXCEPT !.amt = 0]
<1>3. /\ UNCHANGED <<deposits, quote, funded, alice, issued, pool_claims>>
      /\ \/ UNCHANGED sub
         \/ sub' = [sub EXCEPT ![d] = After(@, call[s].amt)]
      /\ call' = [call EXCEPT ![s] = c]
  BY <1>2 DEF SealConvert, clientVars, quoteVars, routerVars, serviceVars
<1>4. c.pc = "seal_transfer" /\ c.id = d /\ c.rest = <<>>
  BY <1>1, <1>2, CallFacts DEF CallRecords
<1> HIDE DEF c
<1>5. Others(s) /\ call'[s] = c
  BY <1>1, <1>3, CallUpdated
<1>6. \A e \in Deposits \ {d} : Kept(e)
  BY <1>1, <1>3 DEF Kept, TypeOK, LedgerType
<1>7. \A u \in Slots \ {s} : call[u].id = d => ~At(u, "seal_transfer")
  BY <1>1, <1>2, SealTransferActs, SoleSealing
<1>8. Affordable(s)'
  <2>1. Len(<<>>) = 0 /\ Sum(<<>>) = 0
    <3>1. Len(<<>>) = 0
      OBVIOUS
    <3>2. \A i \in 1..5 : Part(<<>>, i) = 0
      BY <3>1 DEF Part
    <3> QED
      BY <3>1, <3>2 DEF Sum
  <2>2. sub'[d] \in Nat /\ LEDGER_FEE \in Nat
    BY <1>1, WholeNat, ParameterFacts DEF TypeOK, LedgerType
  <2>3. Sum(<<>>) + 0 * LEDGER_FEE <= sub'[d] /\ 0 <= MAX_POOL_TRANSFERS
    BY <2>1, <2>2 DEF MAX_POOL_TRANSFERS
  <2> QED
    BY <1>4, <1>5, <2>1, <2>3 DEF Affordable
<1>9. d \in Sealing /\ d \in Sealing'
  BY <1>1, <1>2, <1>4, <1>5 DEF Sealing, At
<1>10. Remains(d)' /\ (d \in Due' <=> d \in Due)
  BY <1>9 DEF Remains, Due
<1> QED
  BY <1>1, <1>2, <1>3, <1>4, <1>5, <1>6, <1>7, <1>8, <1>10, SameClaims

LEMMA SealCommitExact ==
  ASSUME NEW s \in Slots, Untroubled(s), SealCommit(s)
  PROVE  Exact'
<1>1. /\ TypeOK /\ TypeOK' /\ call[s].pc = "seal_transfer" /\ Payments
      /\ Exact /\ call[s].id \in Deposits
  BY UntroubledFacts DEF SealCommit, At, AnonymousPcs
<1>2. PICK d \in Deposits : d = call[s].id
  BY <1>1
<1> DEFINE pc == IF seal_count' = 0 /\ call[s].rate > 0
                 THEN "recycle_read" ELSE "leftover"
           c == [call[s] EXCEPT !.pc = pc, !.spawn_fee = 0]
<1>3. /\ UNCHANGED <<sub, quote, funded, alice, issued, pool_claims>>
      /\ deposits' = [deposits EXCEPT ![d] =
                        [NoDeposit EXCEPT !.state = "sealed",
                                          !.spawn_fee = call[s].spawn_fee]]
      /\ call' = [call EXCEPT ![s] = c]
  BY <1>2 DEF SealCommit, ledgerVars, clientVars, quoteVars
<1>4. pc # "seal_transfer"
  OBVIOUS
<1> HIDE DEF pc
<1>5. c.pc = pc /\ c.id = d
  BY <1>1, <1>2, CallFacts DEF CallRecords
<1> HIDE DEF c
<1>6. Others(s) /\ call'[s] = c
  BY <1>1, <1>3, CallUpdated
<1>7. deposits'[d].state = "sealed"
  BY <1>1, <1>3 DEF TypeOK, DepositsType, NoDeposit
<1>8. \A e \in Deposits \ {d} : Kept(e)
  BY <1>1, <1>3 DEF Kept
<1>9. \A u \in Slots \ {s} : call[u].id = d => ~At(u, "seal_transfer")
  BY <1>1, <1>2, SealTransferActs, SoleSealing
<1>10. Affordable(s)' /\ Remains(d)'
  BY <1>4, <1>5, <1>6, <1>7 DEF Affordable, At, Remains
<1>11. d \in Due' /\ d \in Due
  BY <1>1, <1>2, <1>7 DEF Due, Sealing, Sealed, At
<1> QED
  BY <1>1, <1>2, <1>3, <1>5, <1>6, <1>8, <1>9, <1>10, <1>11, SameClaims

LEMMA LeftoverExact ==
  ASSUME NEW s \in Slots, Untroubled(s), SealLeftover(s) \/ ReclaimLeftover(s)
  PROVE  Exact'
<1>1. /\ TypeOK /\ TypeOK' /\ Payments /\ Exact
      /\ call[s].pc \in {"leftover", "reclaim_leftover"}
      /\ call[s].id \in Deposits
  BY UntroubledFacts DEF SealLeftover, ReclaimLeftover, At, AnonymousPcs
<1>2. PICK d \in Deposits : d = call[s].id
  BY <1>1
<1>3. /\ UNCHANGED <<deposits, quote, funded, alice, issued, pool_claims>>
      /\ UNCHANGED sub \/ sub' = [sub EXCEPT ![d] = 0]
      /\ Goto(s, "sweep_read") \/ Return(s)
  BY <1>2
     DEF SealLeftover, ReclaimLeftover, SweepLeftover, clientVars, quoteVars,
         serviceVars, routerVars
<1>4. /\ Others(s) /\ call'[s].id \in {d, None}
      /\ call'[s].pc # "seal_transfer"
  <2>1. CASE Goto(s, "sweep_read")
    BY <1>1, <1>2, <2>1, GotoUpdates
  <2>2. CASE Return(s)
    <3>1. Others(s) /\ call'[s] = Idle
      BY <1>1, <2>2, CallUpdated DEF Return
    <3> QED
      BY <3>1 DEF Idle
  <2> QED
    BY <1>3, <2>1, <2>2
<1>5. deposits[d].state \notin {"allocated", "created"}
  BY <1>1, <1>2, PastFacts, DepositFacts, UntroubledFacts DEF CallTrue
<1>6. \A e \in Deposits \ {d} : Kept(e)
  BY <1>1, <1>3 DEF Kept, TypeOK, LedgerType
<1>7. \A u \in Slots \ {s} : call[u].id = d => ~At(u, "seal_transfer")
  BY <1>1, <1>5, SealTransferActs
     DEF Payments, PaymentsMatchRecords, InFlight, Fits, At
<1>8. d \in Due' <=> d \in Due
  BY <1>1, <1>3, <1>4, <1>7, NotSealing DEF At
<1>9. Affordable(s)' /\ Remains(d)'
  BY <1>3, <1>4, <1>5 DEF Affordable, At, Remains
<1> QED
  BY <1>1, <1>2, <1>3, <1>4, <1>6, <1>7, <1>8, <1>9, SameClaims

LEMMA FinalizeCommitExact ==
  ASSUME RecordsAreKept, NEW s \in Slots, Untroubled(s), FinalizeCommit(s)
  PROVE  Exact'
<1>1. /\ TypeOK /\ TypeOK' /\ Payments /\ Exact /\ IsFiniteSet(Deposits)
      /\ call[s].pc = "fin_commit" /\ call[s].id \in Deposits
  BY UntroubledFacts DEF FinalizeCommit, At, AnonymousPcs
<1>2. PICK d \in Deposits : d = call[s].id
  BY <1>1
<1>3. /\ UNCHANGED <<sub, quote, funded, alice, issued>> /\ Return(s)
      /\ pool_claims' = Monus(pool_claims, Amount[d])
      /\ deposits' = [deposits EXCEPT ![d] = NoDeposit]
  BY <1>2 DEF FinalizeCommit, ReturnUnlocked, serviceVars, ledgerVars,
              clientVars, quoteVars
<1>4. Others(s) /\ call'[s].pc = "idle" /\ call'[s].id = None
  <2>1. Others(s) /\ call'[s] = Idle
    BY <1>1, <1>3, CallUpdated DEF Return
  <2> QED
    BY <2>1 DEF Idle
<1>5. deposits'[d].state = "none" /\ deposits[d].state = "sealed"
  <2>1. deposits'[d].state = "none"
    BY <1>1, <1>3 DEF TypeOK, DepositsType, NoDeposit
  <2>2. Payable(d)
    BY <1>1, <1>2, UntroubledFacts DEF InFlight, Fits
  <2> QED
    BY <2>1, <2>2 DEF Payable, RecordsAreKept
<1>6. \A e \in Deposits \ {d} : Kept(e)
  BY <1>1, <1>3 DEF Kept
<1>7. \A u \in Slots \ {s} : call[u].id = d => ~At(u, "seal_transfer")
  BY <1>1, <1>2, PhasesApart, SoleSealing
<1>8. d \notin Due' /\ d \in Due
  BY <1>1, <1>4, <1>5, <1>7, NotSealing DEF At
<1>9. Affordable(s)' /\ Remains(d)'
  BY <1>4, <1>5 DEF Affordable, At, Remains
<1>10. Due' = Due \ {d}
  <2>1. \A e \in Deposits \ {d} : e \in Due' <=> e \in Due
    BY <1>2, <1>4, <1>6, DueElsewhere
  <2>2. Due \subseteq Deposits /\ Due' \subseteq Deposits
    BY DEF Due, Sealed, Sealing
  <2> QED
    BY <1>8, <2>1, <2>2
<1>11. pool_claims' = Total(Amount, Due')
  <2>1. Due \in SUBSET Deposits /\ Due \ {d} \in SUBSET Deposits
    BY DEF Due, Sealed, Sealing
  <2>2. IsFiniteSet(Due) /\ \A e \in Due : Amount[e] \in Nat
    BY <1>1, <2>1, OwedNat, AmountNat
  <2>3. Total(Amount, Due) = Amount[d] + Total(Amount, Due \ {d})
    BY <1>8, <2>2, TotalRemove
  <2>4. Total(Amount, Due \ {d}) \in Nat /\ Amount[d] \in Nat
    BY <1>1, <2>1, OwedNat, AmountNat
  <2>5. pool_claims = Total(Amount, Due)
    BY <1>1 DEF Exact
  <2>6. Monus(pool_claims, Amount[d]) = Total(Amount, Due \ {d})
    BY <2>3, <2>4, <2>5 DEF Monus
  <2> QED
    BY <1>3, <1>10, <2>6
<1> QED
  BY <1>1, <1>2, <1>4, <1>6, <1>7, <1>9, <1>11, ActiveExact

LEMMA ReclaimTransferExact ==
  ASSUME NEW s \in Slots, Untroubled(s), ReclaimTransfer(s)
  PROVE  Exact'
<1>1. /\ TypeOK /\ TypeOK' /\ Payments /\ Exact
      /\ call[s].pc = "reclaim_transfer" /\ call[s].id \in Deposits
  BY UntroubledFacts DEF ReclaimTransfer, At, AnonymousPcs
<1>2. PICK d \in Deposits : d = call[s].id
  BY <1>1
<1> DEFINE refund == Monus(call[s].bal, LEDGER_FEE)
<1>3. refund \in Nat
  BY <1>1, CallFacts, ParameterFacts, MonusNat
<1>4. UNCHANGED <<deposits, quote, funded, issued, pool_claims>>
  BY DEF ReclaimTransfer, clientVars, quoteVars, serviceVars
<1>5. \/ Return(s) /\ UNCHANGED <<sub, alice>>
      \/ /\ refund > 0
         /\ sub' = [sub EXCEPT ![d] = After(@, refund)]
         /\ alice' = [alice EXCEPT ![d] = @ + refund]
         /\ Goto(s, "reclaim_commit")
  BY <1>2 DEF ReclaimTransfer, ReturnUnlocked
<1> HIDE DEF refund
<1>6. CASE Return(s) /\ UNCHANGED <<sub, alice>>
  <2>1. Others(s) /\ call'[s] = Idle
    BY <1>1, <1>6, CallUpdated DEF Return
  <2>2. call'[s].pc = "idle"
    BY <2>1 DEF Idle
  <2> QED
    BY <1>1, <1>4, <1>6, <2>1, <2>2, PassesExact DEF At
<1>7. CASE /\ refund > 0
           /\ sub' = [sub EXCEPT ![d] = After(@, refund)]
           /\ alice' = [alice EXCEPT ![d] = @ + refund]
           /\ Goto(s, "reclaim_commit")
  <2>1. Others(s) /\ call'[s].pc = "reclaim_commit" /\ call'[s].id = d
    BY <1>1, <1>2, <1>7, GotoUpdates
  <2>2. \A e \in Deposits \ {d} : Kept(e)
    BY <1>1, <1>4, <1>7 DEF Kept, TypeOK, LedgerType
  <2>3. alice'[d] # 0
    <3>1. alice'[d] = alice[d] + refund /\ alice[d] \in Nat
      BY <1>1, <1>7, WholeNat DEF TypeOK, LedgerType
    <3> QED
      BY <1>3, <1>7, <3>1
  <2>4. \A u \in Slots \ {s} : call[u].id = d => ~At(u, "seal_transfer")
    BY <1>1, <1>2, PhaseFacts, PhasesApart, SoleSealing
  <2>5. d \in Due' <=> d \in Due
    BY <1>1, <1>4, <2>1, <2>4, NotSealing DEF At
  <2>6. Affordable(s)' /\ Remains(d)'
    BY <2>1, <2>3 DEF Affordable, At, Remains
  <2> QED
    BY <1>1, <1>2, <1>4, <2>1, <2>2, <2>4, <2>5, <2>6, SameClaims
<1> QED
  BY <1>5, <1>6, <1>7

LEMMA ReclaimCommitExact ==
  ASSUME NEW s \in Slots, Untroubled(s), ReclaimCommit(s)
  PROVE  Exact'
<1>1. /\ TypeOK /\ TypeOK' /\ Payments /\ Exact
      /\ call[s].pc = "reclaim_commit" /\ call[s].id \in Deposits
  BY UntroubledFacts DEF ReclaimCommit, At, AnonymousPcs
<1>2. PICK d \in Deposits : d = call[s].id
  BY <1>1
<1> DEFINE c == [call[s] EXCEPT !.pc = "reclaim_leftover", !.bal = 0]
<1>3. /\ UNCHANGED <<sub, quote, funded, alice, issued, pool_claims>>
      /\ deposits' = [deposits EXCEPT ![d] = NoDeposit]
      /\ call' = [call EXCEPT ![s] = c]
  BY <1>2 DEF ReclaimCommit, ledgerVars, clientVars, quoteVars, serviceVars
<1>4. c.pc = "reclaim_leftover" /\ c.id = d
  BY <1>1, <1>2, CallFacts DEF CallRecords
<1> HIDE DEF c
<1>5. Others(s) /\ call'[s] = c
  BY <1>1, <1>3, CallUpdated
<1>6. deposits'[d].state = "none" /\ deposits[d].state = "created"
  <2>1. deposits'[d].state = "none"
    BY <1>1, <1>3 DEF TypeOK, DepositsType, NoDeposit
  <2> QED
    BY <1>1, <1>2, <2>1, UntroubledFacts DEF InFlight, Fits
<1>7. \A e \in Deposits \ {d} : Kept(e)
  BY <1>1, <1>3 DEF Kept
<1>8. \A u \in Slots \ {s} : call[u].id = d => ~At(u, "seal_transfer")
  BY <1>1, <1>2, PhasesApart, SoleSealing
<1>9. d \in Due' <=> d \in Due
  BY <1>1, <1>4, <1>5, <1>6, <1>8, NotSealing DEF At
<1>10. Affordable(s)' /\ Remains(d)'
  BY <1>4, <1>5, <1>6 DEF Affordable, At, Remains
<1> QED
  BY <1>1, <1>2, <1>3, <1>4, <1>5, <1>7, <1>8, <1>9, <1>10, SameClaims

-----------------------------------------------------------------------------
(* The steps of a call, of the environment, and the theorem *)

LEMMA CallExact ==
  ASSUME SealsGoThrough, RecordsAreKept, NEW s \in Slots, Untroubled(s),
         Start(s) \/ Continue(s)
  PROVE  Exact'
<1>1. TypeOK /\ LockStep(s) /\ Payments
  BY UntroubledFacts DEF Ready
<1>2. Idles(s) => Exact'
  BY IdlesExact
<1>3. CASE Start(s)
  <2>1. At(s, "idle") => call[s].id = None
    BY <1>1 DEF Payments, Exclusive, IdleCalls
  <2>2. AdminSweepPool(s) => call[s].id = None
    BY <2>1 DEF AdminSweepPool, Called
  <2>3. ASSUME NEW d \in Deposits, SealCall(s, d)
        PROVE  Exact'
    BY <2>3, LearningExact
  <2> QED
    BY <1>1, <1>2, <1>3, <2>2, <2>3, StartIdles DEF Start
<1>4. CASE AllocStep(s)
  BY <1>1, <1>2, <1>4, AllocSecretIdles, LearningExact, AllocRateExact
     DEF AllocStep
<1>5. CASE PrepareStep(s)
  BY <1>1, <1>2, <1>5, PrepareSecretIdles, LearningExact,
     PrepareConvertExact, PrepareTopUpsExact, RejectIdles
     DEF PrepareStep
<1>6. CASE SealStep(s)
  BY <1>1, <1>2, <1>6, LearningExact, SealComputeExact, SealTransferExact,
     SealConvertExact, SealCommitExact, RejectIdles
     DEF SealStep
<1>7. CASE MaintenanceStep(s)
  BY <1>1, <1>2, <1>7, RecycleIdles, SweepIdles, LeftoverExact
     DEF MaintenanceStep
<1>8. CASE FinalizeStep(s)
  BY <1>1, <1>2, <1>8, FinalizeIdles, FinalizeCommitExact, RejectIdles
     DEF FinalizeStep
<1>9. CASE ReclaimStep(s)
  BY <1>1, <1>2, <1>9, ReclaimBalanceIdles, ReclaimTransferExact,
     ReclaimCommitExact, LeftoverExact
     DEF ReclaimStep
<1> QED
  BY <1>3, <1>4, <1>5, <1>6, <1>7, <1>8, <1>9 DEF Continue

LEMMA UnchangedExact ==
  ASSUME Exact,
         UNCHANGED <<deposits, sub, quote, funded, alice, pool_claims, call>>
  PROVE  Exact'
<1>1. Due' = Due /\ Sealing' = Sealing
  BY DEF Due, Sealed, Sealing, At
<1>2. \A d \in Deposits : Remains(d)'
  BY <1>1 DEF Exact, Remains, Intact, Whole
<1>3. \A s \in Slots : Affordable(s)'
  BY DEF Exact, Affordable, At
<1> QED
  BY <1>1, <1>2, <1>3 DEF Exact

\* Who has a deposit to seal has paid for it already.
LEMMA FundExact ==
  ASSUME Payments, Books, Calm, Exact, NEW d \in Deposits, Fund(d)
  PROVE  Exact'
<1>1. /\ UNCHANGED <<deposits, quote, alice, pool_claims, call>>
      /\ d \notin funded /\ funded' = funded \cup {d}
      /\ \A e \in Deposits \ {d} : sub'[e] = sub[e]
  BY DEF Fund, routerVars, serviceVars, Payments, Exclusive, TypeOK, LedgerType
<1>2. deposits[d].state # "created"
  BY <1>1 DEF Books, CalmDeposit
<1>3. Due' = Due /\ Sealing' = Sealing
  BY <1>1 DEF Due, Sealed, Sealing, At
<1>4. \A e \in Deposits : Remains(e)'
  BY <1>1, <1>2, <1>3 DEF Exact, Remains, Intact, Whole
<1>5. ASSUME NEW s \in Slots
      PROVE  Affordable(s)'
  <2>1. TypeOK /\ InFlight(s)
    BY DEF Payments, Exclusive, PaymentsMatchRecords
  <2>2. At(s, "seal_transfer") => call[s].id \in Deposits \ {d}
    BY <1>2, <2>1, SealTransferActs, CallFacts DEF At, InFlight, Fits
  <2>3. At(s, "seal_transfer") => sub'[call[s].id] = sub[call[s].id]
    BY <1>1, <2>2
  <2> QED
    BY <1>1, <2>3 DEF Exact, Affordable, At
<1> QED
  BY <1>1, <1>3, <1>4, <1>5 DEF Exact

\* A fault is never given back.
LEMMA FaultsAreSpent ==
  ASSUME NEW s \in Slots, Start(s) \/ Continue(s)
  PROVE  faults' \in {faults, faults - 1}
<1>1. CASE Start(s)
  BY <1>1
     DEF Start, AllocCall, AdminSweepPool, PrepareCall, SealCall, FinalizeCall,
         ReclaimCall, EnsureSecret
<1>2. CASE AllocStep(s)
  BY <1>2
     DEF AllocStep, AllocSecret, AllocCheck, AllocRate, SecretReply, Fault,
         NoFault
<1>3. CASE PrepareStep(s)
  BY <1>3
     DEF PrepareStep, PrepareSecret, PrepareCheck, PrepareBalance, PrepareRate,
         PrepareConvert, PrepareNotify, PrepareSpawn, PrepareTopUps,
         PrepareReject, SecretReply, Fault, NoFault
<1>4. CASE SealStep(s)
  BY <1>4
     DEF SealStep, SealBalance, SealRate, SealCompute, SealTransfer,
         SealConvert, SealCommit, SealReject, Fault, NoFault
<1>5. CASE MaintenanceStep(s)
  <2>1. CASE RecycleRead(s) \/ RecycleWedge(s) \/ RecycleBurn(s)
    BY <2>1, FaultCounts DEF RecycleRead, RecycleWedge, RecycleBurn, NoFault
  <2>2. CASE SealLeftover(s) \/ SweepRead(s) \/ SweepCompute(s)
    BY <2>2, FaultCounts
       DEF SealLeftover, SweepLeftover, SweepRead, SweepCompute, NoFault
  <2>3. CASE SweepPay(s) \/ BufferRead(s) \/ BufferPay(s)
    BY <2>3, FaultCounts
       DEF SweepPay, BufferRead, BufferPay, NoFault
  <2> QED
    BY <1>5, <2>1, <2>2, <2>3 DEF MaintenanceStep
<1>6. CASE FinalizeStep(s)
  <2>1. CASE FinalizePreload(s) \/ FinalizeBalance(s) \/ FinalizeTopUp(s)
    BY <2>1, FaultCounts
       DEF FinalizePreload, FinalizeBalance, ReadMixer, FinalizeTopUp, TopUp,
           FromBuffer, NoFault
  <2>2. CASE FinalizeEnsure(s) \/ FinalizeDeficit(s) \/ FinalizeTransfer(s)
    BY <2>2, FaultCounts
       DEF FinalizeEnsure, ReadMixer, FinalizeDeficit, TopUp, FromBuffer,
           FinalizeTransfer, NoFault
  <2>3. CASE FinalizeCommit(s) \/ FinalizeReject(s)
    BY <2>3, FaultCounts DEF FinalizeCommit, FinalizeReject, NoFault
  <2> QED
    BY <1>6, <2>1, <2>2, <2>3 DEF FinalizeStep
<1>7. CASE ReclaimStep(s)
  <2>1. CASE ReclaimBalance(s) \/ ReclaimTransfer(s)
    BY <2>1, FaultCounts DEF ReclaimBalance, ReclaimTransfer, NoFault
  <2>2. CASE ReclaimCommit(s) \/ ReclaimLeftover(s)
    BY <2>2, FaultCounts
       DEF ReclaimCommit, ReclaimLeftover, SweepLeftover, NoFault
  <2> QED
    BY <1>7, <2>1, <2>2 DEF ReclaimStep
<1> QED
  BY <1>1, <1>2, <1>3, <1>4, <1>5, <1>6, <1>7 DEF Continue

LEMMA InitExact ==
  ASSUME Init
  PROVE  Exact
<1>1. /\ pool_claims = 0
      /\ \A d \in Deposits : deposits[d].state = "none"
      /\ \A s \in Slots : call[s].pc = "idle"
  BY DEF Init, NoDeposit, Idle
<1>2. Due = {}
  BY <1>1 DEF Due, Sealed, Sealing, At
<1> QED
  BY <1>1, <1>2, TotalEmpty DEF Exact, Remains, Affordable, At

LEMMA NextExact ==
  ASSUME RecordsAreKept, IsFiniteSet(Deposits), SealsGoThrough,
         Payments, Books, faults = MaxFaults => Exact, [Next]_vars,
         faults' = MaxFaults
  PROVE  Exact'
<1>1. TypeOK /\ TypeOK'
  BY NextType DEF Payments, Exclusive
<1>2. faults \in Nat /\ faults <= MaxFaults /\ MaxFaults \in Nat
  BY <1>1, RouterAssumption DEF Books, TypeOK, ClientType
<1>3. CASE Environment
  <2>1. faults' = faults
    BY <1>3
       DEF Environment, SetPaused, Upgrade, Fund, Expire, AdminClearLock,
           AdminClearDeposit
  <2>2. Exact /\ Calm
    BY <2>1 DEF Calm
  <2>3. CASE SetPaused \/ \E d \in Deposits : Expire(d)
    BY <2>2, <2>3, UnchangedExact
       DEF SetPaused, Expire, routerVars, serviceVars, ledgerVars, clientVars,
           quoteVars
  <2>4. ASSUME NEW d \in Deposits, Fund(d)
        PROVE  Exact'
    BY <2>2, <2>4, FundExact
  <2> QED
    BY <1>3, <2>3, <2>4
       DEF Environment, RecordsAreKept, Upgrade, AdminClearLock,
           AdminClearDeposit
<1>4. ASSUME NEW s \in Slots, Start(s) \/ Continue(s)
      PROVE  Exact'
  <2>1. LockStep(s)
    BY <1>1, <1>4, StartLocks, ContinueLocks DEF Payments, Exclusive
  <2>2. faults' = faults
    BY <1>2, <1>4, FaultsAreSpent
  <2>3. Untroubled(s)
    BY <1>1, <2>1, <2>2 DEF Untroubled, Ready, Calm
  <2> QED
    BY <1>4, <2>3, CallExact
<1>5. CASE UNCHANGED vars
  BY <1>5, UnchangedExact
     DEF vars, routerVars, serviceVars, ledgerVars, clientVars, quoteVars
<1> QED
  BY <1>3, <1>4, <1>5 DEF Next

\* However many deposits and calls there are, in whatever order they run: as
\* long as nothing has failed and no record is thrown away, pool_claims is to the
\* unit what the sealed deposits, and those whose seal is at its transfers, owe
\* Bob.  No claim is counted twice, dropped, or recorded by a seal that is then
\* cut short.
THEOREM ClaimsAreExact ==
  ASSUME RecordsAreKept, IsFiniteSet(Deposits), PriceHolds, SealsGoThrough
  PROVE  Spec => []CommitmentsExact
<1> DEFINE Balanced == faults = MaxFaults => Exact
<1>1. Init => Payments /\ Books /\ Balanced
  BY InitPayments, InitBooks, InitExact
<1>2. Payments /\ Books /\ Balanced /\ [Next]_vars
        => (Payments /\ Books /\ Balanced)'
  <2>1. "clear_lock" \notin Operations
    BY DEF RecordsAreKept
  <2>2. ASSUME Payments, Books, Balanced, [Next]_vars
        PROVE  Payments' /\ Books'
    BY <2>1, <2>2, NextPayments, NextBooks
  <2>3. ASSUME Payments, Books, Balanced, [Next]_vars, faults' = MaxFaults
        PROVE  Exact'
    BY <2>3, NextExact
  <2> QED
    BY <2>2, <2>3
<1>3. Balanced => CommitmentsExact
  BY DEF Exact, CommitmentsExact, Due
<1> QED
  BY <1>1, <1>2, <1>3, PTL DEF Spec

-----------------------------------------------------------------------------
(* The mixer.  What it holds is spent by a finalization, which pays what is *)
(* owed no longer, and by the recycling and the sweep, which spare what     *)
(* pool_claims counts.  Where no two calls are about to pay out at the same *)
(* time, what a call has read of the mixer is still there when it spends,   *)
(* however many seals, refunds and other calls overlap it.                  *)

\* A sum, and one over a part that is no less element by element and that the
\* rest adds nothing to.
LEMMA TotalBelow ==
  ASSUME NEW T, IsFiniteSet(T), NEW f, NEW g, NEW S \in SUBSET T,
         \A x \in T : f[x] \in Nat,
         \A x \in S : g[x] \in Nat /\ f[x] <= g[x],
         \A x \in T \ S : f[x] = 0
  PROVE  Total(f, T) <= Total(g, S)
<1> DEFINE R(X) == X \cap S
           U == {X \in SUBSET T : ~(Total(f, X) <= Total(g, R(X)))}
<1>1. SUFFICES U = {}
  <2>1. T \notin U => Total(f, T) <= Total(g, R(T))
    OBVIOUS
  <2>2. R(T) = S
    OBVIOUS
  <2> HIDE DEF U, R
  <2> QED
    BY <2>1, <2>2
<1>2. SUFFICES ASSUME U # {} PROVE FALSE
  OBVIOUS
<1>3. PICK X \in U : \A Y \in U : Y \subseteq X => Y = X
  <2>1. U \in SUBSET SUBSET T
    OBVIOUS
  <2> HIDE DEF U
  <2> QED
    BY <1>2, <2>1, Smallest
<1>4. X \in SUBSET T /\ ~(Total(f, X) <= Total(g, R(X)))
  OBVIOUS
<1>5. X # {}
  <2>1. Total(f, {}) = 0 /\ Total(g, {}) = 0
    BY TotalEmpty
  <2> HIDE DEF U
  <2>2. CASE X = {}
    <3>1. R(X) = {}
      BY <2>2
    <3> HIDE DEF R
    <3>2. Total(f, X) = 0 /\ Total(g, R(X)) = 0
      BY <2>1, <2>2, <3>1, Zenon
    <3> QED
      BY <1>4, <3>2
  <2> QED
    BY <2>2
<1>6. PICK x \in X : TRUE
  BY <1>5
<1> DEFINE Y == X \ {x}
<1>7. Y \in SUBSET T /\ Y \subseteq X /\ Y # X
  BY <1>4, <1>6
<1>8. Total(f, Y) <= Total(g, R(Y))
  BY <1>3, <1>7
<1>9. IsFiniteSet(X) /\ IsFiniteSet(R(X)) /\ IsFiniteSet(Y) /\ IsFiniteSet(R(Y))
  BY <1>4, <1>7, FS_Subset
<1>10. /\ \A y \in X : f[y] \in Nat
       /\ \A y \in Y : f[y] \in Nat
       /\ \A y \in R(X) : g[y] \in Nat
       /\ \A y \in R(Y) : g[y] \in Nat
  BY <1>4, <1>7
<1>11. Total(f, X) = f[x] + Total(f, Y)
  BY <1>6, <1>9, <1>10, TotalRemove
<1>12. Total(f, Y) \in Nat /\ Total(g, R(Y)) \in Nat
  <2> HIDE DEF Y, R
  <2> QED
    BY <1>9, <1>10, TotalNat
<1>13. CASE x \in S
  <2>1. x \in R(X) /\ R(X) \ {x} = R(Y)
    BY <1>6, <1>13
  <2>2. f[x] \in Nat /\ g[x] \in Nat /\ f[x] <= g[x]
    BY <1>6, <1>10, <1>13
  <2> HIDE DEF R, Y, U
  <2>3. Total(g, R(X)) = g[x] + Total(g, R(Y))
    <3>1. Total(g, R(X)) = g[x] + Total(g, R(X) \ {x})
      BY <1>9, <1>10, <2>1, TotalRemove
    <3> QED
      BY <2>1, <3>1
  <2> QED
    BY <1>4, <1>8, <1>11, <1>12, <2>2, <2>3
<1>14. CASE x \notin S
  <2>1. R(X) = R(Y) /\ f[x] = 0
    BY <1>4, <1>6, <1>14
  <2> HIDE DEF R, Y, U
  <2>2. Total(g, R(X)) = Total(g, R(Y))
    BY <2>1
  <2> QED
    BY <1>4, <1>8, <1>11, <1>12, <2>1, <2>2
<1> QED
  BY <1>13, <1>14

\* Two sums that differ in one element.
LEMMA TotalAt ==
  ASSUME NEW T, IsFiniteSet(T), NEW f, NEW g, NEW x \in T,
         \A y \in T : f[y] \in Nat /\ g[y] \in Nat,
         \A y \in T \ {x} : f[y] = g[y]
  PROVE  Total(f, T) + g[x] = Total(g, T) + f[x]
<1> DEFINE S == T \ {x}
<1>1. IsFiniteSet(S) /\ f[x] \in Nat /\ g[x] \in Nat
  BY FS_Subset
<1>2. /\ Total(f, T) = f[x] + Total(f, S)
      /\ Total(g, T) = g[x] + Total(g, S)
  BY TotalRemove
<1>3. \A y \in S : f[y] \in Nat /\ g[y] \in Nat /\ f[y] <= g[y] /\ g[y] <= f[y]
  OBVIOUS
<1> HIDE DEF S
<1>4. Total(f, S) \in Nat /\ Total(g, S) \in Nat
  BY <1>1, <1>3, TotalNat
<1>5. Total(f, S) <= Total(g, S) /\ Total(g, S) <= Total(f, S)
  <2>1. S \in SUBSET S
    OBVIOUS
  <2> QED
    BY <1>1, <1>3, <2>1, TotalBelow
<1> QED
  BY <1>1, <1>2, <1>4, <1>5

\* A division of the mixer among the deposits: a sealed one that Bob has still to
\* be paid for has all its amount there, one that is being sealed what its seal has
\* transferred so far, and no other has anything.
Divides(held) ==
  /\ held \in [Deposits -> Nat]
  /\ \A d \in Deposits : held[d] <= Amount[d]
  /\ \A d \in Deposits : held[d] # 0 => d \in Unpaid \cup Sealing
  /\ \A d \in Unpaid : held[d] = Amount[d]
  /\ \A s \in Slots :
       At(s, "seal_transfer") =>
         held[call[s].id] + Sum(call[s].rest) = Amount[call[s].id]
Debt(held) == Total(held, Deposits)

\* The awaits of a finalization that has drawn its preload.
DrawingPcs == PayPcs \ {"fin_preload"}

\* What a call in flight knows of the mixer: the preload has come, and what the
\* recycling and the sweep are going to move is beyond what is held there.
MixerKnown(s, held) ==
  LET pc == call[s].pc
      amt == call[s].amt
  IN /\ pc \in DrawingPcs => mixer >= Debt(held)
     /\ pc \in {"recycle_wedge", "sweep_compute"} => call[s].bal <= mixer
     /\ pc = "recycle_burn" => amt + Debt(held) <= mixer
     /\ pc = "sweep_pay" =>
          amt = 0 \/ amt + LEDGER_FEE + Debt(held) <= mixer

Solid(held) ==
  /\ Divides(held)
  /\ mixer + LEDGER_FEE >= Debt(held)
  /\ \A s \in Slots : MixerKnown(s, held)
Solvent == \E held : Solid(held)

\* The awaits at which a call knows nothing of the mixer and of the fee buffer,
\* or no more than that the mixer covers what is held there.
TamePcs == Pcs \ ({"seal_transfer", "recycle_wedge", "recycle_burn",
                   "sweep_compute", "sweep_pay", "buffer_pay"} \cup DrawingPcs)

\* A step of a call, with which nothing has failed yet, where no two calls are
\* about to pay out at the same time.
Lone(s, held) ==
  Untroubled(s) /\ Solid(held) /\ SpendsApart /\ SpendsApart'

\* The same, after which neither the mixer nor the debt is worse.
Tame(s) ==
  /\ mixer' >= mixer /\ bob' = bob
  /\ \A d \in Deposits :
       deposits'[d].state = "sealed" => deposits[d].state = "sealed"
  /\ call'[s].pc \in TamePcs

LEMMA LoneFacts ==
  ASSUME NEW s \in Slots, NEW held, Lone(s, held)
  PROVE  /\ Untroubled(s) /\ Divides(held) /\ MixerKnown(s, held)
         /\ mixer + LEDGER_FEE >= Debt(held)
         /\ IsFiniteSet(Deposits) /\ TypeOK /\ TypeOK' /\ Payments /\ Exact
         /\ InFlight(s) /\ Others(s)
         /\ call[s].pc \notin AnonymousPcs => call[s].id \in Deposits
<1>1. Untroubled(s) /\ Solid(held)
  BY DEF Lone
<1>2. Others(s)
  BY <1>1 DEF Untroubled, Ready, LockStep
<1> QED
  BY <1>1, <1>2, UntroubledFacts DEF Solid

LEMMA DebtNat ==
  ASSUME IsFiniteSet(Deposits), NEW held \in [Deposits -> Nat]
  PROVE  Debt(held) \in Nat
<1>1. \A d \in Deposits : held[d] \in Nat
  OBVIOUS
<1> QED
  BY <1>1, TotalNat DEF Debt

LEMMA UnpaidWithin ==
  /\ Unpaid \in SUBSET Deposits /\ Unpaid' \in SUBSET Deposits
  /\ Sealing \in SUBSET Deposits /\ Sealing' \in SUBSET Deposits
  BY DEF Unpaid, Sealed, Sealing

LEMMA MixerNat ==
  ASSUME TypeOK
  PROVE  mixer \in Nat /\ pool_claims \in Nat /\ LEDGER_FEE \in Nat
  BY ParameterFacts DEF TypeOK, LedgerType, ServiceType

LEMMA LoneNat ==
  ASSUME NEW s \in Slots, NEW held, Lone(s, held)
  PROVE  /\ held \in [Deposits -> Nat] /\ Debt(held) \in Nat
         /\ mixer \in Nat /\ mixer' \in Nat /\ LEDGER_FEE \in Nat
         /\ pool_claims \in Nat
         /\ \A d \in Deposits : held[d] \in Nat /\ Amount[d] \in Nat \ {0}
<1>1. /\ held \in [Deposits -> Nat] /\ IsFiniteSet(Deposits)
      /\ TypeOK /\ TypeOK'
  BY LoneFacts DEF Divides
<1>2. mixer' \in Nat
  BY <1>1 DEF TypeOK, LedgerType
<1> QED
  BY <1>1, <1>2, DebtNat, MixerNat, DepositFacts

\* What is held for the sealed deposits is what they owe.
LEMMA HeldCovers ==
  ASSUME IsFiniteSet(Deposits), TypeOK, NEW held, Solid(held)
  PROVE  MixerCovers
<1>1. /\ held \in [Deposits -> Nat] /\ mixer + LEDGER_FEE >= Debt(held)
      /\ \A d \in Unpaid : held[d] = Amount[d]
  BY DEF Solid, Divides
<1>2. Unpaid \in SUBSET Deposits /\ IsFiniteSet(Unpaid)
  BY UnpaidWithin, FS_Subset
<1>3. \A d \in Deposits : held[d] \in Nat /\ Amount[d] \in Nat
  BY <1>1, DepositFacts
<1>4. Total(Amount, Unpaid) <= Total(held, Unpaid)
  <2>1. /\ \A d \in Unpaid : Amount[d] \in Nat /\ held[d] \in Nat
        /\ \A d \in Unpaid : Amount[d] <= held[d]
        /\ Unpaid \in SUBSET Unpaid
    BY <1>1, <1>2, <1>3
  <2> QED
    BY <1>2, <2>1, TotalBelow
<1>5. Total(held, Unpaid) <= Debt(held)
  BY <1>2, <1>3, TotalPart DEF Debt
<1>6. /\ Total(Amount, Unpaid) \in Nat /\ Total(held, Unpaid) \in Nat
      /\ Debt(held) \in Nat /\ mixer \in Nat /\ LEDGER_FEE \in Nat
  <2>1. \A d \in Unpaid : Amount[d] \in Nat /\ held[d] \in Nat
    BY <1>2, <1>3
  <2> QED
    BY <1>1, <1>2, <2>1, TotalNat, DebtNat, MixerNat
<1> QED
  BY <1>1, <1>4, <1>5, <1>6 DEF MixerCovers

\* What is held is claimed.
LEMMA DebtIsClaimed ==
  ASSUME NEW s \in Slots, NEW held, Lone(s, held)
  PROVE  Debt(held) <= pool_claims
<1>1. Due \in SUBSET Deposits /\ Unpaid \cup Sealing \subseteq Due
  BY DEF Unpaid, Due, Sealed, Sealing
<1>2. /\ \A d \in Deposits : held[d] \in Nat
      /\ \A d \in Due : Amount[d] \in Nat /\ held[d] <= Amount[d]
      /\ \A d \in Deposits \ Due : held[d] = 0
  BY <1>1, LoneFacts, LoneNat DEF Divides
<1>3. Total(held, Deposits) <= Total(Amount, Due)
  BY <1>1, <1>2, LoneFacts, TotalBelow
<1> QED
  BY <1>3, LoneFacts DEF Debt, Exact

\* What an update of one call's fields leaves there.
LEMMA Updated ==
  ASSUME TypeOK, NEW s \in Slots, NEW c, call' = [call EXCEPT ![s] = c]
  PROVE  call'[s] = c
  BY DEF TypeOK, CallType

LEMMA PcMoves ==
  ASSUME TypeOK, NEW s \in Slots, NEW pc, Goto(s, pc)
  PROVE  /\ call'[s].pc = pc /\ call'[s].id = call[s].id
         /\ call'[s].bal = call[s].bal /\ call'[s].amt = call[s].amt
         /\ call'[s].rest = call[s].rest
  BY CallFacts DEF Goto, TypeOK, CallType, CallRecords

\* The awaits of a finalization, and those at which a call is about to pay out.
LEMMA DrawingFacts ==
  /\ DrawingPcs = {"fin_balance", "fin_topup", "fin_ensure", "fin_deficit",
                   "fin_transfer"}
  /\ SpendingPcs = {"fin_preload", "fin_balance", "fin_topup", "fin_ensure",
                    "fin_deficit", "fin_transfer", "recycle_wedge",
                    "recycle_burn", "sweep_compute", "sweep_pay", "buffer_pay"}
  /\ PayPcs = DrawingPcs \cup {"fin_preload"}
  /\ \A pc \in DrawingPcs \cup PayPcs : pc \in SpendingPcs
  BY DEF DrawingPcs, PayPcs, FinalizePcs, SpendingPcs

\* A call that is not about to pay out knows nothing.
LEMMA KnowsNothing ==
  ASSUME NEW s, NEW held, call[s].pc \notin SpendingPcs
  PROVE  MixerKnown(s, held)
<1>1. /\ call[s].pc \notin DrawingPcs
      /\ call[s].pc \notin {"recycle_wedge", "sweep_compute"}
      /\ call[s].pc # "recycle_burn" /\ call[s].pc # "sweep_pay"
  BY DrawingFacts
<1> QED
  BY <1>1 DEF MixerKnown

\* While a call is about to pay out the others know nothing; and where the mixer
\* grows by no less than what is held there, they know what they knew.
LEMMA OthersKnow ==
  ASSUME NEW s \in Slots, NEW held, Lone(s, held), NEW next \in [Deposits -> Nat],
         \/ call[s].pc \in SpendingPcs \/ call'[s].pc \in SpendingPcs
         \/ mixer' >= mixer /\ mixer' + Debt(held) >= mixer + Debt(next),
         NEW t \in Slots \ {s}
  PROVE  MixerKnown(t, next)'
<1>1. call'[t] = call[t]
  BY LoneFacts DEF Others
<1>2. CASE call[t].pc \notin SpendingPcs
  <2>1. /\ call'[t].pc \notin DrawingPcs
        /\ call'[t].pc \notin {"recycle_wedge", "sweep_compute"}
        /\ call'[t].pc # "recycle_burn" /\ call'[t].pc # "sweep_pay"
    BY <1>1, <1>2, DrawingFacts
  <2> QED
    BY <2>1 DEF MixerKnown
<1>3. CASE call[t].pc \in SpendingPcs
  <2>1. call[s].pc \notin SpendingPcs /\ call'[s].pc \notin SpendingPcs
    BY <1>1, <1>3 DEF Lone, SpendsApart
  <2>2. mixer' >= mixer /\ mixer' + Debt(held) >= mixer + Debt(next)
    BY <2>1
  <2>3. /\ mixer \in Nat /\ mixer' \in Nat /\ LEDGER_FEE \in Nat
        /\ Debt(held) \in Nat /\ Debt(next) \in Nat
        /\ call[t].bal \in Nat /\ call[t].amt \in Nat
    BY LoneFacts, LoneNat, DebtNat, CallFacts
  <2>4. MixerKnown(t, held)
    BY DEF Lone, Solid
  <2>5. \A m, n, o, p, x \in Nat :
          n >= m /\ n + o >= m + p =>
            /\ m >= o => n >= p
            /\ x + o <= m => x + p <= n
            /\ x <= m => x <= n
    OBVIOUS
  <2>6. /\ mixer >= Debt(held) => mixer' >= Debt(next)
        /\ call[t].bal <= mixer => call[t].bal <= mixer'
        /\ call[t].amt + Debt(held) <= mixer => call[t].amt + Debt(next) <= mixer'
    BY <2>2, <2>3, <2>5
  <2>7. call[t].amt + LEDGER_FEE + Debt(held) <= mixer
          => call[t].amt + LEDGER_FEE + Debt(next) <= mixer'
    <3>1. call[t].amt + LEDGER_FEE \in Nat
      BY <2>3
    <3> QED
      BY <2>2, <2>3, <2>5, <3>1
  <2>8. Debt(next)' = Debt(next)
    BY DEF Debt
  <2> QED
    BY <1>1, <2>4, <2>6, <2>7 DEF MixerKnown
<1> QED
  BY <1>2, <1>3

LEMMA SolidWhen ==
  ASSUME NEW s \in Slots, NEW held, Lone(s, held), NEW next, Divides(next)',
         mixer' + LEDGER_FEE >= Debt(next), MixerKnown(s, next)',
         \/ call[s].pc \in SpendingPcs \/ call'[s].pc \in SpendingPcs
         \/ mixer' >= mixer /\ mixer' + Debt(held) >= mixer + Debt(next)
  PROVE  Solvent'
<1>1. next \in [Deposits -> Nat]
  BY DEF Divides
<1>2. \A t \in Slots : MixerKnown(t, next)'
  BY <1>1, OthersKnow
<1>3. Solid(next)'
  BY <1>2 DEF Solid
<1> QED
  BY <1>3 DEF Solvent

\* Who is being sealed, after a step of a call that is not sealing.
LEMMA SameSealing ==
  ASSUME NEW s \in Slots, Others(s), ~At(s, "seal_transfer"),
         call'[s].pc # "seal_transfer"
  PROVE  /\ Sealing' = Sealing
         /\ \A t \in Slots : At(t, "seal_transfer")' => call'[t] = call[t]
<1>1. \A t \in Slots : At(t, "seal_transfer") \/ At(t, "seal_transfer")'
                        => call'[t] = call[t]
  BY DEF Others, At
<1> QED
  BY <1>1 DEF Sealing, At

\* A step that changes neither the sealed deposits nor the payments, of a call that
\* is not sealing.
LEMMA SameDivides ==
  ASSUME NEW s \in Slots, NEW held, Lone(s, held), UNCHANGED <<deposits, bob>>,
         ~At(s, "seal_transfer"), call'[s].pc # "seal_transfer"
  PROVE  Divides(held)'
<1>1. Unpaid' = Unpaid
  BY DEF Unpaid, Sealed
<1>2. /\ Sealing' = Sealing
      /\ \A t \in Slots : At(t, "seal_transfer")' => call'[t] = call[t]
  BY LoneFacts, SameSealing
<1>3. Divides(held)
  BY LoneFacts
<1>4. ASSUME NEW t \in Slots, At(t, "seal_transfer")'
      PROVE  held[call'[t].id] + Sum(call'[t].rest) = Amount[call'[t].id]
  <2>1. call'[t] = call[t] /\ At(t, "seal_transfer")
    BY <1>2, <1>4 DEF At
  <2> QED
    BY <1>3, <2>1 DEF Divides
<1> QED
  BY <1>1, <1>2, <1>3, <1>4 DEF Divides

\* Nothing more becomes payable: what is held for others than the deposits still
\* to be paid for is released.
LEMMA TameSolid ==
  ASSUME NEW s \in Slots, NEW held, Lone(s, held), Tame(s)
  PROVE  Solvent'
<1>0. PICK next \in [Deposits -> Nat] :
          \A d \in Deposits :
            next[d] = IF d \in Unpaid' \cup Sealing' THEN held[d] ELSE 0
  <2> DEFINE part == [d \in Deposits |->
                        IF d \in Unpaid' \cup Sealing' THEN held[d] ELSE 0]
  <2>1. part \in [Deposits -> Nat]
    BY LoneNat
  <2> QED
    BY <2>1
<1>1. Unpaid' \subseteq Unpaid
  BY DEF Tame, Unpaid, Sealed
<1>2. Divides(held) /\ Others(s)
  BY LoneFacts
<1>3. /\ \A d \in Deposits : held[d] \in Nat /\ Amount[d] \in Nat
      /\ \A d \in Deposits : next[d] \in Nat /\ next[d] <= held[d]
  BY <1>0, LoneNat
<1>4. call'[s].pc # "seal_transfer"
  BY DEF Tame, TamePcs
<1>5. ASSUME NEW t \in Slots, At(t, "seal_transfer")'
      PROVE  next[call'[t].id] + Sum(call'[t].rest) = Amount[call'[t].id]
  <2>1. call'[t] = call[t] /\ At(t, "seal_transfer") /\ TypeOK
    BY <1>2, <1>4, <1>5, LoneFacts DEF At, Others
  <2>2. call[t].id \in Deposits
    BY <2>1, CallFacts, SealTransferActs DEF At
  <2>3. call[t].id \in Sealing'
    BY <1>5, <2>1, <2>2 DEF Sealing
  <2>4. next[call[t].id] = held[call[t].id]
    BY <1>0, <2>2, <2>3
  <2> QED
    BY <1>2, <2>1, <2>4 DEF Divides
<1>6. Divides(next)'
  <2>1. \A d \in Deposits : next[d] <= Amount[d]
    BY <1>2, <1>3 DEF Divides
  <2>2. \A d \in Deposits : next[d] # 0 => d \in Unpaid' \cup Sealing'
    BY <1>0
  <2>3. \A d \in Unpaid' : next[d] = Amount[d]
    BY <1>1, <1>2, <1>0, UnpaidWithin DEF Divides
  <2> QED
    BY <1>3, <1>5, <2>1, <2>2, <2>3 DEF Divides
<1>7. Debt(next) <= Debt(held) /\ Debt(next) \in Nat
  <2>1. Deposits \in SUBSET Deposits /\ IsFiniteSet(Deposits)
    BY LoneFacts
  <2>2. Total(next, Deposits) <= Total(held, Deposits)
    BY <1>3, <2>1, TotalBelow
  <2> QED
    BY <1>3, <2>1, <2>2, DebtNat DEF Debt
<1>8. /\ mixer \in Nat /\ mixer' \in Nat /\ LEDGER_FEE \in Nat
      /\ Debt(held) \in Nat /\ mixer' >= mixer
      /\ mixer + LEDGER_FEE >= Debt(held)
  BY LoneFacts, LoneNat DEF Tame
<1>9. /\ mixer' + LEDGER_FEE >= Debt(next)
      /\ mixer' + Debt(held) >= mixer + Debt(next)
  BY <1>7, <1>8
<1>10. MixerKnown(s, next)'
  BY DEF Tame, TamePcs, MixerKnown
<1> QED
  BY <1>6, <1>8, <1>9, <1>10, SolidWhen

LEMMA ReturnTame ==
  ASSUME TypeOK, NEW s \in Slots, Return(s)
  PROVE  call'[s].pc \in TamePcs
<1>1. call'[s].pc = "idle"
  <2>1. call' = [call EXCEPT ![s] = Idle]
    BY DEF Return
  <2>2. call'[s] = Idle
    BY <2>1, Updated, Zenon
  <2> QED
    BY <2>2 DEF Idle
<1> QED
  BY <1>1 DEF TamePcs, DrawingPcs, Pcs, FreePcs, PayPcs, FinalizePcs

LEMMA TameFacts ==
  /\ "alloc_rand" \in TamePcs /\ "alloc_check" \in TamePcs
  /\ "alloc_rate" \in TamePcs /\ "prepare_rand" \in TamePcs
  /\ "prepare_check" \in TamePcs /\ "prepare_balance" \in TamePcs
  /\ "prepare_rate" \in TamePcs /\ "prepare_convert" \in TamePcs
  /\ "prepare_notify" \in TamePcs /\ "prepare_spawn" \in TamePcs
  /\ "prepare_topups" \in TamePcs /\ "seal_balance" \in TamePcs
  /\ "seal_rate" \in TamePcs /\ "seal_compute" \in TamePcs
  /\ "recycle_read" \in TamePcs /\ "leftover" \in TamePcs
  /\ "sweep_read" \in TamePcs /\ "buffer_read" \in TamePcs
  /\ "fin_preload" \in TamePcs
  /\ "fin_commit" \in TamePcs /\ "reclaim_balance" \in TamePcs
  /\ "reclaim_transfer" \in TamePcs /\ "reclaim_commit" \in TamePcs
  /\ "reclaim_leftover" \in TamePcs /\ "idle" \in TamePcs
  BY DEF TamePcs, DrawingPcs, Pcs, LockedPcs, FreePcs, PreparePcs, SealPcs, TailPcs,
         FinalizePcs, ReclaimPcs, PayPcs

\* The calls that arrive.
LEMMA StartTame ==
  ASSUME NEW s \in Slots, NEW held, Lone(s, held), Start(s)
  PROVE  Tame(s)
<1>1. TypeOK /\ mixer \in Nat
  BY LoneFacts, MixerNat
<1>2. UNCHANGED <<mixer, bob, deposits>>
  BY DEF Start, AllocCall, AdminSweepPool, PrepareCall, SealCall, FinalizeCall,
         ReclaimCall, EnsureSecret, routerVars, ledgerVars, serviceVars
<1>3. call'[s].pc \in TamePcs
  <2>1. CASE AllocCall(s) \/ AdminSweepPool(s)
    BY <1>1, <2>1, CallFacts, TameFacts, PcMoves
       DEF AllocCall, AdminSweepPool, EnsureSecret, TypeOK, CallType,
           CallRecords
  <2>2. ASSUME NEW d \in Deposits, PrepareCall(s, d)
        PROVE  call'[s].pc \in TamePcs
    BY <1>1, <2>2, CallFacts, TameFacts
       DEF PrepareCall, EnsureSecret, TypeOK, CallType, CallRecords
  <2>3. ASSUME NEW d \in Deposits,
               SealCall(s, d) \/ FinalizeCall(s, d) \/ ReclaimCall(s, d)
        PROVE  call'[s].pc \in TamePcs
    BY <1>1, <2>3, CallFacts, TameFacts
       DEF SealCall, FinalizeCall, ReclaimCall, TypeOK, CallType, CallRecords
  <2> QED
    BY <2>1, <2>2, <2>3 DEF Start
<1> QED
  BY <1>1, <1>2, <1>3 DEF Tame

\* The steps that leave the mixer alone, or add to it.
LEMMA EarlyTame ==
  ASSUME NEW s \in Slots, NEW held, Lone(s, held),
         \/ AllocStep(s) \/ PrepareStep(s)
         \/ SealBalance(s) \/ SealRate(s) \/ SealReject(s)
  PROVE  Tame(s)
<1>1. TypeOK /\ mixer \in Nat
  BY LoneFacts, MixerNat
<1>2. \A kind : ~Fault(kind)
  BY LoneFacts, NothingFails
<1>3. UNCHANGED <<mixer, bob>>
  BY DEF AllocStep, AllocSecret, AllocCheck, AllocRate, PrepareStep,
         PrepareSecret, SecretReply, PrepareCheck, PrepareBalance, PrepareRate,
         PrepareConvert, PrepareNotify, PrepareSpawn, PrepareTopUps,
         PrepareReject, SealBalance, SealRate, SealReject, ledgerVars
<1>4. \A d \in Deposits :
        deposits'[d].state = "sealed" => deposits[d].state = "sealed"
  <2>1. CASE AllocRate(s)
    BY <1>1, <2>1 DEF AllocRate, NoDeposit, TypeOK, DepositsType
  <2>2. CASE PrepareTopUps(s)
    BY <1>1, <2>2 DEF PrepareTopUps, NoDeposit, TypeOK, DepositsType
  <2>3. CASE ~AllocRate(s) /\ ~PrepareTopUps(s)
    BY <2>3
       DEF AllocStep, AllocSecret, AllocCheck, PrepareStep, PrepareSecret,
           SecretReply, PrepareCheck, PrepareBalance, PrepareRate,
           PrepareConvert, PrepareNotify, PrepareSpawn, PrepareReject,
           SealBalance, SealRate, SealReject, routerVars
  <2> QED
    BY <2>1, <2>2, <2>3
<1>5. call'[s].pc \in TamePcs
  <2>1. CASE AllocStep(s)
    BY <1>1, <2>1, CallFacts, TameFacts, PcMoves, ReturnTame
       DEF AllocStep, AllocSecret, SecretReply, AllocCheck, AllocRate, TypeOK,
           CallType, CallRecords
  <2>2. CASE PrepareSecret(s) \/ PrepareCheck(s)
    BY <1>1, <2>2, TameFacts, PcMoves, ReturnTame
       DEF PrepareSecret, SecretReply, PrepareCheck
  <2>3. CASE PrepareBalance(s) \/ SealBalance(s)
    BY <1>1, <2>3, CallFacts, TameFacts
       DEF PrepareBalance, SealBalance, TypeOK, CallType, CallRecords
  <2>4. CASE PrepareRate(s)
    BY <1>1, <2>4, CallFacts, TameFacts, ReturnTame
       DEF PrepareRate, ReturnUnlocked, TypeOK, CallType, CallRecords
  <2>5. CASE PrepareConvert(s) \/ PrepareNotify(s) \/ PrepareSpawn(s)
    BY <1>1, <2>5, TameFacts, PcMoves, ReturnTame
       DEF PrepareConvert, PrepareNotify, PrepareSpawn, ReturnUnlocked
  <2>6. CASE PrepareTopUps(s)
    BY <1>1, <2>6, ReturnTame DEF PrepareTopUps, ReturnUnlocked
  <2>7. CASE PrepareReject(s) \/ SealReject(s)
    BY <1>2, <2>7 DEF PrepareReject, SealReject
  <2>8. CASE SealRate(s)
    BY <1>1, <2>8, CallFacts, TameFacts, ReturnTame
       DEF SealRate, ReturnUnlocked, TypeOK, CallType, CallRecords
  <2> QED
    BY <2>1, <2>2, <2>3, <2>4, <2>5, <2>6, <2>7, <2>8 DEF PrepareStep
<1> QED
  BY <1>1, <1>3, <1>4, <1>5 DEF Tame

LEMMA LateTame ==
  ASSUME NEW s \in Slots, NEW held, Lone(s, held),
         \/ SealLeftover(s) \/ BufferPay(s)
         \/ FinalizeCommit(s) \/ FinalizeReject(s) \/ ReclaimStep(s)
  PROVE  Tame(s)
<1>1. TypeOK /\ TypeOK' /\ mixer \in Nat /\ mixer' \in Nat
  BY LoneFacts, MixerNat DEF TypeOK, LedgerType
<1>2. \A kind : ~Fault(kind)
  BY LoneFacts, NothingFails
<1>3. mixer' >= mixer /\ bob' = bob
  <2>1. CASE BufferPay(s)
    <3> DEFINE bal == call[s].bal
               share == (Monus(bal, BUFFER_RESERVE) * 80) \div 100
               whole == IF bal > BUFFER_RESERVE + LEDGER_FEE
                        THEN (share \div E8S_PER_ICP) * E8S_PER_ICP ELSE 0
    <3>1. \/ mixer' = mixer + whole /\ whole > 0
          \/ mixer' = mixer
      BY <2>1 DEF BufferPay
    <3>2. bob' = bob
      BY <2>1 DEF BufferPay
    <3>3. whole \in Int
      <4>1. Monus(bal, BUFFER_RESERVE) \in Nat /\ E8S_PER_ICP \in Nat \ {0}
        BY <1>1, CallFacts, RouterAssumption, MonusNat, UnitAssumption
      <4>2. share \in Int
        BY <4>1
      <4> QED
        BY <4>1, <4>2
    <3> HIDE DEF whole
    <3> QED
      BY <1>1, <3>1, <3>2, <3>3
  <2>2. CASE ~BufferPay(s)
    <3>1. UNCHANGED <<mixer, bob>>
      BY <2>2
         DEF SealLeftover, FinalizeCommit, FinalizeReject, ReclaimStep,
             ReclaimBalance, ReclaimTransfer, ReclaimCommit, ReclaimLeftover,
             ledgerVars
    <3> QED
      BY <1>1, <3>1
  <2> QED
    BY <2>1, <2>2
<1>4. \A d \in Deposits :
        deposits'[d].state = "sealed" => deposits[d].state = "sealed"
  <2>1. CASE FinalizeCommit(s)
    BY <1>1, <2>1 DEF FinalizeCommit, NoDeposit, TypeOK, DepositsType
  <2>2. CASE ReclaimCommit(s)
    BY <1>1, <2>2 DEF ReclaimCommit, NoDeposit, TypeOK, DepositsType
  <2>3. CASE ~FinalizeCommit(s) /\ ~ReclaimCommit(s)
    BY <2>3
       DEF SealLeftover, BufferPay, FinalizeReject, ReclaimStep,
           ReclaimBalance, ReclaimTransfer, ReclaimLeftover, routerVars
  <2> QED
    BY <2>1, <2>2, <2>3
<1>5. call'[s].pc \in TamePcs
  <2>1. CASE SealLeftover(s)
    BY <1>1, <2>1, TameFacts, PcMoves DEF SealLeftover
  <2>3. CASE BufferPay(s) \/ FinalizeCommit(s) \/ ReclaimLeftover(s)
    BY <1>1, <2>3, ReturnTame
       DEF BufferPay, FinalizeCommit, ReclaimLeftover, ReturnUnlocked
  <2>4. CASE FinalizeReject(s)
    BY <1>2, <2>4 DEF FinalizeReject
  <2>5. CASE ReclaimBalance(s) \/ ReclaimCommit(s)
    BY <1>1, <2>5, CallFacts, TameFacts
       DEF ReclaimBalance, ReclaimCommit, TypeOK, CallType, CallRecords
  <2>6. CASE ReclaimTransfer(s)
    BY <1>1, <2>6, TameFacts, PcMoves, ReturnTame
       DEF ReclaimTransfer, ReturnUnlocked
  <2> QED
    BY <2>1, <2>3, <2>4, <2>5, <2>6 DEF ReclaimStep
<1> QED
  BY <1>1, <1>3, <1>4, <1>5 DEF Tame

-----------------------------------------------------------------------------
(* The seal *)

\* The deposit of a call that works on it is not being sealed by another one, nor
\* is it one that Bob has still to be paid for while it is not sealed.
LEMMA SoleHolder ==
  ASSUME NEW s \in Slots, NEW held, Lone(s, held), call[s].pc \in SealPcs
  PROVE  /\ call[s].id \in Deposits /\ call[s].id \notin Unpaid
         /\ bob[call[s].id] = 0
         /\ \A t \in Slots \ {s} :
              At(t, "seal_transfer") => call[t].id # call[s].id
<1>1. call[s].pc \notin AnonymousPcs /\ call[s].pc \notin NeutralPcs
  BY BooksPcFacts DEF SealPcs, AnonymousPcs
<1>2. PICK d \in Deposits : d = call[s].id
  BY <1>1, LoneFacts
<1>3. deposits[d].state = "created"
  BY <1>2, LoneFacts DEF InFlight, Fits
<1>4. bob[d] = 0
  BY <1>3, LoneFacts DEF Payments, PaymentsMatchRecords, Account
<1>5. \A t \in Slots \ {s} : At(t, "seal_transfer") => call[t].id # d
  BY <1>1, <1>2, LoneFacts, SoleSealing
<1> QED
  BY <1>2, <1>3, <1>4, <1>5 DEF Unpaid, Sealed

\* What the other seals have to transfer, after a step of the call that seals d.
LEMMA OthersDivide ==
  ASSUME NEW s \in Slots, NEW held, Lone(s, held), call[s].pc \in SealPcs,
         NEW t \in Slots \ {s}, At(t, "seal_transfer")'
  PROVE  /\ call'[t] = call[t] /\ call[t].id \in Deposits \ {call[s].id}
         /\ held[call[t].id] + Sum(call[t].rest) = Amount[call[t].id]
<1>1. call'[t] = call[t] /\ At(t, "seal_transfer")
  BY LoneFacts DEF At, Others
<1>2. call[t].id \in Deposits \ {call[s].id}
  BY <1>1, LoneFacts, CallFacts, SealTransferActs, SoleHolder DEF At
<1>3. held[call[t].id] + Sum(call[t].rest) = Amount[call[t].id]
  BY <1>1, LoneFacts DEF Divides
<1> QED
  BY <1>1, <1>2, <1>3

LEMMA SealComputeSolid ==
  ASSUME SealsGoThrough, NEW s \in Slots, NEW held, Lone(s, held),
         SealCompute(s)
  PROVE  Solvent'
<1>1. /\ TypeOK /\ call[s].pc = "seal_compute" /\ call[s].id \in Deposits
      /\ Untroubled(s) /\ Others(s) /\ Divides(held)
  BY LoneFacts DEF SealCompute, At, AnonymousPcs
<1>2. PICK d \in Deposits : d = call[s].id
  BY <1>1
<1> DEFINE split == SealSplit(call[s].bal, call[s].spawn_fee, call[s].rate,
                              Pct[d])
           residue == Residue(split.to_cycles, call[s].spawn_fee)
           parts == Decompose(Byte[d])[split.claim]
           c == [call[s] EXCEPT !.pc = "seal_transfer", !.bal = 0,
                                !.amt = residue, !.rest = parts]
<1>3. /\ UNCHANGED <<deposits, bob, mixer>>
      /\ call' = [call EXCEPT ![s] = c]
  BY <1>1, <1>2, NothingFails DEF SealCompute
<1>4. c.pc = "seal_transfer" /\ c.id = d /\ c.rest = parts
  BY <1>1, <1>2, CallFacts DEF CallRecords
<1> HIDE DEF c
<1>5. call'[s] = c
  BY <1>1, <1>3, Updated
<1>6. Sum(parts) = Amount[d]
  <2>1. split.claim = Amount[d]
    BY <1>1, <1>2, SealClaims
  <2>2. Amount[d] \in Nat /\ Byte[d] \in 0..255
    BY DepositFacts
  <2> QED
    BY <2>1, <2>2, TransfersAddUp
<1> HIDE DEF parts
<1>7. /\ d \notin Unpaid
      /\ \A t \in Slots \ {s} : At(t, "seal_transfer") => call[t].id # d
  BY <1>1, <1>2, PhaseFacts, SoleHolder
<1>8. held[d] = 0
  <2>1. d \notin Sealing
    BY <1>1, <1>2, <1>7 DEF Sealing, At
  <2> QED
    BY <1>1, <1>7, <2>1 DEF Divides
<1>9. Divides(held)'
  <2>1. Unpaid' = Unpaid
    BY <1>3 DEF Unpaid, Sealed
  <2>2. Sealing \subseteq Sealing'
    <3>1. \A t \in Slots : At(t, "seal_transfer") => call'[t] = call[t]
      BY <1>1 DEF Others, At
    <3> QED
      BY <3>1 DEF Sealing, At
  <2>3. ASSUME NEW t \in Slots, At(t, "seal_transfer")'
        PROVE  held[call'[t].id] + Sum(call'[t].rest) = Amount[call'[t].id]
    <3>1. CASE t = s
      <4>1. 0 + Amount[d] = Amount[d]
        BY DepositFacts
      <4> QED
        BY <1>4, <1>5, <1>6, <1>8, <3>1, <4>1
    <3>2. CASE t # s
      BY <1>1, <2>3, <3>2, LoneNat, PhaseFacts, OthersDivide
    <3> QED
      BY <3>1, <3>2
  <2> QED
    BY <1>1, <2>1, <2>2, <2>3 DEF Divides
<1>10. MixerKnown(s, held)'
  <2>1. call'[s].pc \notin SpendingPcs
    BY <1>4, <1>5, DrawingFacts
  <2>2. /\ call'[s].pc \notin DrawingPcs
        /\ call'[s].pc \notin {"recycle_wedge", "sweep_compute"}
        /\ call'[s].pc # "recycle_burn" /\ call'[s].pc # "sweep_pay"
    BY <2>1, DrawingFacts
  <2> QED
    BY <2>2 DEF MixerKnown
<1>11. /\ mixer' = mixer /\ mixer + LEDGER_FEE >= Debt(held)
       /\ mixer \in Nat /\ Debt(held) \in Nat
  BY <1>3, LoneFacts, LoneNat
<1>12. mixer' >= mixer /\ mixer' + Debt(held) >= mixer + Debt(held)
  BY <1>11
<1> QED
  BY <1>9, <1>10, <1>11, <1>12, SolidWhen

LEMMA SealTransferSolid ==
  ASSUME NEW s \in Slots, NEW held, Lone(s, held), SealTransfer(s)
  PROVE  Solvent'
<1>1. /\ TypeOK /\ call[s].pc = "seal_transfer" /\ call[s].id \in Deposits
      /\ call[s].rest \in Seq(Nat) /\ call[s].rest # <<>> /\ mixer \in Nat
      /\ Others(s) /\ Divides(held)
  BY LoneFacts, CallFacts, MixerNat DEF SealTransfer, At, AnonymousPcs
<1>2. \A kind : ~Fault(kind)
  BY LoneFacts, NothingFails
<1>3. CASE Return(s)
  <2>1. UNCHANGED <<mixer, bob, deposits>>
    <3>1. ~(call' = [call EXCEPT ![s].rest = Tail(@)])
      <4>1. call'[s].pc = "idle"
        BY <1>1, <1>3, Updated DEF Return, Idle
      <4> QED
        BY <1>1, <4>1, CallFacts DEF TypeOK, CallType, CallRecords
    <3> QED
      BY <3>1 DEF SealTransfer
  <2> QED
    BY <1>1, <1>3, <2>1, ReturnTame, TameSolid DEF Tame
<1>4. CASE ~Return(s)
  <2> DEFINE c == [call[s] EXCEPT !.rest = Tail(@)]
  <2>1. /\ UNCHANGED <<deposits, bob>>
        /\ mixer' = mixer + Head(call[s].rest)
        /\ call' = [call EXCEPT ![s] = c]
    BY <1>2, <1>4 DEF SealTransfer, ReturnUnlocked
  <2>2. /\ c.pc = "seal_transfer" /\ c.id = call[s].id
        /\ c.rest = Tail(call[s].rest)
    BY <1>1, CallFacts DEF CallRecords
  <2> HIDE DEF c
  <2>3. call'[s] = c
    BY <1>1, <2>1, Updated
  <2>4. PICK t \in Seq(Nat) : t = call[s].rest /\ t # <<>>
    BY <1>1
  <2>5. /\ Sum(t) = Head(t) + Sum(Tail(t)) /\ Sum(Tail(t)) \in Nat
        /\ Head(t) \in Nat
    <3>1. Len(t) <= MAX_POOL_TRANSFERS
      BY <1>1, <2>4, LoneFacts DEF Exact, Affordable, At
    <3> QED
      BY <2>4, <3>1, SumOfRest
  <2>6. PICK d \in Deposits : d = call[s].id
    BY <1>1
  <2>7. PICK head \in Nat, tail \in Nat :
          head = Head(t) /\ tail = Sum(Tail(t)) /\ Sum(t) = head + tail
    BY <2>5
  <2>8. PICK next \in [Deposits -> Nat] :
          /\ next[d] = held[d] + head
          /\ \A e \in Deposits \ {d} : next[e] = held[e]
    <3> DEFINE f == [held EXCEPT ![d] = @ + head]
    <3>1. held \in [Deposits -> Nat]
      BY LoneNat
    <3>2. /\ f \in [Deposits -> Nat] /\ f[d] = held[d] + head
          /\ \A e \in Deposits \ {d} : f[e] = held[e]
      BY <3>1
    <3> QED
      BY <3>2
  <2>9. held[d] + (head + tail) = Amount[d]
    BY <1>1, <2>4, <2>6, <2>7 DEF Divides, At
  <2>10. next[d] + tail = Amount[d] /\ next[d] <= Amount[d]
    BY <2>8, <2>9, LoneNat
  <2>11. Divides(next)'
    <3>1. Unpaid' = Unpaid /\ d \notin Unpaid
      BY <1>1, <2>1, <2>6, PhaseFacts, SoleHolder DEF Unpaid, Sealed
    <3>2. Sealing' = Sealing /\ d \in Sealing
      <4>1. \A q \in Slots : /\ At(q, "seal_transfer") <=> At(q, "seal_transfer")'
                            /\ call'[q].id = call[q].id
        BY <1>1, <2>2, <2>3 DEF Others, At
      <4> QED
        BY <1>1, <2>6, <4>1 DEF Sealing, At
    <3>3. \A e \in Deposits : next[e] <= Amount[e]
      BY <1>1, <2>8, <2>10 DEF Divides
    <3>4. \A e \in Deposits : next[e] # 0 => e \in Unpaid' \cup Sealing'
      BY <1>1, <2>8, <3>1, <3>2 DEF Divides
    <3>5. \A e \in Unpaid' : next[e] = Amount[e]
      BY <1>1, <2>8, <3>1, UnpaidWithin DEF Divides
    <3>6. ASSUME NEW q \in Slots, At(q, "seal_transfer")'
          PROVE  next[call'[q].id] + Sum(call'[q].rest) = Amount[call'[q].id]
      <4>1. CASE q = s
        BY <2>2, <2>3, <2>4, <2>6, <2>7, <2>10, <4>1
      <4>2. CASE q # s
        <5>1. /\ call'[q] = call[q] /\ call[q].id \in Deposits \ {d}
              /\ held[call[q].id] + Sum(call[q].rest) = Amount[call[q].id]
          BY <1>1, <2>6, <3>6, <4>2, PhaseFacts, OthersDivide
        <5> QED
          BY <2>8, <5>1
      <4> QED
        BY <4>1, <4>2
    <3> QED
      BY <3>3, <3>4, <3>5, <3>6 DEF Divides
  <2>12. Debt(next) = Debt(held) + head
    <3>1. Debt(next) + held[d] = Debt(held) + next[d]
      <4>1. \A e \in Deposits : next[e] \in Nat /\ held[e] \in Nat
        BY LoneNat
      <4> QED
        BY <2>8, <4>1, LoneFacts, TotalAt DEF Debt
    <3>2. /\ Debt(next) \in Nat /\ Debt(held) \in Nat /\ held[d] \in Nat
          /\ next[d] = held[d] + head /\ head \in Nat
      BY <2>7, <2>8, LoneFacts, LoneNat, DebtNat
    <3>3. \A m, n, h, k \in Nat : m + h = n + (h + k) => m = n + k
      OBVIOUS
    <3> QED
      BY <3>1, <3>2, <3>3
  <2>13. mixer' = mixer + head /\ LEDGER_FEE \in Nat /\ Debt(held) \in Nat
    BY <2>1, <2>4, <2>7, LoneNat
  <2>14. /\ mixer' + LEDGER_FEE >= Debt(next) /\ mixer' >= mixer
         /\ mixer' + Debt(held) >= mixer + Debt(next)
    BY <1>1, <2>12, <2>13, LoneFacts
  <2>15. MixerKnown(s, next)'
    <3>1. /\ call'[s].pc \notin DrawingPcs
          /\ call'[s].pc \notin {"recycle_wedge", "sweep_compute"}
          /\ call'[s].pc # "recycle_burn" /\ call'[s].pc # "sweep_pay"
      BY <2>2, <2>3, DrawingFacts
    <3> QED
      BY <3>1 DEF MixerKnown
  <2> QED
    BY <2>11, <2>14, <2>15, SolidWhen
<1> QED
  BY <1>3, <1>4

LEMMA SealConvertSolid ==
  ASSUME NEW s \in Slots, NEW held, Lone(s, held), SealConvert(s)
  PROVE  Solvent'
<1>1. /\ TypeOK /\ call[s].pc = "seal_transfer" /\ Others(s) /\ Divides(held)
  BY LoneFacts DEF SealConvert, At
<1> DEFINE c == [call[s] EXCEPT !.amt = 0]
<1>2. /\ UNCHANGED <<deposits, bob, mixer>>
      /\ call' = [call EXCEPT ![s] = c]
  BY DEF SealConvert, routerVars
<1>3. /\ c.pc = "seal_transfer" /\ c.id = call[s].id /\ c.rest = call[s].rest
  BY <1>1, CallFacts DEF CallRecords
<1> HIDE DEF c
<1>4. call'[s] = c
  BY <1>1, <1>2, Updated
<1>5. \A t \in Slots : /\ call'[t].pc = call[t].pc /\ call'[t].id = call[t].id
                       /\ call'[t].rest = call[t].rest
  BY <1>1, <1>3, <1>4 DEF Others
<1>6. Divides(held)'
  <2>1. Unpaid' = Unpaid /\ Sealing' = Sealing
    BY <1>2, <1>5 DEF Unpaid, Sealed, Sealing, At
  <2> QED
    BY <1>1, <1>5, <2>1 DEF Divides, At
<1>7. /\ mixer' + LEDGER_FEE >= Debt(held) /\ mixer' >= mixer
      /\ mixer' + Debt(held) >= mixer + Debt(held)
  BY <1>2, LoneFacts, LoneNat
<1>8. MixerKnown(s, held)'
  <2>1. /\ call'[s].pc \notin DrawingPcs
        /\ call'[s].pc \notin {"recycle_wedge", "sweep_compute"}
        /\ call'[s].pc # "recycle_burn" /\ call'[s].pc # "sweep_pay"
    BY <1>3, <1>4, DrawingFacts
  <2> QED
    BY <2>1 DEF MixerKnown
<1> QED
  BY <1>6, <1>7, <1>8, SolidWhen

\* All of the claim is there when the deposit counts as sealed.
LEMMA SealCommitSolid ==
  ASSUME NEW s \in Slots, NEW held, Lone(s, held), SealCommit(s)
  PROVE  Solvent'
<1>1. /\ TypeOK /\ call[s].pc = "seal_transfer" /\ call[s].id \in Deposits
      /\ call[s].rest = <<>> /\ IsFiniteSet(Deposits) /\ Others(s)
      /\ Divides(held)
  BY LoneFacts DEF SealCommit, At, AnonymousPcs
<1>2. PICK d \in Deposits : d = call[s].id
  BY <1>1
<1>3. UNCHANGED <<mixer, bob>>
  BY DEF SealCommit, ledgerVars
<1>4. call'[s].pc \in {"recycle_read", "leftover"}
  BY <1>1, CallFacts DEF SealCommit, TypeOK, CallType, CallRecords
<1>5. held[d] = Amount[d] /\ d \notin Unpaid /\ bob[d] = 0
  <2>1. Sum(<<>>) = 0
    BY DEF Sum, Part
  <2>2. held[d] + 0 = Amount[d]
    BY <1>1, <1>2, <2>1 DEF Divides, At
  <2> QED
    BY <1>1, <1>2, <2>2, LoneNat, PhaseFacts, SoleHolder
<1>6. /\ deposits'[d].state = "sealed"
      /\ \A e \in Deposits \ {d} : deposits'[e] = deposits[e]
  BY <1>1, <1>2 DEF SealCommit, NoDeposit, TypeOK, DepositsType
<1>7. Unpaid' = Unpaid \cup {d}
  <2>1. \A e \in Deposits : e \in Unpaid' <=> e \in Unpaid \/ e = d
    BY <1>3, <1>5, <1>6 DEF Unpaid, Sealed
  <2> QED
    BY <2>1, UnpaidWithin
<1>8. Sealing \subseteq Sealing' \cup {d}
  <2>1. ASSUME NEW e \in Sealing, e # d
        PROVE  e \in Sealing'
    <3>1. PICK t \in Slots : At(t, "seal_transfer") /\ call[t].id = e
      BY DEF Sealing
    <3>2. call'[t] = call[t]
      BY <1>1, <1>2, <2>1, <3>1 DEF Others
    <3> QED
      BY <3>1, <3>2, UnpaidWithin DEF Sealing, At
  <2> QED
    BY <2>1
<1>9. Divides(held)'
  <2>1. \A e \in Deposits : held[e] # 0 => e \in Unpaid' \cup Sealing'
    BY <1>1, <1>7, <1>8 DEF Divides
  <2>2. \A e \in Unpaid' : held[e] = Amount[e]
    BY <1>1, <1>5, <1>7 DEF Divides
  <2>3. ASSUME NEW t \in Slots, At(t, "seal_transfer")'
        PROVE  held[call'[t].id] + Sum(call'[t].rest) = Amount[call'[t].id]
    <3>1. call'[t] = call[t] /\ At(t, "seal_transfer")
      BY <1>1, <1>4, <2>3 DEF Others, At
    <3> QED
      BY <1>1, <3>1 DEF Divides
  <2> QED
    BY <1>1, <2>1, <2>2, <2>3 DEF Divides
<1>10. /\ mixer' + LEDGER_FEE >= Debt(held) /\ mixer' >= mixer
       /\ mixer' + Debt(held) >= mixer + Debt(held)
  BY <1>3, LoneFacts, LoneNat
<1>11. MixerKnown(s, held)'
  <2>1. /\ call'[s].pc \notin DrawingPcs
        /\ call'[s].pc \notin {"recycle_wedge", "sweep_compute"}
        /\ call'[s].pc # "recycle_burn" /\ call'[s].pc # "sweep_pay"
    BY <1>4, DrawingFacts
  <2> QED
    BY <2>1 DEF MixerKnown
<1> QED
  BY <1>9, <1>10, <1>11, SolidWhen

\* A step that only moves the call on.
LEMMA StaysSolid ==
  ASSUME NEW s \in Slots, NEW held, Lone(s, held),
         UNCHANGED <<mixer, bob, deposits>>,
         ~At(s, "seal_transfer"), call'[s].pc # "seal_transfer",
         MixerKnown(s, held)'
  PROVE  Solvent'
<1>1. Divides(held)'
  BY SameDivides
<1>2. /\ mixer' + LEDGER_FEE >= Debt(held) /\ mixer' >= mixer
      /\ mixer' + Debt(held) >= mixer + Debt(held)
  BY LoneFacts, LoneNat
<1> QED
  BY <1>1, <1>2, SolidWhen

LEMMA RecycleReadSolid ==
  ASSUME NEW s \in Slots, NEW held, Lone(s, held), RecycleRead(s)
  PROVE  Solvent'
<1>1. TypeOK /\ mixer \in Nat
  BY LoneFacts, MixerNat
<1>2. UNCHANGED <<mixer, bob, deposits>>
  BY DEF RecycleRead, routerVars, ledgerVars
<1>3. CASE Goto(s, "leftover")
  BY <1>1, <1>2, <1>3, PcMoves, TameFacts, TameSolid DEF Tame
<1>4. CASE call' = [call EXCEPT ![s].pc = "recycle_wedge", ![s].bal = mixer]
  <2> DEFINE c == [call[s] EXCEPT !.pc = "recycle_wedge", !.bal = mixer]
  <2>1. call' = [call EXCEPT ![s] = c]
    BY <1>4
  <2>2. c.pc = "recycle_wedge" /\ c.bal = mixer
    BY <1>1, CallFacts DEF CallRecords
  <2> HIDE DEF c
  <2>3. call'[s] = c
    BY <1>1, <2>1, Updated
  <2>4. MixerKnown(s, held)'
    BY <1>1, <1>2, <2>2, <2>3, DrawingFacts DEF MixerKnown
  <2> QED
    BY <1>2, <2>2, <2>3, <2>4, StaysSolid DEF RecycleRead, At
<1> QED
  BY <1>3, <1>4 DEF RecycleRead

\* What is beyond the claims can go without touching them.
LEMMA BeyondClaims ==
  \A m, p, x \in Nat :
    LET recycle == Lesser(x, Monus(m, p))
    IN  recycle = 0 \/ recycle + p <= m
  BY DEF Lesser, Monus

LEMMA RecycleWedgeSolid ==
  ASSUME NEW s \in Slots, NEW held, Lone(s, held), RecycleWedge(s)
  PROVE  Solvent'
<1>1. TypeOK /\ mixer \in Nat /\ pool_claims \in Nat
  BY LoneFacts, MixerNat
<1>2. /\ UNCHANGED <<mixer, bob, deposits, pool_claims>>
      /\ call[s].bal \in Nat /\ call[s].bal <= mixer
  BY <1>1, LoneFacts, CallFacts
     DEF RecycleWedge, routerVars, ledgerVars, MixerKnown, At
<1>3. PICK shortfall \in Shortfalls :
        LET recycle == Lesser(shortfall, Monus(call[s].bal, pool_claims))
        IN  call' = [call EXCEPT
                      ![s].pc = IF recycle = 0 THEN "leftover"
                                ELSE "recycle_burn",
                      ![s].bal = 0,
                      ![s].amt = recycle]
  BY DEF RecycleWedge
<1>4. PICK recycle \in Nat :
        recycle = Lesser(shortfall, Monus(call[s].bal, pool_claims))
  BY <1>1, <1>2, MonusNat, LesserNat, ShortfallFacts
<1> DEFINE c == [call[s] EXCEPT
                   !.pc = IF recycle = 0 THEN "leftover" ELSE "recycle_burn",
                   !.bal = 0, !.amt = recycle]
<1>5. call' = [call EXCEPT ![s] = c]
  BY <1>3, <1>4
<1>6. /\ c.pc = IF recycle = 0 THEN "leftover" ELSE "recycle_burn"
      /\ c.amt = recycle
  BY <1>1, CallFacts DEF CallRecords
<1> HIDE DEF c
<1>7. call'[s] = c
  BY <1>1, <1>5, Updated
<1>8. recycle = 0 \/ recycle + Debt(held) <= mixer
  <2>1. recycle = 0 \/ recycle + pool_claims <= call[s].bal
    BY <1>1, <1>2, <1>4, BeyondClaims, ShortfallFacts
  <2>2. Debt(held) <= pool_claims /\ Debt(held) \in Nat
    BY DebtIsClaimed, LoneNat
  <2>3. \A x, p, b, m, o \in Nat :
          x + p <= b /\ b <= m /\ o <= p => x + o <= m
    OBVIOUS
  <2> QED
    BY <1>1, <1>2, <2>1, <2>2, <2>3
<1>9. MixerKnown(s, held)'
  BY <1>2, <1>6, <1>7, <1>8, DrawingFacts DEF MixerKnown
<1>10. call'[s].pc # "seal_transfer" /\ ~At(s, "seal_transfer")
  BY <1>6, <1>7 DEF RecycleWedge, At
<1> QED
  BY <1>2, <1>9, <1>10, StaysSolid

\* A transfer out of the mixer that spares what is held there.
LEMMA SpentSolid ==
  ASSUME NEW s \in Slots, NEW held, Lone(s, held), UNCHANGED <<bob, deposits>>,
         NEW a \in Nat, mixer' = After(mixer, a),
         \/ a + Debt(held) <= mixer
         \/ a + LEDGER_FEE + Debt(held) <= mixer,
         call[s].pc \in SpendingPcs, call'[s].pc \in TamePcs
  PROVE  Solvent'
<1>1. mixer \in Nat /\ LEDGER_FEE \in Nat /\ Debt(held) \in Nat
  BY LoneNat
<1>2. mixer' = mixer - (a + LEDGER_FEE)
  BY DEF After
<1>3. \A m, x, o, f \in Nat :
        x + o <= m \/ x + f + o <= m => (m - (x + f)) + f >= o
  OBVIOUS
<1>4. mixer' + LEDGER_FEE >= Debt(held)
  BY <1>1, <1>2, <1>3
<1>5. MixerKnown(s, held)'
  BY DEF MixerKnown, TamePcs
<1>6. ~At(s, "seal_transfer") /\ call'[s].pc # "seal_transfer"
  BY DrawingFacts DEF TamePcs, At
<1>7. Divides(held)'
  BY <1>6, SameDivides
<1> QED
  BY <1>4, <1>5, <1>7, SolidWhen

LEMMA RecycleBurnSolid ==
  ASSUME NEW s \in Slots, NEW held, Lone(s, held), RecycleBurn(s)
  PROVE  Solvent'
<1>1. TypeOK /\ mixer \in Nat /\ call[s].amt \in Nat
  BY LoneFacts, MixerNat, CallFacts
<1>2. /\ UNCHANGED <<bob, deposits>> /\ call[s].amt + Debt(held) <= mixer
      /\ call[s].pc \in SpendingPcs
  BY LoneFacts, DrawingFacts DEF RecycleBurn, routerVars, MixerKnown, At
<1>3. call'[s].pc \in TamePcs
  BY <1>1, CallFacts, TameFacts
     DEF RecycleBurn, TypeOK, CallType, CallRecords
<1>4. CASE mixer' = After(mixer, call[s].amt)
  BY <1>1, <1>2, <1>3, <1>4, SpentSolid
<1>5. CASE UNCHANGED mixer
  BY <1>1, <1>2, <1>3, <1>5, TameSolid DEF Tame
<1> QED
  BY <1>4, <1>5 DEF RecycleBurn

LEMMA SweepReadSolid ==
  ASSUME NEW s \in Slots, NEW held, Lone(s, held), SweepRead(s)
  PROVE  Solvent'
<1> DEFINE c == [call[s] EXCEPT !.pc = "sweep_compute", !.bal = mixer]
<1>1. /\ TypeOK /\ UNCHANGED <<mixer, bob, deposits>>
      /\ call' = [call EXCEPT ![s] = c]
  BY LoneFacts DEF SweepRead, routerVars, ledgerVars
<1>2. c.pc = "sweep_compute" /\ c.bal = mixer
  BY <1>1, CallFacts DEF CallRecords
<1> HIDE DEF c
<1>3. call'[s] = c
  BY <1>1, Updated
<1>4. mixer \in Nat
  BY LoneNat
<1>5. MixerKnown(s, held)'
  BY <1>1, <1>2, <1>3, <1>4, DrawingFacts DEF MixerKnown
<1> QED
  BY <1>1, <1>2, <1>3, <1>5, StaysSolid DEF SweepRead, At

LEMMA BufferReadSolid ==
  ASSUME NEW s \in Slots, NEW held, Lone(s, held), BufferRead(s)
  PROVE  Solvent'
<1> DEFINE c == [call[s] EXCEPT !.pc = "buffer_pay", !.bal = fee_buf]
<1>1. /\ TypeOK /\ UNCHANGED <<mixer, bob, deposits>>
      /\ call' = [call EXCEPT ![s] = c]
  BY LoneFacts DEF BufferRead, routerVars, ledgerVars
<1>2. c.pc = "buffer_pay"
  BY <1>1, CallFacts DEF CallRecords
<1> HIDE DEF c
<1>3. call'[s] = c
  BY <1>1, Updated
<1>4. MixerKnown(s, held)'
  BY <1>2, <1>3, DrawingFacts DEF MixerKnown
<1> QED
  BY <1>1, <1>2, <1>3, <1>4, StaysSolid DEF BufferRead, At

LEMMA BeyondThreshold ==
  \A m, p, t, f \in Nat :
    LET amt == Monus(Monus(m, p + t), f)
    IN  amt = 0 \/ amt + f + p <= m
  BY DEF Monus

LEMMA SweepComputeSolid ==
  ASSUME NEW s \in Slots, NEW held, Lone(s, held), SweepCompute(s)
  PROVE  Solvent'
<1>1. TypeOK /\ mixer \in Nat /\ pool_claims \in Nat /\ LEDGER_FEE \in Nat
  BY LoneFacts, MixerNat
<1>2. /\ UNCHANGED <<mixer, bob, deposits, pool_claims>>
      /\ call[s].bal \in Nat /\ call[s].bal <= mixer
  BY <1>1, LoneFacts, CallFacts
     DEF SweepCompute, routerVars, ledgerVars, MixerKnown, At
<1> DEFINE excess == Monus(call[s].bal, pool_claims + POOL_SWEEP_THRESHOLD)
           amt == Monus(excess, LEDGER_FEE)
           c == [call[s] EXCEPT !.pc = "sweep_pay", !.bal = 0, !.amt = amt]
<1>3. call' = [call EXCEPT ![s] = c]
  BY DEF SweepCompute
<1>4. amt = 0 \/ amt + LEDGER_FEE + pool_claims <= call[s].bal
  BY <1>1, <1>2, ParameterFacts, BeyondThreshold
<1>8. amt \in Nat
  BY <1>1, <1>2, ParameterFacts, MonusNat
<1> HIDE DEF amt
<1>9. amt = 0 \/ amt + LEDGER_FEE + Debt(held) <= mixer
  <2>1. Debt(held) <= pool_claims /\ Debt(held) \in Nat
    BY DebtIsClaimed, LoneNat
  <2>2. \A x, f, p, b, m, o \in Nat :
          x + f + p <= b /\ b <= m /\ o <= p => x + f + o <= m
    OBVIOUS
  <2> QED
    BY <1>1, <1>2, <1>4, <1>8, <2>1, <2>2
<1>5. c.pc = "sweep_pay" /\ c.amt = amt
  BY <1>1, CallFacts DEF CallRecords
<1> HIDE DEF c
<1>6. call'[s] = c
  BY <1>1, <1>3, Updated
<1>7. MixerKnown(s, held)'
  BY <1>2, <1>9, <1>5, <1>6, DrawingFacts DEF MixerKnown
<1> QED
  BY <1>2, <1>5, <1>6, <1>7, StaysSolid DEF SweepCompute, At

LEMMA SweepPaySolid ==
  ASSUME NEW s \in Slots, NEW held, Lone(s, held), SweepPay(s)
  PROVE  Solvent'
<1>1. TypeOK /\ mixer \in Nat /\ call[s].amt \in Nat
  BY LoneFacts, MixerNat, CallFacts
<1>2. /\ UNCHANGED <<bob, deposits>>
      /\ \/ call[s].amt = 0
         \/ call[s].amt + LEDGER_FEE + Debt(held) <= mixer
      /\ call[s].pc \in SpendingPcs
  BY LoneFacts, DrawingFacts DEF SweepPay, MixerKnown, At
<1>3. call'[s].pc \in TamePcs
  <2>1. CASE Return(s) \/ ReturnUnlocked(s)
    BY <1>1, <2>1, ReturnTame DEF ReturnUnlocked
  <2>2. CASE call' = [call EXCEPT ![s].pc = "buffer_read", ![s].amt = 0]
    BY <1>1, <2>2, CallFacts, TameFacts DEF TypeOK, CallType, CallRecords
  <2> QED
    BY <2>1, <2>2 DEF SweepPay
<1>4. CASE call[s].amt > 0 /\ mixer' = After(mixer, call[s].amt)
  BY <1>1, <1>2, <1>3, <1>4, SpentSolid
<1>5. CASE UNCHANGED mixer
  BY <1>1, <1>2, <1>3, <1>5, TameSolid DEF Tame
<1> QED
  BY <1>4, <1>5 DEF SweepPay

-----------------------------------------------------------------------------
(* The finalization *)

\* The mixer holds what is owed, without the fee.
LEMMA PaySolid ==
  ASSUME NEW s \in Slots, NEW held, Lone(s, held), UNCHANGED <<bob, deposits>>,
         mixer' >= Debt(held), call[s].pc \in PayPcs, call'[s].pc \in DrawingPcs
  PROVE  Solvent'
<1>1. mixer' \in Nat /\ LEDGER_FEE \in Nat /\ Debt(held) \in Nat
  BY LoneNat
<1>2. mixer' + LEDGER_FEE >= Debt(held)
  BY <1>1
<1>3. MixerKnown(s, held)'
  <2>1. Debt(held)' = Debt(held)
    BY DEF Debt
  <2> QED
    BY <2>1, DrawingFacts DEF MixerKnown
<1>4. ~At(s, "seal_transfer") /\ call'[s].pc # "seal_transfer"
  BY DrawingFacts DEF At
<1>5. Divides(held)'
  BY <1>4, SameDivides
<1> QED
  BY <1>2, <1>3, <1>5, DrawingFacts, SolidWhen

LEMMA FinalizePreloadSolid ==
  ASSUME NEW s \in Slots, NEW held, Lone(s, held), FinalizePreload(s)
  PROVE  Solvent'
<1>1. TypeOK /\ TypeOK' /\ mixer \in Nat /\ Debt(held) \in Nat /\ LEDGER_FEE \in Nat
  BY LoneFacts, LoneNat
<1>2. UNCHANGED <<bob, deposits>> /\ call[s].pc \in PayPcs
  BY DrawingFacts DEF FinalizePreload, At
<1>3. CASE ReturnUnlocked(s) /\ UNCHANGED mixer
  BY <1>1, <1>2, <1>3, ReturnTame, TameSolid DEF ReturnUnlocked, Tame
<1>4. CASE mixer' = mixer + LEDGER_FEE /\ Goto(s, "fin_balance")
  <2>1. mixer + LEDGER_FEE >= Debt(held)
    BY LoneFacts
  <2>2. call'[s].pc \in DrawingPcs
    BY <1>1, <1>4, PcMoves, DrawingFacts
  <2> QED
    BY <1>1, <1>2, <1>4, <2>1, <2>2, PaySolid
<1> QED
  BY <1>3, <1>4 DEF FinalizePreload, FromBuffer

LEMMA FinalizeReadSolid ==
  ASSUME NEW s \in Slots, NEW held, Lone(s, held), FinalizeBalance(s) \/ FinalizeEnsure(s)
  PROVE  Solvent'
<1>1. TypeOK /\ TypeOK'
  BY LoneFacts
<1>2. UNCHANGED <<bob, deposits, mixer>>
  BY DEF FinalizeBalance, FinalizeEnsure, ReadMixer, routerVars, ledgerVars
<1>3. mixer >= Debt(held) /\ call[s].pc \in PayPcs
  BY LoneFacts, DrawingFacts
     DEF FinalizeBalance, FinalizeEnsure, ReadMixer, At, MixerKnown
<1>4. call'[s].pc \in DrawingPcs
  BY <1>1, CallFacts, DrawingFacts
     DEF FinalizeBalance, FinalizeEnsure, ReadMixer, TypeOK, CallType,
         CallRecords
<1> QED
  BY <1>1, <1>2, <1>3, <1>4, PaySolid

LEMMA FinalizeTopsUpSolid ==
  ASSUME NEW s \in Slots, NEW held, Lone(s, held), FinalizeTopUp(s) \/ FinalizeDeficit(s)
  PROVE  Solvent'
<1>1. /\ TypeOK /\ TypeOK' /\ mixer \in Nat /\ Debt(held) \in Nat
      /\ LEDGER_FEE \in Nat /\ call[s].bal \in Nat
      /\ call[s].pc \in {"fin_topup", "fin_deficit"}
  BY LoneFacts, LoneNat, CallFacts
     DEF FinalizeTopUp, FinalizeDeficit, At
<1>2. UNCHANGED <<bob, deposits>>
  BY DEF FinalizeTopUp, FinalizeDeficit
<1>3. PICK need \in Nat : need = Amount[call[s].id] + LEDGER_FEE
  <2>1. call[s].id \in Deposits
    BY <1>1, CallFacts DEF AnonymousPcs
  <2> QED
    BY <1>1, <2>1, DepositFacts
<1>4. mixer >= Debt(held) /\ call[s].pc \in PayPcs
  BY <1>1, LoneFacts, DrawingFacts DEF MixerKnown
<1>5. PICK next \in {"fin_ensure", "fin_transfer"} : TopUp(s, next)
  BY DEF FinalizeTopUp, FinalizeDeficit
<1>6. \/ ReturnUnlocked(s) /\ UNCHANGED mixer
      \/ Goto(s, next) /\ UNCHANGED mixer
      \/ /\ Goto(s, next) /\ call[s].bal < need
         /\ mixer' = mixer + (need - call[s].bal)
  BY <1>3, <1>5 DEF TopUp, FromBuffer
<1>7. CASE ReturnUnlocked(s) /\ UNCHANGED mixer
  BY <1>1, <1>2, <1>7, ReturnTame, TameSolid DEF ReturnUnlocked, Tame
<1>8. CASE Goto(s, next)
  <2>1. call'[s].pc \in DrawingPcs
    BY <1>1, <1>8, PcMoves, DrawingFacts
  <2>2. \A m, n, b, o \in Nat : m >= o /\ b < n => m + (n - b) >= o
    OBVIOUS
  <2>3. mixer' >= Debt(held)
    <3>1. CASE UNCHANGED mixer
      BY <1>4, <3>1
    <3>2. CASE /\ call[s].bal < need
               /\ mixer' = mixer + (need - call[s].bal)
      BY <1>1, <1>3, <1>4, <2>2, <3>2
    <3> QED
      BY <1>1, <1>6, <1>8, <3>1, <3>2, PcMoves, Updated
         DEF ReturnUnlocked
  <2> QED
    BY <1>1, <1>2, <1>4, <2>1, <2>3, PaySolid
<1> QED
  BY <1>6, <1>7, <1>8

\* The payment takes from the mixer what it takes off the debt.
LEMMA FinalizeTransferSolid ==
  ASSUME RecordsAreKept, NEW s \in Slots, NEW held, Lone(s, held), FinalizeTransfer(s)
  PROVE  Solvent'
<1>1. /\ TypeOK /\ TypeOK' /\ mixer \in Nat /\ LEDGER_FEE \in Nat
      /\ IsFiniteSet(Deposits) /\ call[s].pc = "fin_transfer"
      /\ call[s].id \in Deposits /\ InFlight(s)
  BY LoneFacts, MixerNat DEF FinalizeTransfer, At, AnonymousPcs
<1>2. PICK d \in Deposits : d = call[s].id
  BY <1>1
<1>3. UNCHANGED deposits
  BY DEF FinalizeTransfer
<1>4. CASE ReturnUnlocked(s) /\ UNCHANGED <<mixer, bob>>
  BY <1>1, <1>3, <1>4, ReturnTame, TameSolid DEF ReturnUnlocked, Tame
<1>5. CASE /\ mixer' = After(mixer, Amount[d])
           /\ bob' = [bob EXCEPT ![d] = @ + Amount[d]]
           /\ Goto(s, "fin_commit")
  <2>1. d \in Unpaid /\ bob[d] = 0
    BY <1>1, <1>2, PhaseFacts
       DEF InFlight, Fits, Payable, RecordsAreKept, Unpaid, Sealed
  <2>2. Amount[d] \in Nat \ {0}
    BY DepositFacts
  <2>3. Unpaid' = Unpaid \ {d}
    <3>1. bob'[d] = Amount[d] /\ bob'[d] # 0
      BY <1>1, <1>5, <2>1, <2>2 DEF TypeOK, LedgerType
    <3>2. \A e \in Deposits \ {d} : bob'[e] = bob[e]
      BY <1>1, <1>5 DEF TypeOK, LedgerType
    <3>3. \A e \in Deposits : e \in Unpaid' <=> e \in Unpaid /\ e # d
      BY <1>3, <3>1, <3>2 DEF Unpaid, Sealed
    <3> QED
      BY <3>3, UnpaidWithin
  <2>4. PICK next \in [Deposits -> Nat] :
          next[d] = 0 /\ \A e \in Deposits \ {d} : next[e] = held[e]
    <3> DEFINE f == [held EXCEPT ![d] = 0]
    <3>1. held \in [Deposits -> Nat]
      BY LoneNat
    <3>2. /\ f \in [Deposits -> Nat] /\ f[d] = 0
          /\ \A e \in Deposits \ {d} : f[e] = held[e]
      BY <3>1
    <3> QED
      BY <3>2
  <2>5. /\ Sealing' = Sealing
        /\ \A q \in Slots : At(q, "seal_transfer")' =>
             call'[q] = call[q] /\ At(q, "seal_transfer")
    <3>1. call'[s].pc = "fin_commit"
      BY <1>1, <1>5, PcMoves
    <3>2. /\ Sealing' = Sealing
          /\ \A q \in Slots : At(q, "seal_transfer")' => call'[q] = call[q]
      BY <1>1, <3>1, LoneFacts, SameSealing DEF At
    <3> QED
      BY <3>2 DEF At
  <2>6. Divides(next)'
    <3>1. Divides(held) /\ \A e \in Deposits : Amount[e] \in Nat
      BY LoneFacts, LoneNat
    <3>2. \A e \in Deposits : next[e] <= Amount[e]
      BY <2>4, <3>1 DEF Divides
    <3>3. \A e \in Deposits : next[e] # 0 => e \in Unpaid' \cup Sealing'
      BY <2>3, <2>4, <2>5, <3>1 DEF Divides
    <3>4. \A e \in Unpaid' : next[e] = Amount[e]
      BY <2>3, <2>4, <3>1, UnpaidWithin DEF Divides
    <3>5. ASSUME NEW q \in Slots, At(q, "seal_transfer")'
          PROVE  next[call'[q].id] + Sum(call'[q].rest) = Amount[call'[q].id]
      <4>1. call'[q] = call[q] /\ At(q, "seal_transfer")
        BY <2>5, <3>5
      <4>2. call[q].id \in Deposits \ {d}
        <5>1. q # s
          BY <1>1, <4>1 DEF At
        <5>2. \A u \in Slots \ {s} :
                At(u, "seal_transfer") => call[u].id # call[s].id
          <6>1. call[s].pc \notin NeutralPcs /\ Payments
            BY <1>1, BooksPcFacts, LoneFacts DEF FinalizePcs
          <6> QED
            BY <1>1, <6>1, SoleSealing
        <5>3. call[q].id \in Deposits
          BY <1>1, <4>1, CallFacts, SealTransferActs DEF At
        <5> QED
          BY <1>2, <4>1, <5>1, <5>2, <5>3
      <4> QED
        BY <2>4, <3>1, <4>1, <4>2 DEF Divides
    <3> QED
      BY <3>2, <3>3, <3>4, <3>5 DEF Divides
  <2>7. Debt(next) + Amount[d] = Debt(held) /\ Debt(next) \in Nat
    <3>1. Debt(next) + held[d] = Debt(held) + next[d]
      <4>1. \A e \in Deposits : next[e] \in Nat /\ held[e] \in Nat
        BY LoneNat
      <4> QED
        BY <1>1, <2>4, <4>1, TotalAt DEF Debt
    <3>2. held[d] = Amount[d] /\ Debt(held) \in Nat
      BY <2>1, LoneFacts, LoneNat DEF Divides
    <3> QED
      BY <1>1, <2>2, <2>4, <3>1, <3>2, DebtNat
  <2>8. mixer >= Debt(held) /\ call[s].pc \in SpendingPcs
    BY <1>1, LoneFacts, DrawingFacts DEF MixerKnown
  <2>9. mixer' + LEDGER_FEE >= Debt(next)
    <3>1. mixer' = mixer - (Amount[d] + LEDGER_FEE)
      BY <1>5 DEF After
    <3>2. \A m, x, f, o, p \in Nat :
            m >= o /\ p + x = o => (m - (x + f)) + f >= p
      OBVIOUS
    <3>3. Debt(held) \in Nat
      BY LoneNat
    <3> QED
      BY <1>1, <2>2, <2>7, <2>8, <3>1, <3>2, <3>3
  <2>10. MixerKnown(s, next)'
    <3>1. call'[s].pc = "fin_commit"
      BY <1>1, <1>5, PcMoves
    <3> QED
      BY <3>1, DrawingFacts DEF MixerKnown
  <2> QED
    BY <2>6, <2>8, <2>9, <2>10, SolidWhen
<1> QED
  BY <1>2, <1>4, <1>5 DEF FinalizeTransfer

-----------------------------------------------------------------------------
(* The steps of the call, of the environment, and the theorem *)

LEMMA CallSolid ==
  ASSUME SealsGoThrough, RecordsAreKept, NEW s \in Slots, NEW held, Lone(s, held),
         Start(s) \/ Continue(s)
  PROVE  Solvent'
<1>1. CASE Start(s)
  BY <1>1, StartTame, TameSolid
<1>2. CASE AllocStep(s) \/ PrepareStep(s)
  BY <1>2, EarlyTame, TameSolid
<1>3. CASE SealStep(s)
  BY <1>3, EarlyTame, TameSolid, SealComputeSolid, SealTransferSolid,
     SealConvertSolid, SealCommitSolid
     DEF SealStep
<1>4. CASE MaintenanceStep(s)
  BY <1>4, LateTame, TameSolid, RecycleReadSolid, RecycleWedgeSolid,
     RecycleBurnSolid, SweepReadSolid, SweepComputeSolid, SweepPaySolid,
     BufferReadSolid
     DEF MaintenanceStep
<1>5. CASE FinalizeStep(s)
  BY <1>5, LateTame, TameSolid, FinalizePreloadSolid, FinalizeReadSolid,
     FinalizeTopsUpSolid, FinalizeTransferSolid
     DEF FinalizeStep
<1>6. CASE ReclaimStep(s)
  BY <1>6, LateTame, TameSolid
<1> QED
  BY <1>1, <1>2, <1>3, <1>4, <1>5, <1>6 DEF Continue

LEMMA InitSolid ==
  ASSUME Init, IsFiniteSet(Deposits)
  PROVE  Solvent
<1>1. /\ mixer \in Nat
      /\ \A d \in Deposits : deposits[d].state = "none"
      /\ \A s \in Slots : call[s].pc = "idle"
  BY RouterAssumption DEF Init, NoDeposit, Idle
<1>2. Unpaid = {} /\ Sealing = {}
  BY <1>1 DEF Unpaid, Sealed, Sealing, At
<1>3. PICK held \in [Deposits -> Nat] : \A d \in Deposits : held[d] = 0
  <2>1. [d \in Deposits |-> 0] \in [Deposits -> Nat]
    OBVIOUS
  <2> QED
    BY <2>1
<1>4. Divides(held)
  BY <1>1, <1>2, <1>3, DepositFacts DEF Divides, At
<1>5. Debt(held) = 0
  <2>1. Total(held, Deposits) <= Total(held, {})
    <3>1. /\ \A d \in Deposits : held[d] \in Nat
          /\ \A d \in Deposits \ {} : held[d] = 0
      BY <1>3
    <3> QED
      BY <3>1, TotalBelow
  <2>2. Total(held, {}) = 0 /\ Debt(held) \in Nat
    BY <1>3, TotalEmpty, DebtNat
  <2> QED
    BY <2>1, <2>2 DEF Debt
<1>6. \A s \in Slots : MixerKnown(s, held)
  <2>1. \A s \in Slots : call[s].pc \notin SpendingPcs
    BY <1>1, DrawingFacts
  <2> QED
    BY <2>1, KnowsNothing
<1>7. Solid(held)
  BY <1>1, <1>4, <1>5, <1>6, ParameterFacts DEF Solid
<1> QED
  BY <1>7 DEF Solvent

LEMMA UnchangedSolid ==
  ASSUME Solvent, UNCHANGED <<mixer, bob, deposits, call>>
  PROVE  Solvent'
<1>1. PICK held : Solid(held)
  BY DEF Solvent
<1>2. /\ Unpaid' = Unpaid /\ Sealing' = Sealing
      /\ \A s \in Slots : At(s, "seal_transfer")' <=> At(s, "seal_transfer")
  BY DEF Unpaid, Sealed, Sealing, At
<1>3. Divides(held)'
  BY <1>1, <1>2 DEF Solid, Divides
<1>4. Debt(held)' = Debt(held)
  BY DEF Debt
<1>5. \A s \in Slots : MixerKnown(s, held)'
  BY <1>1, <1>4 DEF Solid, MixerKnown
<1>6. Solid(held)'
  BY <1>1, <1>3, <1>4, <1>5 DEF Solid
<1> QED
  BY <1>6 DEF Solvent

LEMMA NextSolid ==
  ASSUME RecordsAreKept, IsFiniteSet(Deposits), SealsGoThrough,
         SpendsApart, SpendsApart',
         Payments, Books, faults = MaxFaults => Exact /\ Solvent, [Next]_vars,
         faults' = MaxFaults
  PROVE  Solvent'
<1>1. TypeOK /\ TypeOK'
  BY NextType DEF Payments, Exclusive
<1>2. faults \in Nat /\ faults <= MaxFaults /\ MaxFaults \in Nat
  BY <1>1, RouterAssumption DEF Books, TypeOK, ClientType
<1>3. CASE Environment
  <2>1. faults' = faults
    BY <1>3
       DEF Environment, SetPaused, Upgrade, Fund, Expire, AdminClearLock,
           AdminClearDeposit
  <2>2. UNCHANGED <<mixer, bob, deposits, call>>
    BY <1>3
       DEF Environment, RecordsAreKept, SetPaused, Upgrade, Fund, Expire,
           AdminClearLock, AdminClearDeposit, routerVars, serviceVars,
           ledgerVars
  <2> QED
    BY <2>1, <2>2, UnchangedSolid
<1>4. ASSUME NEW s \in Slots, Start(s) \/ Continue(s)
      PROVE  Solvent'
  <2>1. LockStep(s)
    BY <1>1, <1>4, StartLocks, ContinueLocks DEF Payments, Exclusive
  <2>2. faults' = faults
    BY <1>2, <1>4, FaultsAreSpent
  <2>3. Untroubled(s) /\ Solvent
    BY <1>1, <2>1, <2>2 DEF Untroubled, Ready, Calm
  <2>4. PICK held : Solid(held)
    BY <2>3 DEF Solvent
  <2> QED
    BY <1>4, <2>3, <2>4, CallSolid DEF Lone
<1>5. CASE UNCHANGED vars
  BY <1>5, UnchangedSolid
     DEF vars, routerVars, serviceVars, ledgerVars, clientVars, quoteVars
<1> QED
  BY <1>3, <1>4, <1>5 DEF Next

\* As long as nothing has failed and no record is thrown away, and no two calls are
\* about to pay out at the same time, the mixer covers every sealed deposit that
\* Bob has still to be paid for, whatever the rates and the Router's shortfall in
\* cycles, for amounts a seal records in full: a seal brings in what it promises
\* before the deposit counts as sealed, also where others seal, a finalization
\* takes no more than its own deposit's part and the fee it has moved in, and
\* neither the recycling nor the sweep touches what is owed.
THEOREM MixerCoversDebts ==
  ASSUME RecordsAreKept, IsFiniteSet(Deposits), PriceHolds, SealsGoThrough
  PROVE  Spec /\ []SpendsApart => [](faults = MaxFaults => MixerCovers)
<1> DEFINE Balanced == faults = MaxFaults => Exact /\ Solvent
<1>1. Init => Payments /\ Books /\ Balanced
  BY InitPayments, InitBooks, InitExact, InitSolid
<1>2. Payments /\ Books /\ Balanced /\ [Next]_vars
        /\ SpendsApart /\ SpendsApart'
        => (Payments /\ Books /\ Balanced)'
  <2>1. "clear_lock" \notin Operations
    BY DEF RecordsAreKept
  <2>2. ASSUME Payments, Books, Balanced, [Next]_vars
        PROVE  Payments' /\ Books'
    BY <2>1, <2>2, NextPayments, NextBooks
  <2>3. ASSUME Payments, Books, Balanced, [Next]_vars, SpendsApart,
               SpendsApart', faults' = MaxFaults
        PROVE  Exact' /\ Solvent'
    BY <2>3, NextExact, NextSolid
  <2> QED
    BY <2>2, <2>3
<1>3. Payments /\ Balanced => (faults = MaxFaults => MixerCovers)
  BY HeldCovers DEF Solvent, Payments, Exclusive
<1> QED
  BY <1>1, <1>2, <1>3, PTL DEF Spec

-----------------------------------------------------------------------------
(* The fee buffer.  A seal brings in what its finalization takes out again, *)
(* the recycling leaves a reserve, and where no two calls are about to pay  *)
(* out at the same time, what the seals brought for the deposits still to   *)
(* be paid for, and for those being sealed, is there.                       *)

\* The deposits whose finalization is still to draw on the buffer, and what their
\* finalizations take out at most: two transfers of a fee.
Waiting == Unpaid \ Preloaded
Coming == Waiting \cup Sealing
Withdrawals(S) == 4 * LEDGER_FEE * Cardinality(S)

\* What the buffer holds beyond that: the top-up a finalization may still need.
Beyond(pc) == IF pc \in {"fin_balance", "fin_topup"} THEN 2 * LEDGER_FEE ELSE 0

\* What a call in flight knows of the mixer and of the buffer.
BalanceKnown(s) ==
  LET pc == call[s].pc
      bal == call[s].bal
  IN /\ pc = "buffer_pay" => bal <= fee_buf
     /\ pc \in {"fin_topup", "fin_deficit"} => bal <= mixer
     /\ pc = "fin_topup" => bal >= Amount[call[s].id]
     /\ pc = "fin_deficit" => bal >= Amount[call[s].id] + LEDGER_FEE
     /\ pc \in {"fin_ensure", "fin_deficit", "fin_transfer"} =>
          mixer >= Amount[call[s].id] + LEDGER_FEE

Filled(s) ==
  /\ fee_buf >= Withdrawals(Coming) + Beyond(call[s].pc)
  /\ BalanceKnown(s)
Stocked ==
  /\ fee_buf >= Withdrawals(Coming)
  /\ \A s \in Slots : Filled(s)

LEMMA FeeTimes ==
  \A n \in Nat : /\ 4 * LEDGER_FEE * n \in Nat
                 /\ 4 * LEDGER_FEE * (n + 1) = 4 * LEDGER_FEE * n + 4 * LEDGER_FEE
<1>1. PICK f \in Nat : f = LEDGER_FEE
  BY ParameterFacts
<1>2. \A n \in Nat : f * n \in Nat /\ f * (n + 1) = f * n + f
  OBVIOUS
<1>3. \A n \in Nat : 4 * f * n = 4 * (f * n)
  OBVIOUS
<1>4. ASSUME NEW n \in Nat
      PROVE  4 * f * n \in Nat /\ 4 * f * (n + 1) = 4 * f * n + 4 * f
  <2>1. PICK k \in Nat : k = f * n
    BY <1>2
  <2>2. 4 * f * n = 4 * k /\ 4 * f * (n + 1) = 4 * (k + f)
    BY <1>2, <1>3, <2>1
  <2> QED
    BY <2>2
<1> QED
  BY <1>1, <1>4

LEMMA FeesGrow ==
  \A m, n \in Nat : m <= n => 4 * LEDGER_FEE * m <= 4 * LEDGER_FEE * n
<1>1. PICK f \in Nat : f = LEDGER_FEE
  BY ParameterFacts
<1>2. ASSUME NEW m \in Nat, NEW n \in Nat, m <= n
      PROVE  4 * f * m <= 4 * f * n
  <2>1. PICK k \in Nat : n = m + k
    <3>1. n - m \in Nat /\ n = m + (n - m)
      BY <1>2
    <3> QED
      BY <3>1
  <2>2. 4 * f * (m + k) = 4 * f * m + 4 * f * k
    OBVIOUS
  <2>3. 4 * f * m \in Nat /\ 4 * f * k \in Nat
    BY <1>1, FeeTimes
  <2> QED
    BY <2>1, <2>2, <2>3
<1> QED
  BY <1>1, <1>2

LEMMA WithdrawalsNat ==
  ASSUME IsFiniteSet(Deposits), NEW S \in SUBSET Deposits
  PROVE  /\ IsFiniteSet(S) /\ Cardinality(S) \in Nat /\ Withdrawals(S) \in Nat
         /\ \A T \in SUBSET S : Withdrawals(T) <= Withdrawals(S)
<1>1. IsFiniteSet(S) /\ Cardinality(S) \in Nat
  BY FS_Subset, FS_CardinalityType
<1>2. ASSUME NEW T \in SUBSET S
      PROVE  Withdrawals(T) <= Withdrawals(S)
  <2>1. IsFiniteSet(T) /\ Cardinality(T) \in Nat
    BY <1>1, FS_Subset, FS_CardinalityType
  <2>2. Cardinality(T) <= Cardinality(S)
    BY <1>1, FS_Subset
  <2> QED
    BY <1>1, <2>1, <2>2, FeesGrow DEF Withdrawals
<1> QED
  BY <1>1, <1>2, FeeTimes DEF Withdrawals

LEMMA WithdrawalsAdd ==
  ASSUME IsFiniteSet(Deposits), NEW S \in SUBSET Deposits, NEW d
  PROVE  /\ d \notin S =>
              Withdrawals(S \cup {d}) = Withdrawals(S) + 4 * LEDGER_FEE
         /\ d \in S =>
              Withdrawals(S) = Withdrawals(S \ {d}) + 4 * LEDGER_FEE
<1>1. IsFiniteSet(S) /\ Cardinality(S) \in Nat
  BY WithdrawalsNat
<1>2. CASE d \notin S
  <2>1. Cardinality(S \cup {d}) = Cardinality(S) + 1
    BY <1>1, <1>2, FS_AddElement
  <2> QED
    BY <1>1, <1>2, <2>1, FeeTimes DEF Withdrawals
<1>3. CASE d \in S
  <2>1. IsFiniteSet(S \ {d}) /\ Cardinality(S \ {d}) \in Nat
    BY <1>1, FS_Subset, FS_CardinalityType
  <2>2. (S \ {d}) \cup {d} = S /\ d \notin S \ {d}
    BY <1>3
  <2>3. Cardinality(S) = Cardinality(S \ {d}) + 1
    BY <2>1, <2>2, FS_AddElement
  <2> QED
    BY <1>3, <2>1, <2>3, FeeTimes DEF Withdrawals
<1> QED
  BY <1>2, <1>3

LEMMA ComingWithin ==
  /\ Waiting \in SUBSET Unpaid /\ Waiting' \in SUBSET Unpaid'
  /\ Coming \in SUBSET Deposits /\ Coming' \in SUBSET Deposits
  BY UnpaidWithin DEF Waiting, Coming

LEMMA BufferNat ==
  ASSUME NEW s \in Slots, NEW held, Lone(s, held)
  PROVE  /\ fee_buf \in Nat /\ fee_buf' \in Nat /\ LEDGER_FEE \in Nat
         /\ mixer \in Nat /\ mixer' \in Nat
         /\ Withdrawals(Coming) \in Nat /\ Withdrawals(Coming') \in Nat
         /\ \A pc : Beyond(pc) \in Nat
<1>1. /\ fee_buf \in Nat /\ fee_buf' \in Nat /\ LEDGER_FEE \in Nat
      /\ mixer \in Nat /\ mixer' \in Nat
  BY LoneFacts, LoneNat DEF TypeOK, LedgerType
<1>2. Withdrawals(Coming) \in Nat /\ Withdrawals(Coming') \in Nat
  BY LoneFacts, ComingWithin, WithdrawalsNat
<1> QED
  BY <1>1, <1>2 DEF Beyond

\* What the others know stays true.
LEMMA OthersFilled ==
  ASSUME NEW s \in Slots, NEW held, Lone(s, held), Stocked,
         NEW t \in Slots \ {s}, NEW w \in Nat, Withdrawals(Coming') <= w,
         fee_buf' >= w,
         \/ call[s].pc \in SpendingPcs \/ call'[s].pc \in SpendingPcs
         \/ /\ mixer' >= mixer /\ fee_buf' >= fee_buf
            /\ fee_buf' + Withdrawals(Coming) >= fee_buf + w
  PROVE  Filled(t)'
<1>1. call'[t] = call[t]
  BY LoneFacts DEF Others
<1>2. /\ Withdrawals(Coming)' = Withdrawals(Coming')
      /\ Beyond(call[t].pc)' = Beyond(call[t].pc)
  BY <1>1 DEF Withdrawals, Beyond
<1>3. /\ fee_buf \in Nat /\ fee_buf' \in Nat /\ mixer \in Nat /\ mixer' \in Nat
      /\ Withdrawals(Coming) \in Nat /\ Withdrawals(Coming') \in Nat
      /\ Beyond(call[t].pc) \in Nat /\ LEDGER_FEE \in Nat
  BY BufferNat
<1>4. CASE call[t].pc \notin SpendingPcs
  <2>1. /\ call[t].pc \notin {"fin_balance", "fin_topup", "fin_ensure",
                              "fin_deficit", "fin_transfer"}
        /\ call[t].pc # "buffer_pay"
    BY <1>4, DrawingFacts
  <2>2. Beyond(call[t].pc) = 0
    BY <2>1 DEF Beyond
  <2>3. fee_buf' >= Withdrawals(Coming') + 0
    BY <1>3
  <2> QED
    BY <1>1, <1>2, <2>1, <2>2, <2>3 DEF Filled, BalanceKnown
<1>5. CASE call[t].pc \in SpendingPcs
  <2>1. call[s].pc \notin SpendingPcs /\ call'[s].pc \notin SpendingPcs
    BY <1>1, <1>5 DEF Lone, SpendsApart
  <2>2. /\ mixer' >= mixer /\ fee_buf' >= fee_buf
        /\ fee_buf' + Withdrawals(Coming) >= fee_buf + w
    BY <2>1
  <2>3. /\ fee_buf >= Withdrawals(Coming) + Beyond(call[t].pc)
        /\ BalanceKnown(t)
    BY DEF Stocked, Filled
  <2>4. fee_buf' >= Withdrawals(Coming') + Beyond(call[t].pc)
    <3>1. \A a, b, m, n, x, y \in Nat :
            a >= m + x /\ b + m >= a + y /\ n <= y => b >= n + x
      OBVIOUS
    <3> QED
      BY <1>3, <2>2, <2>3, <3>1
  <2>5. BalanceKnown(t)'
    <3>1. call[t].bal \in Nat
      BY LoneFacts, CallFacts
    <3>2. call[t].bal <= fee_buf => call[t].bal <= fee_buf'
      BY <1>3, <2>2, <3>1
    <3>3. call[t].bal <= mixer => call[t].bal <= mixer'
      BY <1>3, <2>2, <3>1
    <3>4. call[t].pc \in DrawingPcs => Amount[call[t].id] + LEDGER_FEE \in Nat
      <4>1. call[t].pc \in DrawingPcs => call[t].id \in Deposits
        BY LoneFacts, CallFacts DEF DrawingPcs, PayPcs, FinalizePcs, AnonymousPcs
      <4> QED
        BY <1>3, <4>1, DepositFacts
    <3>5. call[t].pc \in {"fin_ensure", "fin_deficit", "fin_transfer"}
            => mixer' >= Amount[call[t].id] + LEDGER_FEE
      BY <1>3, <2>2, <2>3, <3>4, DrawingFacts DEF BalanceKnown
    <3> QED
      BY <1>1, <2>3, <3>2, <3>3, <3>5 DEF BalanceKnown
  <2> QED
    BY <1>1, <1>2, <2>4, <2>5 DEF Filled
<1> QED
  BY <1>4, <1>5

\* The next state's Coming within a set whose withdrawals the buffer covers.
LEMMA FilledWhen ==
  ASSUME NEW s \in Slots, NEW held, Lone(s, held), Stocked,
         NEW S \in SUBSET Deposits, Coming' \subseteq S,
         fee_buf' >= Withdrawals(S) + Beyond(call'[s].pc), BalanceKnown(s)',
         \/ call[s].pc \in SpendingPcs \/ call'[s].pc \in SpendingPcs
         \/ /\ mixer' >= mixer /\ fee_buf' >= fee_buf
            /\ fee_buf' + Withdrawals(Coming) >= fee_buf + Withdrawals(S)
  PROVE  Stocked'
<1>1. /\ Withdrawals(S) \in Nat
      /\ Withdrawals(Coming') <= Withdrawals(S)
  BY LoneFacts, WithdrawalsNat
<1>2. /\ fee_buf' \in Nat /\ Withdrawals(Coming') \in Nat
      /\ Beyond(call'[s].pc) \in Nat
  BY BufferNat
<1>3. /\ fee_buf' >= Withdrawals(S)
      /\ fee_buf' >= Withdrawals(Coming')
      /\ fee_buf' >= Withdrawals(Coming') + Beyond(call'[s].pc)
  BY <1>1, <1>2
<1>4. Withdrawals(Coming)' = Withdrawals(Coming')
  BY DEF Withdrawals
<1>5. Filled(s)'
  <2>1. Beyond(call[s].pc)' = Beyond(call'[s].pc)
    BY DEF Beyond
  <2> QED
    BY <1>3, <1>4, <2>1 DEF Filled
<1>6. ASSUME NEW t \in Slots \ {s}
      PROVE  Filled(t)'
  BY <1>1, <1>3, OthersFilled
<1> QED
  BY <1>3, <1>4, <1>5, <1>6 DEF Stocked

\* The deposit of a finalization that has paid is not one that is still to be
\* paid for.
LEMMA CommitPaid ==
  ASSUME NEW s \in Slots, NEW held, Lone(s, held), NEW t \in Slots,
         call[t].pc = "fin_commit"
  PROVE  call[t].id \notin Unpaid
<1>1. call[t].id \in Deposits => bob[call[t].id] = Amount[call[t].id]
  BY LoneFacts DEF Payments, PaymentsMatchRecords, InFlight, Fits
<1>2. ASSUME NEW d \in Deposits, d = call[t].id
      PROVE  d \notin Unpaid
  BY <1>1, <1>2, DepositFacts DEF Unpaid
<1> QED
  BY <1>2, UnpaidWithin

\* Who is to come, after a step that seals no more than S.
LEMMA ComingNext ==
  ASSUME NEW s \in Slots, NEW held, Lone(s, held), NEW S,
         Unpaid' \subseteq Unpaid \cup Sealing,
         call'[s].pc = "seal_transfer" => call'[s].id \in S \cup Sealing,
         call[s].pc \in DrawingPcs =>
           /\ call'[s].pc \in DrawingPcs \cup {"fin_commit"}
           /\ call'[s].id = call[s].id,
         call[s].pc = "fin_commit" => Unpaid' \subseteq Unpaid
  PROVE  Coming' \subseteq Coming \cup S
<1>1. Others(s)
  BY LoneFacts
<1>2. Sealing' \subseteq Sealing \cup S
  <2>1. ASSUME NEW d \in Sealing', d \notin S
        PROVE  d \in Sealing
    <3>1. PICK t \in Slots : At(t, "seal_transfer")' /\ call'[t].id = d
      BY DEF Sealing
    <3>2. CASE t = s
      BY <2>1, <3>1, <3>2 DEF At
    <3>3. CASE t # s
      <4>1. call'[t] = call[t]
        BY <1>1, <3>3 DEF Others
      <4> QED
        BY <3>1, <4>1, UnpaidWithin DEF Sealing, At
    <3> QED
      BY <3>2, <3>3
  <2> QED
    BY <2>1
<1>3. ASSUME NEW d \in Waiting', d \notin Coming
      PROVE  FALSE
  <2>1. d \in Unpaid' /\ d \notin Preloaded' /\ d \in Deposits
    BY UnpaidWithin DEF Waiting
  <2>2. d \in Unpaid /\ d \notin Sealing
    BY <1>3, <2>1 DEF Coming
  <2>3. d \in Preloaded
    BY <1>3, <2>2 DEF Coming, Waiting
  <2>4. PICK t \in Slots : /\ call[t].id = d
                           /\ call[t].pc \in FinalizePcs \ {"fin_preload"}
    BY <2>3 DEF Preloaded
  <2>5. call[t].pc \in DrawingPcs
    <3>1. call[t].pc # "fin_commit"
      BY <2>2, <2>4, CommitPaid
    <3> QED
      BY <2>4, <3>1 DEF DrawingPcs, PayPcs
  <2>6. /\ call'[t].id = d
        /\ call'[t].pc \in DrawingPcs \cup {"fin_commit"}
    <3>1. CASE t = s
      BY <2>4, <2>5, <3>1
    <3>2. CASE t # s
      <4>1. call'[t] = call[t]
        BY <1>1, <3>2 DEF Others
      <4> QED
        BY <2>4, <2>5, <4>1
    <3> QED
      BY <3>1, <3>2
  <2>7. call'[t].pc \in FinalizePcs \ {"fin_preload"}
    BY <2>6 DEF DrawingPcs, PayPcs, FinalizePcs
  <2>8. d \in Preloaded'
    BY <2>1, <2>6, <2>7 DEF Preloaded
  <2> QED
    BY <2>1, <2>8
<1> QED
  BY <1>2, <1>3 DEF Coming

LEMMA ReturnEnds ==
  ASSUME TypeOK, NEW s \in Slots, Return(s)
  PROVE  call'[s].pc = "idle"
<1>1. call' = [call EXCEPT ![s] = Idle]
  BY DEF Return
<1>2. call'[s] = Idle
  BY <1>1, Updated, Zenon
<1> QED
  BY <1>2 DEF Idle

\* The steps that neither draw on the buffer nor seal a deposit.
LEMMA AwayFilled ==
  ASSUME NEW s \in Slots, NEW held, Lone(s, held), Stocked,
         call[s].pc \notin DrawingPcs,
         Unpaid' \subseteq Unpaid, fee_buf' = fee_buf,
         call'[s].pc \notin DrawingPcs,
         call'[s].pc \notin {"seal_transfer", "buffer_pay"},
         \/ call[s].pc \in SpendingPcs \/ call'[s].pc \in SpendingPcs
         \/ mixer' >= mixer
  PROVE  Stocked'
<1>1. Coming' \subseteq Coming
  <2>1. Coming' \subseteq Coming \cup {}
    BY ComingNext
  <2> QED
    BY <2>1
<1>2. call'[s].pc \notin {"fin_balance", "fin_topup", "fin_ensure",
                          "fin_deficit", "fin_transfer"}
  BY DrawingFacts
<1>3. Beyond(call'[s].pc) = 0 /\ BalanceKnown(s)'
  BY <1>2 DEF Beyond, BalanceKnown
<1>4. /\ fee_buf' >= Withdrawals(Coming) + Beyond(call'[s].pc)
      /\ fee_buf' >= fee_buf
      /\ fee_buf' + Withdrawals(Coming) >= fee_buf + Withdrawals(Coming)
  BY <1>3, BufferNat DEF Stocked
<1> QED
  BY <1>1, <1>3, <1>4, ComingWithin, FilledWhen

LEMMA TameFilled ==
  ASSUME NEW s \in Slots, NEW held, Lone(s, held), Stocked, Tame(s),
         fee_buf' = fee_buf, call[s].pc \notin DrawingPcs
  PROVE  Stocked'
<1>1. Unpaid' \subseteq Unpaid
  BY DEF Tame, Unpaid, Sealed
<1>2. /\ call'[s].pc \notin DrawingPcs
      /\ call'[s].pc \notin {"seal_transfer", "buffer_pay"}
  BY DEF Tame, TamePcs
<1> QED
  BY <1>1, <1>2, AwayFilled DEF Tame

LEMMA StartFilled ==
  ASSUME NEW s \in Slots, NEW held, Lone(s, held), Stocked, Start(s)
  PROVE  Stocked' /\ call[s].pc = "idle"
<1>1. fee_buf' = fee_buf /\ call[s].pc = "idle"
  BY DEF Start, AllocCall, AdminSweepPool, PrepareCall, SealCall, FinalizeCall,
         ReclaimCall, EnsureSecret, ledgerVars, Called, At
<1>2. call[s].pc \notin DrawingPcs
  BY <1>1, DrawingFacts
<1> QED
  BY <1>1, <1>2, StartTame, TameFilled

\* The steps that leave the buffer alone.
LEMMA EarlyFilled ==
  ASSUME NEW s \in Slots, NEW held, Lone(s, held), Stocked,
         \/ AllocStep(s) \/ PrepareStep(s)
         \/ SealBalance(s) \/ SealRate(s) \/ SealReject(s)
  PROVE  Stocked' /\ call[s].pc \notin PayPcs
<1>1. fee_buf' = fee_buf
  BY DEF AllocStep, AllocSecret, AllocCheck, AllocRate, PrepareStep,
         PrepareSecret, SecretReply, PrepareCheck, PrepareBalance, PrepareRate,
         PrepareConvert, PrepareNotify, PrepareSpawn, PrepareTopUps,
         PrepareReject, SealBalance, SealRate, SealReject, ledgerVars
<1>2. call[s].pc \notin PayPcs
  <2>1. CASE AllocStep(s)
    BY <2>1 DEF AllocStep, AllocSecret, SecretReply, AllocCheck, AllocRate, At,
                PayPcs, FinalizePcs
  <2>2. CASE PrepareStep(s)
    <3>1. call[s].pc \in PreparePcs \cup {"prepare_rand", "prepare_check"}
      BY <2>2, PhaseFacts
         DEF PrepareStep, PrepareSecret, SecretReply, PrepareCheck,
             PrepareBalance, PrepareRate, PrepareConvert, PrepareNotify,
             PrepareSpawn, PrepareTopUps, PrepareReject, At
    <3> QED
      BY <3>1, PhasesApart, NeutralFacts
  <2>3. CASE SealBalance(s) \/ SealRate(s)
    BY <2>3 DEF SealBalance, SealRate, At, PayPcs, FinalizePcs
  <2>4. CASE SealReject(s)
    BY <2>4 DEF SealReject, At, PayPcs, FinalizePcs
  <2> QED
    BY <2>1, <2>2, <2>3, <2>4
<1>3. call[s].pc \notin DrawingPcs
  BY <1>2 DEF DrawingPcs
<1> QED
  BY <1>1, <1>2, <1>3, EarlyTame, TameFilled

LEMMA LateFilled ==
  ASSUME NEW s \in Slots, NEW held, Lone(s, held), Stocked,
         \/ SealLeftover(s) \/ FinalizeCommit(s) \/ FinalizeReject(s)
         \/ ReclaimStep(s)
  PROVE  Stocked' /\ call[s].pc \notin PayPcs
<1>1. \A kind : ~Fault(kind)
  BY LoneFacts, NothingFails
<1>2. fee_buf' = fee_buf
  BY DEF SealLeftover, FinalizeCommit, FinalizeReject, ReclaimStep,
         ReclaimBalance, ReclaimTransfer, ReclaimCommit, ReclaimLeftover,
         ledgerVars
<1>3. call[s].pc \notin PayPcs
  BY <1>1 DEF SealLeftover, FinalizeCommit, FinalizeReject, ReclaimStep,
              ReclaimBalance, ReclaimTransfer, ReclaimCommit, ReclaimLeftover,
              At, PayPcs, FinalizePcs
<1>4. call[s].pc \notin DrawingPcs
  BY <1>3 DEF DrawingPcs
<1> QED
  BY <1>2, <1>3, <1>4, LateTame, TameFilled

\* The recycling and the sweep of the pool.
LEMMA MaintenanceFilled ==
  ASSUME NEW s \in Slots, NEW held, Lone(s, held), Stocked,
         \/ RecycleRead(s) \/ RecycleWedge(s) \/ RecycleBurn(s)
         \/ SweepRead(s) \/ SweepCompute(s) \/ SweepPay(s)
  PROVE  Stocked' /\ call[s].pc \notin PayPcs
<1>1. TypeOK /\ UNCHANGED <<fee_buf, deposits, bob>>
  BY LoneFacts
     DEF RecycleRead, RecycleWedge, RecycleBurn, SweepRead, SweepCompute,
         SweepPay, routerVars, ledgerVars
<1>2. call[s].pc \notin PayPcs
  BY DEF RecycleRead, RecycleWedge, RecycleBurn, SweepRead, SweepCompute,
         SweepPay, At, PayPcs, FinalizePcs
<1>3. call'[s].pc \in {"idle", "leftover", "recycle_wedge", "recycle_burn",
                       "sweep_compute", "sweep_pay", "buffer_read"}
  <2>1. CASE RecycleRead(s)
    BY <1>1, <2>1, PcMoves, CallFacts
       DEF RecycleRead, TypeOK, CallType, CallRecords
  <2>2. CASE RecycleWedge(s)
    <3>1. PICK shortfall \in Shortfalls :
            LET recycle == Lesser(shortfall, Monus(call[s].bal, pool_claims))
            IN  call' = [call EXCEPT
                          ![s].pc = IF recycle = 0 THEN "leftover"
                                    ELSE "recycle_burn",
                          ![s].bal = 0,
                          ![s].amt = recycle]
      BY <2>2 DEF RecycleWedge
    <3> DEFINE recycle == Lesser(shortfall, Monus(call[s].bal, pool_claims))
               c == [call[s] EXCEPT
                       !.pc = IF recycle = 0 THEN "leftover" ELSE "recycle_burn",
                       !.bal = 0, !.amt = recycle]
    <3> HIDE DEF recycle
    <3>2. call' = [call EXCEPT ![s] = c]
      BY <3>1 DEF recycle
    <3>3. c.pc \in {"leftover", "recycle_burn"}
      BY <1>1, CallFacts DEF CallRecords
    <3> HIDE DEF c
    <3>4. call'[s] = c
      BY <1>1, <3>2, Updated
    <3> QED
      BY <3>3, <3>4
  <2>4. CASE RecycleBurn(s) \/ SweepRead(s)
    BY <1>1, <2>4, CallFacts
       DEF RecycleBurn, SweepRead, TypeOK, CallType, CallRecords
  <2>5. CASE SweepCompute(s)
    BY <1>1, <2>5, CallFacts DEF SweepCompute, TypeOK, CallType, CallRecords
  <2>3. CASE SweepPay(s)
    <3>1. CASE Return(s) \/ ReturnUnlocked(s)
      BY <1>1, <3>1, ReturnEnds DEF ReturnUnlocked
    <3>2. CASE call' = [call EXCEPT ![s].pc = "buffer_read", ![s].amt = 0]
      BY <1>1, <3>2, CallFacts DEF TypeOK, CallType, CallRecords
    <3> QED
      BY <2>3, <3>1, <3>2 DEF SweepPay
  <2> QED
    BY <2>1, <2>2, <2>3, <2>4, <2>5
<1>4. Unpaid' \subseteq Unpaid /\ call[s].pc \notin DrawingPcs
  BY <1>1, <1>2 DEF Unpaid, Sealed, DrawingPcs
<1>5. /\ call'[s].pc \notin DrawingPcs
      /\ call'[s].pc \notin {"seal_transfer", "buffer_pay"}
  BY <1>3, DrawingFacts
<1>6. mixer' >= mixer \/ call[s].pc \in SpendingPcs
  <2>1. CASE RecycleRead(s) \/ SweepRead(s)
    <3>1. mixer' = mixer
      BY <2>1 DEF RecycleRead, SweepRead, ledgerVars
    <3> QED
      BY <3>1, LoneNat
  <2>2. CASE \/ RecycleWedge(s) \/ RecycleBurn(s)
             \/ SweepCompute(s) \/ SweepPay(s)
    BY <2>2, DrawingFacts
       DEF RecycleWedge, RecycleBurn, SweepCompute, SweepPay, At
  <2> QED
    BY <2>1, <2>2
<1> QED
  BY <1>1, <1>2, <1>4, <1>5, <1>6, AwayFilled

-----------------------------------------------------------------------------
(* The steps that fill the buffer, and those that draw on it *)

\* The share that a seal with which nothing has failed sends to the buffer.
LEMMA ShareSuffices ==
  ASSUME SealsGoThrough, SharesSuffice, NEW s \in Slots, Untroubled(s),
         SealCompute(s)
  PROVE  LET d == call[s].id
             share == SealSplit(call[s].bal, call[s].spawn_fee, call[s].rate,
                                Pct[d]).fee_buffer
         IN  share >= 4 * LEDGER_FEE /\ share \in Nat /\ Covers(sub[d], share)
<1>1. /\ TypeOK /\ call[s].pc = "seal_compute" /\ Payments /\ Books
      /\ Exact /\ Calm /\ call[s].id \in Deposits
  BY UntroubledFacts DEF SealCompute, At, AnonymousPcs
<1>2. PICK d \in Deposits : d = call[s].id
  BY <1>1
<1>3. /\ deposits[d].state = "created" /\ alice[d] = 0
      /\ call[s].spawn_fee = deposits[d].spawn_fee
  BY <1>1, <1>2, PhaseFacts, UntroubledFacts DEF InFlight, Fits, CallTrue
<1>4. d \notin Sealing
  <2>1. \A t \in Slots \ {s} : call[t].id = d => ~At(t, "seal_transfer")
    BY <1>1, <1>2, PhaseFacts, PhasesApart, SoleSealing
  <2> QED
    BY <1>1, <1>2, <2>1 DEF Sealing, At
<1>5. d \in funded /\ sub[d] + deposits[d].spawn_fee = Whole(d)
  BY <1>1, <1>3, <1>4 DEF Exact, Remains, Intact
<1>6. call[s].bal = sub[d] /\ call[s].rate \in Rates
  BY <1>1, <1>2, UntroubledFacts DEF CalmCall
<1>7. PICK r1 \in Rates : quote[d] = SpawnFeeEstimate(r1)
  <2>1. QuoteTrue(d)
    BY <1>1 DEF Books
  <2> QED
    BY <1>1, <1>5, <2>1, WholeNat DEF QuoteTrue
<1>8. PICK r2 \in Rates :
        deposits[d].spawn_fee = ConvertAmount(Whole(d), r2, Pct[d]) + LEDGER_FEE
  <2>1. CalmDeposit(d)
    BY <1>1 DEF Books
  <2> QED
    BY <1>3, <2>1 DEF CalmDeposit, Conversions
<1> DEFINE whole == RouterDeposit(Amount[d], SpawnFeeEstimate(r1))
           spent == ConvertAmount(whole, r2, Pct[d]) + LEDGER_FEE
           rest == whole - spent
           split == SealSplit(rest, spent, call[s].rate, Pct[d])
<1>9. whole = Whole(d) /\ spent = deposits[d].spawn_fee
  BY <1>7, <1>8 DEF Whole
<1>10. split.fee_buffer >= 4 * LEDGER_FEE
  BY <1>6 DEF SharesSuffice
<1>11. rest = sub[d]
  <2>1. sub[d] \in Nat /\ deposits[d].spawn_fee \in Nat /\ Whole(d) \in Nat
    BY <1>1, WholeNat
  <2> HIDE DEF whole, spent
  <2> QED
    BY <1>5, <1>9, <2>1
<1> HIDE DEF whole, spent, rest
<1>12. SealSplit(call[s].bal, call[s].spawn_fee, call[s].rate, Pct[d]) = split
  BY <1>3, <1>6, <1>9, <1>11
<1>13. split.fee_buffer \in Nat
  BY <1>1, <1>12, SplitFacts
<1>14. (split.fee_buffer + LEDGER_FEE)
         + (Amount[d] + MAX_POOL_TRANSFERS * LEDGER_FEE) <= sub[d]
  BY <1>2, <1>12, SealClaims
<1> HIDE DEF split
<1>15. Covers(sub[d], split.fee_buffer)
  <2>1. LEDGER_FEE \in Nat /\ sub[d] \in Nat /\ Amount[d] \in Nat
    BY <1>1, ParameterFacts, WholeNat, DepositFacts
  <2> QED
    BY <1>13, <1>14, <2>1 DEF Covers, MAX_POOL_TRANSFERS
<1> QED
  BY <1>2, <1>10, <1>12, <1>13, <1>15 DEF split

LEMMA SealComputeFilled ==
  ASSUME SealsGoThrough, SharesSuffice, NEW s \in Slots, NEW held,
         Lone(s, held), Stocked, SealCompute(s)
  PROVE  Stocked'
<1>1. /\ TypeOK /\ call[s].pc = "seal_compute" /\ call[s].id \in Deposits
      /\ Untroubled(s)
  BY LoneFacts DEF SealCompute, At, AnonymousPcs
<1>2. PICK d \in Deposits : d = call[s].id
  BY <1>1
<1> DEFINE split == SealSplit(call[s].bal, call[s].spawn_fee, call[s].rate,
                              Pct[d])
           share == split.fee_buffer
           c == [call[s] EXCEPT
                   !.pc = "seal_transfer", !.bal = 0,
                   !.amt = Residue(split.to_cycles, call[s].spawn_fee),
                   !.rest = Decompose(Byte[d])[split.claim]]
<1>3. share >= 4 * LEDGER_FEE /\ share \in Nat /\ Covers(sub[d], share)
  BY <1>1, <1>2, ShareSuffices
<1>4. /\ UNCHANGED <<deposits, bob, mixer>> /\ fee_buf' = fee_buf + share
      /\ call' = [call EXCEPT ![s] = c]
  BY <1>1, <1>2, <1>3, NothingFails DEF SealCompute
<1>5. c.pc = "seal_transfer" /\ c.id = d
  BY <1>1, <1>2, CallFacts DEF CallRecords
<1> HIDE DEF share, c
<1>6. call'[s].pc = "seal_transfer" /\ call'[s].id = d
  BY <1>1, <1>4, <1>5, Updated
<1> DEFINE S == Coming \cup {d}
<1>7. Coming' \subseteq S /\ S \in SUBSET Deposits
  <2>1. Unpaid' = Unpaid
    BY <1>4 DEF Unpaid, Sealed
  <2>2. call[s].pc \notin DrawingPcs /\ call[s].pc # "fin_commit"
    BY <1>1, DrawingFacts
  <2>3. Coming' \subseteq Coming \cup {d}
    BY <1>6, <2>1, <2>2, ComingNext
  <2> QED
    BY <2>3, ComingWithin
<1>8. Withdrawals(S) <= Withdrawals(Coming) + 4 * LEDGER_FEE
  <2>1. CASE d \in Coming
    <3>1. S = Coming
      BY <2>1
    <3>2. Withdrawals(S) = Withdrawals(Coming)
      BY <3>1
    <3> QED
      BY <3>2, BufferNat
  <2>2. CASE d \notin Coming
    <3>1. Withdrawals(S) = Withdrawals(Coming) + 4 * LEDGER_FEE
      BY <2>2, LoneFacts, ComingWithin, WithdrawalsAdd
    <3> QED
      BY <3>1, BufferNat
  <2> QED
    BY <2>1, <2>2
<1>9. Withdrawals(S) \in Nat
  BY <1>7, LoneFacts, WithdrawalsNat
<1> HIDE DEF S
<1>10. fee_buf >= Withdrawals(Coming) /\ mixer' >= mixer
  BY <1>4, BufferNat DEF Stocked
<1>11. /\ fee_buf' >= Withdrawals(S)
       /\ fee_buf' >= fee_buf
       /\ fee_buf' + Withdrawals(Coming) >= fee_buf + Withdrawals(S)
  BY <1>3, <1>4, <1>8, <1>9, <1>10, BufferNat
<1>12. Beyond(call'[s].pc) = 0 /\ BalanceKnown(s)'
  BY <1>6 DEF Beyond, BalanceKnown
<1>13. fee_buf' >= Withdrawals(S) + Beyond(call'[s].pc)
  BY <1>9, <1>11, <1>12
<1> QED
  BY <1>7, <1>10, <1>11, <1>12, <1>13, FilledWhen

\* The transfers of a seal, and its end, leave the share in the buffer.
LEMMA SealKeepsFilled ==
  ASSUME NEW s \in Slots, NEW held, Lone(s, held), Stocked,
         SealTransfer(s) \/ SealConvert(s) \/ SealCommit(s)
  PROVE  Stocked'
<1>1. TypeOK /\ call[s].pc = "seal_transfer" /\ call[s].id \in Deposits
  BY LoneFacts DEF SealTransfer, SealConvert, SealCommit, At, AnonymousPcs
<1>2. fee_buf' = fee_buf /\ bob' = bob /\ mixer' >= mixer
  <2>1. CASE SealTransfer(s)
    <3>1. /\ UNCHANGED <<fee_buf, bob>>
          /\ \/ mixer' = mixer
             \/ call[s].rest # <<>> /\ mixer' = mixer + Head(call[s].rest)
      BY <2>1 DEF SealTransfer
    <3>2. call[s].rest # <<>> => Head(call[s].rest) \in Nat
      BY <1>1, CallFacts
    <3> QED
      BY <3>1, <3>2, LoneNat
  <2>2. CASE SealConvert(s) \/ SealCommit(s)
    <3>1. UNCHANGED <<fee_buf, bob, mixer>>
      BY <2>2 DEF SealConvert, SealCommit, ledgerVars
    <3> QED
      BY <3>1, LoneNat
  <2> QED
    BY <2>1, <2>2
<1>3. Unpaid' \subseteq Unpaid \cup Sealing
  <2>1. call[s].id \in Sealing
    BY <1>1 DEF Sealing, At
  <2>2. CASE SealTransfer(s) \/ SealConvert(s)
    <3>1. deposits' = deposits
      BY <2>2 DEF SealTransfer, SealConvert, routerVars
    <3> QED
      BY <1>2, <3>1 DEF Unpaid, Sealed
  <2>3. CASE SealCommit(s)
    <3>1. \A e \in Deposits \ {call[s].id} : deposits'[e] = deposits[e]
      BY <1>1, <2>3 DEF SealCommit, TypeOK, DepositsType
    <3> QED
      BY <1>2, <2>1, <3>1 DEF Unpaid, Sealed
  <2> QED
    BY <2>2, <2>3
<1>4. /\ call'[s].pc \in {"idle", "seal_transfer", "recycle_read", "leftover"}
      /\ call'[s].pc = "seal_transfer" => call'[s].id = call[s].id
  <2>1. CASE SealTransfer(s)
    <3>1. CASE Return(s)
      BY <1>1, <3>1, ReturnEnds
    <3>2. CASE ~Return(s)
      <4>1. call' = [call EXCEPT ![s].rest = Tail(@)]
        BY <2>1, <3>2, LoneFacts, NothingFails DEF SealTransfer, ReturnUnlocked
      <4> QED
        BY <1>1, <4>1, CallFacts DEF TypeOK, CallType, CallRecords
    <3> QED
      BY <3>1, <3>2
  <2>2. CASE SealConvert(s)
    BY <1>1, <2>2, CallFacts DEF SealConvert, TypeOK, CallType, CallRecords
  <2>3. CASE SealCommit(s)
    BY <1>1, <2>3, CallFacts DEF SealCommit, TypeOK, CallType, CallRecords
  <2> QED
    BY <2>1, <2>2, <2>3
<1>5. Coming' \subseteq Coming
  <2>1. call[s].pc \notin DrawingPcs /\ call[s].pc # "fin_commit"
    BY <1>1, DrawingFacts
  <2>2. call'[s].pc = "seal_transfer" => call'[s].id \in {} \cup Sealing
    BY <1>1, <1>4 DEF Sealing, At
  <2>3. Coming' \subseteq Coming \cup {}
    BY <1>3, <2>1, <2>2, ComingNext
  <2> QED
    BY <2>3
<1>6. Beyond(call'[s].pc) = 0 /\ BalanceKnown(s)'
  BY <1>4 DEF Beyond, BalanceKnown
<1>7. /\ fee_buf' >= Withdrawals(Coming) + Beyond(call'[s].pc)
      /\ fee_buf' >= fee_buf
      /\ fee_buf' + Withdrawals(Coming) >= fee_buf + Withdrawals(Coming)
  BY <1>2, <1>6, BufferNat DEF Stocked
<1> QED
  BY <1>2, <1>5, <1>6, <1>7, ComingWithin, FilledWhen

\* The recycling of the buffer leaves the reserve, but for the fee of its own
\* transfer.
LEMMA BufferReadFilled ==
  ASSUME NEW s \in Slots, NEW held, Lone(s, held), Stocked, BufferRead(s)
  PROVE  Stocked' /\ call[s].pc \notin PayPcs
<1> DEFINE c == [call[s] EXCEPT !.pc = "buffer_pay", !.bal = fee_buf]
<1>1. /\ TypeOK /\ UNCHANGED <<fee_buf, bob, deposits, mixer>>
      /\ call' = [call EXCEPT ![s] = c] /\ call[s].pc = "buffer_read"
  BY LoneFacts DEF BufferRead, routerVars, ledgerVars, At
<1>2. c.pc = "buffer_pay" /\ c.bal = fee_buf
  BY <1>1, CallFacts DEF CallRecords
<1> HIDE DEF c
<1>3. call'[s].pc = "buffer_pay" /\ call'[s].bal = fee_buf'
  BY <1>1, <1>2, Updated
<1>4. Coming' \subseteq Coming
  <2>1. Unpaid' = Unpaid
    BY <1>1 DEF Unpaid, Sealed
  <2>2. call[s].pc \notin DrawingPcs /\ call[s].pc # "fin_commit"
    BY <1>1, DrawingFacts
  <2>3. Coming' \subseteq Coming \cup {}
    BY <1>3, <2>1, <2>2, ComingNext
  <2> QED
    BY <2>3
<1>5. Beyond(call'[s].pc) = 0 /\ BalanceKnown(s)'
  <2>1. call'[s].bal <= fee_buf'
    BY <1>3, BufferNat
  <2> QED
    BY <1>3, <2>1 DEF Beyond, BalanceKnown
<1>6. fee_buf' >= Withdrawals(Coming) + Beyond(call'[s].pc)
  BY <1>1, <1>5, BufferNat DEF Stocked
<1>7. call[s].pc \notin PayPcs /\ call'[s].pc \in SpendingPcs
  BY <1>1, <1>3, DrawingFacts
<1> QED
  BY <1>4, <1>5, <1>6, <1>7, ComingWithin, FilledWhen

LEMMA RecycledShare ==
  ASSUME NEW bal \in Nat, NEW reserve \in Nat, NEW unit \in Nat \ {0},
         bal > reserve
  PROVE  LET share == (Monus(bal, reserve) * 80) \div 100
             whole == (share \div unit) * unit
         IN  whole \in Nat /\ whole <= bal - reserve
<1>1. PICK over \in Nat : over = bal - reserve
  OBVIOUS
<1>2. Monus(bal, reserve) = over
  BY <1>1 DEF Monus
<1>3. PICK share \in Nat : share = (over * 80) \div 100 /\ share <= over
  OBVIOUS
<1>4. (share \div unit) * unit \in Nat /\ (share \div unit) * unit <= share
  OBVIOUS
<1> QED
  BY <1>1, <1>2, <1>3, <1>4

LEMMA BufferPayFilled ==
  ASSUME ReserveSuffices, NEW s \in Slots, NEW held, Lone(s, held), Stocked,
         BufferPay(s)
  PROVE  Stocked' /\ call[s].pc \notin PayPcs
<1>1. /\ TypeOK /\ call[s].pc = "buffer_pay" /\ IsFiniteSet(Deposits)
      /\ UNCHANGED <<deposits, bob>>
  BY LoneFacts DEF BufferPay, At
<1>2. PICK bal \in Nat : bal = call[s].bal /\ bal <= fee_buf
  BY <1>1, CallFacts DEF Stocked, Filled, BalanceKnown
<1>3. /\ call'[s].pc = "idle" /\ call[s].pc \notin PayPcs
      /\ call[s].pc \in SpendingPcs /\ call[s].pc \notin DrawingPcs
      /\ call'[s].pc \notin DrawingPcs
      /\ call'[s].pc \notin {"seal_transfer", "buffer_pay"}
  BY <1>1, ReturnEnds, DrawingFacts DEF BufferPay, ReturnUnlocked
<1>4. Unpaid' = Unpaid
  BY <1>1 DEF Unpaid, Sealed
<1> DEFINE share == (Monus(bal, BUFFER_RESERVE) * 80) \div 100
           whole == (share \div E8S_PER_ICP) * E8S_PER_ICP
<1>5. \/ fee_buf' = fee_buf
      \/ /\ bal > BUFFER_RESERVE + LEDGER_FEE
         /\ fee_buf' = After(fee_buf, whole)
  <2>1. CASE bal > BUFFER_RESERVE + LEDGER_FEE
    BY <1>2, <2>1 DEF BufferPay
  <2>2. CASE ~(bal > BUFFER_RESERVE + LEDGER_FEE)
    BY <1>2, <2>2 DEF BufferPay
  <2> QED
    BY <2>1, <2>2
<1>6. CASE fee_buf' = fee_buf
  BY <1>3, <1>4, <1>6, AwayFilled
<1>7. CASE /\ bal > BUFFER_RESERVE + LEDGER_FEE
           /\ fee_buf' = After(fee_buf, whole)
  <2>1. fee_buf \in Nat /\ LEDGER_FEE \in Nat /\ BUFFER_RESERVE \in Nat
    BY <1>1, BufferNat, ParameterFacts
  <2>2. whole \in Nat /\ whole <= bal - BUFFER_RESERVE
    <3>1. bal > BUFFER_RESERVE
      BY <1>2, <1>7, <2>1
    <3> QED
      BY <1>2, <2>1, <3>1, UnitAssumption, RecycledShare, Zenon
  <2> HIDE DEF whole
  <2>3. fee_buf' + LEDGER_FEE >= BUFFER_RESERVE
    BY <1>2, <1>7, <2>1, <2>2 DEF After
  <2>4. /\ Withdrawals(Coming) \in Nat /\ Withdrawals(Deposits) \in Nat
        /\ Withdrawals(Coming) <= Withdrawals(Deposits)
    BY <1>1, ComingWithin, WithdrawalsNat
  <2>5. Withdrawals(Deposits) + LEDGER_FEE <= BUFFER_RESERVE
    BY DEF ReserveSuffices, Withdrawals
  <2>6. Beyond(call'[s].pc) = 0 /\ BalanceKnown(s)'
    BY <1>3 DEF Beyond, BalanceKnown
  <2>7. fee_buf' >= Withdrawals(Coming) + Beyond(call'[s].pc)
    BY <2>1, <2>3, <2>4, <2>5, <2>6, BufferNat
  <2>8. Coming' \subseteq Coming
    <3>1. Coming' \subseteq Coming \cup {}
      BY <1>1, <1>3, <1>4, ComingNext
    <3> QED
      BY <3>1
  <2> QED
    BY <1>3, <2>6, <2>7, <2>8, ComingWithin, FilledWhen
<1> QED
  BY <1>3, <1>5, <1>6, <1>7

-----------------------------------------------------------------------------
(* The finalization *)

\* The deposit of a finalization in flight is sealed and not paid for, and what
\* the mixer holds once the preload has come covers it but for the fee.
LEMMA PaysUnpaid ==
  ASSUME RecordsAreKept, NEW s \in Slots, NEW held, Lone(s, held),
         call[s].pc \in PayPcs
  PROVE  /\ call[s].id \in Deposits /\ call[s].id \in Unpaid
         /\ call[s].id \notin Sealing
         /\ call[s].pc \in DrawingPcs => mixer >= Amount[call[s].id]
<1>1. /\ TypeOK /\ InFlight(s) /\ IsFiniteSet(Deposits) /\ call[s].id \in Deposits
      /\ Payments
  <2>1. call[s].pc \notin AnonymousPcs
    BY DEF PayPcs, FinalizePcs, AnonymousPcs
  <2> QED
    BY <2>1, LoneFacts
<1>2. PICK d \in Deposits : d = call[s].id
  BY <1>1
<1>3. d \in Unpaid
  BY <1>1, <1>2 DEF InFlight, Fits, Payable, RecordsAreKept, Unpaid, Sealed
<1>4. d \notin Sealing
  <2>1. call[s].pc \notin NeutralPcs /\ call[s].pc # "seal_transfer"
    BY BooksPcFacts DEF PayPcs, FinalizePcs
  <2>2. \A t \in Slots \ {s} : call[t].id = d => ~At(t, "seal_transfer")
    BY <1>1, <1>2, <2>1, SoleSealing
  <2> QED
    BY <1>2, <2>1, <2>2 DEF Sealing, At
<1>5. Debt(held) = held[d] + Total(held, Deposits \ {d})
  <2>1. \A e \in Deposits : held[e] \in Nat
    BY LoneNat
  <2> QED
    BY <1>1, <2>1, TotalRemove DEF Debt
<1>6. /\ Total(held, Deposits \ {d}) \in Nat /\ Amount[d] \in Nat
      /\ mixer \in Nat /\ held[d] = Amount[d]
  <2>1. IsFiniteSet(Deposits \ {d}) /\ \A e \in Deposits \ {d} : held[e] \in Nat
    BY <1>1, LoneNat, FS_Subset
  <2> QED
    BY <1>3, <2>1, LoneFacts, LoneNat, TotalNat DEF Divides
<1>7. ASSUME call[s].pc \in DrawingPcs
      PROVE  mixer >= Amount[d]
  <2>1. mixer >= Debt(held)
    BY <1>7, LoneFacts DEF MixerKnown
  <2> QED
    BY <1>5, <1>6, <2>1
<1> QED
  BY <1>2, <1>3, <1>4, <1>7

\* The preload goes through, and leaves what the finalization may still need.
LEMMA FinalizePreloadFilled ==
  ASSUME RecordsAreKept, NEW s \in Slots, NEW held, Lone(s, held), Stocked,
         FinalizePreload(s)
  PROVE  Stocked' /\ call'[s].pc # "idle"
<1>1. /\ TypeOK /\ call[s].pc = "fin_preload" /\ IsFiniteSet(Deposits)
      /\ UNCHANGED <<deposits, bob>>
  BY LoneFacts DEF FinalizePreload, At
<1>2. /\ call[s].id \in Deposits /\ call[s].id \in Unpaid
      /\ call[s].id \notin Sealing
  BY <1>1, PhaseFacts, PaysUnpaid
<1>3. PICK d \in Deposits : d = call[s].id
  BY <1>2
<1>4. d \in Coming
  <2>1. d \notin Preloaded
    <3>1. SUFFICES ASSUME NEW t \in Slots, call[t].id = d,
                          call[t].pc \in FinalizePcs \ {"fin_preload"}
                   PROVE  FALSE
      BY DEF Preloaded
    <3>2. call[t].pc # "fin_commit"
      BY <1>2, <1>3, <3>1, CommitPaid
    <3>3. call[t].pc \in SpendingPcs /\ call[s].pc \in SpendingPcs
      BY <1>1, <3>1, <3>2, DrawingFacts DEF SpendingPcs
    <3>4. t = s
      BY <3>3 DEF Lone, SpendsApart
    <3> QED
      BY <1>1, <3>1, <3>4
  <2> QED
    BY <1>2, <1>3, <2>1 DEF Coming, Waiting
<1> DEFINE S == Coming \ {d}
<1>5. /\ S \in SUBSET Deposits /\ Withdrawals(S) \in Nat
      /\ Withdrawals(Coming) = Withdrawals(S) + 4 * LEDGER_FEE
  <2>1. Coming \in SUBSET Deposits
    BY ComingWithin
  <2>2. S \in SUBSET Deposits
    BY <2>1
  <2>3. Withdrawals(S) \in Nat
    BY <1>1, <2>2, WithdrawalsNat
  <2>4. Withdrawals(Coming) = Withdrawals(S) + 4 * LEDGER_FEE
    BY <1>1, <1>4, <2>1, WithdrawalsAdd
  <2> QED
    BY <2>2, <2>3, <2>4
<1>6. /\ fee_buf \in Nat /\ LEDGER_FEE \in Nat
      /\ fee_buf >= Withdrawals(S) + 4 * LEDGER_FEE
  BY <1>5, BufferNat DEF Stocked
<1> HIDE DEF S
<1>7. Covers(fee_buf, LEDGER_FEE)
  BY <1>5, <1>6 DEF Covers
<1>8. fee_buf' = After(fee_buf, LEDGER_FEE) /\ Goto(s, "fin_balance")
  BY <1>7, LoneFacts, NothingFails DEF FinalizePreload, FromBuffer
<1>9. call'[s].pc = "fin_balance" /\ call'[s].id = d
  BY <1>1, <1>3, <1>8, PcMoves
<1>10. Coming' \subseteq S
  <2>1. Unpaid' = Unpaid
    BY <1>1 DEF Unpaid, Sealed
  <2>2. Coming' \subseteq Coming \cup {}
    BY <1>1, <1>9, <2>1, DrawingFacts, ComingNext
  <2>3. d \in Preloaded'
    <3>1. call'[s].pc \in FinalizePcs \ {"fin_preload"}
      BY <1>9 DEF FinalizePcs
    <3> QED
      BY <1>9, <3>1 DEF Preloaded
  <2>4. d \notin Sealing'
    <3>1. ~At(s, "seal_transfer") /\ call'[s].pc # "seal_transfer"
      BY <1>1, <1>9 DEF At
    <3>2. Sealing' = Sealing
      BY <3>1, LoneFacts, SameSealing
    <3> QED
      BY <1>2, <1>3, <3>2
  <2> QED
    BY <2>2, <2>3, <2>4 DEF Coming, Waiting, S
<1>11. fee_buf' >= Withdrawals(S) + Beyond(call'[s].pc)
  BY <1>5, <1>6, <1>8, <1>9 DEF After, Beyond
<1>12. BalanceKnown(s)' /\ call[s].pc \in SpendingPcs
  BY <1>1, <1>9, DrawingFacts DEF BalanceKnown
<1> QED
  BY <1>5, <1>9, <1>10, <1>11, <1>12, FilledWhen

\* The balances read are there when they are used: others only add to the mixer.
LEMMA FinalizeReadFilled ==
  ASSUME RecordsAreKept, NEW s \in Slots, NEW held, Lone(s, held), Stocked,
         FinalizeBalance(s) \/ FinalizeEnsure(s)
  PROVE  Stocked' /\ call'[s].pc # "idle"
<1>1. /\ TypeOK /\ UNCHANGED <<fee_buf, mixer, deposits, bob>>
  BY LoneFacts
     DEF FinalizeBalance, FinalizeEnsure, ReadMixer, routerVars, ledgerVars
<1>2. PICK next \in {"fin_topup", "fin_deficit"} :
        /\ call' = [call EXCEPT ![s].pc = next, ![s].bal = mixer]
        /\ call[s].pc = IF next = "fin_topup" THEN "fin_balance" ELSE "fin_ensure"
  BY DEF FinalizeBalance, FinalizeEnsure, ReadMixer, At
<1> DEFINE c == [call[s] EXCEPT !.pc = next, !.bal = mixer]
<1>3. c.pc = next /\ c.bal = mixer /\ c.id = call[s].id
  BY <1>1, CallFacts DEF CallRecords
<1>4. call' = [call EXCEPT ![s] = c]
  BY <1>2
<1> HIDE DEF c
<1>5. /\ call'[s].pc = next /\ call'[s].bal = mixer'
      /\ call'[s].id = call[s].id
  BY <1>1, <1>3, <1>4, Updated
<1>6. /\ call[s].pc \in DrawingPcs /\ call'[s].pc \in DrawingPcs
      /\ call[s].pc \in PayPcs /\ call[s].pc \in SpendingPcs
      /\ call[s].pc # "fin_commit" /\ call'[s].pc # "seal_transfer"
  BY <1>2, <1>5, DrawingFacts
<1>7. Coming' \subseteq Coming
  <2>1. Unpaid' = Unpaid
    BY <1>1 DEF Unpaid, Sealed
  <2>2. Coming' \subseteq Coming \cup {}
    BY <1>5, <1>6, <2>1, ComingNext
  <2> QED
    BY <2>2
<1>8. fee_buf' >= Withdrawals(Coming) + Beyond(call'[s].pc)
  <2>1. fee_buf >= Withdrawals(Coming) + Beyond(call[s].pc)
    BY DEF Stocked, Filled
  <2>2. Beyond(call'[s].pc) = Beyond(call[s].pc)
    BY <1>2, <1>5 DEF Beyond
  <2> QED
    BY <1>1, <2>1, <2>2
<1>9. mixer' <= mixer' /\ mixer' >= Amount[call[s].id]
  BY <1>1, <1>6, PaysUnpaid, LoneNat
<1>10. next = "fin_deficit" => mixer' >= Amount[call[s].id] + LEDGER_FEE
  BY <1>1, <1>2 DEF Stocked, Filled, BalanceKnown
<1>11. BalanceKnown(s)'
  BY <1>5, <1>9, <1>10 DEF BalanceKnown
<1> QED
  BY <1>5, <1>6, <1>7, <1>8, <1>11, ComingWithin, FilledWhen

\* The first top-up makes the mixer cover the payment and its fee; the balance
\* read was short by one fee at most.
LEMMA FinalizeTopUpFilled ==
  ASSUME RecordsAreKept, NEW s \in Slots, NEW held, Lone(s, held), Stocked,
         FinalizeTopUp(s)
  PROVE  Stocked' /\ call'[s].pc # "idle"
<1>1. /\ TypeOK /\ call[s].pc = "fin_topup" /\ UNCHANGED <<deposits, bob>>
  BY LoneFacts DEF FinalizeTopUp, At
<1>2. /\ call[s].pc \in PayPcs /\ call[s].pc \in DrawingPcs
      /\ call[s].pc \in SpendingPcs
  BY <1>1, DrawingFacts
<1>3. PICK d \in Deposits : d = call[s].id
  BY <1>2, PaysUnpaid
<1>4. /\ call[s].bal <= mixer /\ call[s].bal >= Amount[d]
      /\ fee_buf >= Withdrawals(Coming) + 2 * LEDGER_FEE
  BY <1>1, <1>3 DEF Stocked, Filled, BalanceKnown, Beyond
<1>5. /\ fee_buf \in Nat /\ mixer \in Nat /\ LEDGER_FEE \in Nat
      /\ Amount[d] \in Nat /\ Withdrawals(Coming) \in Nat /\ call[s].bal \in Nat
  BY <1>1, BufferNat, DepositFacts, CallFacts
<1> DEFINE need == Amount[d] + LEDGER_FEE
           lack == need - call[s].bal
<1>6. /\ Goto(s, "fin_ensure")
      /\ \/ call[s].bal >= need /\ mixer' = mixer /\ fee_buf' = fee_buf
         \/ /\ call[s].bal < need /\ mixer' = mixer + lack
            /\ fee_buf' = After(fee_buf, lack)
  <2>1. CASE call[s].bal >= need
    BY <1>3, <1>5, <2>1 DEF FinalizeTopUp, TopUp
  <2>2. CASE call[s].bal < need
    <3>1. Covers(fee_buf, lack)
      BY <1>4, <1>5, <2>2 DEF Covers
    <3>2. FromBuffer(s, lack, "fin_ensure")
      BY <1>3, <1>5, <2>2 DEF FinalizeTopUp, TopUp
    <3> QED
      BY <2>2, <3>1, <3>2, LoneFacts, NothingFails DEF FromBuffer
  <2> QED
    BY <1>5, <2>1, <2>2
<1>7. mixer' >= need /\ fee_buf' >= Withdrawals(Coming)
  BY <1>4, <1>5, <1>6 DEF After
<1>8. call'[s].pc = "fin_ensure" /\ call'[s].id = d
  BY <1>1, <1>3, <1>6, PcMoves
<1>9. Coming' \subseteq Coming
  <2>1. Unpaid' = Unpaid
    BY <1>1 DEF Unpaid, Sealed
  <2>2. Coming' \subseteq Coming \cup {}
    BY <1>1, <1>3, <1>8, <2>1, DrawingFacts, ComingNext
  <2> QED
    BY <2>2
<1>10. BalanceKnown(s)'
  BY <1>7, <1>8 DEF BalanceKnown
<1> HIDE DEF need
<1>11. fee_buf' >= Withdrawals(Coming) + Beyond(call'[s].pc)
  BY <1>5, <1>7, <1>8 DEF Beyond
<1> QED
  BY <1>2, <1>8, <1>9, <1>10, <1>11, ComingWithin, FilledWhen

\* After it the second has nothing to do.
LEMMA FinalizeDeficitFilled ==
  ASSUME NEW s \in Slots, NEW held, Lone(s, held), Stocked, FinalizeDeficit(s)
  PROVE  Stocked' /\ call'[s].pc # "idle"
<1>1. /\ TypeOK /\ call[s].pc = "fin_deficit" /\ UNCHANGED <<deposits, bob>>
  BY LoneFacts DEF FinalizeDeficit, At
<1>2. /\ call[s].bal >= Amount[call[s].id] + LEDGER_FEE
      /\ mixer >= Amount[call[s].id] + LEDGER_FEE
  BY <1>1 DEF Stocked, Filled, BalanceKnown
<1>3. /\ mixer \in Nat /\ LEDGER_FEE \in Nat /\ Amount[call[s].id] \in Nat
      /\ call[s].bal \in Nat
  <2>1. call[s].id \in Deposits
    BY <1>1, LoneFacts DEF AnonymousPcs
  <2> QED
    BY <1>1, <2>1, BufferNat, DepositFacts, CallFacts
<1>4. Goto(s, "fin_transfer") /\ mixer' = mixer /\ fee_buf' = fee_buf
  BY <1>2, <1>3 DEF FinalizeDeficit, TopUp
<1>5. call'[s].pc = "fin_transfer" /\ call'[s].id = call[s].id
  BY <1>1, <1>4, PcMoves
<1>6. Coming' \subseteq Coming
  <2>1. Unpaid' = Unpaid
    BY <1>1 DEF Unpaid, Sealed
  <2>2. Coming' \subseteq Coming \cup {}
    BY <1>1, <1>5, <2>1, DrawingFacts, ComingNext
  <2> QED
    BY <2>2
<1>7. fee_buf' >= Withdrawals(Coming) + Beyond(call'[s].pc)
  BY <1>4, <1>5, BufferNat DEF Stocked, Beyond
<1>8. BalanceKnown(s)' /\ call[s].pc \in SpendingPcs
  BY <1>1, <1>2, <1>4, <1>5, DrawingFacts DEF BalanceKnown
<1> QED
  BY <1>5, <1>6, <1>7, <1>8, ComingWithin, FilledWhen

\* The payment goes through.
LEMMA FinalizeTransferFilled ==
  ASSUME NEW s \in Slots, NEW held, Lone(s, held), Stocked, FinalizeTransfer(s)
  PROVE  Stocked' /\ call'[s].pc # "idle"
<1>1. /\ TypeOK /\ call[s].pc = "fin_transfer" /\ call[s].id \in Deposits
      /\ UNCHANGED <<deposits, fee_buf>>
  BY LoneFacts DEF FinalizeTransfer, At, AnonymousPcs
<1>2. PICK d \in Deposits : d = call[s].id
  BY <1>1
<1>3. Covers(mixer, Amount[d])
  BY <1>1, <1>2 DEF Stocked, Filled, BalanceKnown, Covers
<1>4. /\ bob' = [bob EXCEPT ![d] = @ + Amount[d]]
      /\ Goto(s, "fin_commit")
  BY <1>2, <1>3, LoneFacts, NothingFails DEF FinalizeTransfer
<1>5. call'[s].pc = "fin_commit" /\ call'[s].id = call[s].id
  BY <1>1, <1>4, PcMoves
<1>6. Coming' \subseteq Coming
  <2>1. bob'[d] # 0
    BY <1>1, <1>4, DepositFacts DEF TypeOK, LedgerType
  <2>2. \A e \in Deposits \ {d} : bob'[e] = bob[e]
    BY <1>1, <1>4 DEF TypeOK, LedgerType
  <2>3. Unpaid' \subseteq Unpaid
    BY <1>1, <2>1, <2>2 DEF Unpaid, Sealed
  <2>4. Coming' \subseteq Coming \cup {}
    BY <1>1, <1>5, <2>3, ComingNext
  <2> QED
    BY <2>4
<1>7. fee_buf' >= Withdrawals(Coming) + Beyond(call'[s].pc)
  BY <1>1, <1>5, BufferNat DEF Stocked, Beyond
<1>8. BalanceKnown(s)' /\ call[s].pc \in SpendingPcs
  BY <1>1, <1>5, DrawingFacts DEF BalanceKnown
<1> QED
  BY <1>5, <1>6, <1>7, <1>8, ComingWithin, FilledWhen

-----------------------------------------------------------------------------
(* The steps of the call, of the environment, and the theorems *)

LEMMA CallFilled ==
  ASSUME SealsGoThrough, RecordsAreKept, SharesSuffice, ReserveSuffices,
         NEW s \in Slots, NEW held, Lone(s, held), Stocked,
         Start(s) \/ Continue(s)
  PROVE  Stocked' /\ (call[s].pc \in PayPcs => call'[s].pc # "idle")
<1>1. CASE Start(s)
  <2>1. "idle" \notin PayPcs
    BY NeutralFacts, PhasesApart
  <2> QED
    BY <1>1, <2>1, StartFilled
<1>2. CASE AllocStep(s) \/ PrepareStep(s)
  BY <1>2, EarlyFilled
<1>3. CASE SealStep(s)
  <2>1. CASE SealCompute(s) \/ SealTransfer(s) \/ SealConvert(s) \/ SealCommit(s)
    <3>1. call[s].pc \notin PayPcs
      BY <2>1
         DEF SealCompute, SealTransfer, SealConvert, SealCommit, At, PayPcs,
             FinalizePcs
    <3> QED
      BY <2>1, <3>1, SealComputeFilled, SealKeepsFilled
  <2> QED
    BY <1>3, <2>1, EarlyFilled DEF SealStep
<1>4. CASE MaintenanceStep(s)
  BY <1>4, MaintenanceFilled, LateFilled, BufferReadFilled, BufferPayFilled
     DEF MaintenanceStep
<1>5. CASE FinalizeStep(s)
  BY <1>5, LateFilled, FinalizePreloadFilled, FinalizeReadFilled,
     FinalizeTopUpFilled, FinalizeDeficitFilled, FinalizeTransferFilled
     DEF FinalizeStep
<1>6. CASE ReclaimStep(s)
  BY <1>6, LateFilled
<1> QED
  BY <1>1, <1>2, <1>3, <1>4, <1>5, <1>6 DEF Continue

LEMMA InitStocked ==
  ASSUME Init
  PROVE  Stocked
<1>1. /\ fee_buf = 0
      /\ \A d \in Deposits : deposits[d].state = "none"
      /\ \A s \in Slots : call[s].pc = "idle"
  BY DEF Init, NoDeposit, Idle
<1>2. Coming = {}
  BY <1>1 DEF Coming, Waiting, Unpaid, Sealed, Sealing, At
<1>3. Withdrawals(Coming) = 0
  <2>1. Cardinality(Coming) = 0
    BY <1>2, FS_EmptySet
  <2> QED
    BY <2>1, ParameterFacts DEF Withdrawals
<1> QED
  BY <1>1, <1>3 DEF Stocked, Filled, BalanceKnown, Beyond

LEMMA UnchangedStocked ==
  ASSUME Stocked, UNCHANGED <<fee_buf, mixer, bob, deposits, call>>
  PROVE  Stocked'
<1>1. Coming' = Coming
  BY DEF Coming, Waiting, Preloaded, Unpaid, Sealed, Sealing, At
<1>2. Withdrawals(Coming)' = Withdrawals(Coming)
  BY <1>1 DEF Withdrawals
<1>3. ASSUME NEW s \in Slots
      PROVE  Filled(s)'
  <2>1. Beyond(call[s].pc)' = Beyond(call[s].pc)
    BY DEF Beyond
  <2>2. BalanceKnown(s)'
    BY DEF Stocked, Filled, BalanceKnown
  <2> QED
    BY <1>2, <2>1, <2>2 DEF Stocked, Filled
<1> QED
  BY <1>2, <1>3 DEF Stocked

LEMMA NextStocked ==
  ASSUME RecordsAreKept, IsFiniteSet(Deposits), SealsGoThrough,
         SharesSuffice, ReserveSuffices, SpendsApart, SpendsApart',
         Payments, Books, faults = MaxFaults => Exact /\ Solvent /\ Stocked,
         [Next]_vars, faults' = MaxFaults
  PROVE  /\ Stocked'
         /\ \A s \in Slots : call[s].pc \in PayPcs => call'[s].pc # "idle"
<1>1. TypeOK /\ TypeOK'
  BY NextType DEF Payments, Exclusive
<1>2. faults \in Nat /\ faults <= MaxFaults /\ MaxFaults \in Nat
  BY <1>1, RouterAssumption DEF Books, TypeOK, ClientType
<1>3. "idle" \notin PayPcs
  BY NeutralFacts, PhasesApart
<1>4. CASE UNCHANGED <<fee_buf, mixer, bob, deposits, call, faults>>
  BY <1>3, <1>4, UnchangedStocked
<1>5. CASE Environment
  <2>1. UNCHANGED <<fee_buf, mixer, bob, deposits, call, faults>>
    BY <1>5
       DEF Environment, RecordsAreKept, SetPaused, Upgrade, Fund, Expire,
           AdminClearLock, AdminClearDeposit, routerVars, serviceVars,
           ledgerVars
  <2> QED
    BY <1>4, <2>1
<1>6. ASSUME NEW s \in Slots, Start(s) \/ Continue(s)
      PROVE  /\ Stocked'
             /\ \A t \in Slots : call[t].pc \in PayPcs => call'[t].pc # "idle"
  <2>1. LockStep(s)
    BY <1>1, <1>6, StartLocks, ContinueLocks DEF Payments, Exclusive
  <2>2. faults' = faults
    BY <1>2, <1>6, FaultsAreSpent
  <2>3. Untroubled(s) /\ Solvent /\ Stocked
    BY <1>1, <2>1, <2>2 DEF Untroubled, Ready, Calm
  <2>4. PICK held : Lone(s, held)
    BY <2>3 DEF Solvent, Lone
  <2>5. Stocked' /\ (call[s].pc \in PayPcs => call'[s].pc # "idle")
    BY <1>6, <2>3, <2>4, CallFilled
  <2>6. \A t \in Slots \ {s} : call'[t] = call[t]
    BY <2>4, LoneFacts DEF Others
  <2>7. ASSUME NEW t \in Slots, call[t].pc \in PayPcs
        PROVE  call'[t].pc # "idle"
    BY <1>3, <2>5, <2>6, <2>7
  <2> QED
    BY <2>5, <2>7
<1>7. CASE UNCHANGED vars
  BY <1>4, <1>7
     DEF vars, routerVars, serviceVars, ledgerVars, clientVars, quoteVars
<1> QED
  BY <1>5, <1>6, <1>7 DEF Next

LEMMA StockedCovers ==
  ASSUME IsFiniteSet(Deposits), TypeOK, Stocked
  PROVE  BufferCovers
<1>1. /\ fee_buf \in Nat /\ LEDGER_FEE \in Nat
      /\ Waiting \in SUBSET Coming /\ Waiting \in SUBSET Deposits
  BY ParameterFacts, ComingWithin, UnpaidWithin
     DEF TypeOK, LedgerType, Coming
<1>2. /\ Withdrawals(Waiting) <= Withdrawals(Coming)
      /\ Withdrawals(Waiting) \in Nat /\ Withdrawals(Coming) \in Nat
      /\ Cardinality(Waiting) \in Nat
  BY <1>1, ComingWithin, WithdrawalsNat
<1>3. fee_buf >= Withdrawals(Waiting)
  BY <1>1, <1>2 DEF Stocked
<1>4. Withdrawals(Waiting) >= 2 * LEDGER_FEE * Cardinality(Waiting)
  <2>1. \A f, n \in Nat : 4 * f * n = 2 * f * n + 2 * f * n /\ 2 * f * n >= 0
    OBVIOUS
  <2> QED
    BY <1>1, <1>2, <2>1 DEF Withdrawals
<1>5. 2 * LEDGER_FEE * Cardinality(Waiting) \in Int
  BY <1>1, <1>2
<1> QED
  BY <1>1, <1>2, <1>3, <1>4, <1>5 DEF BufferCovers, Waiting

Provided == faults = MaxFaults => Exact /\ Solvent /\ Stocked

LEMMA NextProvided ==
  ASSUME RecordsAreKept, IsFiniteSet(Deposits), PriceHolds, SealsGoThrough,
         SharesSuffice, ReserveSuffices, SpendsApart, SpendsApart',
         Payments, Books, Provided, [Next]_vars
  PROVE  /\ Payments' /\ Books' /\ Provided'
         /\ \A s \in Slots : call[s].pc \in PayPcs /\ faults' = MaxFaults
                               => call'[s].pc # "idle"
<1>1. Payments' /\ Books'
  BY NextPayments, NextBooks DEF RecordsAreKept
<1>2. ASSUME faults' = MaxFaults
      PROVE  /\ Exact' /\ Solvent' /\ Stocked'
             /\ \A s \in Slots : call[s].pc \in PayPcs => call'[s].pc # "idle"
  BY <1>2, NextExact, NextSolid, NextStocked DEF Provided
<1> QED
  BY <1>1, <1>2 DEF Provided

LEMMA InitProvided ==
  ASSUME Init, IsFiniteSet(Deposits)
  PROVE  Payments /\ Books /\ Provided
  BY InitStocked, InitPayments, InitBooks, InitExact, InitSolid DEF Provided

\* As long as nothing has failed and no record is thrown away, and no two calls are
\* about to pay out at the same time, the fee buffer holds the preload of every
\* sealed deposit that no finalization has begun to pay, for amounts a seal records
\* in full: a seal brings in more than its own finalization takes out, also where
\* others seal, and the recycling of the buffer leaves enough for all.
THEOREM BufferCoversPreloads ==
  ASSUME RecordsAreKept, IsFiniteSet(Deposits), PriceHolds, SealsGoThrough,
         SharesSuffice, ReserveSuffices
  PROVE  Spec /\ []SpendsApart => [](faults = MaxFaults => BufferCovers)
<1>1. Init => Payments /\ Books /\ Provided
  BY InitProvided
<1>2. Payments /\ Books /\ Provided /\ [Next]_vars
        /\ SpendsApart /\ SpendsApart'
        => (Payments /\ Books /\ Provided)'
  BY NextProvided
<1>3. Payments /\ Provided => (faults = MaxFaults => BufferCovers)
  BY StockedCovers DEF Provided, Payments, Exclusive
<1> QED
  BY <1>1, <1>2, <1>3, PTL DEF Spec

\* In the same circumstances no finalization gives up: its transfers out of the
\* fee buffer and out of the mixer find the money they need, whatever seals and
\* refunds overlap it, so a finalization that has begun goes on until Bob is paid.
THEOREM FinalizationsDoGoThrough ==
  ASSUME RecordsAreKept, IsFiniteSet(Deposits), PriceHolds, SealsGoThrough,
         SharesSuffice, ReserveSuffices
  PROVE  Spec /\ []SpendsApart => FinalizationsGoThrough
<1>1. Init => Payments /\ Books /\ Provided
  BY InitProvided
<1>2. Payments /\ Books /\ Provided /\ [Next]_vars
        /\ SpendsApart /\ SpendsApart'
        => (Payments /\ Books /\ Provided)'
  BY NextProvided
<1>3. Payments /\ Books /\ Provided /\ [Next]_vars
        /\ SpendsApart /\ SpendsApart'
        => [\A s \in Slots : call[s].pc \in PayPcs /\ faults' = MaxFaults
                               => call'[s].pc # "idle"]_vars
  BY NextProvided
<1> QED
  BY <1>1, <1>2, <1>3, PTL DEF Spec, FinalizationsGoThrough
=============================================================================
