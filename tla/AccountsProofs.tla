--------------------------- MODULE AccountsProofs ---------------------------
(***************************************************************************)
(* What the operations on balances and time locks preserve, for every      *)
(* number of accounts and assets and for every end of time.                *)
(***************************************************************************)
EXTENDS Accounts, FiniteSetTheorems, WellFoundedInduction, TLAPS

\* Leaves are for Zenon; those with arithmetic or sequences say SMT.
USE Zenon

NatLock == [Time -> Nat]
NatBalances == [Address -> [AssetID -> Nat]]
NatLocks == [Address -> [AssetID -> NatLock]]

-----------------------------------------------------------------------------
(* Operations on one time-locked balance *)

\* The balance of one item holds no negative value.
LEMMA SpanNat ==
    ASSUME NEW s \in Int, NEW e \in Int, NEW v \in Nat
    PROVE  Span(s, e, v) \in NatLock
BY DEF Span, NatLock, Time, TimeLockNow

\* So is the sum of two locks of natural values (TimeLock.Add).
LEMMA PlusNat ==
    ASSUME NEW l \in NatLock, NEW m \in NatLock
    PROVE  Plus(l, m) \in NatLock
BY SMT DEF Plus, NatLock

\* Taking an item that Cmp found covered leaves no negative value.
LEMMA MinusNat ==
    ASSUME NEW l \in NatLock, NEW s \in Int, NEW e \in Int, NEW v \in Nat,
           Covers(l, s, e, v)
    PROVE  Minus(l, Span(s, e, v)) \in NatLock
<1> SUFFICES ASSUME NEW t \in Time PROVE l[t] - Span(s, e, v)[t] \in Nat
  BY DEF Minus, NatLock
<1>1. t \in Int /\ l[t] \in Nat
  BY ForeverAssumption, SMT DEF NatLock, Time, TimeLockNow
<1>2. Span(s, e, v)[t] = IF s <= t /\ t <= e THEN v ELSE 0
  BY DEF Span
<1> QED BY <1>1, <1>2, SMT DEF Covers

\* A value for ever less the same value over a range within it.
LEMMA SurplusNat ==
    ASSUME NEW s \in Int, NEW e \in Int, NEW v \in Nat, NEW r \in Int, r <= s,
           e <= TimeLockForever
    PROVE  Minus(Span(r, TimeLockForever, v), Span(s, e, v)) \in NatLock
<1> SUFFICES ASSUME NEW t \in Time
             PROVE  Span(r, TimeLockForever, v)[t] - Span(s, e, v)[t] \in Nat
  BY DEF Minus, NatLock
<1>1. t \in Int BY ForeverAssumption, SMT DEF Time, TimeLockNow
<1>2. /\ Span(s, e, v)[t] = IF s <= t /\ t <= e THEN v ELSE 0
      /\ Span(r, TimeLockForever, v)[t]
           = IF r <= t /\ t <= TimeLockForever THEN v ELSE 0
  BY DEF Span
<1> QED BY <1>1, <1>2, ForeverAssumption, SMT

\* Dropping what has expired leaves natural values (ClearExpired).
LEMMA ExpireNat ==
    ASSUME NEW l \in NatLock, NEW r \in Int
    PROVE  Expire(l, r) \in NatLock
BY DEF Expire, NatLock

\* What has not expired is kept.
LEMMA ExpireKeeps ==
    ASSUME NEW l, NEW r, NEW t \in Time, t >= r
    PROVE  Expire(l, r)[t] = l[t]
BY DEF Expire

-----------------------------------------------------------------------------
(* Operations on the balances of all accounts *)

\* Crediting a free balance keeps all balances natural.
LEMMA AddBalanceNat ==
    ASSUME NEW b \in NatBalances, NEW a \in Address, NEW s \in AssetID, NEW v \in Nat
    PROVE  AddBalance(b, a, s, v) \in NatBalances
BY SMT DEF AddBalance, NatBalances

\* Debiting one that has been checked keeps all balances natural.
LEMMA SubBalanceNat ==
    ASSUME NEW b \in NatBalances, NEW a \in Address, NEW s \in AssetID, NEW v \in Nat,
           b[a][s] >= v
    PROVE  SubBalance(b, a, s, v) \in NatBalances
BY SMT DEF SubBalance, NatBalances

\* Crediting a time lock keeps all locks natural.
LEMMA AddTimeLockBalanceNat ==
    ASSUME NEW l \in NatLocks, NEW a \in Address, NEW s \in AssetID, NEW m \in NatLock,
           timestamp \in Int
    PROVE  AddTimeLockBalance(l, a, s, m) \in NatLocks
<1>1. l[a][s] \in NatLock BY DEF NatLocks
<1>2. Expire(Plus(l[a][s], m), timestamp) \in NatLock BY <1>1, PlusNat, ExpireNat
<1> QED BY <1>2 DEF AddTimeLockBalance, NatLocks

\* Debiting a time lock that covers the amount keeps all locks natural.
LEMMA SubTimeLockBalanceNat ==
    ASSUME NEW l \in NatLocks, NEW a \in Address, NEW s \in AssetID, NEW m,
           Minus(l[a][s], m) \in NatLock,
           timestamp \in Int
    PROVE  SubTimeLockBalance(l, a, s, m) \in NatLocks
<1>1. Expire(Minus(l[a][s], m), timestamp) \in NatLock BY ExpireNat
<1> QED BY <1>1 DEF SubTimeLockBalance, NatLocks

\* From the parent time on a time lock grows by exactly what is added to it,
\* and no other time lock changes.
LEMMA AddTimeLockBalanceAt ==
    ASSUME NEW l \in NatLocks, NEW a \in Address, NEW s \in AssetID, NEW m \in NatLock,
           NEW t \in Time, t >= timestamp
    PROVE  /\ AddTimeLockBalance(l, a, s, m)[a][s][t] = l[a][s][t] + m[t]
           /\ \A b \in Address, r \in AssetID :
                 b # a \/ r # s => AddTimeLockBalance(l, a, s, m)[b][r] = l[b][r]
<1>1. l[a][s] \in NatLock /\ l[a][s][t] \in Nat BY SMT DEF NatLocks, NatLock
<1>2. Expire(Plus(l[a][s], m), timestamp)[t] = l[a][s][t] + m[t]
  BY ExpireKeeps DEF Plus
<1>3. m = NoLock => m[t] = 0 BY DEF NoLock
<1> QED BY <1>1, <1>2, <1>3, SMT DEF AddTimeLockBalance, NatLocks

\* The same for SubTimeLockBalance.
LEMMA SubTimeLockBalanceAt ==
    ASSUME NEW l \in NatLocks, NEW a \in Address, NEW s \in AssetID, NEW m \in NatLock,
           NEW t \in Time, t >= timestamp
    PROVE  /\ SubTimeLockBalance(l, a, s, m)[a][s][t] = l[a][s][t] - m[t]
           /\ \A b \in Address, r \in AssetID :
                 b # a \/ r # s => SubTimeLockBalance(l, a, s, m)[b][r] = l[b][r]
<1>1. l[a][s] \in NatLock /\ l[a][s][t] \in Nat BY SMT DEF NatLocks, NatLock
<1>2. Expire(Minus(l[a][s], m), timestamp)[t] = l[a][s][t] - m[t]
  BY ExpireKeeps DEF Minus
<1>3. m = NoLock => m[t] = 0 BY DEF NoLock
<1> QED BY <1>1, <1>2, <1>3, SMT DEF SubTimeLockBalance, NatLocks

-----------------------------------------------------------------------------
(* Sums *)

\* Every set of natural numbers that is not empty has a least one.
LEMMA LeastNat ==
    ASSUME NEW T \in SUBSET Nat, T # {}
    PROVE  \E n \in T : \A m \in T : n <= m
<1> DEFINE R == OpToRel(<, Nat)
<1>1. IsWellFoundedOn(R, Nat) BY NatLessThanWellFounded
<1>2. \A m, n \in Nat : m < n => <<m, n>> \in R BY DEF OpToRel
<1> HIDE DEF R
<1>3. PICK n \in T : \A m \in T : ~ (<<m, n>> \in R) BY <1>1, WFMin
<1>4. ASSUME NEW m \in T PROVE n <= m
  <2>1. m \in Nat /\ n \in Nat OBVIOUS
  <2>2. ~ (m < n) BY <1>2, <1>3, <2>1
  <2> QED BY <2>1, <2>2, SMT
<1> QED BY <1>4

\* h computes the sums of f over the subsets of S.
SumsOver(h, f, S) ==
    h = [s \in SUBSET S |-> IF s = {} THEN 0
                            ELSE f[CHOOSE x \in s : TRUE] + h[s \ {CHOOSE x \in s : TRUE}]]

\* A set that is not empty loses its chosen element and one of its size.
LEMMA Chosen ==
    ASSUME NEW S, IsFiniteSet(S), NEW s \in SUBSET S, s # {}
    PROVE  /\ (CHOOSE x \in s : TRUE) \in s
           /\ s \ {CHOOSE x \in s : TRUE} \in SUBSET S
           /\ Cardinality(s) \in Nat /\ Cardinality(s \ {CHOOSE x \in s : TRUE}) \in Nat
           /\ Cardinality(s \ {CHOOSE x \in s : TRUE}) = Cardinality(s) - 1
<1>1. (CHOOSE x \in s : TRUE) \in s OBVIOUS
<1>2. IsFiniteSet(s) BY FS_Subset
<1>3. /\ IsFiniteSet(s \ {CHOOSE x \in s : TRUE})
      /\ Cardinality(s \ {CHOOSE x \in s : TRUE}) = Cardinality(s) - 1
  BY <1>1, <1>2, FS_RemoveElement
<1>4. Cardinality(s) \in Nat /\ Cardinality(s \ {CHOOSE x \in s : TRUE}) \in Nat
  BY <1>2, <1>3, FS_CardinalityType
<1> QED BY <1>1, <1>3, <1>4

\* There are such sums (by induction over the size of the subsets).
LEMMA SumsExist ==
    ASSUME NEW f, NEW S, IsFiniteSet(S)
    PROVE  \E h : SumsOver(h, f, S)
<1> DEFINE c(s) == CHOOSE x \in s : TRUE
           Val(h, s) == IF s = {} THEN 0 ELSE f[c(s)] + h[s \ {c(s)}]
           Upto(h, n) == \A s \in SUBSET S : Cardinality(s) <= n => h[s] = Val(h, s)
           Bad == {n \in Nat : ~ \E h : Upto(h, n)}
<1>0. \A s \in SUBSET S : Cardinality(s) \in Nat BY FS_Subset, FS_CardinalityType
<1>1. ASSUME NEW h, NEW n \in Int, Upto(h, n)
      PROVE  \E k : Upto(k, n + 1)
  <2> DEFINE g == [s \in SUBSET S |-> Val(h, s)]
  <2> SUFFICES ASSUME NEW s \in SUBSET S, Cardinality(s) <= n + 1
               PROVE  g[s] = Val(g, s)
    OBVIOUS
  <2>1. g[s] = Val(h, s) OBVIOUS
  <2>2. CASE s = {} BY <2>1, <2>2
  <2>3. CASE s # {}
    <3>1. s \ {c(s)} \in SUBSET S /\ Cardinality(s \ {c(s)}) <= n
      BY <1>0, <2>3, Chosen, SMT
    <3>2. h[s \ {c(s)}] = Val(h, s \ {c(s)}) BY <1>1, <3>1
    <3>3. g[s \ {c(s)}] = Val(h, s \ {c(s)}) BY <3>1
    <3> HIDE DEF g
    <3> QED BY <2>1, <2>3, <3>2, <3>3
  <2> QED BY <2>2, <2>3
<1> HIDE DEF Upto
<1>2. ASSUME NEW n \in Nat PROVE \E h : Upto(h, n)
  <2> SUFFICES ASSUME Bad # {} PROVE FALSE
    OBVIOUS
  <2>1. PICK m \in Bad : \A k \in Bad : m <= k BY LeastNat
  <2>2. CASE m = 0
    <3>1. Upto(S, 0 - 1) BY <1>0, SMT DEF Upto
    <3>2. \E k : Upto(k, (0 - 1) + 1) BY <1>1, <3>1, SMT
    <3>3. (0 - 1) + 1 = 0 BY SMT
    <3> QED BY <2>1, <2>2, <3>2, <3>3
  <2>3. CASE m # 0
    <3>1. m - 1 \in Nat /\ m - 1 \notin Bad BY <2>1, <2>3, SMT
    <3>2. PICK h : Upto(h, m - 1) BY <3>1
    <3>3. \E k : Upto(k, (m - 1) + 1) BY <1>1, <3>1, <3>2, SMT
    <3>4. (m - 1) + 1 = m BY <2>1, SMT
    <3> QED BY <2>1, <3>3, <3>4
  <2> QED BY <2>2, <2>3
<1>3. Cardinality(S) \in Nat BY FS_CardinalityType
<1>4. PICK h : Upto(h, Cardinality(S)) BY <1>2, <1>3
<1>5. \A s \in SUBSET S : Cardinality(s) <= Cardinality(S) BY FS_Subset
<1> DEFINE g == [s \in SUBSET S |-> Val(h, s)]
<1>6. \A s \in SUBSET S : h[s] = Val(h, s) BY <1>4, <1>5 DEF Upto
<1>7. \A s \in SUBSET S : g[s] = h[s] BY <1>6
<1>8. \A s \in SUBSET S : Val(h, s) = Val(g, s)
  <2> TAKE s \in SUBSET S
  <2>1. CASE s = {} BY <2>1
  <2>2. CASE s # {}
    <3>1. s \ {c(s)} \in SUBSET S OBVIOUS
    <3> HIDE DEF g
    <3>2. g[s \ {c(s)}] = h[s \ {c(s)}] BY <1>7, <3>1
    <3> QED BY <2>2, <3>2
  <2> QED BY <2>1, <2>2
<1>9. g = [s \in SUBSET S |-> Val(g, s)] BY <1>8
<1>10. SumsOver(g, f, S) BY <1>9 DEF SumsOver
<1> QED BY <1>10

\* The sum of f over S is the one of these.
LEMMA SumIsLast ==
    ASSUME NEW f, NEW S, IsFiniteSet(S), S = DOMAIN f
    PROVE  \E h : SumsOver(h, f, S) /\ SumFunction(f) = h[S]
<1> DEFINE it == CHOOSE h : SumsOver(h, f, S)
<1>1. SumFunction(f) = it[S]
  BY DEF SumsOver, SumFunction, SumFunctionOnSet, FoldFunctionOnSet, MapThenFoldSet
<1>2. SumsOver(it, f, S) BY SumsExist
<1> QED BY <1>1, <1>2

\* A subset for which a claim fails, and none of its subsets does.
LEMMA MinimalSubset ==
    ASSUME NEW S, IsFiniteSet(S), NEW B \in SUBSET SUBSET S, B # {}
    PROVE  \E s \in B : \A r \in B : Cardinality(s) <= Cardinality(r)
<1> DEFINE N == {Cardinality(s) : s \in B}
<1>1. N \in SUBSET Nat BY FS_Subset, FS_CardinalityType
<1>2. N # {} OBVIOUS
<1>3. PICK n \in N : \A m \in N : n <= m BY <1>1, <1>2, LeastNat
<1> QED BY <1>3

\* A sum of integers is an integer.
LEMMA SumInt ==
    ASSUME NEW S, IsFiniteSet(S), NEW f \in [S -> Int]
    PROVE  SumFunction(f) \in Int
<1>1. PICK h : SumsOver(h, f, S) /\ SumFunction(f) = h[S] BY SumIsLast
<1> DEFINE B == {s \in SUBSET S : h[s] \notin Int}
<1> SUFFICES ASSUME B # {} PROVE FALSE
  BY <1>1
<1>2. PICK s \in B : \A r \in B : Cardinality(s) <= Cardinality(r) BY MinimalSubset
<1>3. CASE s = {} BY <1>1, <1>3, SMT DEF SumsOver
<1>4. CASE s # {}
  <2> DEFINE x == CHOOSE x \in s : TRUE
  <2>1. /\ x \in s /\ s \ {x} \in SUBSET S
        /\ Cardinality(s \ {x}) = Cardinality(s) - 1 /\ Cardinality(s) \in Nat
    BY <1>4, Chosen
  <2>2. h[s] = f[x] + h[s \ {x}] BY <1>1, <1>4 DEF SumsOver
  <2>3. h[s \ {x}] \in Int BY <1>2, <2>1, SMT
  <2>4. f[x] \in Int BY <2>1
  <2> HIDE DEF x
  <2> QED BY <2>2, <2>3, <2>4, SMT
<1> QED BY <1>3, <1>4

\* Changing one of the terms changes the sum by as much.
LEMMA SumChange ==
    ASSUME NEW S, IsFiniteSet(S), NEW f \in [S -> Int], NEW g \in [S -> Int], NEW a \in S,
           \A x \in S \ {a} : g[x] = f[x]
    PROVE  SumFunction(g) = SumFunction(f) + g[a] - f[a]
<1>1. PICK hf : SumsOver(hf, f, S) /\ SumFunction(f) = hf[S] BY SumIsLast
<1>2. PICK hg : SumsOver(hg, g, S) /\ SumFunction(g) = hg[S] BY SumIsLast
<1> DEFINE d == g[a] - f[a]
           Claim(s) == /\ hf[s] \in Int /\ hg[s] \in Int
                       /\ hg[s] = hf[s] + (IF a \in s THEN d ELSE 0)
           B == {s \in SUBSET S : ~ Claim(s)}
<1>3. B = {}
  <2> SUFFICES ASSUME B # {} PROVE FALSE
    OBVIOUS
  <2>1. PICK s \in B : \A r \in B : Cardinality(s) <= Cardinality(r) BY MinimalSubset
  <2>2. CASE s = {} BY <1>1, <1>2, <2>2, SMT DEF SumsOver
  <2>3. CASE s # {}
    <3> DEFINE x == CHOOSE x \in s : TRUE
    <3>1. /\ x \in s /\ s \ {x} \in SUBSET S
          /\ Cardinality(s \ {x}) = Cardinality(s) - 1 /\ Cardinality(s) \in Nat
      BY <2>3, Chosen
    <3>2. hf[s] = f[x] + hf[s \ {x}] BY <1>1, <2>3 DEF SumsOver
    <3>3. hg[s] = g[x] + hg[s \ {x}] BY <1>2, <2>3 DEF SumsOver
    <3>4. Claim(s \ {x}) BY <2>1, <3>1, SMT
    <3>5. f[x] \in Int /\ g[x] \in Int /\ f[a] \in Int /\ g[a] \in Int BY <3>1
    <3>6. x # a => g[x] = f[x] BY <3>1
    <3>7. a \in s <=> a = x \/ a \in s \ {x} BY <3>1
    <3>8. a = x => a \notin s \ {x} OBVIOUS
    <3> HIDE DEF x
    <3>9. Claim(s)
      <4>1. CASE a = x BY <3>1, <3>2, <3>3, <3>4, <3>5, <3>8, <4>1, SMT
      <4>2. CASE a # x BY <3>1, <3>2, <3>3, <3>4, <3>5, <3>6, <3>7, <4>2, SMT
      <4> QED BY <4>1, <4>2
    <3> QED BY <3>9
  <2> QED BY <2>2, <2>3
<1>4. Claim(S) BY <1>3
<1>5. f[a] \in Int /\ g[a] \in Int OBVIOUS
<1> QED BY <1>1, <1>2, <1>4, <1>5

\* Changing two of them, or one, changes it by the sum of the changes.
LEMMA SumChangeTwo ==
    ASSUME NEW S, IsFiniteSet(S), NEW f \in [S -> Int], NEW g \in [S -> Int],
           NEW a \in S, NEW b \in S, \A x \in S \ {a, b} : g[x] = f[x]
    PROVE  SumFunction(g) - SumFunction(f)
              = IF a = b THEN g[a] - f[a] ELSE g[a] + g[b] - (f[a] + f[b])
<1> DEFINE m == [f EXCEPT ![a] = g[a]]
<1>1. /\ m \in [S -> Int] /\ m[a] = g[a]
      /\ \A x \in S \ {a} : m[x] = f[x]
      /\ \A x \in S \ {b} : g[x] = m[x]
      /\ a # b => m[b] = f[b]
  OBVIOUS
<1> HIDE DEF m
<1>2. SumFunction(m) = SumFunction(f) + m[a] - f[a] BY <1>1, SumChange, SMT
<1>3. SumFunction(g) = SumFunction(m) + g[b] - m[b] BY <1>1, SumChange, ZenonT(40)
<1>4. SumFunction(f) \in Int /\ SumFunction(m) \in Int /\ SumFunction(g) \in Int
  BY <1>1, SumInt
<1>5. f[a] \in Int /\ f[b] \in Int /\ g[a] \in Int /\ g[b] \in Int OBVIOUS
<1> QED BY <1>1, <1>2, <1>3, <1>4, <1>5, SMT

\* A sum of zeros is zero.
LEMMA SumZero ==
    ASSUME NEW S, IsFiniteSet(S), NEW f, f = [x \in S |-> 0]
    PROVE  SumFunction(f) = 0
<1>1. PICK h : SumsOver(h, f, S) /\ SumFunction(f) = h[S] BY SumIsLast
<1> DEFINE B == {s \in SUBSET S : h[s] # 0}
<1> SUFFICES ASSUME B # {} PROVE FALSE
  BY <1>1
<1>2. PICK s \in B : \A r \in B : Cardinality(s) <= Cardinality(r) BY MinimalSubset
<1>3. CASE s = {} BY <1>1, <1>3 DEF SumsOver
<1>4. CASE s # {}
  <2> DEFINE x == CHOOSE x \in s : TRUE
  <2>1. /\ x \in s /\ s \ {x} \in SUBSET S
        /\ Cardinality(s \ {x}) = Cardinality(s) - 1 /\ Cardinality(s) \in Nat
    BY <1>4, Chosen
  <2>2. h[s] = f[x] + h[s \ {x}] BY <1>1, <1>4 DEF SumsOver
  <2>3. h[s \ {x}] = 0 BY <1>2, <2>1, SMT
  <2>4. f[x] = 0 BY <2>1
  <2> HIDE DEF x
  <2> QED BY <1>2, <2>2, <2>3, <2>4, SMT
<1> QED BY <1>3, <1>4

\* A sum of greater terms is greater.
LEMMA SumLeq ==
    ASSUME NEW S, IsFiniteSet(S), NEW f \in [S -> Int], NEW g \in [S -> Int],
           \A x \in S : f[x] <= g[x]
    PROVE  SumFunction(f) <= SumFunction(g)
<1>1. PICK hf : SumsOver(hf, f, S) /\ SumFunction(f) = hf[S] BY SumIsLast
<1>2. PICK hg : SumsOver(hg, g, S) /\ SumFunction(g) = hg[S] BY SumIsLast
<1> DEFINE Claim(s) == hf[s] \in Int /\ hg[s] \in Int /\ hf[s] <= hg[s]
           B == {s \in SUBSET S : ~ Claim(s)}
<1> SUFFICES ASSUME B # {} PROVE FALSE
  BY <1>1, <1>2
<1>3. PICK s \in B : \A r \in B : Cardinality(s) <= Cardinality(r) BY MinimalSubset
<1>4. CASE s = {} BY <1>1, <1>2, <1>4, SMT DEF SumsOver
<1>5. CASE s # {}
  <2> DEFINE x == CHOOSE x \in s : TRUE
  <2>1. /\ x \in s /\ s \ {x} \in SUBSET S
        /\ Cardinality(s \ {x}) = Cardinality(s) - 1 /\ Cardinality(s) \in Nat
    BY <1>5, Chosen
  <2>2. hf[s] = f[x] + hf[s \ {x}] BY <1>1, <1>5 DEF SumsOver
  <2>3. hg[s] = g[x] + hg[s \ {x}] BY <1>2, <1>5 DEF SumsOver
  <2>4. Claim(s \ {x}) BY <1>3, <2>1, SMT
  <2>5. f[x] \in Int /\ g[x] \in Int /\ f[x] <= g[x] BY <2>1
  <2> HIDE DEF x
  <2>6. Claim(s) BY <2>2, <2>3, <2>4, <2>5, SMT
  <2> QED BY <2>6
<1> QED BY <1>4, <1>5
=============================================================================
