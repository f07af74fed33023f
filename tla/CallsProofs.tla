---------------------------- MODULE CallsProofs ----------------------------
(***************************************************************************)
(* The asset calls keep every balance and time lock from going negative,   *)
(* and every call is a transfer, for every set of accounts and assets.     *)
(* Buying tickets and ending blocks keeps amounts from going negative, and *)
(* the tickets a block is drawn from in the state until the block ends.    *)
(* Nothing is made or lost: at every instant still ahead the accounts      *)
(* together hold the total recorded for an asset, and accounts and tickets *)
(* never more than the genesis supply and the rewards.                     *)
(***************************************************************************)
EXTENDS Assets, Tickets, AccountsProofs

\* Leaves are for Zenon; those with arithmetic or sequences say SMT.
USE Zenon

-----------------------------------------------------------------------------
(* The asset calls *)

\* The inductive invariant: the types, with every amount a natural number, and
\* no record under an id that no asset has.
AssetsInv ==
    /\ balance \in NatBalances
    /\ lock \in NatLocks
    /\ timestamp \in 0 .. MaxTimestamp
    /\ assets \in [AssetID -> Asset]
    /\ \A s \in AssetID : assets[s].known \/ assets[s] = NoAsset

\* The inductive invariant contains the invariants the run checks.
LEMMA AssetsInvImplies == AssetsInv => AssetsTypeOK /\ NonNegative
<1> SUFFICES ASSUME AssetsInv PROVE AssetsTypeOK /\ NonNegative
  OBVIOUS
<1>1. AssetsTypeOK
  BY SMT DEF AssetsInv, AssetsTypeOK, AccountsTypeOK, NatBalances, NatLocks, NatLock
<1>2. NonNegative
  BY SMT DEF AssetsInv, NonNegative, NatBalances, NatLocks, NatLock
<1> QED BY <1>1, <1>2

\* It holds in the first state (Genesis.ToBlock).
LEMMA InitAssetsInv == AssetsInit => AssetsInv
<1> SUFFICES ASSUME AssetsInit PROVE AssetsInv
  OBVIOUS
<1>1. NoLock \in NatLock BY DEF NoLock, NatLock
<1>2. balance \in NatBalances
  BY AccountsAssumption DEF AssetsInit, AccountsInit, NatBalances
<1>3. lock \in NatLocks
  BY <1>1 DEF AssetsInit, AccountsInit, NatLocks
<1>4. timestamp \in 0 .. MaxTimestamp
  BY AccountsAssumption, ForeverAssumption, SMT DEF AssetsInit, AccountsInit
<1>5. /\ assets \in [AssetID -> Asset]
      /\ \A s \in AssetID : assets[s].known \/ assets[s] = NoAsset
  BY AssetsAssumption DEF AssetsInit
<1> QED BY <1>2, <1>3, <1>4, <1>5 DEF AssetsInv

\* The clipped start of a call lies between the parent time and the end.
LEMMA ClipRange ==
    ASSUME timestamp \in Int, NEW start \in Time
    PROVE  Clip(start) \in Int /\ Clip(start) >= timestamp
BY ForeverAssumption, SMT DEF Clip, Later, Time, TimeLockNow

\* Each call keeps amounts natural.
LEMMA StepAssetsInv == AssetsInv /\ [AssetsNext]_assetVars => AssetsInv'
<1> SUFFICES ASSUME AssetsInv, [AssetsNext]_assetVars PROVE AssetsInv'
  OBVIOUS
<1>0. timestamp \in Int BY AccountsAssumption, SMT DEF AssetsInv
<1> USE DEF AssetsInv
<1>1. CASE UNCHANGED assetVars BY <1>1 DEF assetVars
<1>2. CASE NewBlock /\ UNCHANGED assets
  BY <1>2, AccountsAssumption, ForeverAssumption, SMT DEF NewBlock
<1>3. ASSUME NEW from \in Address, NEW s \in AssetID, NEW v \in Amount,
             NEW canChange \in BOOLEAN, GenAsset(from, s, v, canChange)
      PROVE  AssetsInv'
  <2>1. v \in Nat BY AccountsAssumption
  <2>2. balance' \in NatBalances BY <1>3, <2>1, AddBalanceNat DEF GenAsset
  <2>3. /\ assets' \in [AssetID -> Asset]
        /\ \A r \in AssetID : assets'[r].known \/ assets'[r] = NoAsset
    BY <1>3, <2>1, SMT DEF GenAsset, Asset
  <2> QED BY <1>3, <2>2, <2>3 DEF GenAsset
<1>4. ASSUME NEW from \in Address, NEW to \in Address, NEW s \in AssetID,
             NEW v \in Amount, SendAsset(from, to, s, v)
      PROVE  AssetsInv'
  <2>1. v \in Nat BY AccountsAssumption
  <2>2. SubBalance(balance, from, s, v) \in NatBalances
    BY <1>4, <2>1, SubBalanceNat DEF SendAsset
  <2>3. balance' \in NatBalances BY <1>4, <2>1, <2>2, AddBalanceNat DEF SendAsset
  <2> QED BY <1>4, <2>3 DEF SendAsset
<1>5. ASSUME NEW from \in Address, NEW to \in Address, NEW s \in AssetID,
             NEW v \in Amount, NEW start \in Time, NEW end \in Time,
             AssetToTimeLock(from, to, s, start, end, v)
      PROVE  AssetsInv'
  <2> DEFINE need == Span(Clip(start), end, v)
             surplus == Minus(Whole(v), need)
  <2>1. v \in Nat BY AccountsAssumption
  <2>2. end \in Int /\ end <= TimeLockForever
    BY ForeverAssumption, SMT DEF Time, TimeLockNow
  <2>3. need \in NatLock BY <1>0, <2>1, <2>2, ClipRange, SpanNat
  <2>4. Whole(v) \in NatLock BY <1>0, <2>1, ForeverAssumption, SpanNat, SMT DEF Whole
  <2>5. surplus \in NatLock BY <1>0, <2>1, <2>2, ClipRange, SurplusNat DEF Whole
  <2>6. balance' \in NatBalances
    BY <1>5, <2>1, SubBalanceNat DEF AssetToTimeLock
  <2>7. lock' \in NatLocks
    <3> HIDE DEF need, surplus
    <3>1. AddTimeLockBalance(lock, to, s, Whole(v)) \in NatLocks
      BY <1>0, <2>4, AddTimeLockBalanceNat
    <3>2. AddTimeLockBalance(lock, from, s, surplus) \in NatLocks
      BY <1>0, <2>5, AddTimeLockBalanceNat
    <3>3. AddTimeLockBalance(AddTimeLockBalance(lock, from, s, surplus), to, s, need) \in NatLocks
      BY <1>0, <2>3, <3>2, AddTimeLockBalanceNat
    <3> QED BY <1>5, <3>1, <3>3 DEF AssetToTimeLock, need, surplus
  <2> QED BY <1>5, <2>6, <2>7 DEF AssetToTimeLock
<1>6. ASSUME NEW from \in Address, NEW to \in Address, NEW s \in AssetID,
             NEW v \in Amount, NEW start \in Time, NEW end \in Time,
             TimeLockToTimeLock(from, to, s, start, end, v)
      PROVE  AssetsInv'
  <2> DEFINE need == Span(Clip(start), end, v)
  <2>1. v \in Nat BY AccountsAssumption
  <2>2. end \in Int BY ForeverAssumption, SMT DEF Time, TimeLockNow
  <2>3. need \in NatLock BY <1>0, <2>1, <2>2, ClipRange, SpanNat
  <2>4. lock[from][s] \in NatLock BY DEF NatLocks
  <2>5. Minus(lock[from][s], need) \in NatLock
    BY <1>0, <1>6, <2>1, <2>2, <2>4, ClipRange, MinusNat DEF TimeLockToTimeLock
  <2>6. lock' \in NatLocks
    <3> HIDE DEF need
    <3>1. SubTimeLockBalance(lock, from, s, need) \in NatLocks
      BY <1>0, <2>5, SubTimeLockBalanceNat
    <3>2. AddTimeLockBalance(SubTimeLockBalance(lock, from, s, need), to, s, need) \in NatLocks
      BY <1>0, <2>3, <3>1, AddTimeLockBalanceNat
    <3> QED BY <1>6, <3>2 DEF TimeLockToTimeLock, need
  <2> QED BY <1>6, <2>6 DEF TimeLockToTimeLock
<1>7. ASSUME NEW from \in Address, NEW to \in Address, NEW s \in AssetID,
             NEW v \in Amount, NEW start \in Time, NEW clock,
             TimeLockToAsset(from, to, s, start, v, clock)
      PROVE  AssetsInv'
  <2> DEFINE need == Span(Clip(start), TimeLockForever, v)
  <2>1. v \in Nat /\ TimeLockForever \in Int BY AccountsAssumption, ForeverAssumption, SMT
  <2>2. lock[from][s] \in NatLock BY DEF NatLocks
  <2>3. Minus(lock[from][s], need) \in NatLock
    BY <1>0, <1>7, <2>1, <2>2, ClipRange, MinusNat DEF TimeLockToAsset
  <2>4. lock' \in NatLocks
    <3> HIDE DEF need
    <3>1. SubTimeLockBalance(lock, from, s, need) \in NatLocks
      BY <1>0, <2>3, SubTimeLockBalanceNat
    <3> QED BY <1>7, <3>1 DEF TimeLockToAsset, need
  <2>5. balance' \in NatBalances BY <1>7, <2>1, AddBalanceNat DEF TimeLockToAsset
  <2> QED BY <1>7, <2>4, <2>5 DEF TimeLockToAsset
<1>8. ASSUME NEW from \in Address, NEW to \in Address, NEW s \in AssetID,
             NEW v \in Amount, AssetInc(from, to, s, v)
      PROVE  AssetsInv'
  <2>1. v \in Nat BY AccountsAssumption
  <2>2. balance' \in NatBalances BY <1>8, <2>1, AddBalanceNat DEF AssetInc
  <2>3. /\ assets' \in [AssetID -> Asset]
        /\ \A r \in AssetID : assets'[r].known \/ assets'[r] = NoAsset
    BY <1>8, <2>1, SMT DEF AssetInc, Asset, AssetValueChangeCheck
  <2> QED BY <1>8, <2>2, <2>3 DEF AssetInc
<1>9. ASSUME NEW from \in Address, NEW to \in Address, NEW s \in AssetID,
             NEW v \in Amount, AssetDec(from, to, s, v)
      PROVE  AssetsInv'
  <2>1. v \in Nat BY AccountsAssumption
  <2>2. balance' \in NatBalances BY <1>9, <2>1, SubBalanceNat DEF AssetDec
  <2>3. /\ assets' \in [AssetID -> Asset]
        /\ \A r \in AssetID : assets'[r].known \/ assets'[r] = NoAsset
    BY <1>9, <2>1, SMT DEF AssetDec, Asset, AssetValueChangeCheck
  <2> QED BY <1>9, <2>2, <2>3 DEF AssetDec
<1> HIDE DEF AssetsInv
<1> QED BY <1>1, <1>2, <1>3, <1>4, <1>5, <1>6, <1>7, <1>8, <1>9, SMT
        DEF AssetsNext, TimeLockCall

\* So it holds in every state.
LEMMA AssetsInvHolds == AssetsSpec => []AssetsInv
BY InitAssetsInv, StepAssetsInv, PTL DEF AssetsSpec

\* The variables of the asset calls keep their types.
THEOREM AssetsTypeCorrect == AssetsSpec => []AssetsTypeOK
BY AssetsInvHolds, AssetsInvImplies, PTL

\* No call ever makes a balance or a time lock negative: each debit comes
\* after the comparison that covers it.
THEOREM AssetsNeverNegative == AssetsSpec => []NonNegative
BY AssetsInvHolds, AssetsInvImplies, PTL

-----------------------------------------------------------------------------
(* Every step is a transfer *)

\* A step that leaves an asset alone is a transfer of nothing.
LEMMA UntouchedIsTransfer ==
    ASSUME AssetsInv, NEW s \in AssetID, assets'[s] = assets[s], NEW a \in Address,
           \A c \in Address : balance'[c][s] = balance[c][s] /\ lock'[c][s] = lock[c][s]
    PROVE  IsTransfer(a, a, s)
<1>1. Others(a, a, s) BY DEF Others
<1>2. assets[s].total \in Int BY DEF AssetsInv, Asset
<1>3. ASSUME NEW t \in Ahead PROVE PairWorth(a, a, s, t)' = PairWorth(a, a, s, t)
  BY DEF PairWorth, Worth
<1>4. ASSUME NEW t \in Ahead PROVE PairWorth(a, a, s, t) \in Int
  BY SMT DEF PairWorth, Worth, Ahead, AssetsInv, NatBalances, NatLocks, NatLock
<1> QED BY <1>1, <1>2, <1>3, <1>4, SMT DEF IsTransfer

\* What an account holds is a natural number at every instant.
LEMMA AheadRange ==
    ASSUME AssetsInv, NEW t \in Ahead
    PROVE  t \in Time /\ t \in Int /\ t >= timestamp
BY AssetsAssumption, AccountsAssumption, ForeverAssumption, SMT
   DEF Ahead, AssetsInv, Time, TimeLockNow

\* What an account can spend at an instant is a natural number.
LEMMA HoldingNat ==
    ASSUME AssetsInv, NEW a \in Address, NEW s \in AssetID, NEW t \in Time
    PROVE  balance[a][s] \in Nat /\ lock[a][s][t] \in Nat
BY SMT DEF AssetsInv, NatBalances, NatLocks, NatLock

\* A call about asset s leaves all other assets alone.
LEMMA OneAsset ==
    ASSUME AssetsInv, NEW from \in Address, NEW to \in Address, NEW s \in AssetID,
           IsTransfer(from, to, s),
           \A r \in AssetID \ {s} :
              /\ assets'[r] = assets[r]
              /\ \A c \in Address : balance'[c][r] = balance[c][r] /\ lock'[c][r] = lock[c][r]
    PROVE  \A r \in AssetID : \E a, b \in Address : IsTransfer(a, b, r)
<1> SUFFICES ASSUME NEW r \in AssetID PROVE \E a, b \in Address : IsTransfer(a, b, r)
  OBVIOUS
<1>1. CASE r = s BY <1>1
<1>2. CASE r # s BY <1>2, UntouchedIsTransfer
<1> QED BY <1>1, <1>2

\* A call that moves free balance only.
LEMMA BalanceTransfer ==
    ASSUME AssetsInv, NEW from \in Address, NEW to \in Address, NEW s \in AssetID,
           NEW v \in Nat, NEW w \in Nat, UNCHANGED lock, balance' \in NatBalances,
           balance' = AddBalance(SubBalance(balance, from, s, v), to, s, w),
           assets'[s].total - assets[s].total = w - v
    PROVE  IsTransfer(from, to, s)
<1>1. Others(from, to, s)
  BY DEF Others, AddBalance, SubBalance, AssetsInv, NatBalances
<1>2. ASSUME NEW t \in Ahead
      PROVE  PairWorth(from, to, s, t)' - PairWorth(from, to, s, t) = w - v
  <2>1. t \in Time BY AheadRange
  <2>2. /\ balance[from][s] \in Nat /\ lock[from][s][t] \in Nat
        /\ balance[to][s] \in Nat /\ lock[to][s][t] \in Nat
    BY <2>1, HoldingNat
  <2>3. CASE from = to
    <3>1. balance'[from][s] = balance[from][s] - v + w
      BY <2>2, <2>3 DEF AddBalance, SubBalance, AssetsInv, NatBalances
    <3> QED BY <2>2, <2>3, <3>1, SMT DEF PairWorth, Worth
  <2>4. CASE from # to
    <3>1. balance'[from][s] = balance[from][s] - v /\ balance'[to][s] = balance[to][s] + w
      BY <2>2, <2>4 DEF AddBalance, SubBalance, AssetsInv, NatBalances
    <3> QED BY <2>2, <2>4, <3>1, SMT DEF PairWorth, Worth
  <2> QED BY <2>3, <2>4
<1> QED BY <1>1, <1>2 DEF IsTransfer

\* Locking a free balance is a transfer: need and surplus add up to the value.
LEMMA AssetToTimeLockTransfer ==
    ASSUME AssetsInv, NEW from \in Address, NEW to \in Address, NEW s \in AssetID,
           NEW v \in Amount, NEW start \in Time, NEW end \in Time,
           AssetToTimeLock(from, to, s, start, end, v)
    PROVE  \A r \in AssetID : \E a, b \in Address : IsTransfer(a, b, r)
<1> DEFINE need == Span(Clip(start), end, v)
           surplus == Minus(Whole(v), need)
           given == AddTimeLockBalance(lock, from, s, surplus)
<1>1. v \in Nat /\ timestamp \in Int BY AccountsAssumption, SMT DEF AssetsInv
<1>2. end \in Int /\ end <= TimeLockForever BY ForeverAssumption, SMT DEF Time, TimeLockNow
<1>3. need \in NatLock BY <1>1, <1>2, ClipRange, SpanNat
<1>4. Whole(v) \in NatLock BY <1>1, ForeverAssumption, SpanNat, SMT DEF Whole
<1>5. surplus \in NatLock BY <1>1, <1>2, ClipRange, SurplusNat DEF Whole
<1>6. balance' = SubBalance(balance, from, s, v) /\ UNCHANGED assets
  BY DEF AssetToTimeLock
<1>7. lock' = IF from = to THEN AddTimeLockBalance(lock, to, s, Whole(v))
                           ELSE AddTimeLockBalance(given, to, s, need)
  BY DEF AssetToTimeLock
<1>8. lock \in NatLocks BY DEF AssetsInv
<1> HIDE DEF need, surplus
<1>9. given \in NatLocks BY <1>1, <1>5, <1>8, AddTimeLockBalanceNat
<1>10. balance[from][s] \in Nat BY DEF AssetsInv, NatBalances
<1>11. /\ balance'[from][s] = balance[from][s] - v
       /\ \A c \in Address, r \in AssetID :
             c # from \/ r # s => balance'[c][r] = balance[c][r]
  BY <1>6 DEF SubBalance, AssetsInv, NatBalances
<1>12. TimeLockForever \in Time /\ TimeLockForever >= timestamp
  BY ForeverAssumption, AccountsAssumption, SMT DEF Time, TimeLockNow, AssetsInv
<1>13. \A c \in Address, r \in AssetID :
          (c # from /\ c # to) \/ r # s => lock'[c][r] = lock[c][r]
  <2> HIDE DEF given
  <2>1. \A c \in Address, r \in AssetID :
           c # to \/ r # s => AddTimeLockBalance(lock, to, s, Whole(v))[c][r] = lock[c][r]
    BY <1>4, <1>8, <1>12, AddTimeLockBalanceAt, SMT
  <2>2. \A c \in Address, r \in AssetID : c # from \/ r # s => given[c][r] = lock[c][r]
    BY <1>5, <1>8, <1>12, AddTimeLockBalanceAt, SMT DEF given
  <2>3. \A c \in Address, r \in AssetID :
           c # to \/ r # s => AddTimeLockBalance(given, to, s, need)[c][r] = given[c][r]
    BY <1>3, <1>9, <1>12, AddTimeLockBalanceAt, SMT
  <2> QED BY <1>7, <2>1, <2>2, <2>3, SMT
<1>14. ASSUME NEW t \in Ahead
       PROVE  PairWorth(from, to, s, t)' = PairWorth(from, to, s, t)
  <2>1. t \in Time /\ t \in Int /\ t >= timestamp /\ t <= TimeLockForever
    BY AheadRange, ForeverAssumption, SMT DEF Time
  <2>2. Whole(v)[t] = v BY <2>1 DEF Whole, Span
  <2>3. surplus[t] = v - need[t] BY <2>1, <2>2 DEF surplus, Minus
  <2>4. need[t] \in Nat BY <1>3, <2>1 DEF NatLock
  <2>5. /\ balance[to][s] \in Nat /\ lock[from][s][t] \in Nat /\ lock[to][s][t] \in Nat
    BY <2>1, HoldingNat
  <2>6. CASE from = to
    <3>1. lock'[from][s][t] = lock[from][s][t] + v
      BY <1>4, <1>7, <1>8, <2>1, <2>2, <2>6, AddTimeLockBalanceAt, SMT
    <3> QED BY <1>1, <1>10, <1>11, <2>5, <2>6, <3>1, SMT DEF PairWorth, Worth
  <2>7. CASE from # to
    <3> HIDE DEF given
    <3>1. given[from][s][t] = lock[from][s][t] + surplus[t] /\ given[to][s] = lock[to][s]
      BY <1>5, <1>8, <2>1, <2>7, AddTimeLockBalanceAt, SMT DEF given
    <3>2. lock'[to][s][t] = given[to][s][t] + need[t] /\ lock'[from][s] = given[from][s]
      BY <1>3, <1>7, <1>9, <2>1, <2>7, AddTimeLockBalanceAt, SMT
    <3>3. /\ lock'[from][s][t] = lock[from][s][t] + v - need[t]
          /\ lock'[to][s][t] = lock[to][s][t] + need[t]
      BY <1>1, <2>3, <2>4, <2>5, <3>1, <3>2
    <3>4. balance'[to][s] = balance[to][s] BY <1>11, <2>7
    <3> QED BY <1>1, <1>10, <1>11, <2>4, <2>5, <2>7, <3>3, <3>4, SMT DEF PairWorth, Worth
  <2> QED BY <2>6, <2>7
<1>15. ASSUME NEW t \in Ahead PROVE PairWorth(from, to, s, t) \in Int
  BY AheadRange, HoldingNat, SMT DEF PairWorth, Worth
<1>16. IsTransfer(from, to, s)
  <2>1. Others(from, to, s) BY <1>11, <1>13 DEF Others
  <2>2. assets'[s].total = assets[s].total /\ assets[s].total \in Int
    BY <1>6 DEF AssetsInv, Asset
  <2> QED BY <1>14, <1>15, <2>1, <2>2, SMT DEF IsTransfer
<1> QED BY <1>6, <1>11, <1>13, <1>16, OneAsset

\* Handing on a time lock is a transfer.
LEMMA TimeLockToTimeLockTransfer ==
    ASSUME AssetsInv, NEW from \in Address, NEW to \in Address, NEW s \in AssetID,
           NEW v \in Amount, NEW start \in Time, NEW end \in Time,
           TimeLockToTimeLock(from, to, s, start, end, v)
    PROVE  \A r \in AssetID : \E a, b \in Address : IsTransfer(a, b, r)
<1> DEFINE need == Span(Clip(start), end, v)
           taken == SubTimeLockBalance(lock, from, s, need)
<1>1. v \in Nat /\ timestamp \in Int BY AccountsAssumption, SMT DEF AssetsInv
<1>2. end \in Int BY ForeverAssumption, SMT DEF Time, TimeLockNow
<1>3. need \in NatLock BY <1>1, <1>2, ClipRange, SpanNat
<1>4. lock \in NatLocks /\ lock[from][s] \in NatLock BY DEF AssetsInv, NatLocks
<1>5. Minus(lock[from][s], need) \in NatLock
  BY <1>1, <1>2, <1>4, ClipRange, MinusNat DEF TimeLockToTimeLock
<1>6. lock' = AddTimeLockBalance(taken, to, s, need) /\ UNCHANGED <<balance, assets>>
  BY DEF TimeLockToTimeLock
<1> HIDE DEF need
<1>7. taken \in NatLocks BY <1>1, <1>4, <1>5, SubTimeLockBalanceNat
<1> HIDE DEF taken
<1>8. TimeLockForever \in Time /\ TimeLockForever >= timestamp
  BY ForeverAssumption, AccountsAssumption, SMT DEF Time, TimeLockNow, AssetsInv
<1>9. \A c \in Address, r \in AssetID :
          (c # from /\ c # to) \/ r # s => lock'[c][r] = lock[c][r]
  <2>1. \A c \in Address, r \in AssetID : c # from \/ r # s => taken[c][r] = lock[c][r]
    BY <1>3, <1>4, <1>8, SubTimeLockBalanceAt, SMT DEF taken
  <2>2. \A c \in Address, r \in AssetID : c # to \/ r # s => lock'[c][r] = taken[c][r]
    BY <1>3, <1>6, <1>7, <1>8, AddTimeLockBalanceAt, SMT
  <2> QED BY <2>1, <2>2, ZenonT(40)
<1>10. ASSUME NEW t \in Ahead
       PROVE  PairWorth(from, to, s, t)' = PairWorth(from, to, s, t)
  <2>1. t \in Time /\ t >= timestamp BY AheadRange
  <2>2. /\ need[t] \in Nat
        /\ balance[from][s] \in Nat /\ balance[to][s] \in Nat
        /\ lock[from][s][t] \in Nat /\ lock[to][s][t] \in Nat
    BY <1>3, <2>1, HoldingNat DEF NatLock
  <2>3. /\ taken[from][s][t] = lock[from][s][t] - need[t]
        /\ from # to => taken[to][s] = lock[to][s]
    BY <1>3, <1>4, <2>1, SubTimeLockBalanceAt, SMT DEF taken
  <2>4. /\ lock'[to][s][t] = taken[to][s][t] + need[t]
        /\ from # to => lock'[from][s] = taken[from][s]
    BY <1>3, <1>6, <1>7, <2>1, AddTimeLockBalanceAt, SMT
  <2>5. CASE from = to BY <1>6, <2>2, <2>3, <2>4, <2>5, SMT DEF PairWorth, Worth
  <2>6. CASE from # to BY <1>6, <2>2, <2>3, <2>4, <2>6, SMT DEF PairWorth, Worth
  <2> QED BY <2>5, <2>6
<1>11. ASSUME NEW t \in Ahead PROVE PairWorth(from, to, s, t) \in Int
  BY AheadRange, HoldingNat, SMT DEF PairWorth, Worth
<1>12. IsTransfer(from, to, s)
  <2>1. Others(from, to, s) BY <1>6, <1>9 DEF Others
  <2>2. assets'[s].total = assets[s].total /\ assets[s].total \in Int
    BY <1>6 DEF AssetsInv, Asset
  <2> QED BY <1>10, <1>11, <2>1, <2>2, SMT DEF IsTransfer
<1> QED BY <1>6, <1>9, <1>12, OneAsset

\* Freeing a time lock is a transfer at the instants no clock has reached.
LEMMA TimeLockToAssetTransfer ==
    ASSUME AssetsInv, NEW from \in Address, NEW to \in Address, NEW s \in AssetID,
           NEW v \in Amount, NEW start \in Time,
           NEW clock \in timestamp .. timestamp + ClockLead,
           TimeLockToAsset(from, to, s, start, v, clock)
    PROVE  \A r \in AssetID : \E a, b \in Address : IsTransfer(a, b, r)
<1> DEFINE need == Span(Clip(start), TimeLockForever, v)
<1>1. v \in Nat /\ timestamp \in Int /\ start \in Int
  BY AccountsAssumption, ForeverAssumption, SMT DEF AssetsInv, Time, TimeLockNow
<1>2. need \in NatLock BY <1>1, ForeverAssumption, ClipRange, SpanNat, SMT
<1>3. lock \in NatLocks /\ balance \in NatBalances BY DEF AssetsInv
<1>4. /\ lock' = SubTimeLockBalance(lock, from, s, need)
      /\ balance' = AddBalance(balance, to, s, v)
      /\ UNCHANGED assets
      /\ start <= clock
  BY DEF TimeLockToAsset
<1>5. ASSUME NEW t \in Ahead PROVE need[t] = v
  <2>1. t \in Time /\ t \in Int /\ t >= timestamp /\ t <= TimeLockForever
    BY AheadRange, ForeverAssumption, SMT DEF Time
  <2>2. start <= t BY <1>1, <1>4, <2>1, AssetsAssumption, SMT DEF Ahead
  <2>3. Clip(start) <= t BY <1>1, <2>1, <2>2 DEF Clip, Later
  <2> QED BY <2>1, <2>3 DEF Span
<1> HIDE DEF need
<1>6. TimeLockForever \in Time /\ TimeLockForever >= timestamp
  BY ForeverAssumption, AccountsAssumption, SMT DEF Time, TimeLockNow, AssetsInv
<1>7. \A c \in Address, r \in AssetID : c # from \/ r # s => lock'[c][r] = lock[c][r]
  BY <1>2, <1>3, <1>4, <1>6, SubTimeLockBalanceAt, SMT
<1>8. /\ balance'[to][s] = balance[to][s] + v
      /\ \A c \in Address, r \in AssetID : c # to \/ r # s => balance'[c][r] = balance[c][r]
  BY <1>3, <1>4 DEF AddBalance, NatBalances
<1>9. ASSUME NEW t \in Ahead
      PROVE  PairWorth(from, to, s, t)' = PairWorth(from, to, s, t)
  <2>1. t \in Time /\ t >= timestamp BY AheadRange
  <2>2. /\ balance[from][s] \in Nat /\ balance[to][s] \in Nat
        /\ lock[from][s][t] \in Nat /\ lock[to][s][t] \in Nat
    BY <2>1, HoldingNat
  <2>3. lock'[from][s][t] = lock[from][s][t] - v
    BY <1>2, <1>3, <1>4, <1>5, <2>1, SubTimeLockBalanceAt, SMT
  <2>4. CASE from = to BY <1>1, <1>8, <2>2, <2>3, <2>4, SMT DEF PairWorth, Worth
  <2>5. CASE from # to
    <3>1. lock'[to][s] = lock[to][s] /\ balance'[from][s] = balance[from][s]
      BY <1>7, <1>8, <2>5
    <3> QED BY <1>1, <1>8, <2>2, <2>3, <2>5, <3>1, SMT DEF PairWorth, Worth
  <2> QED BY <2>4, <2>5
<1>10. ASSUME NEW t \in Ahead PROVE PairWorth(from, to, s, t) \in Int
  BY AheadRange, HoldingNat, SMT DEF PairWorth, Worth
<1>11. IsTransfer(from, to, s)
  <2>1. Others(from, to, s) BY <1>7, <1>8 DEF Others
  <2>2. assets'[s].total = assets[s].total /\ assets[s].total \in Int
    BY <1>4 DEF AssetsInv, Asset
  <2> QED BY <1>9, <1>10, <2>1, <2>2, SMT DEF IsTransfer
<1> QED BY <1>4, <1>7, <1>8, <1>11, OneAsset

\* GenAsset, SendAsset and the two changes of the total.
LEMMA BalanceCallTransfer ==
    ASSUME AssetsInv, AssetsInv', NEW from \in Address, NEW to \in Address,
           NEW s \in AssetID, NEW v \in Amount,
           \/ \E canChange \in BOOLEAN : GenAsset(from, s, v, canChange)
           \/ SendAsset(from, to, s, v)
           \/ AssetInc(from, to, s, v)
           \/ AssetDec(from, to, s, v)
    PROVE  \A r \in AssetID : \E a, b \in Address : IsTransfer(a, b, r)
<1>1. v \in Nat BY AccountsAssumption
<1>2. balance \in NatBalances /\ balance' \in NatBalances /\ UNCHANGED lock
  BY DEF AssetsInv, GenAsset, SendAsset, AssetInc, AssetDec
<1>3. assets \in [AssetID -> Asset] /\ assets[s].total \in Int
  BY DEF AssetsInv, Asset
<1>4. \A r \in AssetID \ {s} :
         /\ assets'[r] = assets[r]
         /\ \A c \in Address : balance'[c][r] = balance[c][r] /\ lock'[c][r] = lock[c][r]
  <2>1. \A r \in AssetID \ {s} : assets'[r] = assets[r]
    BY <1>3 DEF GenAsset, SendAsset, AssetInc, AssetDec
  <2>2. balance \in [Address -> [AssetID -> Int]] /\ v \in Int BY <1>1, <1>2, SMT DEF NatBalances
  <2>3. ASSUME NEW r \in AssetID \ {s}, NEW c \in Address
        PROVE  balance'[c][r] = balance[c][r]
    <3>1. \/ balance' = AddBalance(balance, from, s, v)
          \/ balance' = AddBalance(balance, to, s, v)
          \/ balance' = SubBalance(balance, to, s, v)
          \/ balance' = AddBalance(SubBalance(balance, from, s, v), to, s, v)
      BY DEF GenAsset, SendAsset, AssetInc, AssetDec
    <3>2. /\ AddBalance(balance, from, s, v)[c][r] = balance[c][r]
          /\ AddBalance(balance, to, s, v)[c][r] = balance[c][r]
          /\ SubBalance(balance, to, s, v)[c][r] = balance[c][r]
          /\ SubBalance(balance, from, s, v)[c][r] = balance[c][r]
          /\ SubBalance(balance, from, s, v) \in [Address -> [AssetID -> Int]]
      BY <2>2, SMT DEF AddBalance, SubBalance
    <3>3. AddBalance(SubBalance(balance, from, s, v), to, s, v)[c][r] = balance[c][r]
      BY <2>2, <3>2 DEF AddBalance
    <3> QED BY <3>1, <3>2, <3>3
  <2> QED BY <1>2, <2>1, <2>3
<1>5. ASSUME NEW b \in NatBalances, NEW a \in Address
      PROVE  SubBalance(b, a, s, 0) = b /\ AddBalance(b, a, s, 0) = b
  BY SMT DEF SubBalance, AddBalance, NatBalances
<1>6. CASE \E canChange \in BOOLEAN : GenAsset(from, s, v, canChange)
  <2>1. assets[s].total = 0 BY <1>6, SMT DEF GenAsset, AssetsInv, NoAsset
  <2>2. assets'[s].total - assets[s].total = v - 0
    BY <1>1, <1>3, <1>6, <2>1, SMT DEF GenAsset
  <2>3. balance' = AddBalance(SubBalance(balance, from, s, 0), from, s, v)
    BY <1>2, <1>5, <1>6 DEF GenAsset
  <2>4. IsTransfer(from, from, s) BY <1>1, <1>2, <2>2, <2>3, BalanceTransfer
  <2> QED BY <1>4, <2>4, OneAsset
<1>7. CASE SendAsset(from, to, s, v)
  <2>1. assets'[s].total - assets[s].total = v - v BY <1>1, <1>3, <1>7, SMT DEF SendAsset
  <2>2. IsTransfer(from, to, s)
    BY <1>1, <1>2, <1>7, <2>1, BalanceTransfer DEF SendAsset
  <2> QED BY <1>4, <2>2, OneAsset
<1>8. CASE AssetInc(from, to, s, v)
  <2>1. assets'[s].total - assets[s].total = v - 0 BY <1>1, <1>3, <1>8, SMT DEF AssetInc, Asset
  <2>2. balance' = AddBalance(SubBalance(balance, to, s, 0), to, s, v)
    BY <1>2, <1>5, <1>8 DEF AssetInc
  <2>3. IsTransfer(to, to, s) BY <1>1, <1>2, <2>1, <2>2, BalanceTransfer
  <2> QED BY <1>4, <2>3, OneAsset
<1>9. CASE AssetDec(from, to, s, v)
  <2>1. assets'[s].total - assets[s].total = 0 - v BY <1>1, <1>3, <1>9, SMT DEF AssetDec, Asset
  <2>2. balance' = AddBalance(SubBalance(balance, to, s, v), to, s, 0)
    BY <1>2, <1>5, <1>9 DEF AssetDec
  <2>3. IsTransfer(to, to, s) BY <1>1, <1>2, <2>1, <2>2, BalanceTransfer
  <2> QED BY <1>4, <2>3, OneAsset
<1> QED BY <1>6, <1>7, <1>8, <1>9

\* Every call is a transfer for every asset.
LEMMA StepTransfers ==
    ASSUME AssetsInv, AssetsInv', AssetsNext
    PROVE  \A s \in AssetID : \E a, b \in Address : IsTransfer(a, b, s)
<1> DEFINE Transfers == \A s \in AssetID : \E a, b \in Address : IsTransfer(a, b, s)
<1>1. CASE NewBlock /\ UNCHANGED assets
  <2>1. PICK a \in Address : TRUE BY AddressesAssumption
  <2>2. ASSUME NEW s \in AssetID PROVE IsTransfer(a, a, s)
    BY <1>1, UntouchedIsTransfer DEF NewBlock
  <2> QED BY <2>2
<1>2. ASSUME NEW from \in Address, NEW to \in Address, NEW s \in AssetID,
             NEW v \in Amount, TimeLockCall(from, to, s, v)
      PROVE  Transfers
  BY <1>2, AssetToTimeLockTransfer, TimeLockToTimeLockTransfer,
     TimeLockToAssetTransfer DEF TimeLockCall
<1> QED BY <1>1, <1>2, BalanceCallTransfer DEF AssetsNext

\* Every call is a transfer between two accounts: at no instant that no clock
\* has reached do they gain or lose more than the recorded total does.
THEOREM AssetsTransferOnly == AssetsSpec => StepIsTransfer
<1>1. AssetsInv /\ AssetsInv' /\ [AssetsNext]_assetVars
         => [\A s \in AssetID : \E a, b \in Address : IsTransfer(a, b, s)]_assetVars
  BY StepTransfers
<1> QED BY <1>1, AssetsInvHolds, PTL DEF AssetsSpec, StepIsTransfer

\* A fixed asset stays as it was generated.
THEOREM FixedStayFixed == AssetsSpec => FixedAssetsStayFixed
<1> DEFINE Fixed == \A s \in AssetID :
                       assets[s].known /\ ~ assets[s].canChange => assets'[s] = assets[s]
<1>1. AssetsInv /\ [AssetsNext]_assetVars => [Fixed]_assetVars
  <2> SUFFICES ASSUME AssetsInv, AssetsNext PROVE Fixed
    OBVIOUS
  <2> USE DEF AssetsInv
  <2>1. CASE UNCHANGED assets BY <2>1
  <2>2. ASSUME NEW from \in Address, NEW to \in Address, NEW s \in AssetID,
               NEW v \in Amount, NEW canChange \in BOOLEAN,
               \/ GenAsset(from, s, v, canChange)
               \/ AssetInc(from, to, s, v)
               \/ AssetDec(from, to, s, v)
        PROVE  Fixed
    BY <2>2 DEF GenAsset, AssetInc, AssetDec, AssetValueChangeCheck
  <2>3. ASSUME NEW from \in Address, NEW to \in Address, NEW s \in AssetID,
               NEW v \in Amount, SendAsset(from, to, s, v) \/ TimeLockCall(from, to, s, v)
        PROVE  UNCHANGED assets
    BY <2>3 DEF SendAsset, TimeLockCall, AssetToTimeLock, TimeLockToTimeLock, TimeLockToAsset
  <2> QED BY <2>1, <2>2, <2>3, AddressesAssumption DEF AssetsNext
<1> QED BY <1>1, AssetsInvHolds, PTL DEF AssetsSpec, FixedAssetsStayFixed

-----------------------------------------------------------------------------
(* Nothing is made or lost *)

\* A transfer keeps what all accounts can spend equal to the total.
LEMMA TransferConserves ==
    ASSUME AssetsInv, AssetsInv', AssetsConserved, timestamp' >= timestamp,
           \A s \in AssetID : \E a, b \in Address : IsTransfer(a, b, s)
    PROVE  AssetsConserved'
<1> SUFFICES ASSUME NEW s \in AssetID, NEW t \in Ahead'
             PROVE  TotalWorth(s, t)' = assets'[s].total
  BY DEF AssetsConserved
<1> DEFINE f == [a \in Address |-> Worth(a, s, t)]
           g == [a \in Address |-> Worth(a, s, t)']
<1>0. timestamp \in Int /\ timestamp' \in Int /\ ClockLead \in Int
  BY AccountsAssumption, AssetsAssumption, ForeverAssumption, SMT DEF AssetsInv
<1>1. t \in Ahead /\ t \in Time
  <2>1. t \in Time /\ t \in Int /\ t >= timestamp' + ClockLead
    BY ForeverAssumption, SMT DEF Ahead, Time, TimeLockNow
  <2>2. \A i, j, k, l \in Int : j >= i /\ l >= j + k => l >= i + k BY SMT
  <2>3. t >= timestamp + ClockLead BY <1>0, <2>1, <2>2
  <2> QED BY <2>1, <2>3 DEF Ahead
<1>2. PICK a \in Address, b \in Address : IsTransfer(a, b, s) OBVIOUS
<1>3. f \in [Address -> Int]
  BY <1>1, HoldingNat, SMT DEF Worth
<1>4. g \in [Address -> Int]
  BY <1>1, SMT DEF Worth, AssetsInv, NatBalances, NatLocks, NatLock
<1>5. \A c \in Address \ {a, b} : g[c] = f[c]
  BY <1>2 DEF IsTransfer, Others, Worth
<1>6. PairWorth(a, b, s, t)' - PairWorth(a, b, s, t) = assets'[s].total - assets[s].total
  BY <1>1, <1>2 DEF IsTransfer
<1>7. /\ PairWorth(a, b, s, t) = IF a = b THEN f[a] ELSE f[a] + f[b]
      /\ PairWorth(a, b, s, t)' = IF a = b THEN g[a] ELSE g[a] + g[b]
  BY DEF PairWorth
<1>8. TotalWorth(s, t) = SumFunction(f) /\ TotalWorth(s, t)' = SumFunction(g)
  BY DEF TotalWorth
<1>9. TotalWorth(s, t) = assets[s].total BY <1>1 DEF AssetsConserved
<1>10. assets[s].total \in Int /\ assets'[s].total \in Int BY DEF AssetsInv, Asset
<1> HIDE DEF f, g
<1>11. SumFunction(f) \in Int /\ SumFunction(g) \in Int
  BY <1>3, <1>4, SumInt, AddressesAssumption
<1>12. SumFunction(g) - SumFunction(f)
         = IF a = b THEN g[a] - f[a] ELSE g[a] + g[b] - (f[a] + f[b])
  BY <1>3, <1>4, <1>5, SumChangeTwo, AddressesAssumption, SMT
<1>13. f[a] \in Int /\ f[b] \in Int /\ g[a] \in Int /\ g[b] \in Int BY <1>3, <1>4
<1>14. SumFunction(g) - SumFunction(f) = assets'[s].total - assets[s].total
  BY <1>6, <1>7, <1>12, <1>13, SMT
<1> QED BY <1>8, <1>9, <1>10, <1>11, <1>14, SMT

\* Time never goes back.
LEMMA TimeGoesOn ==
    ASSUME AssetsInv, AssetsNext
    PROVE  timestamp' >= timestamp
<1>1. timestamp \in Int BY AccountsAssumption, ForeverAssumption, SMT DEF AssetsInv
<1>2. CASE NewBlock BY <1>1, <1>2, SMT DEF NewBlock
<1>3. ASSUME NEW from \in Address, NEW to \in Address, NEW s \in AssetID, NEW v \in Amount,
             \/ \E canChange \in BOOLEAN : GenAsset(from, s, v, canChange)
             \/ SendAsset(from, to, s, v)
             \/ AssetInc(from, to, s, v)
             \/ AssetDec(from, to, s, v)
             \/ TimeLockCall(from, to, s, v)
      PROVE  timestamp' = timestamp
  BY <1>3 DEF GenAsset, SendAsset, AssetInc, AssetDec, TimeLockCall,
              AssetToTimeLock, TimeLockToTimeLock, TimeLockToAsset
<1>4. timestamp' = timestamp => timestamp' >= timestamp BY <1>1, SMT
<1> QED BY <1>2, <1>3, <1>4, AddressesAssumption DEF AssetsNext

\* The total recorded for an asset is at every instant ahead what all accounts
\* together can spend of it, whatever calls were made.
THEOREM AssetsAlwaysConserved == AssetsSpec => []AssetsConserved
<1>1. AssetsInit => AssetsConserved
  <2> SUFFICES ASSUME AssetsInit, NEW s \in AssetID, NEW t \in Ahead
               PROVE  TotalWorth(s, t) = assets[s].total
    BY DEF AssetsConserved
  <2>1. t \in Time BY DEF Ahead
  <2>2. \A a \in Address : Worth(a, s, t) = Genesis[a][s]
    BY <2>1, AccountsAssumption, SMT DEF Worth, AssetsInit, AccountsInit, NoLock
  <2>3. [a \in Address |-> Worth(a, s, t)] = [a \in Address |-> Genesis[a][s]]
    BY <2>2
  <2> QED BY <2>3, AssetsAssumption DEF TotalWorth, AssetsInit
<1>2. AssetsInv /\ AssetsInv' /\ AssetsConserved /\ [AssetsNext]_assetVars
         => AssetsConserved'
  <2> SUFFICES ASSUME AssetsInv, AssetsInv', AssetsConserved, [AssetsNext]_assetVars
               PROVE  AssetsConserved'
    OBVIOUS
  <2>1. CASE AssetsNext BY <2>1, StepTransfers, TimeGoesOn, TransferConserves
  <2>2. CASE UNCHANGED assetVars
    BY <2>2 DEF assetVars, AssetsConserved, Ahead, TotalWorth, Worth
  <2> QED BY <2>1, <2>2
<1> QED BY <1>1, <1>2, AssetsInvHolds, PTL DEF AssetsSpec

-----------------------------------------------------------------------------
(* Tickets *)

\* The inductive invariant.
TicketsInv ==
    /\ balance \in NatBalances
    /\ lock \in NatLocks
    /\ timestamp \in 0 .. MaxTimestamp
    /\ height \in Nat \ {0} /\ minted \in Nat
    /\ tickets \subseteq Ticket
    /\ \A k \in tickets : k.height <= height
    /\ DrawnTicketsExist

\* It contains the invariants the run checks.
LEMMA TicketsInvImplies == TicketsInv => TicketsTypeOK /\ NonNegative /\ DrawnTicketsExist
<1> SUFFICES ASSUME TicketsInv PROVE TicketsTypeOK /\ NonNegative
  BY DEF TicketsInv
<1>1. TicketsTypeOK
  BY SMT DEF TicketsInv, DrawnTicketsExist, TicketsTypeOK, AccountsTypeOK,
         NatBalances, NatLocks, NatLock
<1>2. NonNegative BY SMT DEF TicketsInv, NonNegative, NatBalances, NatLocks, NatLock
<1> QED BY <1>1, <1>2

\* It holds in the first state (Genesis.ToBlock).
LEMMA InitTicketsInv == TicketsInit => TicketsInv
<1> SUFFICES ASSUME TicketsInit PROVE TicketsInv
  OBVIOUS
<1>1. NoLock \in NatLock BY DEF NoLock, NatLock
<1>2. balance \in NatBalances
  BY AccountsAssumption DEF TicketsInit, AccountsInit, NatBalances
<1>3. lock \in NatLocks BY <1>1 DEF TicketsInit, AccountsInit, NatLocks
<1>4. timestamp \in 0 .. MaxTimestamp
  BY AccountsAssumption, ForeverAssumption, SMT DEF TicketsInit, AccountsInit
<1>5. tickets \subseteq Ticket /\ DrawnTicketsExist /\ \A k \in tickets : k.height <= height
  BY TicketsAssumption, SMT DEF TicketsInit, DrawnTicketsExist, IsInGenesis
<1> QED BY <1>2, <1>3, <1>4, <1>5, SMT DEF TicketsInv, TicketsInit

-----------------------------------------------------------------------------
\* BuyTicketFunc preserves it: the new ticket is the only one of its owner and
\* height.
LEMMA BuyTicketInv ==
    ASSUME TicketsInv, NEW from \in Address, NEW start \in Time, NEW end \in Time,
           BuyTicket(from, start, end)
    PROVE  TicketsInv'
<1> DEFINE s == SystemAssetID
           need == Span(Clip(start), end, TicketPrice)
           useAsset == ~Covers(lock[from][s], Clip(start), end, TicketPrice)
           new == [owner |-> from, height |-> height, number |-> 0,
                   start |-> start, expire |-> end]
<1>1. /\ timestamp \in Int /\ s \in AssetID /\ TicketPrice \in Nat
      /\ end \in Int /\ end <= TimeLockForever /\ start \in Int
      /\ Clip(start) \in Int /\ timestamp <= Clip(start)
  BY AccountsAssumption, TicketsAssumption, ForeverAssumption, SMT
     DEF TicketsInv, Time, TimeLockNow, Clip, Later
<1>2. balance \in NatBalances /\ lock \in NatLocks /\ lock[from][s] \in NatLock
  BY <1>1 DEF TicketsInv, NatLocks
<1>3. ASSUME useAsset PROVE balance' \in NatBalances /\ lock' \in NatLocks
  <2>1. /\ balance[from][s] >= TicketPrice
        /\ balance' = SubBalance(balance, from, s, TicketPrice)
        /\ lock' = AddTimeLockBalance(lock, from, s, Minus(Whole(TicketPrice), need))
    BY <1>3 DEF BuyTicket
  <2>2. Minus(Whole(TicketPrice), need) \in NatLock BY <1>1, SurplusNat DEF Whole
  <2>3. balance' \in NatBalances BY <1>1, <1>2, <2>1, SubBalanceNat
  <2>4. lock' \in NatLocks
    <3> HIDE DEF need, s
    <3> QED BY <1>1, <1>2, <2>1, <2>2, AddTimeLockBalanceNat
  <2> QED BY <2>3, <2>4
<1>4. ASSUME ~useAsset PROVE balance' \in NatBalances /\ lock' \in NatLocks
  <2>1. balance' = balance /\ lock' = SubTimeLockBalance(lock, from, s, need)
    BY <1>4 DEF BuyTicket
  <2>2. Minus(lock[from][s], need) \in NatLock BY <1>1, <1>2, <1>4, MinusNat
  <2>3. lock' \in NatLocks
    <3> HIDE DEF need, s
    <3> QED BY <1>1, <1>2, <2>1, <2>2, SubTimeLockBalanceNat
  <2> QED BY <1>2, <2>1, <2>3
<1>5. balance' \in NatBalances /\ lock' \in NatLocks BY <1>3, <1>4
<1>6. new \in Ticket BY DEF TicketsInv, Ticket
<1>7. tickets' = tickets \cup {new} BY DEF BuyTicket, AddTicket, NewTicket
<1>8. \A k \in tickets : ~(k.owner = from /\ k.height = height)
  BY DEF BuyTicket, IsTicketExist
<1>9. UNCHANGED <<timestamp, height, parentTickets, minted>> BY DEF BuyTicket
<1>10. new.owner = from /\ new.height = height OBVIOUS
<1> HIDE DEF new
<1>11. tickets' \subseteq Ticket /\ DrawnTicketsExist'
  BY <1>6, <1>7, <1>8, <1>9, <1>10, ZenonT(40) DEF TicketsInv, DrawnTicketsExist
<1>12. \A k \in tickets' : k.height <= height'
  BY <1>7, <1>9, <1>10, SMT DEF TicketsInv
<1> QED BY <1>5, <1>9, <1>11, <1>12 DEF TicketsInv

\* DaTong.Finalize preserves it: what is left of the tickets is the next parent
\* set.
LEMMA FinalizeInv ==
    ASSUME TicketsInv, height < MaxHeight, NEW n \in Nat \ {0},
           NEW time \in timestamp + 1 .. MaxTimestamp,
           NEW list \in [1 .. n -> parentTickets], Finalize(list, time)
    PROVE  TicketsInv'
<1>1. timestamp \in Int /\ time \in Int /\ time \in 0 .. MaxTimestamp
  BY AccountsAssumption, ForeverAssumption, SMT DEF TicketsInv
<1>2. Selected(list) \in parentTickets
  <2>1. Cardinality(1 .. n) = n BY FS_Interval, SMT
  <2> QED BY <2>1, SMT DEF Selected
<1>3. parentTickets \subseteq Ticket BY DEF TicketsInv, DrawnTicketsExist
<1>4. ReturnBack(list) \subseteq Ticket
  BY <1>2, <1>3 DEF ReturnBack, Retreat
<1>5. lock' \in NatLocks
  <2>1. ASSUME NEW a \in Address, NEW s \in AssetID, NEW k \in Ticket
        PROVE  Expire(Plus(lock[a][s], Span(k.start, k.expire, TicketPrice)), time) \in NatLock
    <3>1. k.start \in Int /\ k.expire \in Int
      BY ForeverAssumption, SMT DEF Ticket, Time, TimeLockNow
    <3>2. Span(k.start, k.expire, TicketPrice) \in NatLock
      BY <3>1, TicketsAssumption, SpanNat
    <3>3. lock[a][s] \in NatLock BY DEF TicketsInv, NatLocks
    <3> QED BY <1>1, <3>2, <3>3, PlusNat, ExpireNat
  <2>2. ASSUME NEW a \in Address, NEW s \in AssetID
        PROVE  lock'[a][s] \in NatLock
    <3>1. CASE \E k \in ReturnBack(list) : k.owner = a /\ k.expire > time
      <4>1. (CHOOSE k \in ReturnBack(list) : k.owner = a) \in Ticket BY <1>4, <3>1
      <4>2. lock[a][s] \in NatLock BY DEF TicketsInv, NatLocks
      <4> QED BY <2>1, <4>1, <4>2 DEF Finalize, ReturnTicket
    <3>2. CASE ~ \E k \in ReturnBack(list) : k.owner = a /\ k.expire > time
      BY <3>2 DEF Finalize, ReturnTicket, TicketsInv, NatLocks
    <3> QED BY <3>1, <3>2
  <2>3. lock' = [a \in Address |-> [s \in AssetID |-> lock'[a][s]]]
    BY DEF Finalize, ReturnTicket
  <2> QED BY <2>2, <2>3 DEF NatLocks
<1>6. /\ calcRewards(height) \in Nat
      /\ Selected(list).owner \in Address /\ SystemAssetID \in AssetID
  <2>1. height \in 1 .. MaxHeight BY TicketsAssumption, SMT DEF TicketsInv
  <2>2. Selected(list).owner \in Address BY <1>2, <1>3 DEF Ticket
  <2> QED BY <2>1, <2>2, TicketsAssumption, AccountsAssumption
<1>7. balance' \in NatBalances
  BY <1>6, AddBalanceNat DEF Finalize, TicketsInv
<1>8. minted' \in Nat /\ height' \in Nat \ {0} /\ timestamp' \in 0 .. MaxTimestamp
  BY <1>1, <1>6, SMT DEF Finalize, TicketsInv
<1>9. tickets' \subseteq tickets /\ parentTickets' = tickets' /\ tickets' # {}
  BY DEF Finalize, UpdateTickets, ClearExpiredTickets
<1>10. tickets' \subseteq Ticket /\ DrawnTicketsExist'
  BY <1>9 DEF TicketsInv, DrawnTicketsExist
<1>11. \A k \in tickets' : k.height <= height'
  <2>1. height' = height + 1 /\ height \in Nat BY DEF Finalize, TicketsInv
  <2>2. \A k \in tickets : k.height \in Nat /\ k.height <= height BY DEF TicketsInv, Ticket
  <2> QED BY <1>9, <2>1, <2>2, SMT
<1> QED BY <1>5, <1>7, <1>8, <1>10, <1>11 DEF TicketsInv

\* So does every step.
LEMMA StepTicketsInv == TicketsInv /\ [TicketsNext]_ticketVars => TicketsInv'
<1> SUFFICES ASSUME TicketsInv, [TicketsNext]_ticketVars PROVE TicketsInv'
  OBVIOUS
<1>1. CASE UNCHANGED ticketVars
  BY <1>1 DEF ticketVars, stakeVars, TicketsInv, DrawnTicketsExist
<1>2. ASSUME NEW from \in Address, NEW life \in Lives, BuyTicket(from, life[1], life[2])
      PROVE  TicketsInv'
  BY <1>2, TicketsAssumption, BuyTicketInv
<1>3. ASSUME height < MaxHeight, NEW n \in 1 .. Cardinality(Address),
             NEW time \in timestamp + 1 .. MaxTimestamp,
             NEW list \in [1 .. n -> parentTickets], Finalize(list, time)
      PROVE  TicketsInv'
  <2>1. n \in Nat \ {0} BY SMT
  <2> QED BY <1>3, <2>1, FinalizeInv
<1> QED BY <1>1, <1>2, <1>3 DEF TicketsNext

\* So it holds in every state.
LEMMA TicketsInvHolds == TicketsSpec => []TicketsInv
BY InitTicketsInv, StepTicketsInv, PTL DEF TicketsSpec

\* The variables of tickets and blocks keep their types.
THEOREM TicketsTypeCorrect == TicketsSpec => []TicketsTypeOK
BY TicketsInvHolds, TicketsInvImplies, PTL

\* Neither the price of a ticket nor what Finalize does makes an amount negative.
THEOREM TicketsNeverNegative == TicketsSpec => []NonNegative
BY TicketsInvHolds, TicketsInvImplies, PTL

\* Whatever is bought during a block, each ticket its end uses up is there and
\* has an id of its own.
THEOREM DrawnTicketsStay == TicketsSpec => []DrawnTicketsExist
BY TicketsInvHolds, TicketsInvImplies, PTL

-----------------------------------------------------------------------------
(* What everybody has *)

\* The tickets that hold money of account a at instant t.
Held(live, a, t) ==
    {k \in live : k.owner = a /\ ~IsInGenesis(k) /\ k.start <= t /\ t <= k.expire}

\* The stake in them.
LEMMA StakedIsHeld ==
    ASSUME NEW a, NEW t
    PROVE  /\ Staked(a, t) = TicketPrice * Cardinality(Held(tickets, a, t))
           /\ Staked(a, t)' = TicketPrice * Cardinality(Held(tickets', a, t))
BY DEF Staked, Held

\* There are finitely many tickets.
LEMMA TicketsFinite == TicketsSpec => []IsFiniteSet(tickets)
<1>1. TicketsInit => IsFiniteSet(tickets) BY TicketsAssumption DEF TicketsInit
<1>2. IsFiniteSet(tickets) /\ [TicketsNext]_ticketVars => IsFiniteSet(tickets)'
  <2> SUFFICES ASSUME IsFiniteSet(tickets), [TicketsNext]_ticketVars
               PROVE  IsFiniteSet(tickets')
    OBVIOUS
  <2>1. CASE UNCHANGED ticketVars BY <2>1 DEF ticketVars, stakeVars
  <2>2. ASSUME NEW from, NEW start, NEW end, BuyTicket(from, start, end)
        PROVE  IsFiniteSet(tickets')
    <3>1. tickets' = tickets \/ tickets' = tickets \cup {NewTicket(from, start, end)}
      BY <2>2 DEF BuyTicket, AddTicket
    <3> QED BY <3>1, FS_AddElement
  <2>3. ASSUME NEW list, NEW time, Finalize(list, time) PROVE IsFiniteSet(tickets')
    <3>1. tickets' \subseteq tickets
      BY <2>3 DEF Finalize, UpdateTickets, ClearExpiredTickets
    <3> QED BY <3>1, FS_Subset
  <2> QED BY <2>1, <2>2, <2>3 DEF TicketsNext
<1> QED BY <1>1, <1>2, PTL DEF TicketsSpec

\* Amounts of stake are natural numbers.
LEMMA StakedNat ==
    ASSUME NEW live, IsFiniteSet(live), NEW a, NEW t
    PROVE  /\ IsFiniteSet(Held(live, a, t)) /\ Cardinality(Held(live, a, t)) \in Nat
           /\ TicketPrice * Cardinality(Held(live, a, t)) \in Nat
<1>1. IsFiniteSet(Held(live, a, t)) BY FS_Subset DEF Held
<1>2. Cardinality(Held(live, a, t)) \in Nat BY <1>1, FS_CardinalityType
<1>3. \A m, n \in Nat : m * n \in Nat BY SMT
<1> QED BY <1>1, <1>2, <1>3, TicketsAssumption

\* One ticket more or less is its price more or less.
LEMMA OneTicket ==
    ASSUME NEW S, IsFiniteSet(S), NEW k, k \notin S
    PROVE  TicketPrice * Cardinality(S \cup {k}) = TicketPrice * Cardinality(S) + TicketPrice
<1>1. Cardinality(S) \in Nat /\ Cardinality(S \cup {k}) = Cardinality(S) + 1
  BY FS_CardinalityType, FS_AddElement
<1>2. \A m, n \in Nat : m * (n + 1) = m * n + m BY SMT
<1> QED BY <1>1, <1>2, TicketsAssumption

\* What an account has is a natural number.
LEMMA StakeNat ==
    ASSUME TicketsInv, IsFiniteSet(tickets), NEW a \in Address, NEW t \in Time
    PROVE  /\ Worth(a, SystemAssetID, t) \in Nat /\ Staked(a, t) \in Nat
           /\ Stake(a, t) \in Nat
<1>1. Worth(a, SystemAssetID, t) \in Nat
  BY AccountsAssumption, SMT DEF Worth, TicketsInv, NatBalances, NatLocks, NatLock
<1>2. Staked(a, t) \in Nat BY StakedIsHeld, StakedNat, SMT
<1> QED BY <1>1, <1>2, SMT DEF Stake

\* Buying a ticket changes nothing of what anybody has: what the ticket holds is
\* what the account pays, instant by instant.
LEMMA BuyTicketKeeps ==
    ASSUME TicketsInv, IsFiniteSet(tickets), NEW from \in Address, NEW start \in Time,
           NEW end \in Time, BuyTicket(from, start, end),
           NEW a \in Address, NEW t \in timestamp .. TimeLockForever
    PROVE  Stake(a, t)' = Stake(a, t)
<1> DEFINE s == SystemAssetID
           need == Span(Clip(start), end, TicketPrice)
           surplus == Minus(Whole(TicketPrice), need)
           useAsset == ~Covers(lock[from][s], Clip(start), end, TicketPrice)
           new == NewTicket(from, start, end)
           in == start <= t /\ t <= end
<1>1. /\ timestamp \in Int /\ s \in AssetID /\ TicketPrice \in Nat
      /\ end \in Int /\ end <= TimeLockForever /\ start \in Int
      /\ Clip(start) \in Int /\ timestamp <= Clip(start)
      /\ t \in Int /\ t \in Time /\ t >= timestamp /\ t <= TimeLockForever
  BY AccountsAssumption, TicketsAssumption, ForeverAssumption, SMT
     DEF TicketsInv, Time, TimeLockNow, Clip, Later
<1>2. balance \in NatBalances /\ lock \in NatLocks BY DEF TicketsInv
<1>3. need \in NatLock /\ surplus \in NatLock
  BY <1>1, SpanNat, SurplusNat DEF Whole
<1>4. need[t] = IF in THEN TicketPrice ELSE 0
  BY <1>1, SMT DEF Span, Clip, Later
<1>5. surplus[t] = TicketPrice - need[t]
  BY <1>1 DEF Minus, Whole, Span
<1>6. balance[a][s] \in Nat /\ lock[a][s][t] \in Nat
  BY <1>1, <1>2, SMT DEF NatBalances, NatLocks, NatLock
<1>7. Worth(a, s, t)' = Worth(a, s, t) - (IF a = from /\ in THEN TicketPrice ELSE 0)
  <2>1. CASE useAsset
    <3>1. /\ balance' = SubBalance(balance, from, s, TicketPrice)
          /\ lock' = AddTimeLockBalance(lock, from, s, surplus)
      BY <2>1 DEF BuyTicket
    <3>2. balance'[a][s] = balance[a][s] - (IF a = from THEN TicketPrice ELSE 0)
      BY <1>1, <1>2, <1>6, <3>1, SMT DEF SubBalance, NatBalances
    <3> HIDE DEF surplus, need, s, in
    <3>3. lock'[a][s][t] = lock[a][s][t] + (IF a = from THEN surplus[t] ELSE 0)
      BY <1>1, <1>2, <1>3, <1>6, <3>1, AddTimeLockBalanceAt, SMT
    <3> QED BY <1>1, <1>4, <1>5, <1>6, <3>2, <3>3, SMT DEF Worth
  <2>2. CASE ~useAsset
    <3>1. balance' = balance /\ lock' = SubTimeLockBalance(lock, from, s, need)
      BY <2>2 DEF BuyTicket
    <3> HIDE DEF need, s, in
    <3>2. lock'[a][s][t] = lock[a][s][t] - (IF a = from THEN need[t] ELSE 0)
      BY <1>1, <1>2, <1>3, <1>6, <3>1, SubTimeLockBalanceAt, SMT
    <3> QED BY <1>1, <1>4, <1>6, <3>1, <3>2, SMT DEF Worth
  <2> QED BY <2>1, <2>2
<1>8. /\ tickets' = tickets \cup {new} /\ new \notin tickets
      /\ new.owner = from /\ new.start = start /\ new.expire = end /\ ~IsInGenesis(new)
  BY DEF BuyTicket, AddTicket, IsTicketExist, NewTicket, IsInGenesis, TicketsInv
<1> HIDE DEF new
<1>9. Staked(a, t)' = Staked(a, t) + (IF a = from /\ in THEN TicketPrice ELSE 0)
  <2>1. Held(tickets', a, t) = IF a = from /\ in THEN Held(tickets, a, t) \cup {new}
                                                 ELSE Held(tickets, a, t)
    BY <1>8 DEF Held
  <2>2. new \notin Held(tickets, a, t) BY <1>8 DEF Held
  <2>3. IsFiniteSet(Held(tickets, a, t)) /\ TicketPrice * Cardinality(Held(tickets, a, t)) \in Nat
    BY StakedNat
  <2>4. TicketPrice * Cardinality(Held(tickets, a, t) \cup {new})
          = TicketPrice * Cardinality(Held(tickets, a, t)) + TicketPrice
    BY <2>2, <2>3, OneTicket
  <2>5. CASE a = from /\ in BY <2>1, <2>4, <2>5, StakedIsHeld
  <2>6. CASE ~ (a = from /\ in) BY <2>1, <2>3, <2>6, StakedIsHeld, SMT
  <2> QED BY <2>5, <2>6
<1>10. Worth(a, s, t) \in Nat /\ Staked(a, t) \in Nat BY <1>1, StakeNat
<1> HIDE DEF in, s
<1>11. Worth(a, s, t)' + Staked(a, t)' = Worth(a, s, t) + Staked(a, t)
  BY <1>1, <1>7, <1>9, <1>10, SMT
<1> QED BY <1>11 DEF Stake, s

\* The entries of the list have different owners, and the last one is chosen.
LEMMA ListEntries ==
    ASSUME NEW n \in Nat \ {0}, NEW list \in [1 .. n -> parentTickets], IsList(list)
    PROVE  /\ Selected(list) = list[n]
           /\ \A j \in Deleted(list) : j \in parentTickets /\ \E i \in 1 .. n : j = list[i]
           /\ \A j, k \in Deleted(list) : j.owner = k.owner => j = k
           /\ ReturnBack(list) \subseteq Deleted(list)
           /\ \A j \in Deleted(list) : IsInGenesis(j) \/ j \in ReturnBack(list) \/ j = list[1]
<1>1. DOMAIN list = 1 .. n OBVIOUS
<1>2. Selected(list) = list[n] BY <1>1, FS_Interval, SMT DEF Selected
<1>3. \A j \in Deleted(list) : j \in parentTickets /\ \E i \in 1 .. n : j = list[i]
  BY <1>1, <1>2, SMT DEF Deleted, Retreat
<1>4. \A j, k \in Deleted(list) : j.owner = k.owner => j = k
  BY <1>1, <1>3, SMT DEF IsList
<1>5. ReturnBack(list) \subseteq Deleted(list) BY DEF ReturnBack, Deleted
<1>6. \A j \in Deleted(list) : IsInGenesis(j) \/ j \in ReturnBack(list) \/ j = list[1]
  BY DEF ReturnBack, Deleted
<1> QED BY <1>2, <1>3, <1>4, <1>5, <1>6

\* Whose ticket is given back for instant t.
GivenBack(list, time, a, t) ==
    \E k \in ReturnBack(list) : k.owner = a /\ k.expire > time /\ k.start <= t /\ t <= k.expire

\* ReturnTicket adds the price of a ticket to its owner's time lock.
LEMMA ReturnTicketAt ==
    ASSUME TicketsInv, NEW n \in Nat \ {0}, NEW time \in timestamp + 1 .. MaxTimestamp,
           NEW list \in [1 .. n -> parentTickets], Finalize(list, time),
           NEW a \in Address, NEW t \in time .. TimeLockForever
    PROVE  lock'[a][SystemAssetID][t]
             = lock[a][SystemAssetID][t] + (IF GivenBack(list, time, a, t) THEN TicketPrice ELSE 0)
<1> DEFINE s == SystemAssetID
           Back(k) == k.owner = a /\ k.expire > time
<1>1. /\ s \in AssetID /\ time \in Int /\ timestamp \in Int
      /\ t \in Time /\ t \in Int /\ t >= time
  BY AccountsAssumption, ForeverAssumption, SMT DEF TicketsInv, Time, TimeLockNow
<1>2. lock[a][s][t] \in Nat BY <1>1, SMT DEF TicketsInv, NatLocks, NatLock
<1>3. IsList(list) BY DEF Finalize
<1>4. \A j, k \in ReturnBack(list) : j.owner = k.owner => j = k BY <1>3, ListEntries
<1>5. lock' = ReturnTicket(list, time) BY DEF Finalize
<1>6. CASE \E k \in ReturnBack(list) : Back(k)
  <2>1. PICK k \in ReturnBack(list) : Back(k) BY <1>6
  <2>2. (CHOOSE j \in ReturnBack(list) : j.owner = a) = k BY <1>4, <2>1
  <2>3. lock'[a][s] = Expire(Plus(lock[a][s], Span(k.start, k.expire, TicketPrice)), time)
    BY <1>1, <1>5, <2>1, <2>2 DEF ReturnTicket
  <2>4. lock'[a][s][t] = lock[a][s][t] + Span(k.start, k.expire, TicketPrice)[t]
    BY <1>1, <2>3, ExpireKeeps, SMT DEF Plus
  <2>5. Span(k.start, k.expire, TicketPrice)[t]
          = IF k.start <= t /\ t <= k.expire THEN TicketPrice ELSE 0
    BY <1>1 DEF Span
  <2>6. GivenBack(list, time, a, t) <=> k.start <= t /\ t <= k.expire
    BY <1>4, <2>1 DEF GivenBack
  <2> QED BY <2>4, <2>5, <2>6
<1>7. CASE ~ \E k \in ReturnBack(list) : Back(k)
  <2>1. lock'[a][s] = lock[a][s] BY <1>1, <1>5, <1>7 DEF ReturnTicket
  <2>2. ~ GivenBack(list, time, a, t) BY <1>7 DEF GivenBack
  <2> QED BY <1>2, <2>1, <2>2, SMT
<1> QED BY <1>6, <1>7

\* What the end of a block does to what an account has at a later instant: the
\* reward comes, and the price of a ticket used up goes unless it is given back.
LEMMA FinalizeStake ==
    ASSUME TicketsInv, IsFiniteSet(tickets), height < MaxHeight, NEW n \in Nat \ {0},
           NEW time \in timestamp + 1 .. MaxTimestamp,
           NEW list \in [1 .. n -> parentTickets], Finalize(list, time),
           NEW a \in Address, NEW t \in time .. TimeLockForever
    PROVE  LET gone == \E k \in Deleted(list) : k \in Held(tickets, a, t)
           IN  Stake(a, t)' = Stake(a, t)
                                + (IF a = list[n].owner THEN calcRewards(height) ELSE 0)
                                + (IF GivenBack(list, time, a, t) THEN TicketPrice ELSE 0)
                                - (IF gone THEN TicketPrice ELSE 0)
<1> DEFINE s == SystemAssetID
           gone == \E k \in Deleted(list) : k \in Held(tickets, a, t)
           reward == IF a = list[n].owner THEN calcRewards(height) ELSE 0
           back == IF GivenBack(list, time, a, t) THEN TicketPrice ELSE 0
           used == IF gone THEN TicketPrice ELSE 0
<1>1. /\ s \in AssetID /\ time \in Int /\ timestamp \in Int /\ time > timestamp
      /\ t \in Time /\ t \in Int /\ t >= time /\ TicketPrice \in Nat
  BY AccountsAssumption, TicketsAssumption, ForeverAssumption, SMT DEF TicketsInv, Time, TimeLockNow
<1>2. /\ Selected(list) = list[n]
      /\ \A j, k \in Deleted(list) : j.owner = k.owner => j = k
  BY ListEntries DEF Finalize
<1>3. calcRewards(height) \in Nat
  <2>1. height \in 1 .. MaxHeight BY TicketsAssumption, SMT DEF TicketsInv
  <2> QED BY <2>1, TicketsAssumption
<1>4. balance[a][s] \in Nat /\ lock[a][s][t] \in Nat
  BY <1>1, SMT DEF TicketsInv, NatBalances, NatLocks, NatLock
<1>5. balance'[a][s] = balance[a][s] + reward
  <2>1. balance' = AddBalance(balance, list[n].owner, s, calcRewards(height))
    BY <1>2 DEF Finalize
  <2> QED BY <1>1, <1>3, <1>4, <2>1, SMT DEF AddBalance, TicketsInv, NatBalances
<1>6. lock'[a][s][t] = lock[a][s][t] + back BY ReturnTicketAt, SMT
<1>7. Staked(a, t)' = Staked(a, t) - used /\ Staked(a, t) \in Nat
  <2> DEFINE H == Held(tickets, a, t)
             G == Held(tickets', a, t)
  <2>1. G = H \ Deleted(list)
    <3>1. tickets' = {k \in tickets \ Deleted(list) : k.expire > timestamp}
      BY DEF Finalize, UpdateTickets, ClearExpiredTickets
    <3>2. \A k \in tickets : k.expire \in Int BY ForeverAssumption, SMT DEF TicketsInv, Ticket, Time, TimeLockNow
    <3>3. \A k \in tickets : t <= k.expire => k.expire > timestamp BY <1>1, <3>2, SMT
    <3> QED BY <3>1, <3>3 DEF Held
  <2>2. /\ IsFiniteSet(H) /\ TicketPrice * Cardinality(H) \in Nat
        /\ IsFiniteSet(G) /\ TicketPrice * Cardinality(G) \in Nat
    <3>1. tickets' \subseteq tickets BY DEF Finalize, UpdateTickets, ClearExpiredTickets
    <3>2. IsFiniteSet(tickets') BY <3>1, FS_Subset
    <3> QED BY <3>2, StakedNat
  <2>3. CASE ~ gone
    <3>1. G = H BY <2>1, <2>3
    <3> QED BY <2>2, <2>3, <3>1, StakedIsHeld, SMT
  <2>4. CASE gone
    <3>1. PICK k \in Deleted(list) : k \in H BY <2>4
    <3>2. \A j \in H : j.owner = a BY DEF Held
    <3>3. H = G \cup {k} /\ k \notin G BY <1>2, <2>1, <3>1, <3>2, SMT
    <3>4. TicketPrice * Cardinality(H) = TicketPrice * Cardinality(G) + TicketPrice
      BY <2>2, <3>3, OneTicket
    <3>5. TicketPrice * Cardinality(G) = TicketPrice * Cardinality(H) - TicketPrice
      BY <1>1, <2>2, <3>4, SMT
    <3> QED BY <2>2, <2>4, <3>5, StakedIsHeld
  <2> QED BY <2>3, <2>4
<1>8. reward \in Nat /\ back \in Nat /\ used \in Nat BY <1>1, <1>3
<1> HIDE DEF reward, back, used
<1> DEFINE free == balance[a][s]
           locked == lock[a][s][t]
<1>9. Worth(a, s, t)' = Worth(a, s, t) + reward + back /\ Worth(a, s, t) \in Nat
  <2>1. Worth(a, s, t) = free + locked /\ Worth(a, s, t)' = (free + reward) + (locked + back)
    BY <1>5, <1>6 DEF Worth
  <2>2. free \in Nat /\ locked \in Nat BY <1>4
  <2> HIDE DEF free, locked
  <2>3. (free + reward) + (locked + back) = (free + locked) + reward + back
    BY <1>8, <2>2, SMT
  <2>4. free + locked \in Nat BY <2>2, SMT
  <2> QED BY <2>1, <2>3, <2>4
<1>10. Worth(a, s, t)' + Staked(a, t)' = Worth(a, s, t) + Staked(a, t) + reward + back - used
  BY <1>7, <1>8, <1>9, SMT
<1>11. Stake(a, t)' = Stake(a, t) + reward + back - used BY <1>10 DEF Stake, s
<1> QED BY <1>11 DEF reward, back, used

\* Every step keeps, for all but one account, what the account has; that one
\* loses the price of a ticket at the end of a block.
THEOREM StakesAreKept == TicketsSpec => StakeIsKept
<1> DEFINE Loss(a, loser) == IF a = loser /\ height' # height THEN TicketPrice ELSE 0
           Kept(loser) == \A a \in Address : \A t \in timestamp' + 1 .. TimeLockForever :
                             Stake(a, t)' >= Stake(a, t) - Loss(a, loser)
<1>1. ASSUME TicketsInv, IsFiniteSet(tickets), TicketsNext
      PROVE  \E loser \in Address : Kept(loser)
  <2>1. timestamp \in Int /\ timestamp >= 0 /\ MaxTimestamp \in Int /\ TicketPrice \in Nat
    BY <1>1, AccountsAssumption, TicketsAssumption, ForeverAssumption, SMT DEF TicketsInv
  <2>2. ASSUME NEW from \in Address, NEW life \in Lives, BuyTicket(from, life[1], life[2])
        PROVE  \E loser \in Address : Kept(loser)
    <3>1. timestamp' = timestamp /\ height' = height BY <2>2 DEF BuyTicket
    <3>2. life[1] \in Time /\ life[2] \in Time BY TicketsAssumption
    <3>3. ASSUME NEW a \in Address, NEW t \in timestamp' + 1 .. TimeLockForever
          PROVE  Stake(a, t)' >= Stake(a, t) - Loss(a, from)
      <4>1. t \in timestamp .. TimeLockForever /\ t \in Time
        BY <2>1, <3>1, ForeverAssumption, SMT DEF Time, TimeLockNow
      <4>2. Stake(a, t)' = Stake(a, t) BY <1>1, <2>2, <3>2, <4>1, BuyTicketKeeps
      <4>3. Stake(a, t) \in Nat BY <1>1, <4>1, StakeNat
      <4> QED BY <3>1, <4>2, <4>3, SMT
    <3> QED BY <3>3
  <2>3. ASSUME height < MaxHeight, NEW n \in 1 .. Cardinality(Address),
               NEW time \in timestamp + 1 .. MaxTimestamp,
               NEW list \in [1 .. n -> parentTickets], Finalize(list, time)
        PROVE  \E loser \in Address : Kept(loser)
    <3> DEFINE loser == list[1].owner
    <3>1. n \in Nat \ {0} BY SMT
    <3>2. loser \in Address BY <1>1, <3>1, SMT DEF TicketsInv, DrawnTicketsExist, Ticket
    <3>3. timestamp' = time /\ height' = height + 1 /\ height \in Nat /\ IsList(list)
      BY <1>1, <2>3 DEF Finalize, TicketsInv
    <3>4. calcRewards(height) \in Nat
      <4>1. height \in 1 .. MaxHeight BY <1>1, <2>3, TicketsAssumption, SMT DEF TicketsInv
      <4> QED BY <4>1, TicketsAssumption
    <3>5. ASSUME NEW a \in Address, NEW t \in timestamp' + 1 .. TimeLockForever
          PROVE  Stake(a, t)' >= Stake(a, t) - Loss(a, loser)
      <4> DEFINE gone == \E k \in Deleted(list) : k \in Held(tickets, a, t)
                 back == GivenBack(list, time, a, t)
      <4>1. /\ t \in time .. TimeLockForever /\ t \in Time
            /\ t \in Int /\ time \in Int /\ t > time
        BY <2>1, <3>3, ForeverAssumption, SMT DEF Time, TimeLockNow
      <4>2. Stake(a, t) \in Nat BY <1>1, <4>1, StakeNat
      <4>3. Stake(a, t)' = Stake(a, t)
                             + (IF a = list[n].owner THEN calcRewards(height) ELSE 0)
                             + (IF back THEN TicketPrice ELSE 0)
                             - (IF gone THEN TicketPrice ELSE 0)
        BY <1>1, <2>3, <3>1, <4>1, FinalizeStake
      <4>4. gone => back \/ a = loser
        <5> SUFFICES ASSUME NEW k \in Deleted(list), k \in Held(tickets, a, t), a # loser
                     PROVE  back
          OBVIOUS
        <5>1. /\ k \in tickets /\ k.owner = a /\ ~IsInGenesis(k) /\ k.start <= t
              /\ t <= k.expire
          BY DEF Held
        <5>2. k \in ReturnBack(list)
          BY <3>1, <3>3, <5>1, ListEntries
        <5>3. k.expire \in Int
          BY <1>1, <5>1, ForeverAssumption, SMT DEF TicketsInv, Ticket, Time, TimeLockNow
        <5>4. k.expire > time BY <4>1, <5>1, <5>3, SMT
        <5> QED BY <5>1, <5>2, <5>4 DEF GivenBack
      <4>5. Loss(a, loser) = IF a = loser THEN TicketPrice ELSE 0 BY <3>3, SMT
      <4> HIDE DEF gone, back, loser, Loss
      <4> QED BY <2>1, <3>4, <4>2, <4>3, <4>4, <4>5, SMT
    <3> HIDE DEF loser
    <3> QED BY <3>2, <3>5
  <2> QED BY <1>1, <2>2, <2>3 DEF TicketsNext
<1>2. TicketsInv /\ IsFiniteSet(tickets) /\ [TicketsNext]_ticketVars
        => [\E loser \in Address : Kept(loser)]_ticketVars
  BY <1>1
<1>3. [][\E loser \in Address : Kept(loser)]_ticketVars <=> StakeIsKept
  BY DEF StakeIsKept
<1> QED BY <1>2, <1>3, TicketsInvHolds, TicketsFinite, PTL DEF TicketsSpec

\* What all accounts have: the sum is an integer.
LEMMA StakeSum ==
    ASSUME TicketsInv, IsFiniteSet(tickets), NEW t \in Time
    PROVE  /\ [a \in Address |-> Stake(a, t)] \in [Address -> Int]
           /\ SumFunction([a \in Address |-> Stake(a, t)]) \in Int
<1> DEFINE f == [a \in Address |-> Stake(a, t)]
<1>1. f \in [Address -> Int] BY StakeNat, SMT
<1> HIDE DEF f
<1>2. SumFunction(f) \in Int BY <1>1, SumInt, AddressesAssumption
<1> QED BY <1>1, <1>2 DEF f

\* The end of a block issues no more than the reward.
LEMMA FinalizeIssues ==
    ASSUME TicketsInv, TicketsInv', IsFiniteSet(tickets), IsFiniteSet(tickets'),
           NoInflation, height < MaxHeight, NEW n \in Nat \ {0},
           NEW time \in timestamp + 1 .. MaxTimestamp,
           NEW list \in [1 .. n -> parentTickets], Finalize(list, time)
    PROVE  NoInflation'
<1>1. /\ timestamp \in Int /\ timestamp >= 0 /\ MaxTimestamp \in Int /\ TicketPrice \in Nat
      /\ timestamp' = time /\ IsList(list)
  BY AccountsAssumption, TicketsAssumption, ForeverAssumption, SMT DEF TicketsInv, Finalize
<1>2. calcRewards(height) \in Nat
  <2>1. height \in 1 .. MaxHeight BY TicketsAssumption, SMT DEF TicketsInv
  <2> QED BY <2>1, TicketsAssumption
<1> SUFFICES ASSUME NEW t \in time .. TimeLockForever
             PROVE  SumFunction([a \in Address |-> Stake(a, t)'])
                      <= SumFunction([a \in Address |-> Genesis[a][SystemAssetID]]) + minted'
  BY <1>1 DEF NoInflation, Issued
<1> DEFINE w == list[n].owner
           r == calcRewards(height)
           f == [a \in Address |-> Stake(a, t)]
           g == [a \in Address |-> Stake(a, t)']
           h == [f EXCEPT ![w] = f[w] + r]
           G == SumFunction([a \in Address |-> Genesis[a][SystemAssetID]])
<1>3. w \in Address BY SMT DEF TicketsInv, DrawnTicketsExist, Ticket
<1>4. t \in Time /\ t \in timestamp .. TimeLockForever
  BY <1>1, ForeverAssumption, SMT DEF Time, TimeLockNow
<1>5. f \in [Address -> Int] /\ SumFunction(f) \in Int BY <1>4, StakeSum
<1>6. \A a \in Address : g[a] \in Int /\ g[a] <= h[a]
  <2> SUFFICES ASSUME NEW a \in Address PROVE g[a] \in Int /\ g[a] <= h[a]
    OBVIOUS
  <2> DEFINE gone == \E k \in Deleted(list) : k \in Held(tickets, a, t)
             back == GivenBack(list, time, a, t)
  <2>1. g[a] = f[a] + (IF a = w THEN r ELSE 0) + (IF back THEN TicketPrice ELSE 0)
                    - (IF gone THEN TicketPrice ELSE 0)
    BY FinalizeStake
  <2>2. back => gone
    <3> SUFFICES ASSUME back PROVE gone  OBVIOUS
    <3>1. PICK k \in ReturnBack(list) : k.owner = a /\ k.expire > time /\ k.start <= t /\ t <= k.expire
      BY DEF GivenBack
    <3>2. k \in Deleted(list) /\ k \in parentTickets
      <4>1. /\ \A j \in Deleted(list) : j \in parentTickets
            /\ ReturnBack(list) \subseteq Deleted(list)
        BY <1>1, ListEntries
      <4> QED BY <3>1, <4>1
    <3>3. ~IsInGenesis(k) BY <3>1 DEF ReturnBack
    <3>4. k \in tickets BY <3>2 DEF TicketsInv, DrawnTicketsExist
    <3> QED BY <3>1, <3>2, <3>3, <3>4 DEF Held
  <2>3. h[a] = f[a] + (IF a = w THEN r ELSE 0) /\ f[a] \in Int
    <3> HIDE DEF f
    <3> QED BY <1>2, <1>3, <1>5, SMT
  <2> HIDE DEF f, g, h, w, r, gone, back
  <2> QED BY <1>1, <1>2, <2>1, <2>2, <2>3, SMT DEF r
<1>7. g \in [Address -> Int] BY <1>6
<1>8. minted' = minted + r /\ minted \in Nat BY DEF Finalize, TicketsInv
<1>9. SumFunction(f) <= G + minted BY <1>4 DEF NoInflation, Issued
<1>10. G \in Int
  <2> DEFINE e == [a \in Address |-> Genesis[a][SystemAssetID]]
  <2>1. e \in [Address -> Int] BY AccountsAssumption, SMT
  <2> HIDE DEF e
  <2>2. SumFunction(e) \in Int BY <2>1, SumInt, AddressesAssumption
  <2> QED BY <2>2 DEF e
<1> HIDE DEF f, g, r, w, G
<1>11. h \in [Address -> Int] /\ h[w] = f[w] + r /\ \A x \in Address \ {w} : h[x] = f[x]
  BY <1>2, <1>3, <1>5, SMT DEF r
<1> HIDE DEF h
<1>12. SumFunction(h) = SumFunction(f) + h[w] - f[w]
  <2>1. IsFiniteSet(Address) /\ f \in [Address -> Int] /\ h \in [Address -> Int]
    BY <1>5, <1>11, AddressesAssumption
  <2>2. \A x \in Address \ {w} : h[x] = f[x] BY <1>11
  <2> QED BY <1>3, <2>1, <2>2, SumChange, SMT
<1>13. SumFunction(g) <= SumFunction(h) BY <1>6, <1>7, <1>11, SumLeq, AddressesAssumption
<1>14. SumFunction(g) \in Int /\ SumFunction(h) \in Int /\ f[w] \in Int /\ r \in Nat
  BY <1>2, <1>3, <1>5, <1>7, <1>11, SumInt, AddressesAssumption DEF r
<1>15. SumFunction(g) <= G + minted'
  BY <1>5, <1>8, <1>9, <1>10, <1>11, <1>12, <1>13, <1>14, SMT
<1> QED BY <1>15 DEF g, G

\* At every instant still ahead, all balances, time locks and tickets together
\* are covered by what genesis and the rewards have issued.
THEOREM NothingInflated == TicketsSpec => []NoInflation
<1> DEFINE Inv == TicketsInv /\ IsFiniteSet(tickets)
<1>1. TicketsInit => NoInflation
  <2> SUFFICES ASSUME TicketsInit, NEW t \in timestamp .. TimeLockForever
               PROVE  SumFunction([a \in Address |-> Stake(a, t)]) <= Issued
    BY DEF NoInflation
  <2>1. t \in Time
    BY ForeverAssumption DEF TicketsInit, AccountsInit, Time, TimeLockNow
  <2>2. \A a \in Address : Worth(a, SystemAssetID, t) = Genesis[a][SystemAssetID]
    BY <2>1, AccountsAssumption, SMT DEF Worth, TicketsInit, AccountsInit, NoLock
  <2>3. \A a \in Address : Staked(a, t) = 0
    <3>1. \A a \in Address : Held(tickets, a, t) = {}
      BY TicketsAssumption DEF Held, TicketsInit
    <3>2. TicketPrice * Cardinality({}) = 0 BY FS_EmptySet, TicketsAssumption, SMT
    <3> QED BY <3>1, <3>2, StakedIsHeld
  <2>4. \A a \in Address : Genesis[a][SystemAssetID] \in Int BY AccountsAssumption, SMT
  <2>5. [a \in Address |-> Stake(a, t)] = [a \in Address |-> Genesis[a][SystemAssetID]]
    BY <2>2, <2>3, <2>4, SMT DEF Stake
  <2> DEFINE e == [a \in Address |-> Genesis[a][SystemAssetID]]
  <2>6. e \in [Address -> Int] BY <2>4
  <2>7. minted = 0 BY DEF TicketsInit
  <2>8. Issued = SumFunction(e) + minted BY DEF Issued
  <2> HIDE DEF e
  <2>9. SumFunction(e) \in Int BY <2>6, SumInt, AddressesAssumption
  <2>10. SumFunction(e) <= Issued BY <2>7, <2>8, <2>9, SMT
  <2> QED BY <2>5, <2>10 DEF e
<1>2. Inv /\ Inv' /\ NoInflation /\ [TicketsNext]_ticketVars => NoInflation'
  <2> SUFFICES ASSUME Inv, Inv', NoInflation, [TicketsNext]_ticketVars
               PROVE  NoInflation'
    OBVIOUS
  <2>1. CASE UNCHANGED ticketVars
    BY <2>1 DEF ticketVars, stakeVars, NoInflation, Stake, Worth, Staked, Issued
  <2>2. ASSUME NEW from \in Address, NEW life \in Lives, BuyTicket(from, life[1], life[2])
        PROVE  NoInflation'
    <3>1. timestamp' = timestamp /\ minted' = minted BY <2>2 DEF BuyTicket
    <3>2. life[1] \in Time /\ life[2] \in Time BY TicketsAssumption
    <3>3. \A t \in timestamp .. TimeLockForever : \A a \in Address : Stake(a, t)' = Stake(a, t)
      BY <2>2, <3>2, BuyTicketKeeps
    <3>4. ASSUME NEW t \in timestamp .. TimeLockForever
          PROVE  [a \in Address |-> Stake(a, t)'] = [a \in Address |-> Stake(a, t)]
      BY <3>3
    <3>5. ASSUME NEW t \in timestamp .. TimeLockForever
          PROVE  SumFunction([a \in Address |-> Stake(a, t)'])
                   = SumFunction([a \in Address |-> Stake(a, t)])
      BY <3>4
    <3>6. Issued' = Issued BY <3>1 DEF Issued
    <3> QED BY <3>1, <3>5, <3>6 DEF NoInflation
  <2>3. ASSUME height < MaxHeight, NEW n \in 1 .. Cardinality(Address),
               NEW time \in timestamp + 1 .. MaxTimestamp,
               NEW list \in [1 .. n -> parentTickets], Finalize(list, time)
        PROVE  NoInflation'
    <3>1. n \in Nat \ {0} BY SMT
    <3> QED BY <2>3, <3>1, FinalizeIssues
  <2> QED BY <2>1, <2>2, <2>3 DEF TicketsNext
<1> QED BY <1>1, <1>2, TicketsInvHolds, TicketsFinite, PTL DEF TicketsSpec
=============================================================================
