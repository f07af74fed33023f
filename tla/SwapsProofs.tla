----------------------------- MODULE SwapsProofs -----------------------------
(***************************************************************************)
(* Making, taking and recalling swaps keeps every balance and time lock    *)
(* from going negative and every notation with its owner, for every set of *)
(* accounts, assets, swaps and terms.  Nothing is made or lost: at every   *)
(* instant still ahead the accounts and the escrows together hold the      *)
(* total recorded for an asset, and a maker whose lots go has got the      *)
(* price of them, or the lots.                                             *)
(***************************************************************************)
EXTENDS Swaps, AccountsProofs

\* Leaves are for Zenon; those with arithmetic or sequences say SMT.
USE Zenon

\* The inductive invariant: the types with natural amounts, the owner of a live
\* swap an account and its price in an asset, and the two facts about notations.
AmountsInv ==
    /\ balance \in NatBalances
    /\ lock \in NatLocks
    /\ timestamp \in 0 .. MaxTimestamp

SwapsInv ==
    /\ AmountsInv
    /\ assets \in [AssetID -> Asset]
    /\ swaps \in [SwapID -> Swap]
    /\ \A id \in SwapID : swaps[id].status = "live" =>
          swaps[id].owner \in Address /\ swaps[id].terms.toAsset \in AssetID

NotationInv == NotationTypeOK /\ NotationOwned /\ NextIsNew

-----------------------------------------------------------------------------
(* Notations *)

\* Different notations are displayed differently: there are only two check
\* digits.
LEMMA DisplayInjective ==
    ASSUME NEW m \in 1 .. MaxNotation, NEW n \in 1 .. MaxNotation,
           calcNotationDisplay(m) = calcNotationDisplay(n)
    PROVE  m = n
<1>1. m \in Nat /\ n \in Nat BY NotationAssumption, SMT
<1>2. PICK c \in 0 .. 99 : c = checkDigits(m) BY NotationAssumption
<1>3. PICK d \in 0 .. 99 : d = checkDigits(n) BY NotationAssumption
<1>4. m * 100 + c = n * 100 + d
  BY <1>1, <1>2, <1>3, SMT DEF calcNotationDisplay
<1> QED BY <1>1, <1>4, SMT

\* The next notation is one that can be displayed, and is not 0.
LEMMA DisplayedType ==
    ASSUME NEW n \in 1 .. MaxNotation
    PROVE  /\ calcNotationDisplay(n) \in Displayed
           /\ calcNotationDisplay(n) \in Nat \ {0}
<1>1. calcNotationDisplay(n) \in Displayed BY DEF Displayed
<1>2. calcNotationDisplay(n) \in Nat \ {0}
  BY NotationAssumption, SMT DEF calcNotationDisplay
<1> QED BY <1>1, <1>2

\* Displayed notations are numbers.
LEMMA DisplayedNat == ASSUME NEW n \in Displayed PROVE n \in Nat
BY DisplayedType DEF Displayed

\* The facts about notations hold when none is given out.
LEMMA InitNotationInv == NotationInit => NotationInv
<1> SUFFICES ASSUME NotationInit PROVE NotationInv
  OBVIOUS
<1>1. NotationTypeOK BY NotationAssumption, SMT DEF NotationInit, NotationTypeOK
<1>2. NotationOwned BY DEF NotationInit, NotationOwned
<1>3. NextIsNew BY DisplayedType, SMT DEF NotationInit, NextIsNew
<1> QED BY <1>1, <1>2, <1>3 DEF NotationInv

\* GenNotation preserves them: the table entry it writes is a new one.
LEMMA GenNotationInv ==
    ASSUME NotationInv, NEW a \in Address, GenNotation(a)
    PROVE  NotationInv'
<1> DEFINE n == calcNotationDisplay(count + 1)
<1>1. count \in Nat /\ count + 1 \in 1 .. MaxNotation
  BY NotationAssumption, SMT DEF NotationInv, NotationTypeOK, GenNotation
<1>2. n \in Displayed /\ n \in Nat \ {0} BY <1>1, DisplayedType
<1>3. /\ notation \in [Address -> Displayed \cup {0}]
      /\ lookup \in [Displayed -> Address \cup {Nobody, Unset}]
  BY DEF NotationInv, NotationTypeOK
<1>4. /\ count' = count + 1
      /\ lookup' = [lookup EXCEPT ![n] = a]
      /\ notation' = [notation EXCEPT ![a] = n]
  BY DEF GenNotation
<1>5. lookup[n] = Unset
  BY <1>1, NotationAssumption, SMT DEF NotationInv, NextIsNew
<1> HIDE DEF n
<1>6. NotationTypeOK' BY <1>1, <1>2, <1>3, <1>4, SMT DEF NotationTypeOK
<1>7. NotationOwned'
  <2> SUFFICES ASSUME NEW b \in Address, notation'[b] # 0
               PROVE  lookup'[notation'[b]] = b
    BY DEF NotationOwned
  <2>1. CASE b = a BY <1>2, <1>3, <1>4, <2>1
  <2>2. CASE b # a
    <3>1. notation'[b] = notation[b] /\ notation[b] \in Displayed
      BY <1>3, <1>4, <2>2
    <3>2. lookup[notation[b]] = b BY <3>1 DEF NotationInv, NotationOwned
    <3>3. notation[b] # n BY <1>5, <3>2, NotationAssumption
    <3> QED BY <1>3, <1>4, <3>1, <3>2, <3>3
  <2> QED BY <2>1, <2>2
<1>8. NextIsNew'
  <2> SUFFICES ASSUME NEW m \in 1 .. MaxNotation
               PROVE  lookup'[calcNotationDisplay(m)] # Unset <=> m <= count'
    BY DEF NextIsNew
  <2>1. calcNotationDisplay(m) \in Displayed BY DisplayedType
  <2>2. CASE m = count + 1
    BY <1>1, <1>3, <1>4, <2>1, <2>2, NotationAssumption, SMT DEF n
  <2>3. CASE m # count + 1
    <3>1. calcNotationDisplay(m) # n BY <1>1, <2>3, DisplayInjective DEF n
    <3>2. lookup[calcNotationDisplay(m)] # Unset <=> m <= count
      BY DEF NotationInv, NextIsNew
    <3>3. lookup'[calcNotationDisplay(m)] = lookup[calcNotationDisplay(m)]
      BY <1>3, <1>4, <2>1, <3>1
    <3>4. m <= count <=> m <= count + 1 BY <1>1, <2>3, SMT
    <3> QED BY <1>4, <3>2, <3>3, <3>4
  <2> QED BY <2>2, <2>3
<1> QED BY <1>6, <1>7, <1>8 DEF NotationInv

\* TransferNotation preserves them, also when both accounts are the same.
LEMMA TransferNotationInv ==
    ASSUME NotationInv, NEW owner \in Address, NEW to \in Address, NEW n,
           n = notation[owner], n # 0,
           lookup' = TransferredLookup(n, to),
           notation' = TransferredNotation(n, owner, to),
           UNCHANGED count
    PROVE  NotationInv'
<1>1. /\ notation \in [Address -> Displayed \cup {0}]
      /\ lookup \in [Displayed -> Address \cup {Nobody, Unset}]
      /\ count \in 0 .. MaxNotation
  BY DEF NotationInv, NotationTypeOK
<1>2. n \in Displayed /\ lookup[n] = owner
  BY <1>1 DEF NotationInv, NotationOwned
<1>3. \A m \in Displayed :
         lookup'[m] = IF m = n THEN to
                      ELSE IF notation[to] # 0 /\ m = notation[to] THEN Nobody ELSE lookup[m]
  BY <1>2 DEF TransferredLookup
<1>4. \A b \in Address :
         notation'[b] = IF b = owner THEN 0 ELSE IF b = to THEN n ELSE notation[b]
  BY <1>1 DEF TransferredNotation
<1>5. NotationTypeOK'
  <2>1. lookup' \in [Displayed -> Address \cup {Nobody, Unset}]
    BY <1>1, <1>2 DEF TransferredLookup
  <2>2. notation' \in [Address -> Displayed \cup {0}]
    BY <1>1, <1>2 DEF TransferredNotation
  <2> QED BY <1>1, <2>1, <2>2 DEF NotationTypeOK
<1>6. NotationOwned'
  <2> SUFFICES ASSUME NEW b \in Address, notation'[b] # 0
               PROVE  lookup'[notation'[b]] = b
    BY DEF NotationOwned
  <2>1. b # owner BY <1>4
  <2>2. CASE b = to BY <1>2, <1>3, <1>4, <2>1, <2>2
  <2>3. CASE b # to
    <3>1. notation'[b] = notation[b] /\ notation[b] # 0 BY <1>4, <2>1, <2>3
    <3>2. notation[b] \in Displayed /\ lookup[notation[b]] = b
      BY <1>1, <3>1 DEF NotationInv, NotationOwned
    <3>3. notation[b] # n BY <1>2, <2>1, <3>2
    <3>4. notation[to] # 0 => lookup[notation[to]] = to BY DEF NotationInv, NotationOwned
    <3>5. ~(notation[to] # 0 /\ notation[b] = notation[to]) BY <2>3, <3>2, <3>4
    <3> QED BY <1>3, <3>1, <3>2, <3>3, <3>5
  <2> QED BY <2>2, <2>3
<1>7. NextIsNew'
  <2> SUFFICES ASSUME NEW m \in Displayed
               PROVE  lookup'[m] # Unset <=> lookup[m] # Unset
    BY DisplayedType DEF NotationInv, NextIsNew
  <2>1. notation[to] # 0 => lookup[notation[to]] = to BY DEF NotationInv, NotationOwned
  <2> QED BY <1>2, <1>3, <2>1, NotationAssumption
<1> QED BY <1>5, <1>6, <1>7 DEF NotationInv

-----------------------------------------------------------------------------
(* Amounts *)

\* Products of amounts and sizes are natural numbers.
LEMMA TimesNat == ASSUME NEW m \in Nat, NEW n \in Nat PROVE m * n \in Nat
BY SMT

\* A clipped start is an instant that has not passed.
LEMMA ClipTime ==
    ASSUME AmountsInv, NEW start \in Time
    PROVE  Clip(start) \in Time /\ Clip(start) \in Int /\ Clip(start) >= timestamp
BY AccountsAssumption, ForeverAssumption, SMT
   DEF Clip, Later, Time, TimeLockNow, AmountsInv

\* Instants are bounded by the end of time.
LEMMA TimeInt == ASSUME NEW t \in Time PROVE t \in Int /\ t <= TimeLockForever
BY ForeverAssumption, SMT DEF Time, TimeLockNow

\* What has to be paid is a lock of natural values.
LEMMA NeedNat ==
    ASSUME AmountsInv, NEW start \in Time, NEW end \in Time, NEW v \in Nat
    PROVE  Need(start, end, v) \in NatLock
<1>1. NoLock \in NatLock BY DEF NoLock, NatLock
<1>2. Span(Clip(start), end, v) \in NatLock BY ClipTime, TimeInt, SpanNat
<1> QED BY <1>1, <1>2 DEF Need

\* Free balance is turned into a time lock only where it suffices, and then the
\* time lock covers the payment.
LEMMA Topped ==
    ASSUME AmountsInv, NEW a \in Address, NEW s \in AssetID, NEW start \in Time,
           NEW end \in Time, NEW v \in Nat, NEW ext,
           CanPay(a, s, start, end, v, ext)
    PROVE  /\ ToppedBalance(a, s, start, end, v) \in NatBalances
           /\ ToppedLock(a, s, start, end, v) \in NatLocks
           /\ UseAsset(start, end) => /\ ToppedBalance(a, s, start, end, v) = balance
                                      /\ balance[a][s] >= v
           /\ ~ UseAsset(start, end) /\ SpanIsValid(Clip(start), end, v)
                 => Covers(ToppedLock(a, s, start, end, v)[a][s], Clip(start), end, v)
<1>1. balance \in NatBalances /\ lock \in NatLocks /\ timestamp \in Int
  BY AccountsAssumption, SMT DEF AmountsInv
<1>2. Whole(v) \in NatLock BY <1>1, ForeverAssumption, SpanNat, SMT DEF Whole
<1>3. CASE ~ Short(a, s, start, end, v)
  BY <1>1, <1>3 DEF ToppedBalance, ToppedLock, Short, CanPay
<1>4. CASE Short(a, s, start, end, v)
  <2> DEFINE l == AddTimeLockBalance(lock, a, s, Whole(v))
  <2>1. balance[a][s] >= v /\ ~ UseAsset(start, end) /\ SpanIsValid(Clip(start), end, v)
    BY <1>4 DEF CanPay, Short
  <2>2. SubBalance(balance, a, s, v) \in NatBalances BY <1>1, <2>1, SubBalanceNat
  <2>3. l \in NatLocks BY <1>1, <1>2, AddTimeLockBalanceNat
  <2>4. ASSUME NEW t \in Clip(start) .. end PROVE l[a][s][t] >= v
    <3>1. t \in Time /\ t \in Int /\ t >= timestamp /\ t <= TimeLockForever
      BY <1>1, ClipTime, TimeInt, ForeverAssumption, SMT DEF Time, TimeLockNow
    <3>2. l[a][s][t] = lock[a][s][t] + Whole(v)[t]
      BY <1>1, <1>2, <3>1, AddTimeLockBalanceAt, SMT
    <3>3. Whole(v)[t] = v BY <3>1 DEF Whole, Span
    <3>4. lock[a][s][t] \in Nat BY <1>1, <3>1, SMT DEF NatLocks, NatLock
    <3> QED BY <3>2, <3>3, <3>4, SMT
  <2>5. Covers(l[a][s], Clip(start), end, v) BY <2>1, <2>4 DEF Covers
  <2> QED BY <1>4, <2>1, <2>2, <2>3, <2>5 DEF ToppedBalance, ToppedLock
<1> QED BY <1>3, <1>4

\* A covered amount is taken from a time lock.
LEMMA TakeCovered ==
    ASSUME AmountsInv, NEW l \in NatLocks, NEW a \in Address, NEW s \in AssetID,
           NEW start \in Time, NEW end \in Time, NEW v \in Nat,
           SpanIsValid(Clip(start), end, v) => Covers(l[a][s], Clip(start), end, v)
    PROVE  SubTimeLockBalance(l, a, s, Need(start, end, v)) \in NatLocks
<1>1. CASE SpanIsValid(Clip(start), end, v)
  <2>1. l[a][s] \in NatLock /\ timestamp \in Int
    BY AccountsAssumption, SMT DEF NatLocks, AmountsInv
  <2>2. Minus(l[a][s], Span(Clip(start), end, v)) \in NatLock
    BY <1>1, <2>1, ClipTime, TimeInt, MinusNat
  <2>3. Need(start, end, v) = Span(Clip(start), end, v) BY <1>1 DEF Need
  <2> QED BY <2>1, <2>2, <2>3, SubTimeLockBalanceNat
<1>2. CASE ~ SpanIsValid(Clip(start), end, v)
  BY <1>2 DEF Need, SubTimeLockBalance
<1> QED BY <1>1, <1>2

\* Paying the price keeps amounts natural, also when the taker is the owner.
LEMMA PaidNat ==
    ASSUME AmountsInv, NEW b \in NatBalances, NEW l \in NatLocks, NEW from \in Address,
           NEW owner \in Address, NEW o \in Terms, o.toAsset \in AssetID, NEW v \in Nat,
           UseAsset(o.toStart, o.toEnd) => b[from][o.toAsset] >= v,
           ~ UseAsset(o.toStart, o.toEnd) /\ SpanIsValid(Clip(o.toStart), o.toEnd, v)
              => Covers(l[from][o.toAsset], Clip(o.toStart), o.toEnd, v)
    PROVE  /\ PaidBalance(b, from, owner, o, v) \in NatBalances
           /\ PaidLock(l, from, owner, o, v) \in NatLocks
<1> DEFINE s == o.toAsset
           need == Need(o.toStart, o.toEnd, v)
           c == AddBalance(b, owner, s, v)
           m == AddTimeLockBalance(l, owner, s, need)
<1>1. timestamp \in Int /\ o.toStart \in Time /\ o.toEnd \in Time
  BY AccountsAssumption, SMT DEF AmountsInv, Terms
<1>2. need \in NatLock BY <1>1, NeedNat
<1>3. CASE UseAsset(o.toStart, o.toEnd)
  <2>1. c \in NatBalances BY AddBalanceNat
  <2>2. c[from][s] >= v
    BY <1>3, SMT DEF AddBalance, NatBalances
  <2>3. SubBalance(c, from, s, v) \in NatBalances BY <2>1, <2>2, SubBalanceNat
  <2> QED BY <1>3, <2>3 DEF PaidBalance, PaidLock
<1>4. CASE ~ UseAsset(o.toStart, o.toEnd)
  <2> HIDE DEF need
  <2>1. m \in NatLocks BY <1>1, <1>2, AddTimeLockBalanceNat
  <2>2. ASSUME SpanIsValid(Clip(o.toStart), o.toEnd, v)
        PROVE  Covers(m[from][s], Clip(o.toStart), o.toEnd, v)
    <3> SUFFICES ASSUME NEW t \in Clip(o.toStart) .. o.toEnd PROVE m[from][s][t] >= v
      BY <2>2 DEF Covers
    <3>1. t \in Time /\ t >= timestamp
      BY <1>1, ClipTime, TimeInt, ForeverAssumption, SMT DEF Time, TimeLockNow
    <3>2. l[from][s][t] \in Nat /\ l[from][s][t] >= v
      BY <1>4, <2>2, <3>1, SMT DEF Covers, NatLocks, NatLock
    <3>3. need[t] \in Nat BY <1>2, <3>1 DEF NatLock
    <3>4. CASE from = owner
      <4>1. m[from][s][t] = l[from][s][t] + need[t]
        BY <1>2, <3>1, <3>4, AddTimeLockBalanceAt, SMT
      <4> QED BY <3>2, <3>3, <4>1, SMT
    <3>5. CASE from # owner
      <4>1. m[from][s] = l[from][s] BY <1>2, <3>1, <3>5, AddTimeLockBalanceAt, ZenonT(40)
      <4> QED BY <3>2, <4>1
    <3> QED BY <3>4, <3>5
  <2> HIDE DEF m
  <2>3. SubTimeLockBalance(m, from, s, Need(o.toStart, o.toEnd, v)) \in NatLocks
    BY <1>1, <2>1, <2>2, TakeCovered
  <2> QED BY <1>4, <2>3 DEF PaidBalance, PaidLock, m, need
<1> QED BY <1>3, <1>4

\* So does paying out of escrow.
LEMMA CreditNat ==
    ASSUME AmountsInv, NEW b \in NatBalances, NEW l \in NatLocks, NEW a \in Address,
           NEW o \in Terms, ~ IsUSAN(o), NEW v \in Nat
    PROVE  /\ CreditBalance(b, a, o, v) \in NatBalances
           /\ CreditLock(l, a, o, v) \in NatLocks
<1>1. /\ timestamp \in Int /\ o.fromStart \in Time /\ o.fromEnd \in Time
      /\ o.fromAsset \in AssetID
  BY AccountsAssumption, SMT DEF AmountsInv, Terms, IsUSAN
<1>2. Need(o.fromStart, o.fromEnd, v) \in NatLock BY <1>1, NeedNat
<1> QED BY <1>1, <1>2, AddBalanceNat, AddTimeLockBalanceNat DEF CreditBalance, CreditLock

\* The price is a payment the checks of TakeSwap have covered.
LEMMA PriceNat ==
    ASSUME AmountsInv, SwapsInv, NEW from \in Address, NEW id \in SwapID,
           NEW size \in Nat, NEW ext, TakePays(from, id, size, ext)
    PROVE  /\ BalanceAfterPrice(from, id, size) \in NatBalances
           /\ LockAfterPrice(from, id, size) \in NatLocks
<1> DEFINE o == swaps[id].terms
           price == o.minTo * size
           owner == swaps[id].owner
           b == ToppedBalance(from, o.toAsset, o.toStart, o.toEnd, price)
           l == ToppedLock(from, o.toAsset, o.toStart, o.toEnd, price)
<1>1. o \in Terms BY DEF SwapsInv, Swap
<1>2. owner \in Address /\ o.toAsset \in AssetID BY DEF SwapsInv, TakePays
<1>3. o.toStart \in Time /\ o.toEnd \in Time /\ o.minTo \in Nat BY <1>1 DEF Terms
<1>4. price \in Nat BY <1>3, TimesNat
<1>5. CanPay(from, o.toAsset, o.toStart, o.toEnd, price, ext) BY DEF TakePays
<1> HIDE DEF o, price
<1>6. /\ b \in NatBalances
      /\ l \in NatLocks
      /\ UseAsset(o.toStart, o.toEnd) => b = balance /\ balance[from][o.toAsset] >= price
      /\ ~ UseAsset(o.toStart, o.toEnd) /\ SpanIsValid(Clip(o.toStart), o.toEnd, price)
            => Covers(l[from][o.toAsset], Clip(o.toStart), o.toEnd, price)
  BY <1>2, <1>3, <1>4, <1>5, Topped
<1> HIDE DEF b, l
<1>7. /\ PaidBalance(b, from, owner, o, price) \in NatBalances
      /\ PaidLock(l, from, owner, o, price) \in NatLocks
  BY <1>1, <1>2, <1>4, <1>6, PaidNat
<1> QED BY <1>7 DEF BalanceAfterPrice, LockAfterPrice, b, l, o, price

-----------------------------------------------------------------------------
(* The steps *)

\* The inductive invariant holds in the first state.
LEMMA InitSwapsInv == SwapsInit => SwapsInv /\ NotationInv
<1> SUFFICES ASSUME SwapsInit PROVE SwapsInv /\ NotationInv
  OBVIOUS
<1>1. NoLock \in NatLock BY DEF NoLock, NatLock
<1>2. balance \in NatBalances
  BY AccountsAssumption DEF SwapsInit, AssetsInit, AccountsInit, NatBalances
<1>3. lock \in NatLocks
  BY <1>1 DEF SwapsInit, AssetsInit, AccountsInit, NatLocks
<1>4. timestamp \in 0 .. MaxTimestamp
  BY AccountsAssumption, ForeverAssumption, SMT DEF SwapsInit, AssetsInit, AccountsInit
<1>5. assets \in [AssetID -> Asset] BY AssetsAssumption DEF SwapsInit, AssetsInit
<1>6. (CHOOSE o \in Offer : TRUE) \in Terms BY SwapsAssumption
<1>7. NoSwap \in Swap /\ NoSwap.status # "live" BY <1>6 DEF NoSwap, Swap
<1>8. /\ swaps \in [SwapID -> Swap]
      /\ \A id \in SwapID : swaps[id].status # "live"
  BY <1>7 DEF SwapsInit
<1>9. NotationInv BY InitNotationInv DEF SwapsInit
<1> QED BY <1>2, <1>3, <1>4, <1>5, <1>8, <1>9 DEF SwapsInv, AmountsInv

\* Making a swap preserves it, of assets and of a notation.
LEMMA MakeSwapInv ==
    ASSUME SwapsInv, NotationInv, NEW from \in Address, NEW id \in SwapID, NEW o \in Offer,
           NEW ext, MakeUSANSwap(from, id, o) \/ MakeSwap(from, id, o, ext)
    PROVE  SwapsInv' /\ NotationInv'
<1>1. o \in Terms BY SwapsAssumption
<1>2. NotationInv' BY DEF NotationInv, NotationTypeOK, NotationOwned, NextIsNew,
                          MakeUSANSwap, MakeSwap, notationVars
<1>3. notation[from] \in Nat
  <2>1. notation[from] \in Displayed \/ notation[from] = 0
    BY DEF NotationInv, NotationTypeOK
  <2>2. notation[from] \in Displayed => notation[from] \in Nat BY DisplayedNat
  <2> QED BY <2>1, <2>2, SMT
<1>4. /\ assets' = assets /\ timestamp' = timestamp
      /\ assets \in [AssetID -> Asset] /\ timestamp \in 0 .. MaxTimestamp
      /\ AmountsInv
      /\ balance \in NatBalances /\ lock \in NatLocks
  BY DEF SwapsInv, AmountsInv, MakeUSANSwap, MakeSwap
<1>5. o.toAsset \in AssetID BY <1>1 DEF MakeUSANSwap, MakeSwap, MakeSwapCheck, Terms
<1>6. ASSUME NEW terms \in Terms, terms.toAsset = o.toAsset, AddSwap(id, from, terms)
      PROVE  /\ swaps' \in [SwapID -> Swap]
             /\ \A i \in SwapID : swaps'[i].status = "live" =>
                   swaps'[i].owner \in Address /\ swaps'[i].terms.toAsset \in AssetID
  <2> DEFINE new == [status |-> "live", owner |-> from, terms |-> terms,
                     notation |-> notation[from]]
  <2>1. new \in Swap BY <1>3 DEF Swap
  <2>2. swaps' = [swaps EXCEPT ![id] = new] BY <1>6 DEF AddSwap
  <2>3. new.owner \in Address /\ new.terms.toAsset \in AssetID BY <1>5, <1>6
  <2> HIDE DEF new
  <2> QED BY <2>1, <2>2, <2>3 DEF SwapsInv
<1>7. CASE MakeUSANSwap(from, id, o)
  <2> DEFINE u == [o EXCEPT !.minFrom = 1, !.size = 1,
                            !.fromStart = TimeLockNow, !.fromEnd = TimeLockForever]
  <2>1. TimeLockNow \in Time /\ TimeLockForever \in Time
    BY ForeverAssumption, SMT DEF Time, TimeLockNow
  <2>2. u \in Terms /\ u.toAsset = o.toAsset BY <1>1, <2>1 DEF Terms
  <2>3. AddSwap(id, from, u) BY <1>7 DEF MakeUSANSwap
  <2> HIDE DEF u
  <2>4. UNCHANGED <<balance, lock>> BY <1>7 DEF MakeUSANSwap
  <2> QED BY <1>2, <1>4, <1>6, <2>2, <2>3, <2>4 DEF SwapsInv, AmountsInv
<1>8. CASE MakeSwap(from, id, o, ext)
  <2> DEFINE s == o.fromAsset
             total == o.minFrom * o.size
             free == UseAsset(o.fromStart, o.fromEnd)
             b == ToppedBalance(from, s, o.fromStart, o.fromEnd, total)
             l == ToppedLock(from, s, o.fromStart, o.fromEnd, total)
             need == Need(o.fromStart, o.fromEnd, total)
  <2>1. /\ s \in AssetID /\ o.fromStart \in Time /\ o.fromEnd \in Time
        /\ o.minFrom \in Nat /\ o.size \in Nat
    BY <1>1, <1>8 DEF MakeSwap, IsUSAN, Terms
  <2>2. total \in Nat BY <2>1, TimesNat
  <2>3. /\ CanPay(from, s, o.fromStart, o.fromEnd, total, ext)
        /\ balance' = IF free THEN SubBalance(b, from, s, total) ELSE b
        /\ lock' = IF free THEN l ELSE SubTimeLockBalance(l, from, s, need)
        /\ AddSwap(id, from, o)
    BY <1>8 DEF MakeSwap
  <2> HIDE DEF s, total
  <2>4. /\ b \in NatBalances
        /\ l \in NatLocks
        /\ free => b = balance /\ balance[from][s] >= total
        /\ ~ free /\ SpanIsValid(Clip(o.fromStart), o.fromEnd, total)
              => Covers(l[from][s], Clip(o.fromStart), o.fromEnd, total)
    BY <1>4, <2>1, <2>2, <2>3, Topped
  <2> HIDE DEF b, l
  <2>5. free => SubBalance(b, from, s, total) \in NatBalances
    BY <2>1, <2>2, <2>4, SubBalanceNat
  <2>6. ~ free => SubTimeLockBalance(l, from, s, need) \in NatLocks
    BY <1>4, <2>1, <2>2, <2>4, TakeCovered
  <2>7. balance' \in NatBalances /\ lock' \in NatLocks
    BY <2>3, <2>4, <2>5, <2>6
  <2> QED BY <1>1, <1>2, <1>4, <1>6, <2>3, <2>7 DEF SwapsInv, AmountsInv
<1> QED BY <1>7, <1>8

\* So does recalling one.
LEMMA RecallSwapInv ==
    ASSUME SwapsInv, NotationInv, NEW from \in Address, NEW id \in SwapID,
           RecallSwap(from, id)
    PROVE  SwapsInv' /\ NotationInv'
<1> DEFINE o == swaps[id].terms
           total == o.minFrom * o.size
<1>1. o \in Terms BY DEF SwapsInv, Swap
<1>2. total \in Nat BY <1>1, TimesNat DEF Terms
<1>3. NotationInv' BY DEF NotationInv, NotationTypeOK, NotationOwned, NextIsNew,
                          RecallSwap, notationVars
<1>4. AmountsInv /\ balance \in NatBalances /\ lock \in NatLocks
  BY DEF SwapsInv, AmountsInv
<1>5. balance' \in NatBalances /\ lock' \in NatLocks
  <2>1. /\ balance' = IF IsUSAN(o) THEN balance ELSE CreditBalance(balance, from, o, total)
        /\ lock' = IF IsUSAN(o) THEN lock ELSE CreditLock(lock, from, o, total)
    BY DEF RecallSwap
  <2> HIDE DEF o, total
  <2> QED BY <1>1, <1>2, <1>4, <2>1, CreditNat
<1>6. /\ swaps' \in [SwapID -> Swap]
      /\ \A i \in SwapID : swaps'[i].status = "live" =>
            swaps'[i].owner \in Address /\ swaps'[i].terms.toAsset \in AssetID
  BY DEF RecallSwap, SwapsInv, Swap
<1>7. UNCHANGED <<assets, timestamp>> BY DEF RecallSwap
<1> QED BY <1>3, <1>5, <1>6, <1>7 DEF SwapsInv, AmountsInv

\* So does taking one.
LEMMA TakeSwapInv ==
    ASSUME SwapsInv, NotationInv, NEW from \in Address, NEW id \in SwapID,
           NEW size \in Nat, NEW ext,
           TakeSwap(from, id, size, ext) \/ TakeUSANSwap(from, id, size, ext)
    PROVE  SwapsInv' /\ NotationInv'
<1> DEFINE o == swaps[id].terms
           v == o.minFrom * size
           owner == swaps[id].owner
<1>1. TakePays(from, id, size, ext) BY DEF TakeSwap, TakeUSANSwap
<1>2. o \in Terms /\ owner \in Address BY <1>1 DEF SwapsInv, Swap, TakePays
<1>3. v \in Nat BY <1>2, TimesNat DEF Terms
<1>4. AmountsInv BY DEF SwapsInv
<1>5. /\ BalanceAfterPrice(from, id, size) \in NatBalances
      /\ LockAfterPrice(from, id, size) \in NatLocks
  BY <1>1, <1>4, PriceNat
<1>6. /\ swaps' \in [SwapID -> Swap]
      /\ \A i \in SwapID : swaps'[i].status = "live" =>
            swaps'[i].owner \in Address /\ swaps'[i].terms.toAsset \in AssetID
  <2>1. size <= o.size /\ o.size \in Nat /\ RemoveOrShrink(id, size)
    BY <1>1, <1>2 DEF TakePays, TakeSwapCheck, Terms
  <2>2. CASE o.size = size BY <2>1, <2>2 DEF RemoveOrShrink, SwapsInv, Swap
  <2>3. CASE o.size # size
    <3>1. [o EXCEPT !.size = @ - size] \in Terms BY <1>2, <2>1, SMT DEF Terms
    <3>2. swaps' = [swaps EXCEPT ![id].terms = [o EXCEPT !.size = @ - size]]
      BY <1>2, <2>1, <2>3 DEF RemoveOrShrink, SwapsInv, Swap, Terms
    <3>3. [o EXCEPT !.size = @ - size].toAsset = o.toAsset BY <1>2 DEF Terms
    <3> QED BY <3>1, <3>2, <3>3 DEF SwapsInv, Swap
  <2> QED BY <2>2, <2>3
<1>7. UNCHANGED <<assets, timestamp, count>> BY <1>1 DEF TakePays
<1>8. CASE TakeSwap(from, id, size, ext)
  <2>1. ~ IsUSAN(o) BY <1>8 DEF TakeSwap
  <2>2. /\ balance' = CreditBalance(BalanceAfterPrice(from, id, size), from, o, v)
        /\ lock' = CreditLock(LockAfterPrice(from, id, size), from, o, v)
    BY <1>8 DEF TakeSwap
  <2>3. balance' \in NatBalances /\ lock' \in NatLocks
    <3> HIDE DEF o, v
    <3> QED BY <1>2, <1>3, <1>4, <1>5, <2>1, <2>2, CreditNat
  <2>4. NotationInv'
    BY <1>7, <1>8 DEF TakeSwap, NotationInv, NotationTypeOK, NotationOwned, NextIsNew
  <2> QED BY <1>6, <1>7, <2>3, <2>4 DEF SwapsInv, AmountsInv
<1>9. CASE TakeUSANSwap(from, id, size, ext)
  <2>1. balance' \in NatBalances /\ lock' \in NatLocks BY <1>5, <1>9 DEF TakeUSANSwap
  <2>2. notation[owner] # 0 /\ notation[owner] = swaps[id].notation
    BY <1>9 DEF TakeUSANSwap
  <2>3. CanTransfer(swaps[id].notation, owner)
    BY <1>2, <2>2 DEF CanTransfer, NotationInv, NotationOwned
  <2>4. /\ lookup' = TransferredLookup(swaps[id].notation, from)
        /\ notation' = TransferredNotation(swaps[id].notation, owner, from)
    BY <1>9, <2>3 DEF TakeUSANSwap
  <2>5. NotationInv' BY <1>2, <1>7, <2>2, <2>4, TransferNotationInv
  <2> QED BY <1>6, <1>7, <2>1, <2>5 DEF SwapsInv, AmountsInv
<1> QED BY <1>8, <1>9

\* So does every step.
LEMMA StepSwapsInv ==
    SwapsInv /\ NotationInv /\ [SwapsNext]_swapVars => SwapsInv' /\ NotationInv'
<1> SUFFICES ASSUME SwapsInv, NotationInv, [SwapsNext]_swapVars
             PROVE  SwapsInv' /\ NotationInv'
  OBVIOUS
<1>1. CASE UNCHANGED swapVars
  BY <1>1 DEF swapVars, SwapsInv, AmountsInv, NotationInv, NotationTypeOK, NotationOwned, NextIsNew
<1>2. CASE NewBlock /\ UNCHANGED <<assets, notationVars, swaps>>
  <2>1. SwapsInv'
    BY <1>2, AccountsAssumption, ForeverAssumption, SMT DEF NewBlock, SwapsInv, AmountsInv
  <2>2. NotationInv'
    BY <1>2 DEF notationVars, NotationInv, NotationTypeOK, NotationOwned, NextIsNew
  <2> QED BY <2>1, <2>2
<1>3. ASSUME NEW a \in Address, GenNotation(a),
             UNCHANGED <<balance, lock, timestamp, assets, swaps>>
      PROVE  SwapsInv' /\ NotationInv'
  <2>1. SwapsInv' BY <1>3 DEF SwapsInv, AmountsInv
  <2> QED BY <1>3, <2>1, GenNotationInv
<1>4. CASE SwapStep
  <2>1. Amount \subseteq Nat BY AccountsAssumption
  <2> QED BY <1>4, <2>1, MakeSwapInv, RecallSwapInv, TakeSwapInv DEF SwapStep
<1> QED BY <1>1, <1>2, <1>3, <1>4 DEF SwapsNext

\* So it holds in every state.
LEMMA SwapsInvHolds == SwapsSpec => [](SwapsInv /\ NotationInv)
<1>1. SwapsInit => SwapsInv /\ NotationInv BY InitSwapsInv
<1>2. (SwapsInv /\ NotationInv) /\ [SwapsNext]_swapVars => (SwapsInv /\ NotationInv)'
  BY StepSwapsInv
<1> QED BY <1>1, <1>2, PTL DEF SwapsSpec

\* It contains the invariants the run checks.
LEMMA SwapsInvImplies ==
    SwapsInv /\ NotationInv => SwapsTypeOK /\ NonNegative /\ NotationOwned /\ NextIsNew
<1> SUFFICES ASSUME SwapsInv, NotationInv
             PROVE  SwapsTypeOK /\ NonNegative /\ NotationOwned /\ NextIsNew
  OBVIOUS
<1>1. SwapsTypeOK
  BY SMT DEF SwapsInv, AmountsInv, NotationInv, SwapsTypeOK, AssetsTypeOK, AccountsTypeOK,
         NatBalances, NatLocks, NatLock
<1>2. NonNegative BY SMT DEF SwapsInv, AmountsInv, NonNegative, NatBalances, NatLocks, NatLock
<1> QED BY <1>1, <1>2 DEF NotationInv

\* The variables of the swap calls keep their types: no swap is left with a
\* negative number of lots.
THEOREM SwapsTypeCorrect == SwapsSpec => []SwapsTypeOK
BY SwapsInvHolds, SwapsInvImplies, PTL

\* No swap call makes a balance or a time lock negative: neither the payment of
\* the price, nor the conversion of the Ext calls, nor a swap with oneself.
THEOREM SwapsNeverNegative == SwapsSpec => []NonNegative
BY SwapsInvHolds, SwapsInvImplies, PTL

\* The notation of an account resolves to it, whatever notations were swapped:
\* TransferNotation, called after the price was paid, cannot fail.
THEOREM NotationsOwned == SwapsSpec => []NotationOwned
BY SwapsInvHolds, SwapsInvImplies, PTL

\* Every notation given out is new.
THEOREM NotationsNew == SwapsSpec => []NextIsNew
BY SwapsInvHolds, SwapsInvImplies, PTL

-----------------------------------------------------------------------------
(* What the operations do to the holdings of all accounts *)

\* What account a can spend of asset s at instant t, with balances b and time
\* locks l, and what all accounts together can.
Has(b, l, a, s, t) == b[a][s] + l[a][s][t]
AllHave(b, l, s, t) == SumFunction([a \in Address |-> Has(b, l, a, s, t)])

\* The value v within a range.
Within(start, end, v, t) == IF start <= t /\ t <= end THEN v ELSE 0

\* v in start..end comes to account a, or goes from it.
InBalance(b, a, s, start, end, v) == IF UseAsset(start, end) THEN AddBalance(b, a, s, v) ELSE b
InLock(l, a, s, start, end, v) ==
    IF UseAsset(start, end) THEN l ELSE AddTimeLockBalance(l, a, s, Need(start, end, v))
OutBalance(b, a, s, start, end, v) == IF UseAsset(start, end) THEN SubBalance(b, a, s, v) ELSE b
OutLock(l, a, s, start, end, v) ==
    IF UseAsset(start, end) THEN l ELSE SubTimeLockBalance(l, a, s, Need(start, end, v))

\* Account a gets v of asset s in the range, and nothing else changes.
Gets(b, l, c, m, a, s, start, end, v) ==
    \A d \in Address, r \in AssetID, t \in timestamp .. TimeLockForever :
        Has(c, m, d, r, t) = Has(b, l, d, r, t)
                                + (IF d = a /\ r = s THEN Within(start, end, v, t) ELSE 0)

\* The instants of these statements.
LEMMA InstantTime ==
    ASSUME AmountsInv, NEW t \in timestamp .. TimeLockForever
    PROVE  t \in Time /\ t \in Int /\ t >= timestamp /\ t <= TimeLockForever
BY AccountsAssumption, ForeverAssumption, SMT DEF AmountsInv, Time, TimeLockNow

\* Holdings are natural numbers.
LEMMA HasNat ==
    ASSUME NEW b \in NatBalances, NEW l \in NatLocks, NEW a \in Address,
           NEW s \in AssetID, NEW t \in Time
    PROVE  Has(b, l, a, s, t) \in Nat /\ b[a][s] \in Nat /\ l[a][s][t] \in Nat
BY SMT DEF Has, NatBalances, NatLocks, NatLock

\* The payment due is the value within its range, at instants still ahead.
LEMMA NeedAt ==
    ASSUME AmountsInv, NEW start \in Time, NEW end \in Time, NEW v \in Nat,
           NEW t \in timestamp .. TimeLockForever
    PROVE  Need(start, end, v)[t] = Within(start, end, v, t)
<1>1. t \in Time /\ t \in Int /\ t >= timestamp /\ start \in Int /\ end \in Int /\ timestamp \in Int
  BY InstantTime, TimeInt, AccountsAssumption, SMT DEF AmountsInv
<1>2. NoLock[t] = 0 BY <1>1 DEF NoLock
<1>3. Span(Clip(start), end, v)[t] = IF Clip(start) <= t /\ t <= end THEN v ELSE 0
  BY <1>1 DEF Span
<1>4. Clip(start) <= t <=> start <= t BY <1>1, SMT DEF Clip, Later
<1>5. CASE SpanIsValid(Clip(start), end, v) BY <1>3, <1>4, <1>5 DEF Need, Within
<1>6. CASE ~ SpanIsValid(Clip(start), end, v)
  <2>1. Clip(start) \in Int BY ClipTime
  <2>2. Within(start, end, v, t) = 0
    BY <1>1, <1>4, <1>6, <2>1, SMT DEF SpanIsValid, Within
  <2> QED BY <1>2, <1>6, <2>2 DEF Need
<1> QED BY <1>5, <1>6

\* A range of all time contains every instant.
LEMMA UseAssetWithin ==
    ASSUME AmountsInv, NEW start, NEW end, UseAsset(start, end), NEW v,
           NEW t \in timestamp .. TimeLockForever
    PROVE  Within(start, end, v, t) = v
BY InstantTime, SMT DEF UseAsset, Within, TimeLockNow, Time

\* What is paid in arrives, and only there.
LEMMA InGets ==
    ASSUME AmountsInv, NEW b \in NatBalances, NEW l \in NatLocks, NEW a \in Address,
           NEW s \in AssetID, NEW start \in Time, NEW end \in Time, NEW v \in Nat
    PROVE  Gets(b, l, InBalance(b, a, s, start, end, v), InLock(l, a, s, start, end, v),
                a, s, start, end, v)
<1> SUFFICES ASSUME NEW d \in Address, NEW r \in AssetID,
                    NEW t \in timestamp .. TimeLockForever
             PROVE  Has(InBalance(b, a, s, start, end, v), InLock(l, a, s, start, end, v), d, r, t)
                      = Has(b, l, d, r, t)
                          + (IF d = a /\ r = s THEN Within(start, end, v, t) ELSE 0)
  BY DEF Gets
<1>1. t \in Time /\ t >= timestamp BY InstantTime
<1>2. b[d][r] \in Nat /\ l[d][r][t] \in Nat BY <1>1, HasNat
<1>3. CASE UseAsset(start, end)
  <2>1. AddBalance(b, a, s, v)[d][r] = b[d][r] + (IF d = a /\ r = s THEN v ELSE 0)
    BY <1>2, SMT DEF AddBalance, NatBalances
  <2>2. Within(start, end, v, t) = v BY <1>3, UseAssetWithin, SMT
  <2> QED BY <1>2, <1>3, <2>1, <2>2, SMT DEF Has, InBalance, InLock
<1>4. CASE ~ UseAsset(start, end)
  <2> DEFINE n == Need(start, end, v)
  <2>1. n \in NatLock /\ n[t] = Within(start, end, v, t) BY NeedNat, NeedAt
  <2>2. n[t] \in Nat BY <1>1, <2>1 DEF NatLock
  <2> HIDE DEF n
  <2>3. AddTimeLockBalance(l, a, s, n)[d][r][t]
          = l[d][r][t] + (IF d = a /\ r = s THEN n[t] ELSE 0)
    BY <1>1, <1>2, <2>1, AddTimeLockBalanceAt, SMT
  <2>4. /\ InBalance(b, a, s, start, end, v) = b
        /\ InLock(l, a, s, start, end, v) = AddTimeLockBalance(l, a, s, n)
    BY <1>4 DEF InBalance, InLock, n
  <2> QED BY <1>2, <2>1, <2>2, <2>3, <2>4, SMT DEF Has
<1> QED BY <1>3, <1>4

\* What is paid out is gone, and nothing else.
LEMMA OutGets ==
    ASSUME AmountsInv, NEW b \in NatBalances, NEW l \in NatLocks, NEW a \in Address,
           NEW s \in AssetID, NEW start \in Time, NEW end \in Time, NEW v \in Nat
    PROVE  Gets(b, l, OutBalance(b, a, s, start, end, v), OutLock(l, a, s, start, end, v),
                a, s, start, end, - v)
<1> SUFFICES ASSUME NEW d \in Address, NEW r \in AssetID,
                    NEW t \in timestamp .. TimeLockForever
             PROVE  Has(OutBalance(b, a, s, start, end, v), OutLock(l, a, s, start, end, v), d, r, t)
                      = Has(b, l, d, r, t)
                          + (IF d = a /\ r = s THEN Within(start, end, - v, t) ELSE 0)
  BY DEF Gets
<1>1. t \in Time /\ t >= timestamp BY InstantTime
<1>2. b[d][r] \in Nat /\ l[d][r][t] \in Nat BY <1>1, HasNat
<1>3. CASE UseAsset(start, end)
  <2>1. SubBalance(b, a, s, v)[d][r] = b[d][r] - (IF d = a /\ r = s THEN v ELSE 0)
    BY <1>2, SMT DEF SubBalance, NatBalances
  <2>2. Within(start, end, - v, t) = - v BY <1>3, UseAssetWithin, SMT
  <2> QED BY <1>2, <1>3, <2>1, <2>2, SMT DEF Has, OutBalance, OutLock
<1>4. CASE ~ UseAsset(start, end)
  <2> DEFINE n == Need(start, end, v)
  <2>1. n \in NatLock /\ n[t] = Within(start, end, v, t) BY NeedNat, NeedAt
  <2>2. n[t] \in Nat BY <1>1, <2>1 DEF NatLock
  <2>3. Within(start, end, - v, t) = - n[t] BY <2>1, SMT DEF Within
  <2> HIDE DEF n
  <2>4. SubTimeLockBalance(l, a, s, n)[d][r][t]
          = l[d][r][t] - (IF d = a /\ r = s THEN n[t] ELSE 0)
    BY <1>1, <1>2, <2>1, SubTimeLockBalanceAt, SMT
  <2>5. /\ OutBalance(b, a, s, start, end, v) = b
        /\ OutLock(l, a, s, start, end, v) = SubTimeLockBalance(l, a, s, n)
    BY <1>4 DEF OutBalance, OutLock, n
  <2> QED BY <1>2, <2>2, <2>3, <2>4, <2>5, SMT DEF Has
<1> QED BY <1>3, <1>4

\* Turning free balance into a time lock for ever changes no holding.
LEMMA ToppedKeeps ==
    ASSUME AmountsInv, NEW a \in Address, NEW s \in AssetID, NEW start, NEW end, NEW v \in Nat,
           NEW d \in Address, NEW r \in AssetID, NEW t \in timestamp .. TimeLockForever
    PROVE  Has(ToppedBalance(a, s, start, end, v), ToppedLock(a, s, start, end, v), d, r, t)
             = Has(balance, lock, d, r, t)
<1>1. t \in Time /\ t \in Int /\ t >= timestamp /\ t <= TimeLockForever BY InstantTime
<1>2. balance \in NatBalances /\ lock \in NatLocks /\ timestamp \in Int
  BY AccountsAssumption, SMT DEF AmountsInv
<1>3. balance[d][r] \in Nat /\ lock[d][r][t] \in Nat BY <1>1, <1>2, HasNat
<1>4. CASE ~ Short(a, s, start, end, v) BY <1>4 DEF ToppedBalance, ToppedLock
<1>5. CASE Short(a, s, start, end, v)
  <2>1. Whole(v) \in NatLock BY <1>2, ForeverAssumption, SpanNat, SMT DEF Whole
  <2>2. Whole(v)[t] = v BY <1>1 DEF Whole, Span
  <2>3. SubBalance(balance, a, s, v)[d][r] = balance[d][r] - (IF d = a /\ r = s THEN v ELSE 0)
    BY <1>2, <1>3, SMT DEF SubBalance, NatBalances
  <2>4. AddTimeLockBalance(lock, a, s, Whole(v))[d][r][t]
          = lock[d][r][t] + (IF d = a /\ r = s THEN v ELSE 0)
    BY <1>1, <1>2, <1>3, <2>1, <2>2, AddTimeLockBalanceAt, SMT
  <2>5. /\ ToppedBalance(a, s, start, end, v) = SubBalance(balance, a, s, v)
        /\ ToppedLock(a, s, start, end, v) = AddTimeLockBalance(lock, a, s, Whole(v))
    BY <1>5 DEF ToppedBalance, ToppedLock
  <2> DEFINE x == IF d = a /\ r = s THEN v ELSE 0
  <2>6. x \in Nat BY SMT
  <2>7. SubBalance(balance, a, s, v)[d][r] = balance[d][r] - x
        /\ AddTimeLockBalance(lock, a, s, Whole(v))[d][r][t] = lock[d][r][t] + x
    BY <2>3, <2>4
  <2> HIDE DEF x
  <2>8. \A i, j, k \in Nat : (i - k) + (j + k) = i + j BY SMT
  <2>9. (balance[d][r] - x) + (lock[d][r][t] + x) = balance[d][r] + lock[d][r][t]
    BY <1>3, <2>6, <2>8, ZenonT(40)
  <2> QED BY <2>5, <2>7, <2>9 DEF Has
<1> QED BY <1>4, <1>5

\* The accounts together get v of asset s in the range, and nothing else.
AllGet(b, l, c, m, s, start, end, v) ==
    \A r \in AssetID, t \in timestamp .. TimeLockForever :
        /\ AllHave(b, l, r, t) \in Int /\ AllHave(c, m, r, t) \in Int
        /\ AllHave(c, m, r, t) = AllHave(b, l, r, t)
                                   + (IF r = s THEN Within(start, end, v, t) ELSE 0)

\* The sum over all accounts changes by what one of them gets.
LEMMA AllGets ==
    ASSUME AmountsInv, NEW b \in NatBalances, NEW l \in NatLocks, NEW c, NEW m,
           NEW a \in Address, NEW s \in AssetID, NEW start, NEW end, NEW v \in Int,
           Gets(b, l, c, m, a, s, start, end, v)
    PROVE  AllGet(b, l, c, m, s, start, end, v)
<1> SUFFICES ASSUME NEW r \in AssetID, NEW t \in timestamp .. TimeLockForever
             PROVE  /\ AllHave(b, l, r, t) \in Int /\ AllHave(c, m, r, t) \in Int
                    /\ AllHave(c, m, r, t)
                         = AllHave(b, l, r, t)
                             + (IF r = s THEN Within(start, end, v, t) ELSE 0)
  BY DEF AllGet
<1> DEFINE f == [d \in Address |-> Has(b, l, d, r, t)]
           g == [d \in Address |-> Has(c, m, d, r, t)]
           w == IF r = s THEN Within(start, end, v, t) ELSE 0
<1>1. w \in Int BY SMT DEF Within
<1>2. \A d \in Address : f[d] \in Int BY InstantTime, HasNat, SMT
<1>3. \A d \in Address : g[d] = f[d] + (IF d = a THEN w ELSE 0) BY DEF Gets
<1> HIDE DEF w
<1>4. f \in [Address -> Int] BY <1>2
<1>5. g \in [Address -> Int]
  <2>1. \A d \in Address : g[d] \in Int BY <1>1, <1>2, <1>3, SMT
  <2> QED BY <2>1
<1>6. AllHave(b, l, r, t) = SumFunction(f) /\ AllHave(c, m, r, t) = SumFunction(g)
  BY DEF AllHave
<1> HIDE DEF f, g
<1>7. SumFunction(g) = SumFunction(f) + g[a] - f[a]
  <2>1. \A x \in Address \ {a} : g[x] = f[x] BY <1>1, <1>2, <1>3, SMT
  <2> QED BY <1>4, <1>5, <2>1, SumChange, AddressesAssumption, SMT
<1>8. SumFunction(f) \in Int /\ SumFunction(g) \in Int
  BY <1>4, <1>5, SumInt, AddressesAssumption
<1>9. g[a] = f[a] + w /\ f[a] \in Int BY <1>2, <1>3
<1> QED BY <1>1, <1>6, <1>7, <1>8, <1>9, SMT DEF w

\* A conversion of free balance does not change the sum.
LEMMA AllTopped ==
    ASSUME AmountsInv, NEW a \in Address, NEW s \in AssetID, NEW start, NEW end, NEW v \in Nat,
           NEW r \in AssetID, NEW t \in timestamp .. TimeLockForever
    PROVE  AllHave(ToppedBalance(a, s, start, end, v), ToppedLock(a, s, start, end, v), r, t)
             = AllHave(balance, lock, r, t)
<1>1. \A d \in Address :
         Has(ToppedBalance(a, s, start, end, v), ToppedLock(a, s, start, end, v), d, r, t)
           = Has(balance, lock, d, r, t)
  BY ToppedKeeps, SMT
<1> QED BY <1>1 DEF AllHave

\* Making a swap takes the escrow from the maker, and nothing else.
LEMMA MakeGets ==
    ASSUME SwapsInv, NEW from \in Address, NEW id \in SwapID, NEW o \in Offer, NEW ext,
           MakeSwap(from, id, o, ext)
    PROVE  /\ o.fromAsset \in AssetID /\ o.minFrom * o.size \in Nat
           /\ Gets(balance, lock, balance', lock', from, o.fromAsset, o.fromStart, o.fromEnd,
                   - (o.minFrom * o.size))
<1> DEFINE s == o.fromAsset
           total == o.minFrom * o.size
           b == ToppedBalance(from, s, o.fromStart, o.fromEnd, total)
           l == ToppedLock(from, s, o.fromStart, o.fromEnd, total)
<1>1. /\ s \in AssetID /\ o.fromStart \in Time /\ o.fromEnd \in Time
      /\ o.minFrom \in Nat /\ o.size \in Nat
  BY SwapsAssumption DEF MakeSwap, IsUSAN, Terms
<1>2. total \in Nat BY <1>1, TimesNat
<1>3. /\ CanPay(from, s, o.fromStart, o.fromEnd, total, ext)
      /\ balance' = OutBalance(b, from, s, o.fromStart, o.fromEnd, total)
      /\ lock' = OutLock(l, from, s, o.fromStart, o.fromEnd, total)
  BY DEF MakeSwap, OutBalance, OutLock
<1>4. AmountsInv BY DEF SwapsInv
<1> HIDE DEF s, total
<1>5. b \in NatBalances /\ l \in NatLocks BY <1>1, <1>2, <1>3, <1>4, Topped
<1>6. ASSUME NEW d \in Address, NEW r \in AssetID, NEW t \in timestamp .. TimeLockForever
      PROVE  Has(b, l, d, r, t) = Has(balance, lock, d, r, t)
  BY <1>1, <1>2, <1>4, ToppedKeeps, SMT
<1> HIDE DEF b, l
<1>7. Gets(b, l, balance', lock', from, s, o.fromStart, o.fromEnd, - total)
  BY <1>1, <1>2, <1>3, <1>4, <1>5, OutGets
<1>8. Gets(balance, lock, balance', lock', from, s, o.fromStart, o.fromEnd, - total)
  BY <1>6, <1>7, SMT DEF Gets
<1> QED BY <1>1, <1>2, <1>8 DEF s, total

\* What comes out of escrow goes to one account.
LEMMA CreditGets ==
    ASSUME AmountsInv, NEW b \in NatBalances, NEW l \in NatLocks, NEW a \in Address,
           NEW o \in Terms, ~ IsUSAN(o), NEW v \in Nat
    PROVE  /\ o.fromAsset \in AssetID
           /\ Gets(b, l, CreditBalance(b, a, o, v), CreditLock(l, a, o, v),
                   a, o.fromAsset, o.fromStart, o.fromEnd, v)
<1>1. o.fromAsset \in AssetID /\ o.fromStart \in Time /\ o.fromEnd \in Time
  BY DEF Terms, IsUSAN
<1>2. /\ CreditBalance(b, a, o, v) = InBalance(b, a, o.fromAsset, o.fromStart, o.fromEnd, v)
      /\ CreditLock(l, a, o, v) = InLock(l, a, o.fromAsset, o.fromStart, o.fromEnd, v)
  BY DEF CreditBalance, CreditLock, InBalance, InLock
<1> QED BY <1>1, <1>2, InGets

\* The price goes from the taker to the owner: the owner gets it first.
LEMMA PriceGets ==
    ASSUME SwapsInv, NEW from \in Address, NEW id \in SwapID, NEW size \in Nat, NEW ext,
           TakePays(from, id, size, ext)
    PROVE  LET o == swaps[id].terms
               price == o.minTo * size
               b == BalanceAfterPrice(from, id, size)
               l == LockAfterPrice(from, id, size)
           IN  /\ \E c \in NatBalances, m \in NatLocks :
                     /\ Gets(balance, lock, c, m, swaps[id].owner, o.toAsset,
                             o.toStart, o.toEnd, price)
                     /\ Gets(c, m, b, l, from, o.toAsset, o.toStart, o.toEnd, - price)
               /\ price \in Nat
<1> DEFINE o == swaps[id].terms
           price == o.minTo * size
           owner == swaps[id].owner
           s == o.toAsset
           b == ToppedBalance(from, s, o.toStart, o.toEnd, price)
           l == ToppedLock(from, s, o.toStart, o.toEnd, price)
           c == InBalance(b, owner, s, o.toStart, o.toEnd, price)
           m == InLock(l, owner, s, o.toStart, o.toEnd, price)
<1>1. o \in Terms BY DEF SwapsInv, Swap
<1>2. owner \in Address /\ s \in AssetID BY DEF SwapsInv, TakePays
<1>3. o.toStart \in Time /\ o.toEnd \in Time /\ o.minTo \in Nat BY <1>1 DEF Terms
<1>4. price \in Nat BY <1>3, TimesNat
<1>5. CanPay(from, s, o.toStart, o.toEnd, price, ext) BY DEF TakePays
<1>6. AmountsInv /\ timestamp \in Int BY AccountsAssumption, SMT DEF SwapsInv, AmountsInv
<1>7. /\ BalanceAfterPrice(from, id, size) = PaidBalance(b, from, owner, o, price)
      /\ LockAfterPrice(from, id, size) = PaidLock(l, from, owner, o, price)
  BY DEF BalanceAfterPrice, LockAfterPrice
<1> HIDE DEF price
<1>8. b \in NatBalances /\ l \in NatLocks BY <1>2, <1>3, <1>4, <1>5, <1>6, Topped
<1>9. \A d \in Address, r \in AssetID, t \in timestamp .. TimeLockForever :
         Has(b, l, d, r, t) = Has(balance, lock, d, r, t)
  BY <1>2, <1>4, <1>6, ToppedKeeps, SMT
<1> HIDE DEF b, l
<1>10. /\ PaidBalance(b, from, owner, o, price) = OutBalance(c, from, s, o.toStart, o.toEnd, price)
       /\ PaidLock(l, from, owner, o, price) = OutLock(m, from, s, o.toStart, o.toEnd, price)
  BY DEF PaidBalance, PaidLock, InBalance, InLock, OutBalance, OutLock
<1>11. c \in NatBalances /\ m \in NatLocks
  BY <1>2, <1>3, <1>4, <1>6, <1>8, NeedNat, AddBalanceNat, AddTimeLockBalanceNat
     DEF InBalance, InLock
<1>12. Gets(b, l, c, m, owner, s, o.toStart, o.toEnd, price)
  BY <1>2, <1>3, <1>4, <1>6, <1>8, InGets
<1> HIDE DEF c, m
<1>13. Gets(balance, lock, c, m, owner, s, o.toStart, o.toEnd, price)
  BY <1>9, <1>12, SMT DEF Gets
<1>14. Gets(c, m, BalanceAfterPrice(from, id, size), LockAfterPrice(from, id, size),
            from, s, o.toStart, o.toEnd, - price)
  BY <1>2, <1>3, <1>4, <1>6, <1>7, <1>10, <1>11, OutGets
<1> QED BY <1>4, <1>11, <1>13, <1>14 DEF price

-----------------------------------------------------------------------------
(* Nothing is made or lost *)

\* What a swap holds in escrow is a natural number.
LEMMA EscrowNat ==
    ASSUME swaps \in [SwapID -> Swap], NEW id \in SwapID, NEW s, NEW t
    PROVE  Escrow(id, s, t) \in Nat
<1>1. swaps[id].terms.minFrom \in Nat /\ swaps[id].terms.size \in Nat BY DEF Swap, Terms
<1>2. swaps[id].terms.minFrom * swaps[id].terms.size \in Nat BY <1>1, TimesNat
<1> QED BY <1>2 DEF Escrow

\* The escrow of all swaps changes as that of the one that is changed.
LEMMA EscrowChange ==
    ASSUME SwapsInv, SwapsInv', NEW id \in SwapID,
           \A i \in SwapID \ {id} : swaps'[i] = swaps[i], NEW s, NEW t
    PROVE  /\ TotalEscrow(s, t) \in Int /\ TotalEscrow(s, t)' \in Int
           /\ Escrow(id, s, t) \in Int /\ Escrow(id, s, t)' \in Int
           /\ TotalEscrow(s, t)' = TotalEscrow(s, t) + Escrow(id, s, t)' - Escrow(id, s, t)
<1> DEFINE f == [i \in SwapID |-> Escrow(i, s, t)]
           g == [i \in SwapID |-> Escrow(i, s, t)']
<1>1. \A i \in SwapID : Escrow(i, s, t) \in Int BY EscrowNat, SMT DEF SwapsInv
<1>2. \A i \in SwapID : Escrow(i, s, t)' \in Int
  <2> SUFFICES ASSUME NEW i \in SwapID PROVE Escrow(i, s, t)' \in Int
    OBVIOUS
  <2>1. swaps'[i].terms.minFrom \in Nat /\ swaps'[i].terms.size \in Nat
    BY DEF SwapsInv, Swap, Terms
  <2>2. swaps'[i].terms.minFrom * swaps'[i].terms.size \in Nat BY <2>1, TimesNat
  <2> QED BY <2>2, SMT DEF Escrow
<1>3. f \in [SwapID -> Int] /\ g \in [SwapID -> Int] BY <1>1, <1>2
<1>4. \A i \in SwapID \ {id} : g[i] = f[i] BY DEF Escrow
<1>5. TotalEscrow(s, t) = SumFunction(f) /\ TotalEscrow(s, t)' = SumFunction(g)
  BY DEF TotalEscrow
<1>6. f[id] = Escrow(id, s, t) /\ g[id] = Escrow(id, s, t)' OBVIOUS
<1> HIDE DEF f, g
<1>7. SumFunction(f) \in Int /\ SumFunction(g) \in Int BY <1>3, SumInt, SwapsAssumption
<1>8. SumFunction(g) = SumFunction(f) + g[id] - f[id]
  BY <1>3, <1>4, SumChange, SwapsAssumption
<1> QED BY <1>1, <1>2, <1>5, <1>6, <1>7, <1>8

\* What a call takes from the accounts it puts in escrow, and the other way round.
Balanced(s, t) ==
    /\ AllHave(balance, lock, s, t) \in Int /\ AllHave(balance', lock', s, t) \in Int
    /\ TotalEscrow(s, t) \in Int /\ TotalEscrow(s, t)' \in Int
    /\ AllHave(balance', lock', s, t) - AllHave(balance, lock, s, t)
         = TotalEscrow(s, t) - TotalEscrow(s, t)'

\* The sum of natural holdings is an integer.
LEMMA AllHaveInt ==
    ASSUME NEW b \in NatBalances, NEW l \in NatLocks, NEW s \in AssetID, NEW t \in Time
    PROVE  AllHave(b, l, s, t) \in Int
<1> DEFINE f == [a \in Address |-> Has(b, l, a, s, t)]
<1>1. f \in [Address -> Int] BY HasNat, SMT
<1> HIDE DEF f
<1>2. SumFunction(f) \in Int BY <1>1, SumInt, AddressesAssumption
<1> QED BY <1>2 DEF f, AllHave

\* A swap of a notation has nothing in escrow.
LEMMA USANEscrow ==
    ASSUME NEW id \in SwapID, NEW s \in AssetID, NEW t,
           IsUSAN(swaps[id].terms)
    PROVE  Escrow(id, s, t) = 0
BY SwapsAssumption DEF Escrow, IsUSAN

\* Making a swap of assets moves the lots into escrow.
LEMMA MakeBalanced ==
    ASSUME SwapsInv, SwapsInv', NEW from \in Address, NEW id \in SwapID, NEW o \in Offer,
           NEW ext, MakeSwap(from, id, o, ext),
           NEW s \in AssetID, NEW t \in timestamp .. TimeLockForever
    PROVE  Balanced(s, t)
<1> DEFINE total == o.minFrom * o.size
<1>1. AmountsInv /\ balance \in NatBalances /\ lock \in NatLocks
  BY DEF SwapsInv, AmountsInv
<1>2. /\ o.fromAsset \in AssetID /\ total \in Nat
      /\ Gets(balance, lock, balance', lock', from, o.fromAsset, o.fromStart, o.fromEnd, - total)
  BY MakeGets
<1>3. /\ \A i \in SwapID \ {id} : swaps'[i] = swaps[i]
      /\ swaps'[id].status = "live" /\ swaps'[id].terms = o
      /\ swaps[id].status = "none"
  BY DEF MakeSwap, AddSwap, SwapsInv
<1>4. Escrow(id, s, t) = 0 BY <1>3 DEF Escrow
<1>5. Escrow(id, s, t)' = IF s = o.fromAsset THEN Within(o.fromStart, o.fromEnd, total, t) ELSE 0
  BY <1>3 DEF Escrow, Within
<1> HIDE DEF total
<1>6. /\ AllHave(balance, lock, s, t) \in Int /\ AllHave(balance', lock', s, t) \in Int
      /\ AllHave(balance', lock', s, t)
           = AllHave(balance, lock, s, t)
               + (IF s = o.fromAsset THEN Within(o.fromStart, o.fromEnd, - total, t) ELSE 0)
  <2>1. - total \in Int BY <1>2, SMT
  <2>2. AllGet(balance, lock, balance', lock', o.fromAsset, o.fromStart, o.fromEnd, - total)
    BY <1>1, <1>2, <2>1, AllGets
  <2> QED BY <2>2 DEF AllGet
<1>7. Within(o.fromStart, o.fromEnd, - total, t) = - Within(o.fromStart, o.fromEnd, total, t)
  BY <1>2, SMT DEF Within
<1>8. Within(o.fromStart, o.fromEnd, total, t) \in Int BY <1>2, SMT DEF Within
<1>9. /\ TotalEscrow(s, t) \in Int /\ TotalEscrow(s, t)' \in Int
      /\ TotalEscrow(s, t)' = TotalEscrow(s, t) + Escrow(id, s, t)' - Escrow(id, s, t)
  BY <1>3, EscrowChange
<1> QED BY <1>4, <1>5, <1>6, <1>7, <1>8, <1>9, SMT DEF Balanced

\* Recalling it moves what is left back.
LEMMA RecallBalanced ==
    ASSUME SwapsInv, SwapsInv', NEW from \in Address, NEW id \in SwapID,
           RecallSwap(from, id),
           NEW s \in AssetID, NEW t \in timestamp .. TimeLockForever
    PROVE  Balanced(s, t)
<1> DEFINE o == swaps[id].terms
           total == o.minFrom * o.size
<1>1. AmountsInv /\ balance \in NatBalances /\ lock \in NatLocks
  BY DEF SwapsInv, AmountsInv
<1>2. o \in Terms BY DEF SwapsInv, Swap
<1>3. total \in Nat BY <1>2, TimesNat DEF Terms
<1>4. /\ \A i \in SwapID \ {id} : swaps'[i] = swaps[i]
      /\ swaps'[id].status = "deleted" /\ swaps[id].status = "live"
  BY DEF RecallSwap, SwapsInv, Swap
<1>5. Escrow(id, s, t)' = 0 BY <1>4 DEF Escrow
<1>6. /\ TotalEscrow(s, t) \in Int /\ TotalEscrow(s, t)' \in Int
      /\ TotalEscrow(s, t)' = TotalEscrow(s, t) + Escrow(id, s, t)' - Escrow(id, s, t)
  BY <1>4, EscrowChange
<1>7. CASE IsUSAN(o)
  <2>1. Escrow(id, s, t) = 0 BY <1>7, USANEscrow
  <2>2. UNCHANGED <<balance, lock>> BY <1>7 DEF RecallSwap
  <2>3. AllHave(balance, lock, s, t) \in Int BY <1>1, InstantTime, AllHaveInt
  <2> QED BY <1>5, <1>6, <2>1, <2>2, <2>3, SMT DEF Balanced
<1>8. CASE ~ IsUSAN(o)
  <2>1. /\ balance' = CreditBalance(balance, from, o, total)
        /\ lock' = CreditLock(lock, from, o, total)
    BY <1>8 DEF RecallSwap
  <2>2. Escrow(id, s, t) = IF s = o.fromAsset THEN Within(o.fromStart, o.fromEnd, total, t) ELSE 0
    BY <1>4 DEF Escrow, Within
  <2> HIDE DEF o, total
  <2>3. /\ o.fromAsset \in AssetID
        /\ Gets(balance, lock, balance', lock', from, o.fromAsset, o.fromStart, o.fromEnd, total)
    BY <1>1, <1>2, <1>3, <1>8, <2>1, CreditGets
  <2>4. /\ AllHave(balance, lock, s, t) \in Int /\ AllHave(balance', lock', s, t) \in Int
        /\ AllHave(balance', lock', s, t)
             = AllHave(balance, lock, s, t)
                 + (IF s = o.fromAsset THEN Within(o.fromStart, o.fromEnd, total, t) ELSE 0)
    <3>1. AllGet(balance, lock, balance', lock', o.fromAsset, o.fromStart, o.fromEnd, total)
      BY <1>1, <1>3, <2>3, AllGets, SMT
    <3> QED BY <3>1 DEF AllGet
  <2>5. Within(o.fromStart, o.fromEnd, total, t) \in Int BY <1>3, SMT DEF Within
  <2> QED BY <1>5, <1>6, <2>2, <2>4, <2>5, SMT DEF Balanced
<1> QED BY <1>7, <1>8

\* Paying the price moves nothing in or out.
LEMMA PriceBalanced ==
    ASSUME SwapsInv, NEW from \in Address, NEW id \in SwapID, NEW size \in Nat, NEW ext,
           TakePays(from, id, size, ext),
           NEW s \in AssetID, NEW t \in timestamp .. TimeLockForever
    PROVE  /\ AllHave(balance, lock, s, t) \in Int
           /\ AllHave(BalanceAfterPrice(from, id, size), LockAfterPrice(from, id, size), s, t)
                = AllHave(balance, lock, s, t)
<1> DEFINE o == swaps[id].terms
           price == o.minTo * size
           b == BalanceAfterPrice(from, id, size)
           l == LockAfterPrice(from, id, size)
<1>1. AmountsInv /\ balance \in NatBalances /\ lock \in NatLocks
  BY DEF SwapsInv, AmountsInv
<1>2. swaps[id].owner \in Address /\ o.toAsset \in AssetID BY DEF SwapsInv, TakePays
<1>3. PICK c \in NatBalances, m \in NatLocks :
         /\ Gets(balance, lock, c, m, swaps[id].owner, o.toAsset, o.toStart, o.toEnd, price)
         /\ Gets(c, m, b, l, from, o.toAsset, o.toStart, o.toEnd, - price)
         /\ price \in Nat
  BY PriceGets
<1> HIDE DEF o, price, b, l
<1>4. price \in Int /\ - price \in Int BY <1>3, SMT
<1>5. AllGet(balance, lock, c, m, o.toAsset, o.toStart, o.toEnd, price)
  BY <1>1, <1>2, <1>3, <1>4, AllGets
<1>6. AllGet(c, m, b, l, o.toAsset, o.toStart, o.toEnd, - price)
  BY <1>1, <1>2, <1>3, <1>4, AllGets
<1>7. /\ Within(o.toStart, o.toEnd, price, t) \in Int
      /\ Within(o.toStart, o.toEnd, - price, t) = - Within(o.toStart, o.toEnd, price, t)
  BY <1>4, SMT DEF Within
<1>8. /\ AllHave(balance, lock, s, t) \in Int /\ AllHave(c, m, s, t) \in Int
      /\ AllHave(c, m, s, t)
           = AllHave(balance, lock, s, t)
               + (IF s = o.toAsset THEN Within(o.toStart, o.toEnd, price, t) ELSE 0)
  BY <1>5 DEF AllGet
<1>9. /\ AllHave(b, l, s, t) \in Int
      /\ AllHave(b, l, s, t)
           = AllHave(c, m, s, t)
               + (IF s = o.toAsset THEN Within(o.toStart, o.toEnd, - price, t) ELSE 0)
  BY <1>6 DEF AllGet
<1>10. AllHave(b, l, s, t) = AllHave(balance, lock, s, t) BY <1>7, <1>8, <1>9, SMT
<1> QED BY <1>8, <1>10 DEF b, l

\* The lots left and the lots taken are the lots there were.
LEMMA LotsSplit ==
    ASSUME NEW m \in Nat, NEW n \in Nat, NEW k \in Nat
    PROVE  m * (n - k) = m * n - m * k
BY SMT

\* What TakeSwap writes back.
LEMMA ShrunkSwap ==
    ASSUME SwapsInv, NEW id \in SwapID, NEW size \in Nat, RemoveOrShrink(id, size)
    PROVE  /\ \A i \in SwapID \ {id} : swaps'[i] = swaps[i]
           /\ swaps[id].terms.size = size =>
                 swaps'[id].status = "deleted" /\ swaps'[id].terms = swaps[id].terms
           /\ swaps[id].terms.size # size =>
                 /\ swaps'[id].status = swaps[id].status
                 /\ swaps'[id].terms = [swaps[id].terms EXCEPT !.size = @ - size]
           /\ swaps'[id].owner = swaps[id].owner
<1>1. swaps \in [SwapID -> Swap] /\ swaps[id] \in Swap BY DEF SwapsInv
<1>2. CASE swaps[id].terms.size = size BY <1>1, <1>2 DEF RemoveOrShrink, Swap
<1>3. CASE swaps[id].terms.size # size
  <2>1. swaps' = [swaps EXCEPT ![id] = [swaps[id] EXCEPT !.terms =
                                          [swaps[id].terms EXCEPT !.size = @ - size]]]
    BY <1>1, <1>3 DEF RemoveOrShrink
  <2> QED BY <1>1, <1>3, <2>1 DEF Swap
<1> QED BY <1>2, <1>3

\* Taking lots moves them out of escrow.
LEMMA TakeBalanced ==
    ASSUME SwapsInv, SwapsInv', NEW from \in Address, NEW id \in SwapID, NEW size \in Nat,
           NEW ext, TakeSwap(from, id, size, ext) \/ TakeUSANSwap(from, id, size, ext),
           NEW s \in AssetID, NEW t \in timestamp .. TimeLockForever
    PROVE  Balanced(s, t)
<1> DEFINE o == swaps[id].terms
           v == o.minFrom * size
           b == BalanceAfterPrice(from, id, size)
           l == LockAfterPrice(from, id, size)
<1>1. TakePays(from, id, size, ext) BY DEF TakeSwap, TakeUSANSwap
<1>2. AmountsInv /\ b \in NatBalances /\ l \in NatLocks
  BY <1>1, PriceNat DEF SwapsInv
<1>3. AllHave(balance, lock, s, t) \in Int /\ AllHave(b, l, s, t) = AllHave(balance, lock, s, t)
  BY <1>1, PriceBalanced
<1>4. o \in Terms /\ o.size \in Nat /\ o.minFrom \in Nat BY DEF SwapsInv, Swap, Terms
<1>5. v \in Nat BY <1>4, TimesNat
<1>6. /\ swaps[id].status = "live" /\ size <= o.size
      /\ RemoveOrShrink(id, size)
  BY <1>1 DEF TakePays, TakeSwapCheck
<1>7. /\ TotalEscrow(s, t) \in Int /\ TotalEscrow(s, t)' \in Int
      /\ Escrow(id, s, t) \in Int /\ Escrow(id, s, t)' \in Int
      /\ TotalEscrow(s, t)' = TotalEscrow(s, t) + Escrow(id, s, t)' - Escrow(id, s, t)
  <2>1. \A i \in SwapID \ {id} : swaps'[i] = swaps[i] BY <1>6, ShrunkSwap
  <2> QED BY <2>1, EscrowChange
<1>8. CASE TakeUSANSwap(from, id, size, ext)
  <2>1. IsUSAN(o) /\ balance' = b /\ lock' = l BY <1>8 DEF TakeUSANSwap
  <2>2. swaps'[id].terms.fromAsset = o.fromAsset
    <3>1. swaps'[id].terms = o \/ swaps'[id].terms = [o EXCEPT !.size = @ - size]
      BY <1>6, ShrunkSwap
    <3> QED BY <1>4, <3>1 DEF Terms
  <2>3. Escrow(id, s, t) = 0 BY <2>1, USANEscrow
  <2>4. Escrow(id, s, t)' = 0 BY <2>1, <2>2, SwapsAssumption DEF Escrow, IsUSAN
  <2> HIDE DEF b, l
  <2> QED BY <1>3, <1>7, <2>1, <2>3, <2>4, SMT DEF Balanced
<1>9. CASE TakeSwap(from, id, size, ext)
  <2>1. ~ IsUSAN(o) BY <1>9 DEF TakeSwap
  <2>2. balance' = CreditBalance(b, from, o, v) /\ lock' = CreditLock(l, from, o, v)
    BY <1>9 DEF TakeSwap
  <2>3. Escrow(id, s, t) - Escrow(id, s, t)'
          = IF s = o.fromAsset THEN Within(o.fromStart, o.fromEnd, v, t) ELSE 0
    <3>1. CASE o.size = size
      <4>1. Escrow(id, s, t)' = 0 BY <1>6, <3>1, ShrunkSwap DEF Escrow
      <4>2. Escrow(id, s, t)
              = IF s = o.fromAsset THEN Within(o.fromStart, o.fromEnd, v, t) ELSE 0
        BY <1>6, <3>1 DEF Escrow, Within
      <4> QED BY <1>7, <4>1, <4>2, SMT
    <3>2. CASE o.size # size
      <4> DEFINE left == [o EXCEPT !.size = @ - size]
      <4>1. swaps'[id].terms = left /\ swaps'[id].status = "live" BY <1>6, <3>2, ShrunkSwap
      <4>2. /\ left.fromAsset = o.fromAsset /\ left.fromStart = o.fromStart
            /\ left.fromEnd = o.fromEnd /\ left.minFrom = o.minFrom
            /\ left.size = o.size - size
        BY <1>4 DEF Terms
      <4> HIDE DEF left
      <4>3. o.minFrom * (o.size - size) = o.minFrom * o.size - v BY <1>4, LotsSplit
      <4>4. o.minFrom * o.size \in Nat BY <1>4, TimesNat
      <4>5. Escrow(id, s, t)
              = IF s = o.fromAsset /\ o.fromStart <= t /\ t <= o.fromEnd
                THEN o.minFrom * o.size ELSE 0
        BY <1>6 DEF Escrow
      <4>6. Escrow(id, s, t)'
              = IF s = o.fromAsset /\ o.fromStart <= t /\ t <= o.fromEnd
                THEN o.minFrom * o.size - v ELSE 0
        BY <4>1, <4>2, <4>3 DEF Escrow
      <4>7. \A i, j \in Nat : i - (i - j) = j /\ 0 - 0 = 0 BY SMT
      <4> HIDE DEF v
      <4>8. CASE s = o.fromAsset /\ o.fromStart <= t /\ t <= o.fromEnd
        <5>1. Escrow(id, s, t) = o.minFrom * o.size /\ Escrow(id, s, t)' = o.minFrom * o.size - v
          BY <4>5, <4>6, <4>8
        <5>2. o.minFrom * o.size - (o.minFrom * o.size - v) = v BY <1>5, <4>4, <4>7
        <5> QED BY <4>8, <5>1, <5>2 DEF Within
      <4>9. CASE ~(s = o.fromAsset /\ o.fromStart <= t /\ t <= o.fromEnd)
        <5>1. Escrow(id, s, t) = 0 /\ Escrow(id, s, t)' = 0 BY <4>5, <4>6, <4>9
        <5>2. 0 - 0 = 0 BY <1>5, <4>7
        <5> QED BY <4>9, <5>1, <5>2 DEF Within
      <4> QED BY <4>8, <4>9
    <3> QED BY <3>1, <3>2
  <2> HIDE DEF o, v, b, l
  <2>4. /\ o.fromAsset \in AssetID
        /\ Gets(b, l, balance', lock', from, o.fromAsset, o.fromStart, o.fromEnd, v)
    BY <1>2, <1>4, <1>5, <2>1, <2>2, CreditGets
  <2>5. AllGet(b, l, balance', lock', o.fromAsset, o.fromStart, o.fromEnd, v)
    BY <1>2, <1>5, <2>4, AllGets, SMT
  <2>6. /\ AllHave(b, l, s, t) \in Int /\ AllHave(balance', lock', s, t) \in Int
        /\ AllHave(balance', lock', s, t)
             = AllHave(b, l, s, t)
                 + (IF s = o.fromAsset THEN Within(o.fromStart, o.fromEnd, v, t) ELSE 0)
    BY <2>5 DEF AllGet
  <2> DEFINE lots == IF s = o.fromAsset THEN Within(o.fromStart, o.fromEnd, v, t) ELSE 0
  <2>7. lots \in Int BY <1>5, SMT DEF Within
  <2>8. /\ Escrow(id, s, t) - Escrow(id, s, t)' = lots
        /\ AllHave(balance', lock', s, t) = AllHave(balance, lock, s, t) + lots
    BY <1>3, <2>3, <2>6
  <2>9. AllHave(balance', lock', s, t) \in Int BY <2>6
  <2> HIDE DEF lots
  <2>10. TotalEscrow(s, t) - TotalEscrow(s, t)' = lots BY <1>7, <2>7, <2>8, SMT
  <2>11. AllHave(balance', lock', s, t) - AllHave(balance, lock, s, t) = lots
    BY <1>3, <2>7, <2>8, SMT
  <2> QED BY <1>3, <1>7, <2>9, <2>10, <2>11 DEF Balanced
<1> QED BY <1>8, <1>9

\* A swap of a notation puts nothing in escrow when it is made.
LEMMA MakeUSANBalanced ==
    ASSUME SwapsInv, SwapsInv', NEW from \in Address, NEW id \in SwapID, NEW o \in Offer,
           MakeUSANSwap(from, id, o),
           NEW s \in AssetID, NEW t \in timestamp .. TimeLockForever
    PROVE  Balanced(s, t)
<1>1. AmountsInv /\ balance \in NatBalances /\ lock \in NatLocks
  BY DEF SwapsInv, AmountsInv
<1>2. /\ \A i \in SwapID \ {id} : swaps'[i] = swaps[i]
      /\ swaps[id].status = "none"
  BY DEF MakeUSANSwap, AddSwap, SwapsInv
<1>3. swaps'[id].terms.fromAsset = OwnerUSANAssetID
  BY SwapsAssumption DEF MakeUSANSwap, AddSwap, SwapsInv, IsUSAN, Terms
<1>4. Escrow(id, s, t) = 0 BY <1>2 DEF Escrow
<1>5. Escrow(id, s, t)' = 0 BY <1>3, SwapsAssumption DEF Escrow
<1>6. /\ TotalEscrow(s, t) \in Int /\ TotalEscrow(s, t)' \in Int
      /\ TotalEscrow(s, t)' = TotalEscrow(s, t) + Escrow(id, s, t)' - Escrow(id, s, t)
  BY <1>2, EscrowChange
<1>7. AllHave(balance, lock, s, t) \in Int BY <1>1, InstantTime, AllHaveInt
<1>8. UNCHANGED <<balance, lock>> BY DEF MakeUSANSwap
<1> QED BY <1>4, <1>5, <1>6, <1>7, <1>8, SMT DEF Balanced

\* Every swap call is balanced and changes neither the time nor a total.
LEMMA StepBalanced ==
    ASSUME SwapsInv, SwapsInv', SwapStep
    PROVE  /\ \A s \in AssetID, t \in timestamp .. TimeLockForever : Balanced(s, t)
           /\ UNCHANGED <<timestamp, assets>>
<1>1. Amount \subseteq Nat BY AccountsAssumption
<1>2. \A s \in AssetID, t \in timestamp .. TimeLockForever : Balanced(s, t)
  BY <1>1, MakeBalanced, MakeUSANBalanced, RecallBalanced, TakeBalanced DEF SwapStep
<1>3. UNCHANGED <<timestamp, assets>>
  <2>1. ASSUME NEW from, NEW id, NEW o, NEW ext,
               MakeUSANSwap(from, id, o) \/ MakeSwap(from, id, o, ext)
        PROVE  UNCHANGED <<timestamp, assets>>
    BY <2>1 DEF MakeUSANSwap, MakeSwap
  <2>2. ASSUME NEW from, NEW id, RecallSwap(from, id) PROVE UNCHANGED <<timestamp, assets>>
    BY <2>2 DEF RecallSwap
  <2>3. ASSUME NEW from, NEW id, NEW size, NEW ext,
               TakeSwap(from, id, size, ext) \/ TakeUSANSwap(from, id, size, ext)
        PROVE  UNCHANGED <<timestamp, assets>>
    BY <2>3 DEF TakeSwap, TakeUSANSwap, TakePays
  <2> QED BY <2>1, <2>2, <2>3 DEF SwapStep
<1> QED BY <1>2, <1>3

\* What all accounts can spend is what AllHave adds up.
LEMMA TotalWorthIsAllHave ==
    ASSUME NEW s, NEW t
    PROVE  /\ TotalWorth(s, t) = AllHave(balance, lock, s, t)
           /\ TotalWorth(s, t)' = AllHave(balance', lock', s, t)
BY DEF TotalWorth, AllHave, Has, Worth

\* The total recorded for an asset is what accounts and escrows hold together,
\* at every instant still ahead and whatever swaps were made, taken in parts
\* and recalled.
THEOREM SwapsAlwaysConserved == SwapsSpec => []SwapsConserved
<1>1. SwapsInit => SwapsConserved
  <2> SUFFICES ASSUME SwapsInit, NEW s \in AssetID, NEW t \in timestamp .. TimeLockForever
               PROVE  TotalWorth(s, t) + TotalEscrow(s, t) = assets[s].total
    BY DEF SwapsConserved
  <2>1. t \in Time
    BY ForeverAssumption DEF SwapsInit, AssetsInit, AccountsInit, Time, TimeLockNow
  <2>2. \A a \in Address : Worth(a, s, t) = Genesis[a][s]
    BY <2>1, AccountsAssumption, SMT DEF Worth, SwapsInit, AssetsInit, AccountsInit, NoLock
  <2>3. [a \in Address |-> Worth(a, s, t)] = [a \in Address |-> Genesis[a][s]]
    BY <2>2
  <2>4. TotalWorth(s, t) = assets[s].total /\ assets[s].total \in Int
    BY <2>3, AssetsAssumption DEF TotalWorth, SwapsInit, AssetsInit, Asset
  <2>5. [id \in SwapID |-> Escrow(id, s, t)] = [id \in SwapID |-> 0]
    BY DEF Escrow, SwapsInit, NoSwap
  <2>6. TotalEscrow(s, t) = 0 BY <2>5, SumZero, SwapsAssumption DEF TotalEscrow
  <2>7. \A i \in Int : i + 0 = i BY SMT
  <2> QED BY <2>4, <2>6, <2>7
<1>2. SwapsInv /\ SwapsInv' /\ SwapsConserved /\ [SwapsNext]_swapVars => SwapsConserved'
  <2> SUFFICES ASSUME SwapsInv, SwapsInv', SwapsConserved, [SwapsNext]_swapVars
               PROVE  SwapsConserved'
    OBVIOUS
  <2>1. CASE SwapStep
    <3> SUFFICES ASSUME NEW s \in AssetID, NEW t \in timestamp' .. TimeLockForever
                 PROVE  TotalWorth(s, t)' + TotalEscrow(s, t)' = assets'[s].total
      BY DEF SwapsConserved
    <3>1. UNCHANGED <<timestamp, assets>> BY <2>1, StepBalanced
    <3>2. t \in timestamp .. TimeLockForever BY <3>1
    <3>3. Balanced(s, t) BY <2>1, <3>2, StepBalanced
    <3>4. AllHave(balance, lock, s, t) + TotalEscrow(s, t) = assets[s].total
      BY <3>2, TotalWorthIsAllHave DEF SwapsConserved
    <3>5. AllHave(balance', lock', s, t) + TotalEscrow(s, t)'
            = AllHave(balance, lock, s, t) + TotalEscrow(s, t)
      BY <3>3, SMT DEF Balanced
    <3> QED BY <3>1, <3>4, <3>5, TotalWorthIsAllHave
  <2>2. CASE NewBlock /\ UNCHANGED <<assets, notationVars, swaps>>
    <3>1. timestamp \in Int /\ timestamp' \in Int /\ timestamp' >= timestamp
      BY <2>2, AccountsAssumption, ForeverAssumption, SMT DEF NewBlock, SwapsInv, AmountsInv
    <3>2. \A t \in timestamp' .. TimeLockForever : t \in timestamp .. TimeLockForever
      BY <3>1, ForeverAssumption, SMT
    <3>3. \A s \in AssetID, t \in timestamp .. TimeLockForever :
             TotalWorth(s, t)' = TotalWorth(s, t) /\ TotalEscrow(s, t)' = TotalEscrow(s, t)
      BY <2>2, ZenonT(40) DEF NewBlock, TotalWorth, Worth, TotalEscrow, Escrow
    <3> QED BY <2>2, <3>2, <3>3 DEF SwapsConserved
  <2>3. CASE UNCHANGED <<balance, lock, timestamp, assets, swaps>>
    BY <2>3, SMT DEF SwapsConserved, TotalWorth, Worth, TotalEscrow, Escrow
  <2> QED BY <2>1, <2>2, <2>3 DEF SwapsNext, swapVars
<1> QED BY <1>1, <1>2, SwapsInvHolds, PTL DEF SwapsSpec

-----------------------------------------------------------------------------
(* The maker is made whole *)

\* A live swap has lots left.
LotsInv == \A id \in SwapID : swaps[id].status = "live" => swaps[id].terms.size > 0

\* There are lots in a swap when it is made, and it goes with the last one.
LEMMA LotsStep ==
    ASSUME SwapsInv, LotsInv, [SwapsNext]_swapVars
    PROVE  LotsInv'
<1>1. ASSUME NEW from \in Address, NEW id \in SwapID, NEW o \in Offer, NEW ext,
             MakeUSANSwap(from, id, o) \/ MakeSwap(from, id, o, ext)
      PROVE  LotsInv'
  <2>1. o \in Terms /\ swaps \in [SwapID -> Swap] BY SwapsAssumption DEF SwapsInv
  <2>2. \A i \in SwapID \ {id} : swaps'[i] = swaps[i]
    BY <1>1, <2>1 DEF MakeUSANSwap, MakeSwap, AddSwap
  <2>3. swaps'[id].terms.size > 0
    <3>1. CASE MakeUSANSwap(from, id, o)
      BY <2>1, <3>1, SMT DEF MakeUSANSwap, AddSwap, Terms
    <3>2. CASE MakeSwap(from, id, o, ext)
      <4>1. swaps'[id].terms = o BY <2>1, <3>2 DEF MakeSwap, AddSwap
      <4> QED BY <3>2, <4>1 DEF MakeSwap, MakeSwapCheck
    <3> QED BY <1>1, <3>1, <3>2
  <2> QED BY <2>2, <2>3 DEF LotsInv
<1>2. ASSUME NEW from \in Address, NEW id \in SwapID, RecallSwap(from, id) PROVE LotsInv'
  BY <1>2 DEF RecallSwap, LotsInv, SwapsInv, Swap
<1>3. ASSUME NEW from \in Address, NEW id \in SwapID, NEW size \in Amount, NEW ext,
             TakeSwap(from, id, size, ext) \/ TakeUSANSwap(from, id, size, ext)
      PROVE  LotsInv'
  <2>1. /\ size \in Nat /\ size <= swaps[id].terms.size
        /\ swaps[id].terms \in Terms /\ RemoveOrShrink(id, size)
    BY <1>3, AccountsAssumption DEF TakeSwap, TakeUSANSwap, TakePays, TakeSwapCheck, SwapsInv, Swap
  <2>2. \A i \in SwapID \ {id} : swaps'[i] = swaps[i] BY <2>1, ShrunkSwap
  <2>3. swaps'[id].status = "live" => swaps'[id].terms.size > 0
    <3>1. CASE swaps[id].terms.size = size BY <2>1, <3>1, ShrunkSwap
    <3>2. CASE swaps[id].terms.size # size
      <4>1. swaps'[id].terms = [swaps[id].terms EXCEPT !.size = @ - size]
        BY <2>1, <3>2, ShrunkSwap
      <4> QED BY <2>1, <3>2, <4>1, SMT DEF Terms
    <3> QED BY <3>1, <3>2
  <2> QED BY <2>2, <2>3 DEF LotsInv
<1>4. CASE UNCHANGED swaps BY <1>4 DEF LotsInv
<1>5. CASE SwapStep BY <1>1, <1>2, <1>3, <1>5 DEF SwapStep
<1>6. SwapsNext => SwapStep \/ UNCHANGED swaps BY DEF SwapsNext
<1> QED BY <1>4, <1>5, <1>6 DEF swapVars

\* One swap is kept, or its maker is made whole.
MadeWhole(id) ==
    LET o == swaps[id].terms
        lots == LotsGone(id)
        owner == swaps[id].owner
    IN  swaps[id].status = "live" /\ ~ IsUSAN(o) /\ swaps'[id] # swaps[id] =>
           /\ lots > 0
           /\ \/ Gains(owner, o.fromAsset, o.fromStart, o.fromEnd, o.minFrom * lots)
              \/ Gains(owner, o.toAsset, o.toStart, o.toEnd, o.minTo * lots)

\* A recall gives the maker all lots that are left.
LEMMA RecallMadeWhole ==
    ASSUME SwapsInv, LotsInv, NEW from \in Address, NEW id \in SwapID,
           RecallSwap(from, id), ~ IsUSAN(swaps[id].terms)
    PROVE  MadeWhole(id)
<1> DEFINE o == swaps[id].terms
           total == o.minFrom * o.size
<1>1. AmountsInv /\ balance \in NatBalances /\ lock \in NatLocks
  BY DEF SwapsInv, AmountsInv
<1>2. o \in Terms /\ o.size \in Nat /\ ~ IsUSAN(o) BY DEF SwapsInv, Swap, Terms
<1>3. total \in Nat BY <1>2, TimesNat DEF Terms
<1>4. /\ swaps'[id].status = "deleted" /\ swaps[id].status = "live"
      /\ swaps'[id].terms = o /\ swaps'[id].owner = swaps[id].owner
      /\ swaps[id].owner = from
  BY DEF RecallSwap, SwapsInv, Swap
<1>5. LotsGone(id) = o.size /\ o.size > 0 BY <1>4 DEF LotsGone, LotsInv
<1>6. /\ balance' = CreditBalance(balance, from, o, total)
      /\ lock' = CreditLock(lock, from, o, total)
  BY DEF RecallSwap
<1>7. /\ o.fromAsset \in AssetID
      /\ Gets(balance, lock, balance', lock', from, o.fromAsset, o.fromStart, o.fromEnd, total)
  <2> HIDE DEF o, total
  <2> QED BY <1>1, <1>2, <1>3, <1>6, CreditGets
<1>8. ASSUME NEW t \in timestamp .. TimeLockForever
      PROVE  Has(balance', lock', from, o.fromAsset, t) - Has(balance, lock, from, o.fromAsset, t)
               = IF o.fromStart <= t /\ t <= o.fromEnd THEN total ELSE 0
  <2> HIDE DEF o, total
  <2>1. Has(balance, lock, from, o.fromAsset, t) \in Nat BY <1>1, <1>7, InstantTime, HasNat
  <2>2. Has(balance', lock', from, o.fromAsset, t)
          = Has(balance, lock, from, o.fromAsset, t) + Within(o.fromStart, o.fromEnd, total, t)
    BY <1>7 DEF Gets
  <2> QED BY <1>3, <2>1, <2>2, SMT DEF Within
<1>9. Gains(swaps[id].owner, o.fromAsset, o.fromStart, o.fromEnd, o.minFrom * LotsGone(id))
  BY <1>4, <1>5, <1>8 DEF Gains, Worth, Has
<1> QED BY <1>5, <1>9 DEF MadeWhole

\* A taker pays the maker for the lots; a maker who takes them has them back.
LEMMA TakeMadeWhole ==
    ASSUME SwapsInv, NEW from \in Address, NEW id \in SwapID, NEW size \in Nat, NEW ext,
           TakeSwap(from, id, size, ext)
    PROVE  MadeWhole(id)
<1> DEFINE o == swaps[id].terms
           v == o.minFrom * size
           price == o.minTo * size
           owner == swaps[id].owner
           b == BalanceAfterPrice(from, id, size)
           l == LockAfterPrice(from, id, size)
<1>1. TakePays(from, id, size, ext) /\ ~ IsUSAN(o) BY DEF TakeSwap
<1>2. AmountsInv /\ b \in NatBalances /\ l \in NatLocks BY <1>1, PriceNat DEF SwapsInv
<1>3. balance \in NatBalances /\ lock \in NatLocks BY DEF SwapsInv, AmountsInv
<1>4. o \in Terms /\ o.size \in Nat /\ o.minFrom \in Nat BY DEF SwapsInv, Swap, Terms
<1>5. v \in Nat BY <1>4, TimesNat
<1>6. owner \in Address /\ o.toAsset \in AssetID BY <1>1 DEF SwapsInv, TakePays
<1>7. /\ swaps[id].status = "live" /\ size > 0 /\ size <= o.size
      /\ RemoveOrShrink(id, size)
  BY <1>1 DEF TakePays, TakeSwapCheck
<1>8. /\ swaps'[id].owner = owner
      /\ swaps'[id].terms.fromAsset = o.fromAsset /\ swaps'[id].terms.toAsset = o.toAsset
      /\ LotsGone(id) = size
  <2>1. swaps'[id].owner = owner BY <1>7, ShrunkSwap
  <2>2. CASE o.size = size
    BY <1>7, <2>1, <2>2, ShrunkSwap DEF LotsGone
  <2>3. CASE o.size # size
    <3>1. swaps'[id].terms = [o EXCEPT !.size = @ - size] /\ swaps'[id].status = "live"
      BY <1>7, <2>3, ShrunkSwap
    <3>2. /\ swaps'[id].terms.size = o.size - size
          /\ swaps'[id].terms.fromAsset = o.fromAsset /\ swaps'[id].terms.toAsset = o.toAsset
      BY <1>4, <3>1 DEF Terms
    <3>3. LotsGone(id) = o.size - (o.size - size) BY <3>1, <3>2 DEF LotsGone
    <3>4. o.size - (o.size - size) = size BY <1>4, SMT
    <3> QED BY <2>1, <3>2, <3>3, <3>4
  <2> QED BY <2>2, <2>3
<1>9. PICK c \in NatBalances, m \in NatLocks :
         /\ Gets(balance, lock, c, m, owner, o.toAsset, o.toStart, o.toEnd, price)
         /\ Gets(c, m, b, l, from, o.toAsset, o.toStart, o.toEnd, - price)
         /\ price \in Nat
  BY <1>1, PriceGets
<1>10. balance' = CreditBalance(b, from, o, v) /\ lock' = CreditLock(l, from, o, v)
  BY DEF TakeSwap
<1>11. /\ o.fromAsset \in AssetID
       /\ Gets(b, l, balance', lock', from, o.fromAsset, o.fromStart, o.fromEnd, v)
  <2> HIDE DEF o, v, b, l
  <2> QED BY <1>1, <1>2, <1>4, <1>5, <1>10, CreditGets
<1>12. ASSUME NEW r \in AssetID, NEW t \in timestamp .. TimeLockForever
       PROVE  /\ Has(balance, lock, owner, r, t) \in Int
              /\ Has(balance', lock', owner, r, t) - Has(balance, lock, owner, r, t)
                   = (IF r = o.toAsset /\ from # owner
                      THEN Within(o.toStart, o.toEnd, price, t) ELSE 0)
                     + (IF r = o.fromAsset /\ from = owner
                        THEN Within(o.fromStart, o.fromEnd, v, t) ELSE 0)
  <2> HIDE DEF o, v, price, owner, b, l
  <2> DEFINE toGain == IF r = o.toAsset THEN Within(o.toStart, o.toEnd, price, t) ELSE 0
             toLoss == IF owner = from /\ r = o.toAsset
                       THEN Within(o.toStart, o.toEnd, - price, t) ELSE 0
             lotGain == IF owner = from /\ r = o.fromAsset
                        THEN Within(o.fromStart, o.fromEnd, v, t) ELSE 0
  <2>1. Has(balance, lock, owner, r, t) \in Int
    <3>1. t \in Time BY <1>2, InstantTime
    <3>2. Has(balance, lock, owner, r, t) \in Nat BY <1>3, <1>6, <3>1, HasNat
    <3> QED BY <3>2, SMT
  <2>2. Has(c, m, owner, r, t) = Has(balance, lock, owner, r, t) + toGain
    BY <1>6, <1>9 DEF Gets
  <2>3. Has(b, l, owner, r, t) = Has(c, m, owner, r, t) + toLoss BY <1>6, <1>9 DEF Gets
  <2>4. Has(balance', lock', owner, r, t) = Has(b, l, owner, r, t) + lotGain
    BY <1>6, <1>11 DEF Gets
  <2>5. /\ Within(o.toStart, o.toEnd, price, t) \in Int
        /\ Within(o.fromStart, o.fromEnd, v, t) \in Int
        /\ Within(o.toStart, o.toEnd, - price, t) = - Within(o.toStart, o.toEnd, price, t)
    BY <1>5, <1>9, SMT DEF Within
  <2>6. toGain \in Int /\ toLoss \in Int /\ lotGain \in Int BY <2>5, SMT
  <2>7. toGain + toLoss = IF r = o.toAsset /\ from # owner
                          THEN Within(o.toStart, o.toEnd, price, t) ELSE 0
    BY <2>5, SMT
  <2>8. \A h, i, j, k \in Int : ((h + i) + j) + k - h = (i + j) + k BY SMT
  <2>9. Has(balance', lock', owner, r, t) - Has(balance, lock, owner, r, t)
          = (toGain + toLoss) + lotGain
    <3> HIDE DEF toGain, toLoss, lotGain
    <3> QED BY <2>1, <2>2, <2>3, <2>4, <2>6, <2>8, SMT
  <2> QED BY <2>1, <2>7, <2>9
<1>13. CASE from = owner
  <2>1. ASSUME NEW t \in timestamp .. TimeLockForever
        PROVE  Has(balance', lock', owner, o.fromAsset, t) - Has(balance, lock, owner, o.fromAsset, t)
                 = IF o.fromStart <= t /\ t <= o.fromEnd THEN v ELSE 0
    <3> HIDE DEF o, v, price, owner
    <3>1. Within(o.fromStart, o.fromEnd, v, t) \in Int BY <1>5, SMT DEF Within
    <3>2. Has(balance', lock', owner, o.fromAsset, t) - Has(balance, lock, owner, o.fromAsset, t)
            = 0 + Within(o.fromStart, o.fromEnd, v, t)
      BY <1>11, <1>12, <1>13
    <3> QED BY <3>1, <3>2, SMT DEF Within
  <2>2. Gains(owner, o.fromAsset, o.fromStart, o.fromEnd, o.minFrom * LotsGone(id))
    BY <1>8, <2>1 DEF Gains, Worth, Has
  <2> QED BY <1>7, <1>8, <2>2 DEF MadeWhole
<1>14. CASE from # owner
  <2>1. ASSUME NEW t \in timestamp .. TimeLockForever
        PROVE  Has(balance', lock', owner, o.toAsset, t) - Has(balance, lock, owner, o.toAsset, t)
                 = IF o.toStart <= t /\ t <= o.toEnd THEN price ELSE 0
    <3> HIDE DEF o, v, price, owner
    <3>1. Within(o.toStart, o.toEnd, price, t) \in Int BY <1>9, SMT DEF Within
    <3>2. Has(balance', lock', owner, o.toAsset, t) - Has(balance, lock, owner, o.toAsset, t)
            = Within(o.toStart, o.toEnd, price, t) + 0
      BY <1>6, <1>12, <1>14
    <3> QED BY <3>1, <3>2, SMT DEF Within
  <2>2. Gains(owner, o.toAsset, o.toStart, o.toEnd, o.minTo * LotsGone(id))
    BY <1>8, <2>1 DEF Gains, Worth, Has
  <2> QED BY <1>7, <1>8, <2>2 DEF MadeWhole
<1> QED BY <1>13, <1>14

\* No lot leaves an escrow without the maker's getting its price, or the lot.
THEOREM MakersMadeWhole == SwapsSpec => OwnerMadeWhole
<1>1. SwapsInit => LotsInv BY SMT DEF SwapsInit, NoSwap, LotsInv
<1>2. SwapsInv /\ LotsInv /\ [SwapsNext]_swapVars => LotsInv' BY LotsStep
<1>3. SwapsInv /\ LotsInv /\ [SwapsNext]_swapVars => [\A id \in SwapID : MadeWhole(id)]_swapVars
  <2> SUFFICES ASSUME SwapsInv, LotsInv, SwapsNext, NEW id \in SwapID,
                      swaps[id].status = "live", ~ IsUSAN(swaps[id].terms),
                      swaps'[id] # swaps[id]
               PROVE  MadeWhole(id)
    BY DEF MadeWhole
  <2>1. swaps \in [SwapID -> Swap] BY DEF SwapsInv
  <2>2. PICK from \in Address, j \in SwapID :
           \/ \E o \in Offer : MakeUSANSwap(from, j, o)
           \/ \E o \in Offer, ext \in BOOLEAN : MakeSwap(from, j, o, ext)
           \/ RecallSwap(from, j)
           \/ \E size \in Amount, ext \in BOOLEAN :
                 TakeSwap(from, j, size, ext) \/ TakeUSANSwap(from, j, size, ext)
    BY DEF SwapsNext, SwapStep
  <2>3. ASSUME NEW o \in Offer, NEW ext,
               MakeUSANSwap(from, j, o) \/ MakeSwap(from, j, o, ext)
        PROVE  FALSE
    BY <2>1, <2>3 DEF MakeUSANSwap, MakeSwap, AddSwap
  <2>4. CASE RecallSwap(from, j)
    <3>1. j = id BY <2>1, <2>4 DEF RecallSwap
    <3> QED BY <2>4, <3>1, RecallMadeWhole
  <2>5. ASSUME NEW size \in Amount, NEW ext,
               TakeSwap(from, j, size, ext) \/ TakeUSANSwap(from, j, size, ext)
        PROVE  MadeWhole(id)
    <3>1. size \in Nat /\ RemoveOrShrink(j, size)
      BY <2>5, AccountsAssumption DEF TakeSwap, TakeUSANSwap, TakePays
    <3>2. j = id BY <3>1, ShrunkSwap
    <3>3. TakeSwap(from, id, size, ext) BY <2>5, <3>2 DEF TakeUSANSwap
    <3> QED BY <3>1, <3>3, TakeMadeWhole
  <2> QED BY <2>2, <2>3, <2>4, <2>5
<1>4. [][\A id \in SwapID : MadeWhole(id)]_swapVars <=> OwnerMadeWhole
  BY DEF OwnerMadeWhole, MadeWhole
<1> QED BY <1>1, <1>2, <1>3, <1>4, SwapsInvHolds, PTL DEF SwapsSpec
============================================================================
