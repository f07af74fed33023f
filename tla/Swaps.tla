------------------------------- MODULE Swaps -------------------------------
(***************************************************************************)
(* Swaps (handleFsnCall in core/state_transition.go: MakeSwapFunc(Ext),    *)
(* RecallSwapFunc, TakeSwapFunc(Ext)).  The maker puts size lots of one    *)
(* asset, free or time-locked, in escrow; anyone takes some of the lots    *)
(* for the price per lot; the maker may recall what is left.  A swap whose *)
(* from-asset is USAN offers the maker's notation and escrows nothing.     *)
(***************************************************************************)
EXTENDS Assets, Notation

CONSTANTS
    OwnerUSANAssetID,  \* the pseudo asset that stands for a notation
    SwapID,
    Offer              \* the terms a maker may propose

\* The terms of a swap; free balance is the range of all time.
Terms == [fromAsset : AssetID \cup {OwnerUSANAssetID}, fromStart : Time, fromEnd : Time,
          minFrom : Nat, toAsset : AssetID \cup {OwnerUSANAssetID}, toStart : Time,
          toEnd : Time, minTo : Nat, size : Nat]

ASSUME SwapsAssumption ==
    /\ OwnerUSANAssetID \notin AssetID
    /\ IsFiniteSet(SwapID)
    /\ Offer \subseteq Terms /\ Offer # {}

VARIABLE swaps  \* the records under SwapKeyAddress

swapVars == <<balance, lock, timestamp, assets, notation, lookup, count, swaps>>

\* status: "none" (no record), "live" or "deleted".
Swap == [status : {"none", "live", "deleted"}, owner : Address \cup {Nobody},
         terms : Terms, notation : Nat]

NoSwap == [status |-> "none", owner |-> Nobody, terms |-> CHOOSE o \in Offer : TRUE,
           notation |-> 0]

SwapsInit ==
    /\ AssetsInit /\ NotationInit
    /\ swaps = [id \in SwapID |-> NoSwap]

IsUSAN(o) == o.fromAsset = OwnerUSANAssetID

-----------------------------------------------------------------------------
(* Paying from a time lock.  When the lock falls short the Ext calls turn   *)
(* free balance into a time lock first; the legacy calls fail.              *)

Short(a, s, start, end, v) ==
    /\ ~ UseAsset(start, end)
    /\ SpanIsValid(Clip(start), end, v)
    /\ ~ Covers(lock[a][s], Clip(start), end, v)

CanPay(a, s, start, end, v, ext) ==
    /\ UseAsset(start, end) => balance[a][s] >= v
    /\ Short(a, s, start, end, v) => ext /\ balance[a][s] >= v

\* The balances once the shortfall is made up.
ToppedBalance(a, s, start, end, v) ==
    IF Short(a, s, start, end, v) THEN SubBalance(balance, a, s, v) ELSE balance
ToppedLock(a, s, start, end, v) ==
    IF Short(a, s, start, end, v) THEN AddTimeLockBalance(lock, a, s, Whole(v)) ELSE lock

\* What v in start..end is as a time lock now: nothing once end has passed.
Need(start, end, v) ==
    IF SpanIsValid(Clip(start), end, v) THEN Span(Clip(start), end, v) ELSE NoLock

-----------------------------------------------------------------------------
(* Making a swap *)

\* MakeSwapParam.Check, and the tests on the to-asset.
MakeSwapCheck(o) ==
    /\ o.minFrom > 0 /\ o.minTo > 0 /\ o.size > 0
    /\ o.fromStart <= o.fromEnd /\ o.toStart <= o.toEnd
    /\ o.fromEnd > timestamp /\ o.toEnd > timestamp
    /\ o.toAsset # OwnerUSANAssetID /\ assets[o.toAsset].known

AddSwap(id, from, o) ==
    swaps' = [swaps EXCEPT ![id] =
                [status |-> "live", owner |-> from, terms |-> o, notation |-> notation[from]]]

\* A notation is one lot of one, free.
MakeUSANSwap(from, id, o) ==
    /\ swaps[id].status = "none"
    /\ MakeSwapCheck(o) /\ IsUSAN(o)
    /\ notation[from] # 0
    /\ AddSwap(id, from, [o EXCEPT !.minFrom = 1, !.size = 1,
                                   !.fromStart = TimeLockNow, !.fromEnd = TimeLockForever])
    /\ UNCHANGED <<balance, lock, timestamp, assets, notationVars>>

MakeSwap(from, id, o, ext) ==
    /\ swaps[id].status = "none"
    /\ MakeSwapCheck(o) /\ ~ IsUSAN(o)
    /\ LET s == o.fromAsset
           total == o.minFrom * o.size
           free == UseAsset(o.fromStart, o.fromEnd)
           b == ToppedBalance(from, s, o.fromStart, o.fromEnd, total)
           l == ToppedLock(from, s, o.fromStart, o.fromEnd, total)
           need == Need(o.fromStart, o.fromEnd, total)
       IN  /\ free \/ SpanIsValid(Clip(o.fromStart), o.fromEnd, total)
           /\ CanPay(from, s, o.fromStart, o.fromEnd, total, ext)
           /\ balance' = IF free THEN SubBalance(b, from, s, total) ELSE b
           /\ lock' = IF free THEN l ELSE SubTimeLockBalance(l, from, s, need)
    /\ AddSwap(id, from, o)
    /\ UNCHANGED <<timestamp, assets, notationVars>>

-----------------------------------------------------------------------------
(* Recalling and taking *)

\* v of the from-asset comes out of escrow to account a.
CreditBalance(b, a, o, v) ==
    IF UseAsset(o.fromStart, o.fromEnd) THEN AddBalance(b, a, o.fromAsset, v) ELSE b
CreditLock(l, a, o, v) ==
    IF UseAsset(o.fromStart, o.fromEnd) THEN l
    ELSE AddTimeLockBalance(l, a, o.fromAsset, Need(o.fromStart, o.fromEnd, v))

\* Mutant: anyone may recall.
RecallSwapAnyone(from, id) ==
    /\ swaps[id].status = "live"
    /\ swaps' = [swaps EXCEPT ![id].status = "deleted"]
    /\ LET o == swaps[id].terms
           total == o.minFrom * o.size
       IN  /\ balance' = IF IsUSAN(o) THEN balance ELSE CreditBalance(balance, from, o, total)
           /\ lock' = IF IsUSAN(o) THEN lock ELSE CreditLock(lock, from, o, total)
    /\ UNCHANGED <<timestamp, assets, notationVars>>

RecallSwap(from, id) ==
    /\ swaps[id].status = "live" /\ swaps[id].owner = from
    /\ swaps' = [swaps EXCEPT ![id].status = "deleted"]
    /\ LET o == swaps[id].terms
           total == o.minFrom * o.size
       IN  /\ balance' = IF IsUSAN(o) THEN balance ELSE CreditBalance(balance, from, o, total)
           /\ lock' = IF IsUSAN(o) THEN lock ELSE CreditLock(lock, from, o, total)
    /\ UNCHANGED <<timestamp, assets, notationVars>>

\* TakeSwapParam.Check.
TakeSwapCheck(o, size) ==
    /\ size > 0 /\ size <= o.size
    /\ o.fromEnd > timestamp /\ o.toEnd > timestamp

\* The taker pays the price to the owner: the owner is credited first.
PaidBalance(b, from, owner, o, v) ==
    IF UseAsset(o.toStart, o.toEnd)
    THEN SubBalance(AddBalance(b, owner, o.toAsset, v), from, o.toAsset, v) ELSE b
PaidLock(l, from, owner, o, v) ==
    IF UseAsset(o.toStart, o.toEnd) THEN l
    ELSE LET need == Need(o.toStart, o.toEnd, v)
         IN  SubTimeLockBalance(AddTimeLockBalance(l, owner, o.toAsset, need),
                                from, o.toAsset, need)

RemoveOrShrink(id, size) ==
    swaps' = IF swaps[id].terms.size = size
             THEN [swaps EXCEPT ![id].status = "deleted"]
             ELSE [swaps EXCEPT ![id].terms.size = @ - size]

TakePays(from, id, size, ext) ==
    /\ swaps[id].status = "live"
    /\ TakeSwapCheck(swaps[id].terms, size)
    /\ LET o == swaps[id].terms
       IN  CanPay(from, o.toAsset, o.toStart, o.toEnd, o.minTo * size, ext)
    /\ RemoveOrShrink(id, size)
    /\ UNCHANGED <<timestamp, assets, count>>

BalanceAfterPrice(from, id, size) ==
    LET o == swaps[id].terms
        price == o.minTo * size
    IN  PaidBalance(ToppedBalance(from, o.toAsset, o.toStart, o.toEnd, price),
                    from, swaps[id].owner, o, price)
LockAfterPrice(from, id, size) ==
    LET o == swaps[id].terms
        price == o.minTo * size
    IN  PaidLock(ToppedLock(from, o.toAsset, o.toStart, o.toEnd, price),
                 from, swaps[id].owner, o, price)

TakeSwap(from, id, size, ext) ==
    /\ ~ IsUSAN(swaps[id].terms)
    /\ TakePays(from, id, size, ext)
    /\ LET o == swaps[id].terms
       IN  /\ balance' = CreditBalance(BalanceAfterPrice(from, id, size), from, o, o.minFrom * size)
           /\ lock' = CreditLock(LockAfterPrice(from, id, size), from, o, o.minFrom * size)
    /\ UNCHANGED <<notation, lookup>>

\* The price has been paid and the swap removed when TransferNotation is
\* called: if it failed, a block being imported would keep that.
TakeUSANSwap(from, id, size, ext) ==
    /\ IsUSAN(swaps[id].terms)
    /\ notation[swaps[id].owner] # 0 /\ notation[swaps[id].owner] = swaps[id].notation
    /\ TakePays(from, id, size, ext)
    /\ balance' = BalanceAfterPrice(from, id, size)
    /\ lock' = LockAfterPrice(from, id, size)
    /\ LET n == swaps[id].notation
           owner == swaps[id].owner
       IN  IF CanTransfer(n, owner)
           THEN /\ lookup' = TransferredLookup(n, from)
                /\ notation' = TransferredNotation(n, owner, from)
           ELSE UNCHANGED <<notation, lookup>>

-----------------------------------------------------------------------------
SwapStep ==
    \E from \in Address, id \in SwapID :
        \/ \E o \in Offer : MakeUSANSwap(from, id, o)
        \/ \E o \in Offer, ext \in BOOLEAN : MakeSwap(from, id, o, ext)
        \/ RecallSwap(from, id)
        \/ \E size \in Amount, ext \in BOOLEAN :
              \/ TakeSwap(from, id, size, ext)
              \/ TakeUSANSwap(from, id, size, ext)

SwapsNext ==
    \/ NewBlock /\ UNCHANGED <<assets, notationVars, swaps>>
    \/ \E a \in Address : GenNotation(a) /\ UNCHANGED <<balance, lock, timestamp, assets, swaps>>
    \/ SwapStep

SwapsSpec == SwapsInit /\ [][SwapsNext]_swapVars

-----------------------------------------------------------------------------
(* Properties *)

\* Variables hold what the Go variables can hold.
SwapsTypeOK ==
    /\ AssetsTypeOK /\ NotationTypeOK
    /\ swaps \in [SwapID -> Swap]

\* What swap id holds in escrow of asset s for instant t.
Escrow(id, s, t) ==
    LET o == swaps[id].terms
    IN  IF swaps[id].status = "live" /\ o.fromAsset = s /\ o.fromStart <= t /\ t <= o.fromEnd
        THEN o.minFrom * o.size ELSE 0

TotalEscrow(s, t) == SumFunction([id \in SwapID |-> Escrow(id, s, t)])

\* Swaps only move value: at every instant still ahead, balances, time locks and
\* escrows of an asset add up to its total, through partial takes, recalls after
\* time has eaten part of the range, self-takes and the Ext calls' conversions.
SwapsConserved ==
    \A s \in AssetID : \A t \in timestamp .. TimeLockForever :
        TotalWorth(s, t) + TotalEscrow(s, t) = assets[s].total

\* Account a gains exactly v of asset s at the instants of start..end that are
\* not over, and nothing at others.
Gains(a, s, start, end, v) ==
    \A t \in timestamp .. TimeLockForever :
        Worth(a, s, t)' - Worth(a, s, t) = IF start <= t /\ t <= end THEN v ELSE 0

LotsGone(id) ==
    IF swaps'[id].status = "live" THEN swaps[id].terms.size - swaps'[id].terms.size
                                  ELSE swaps[id].terms.size

\* No lot leaves an escrow unless the maker is made whole in the same step: by
\* the price of the lots when they are taken, by the lots themselves when the
\* maker recalls or takes them.
OwnerMadeWhole ==
    [][\A id \in SwapID :
         LET o == swaps[id].terms
             lots == LotsGone(id)
             owner == swaps[id].owner
         IN  swaps[id].status = "live" /\ ~ IsUSAN(o) /\ swaps'[id] # swaps[id] =>
                /\ lots > 0
                /\ \/ Gains(owner, o.fromAsset, o.fromStart, o.fromEnd, o.minFrom * lots)
                   \/ Gains(owner, o.toAsset, o.toStart, o.toEnd, o.minTo * lots)]_swapVars
=============================================================================
