----------------------------- MODULE MultiSwaps -----------------------------
(***************************************************************************)
(* Multi swaps (handleFsnCall in core/state_transition.go:                 *)
(* MakeMultiSwapFunc, RecallMultiSwapFunc, TakeMultiSwapFunc): several     *)
(* legs on either side, of one asset or of several, free or time-locked.   *)
(* A payer's legs are first checked against a copy of the balances, then   *)
(* deducted from the state one by one; an error half way would leave what  *)
(* was deducted before it.                                                 *)
(***************************************************************************)
EXTENDS Assets, Sequences, SequencesExt

CONSTANTS
    SwapID,
    Offer       \* the terms a maker may propose

Leg == [asset : AssetID, start : Time, end : Time, min : Nat]

MultiSwapsAssumption ==
    /\ Offer # {}
    /\ \A o \in Offer :
         /\ \A i \in 1 .. Len(o.from) : o.from[i] \in Leg
         /\ \A i \in 1 .. Len(o.to) : o.to[i] \in Leg

VARIABLES
    swaps,      \* the records under MultiSwapKeyAddress
    panicked    \* a call has panicked and nothing recovers: the process is gone

multiVars == <<balance, lock, timestamp, assets, swaps, panicked>>

NoSwap == [status |-> "none", owner |-> Nobody, terms |-> CHOOSE o \in Offer : TRUE]

MultiInit == AssetsInit /\ swaps = [id \in SwapID |-> NoSwap] /\ panicked = FALSE

-----------------------------------------------------------------------------
(* What an account has, and what is left of it once a leg is paid *)

Purse(a) == [ok |-> TRUE, free |-> balance[a], lock |-> lock[a]]

Free(leg) == UseAsset(leg.start, leg.end)
Valid(leg, v) == SpanIsValid(Clip(leg.start), leg.end, v)
Needed(leg, v) == IF Valid(leg, v) THEN Span(Clip(leg.start), leg.end, v) ELSE NoLock

\* The lock does not cover the leg: free balance has to be turned into one.
Short(purse, leg, v) == ~ Covers(purse.lock[leg.asset], Clip(leg.start), leg.end, v)

\* A time lock that is written to the state loses what has expired.
Written(l, stored) == IF stored THEN Expire(l, timestamp) ELSE l

\* What is left when v is paid for a leg, on a copy or from the state (stored).
PayLeg(purse, leg, v, stored) ==
    LET s == leg.asset
        short == ~ Free(leg) /\ Short(purse, leg, v)
        locked == IF short THEN Written(Plus(purse.lock[s], Whole(v)), stored) ELSE purse.lock[s]
    IN  CASE ~ purse.ok \/ ~ (Free(leg) \/ Valid(leg, v)) -> purse
          [] (Free(leg) \/ short) /\ purse.free[s] < v -> [purse EXCEPT !.ok = FALSE]
          [] OTHER ->
               [purse EXCEPT
                  !.free[s] = IF Free(leg) \/ short THEN @ - v ELSE @,
                  !.lock[s] = IF Free(leg) THEN @ ELSE Written(Minus(locked, Needed(leg, v)), stored)]

\* Mutant: every leg is checked against all of the balance.
CheckedEach(a, legs, size) ==
    \A i \in 1 .. Len(legs) : PayLeg(Purse(a), legs[i], legs[i].min * size, FALSE).ok

\* The loop that checks all legs, on copies that nothing expires.
Checked(a, legs, size) ==
    FoldLeft(LAMBDA p, leg : PayLeg(p, leg, leg.min * size, FALSE), Purse(a), legs).ok

\* The loop that deducts them from the state; it stops at a leg that cannot be paid.
Deducted(a, legs, size) ==
    FoldLeft(LAMBDA p, leg : PayLeg(p, leg, leg.min * size, TRUE), Purse(a), legs)

\* The loop that credits legs to an account; a range that is over gives nothing.
CreditLeg(purse, leg, v) ==
    IF Free(leg) THEN [purse EXCEPT !.free[leg.asset] = @ + v]
    ELSE IF Valid(leg, v)
      THEN [purse EXCEPT !.lock[leg.asset] = Expire(Plus(@, Needed(leg, v)), timestamp)]
    ELSE purse

Credited(purse, legs, size) ==
    FoldLeft(LAMBDA p, leg : CreditLeg(p, leg, leg.min * size), purse, legs)

-----------------------------------------------------------------------------
(* The calls *)

\* MakeMultiSwapParam.Check and the tests on the assets and ranges.
MakeCheck(o) ==
    /\ o.size > 0 /\ Len(o.from) > 0 /\ Len(o.to) > 0
    /\ \A leg \in Range(o.from \o o.to) : leg.min > 0 /\ leg.start <= leg.end /\ leg.end > timestamp
    /\ \A leg \in Range(o.to) : assets[leg.asset].known
    /\ \A leg \in Range(o.from) : Free(leg) \/ Valid(leg, leg.min * o.size)

\* The id is the hash of the transaction, so AddMultiSwap finds no record.
MakeMultiSwap(a, id, o) ==
    /\ swaps[id].status = "none"
    /\ MakeCheck(o)
    /\ Checked(a, o.from, o.size)
    /\ LET purse == Deducted(a, o.from, o.size) IN
       /\ balance' = [balance EXCEPT ![a] = purse.free]
       /\ lock' = [lock EXCEPT ![a] = purse.lock]
       /\ swaps' = IF purse.ok
                     THEN [swaps EXCEPT ![id] = [status |-> "live", owner |-> a, terms |-> o]]
                     ELSE swaps
    /\ UNCHANGED <<timestamp, assets, panicked>>

RecallMultiSwap(a, id) ==
    /\ swaps[id].status = "live" /\ swaps[id].owner = a
    /\ swaps' = [swaps EXCEPT ![id].status = "deleted"]
    /\ LET purse == Credited(Purse(a), swaps[id].terms.from, swaps[id].terms.size) IN
       /\ balance' = [balance EXCEPT ![a] = purse.free]
       /\ lock' = [lock EXCEPT ![a] = purse.lock]
    /\ UNCHANGED <<timestamp, assets, panicked>>

\* TakeMultiSwapParam.Check.
TakeCheck(o, size) ==
    /\ size > 0 /\ size <= o.size
    /\ \A leg \in Range(o.from \o o.to) : leg.end > timestamp

\* toNeedValue has room for as many price legs as there are from legs, and only
\* those that are time-locked are put there.
OutOfRange(o) == \E i \in 1 .. Len(o.to) : ~ Free(o.to[i]) /\ i > Len(o.from)

\* An index out of range, in the loop before anything is written.
TakeMultiSwapPanics(id, size) ==
    /\ swaps[id].status = "live"
    /\ TakeCheck(swaps[id].terms, size)
    /\ OutOfRange(swaps[id].terms)
    /\ panicked' = TRUE
    /\ UNCHANGED <<balance, lock, timestamp, assets, swaps>>

\* The taker pays, the swap shrinks or goes, the owner is credited, then the taker.
TakeMultiSwap(a, id, size) ==
    LET o == swaps[id].terms
        owner == swaps[id].owner
        paid == Deducted(a, o.to, size)
        held == Credited(IF owner = a THEN paid ELSE Purse(owner), o.to, size)
        got == Credited(IF owner = a THEN held ELSE paid, o.from, size)
    IN
    /\ swaps[id].status = "live"
    /\ TakeCheck(o, size) /\ ~ OutOfRange(o)
    /\ Checked(a, o.to, size)
    /\ IF paid.ok
         THEN /\ balance' = [balance EXCEPT ![owner] = held.free, ![a] = got.free]
              /\ lock' = [lock EXCEPT ![owner] = held.lock, ![a] = got.lock]
              /\ swaps' = IF o.size = size THEN [swaps EXCEPT ![id].status = "deleted"]
                          ELSE [swaps EXCEPT ![id].terms.size = @ - size]
         ELSE /\ balance' = [balance EXCEPT ![a] = paid.free]
              /\ lock' = [lock EXCEPT ![a] = paid.lock]
              /\ UNCHANGED swaps
    /\ UNCHANGED <<timestamp, assets, panicked>>

MultiNext ==
    /\ ~ panicked
    /\ \/ NewBlock /\ UNCHANGED <<assets, swaps, panicked>>
       \/ \E id \in SwapID, size \in Amount : TakeMultiSwapPanics(id, size)
       \/ \E a \in Address, id \in SwapID :
            \/ \E o \in Offer : MakeMultiSwap(a, id, o)
            \/ RecallMultiSwap(a, id)
            \/ \E size \in Amount : TakeMultiSwap(a, id, size)

-----------------------------------------------------------------------------
(* Properties *)

\* The worth of legs in a number of lots, of an asset at an instant.
LegsWorth(legs, size, s, t) ==
    FoldLeft(LAMBDA sum, leg :
               sum + (IF leg.asset = s /\ leg.start <= t /\ t <= leg.end THEN leg.min * size ELSE 0),
             0, legs)

Escrow(id, s, t) ==
    IF swaps[id].status = "live" THEN LegsWorth(swaps[id].terms.from, swaps[id].terms.size, s, t) ELSE 0

\* Multi swaps only move value: at every instant still ahead, balances, time
\* locks and escrowed legs of an asset add up to its total.  So a deduction
\* never stops half way: the check has covered all legs together, and a panic
\* comes before the first of them.
MultiConserved ==
    \A s \in AssetID : \A t \in timestamp .. TimeLockForever :
        TotalWorth(s, t) + SumFunction([id \in SwapID |-> Escrow(id, s, t)]) = assets[s].total
=============================================================================
