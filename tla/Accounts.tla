------------------------------ MODULE Accounts ------------------------------
(***************************************************************************)
(* The balances of the world state (core/state/state_object.go): for every *)
(* account and asset a free balance and a time-locked one.  Amounts are    *)
(* Go's big.Int, which nothing keeps from going negative; that they never  *)
(* do is a theorem about the FSN calls, not a property of the type.        *)
(***************************************************************************)
EXTENDS LockValue, FiniteSets, Functions

CONSTANTS
    Address,        \* the accounts that send FSN calls (common.Address)
    Nobody,         \* the zero address: it signs nothing and receives nothing
    AssetID,
    SystemAssetID,  \* FSN, the asset of fees, rewards and tickets
    Genesis,        \* Genesis[a][s]: the balances of the first state
    MaxTimestamp,   \* bound: the last parent time explored
    Amount          \* the amounts FSN calls may name

\* An address is an array of 20 bytes, so there are finitely many.
ASSUME AddressesAssumption ==
    /\ Address # {} /\ IsFiniteSet(Address)
    /\ Nobody \notin Address

ASSUME AccountsAssumption ==
    /\ SystemAssetID \in AssetID
    /\ Genesis \in [Address -> [AssetID -> Nat]]
    /\ MaxTimestamp \in 0 .. TimeLockForever - 1
    /\ Amount \subseteq Nat

VARIABLES
    balance,    \* balance[a][s]
    lock,       \* lock[a][s][t]: the time-locked value available at instant t
    timestamp   \* ParentTime of the block being processed

AccountsInit ==
    /\ balance = Genesis
    /\ lock = [a \in Address |-> [s \in AssetID |-> NoLock]]
    /\ timestamp = 0

\* The operations of StateDB on the balances b and the time locks l.
AddBalance(b, a, s, v) == [b EXCEPT ![a][s] = @ + v]
SubBalance(b, a, s, v) == [b EXCEPT ![a][s] = @ - v]

AddTimeLockBalance(l, a, s, m) ==
    IF m = NoLock THEN l ELSE [l EXCEPT ![a][s] = Expire(Plus(@, m), timestamp)]
SubTimeLockBalance(l, a, s, m) ==
    IF m = NoLock THEN l ELSE [l EXCEPT ![a][s] = Expire(Minus(@, m), timestamp)]

\* The part of start..end that has not passed: calls clip the start of what
\* they lock or spend to the parent time.
Clip(start) == Later(start, timestamp)

\* The value v from the parent time on for ever: what a free balance is worth.
Whole(v) == Span(timestamp, TimeLockForever, v)

\* A range that covers all of time stands for the free balance.
UseAsset(start, end) == start = TimeLockNow /\ end = TimeLockForever

\* The next block: its parent is later than this one's.
NewBlock ==
    /\ timestamp < MaxTimestamp
    /\ timestamp' \in timestamp + 1 .. MaxTimestamp
    /\ UNCHANGED <<balance, lock>>

-----------------------------------------------------------------------------
\* What account a can spend of asset s at instant t.
Worth(a, s, t) == balance[a][s] + lock[a][s][t]

\* What all accounts together can spend of it.
TotalWorth(s, t) == SumFunction([a \in Address |-> Worth(a, s, t)])

AccountsTypeOK ==
    /\ balance \in [Address -> [AssetID -> Int]]
    /\ lock \in [Address -> [AssetID -> [Time -> Int]]]
    /\ timestamp \in 0 .. MaxTimestamp

\* No balance and no time lock is ever negative: every call that debits an
\* account has checked it first, and SubTimeLockBalance never has to panic.
NonNegative ==
    \A a \in Address, s \in AssetID :
        balance[a][s] >= 0 /\ \A t \in Time : lock[a][s][t] >= 0
=============================================================================
