------------------------------- MODULE Assets -------------------------------
(***************************************************************************)
(* The FSN calls that create, move, lock and change assets                 *)
(* (handleFsnCall in core/state_transition.go): GenAssetFunc,              *)
(* SendAssetFunc, TimeLockFunc in its three kinds, AssetValueChangeFunc.   *)
(* A call whose checks fail returns before it has changed anything, so it  *)
(* is no step.                                                             *)
(***************************************************************************)
EXTENDS Accounts

CONSTANTS
    GenesisAssets,  \* the asset records of the first state
    ClockLead,      \* how far time.Now() may be ahead of the parent time
    MaxSupply       \* bound: the most there may be of an asset at any instant

Asset == [known : BOOLEAN, owner : Address \cup {Nobody}, canChange : BOOLEAN, total : Int]

NoAsset == [known |-> FALSE, owner |-> Nobody, canChange |-> FALSE, total |-> 0]

ASSUME AssetsAssumption ==
    /\ GenesisAssets \in [AssetID -> Asset]
    /\ \A s \in AssetID : GenesisAssets[s].known \/ GenesisAssets[s] = NoAsset
    /\ \A s \in AssetID :
          GenesisAssets[s].total = SumFunction([a \in Address |-> Genesis[a][s]])
    /\ ClockLead \in Nat
    /\ MaxSupply \in Nat

VARIABLE assets  \* the records under AssetKeyAddress

assetVars == <<balance, lock, timestamp, assets>>

\* Genesis registers the system asset, which nobody owns and whose total is
\* fixed; a run may start after other assets were generated.
SystemAsset(total) == [known |-> TRUE, owner |-> Nobody, canChange |-> FALSE, total |-> total]

AssetsInit == AccountsInit /\ assets = GenesisAssets

\* The id of a new asset is the hash of the transaction: an unused one.
GenAsset(from, s, total, canChange) ==
    /\ ~ assets[s].known
    /\ total <= MaxSupply
    /\ assets' = [assets EXCEPT ![s] = [known |-> TRUE, owner |-> from,
                                        canChange |-> canChange, total |-> total]]
    /\ balance' = AddBalance(balance, from, s, total)
    /\ UNCHANGED <<lock, timestamp>>

\* Mutant: the sender's balance is not checked.
SendAssetUnchecked(from, to, s, v) ==
    /\ v > 0
    /\ balance' = AddBalance(SubBalance(balance, from, s, v), to, s, v)
    /\ UNCHANGED <<lock, timestamp, assets>>

SendAsset(from, to, s, v) ==
    /\ v > 0
    /\ balance[from][s] >= v
    /\ balance' = AddBalance(SubBalance(balance, from, s, v), to, s, v)
    /\ UNCHANGED <<lock, timestamp, assets>>

\* TimeLockParam.Check, and needValue.IsValid.
TimeLockCheck(start, end, v) ==
    /\ v > 0 /\ start <= end /\ end >= timestamp
    /\ SpanIsValid(Clip(start), end, v)

\* Mutant: the sender does not get the surplus back.
AssetToTimeLockNoSurplus(from, to, s, start, end, v) ==
    /\ TimeLockCheck(start, end, v)
    /\ balance[from][s] >= v
    /\ balance' = SubBalance(balance, from, s, v)
    /\ lock' = AddTimeLockBalance(lock, to, s, Span(Clip(start), end, v))
    /\ UNCHANGED <<timestamp, assets>>

\* Mutant: the surplus goes to the owner of the asset.
AssetToTimeLockOwner(from, to, s, start, end, v) ==
    /\ TimeLockCheck(start, end, v)
    /\ balance[from][s] >= v
    /\ balance' = SubBalance(balance, from, s, v)
    /\ LET need == Span(Clip(start), end, v)
           surplus == Minus(Whole(v), need)
       IN  lock' = IF from = to
                   THEN AddTimeLockBalance(lock, to, s, Whole(v))
                   ELSE AddTimeLockBalance(
                            AddTimeLockBalance(lock, assets[s].owner, s, surplus), to, s, need)
    /\ UNCHANGED <<timestamp, assets>>

\* Locking for oneself turns the whole value into a time lock; locking for
\* another leaves the instants outside start..end with the sender.
AssetToTimeLock(from, to, s, start, end, v) ==
    /\ TimeLockCheck(start, end, v)
    /\ balance[from][s] >= v
    /\ balance' = SubBalance(balance, from, s, v)
    /\ LET need == Span(Clip(start), end, v)
           surplus == Minus(Whole(v), need)
       IN  lock' = IF from = to
                   THEN AddTimeLockBalance(lock, to, s, Whole(v))
                   ELSE AddTimeLockBalance(
                            AddTimeLockBalance(lock, from, s, surplus), to, s, need)
    /\ UNCHANGED <<timestamp, assets>>

TimeLockToTimeLock(from, to, s, start, end, v) ==
    /\ TimeLockCheck(start, end, v)
    /\ Covers(lock[from][s], Clip(start), end, v)
    /\ LET need == Span(Clip(start), end, v)
       IN  lock' = AddTimeLockBalance(SubTimeLockBalance(lock, from, s, need), to, s, need)
    /\ UNCHANGED <<balance, timestamp, assets>>

\* The range must have begun by the clock of the node that runs the call, not
\* by the parent time: the instants between the two are gained.
TimeLockToAsset(from, to, s, start, v, clock) ==
    /\ start <= clock
    /\ TimeLockCheck(start, TimeLockForever, v)
    /\ Covers(lock[from][s], Clip(start), TimeLockForever, v)
    /\ \A t \in timestamp .. Clip(start) - 1 : TotalWorth(s, t) + v <= MaxSupply
    /\ lock' = SubTimeLockBalance(lock, from, s, Span(Clip(start), TimeLockForever, v))
    /\ balance' = AddBalance(balance, to, s, v)
    /\ UNCHANGED <<timestamp, assets>>

AssetValueChangeCheck(from, to, s, v, isInc) ==
    /\ v > 0
    /\ assets[s].known /\ assets[s].canChange
    /\ assets[s].owner = from
    /\ isInc \/ to = from

AssetInc(from, to, s, v) ==
    /\ AssetValueChangeCheck(from, to, s, v, TRUE)
    /\ assets[s].total + v <= MaxSupply
    /\ balance' = AddBalance(balance, to, s, v)
    /\ assets' = [assets EXCEPT ![s].total = @ + v]
    /\ UNCHANGED <<lock, timestamp>>

AssetDec(from, to, s, v) ==
    /\ AssetValueChangeCheck(from, to, s, v, FALSE)
    /\ balance[to][s] >= v
    /\ balance' = SubBalance(balance, to, s, v)
    /\ assets' = [assets EXCEPT ![s].total = @ - v]
    /\ UNCHANGED <<lock, timestamp>>

TimeLockCall(from, to, s, v) ==
    \E start \in Time :
        \/ \E end \in Time : AssetToTimeLock(from, to, s, start, end, v)
        \/ \E end \in Time : TimeLockToTimeLock(from, to, s, start, end, v)
        \/ \E clock \in timestamp .. timestamp + ClockLead :
               TimeLockToAsset(from, to, s, start, v, clock)

AssetsNext ==
    \/ NewBlock /\ UNCHANGED assets
    \/ \E from \in Address, s \in AssetID, v \in Amount :
          \/ \E canChange \in BOOLEAN : GenAsset(from, s, v, canChange)
          \/ \E to \in Address :
                \/ SendAsset(from, to, s, v)
                \/ TimeLockCall(from, to, s, v)
                \/ AssetInc(from, to, s, v)
                \/ AssetDec(from, to, s, v)

AssetsSpec == AssetsInit /\ [][AssetsNext]_assetVars

-----------------------------------------------------------------------------
(* Properties *)

\* Variables hold what the Go variables can hold.
AssetsTypeOK ==
    /\ AccountsTypeOK
    /\ assets \in [AssetID -> Asset]

\* The instants no clock has reached yet.
Ahead == {t \in Time : t >= timestamp + ClockLead}

\* Nothing is made or lost: at every instant still ahead, free and time-locked
\* balances of an asset add up to its recorded total, through any sequence of
\* sends, locks, unlocks and changes of the total (handleFsnCall).
AssetsConserved ==
    \A s \in AssetID : \A t \in Ahead : TotalWorth(s, t) = assets[s].total

\* An asset generated with CanChange false, and the system asset, keep their
\* total and their owner for ever (AssetValueChangeFunc, GenAsset).
FixedAssetsStayFixed ==
    [][\A s \in AssetID : assets[s].known /\ ~ assets[s].canChange
            => assets'[s] = assets[s]]_assetVars

\* At most accounts a and b change their holding of asset s, and what they can
\* spend together at any instant ahead changes as the total does.
Others(a, b, s) ==
    \A c \in Address \ {a, b} : balance'[c][s] = balance[c][s] /\ lock'[c][s] = lock[c][s]

PairWorth(a, b, s, t) == IF a = b THEN Worth(a, s, t) ELSE Worth(a, s, t) + Worth(b, s, t)

IsTransfer(a, b, s) ==
    /\ Others(a, b, s)
    /\ \A t \in Ahead : PairWorth(a, b, s, t)' - PairWorth(a, b, s, t)
                           = assets'[s].total - assets[s].total

\* Every step is a transfer for every asset: nobody but sender and receiver is
\* affected, and between them nothing is gained or lost at any instant ahead
\* except what GenAsset or AssetValueChange records in the total.
StepIsTransfer ==
    [][\A s \in AssetID : \E a, b \in Address : IsTransfer(a, b, s)]_assetVars
=============================================================================
