------------------------------ MODULE MCAssets ------------------------------
(***************************************************************************)
(* The asset calls ("calls"), and the arithmetic of time-locked balances   *)
(* they rest on: addition ("add") and subtraction ("sub") of the items of  *)
(* common/timelock.go.  The models share no variable, so a behaviour       *)
(* exercises one of them, chosen at the start.                             *)
(***************************************************************************)
EXTENDS Assets, TLC

CONSTANTS a1, a2, a3, fsn, tok

\* Nobody starts with anything: the token is generated by a call, and no FSN is
\* in circulation, so that one asset's balances make up the state.
MCGenesis == [a \in Address |-> [s \in AssetID |-> 0]]

MCGenesisAssets == [s \in AssetID |-> IF s = fsn THEN SystemAsset(0) ELSE NoAsset]

-----------------------------------------------------------------------------
\* Every valid balance of at most MaxItems items with values 1..most.
MaxItems == 3

Items == INSTANCE TimeLockItems

ItemsOf(most) == {z \in [start : Time, end : Time, value : 1 .. most] : z.start <= z.end}

LocksOf(most) == {l \in UNION {[1 .. n -> ItemsOf(most)] : n \in 0 .. MaxItems} : Items!IsValid(l)}

Added == LocksOf(2)
Reduced == LocksOf(3)

\* Needs with a start after their end, or of no value, are refused by Cmp.
Wanted == [start : Time, end : Time, value : 0 .. 2]

-----------------------------------------------------------------------------
VARIABLES
    x, y, i, j, last, tailFlag, items, pc,
    held, need, next, minVal, tempTime, maybeGreat, cmp, missing, left, stamp, at

addVars == <<x, y, i, j, last, tailFlag, items, pc>>
subVars == <<held, need, next, minVal, tempTime, maybeGreat, cmp, missing, left, stamp, at>>

Sum == INSTANCE TimeLockAdd WITH Locks <- Added

Spend == INSTANCE TimeLockSub WITH
    Locks <- Reduced, Needs <- Wanted, Timestamps <- {0, 2, 3},
    x <- held, y <- need, i <- next, items <- left, timestamp <- stamp, pc <- at

ASSUME Sum!AddAssumption /\ Spend!SubAssumption

-----------------------------------------------------------------------------
VARIABLE part

AddIdle ==
    /\ x = <<>> /\ y = <<>> /\ i = 1 /\ j = 1 /\ last = <<>> /\ tailFlag = "both"
    /\ items = <<>> /\ pc = "idle"

SubIdle ==
    /\ held = <<>> /\ need = <<>> /\ next = 1 /\ minVal = 0 /\ tempTime = 0 /\ maybeGreat = FALSE
    /\ cmp = 0 /\ missing = <<>> /\ left = <<>> /\ stamp = 0 /\ at = "idle"

LedgerInit ==
    /\ AssetsInit
    /\ \/ part = "add" /\ Sum!Init /\ SubIdle
       \/ part = "sub" /\ Spend!Init /\ AddIdle
       \/ part = "calls" /\ AddIdle /\ SubIdle

LedgerNext ==
    /\ UNCHANGED part
    /\ \/ part = "add" /\ Sum!Next /\ UNCHANGED <<assetVars, subVars>>
       \/ part = "sub" /\ Spend!Next /\ UNCHANGED <<assetVars, addVars>>
       \/ part = "calls" /\ AssetsNext /\ UNCHANGED <<addVars, subVars>>

LedgerSpec == LedgerInit /\ [][LedgerNext]_<<part, assetVars, addVars, subVars>>

-----------------------------------------------------------------------------
\* AddIsPointwiseSum of TimeLockAdd: what Add returns has at every instant the
\* sum of the two balances, in canonical form (TimeLock.Add).
AddIsPointwiseSum == Sum!AddIsPointwiseSum

\* SpendIsExact of TimeLockSub: Cmp says yes exactly to what a balance covers, and
\* Sub takes out exactly that (TimeLock.Cmp, TimeLock.Sub, ClearExpired).
SpendIsExact == Spend!SpendIsExact

\* Accounts begin alike and are only ever compared.
AccountSymmetry == Permutations(Address)
=============================================================================
