------------------------------ MODULE MCSwaps ------------------------------
(***************************************************************************)
(* Swaps and multi swaps, side by side: a behaviour exercises one of them, *)
(* chosen at the start, on a ledger of its own.                            *)
(***************************************************************************)
EXTENDS Swaps, Bitwise, TLC

CONSTANTS a1, a2, fsn, tok, usan, s1, s2, s3

\* a1 has the tokens, a2 the FSN.
MCGenesis == [a \in Address |-> [s \in AssetID |->
                IF <<a, s>> \in {<<a1, tok>>, <<a2, fsn>>} THEN 2 ELSE 0]]

MCGenesisAssets == [s \in AssetID |->
    IF s = fsn THEN SystemAsset(2)
    ELSE [known |-> TRUE, owner |-> a1, canChange |-> FALSE, total |-> 2]]

MCCheckDigits(n) == ((n ^^ 8192) ^^ 13) % 100

MCTerms(from, fs, fe, size, to, ts, te) ==
    [fromAsset |-> from, fromStart |-> fs, fromEnd |-> fe, minFrom |-> 1, size |-> size,
     toAsset |-> to, toStart |-> ts, toEnd |-> te, minTo |-> 1]

\* Free for free, in two lots; a time lock that begins later for one that is
\* running, in two lots; a time lock for the free balance of the same asset;
\* a notation for free balance.
MCOffer ==
    { MCTerms(tok, 0, TimeLockForever, 2, fsn, 0, TimeLockForever),
      MCTerms(tok, 1, 2, 2, fsn, 0, 2),
      MCTerms(fsn, 0, 2, 1, fsn, 0, TimeLockForever),
      MCTerms(usan, 0, TimeLockForever, 1, fsn, 1, TimeLockForever) }

-----------------------------------------------------------------------------
\* Multi swaps, with twice the supply.
VARIABLES purses, locks, now, issued, multi, panicked

multiVars == <<purses, locks, now, issued, multi, panicked>>

MultiGenesis == [a \in Address |-> [s \in AssetID |-> 2 * MCGenesis[a][s]]]
MultiAssets == [s \in AssetID |-> [MCGenesisAssets[s] EXCEPT !.total = 2 * @]]

MCLeg(asset, start, end) == [asset |-> asset, start |-> start, end |-> end, min |-> 1]

\* A free and a time-locked leg of one asset for a free one, in two lots; a free
\* leg for a time-locked and a free one, in two lots; two time-locked legs for two;
\* a free leg for a free and a time-locked one, which has no from leg at its place.
MultiOffer ==
    { [from |-> <<MCLeg(tok, 0, TimeLockForever), MCLeg(tok, 1, 2)>>,
       to |-> <<MCLeg(fsn, 0, TimeLockForever)>>, size |-> 2],
      [from |-> <<MCLeg(tok, 0, TimeLockForever)>>,
       to |-> <<MCLeg(fsn, 0, 2), MCLeg(fsn, 0, TimeLockForever)>>, size |-> 2],
      [from |-> <<MCLeg(fsn, 0, 2), MCLeg(fsn, 1, 2)>>,
       to |-> <<MCLeg(tok, 1, 3), MCLeg(tok, 0, 2)>>, size |-> 1],
      [from |-> <<MCLeg(tok, 0, TimeLockForever)>>,
       to |-> <<MCLeg(fsn, 0, TimeLockForever), MCLeg(fsn, 0, 2)>>, size |-> 1] }

Multi == INSTANCE MultiSwaps WITH
    Genesis <- MultiGenesis, GenesisAssets <- MultiAssets, MaxSupply <- 4,
    Offer <- MultiOffer, balance <- purses, lock <- locks, timestamp <- now,
    assets <- issued, swaps <- multi

ASSUME Multi!MultiSwapsAssumption

VARIABLE part

AllInit == part \in {"single", "multi"} /\ SwapsInit /\ Multi!MultiInit

AllNext ==
    /\ UNCHANGED part
    /\ \/ part = "single" /\ SwapsNext /\ UNCHANGED multiVars
       \/ part = "multi" /\ Multi!MultiNext /\ UNCHANGED swapVars

AllSpec == AllInit /\ [][AllNext]_<<part, swapVars, multiVars>>

\* SwapsConserved and MultiConserved: at every instant still ahead, what accounts
\* and the swaps of either kind hold of an asset is its total, so no call stops
\* half way (MakeSwap, RecallSwap, TakeSwap and their multi forms).
AllConserved == SwapsConserved /\ Multi!MultiConserved

\* Swap ids are hashes of transactions, only ever compared.
SwapSymmetry == Permutations(SwapID)
=============================================================================
