------------------------------ MODULE Notation ------------------------------
(***************************************************************************)
(* Notations (short account numbers, "USAN"s; core/state/statedb.go).  An  *)
(* account's record holds its notation, 0 for none; a table under          *)
(* NotationKeyAddress holds the count of notations given out and, for each *)
(* one, the account it resolves to.  A notation changes hands when a USAN  *)
(* swap is taken (module Swaps); burning it resolves it to the zero        *)
(* address.                                                                *)
(***************************************************************************)
EXTENDS Accounts

CONSTANTS
    checkDigits(_),  \* the check digits calcNotationDisplay appends
    Unset,           \* the table has no entry
    MaxNotation      \* bound: how many notations are given out

ASSUME NotationAssumption ==
    /\ MaxNotation \in Nat
    /\ \A n \in 1 .. MaxNotation : checkDigits(n) \in 0 .. 99
    /\ Unset \notin Address \cup {Nobody}

VARIABLES
    notation,  \* notation[a], 0 for none
    lookup,    \* lookup[n]: the account n resolves to, or Unset
    count      \* how many were given out

notationVars == <<notation, lookup, count>>

\* (The code's n ^ 8192 ^ 13 + 73/76798669*... has check digits n XOR 8205 mod
\* 100: the integer quotient is 0.)
calcNotationDisplay(n) == IF n = 0 THEN 0 ELSE n * 100 + checkDigits(n)

Displayed == {calcNotationDisplay(n) : n \in 1 .. MaxNotation}

NotationInit ==
    /\ notation = [a \in Address |-> 0]
    /\ lookup = [n \in Displayed |-> Unset]
    /\ count = 0

\* GenNotationFunc: an account without a notation gets the next one.
GenNotation(a) ==
    /\ notation[a] = 0
    /\ count < MaxNotation
    /\ count' = count + 1
    /\ LET n == calcNotationDisplay(count + 1)
       IN  /\ lookup' = [lookup EXCEPT ![n] = a]
           /\ notation' = [notation EXCEPT ![a] = n]

\* StateDB.TransferNotation(n, from, to): it fails, before it has written
\* anything, unless n resolves to from.  A notation `to' already has is burnt.
\* The record of `from' is cleared last, also when it is that of `to'.
CanTransfer(n, from) == lookup[n] = from

TransferredLookup(n, to) ==
    [[m \in Displayed |-> IF notation[to] # 0 /\ m = notation[to] THEN Nobody ELSE lookup[m]]
        EXCEPT ![n] = to]

\* Mutant: the old owner keeps the notation too.
TransferredNotationKept(n, from, to) == [notation EXCEPT ![to] = n]

TransferredNotation(n, from, to) == [[notation EXCEPT ![to] = n] EXCEPT ![from] = 0]

-----------------------------------------------------------------------------
(* Properties *)

NotationTypeOK ==
    /\ notation \in [Address -> Displayed \cup {0}]
    /\ lookup \in [Displayed -> Address \cup {Nobody, Unset}]
    /\ count \in 0 .. MaxNotation

\* An account's notation resolves to that account.  So no two accounts share
\* one, and TakeSwap, which has already moved the price when it calls
\* TransferNotation, never sees it fail: the block keeps no half-taken swap.
NotationOwned ==
    \A a \in Address : notation[a] # 0 => lookup[notation[a]] = a

\* The notations given out are exactly those with an entry: the next one is new.
NextIsNew ==
    \A n \in 1 .. MaxNotation : lookup[calcNotationDisplay(n)] # Unset <=> n <= count
=============================================================================
