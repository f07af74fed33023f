----------------------------- MODULE LockValue -----------------------------
(***************************************************************************)
(* What a time-locked balance means: a function that gives the value       *)
(* available at every instant.  The runs of TimeLockAdd and TimeLockSub    *)
(* show that the item sequences of common/timelock.go compute exactly      *)
(* these operators; the modules of the ledger use only these.              *)
(***************************************************************************)
EXTENDS Integers

CONSTANT TimeLockForever  \* the largest uint64: the end of time

ASSUME ForeverAssumption == TimeLockForever \in Nat \ {0}

TimeLockNow == 0
Time == TimeLockNow .. TimeLockForever

Later(s, t) == IF s < t THEN t ELSE s
Sooner(s, t) == IF s > t THEN t ELSE s

\* The balance with no items, and the one with the single item (s, e, v).
NoLock == [t \in Time |-> 0]
Span(s, e, v) == [t \in Time |-> IF s <= t /\ t <= e THEN v ELSE 0]

\* TimeLock.Add and TimeLock.Sub.
Plus(l, m) == [t \in Time |-> l[t] + m[t]]
Minus(l, m) == [t \in Time |-> l[t] - m[t]]

\* TimeLockItem.IsValid.
SpanIsValid(s, e, v) == s <= e /\ v > 0

\* TimeLock.Cmp with a single item, when it is not negative.
Covers(l, s, e, v) == SpanIsValid(s, e, v) /\ \A t \in s .. e : l[t] >= v

\* TimeLock.ClearExpired: an item survives when it reaches the timestamp, and
\* the items of a valid balance are its longest stretches of one value.
Expire(l, timestamp) ==
    [t \in Time |->
        IF t >= timestamp \/ \A u \in t .. timestamp : l[u] = l[t] THEN l[t] ELSE 0]
=============================================================================
