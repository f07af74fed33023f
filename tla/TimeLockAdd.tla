---------------------------- MODULE TimeLockAdd ----------------------------
(***************************************************************************)
(* TimeLock.Add(x, y) (common/timelock.go): the two-pointer merge of two   *)
(* time-locked balances, one action per way round its loop.  `last' is the *)
(* tail of an item that is only half consumed (<<>>: none) and tailFlag    *)
(* says which of the two balances it belongs to.                           *)
(***************************************************************************)
EXTENDS TimeLockItems

CONSTANT Locks  \* the balances added: valid sequences of items

AddAssumption == \A l \in Locks : l \in Seq(Item) /\ IsValid(l)

VARIABLES
    x, y,       \* the arguments
    i, j,       \* the next item of each, counted from 1
    last, tailFlag,
    items,      \* the result so far
    pc          \* "loop", "rest" (what follows the loop) or "done"

vars == <<x, y, i, j, last, tailFlag, items, pc>>

\* Both empty: Add returns nil and AddTimeLockBalance never asks for it.
Init ==
    /\ x \in Locks /\ y \in Locks /\ (x # <<>> \/ y # <<>>)
    /\ i = 1 /\ j = 1
    /\ last = <<>> /\ tailFlag = "both"
    /\ items = <<>> /\ pc = "loop"

Looping == pc = "loop" /\ i <= Len(x) /\ j <= Len(y)

\* The items the loop looks at: `last' stands for the item it is the tail of.
xV == IF last # <<>> /\ tailFlag = "first" THEN last[1] ELSE x[i]
yV == IF last # <<>> /\ tailFlag = "second" THEN last[1] ELSE y[j]

\* The next item of x ends before the next of y begins.
TakeX ==
    /\ Looping /\ xV.end < yV.start
    /\ items' = appendAndMergeItem(items, xV)
    /\ i' = i + 1
    /\ last' = IF tailFlag = "first" THEN <<>> ELSE last
    /\ UNCHANGED <<x, y, j, tailFlag, pc>>

TakeY ==
    /\ Looping /\ ~ xV.end < yV.start /\ yV.end < xV.start
    /\ items' = appendAndMergeItem(items, yV)
    /\ j' = j + 1
    /\ last' = IF tailFlag = "second" THEN <<>> ELSE last
    /\ UNCHANGED <<x, y, i, tailFlag, pc>>

\* They overlap: all but the last of the pieces go to the result; the last one
\* goes there too when both items end together, else it becomes `last'.
Combine ==
    /\ Looping /\ ~ xV.end < yV.start /\ ~ yV.end < xV.start
    /\ LET res == ItemAdd(xV, yV)
           n == Len(res)
           most == appendAndMergeItems(items, SubSeq(res, 1, n - 1))
           flag == ItemAddFlag(xV, yV)
       IN  /\ tailFlag' = flag
           /\ i' = IF flag = "first" THEN i ELSE i + 1
           /\ j' = IF flag = "second" THEN j ELSE j + 1
           /\ last' = IF flag = "both" THEN <<>> ELSE <<res[n]>>
           /\ items' = IF flag = "both" THEN appendAndMergeItem(most, res[n]) ELSE most
    /\ UNCHANGED <<x, y, pc>>

\* After the loop: the pending tail ...
Flush ==
    /\ pc = "loop" /\ (i > Len(x) \/ j > Len(y))
    /\ items' = IF last = <<>> THEN items ELSE appendAndMergeItem(items, last[1])
    /\ i' = IF last # <<>> /\ tailFlag = "first" THEN i + 1 ELSE i
    /\ j' = IF last # <<>> /\ tailFlag = "second" THEN j + 1 ELSE j
    /\ pc' = "rest"
    /\ UNCHANGED <<x, y, last, tailFlag>>

\* ... and what is left of the balance that was not used up.
Rest ==
    /\ pc = "rest"
    /\ items' = IF i > Len(x) /\ j <= Len(y) THEN appendAndMergeItems(items, From(y, j))
                ELSE IF j > Len(y) /\ i <= Len(x) THEN appendAndMergeItems(items, From(x, i))
                ELSE items
    /\ pc' = "done"
    /\ UNCHANGED <<x, y, i, j, last, tailFlag>>

Next == TakeX \/ TakeY \/ Combine \/ Flush \/ Rest

Spec == Init /\ [][Next]_vars

-----------------------------------------------------------------------------
(* Properties *)

\* Add is exact: at every instant the result holds the sum of what the two
\* balances hold, whatever way their items overlap, and it is well formed as
\* CheckValid demands in debug mode: in order, disjoint, and no two items that
\* should be one (TimeLock.Add).
AddIsPointwiseSum ==
    pc = "done" => IsValid(items) /\ Meaning(items) = Plus(Meaning(x), Meaning(y))
=============================================================================
