---------------------------- MODULE TimeLockSub ----------------------------
(***************************************************************************)
(* TimeLock.Sub(x, y) for a balance x and a single item y                  *)
(* (common/timelock.go).  It first asks x.Cmp(y), the comparison every FSN *)
(* call uses to decide whether a balance covers what it needs, and panics  *)
(* when the answer is negative; then it takes y out of x item by item.     *)
(* Both loops are here, one action per way round.  The last step is the    *)
(* ClearExpired with which SubTimeLockBalance stores the result.           *)
(***************************************************************************)
EXTENDS TimeLockItems

CONSTANTS
    Locks,   \* the balances subtracted from: valid sequences of items
    Needs,   \* the items subtracted, valid or not
    Timestamps

SubAssumption ==
    /\ \A l \in Locks : l \in Seq(Item) /\ IsValid(l)
    /\ Needs \subseteq Item
    /\ Timestamps \subseteq Time

VARIABLES
    x, y,
    i,                              \* the next item of x, counted from 1
    minVal, tempTime, maybeGreat,   \* Cmp's locals
    cmp,                            \* Cmp's result
    missing,                        \* the part of y still to be taken (<<>>: none)
    items,                          \* the result so far
    timestamp,                      \* the parent block's time
    pc                              \* "cmp", "scan", "sub", "panic", "done", "stored"

cmpVars == <<minVal, tempTime, maybeGreat>>
vars == <<x, y, i, cmpVars, cmp, missing, items, timestamp, pc>>

Init ==
    /\ x \in Locks /\ y \in Needs
    /\ i = 1
    /\ minVal = 0 /\ tempTime = 0 /\ maybeGreat = FALSE
    /\ cmp = 0 /\ missing = <<y>> /\ items = <<>> /\ pc = "cmp"
    /\ timestamp \in Timestamps

Sign(n) == IF n < 0 THEN -1 ELSE IF n > 0 THEN 1 ELSE 0

\* Cmp returns r; Sub panics when it is negative.
CmpReturn(r) ==
    /\ cmp' = r
    /\ pc' = IF r < 0 THEN "panic" ELSE "sub"
    /\ i' = 1

\* Cmp's early returns: nothing held, nothing valid asked for, a gap at the
\* head or at the tail.
CmpRefuses ==
    \/ x = <<>>
    \/ ~ ItemIsValid(y)
    \/ x[1].start > y.start
    \/ x[Len(x)].end < y.end

CmpBegin ==
    /\ pc = "cmp"
    /\ IF CmpRefuses
       THEN CmpReturn(-1) /\ UNCHANGED cmpVars
       ELSE /\ pc' = "scan"
            /\ maybeGreat' = (x[1].start < y.start \/ x[Len(x)].end > y.end)
            /\ UNCHANGED <<i, cmp, minVal, tempTime>>
    /\ UNCHANGED <<x, y, missing, items, timestamp>>

\* An item that ends before y begins.
CmpSkip ==
    /\ pc = "scan" /\ i <= Len(x) /\ x[i].end < y.start
    /\ i' = i + 1
    /\ UNCHANGED <<x, y, cmpVars, cmp, missing, items, timestamp, pc>>
\* tempTime = 0 is the code's test for the first item that counts.
CmpGap ==
    \/ tempTime = 0 /\ x[i].start > y.start
    \/ tempTime # 0 /\ tempTime < x[i].start /\ Succ(tempTime) < x[i].start

CmpItem ==
    /\ pc = "scan" /\ i <= Len(x) /\ ~ x[i].end < y.start
    /\ LET v == x[i].value
           low == IF tempTime = 0 THEN v ELSE minVal
           drops == v < low
       IN  IF CmpGap \/ (drops /\ v < y.value)
           THEN CmpReturn(-1) /\ UNCHANGED cmpVars
           ELSE /\ minVal' = IF drops THEN v ELSE low
                /\ maybeGreat' = (maybeGreat \/ (drops /\ v > y.value))
                /\ tempTime' = x[i].end
                /\ i' = IF x[i].end >= y.end THEN Len(x) + 1 ELSE i + 1
                /\ UNCHANGED <<cmp, pc>>
    /\ UNCHANGED <<x, y, missing, items, timestamp>>

CmpEnd ==
    /\ pc = "scan" /\ i > Len(x)
    /\ CmpReturn(IF minVal = y.value /\ maybeGreat THEN 1 ELSE Sign(minVal - y.value))
    /\ UNCHANGED <<x, y, cmpVars, missing, items, timestamp>>

\* One item of Sub's loop.  When nothing is missing any more the rest of x
\* follows unchanged; the loop also ends when x has no more items.
SubItem ==
    /\ pc = "sub"
    /\ LET left == appendAndMergeItems(items, ItemSub(x[i], missing[1]))
           still == ItemMissing(x[i], missing[1])
       IN  /\ items' = IF still = <<>> THEN appendAndMergeItems(left, From(x, i + 1)) ELSE left
           /\ missing' = still
           /\ pc' = IF still = <<>> \/ i = Len(x) THEN "done" ELSE "sub"
    /\ i' = i + 1
    /\ UNCHANGED <<x, y, cmpVars, cmp, timestamp>>

Store ==
    /\ pc = "done"
    /\ items' = ClearExpired(items, timestamp)
    /\ pc' = "stored"
    /\ UNCHANGED <<x, y, i, cmpVars, cmp, missing, timestamp>>

Next == CmpBegin \/ CmpSkip \/ CmpItem \/ CmpEnd \/ SubItem \/ Store

Spec == Init /\ [][Next]_vars

-----------------------------------------------------------------------------
(* Properties *)

Covered == Covers(Meaning(x), y.start, y.end, y.value)
Difference == Minus(Meaning(x), Span(y.start, y.end, y.value))

\* Spending is exact.  Cmp never says yes to a balance that falls short
\* somewhere: no FSN call can spend time-locked value that is not there.  It
\* never says no to a balance that covers y, unless the balance has an item that
\* ends at instant 0, which tempTime = 0 mistakes for `no item yet'.  After a yes
\* Sub's result holds at every instant what x held, less y's value where y
\* applies, with nothing of y left over, and it is well formed as CheckValid
\* demands in debug mode.  Storing it drops what has expired and nothing an FSN
\* call can still spend (TimeLock.Cmp, TimeLock.Sub, ClearExpired).
SpendIsExact ==
    /\ pc \in {"sub", "done", "stored"} => Covered
    /\ pc = "panic" => ~ Covered \/ (x # <<>> /\ x[1].end = 0)
    /\ pc = "done" => missing = <<>> /\ IsValid(items) /\ Meaning(items) = Difference
    /\ pc = "stored" => Meaning(items) = Expire(Difference, timestamp)
=============================================================================
