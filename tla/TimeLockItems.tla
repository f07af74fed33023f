--------------------------- MODULE TimeLockItems ---------------------------
(***************************************************************************)
(* The data of a time-locked balance and the operations on single items    *)
(* (common/timelock.go).  A balance is a sequence of items; an item makes  *)
(* `value' available at every instant of start..end.  Nothing here is      *)
(* recursive: the loops over items are the state machines TimeLockAdd and  *)
(* TimeLockSub.                                                            *)
(***************************************************************************)
EXTENDS LockValue, Sequences

\* uint64 successor and predecessor: they wrap.
Succ(t) == (t + 1) % (TimeLockForever + 1)
Pred(t) == (t + TimeLockForever) % (TimeLockForever + 1)

Item == [start : Time, end : Time, value : Int]

ItemIsValid(z) == SpanIsValid(z.start, z.end, z.value)

AdjustStart(z, t) == [z EXCEPT !.start = t]
AdjustEnd(z, t) == [z EXCEPT !.end = t]

CanMerge(z, x) ==
    z.end < x.start /\ Succ(z.end) = x.start /\ z.value = x.value

Merge(z, x) == AdjustEnd(z, x.end)

-----------------------------------------------------------------------------
(* Sequences of items *)

appendAndMergeItem(items, z) ==
    IF items = <<>> THEN <<z>>
    ELSE LET n == Len(items) IN
         IF CanMerge(items[n], z)
         THEN [items EXCEPT ![n] = Merge(items[n], z)]
         ELSE Append(items, z)

\* Only the first of the added items is merged with what is there.
appendAndMergeItems(items, adds) ==
    IF adds = <<>> THEN items
    ELSE appendAndMergeItem(items, Head(adds)) \o Tail(adds)

\* The items from index i on (Go's items[i:], counted from 1).
From(items, i) == SubSeq(items, i, Len(items))

\* TimeLock.IsValid: valid items, in order, disjoint, none mergeable.
IsValid(items) ==
    /\ \A i \in 1 .. Len(items) : ItemIsValid(items[i])
    /\ \A i \in 1 .. Len(items) - 1 :
          /\ items[i].end < items[i + 1].start
          /\ ~ CanMerge(items[i], items[i + 1])

\* TimeLock.ClearExpired: drop the items before the first that ends at or
\* after the timestamp.
ClearExpired(items, timestamp) ==
    LET live == {i \in 1 .. Len(items) : items[i].end >= timestamp} IN
    IF live = {} THEN <<>>
    ELSE From(items, CHOOSE i \in live : \A k \in live : i <= k)

-----------------------------------------------------------------------------
(* Two items *)

TailFlag == {"both", "first", "second"}

\* The common part of two overlapping items, with the given value.
Intersection(x, z, v) ==
    [start |-> Later(x.start, z.start), end |-> Sooner(x.end, z.end), value |-> v]

\* TimeLockItem.Add(z, x) of overlapping items is the part before the common
\* part, the common part and the part after it.
ItemAddHead(z, x) ==
    IF x.start < z.start THEN <<AdjustEnd(x, Pred(z.start))>>
    ELSE IF z.start < x.start THEN <<AdjustEnd(z, Pred(x.start))>>
    ELSE <<>>

\* Mutant: the common part keeps the value of one item only.
ItemAddMiddleOne(z, x) == Intersection(x, z, z.value)

ItemAddMiddle(z, x) == Intersection(x, z, x.value + z.value)

ItemAddFlag(z, x) ==
    IF x.end < z.end THEN "first" ELSE IF z.end < x.end THEN "second" ELSE "both"

ItemAddTail(z, x) ==
    IF x.end < z.end THEN <<AdjustStart(z, Succ(x.end))>>
    ELSE IF z.end < x.end THEN <<AdjustStart(x, Succ(z.end))>>
    ELSE <<>>

ItemAdd(z, x) ==
    IF x.end < z.start THEN appendAndMergeItem(<<x>>, z)
    ELSE IF z.end < x.start THEN appendAndMergeItem(<<z>>, x)
    ELSE ItemAddHead(z, x) \o <<ItemAddMiddle(z, x)>> \o ItemAddTail(z, x)

\* TimeLockItem.Sub: what is left of z, and what of x is still missing
\* (<<>>: nothing).
Untouched(z, x) == z.end < x.start \/ z.start > x.end \/ z.value < x.value

\* Mutant: the part of z before x is lost.
ItemSubNoHead(z, x) ==
    IF Untouched(z, x) THEN <<z>>
    ELSE (IF z.value = x.value THEN <<>>
          ELSE <<Intersection(z, x, z.value - x.value)>>)
         \o (IF z.end > x.end THEN <<AdjustStart(z, Succ(x.end))>> ELSE <<>>)

ItemSub(z, x) ==
    IF Untouched(z, x) THEN <<z>>
    ELSE (IF z.start < x.start THEN <<AdjustEnd(z, Pred(x.start))>> ELSE <<>>)
         \o (IF z.value = x.value THEN <<>>
             ELSE <<Intersection(z, x, z.value - x.value)>>)
         \o (IF z.end > x.end THEN <<AdjustStart(z, Succ(x.end))>> ELSE <<>>)

ItemMissing(z, x) ==
    IF Untouched(z, x) THEN <<x>>
    ELSE IF z.end >= x.end THEN <<>>
    ELSE <<AdjustStart(x, Succ(z.end))>>

-----------------------------------------------------------------------------
(* What a sequence of items means: the value available at every instant. *)

Holds(z, t) == z.start <= t /\ t <= z.end

ValueAt(items, t) ==
    IF \E i \in 1 .. Len(items) : Holds(items[i], t)
    THEN items[CHOOSE i \in 1 .. Len(items) : Holds(items[i], t)].value
    ELSE 0

Meaning(items) == [t \in Time |-> ValueAt(items, t)]
=============================================================================
