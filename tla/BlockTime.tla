----------------------------- MODULE BlockTime -----------------------------
(***************************************************************************)
(* When DaTong miners seal (consensus/datong/consensus.go, miner/worker.go)*)
(* Every miner that owns a ticket has a place in the list of the parent    *)
(* block; the others do not mine.  The first one seals a fixed time after  *)
(* it began, the others wait longer the further behind they are, and a     *)
(* verifier checks the time in the header against the place.  A block that *)
(* would use up the last ticket is not made: it waits for a purchase.      *)
(* Nodes stop and start again; a new block reaches a running miner within  *)
(* Latency.  Clocks agree.  Times are relative to the time in the header   *)
(* of the parent; the times of headers are in seconds, clock and timers    *)
(* have Second units to a second.                                          *)
(***************************************************************************)
EXTENDS Integers, FiniteSets

CONSTANTS
    Miner,
    Second,                 \* units of time in a second
    Period,                 \* DaTongConfig.Period
    delayTimeModifier,
    adjustIntervalBlocks,
    MinBlockTime, maxBlockTime,
    Spans,                  \* seconds the last adjustIntervalBlocks blocks may have taken
    Latency,
    MaxStops,               \* bound: how often miners stop during one block
    MaxIdle,                \* bound: how long a time in which no miner works is explored
    None

BlockTimeAssumption ==
    /\ IsFiniteSet(Miner) /\ Second \in Nat \ {0}
    /\ Period \in Nat /\ Period > 4 /\ delayTimeModifier \in Nat
    /\ None \notin Int
    /\ MinBlockTime \in Nat /\ maxBlockTime \in Nat
    /\ adjustIntervalBlocks \in Nat \ {0}
    /\ \A s \in Spans : s = None \/ (s \in Nat /\ s >= adjustIntervalBlocks * MinBlockTime)
    /\ Latency \in Nat /\ MaxStops \in Nat /\ MaxIdle \in Nat

VARIABLES
    now,        \* the clock
    list,       \* the place of every miner that owns a ticket, None for the others
    supply,     \* of tickets for the next block: enough, short, or a purchase has come
    span,       \* parent time less that of the block adjustIntervalBlocks before, if any
    up,         \* the miners that are running
    since,      \* when a miner was told to work, by the parent or by its start, if it has not begun
    header,     \* the time in the header it is sealing, or None
    due,        \* when its delay is over
    steady,     \* history: miners that have run since the parent was sealed
    late,       \* history: the parent had to wait for a purchase
    stops

vars == <<now, list, supply, span, up, since, header, due, steady, late, stops>>

Owners(l) == {m \in Miner : l[m] # None}

\* The sorted list of calcBlockDifficulty: one ticket of every owner.
Lists == {l \in [Miner -> (0 .. Cardinality(Miner) - 1) \cup {None}] :
            /\ \A m, n \in Owners(l) : l[m] = l[n] => m = n
            /\ \A m \in Owners(l) : l[m] < Cardinality(Owners(l))}

\* Two owners have two tickets.
Supplies(l) == IF \E m, n \in Owners(l) : m # n THEN {"enough"} ELSE {"enough", "short"}

Idle == [m \in Miner |-> None]

Init ==
    /\ now = 0 /\ list \in Lists /\ supply \in Supplies(list) /\ span \in Spans /\ up = Miner
    /\ since = [m \in Miner |-> 0] /\ header = Idle /\ due = Idle
    /\ steady = Miner /\ late = FALSE /\ stops = 0

-----------------------------------------------------------------------------
(* The time in the header *)

\* commitNewWork: a block is at least MinBlockTime after its parent.
minTime(timestamp) == IF timestamp < MinBlockTime THEN MinBlockTime ELSE timestamp

maxDelaySeconds == maxBlockTime + Period

expectTime(order) == Period + order * delayTimeModifier

\* DaTong.Prepare moves an illegal time to the first legal one.
Prepare(time, order) ==
    IF order > 0 /\ time < maxDelaySeconds /\ time < expectTime(order)
      THEN IF expectTime(order) > maxDelaySeconds THEN maxDelaySeconds ELSE expectTime(order)
      ELSE time

\* The checks of verifyHeader on the time, with checkBlockTime.
checkBlockTime(time, order) ==
    order > 0 /\ time < maxDelaySeconds => time >= expectTime(order)

verifyHeader(time, order) ==
    /\ time <= now \div Second
    /\ time >= MinBlockTime
    /\ checkBlockTime(time, order)

-----------------------------------------------------------------------------
(* The delay before the seal: DaTong.calcDelayTime *)

\* Division of durations truncates towards zero.
Quotient(a, b) == IF a >= 0 THEN a \div b ELSE -((-a) \div b)

\* The block time is steered towards the period, by two seconds at most.
adjust(s) ==
    IF s = None THEN 0
    ELSE LET a == Quotient(Quotient(s * Second, adjustIntervalBlocks) - Period * Second,
                           adjustIntervalBlocks)
             stampSecond == 2 * Second
         IN  IF a > stampSecond THEN stampSecond ELSE IF a < -stampSecond THEN -stampSecond ELSE a

endTime(time) ==
    IF Period - 2 > maxBlockTime THEN time + maxBlockTime + Period - 2 ELSE time + Period - 2

calcDelayTime(time, order) ==
    IF order > 0 THEN time * Second ELSE endTime(time) * Second - adjust(span)

-----------------------------------------------------------------------------
(* Miners *)

\* commit: Finalize fails while there is one ticket at most, and nothing is
\* sealed; otherwise the engine waits for the delay.
commit(time, order) == IF supply = "short" THEN None ELSE calcDelayTime(time, order)

\* Mutant: a miner that is not the first in the list gives up.
StartWorkFirst(m) ==
    /\ m \in up /\ since[m] # None /\ list[m] = 0
    /\ header' = [header EXCEPT ![m] = Prepare(minTime(now \div Second), list[m])]
    /\ due' = [due EXCEPT ![m] = commit(header'[m], list[m])]
    /\ since' = [since EXCEPT ![m] = None]
    /\ UNCHANGED <<now, list, supply, span, up, steady, late, stops>>

\* commitNewWork for a new head or a start: the timestamp is now.
StartWork(m) ==
    /\ m \in up /\ since[m] # None /\ list[m] # None
    /\ header' = [header EXCEPT ![m] = Prepare(minTime(now \div Second), list[m])]
    /\ due' = [due EXCEPT ![m] = commit(header'[m], list[m])]
    /\ since' = [since EXCEPT ![m] = None]
    /\ UNCHANGED <<now, list, supply, span, up, steady, late, stops>>

\* ErrNoTicket: Prepare refuses a miner without a ticket.
NoTicket(m) ==
    /\ m \in up /\ since[m] # None /\ list[m] = None
    /\ since' = [since EXCEPT ![m] = None]
    /\ UNCHANGED <<now, list, supply, span, up, header, due, steady, late, stops>>

\* Mutant: the timestamp is taken anew.
ResubmittedNow(m) == Prepare(minTime(now \div Second), list[m])

\* newWorkLoop keeps the timestamp of the last head or start.
Resubmitted(m) == header[m]

\* commitNewWork for new transactions: another block takes the place of the
\* one being sealed.
Resubmit(m) ==
    /\ m \in up /\ header[m] # None
    /\ header' = [header EXCEPT ![m] = Resubmitted(m)]
    /\ due' = [due EXCEPT ![m] = commit(header'[m], list[m])]
    /\ UNCHANGED <<now, list, supply, span, up, since, steady, late, stops>>

\* A purchase reaches the miners: the block they make has a second ticket.
Buy ==
    /\ supply = "short" /\ supply' = "bought"
    /\ UNCHANGED <<now, list, span, up, since, header, due, steady, late, stops>>

\* The delay is over and the block goes out: it is the new head.  The list
\* comes from hashes, and tickets are bought, used up and expire: any order of
\* any owners may be next.
Seal(m) ==
    /\ m \in up /\ due[m] # None /\ due[m] <= now
    /\ now' = now - header[m] * Second
    /\ list' \in Lists /\ supply' \in Supplies(list') /\ span' \in Spans
    /\ since' = [n \in Miner |-> IF n \in up THEN now' ELSE None] /\ header' = Idle /\ due' = Idle
    /\ steady' = up /\ late' = (supply = "bought") /\ stops' = 0
    /\ UNCHANGED up

\* A node shuts down or crashes, and its seal is gone.
Stop(m) ==
    /\ m \in up /\ stops < MaxStops
    /\ up' = up \ {m} /\ steady' = steady \ {m} /\ stops' = stops + 1
    /\ header' = [header EXCEPT ![m] = None] /\ due' = [due EXCEPT ![m] = None]
    /\ since' = [since EXCEPT ![m] = None]
    /\ UNCHANGED <<now, list, supply, span, late>>

Start(m) ==
    /\ m \notin up
    /\ up' = up \cup {m}
    /\ since' = [since EXCEPT ![m] = now]
    /\ UNCHANGED <<now, list, supply, span, header, due, steady, late, stops>>

\* Time passes.  Timers fire and running miners take up work in time.
Tick ==
    /\ \A m \in up : /\ since[m] # None => now < since[m] + Latency
                     /\ due[m] # None => now < due[m]
    /\ since = Idle /\ due = Idle => now < MaxIdle
    /\ now' = now + 1
    /\ UNCHANGED <<list, supply, span, up, since, header, due, steady, late, stops>>

Step(m) == StartWork(m) \/ NoTicket(m) \/ Seal(m)

Next == Tick \/ Buy \/ \E m \in Miner : Step(m) \/ Resubmit(m) \/ Stop(m) \/ Start(m)

\* Time passes and a running miner works, also when a purchase makes it resubmit;
\* nobody has to stop, to start or to buy.
Fairness == WF_vars(Tick) /\ \A m \in Miner : WF_vars(Step(m)) /\ WF_vars(Resubmit(m))

Spec == Init /\ [][Next]_vars
-----------------------------------------------------------------------------
(* Properties *)

\* Whatever miners do, a block is sealed with a time that every verifier
\* accepts at once: not in the future, not too soon after the parent, and
\* not before the place in the list allows.
SealedIsValid == [][\A m \in Miner : Seal(m) => verifyHeader(header[m], list[m])]_vars

\* A miner that runs is not overtaken: no miner further down the list seals
\* before it, unless the longest delay has passed, or the parent, whose time is
\* that of its first attempt, had to wait for a purchase.
NotOvertaken ==
    [][\A m, n \in Miner :
         Seal(m) /\ ~late /\ n \in steady /\ list[n] # None /\ list[n] < list[m] =>
             header[m] >= maxDelaySeconds]_vars

\* The chain goes on past miners that have stopped and miners without tickets:
\* blocks cease only when no miner that owns a ticket keeps running, or when the
\* last ticket is left and nobody buys another ("wait buy ticket").
ChainGrows ==
    \A m \in Miner :
        <>[](m \in up /\ list[m] # None) /\ []<>(supply # "short") => []<><<\E n \in Miner : Seal(n)>>_vars
=============================================================================
