---------------------------- MODULE TicketReplay ----------------------------
(***************************************************************************)
(* Where the tickets of a block come from (consensus/datong/consensus.go). *)
(* Finalize computes them when the block is executed, and their hash is    *)
(* the MixDigest of the header.  getAllTickets finds them for a header:    *)
(* in the cache, in the state of the block, or, when a crash or pruning    *)
(* has taken that state away, by replaying the purchases and uses of the   *)
(* blocks since the last state there is.  The hash covers the order of the *)
(* tickets, so sets are kept as the code keeps them: rows of owners in     *)
(* order, each with its tickets in order (common/ticket.go).               *)
(***************************************************************************)
EXTENDS Integers, Sequences, SequencesExt, FiniteSets

CONSTANTS
    Owner,
    GenesisRows,                \* the tickets of the genesis block
    maxNumberOfDeletedTickets,
    MinBlockTime,
    Steps,                      \* how much later than its parent a block may be
    Lives,                      \* how long after its block a ticket may expire
    MaxBuys,                    \* bound: purchases in a block
    MaxHeight,                  \* bound: blocks after genesis
    Failed                      \* an error result

TicketReplayAssumption ==
    /\ \A d \in Steps : d \in Nat /\ d >= MinBlockTime
    /\ MinBlockTime \in Nat \ {0} /\ Lives \subseteq Nat
    /\ \A r \in Range(GenesisRows) : r.tickets # <<>>

VARIABLES
    blocks,     \* the headers, receipts and MixDigests in the database
    states,     \* the numbers of the blocks whose state can be opened
    head        \* the number of the current block

vars == <<blocks, states, head>>

\* A header with what its receipts and its snapshot say.
NewBlock(time, bought, selected, retreat, rows) ==
    [time |-> time, bought |-> bought, selected |-> selected, retreat |-> retreat, mixDigest |-> rows]

Block(n) == blocks[n + 1]
Top == Len(blocks) - 1

Init ==
    /\ blocks = <<NewBlock(0, <<>>, Failed, <<>>, GenesisRows)>>
    /\ states = {0} /\ head = 0

-----------------------------------------------------------------------------
(* TicketsDataSlice *)

TicketsOf(rows) == UNION {Range(r.tickets) : r \in Range(rows)}

\* A ticket that is there already is an error; owner and height identify one.
AddTicket(rows, ticket) ==
    IF rows = Failed \/ ticket \in TicketsOf(rows) THEN Failed
    ELSE IF \E i \in DOMAIN rows : rows[i].owner = ticket.owner
      THEN [i \in DOMAIN rows |->
              IF rows[i].owner = ticket.owner
                THEN [rows[i] EXCEPT !.tickets = Append(@, ticket)] ELSE rows[i]]
      ELSE Append(rows, [owner |-> ticket.owner, tickets |-> <<ticket>>])

\* Rows without a ticket disappear.
Without(rows, gone) ==
    SelectSeq([i \in DOMAIN rows |->
                 [rows[i] EXCEPT !.tickets = SelectSeq(@, LAMBDA k : k \notin gone)]],
              LAMBDA r : r.tickets # <<>>)

RemoveTicket(rows, ticket) ==
    IF rows = Failed \/ ticket \notin TicketsOf(rows) THEN Failed ELSE Without(rows, {ticket})

ClearExpiredTickets(rows, time) ==
    IF rows = Failed \/ \A k \in TicketsOf(rows) : k.expire <= time THEN Failed
    ELSE Without(rows, {k \in TicketsOf(rows) : k.expire <= time})

-----------------------------------------------------------------------------
(* A block: purchases, then DaTong.Finalize *)

\* One ticket of every owner of the parent's tickets, in any order, up to
\* the coinbase's; those before it retreat, seven at most.
Draws(rows) ==
    {list \in UNION {[1 .. n -> TicketsOf(rows)] : n \in 1 .. Len(rows)} :
        \A i, j \in DOMAIN list : list[i].owner = list[j].owner => i = j}

RetreatOf(list) == SubSeq(list, 1, IF Len(list) - 1 < maxNumberOfDeletedTickets
                                     THEN Len(list) - 1 ELSE maxNumberOfDeletedTickets)

\* Purchases of a block: every owner at most one.
Purchases(number, time) ==
    {bought \in UNION {[1 .. n -> {[owner |-> o, height |-> number, number |-> 0, expire |-> time + d] :
                                     o \in Owner, d \in Lives}] : n \in 0 .. MaxBuys} :
        \A i, j \in DOMAIN bought : bought[i].owner = bought[j].owner => i = j}

Bought(rows, bought) == FoldLeft(AddTicket, rows, bought)

\* RemoveTicket's error is ignored here.
Deleted(rows, gone) == Without(rows, Range(gone))

Finalize(rows, list, parentTime) ==
    IF Cardinality(TicketsOf(rows)) <= 1 THEN Failed
    ELSE ClearExpiredTickets(Deleted(rows, <<Last(list)>> \o RetreatOf(list)), parentTime)

\* A new block on the head is executed and written.
WriteBlock ==
    /\ head = Top /\ Top < MaxHeight
    /\ \E d \in Steps, list \in Draws(Block(head).mixDigest) :
         LET parent == Block(head)
             time == parent.time + d
         IN  /\ Last(list).expire >= time
             /\ \E bought \in Purchases(head + 1, parent.time) :
                  LET rows == Finalize(Bought(parent.mixDigest, bought), list, parent.time)
                  IN  /\ rows # Failed
                      /\ blocks' = Append(blocks, NewBlock(time, bought, Last(list), RetreatOf(list), rows))
    /\ head' = head + 1
    /\ states' = states \cup {head'}

\* A block that is known but has no state is executed again.
Reimport ==
    /\ head < Top
    /\ head' = head + 1
    /\ states' = states \cup {head'}
    /\ UNCHANGED blocks

\* Tries of old blocks are dropped from memory.
Prune(n) ==
    /\ n \in states /\ 0 < n /\ n < head
    /\ states' = states \ {n}
    /\ UNCHANGED <<blocks, head>>

\* The states that were not on disk are gone, and the cache with them; repair
\* goes back to the last block with a state.
Crash ==
    /\ \E kept \in SUBSET states :
         /\ 0 \in kept
         /\ states' = kept
         /\ head' = CHOOSE n \in kept : n <= head /\ \A m \in kept : m <= head => m <= n
    /\ UNCHANGED blocks

-----------------------------------------------------------------------------
(* DaTong.getAllTickets *)

\* Mutant: retreated tickets are not replayed.
ProcessSnapSelected(rows, n) == RemoveTicket(rows, Block(n).selected)

processSnap(rows, n) == FoldLeft(RemoveTicket, RemoveTicket(rows, Block(n).selected), Block(n).retreat)

processLogs(rows, n) == Bought(rows, Block(n).bought)

\* The tickets of block n from those of block past: all the blocks between
\* are replayed, then what has expired by the time of block n is cleared.
Replay(past, n) ==
    ClearExpiredTickets(
        FoldLeft(LAMBDA rows, k : processSnap(processLogs(rows, k), k),
                 Block(past).mixDigest,
                 [i \in 1 .. n - past |-> past + i]),
        Block(n).time)

\* A set is cached and returned when its hash is the MixDigest.
AddCachedTickets(n, rows) == IF rows = Block(n).mixDigest THEN rows ELSE Failed

LastState(n) == CHOOSE m \in states : m < n /\ \A k \in states : k < n => k <= m

\* TicketCache has the lookups and what they add: a set in the cache, or in
\* a state, is the one that was stored.
getAllTickets(n) ==
    IF n \in states THEN Block(n).mixDigest
    ELSE AddCachedTickets(n, Replay(LastState(n), n))

Next ==
    \/ WriteBlock \/ Reimport \/ Crash
    \/ \E n \in 0 .. MaxHeight : Prune(n)

Spec == Init /\ [][Next]_vars

-----------------------------------------------------------------------------
(* Properties *)

\* The tickets that Finalize cleared at the end of block n.
Cleared(n) ==
    LET used == {Block(n).selected} \cup Range(Block(n).retreat)
    IN  {k \in (TicketsOf(Block(n - 1).mixDigest) \cup Range(Block(n).bought)) \ used :
            k.expire <= Block(n - 1).time}

\* A ticket expires between the parent's time, by which Finalize clears, and
\* the block's own time, by which getAllTickets clears.
ExpiresBetween(n) == \E k \in TicketsOf(Block(n).mixDigest) : k.expire <= Block(n).time

\* An owner lost a ticket by expiry and has none left when it buys again: its
\* row went and is appended, but in the replay, which clears last, it never went.
RowReturns(past, n) ==
    \E j \in past + 2 .. n : \E bought \in Range(Block(j).bought) :
        /\ \A r \in Range(Block(j - 1).mixDigest) : r.owner # bought.owner
        /\ \E i \in past + 1 .. j - 1 : \E k \in Cleared(i) : k.owner = bought.owner

\* Whatever states a crash or pruning has taken away, getAllTickets finds the
\* tickets a header commits to, in the order that the MixDigest covers, unless one
\* expires between the two times or the row of an owner returns; then the hash
\* does not match and there is an error.
ReplayFindsTheSet ==
    \A n \in 0 .. Top :
        \/ getAllTickets(n) = Block(n).mixDigest
        \/ ExpiresBetween(n)
        \/ RowReturns(LastState(n), n)
=============================================================================
