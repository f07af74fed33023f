------------------------------ MODULE Tickets ------------------------------
(***************************************************************************)
(* Tickets, the stake of the DaTong consensus: BuyTicketFunc               *)
(* (core/state_transition.go) locks FSN in a ticket, and the end of every  *)
(* block (DaTong.Finalize, consensus/datong/consensus.go) uses up the      *)
(* ticket that won the block and those passed over, gives back what is     *)
(* left of their locks, drops expired tickets and pays the reward.  The    *)
(* order of the owners comes from hashes: here any order may come up.      *)
(***************************************************************************)
EXTENDS Accounts, FiniteSets

CONSTANTS
    TicketPrice,
    MinTicketLife,         \* 30 days: the shortest life of a ticket
    calcRewards(_),        \* the reward for a block, by its number
    maxNumberOfDeletedTickets,
    GenesisTickets,        \* tickets of height 0, of one owner, paid for by nobody
    Lives,                 \* the <<start, end>> that BuyTicket may name
    MaxHeight              \* bound: the last block explored

\* A ticket is identified by the hash of its owner and of the block before
\* its height; tickets of genesis have numbers.
Ticket == [owner : Address, height : Nat, number : Nat, start : Time, expire : Time]

IsInGenesis(ticket) == ticket.height = 0

ASSUME TicketsAssumption ==
    /\ TicketPrice \in Nat \ {0} /\ MinTicketLife \in Nat \ {0}
    /\ \A h \in 1 .. MaxHeight : calcRewards(h) \in Nat
    /\ maxNumberOfDeletedTickets \in Nat /\ MaxHeight \in Nat
    /\ Lives \subseteq Time \X Time
    /\ GenesisTickets \subseteq Ticket /\ GenesisTickets # {} /\ IsFiniteSet(GenesisTickets)
    /\ \A j, k \in GenesisTickets :
          IsInGenesis(k) /\ j.owner = k.owner /\ (j.number = k.number => j = k)

VARIABLES
    height,         \* the number of the block being processed
    tickets,        \* StateDB.tickets
    parentTickets,  \* the tickets stored at the end of the parent block
    minted          \* history: all the rewards paid so far

stakeVars == <<height, tickets, parentTickets>>
ticketVars == <<balance, lock, timestamp, stakeVars, minted>>

TicketsInit ==
    /\ AccountsInit
    /\ height = 1
    /\ tickets = GenesisTickets
    /\ parentTickets = GenesisTickets
    /\ minted = 0

-----------------------------------------------------------------------------
(* BuyTicketFunc *)

\* BuyTicketParam.Check as the state transition calls it: start + 30 days is
\* a uint64 and wraps.
BuyTicketCheck(start, end) ==
    end > start /\ end >= (start + MinTicketLife) % (TimeLockForever + 1)

\* Mutant: a second ticket of an owner in one block is not noticed.
IsTicketExistNever(from) == FALSE

IsTicketExist(from) == \E k \in tickets : k.owner = from /\ k.height = height

\* StateDB.AddTicket, which returns an error for a ticket it has.
AddTicket(ticket) ==
    IF IsTicketExist(ticket.owner) THEN tickets ELSE tickets \cup {ticket}

NewTicket(from, start, end) ==
    [owner |-> from, height |-> height, number |-> 0, start |-> start, expire |-> end]

\* The ticket is paid from the time-locked balance when that covers its life;
\* otherwise from the free balance, and what the price is worth outside the
\* ticket's life comes back as a time lock.
BuyTicket(from, start, end) ==
    LET s == SystemAssetID
        need == Span(Clip(start), end, TicketPrice)
        useAsset == ~Covers(lock[from][s], Clip(start), end, TicketPrice)
    IN  /\ ~IsTicketExist(from)
        /\ BuyTicketCheck(start, end)
        /\ SpanIsValid(Clip(start), end, TicketPrice)
        /\ useAsset => balance[from][s] >= TicketPrice
        /\ IF useAsset
             THEN /\ balance' = SubBalance(balance, from, s, TicketPrice)
                  /\ lock' = AddTimeLockBalance(lock, from, s, Minus(Whole(TicketPrice), need))
             ELSE /\ lock' = SubTimeLockBalance(lock, from, s, need)
                  /\ UNCHANGED balance
        /\ tickets' = AddTicket(NewTicket(from, start, end))
        /\ UNCHANGED <<timestamp, height, parentTickets, minted>>

-----------------------------------------------------------------------------
(* The end of a block.  calcBlockDifficulty takes one ticket of every owner *)
(* of the parent's tickets, in an order: list goes up to the coinbase.      *)

IsList(list) == \A i, j \in DOMAIN list : list[i].owner = list[j].owner => i = j

Selected(list) == list[Cardinality(DOMAIN list)]

\* The owners passed over each lose a ticket, seven at most.
Retreat(list) ==
    {i \in DOMAIN list : list[i] # Selected(list) /\ i <= maxNumberOfDeletedTickets}

Deleted(list) == {Selected(list)} \cup {list[i] : i \in Retreat(list)}

\* Mutants: tickets of genesis are paid out; the winner is not.
ReturnBackGenesis(list) ==
    {Selected(list)} \cup {list[i] : i \in Retreat(list) \ {1}}
ReturnBackRetreat(list) ==
    {k \in {list[i] : i \in Retreat(list) \ {1}} : ~IsInGenesis(k)}

\* Of these the first one passed over is a penalty, and tickets of genesis
\* were never paid for.
ReturnBack(list) ==
    {k \in {Selected(list)} \cup {list[i] : i \in Retreat(list) \ {1}} : ~IsInGenesis(k)}

\* checkTicketInfo.
checkTicketInfo(ticket, time) ==
    /\ ticket.height < height
    /\ BuyTicketCheck(ticket.start, ticket.expire)
    /\ ticket.expire >= time

\* ReturnTicket gives back what is left of a lock; list has one ticket of an
\* owner.
ReturnTicket(list, time) ==
    [a \in Address |->
        [s \in AssetID |->
            IF /\ s = SystemAssetID
               /\ \E k \in ReturnBack(list) : k.owner = a /\ k.expire > time
              THEN LET k == CHOOSE k \in ReturnBack(list) : k.owner = a
                   IN  Expire(Plus(lock[a][s], Span(k.start, k.expire, TicketPrice)), time)
              ELSE lock[a][s]]]

ClearExpiredTickets(live, time) == {k \in live : k.expire > time}

\* Tickets expire by the time of the parent, locks by that of the header.
UpdateTickets(list) == ClearExpiredTickets(tickets \ Deleted(list), timestamp)

Finalize(list, time) ==
    /\ IsList(list)
    /\ checkTicketInfo(Selected(list), time)
    /\ Cardinality(tickets) > 1
    /\ UpdateTickets(list) # {}
    /\ tickets' = UpdateTickets(list)
    /\ parentTickets' = tickets'
    /\ lock' = ReturnTicket(list, time)
    /\ balance' = AddBalance(balance, Selected(list).owner, SystemAssetID, calcRewards(height))
    /\ minted' = minted + calcRewards(height)
    /\ height' = height + 1
    /\ timestamp' = time

TicketsNext ==
    /\ height < MaxHeight
    /\ \/ \E from \in Address, life \in Lives : BuyTicket(from, life[1], life[2])
       \/ \E n \in 1 .. Cardinality(Address), time \in timestamp + 1 .. MaxTimestamp :
            \E list \in [1 .. n -> parentTickets] : Finalize(list, time)

TicketsSpec == TicketsInit /\ [][TicketsNext]_ticketVars
-----------------------------------------------------------------------------
(* Properties *)

\* Variables hold what the Go variables can hold, and no ticket is of a block
\* still to come.
TicketsTypeOK ==
    /\ AccountsTypeOK
    /\ height \in Nat /\ minted \in Nat
    /\ tickets \subseteq Ticket /\ parentTickets \subseteq Ticket
    /\ \A k \in tickets : k.height <= height

\* What account a's own tickets hold at instant t.
Staked(a, t) ==
    LET held == {k \in tickets : /\ k.owner = a /\ ~IsInGenesis(k)
                                 /\ k.start <= t /\ t <= k.expire}
    IN  TicketPrice * Cardinality(held)

\* Everything account a has at instant t: free, time-locked and in tickets.
Stake(a, t) == Worth(a, SystemAssetID, t) + Staked(a, t)

Issued == SumFunction([a \in Address |-> Genesis[a][SystemAssetID]]) + minted

\* FSN never comes out of nothing: at no instant from the parent time on do
\* balances, time locks and tickets together exceed the genesis supply and
\* the rewards, however purchases, returns and expiries are interleaved.
NoInflation ==
    \A t \in timestamp .. TimeLockForever :
        SumFunction([a \in Address |-> Stake(a, t)]) <= Issued

\* Buying a ticket costs its owner nothing but the use of the money, and the
\* end of a block takes from one account only, the first passed over, and at
\* most the price of one ticket; everybody else keeps at every later instant
\* what they had, free, locked or staked.
StakeIsKept ==
    [][\E loser \in Address : \A a \in Address :
         LET loss == IF a = loser /\ height' # height THEN TicketPrice ELSE 0
         IN  \A t \in timestamp' + 1 .. TimeLockForever : Stake(a, t)' >= Stake(a, t) - loss]_ticketVars

\* The tickets the next block is drawn from are all still in the state when
\* that block ends: DaTong.Finalize never fails to remove one it has used up,
\* and each identifies one ticket.
DrawnTicketsExist ==
    /\ parentTickets \subseteq tickets /\ parentTickets # {}
    /\ \A j, k \in tickets :
          j.owner = k.owner /\ j.height = k.height /\ j.number = k.number => j = k
=============================================================================
