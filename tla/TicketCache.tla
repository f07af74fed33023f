---------------------------- MODULE TicketCache ----------------------------
(***************************************************************************)
(* cachedTicketSlice (core/state/statedb.go): the ticket sets of recent    *)
(* blocks, in a ring that every StateDB of the process shares.  Add writes *)
(* under the lock of the ring.  Get has a value receiver: the call copies  *)
(* the whole ring, its lock included, without holding anything, and then   *)
(* locks and searches the copy.  A word that is written while it is copied *)
(* may come out old or new, and a value of several words may come out      *)
(* mixed.  The tickets stored under a hash are written as that hash.       *)
(***************************************************************************)
EXTENDS Naturals, Sequences

CONSTANTS
    Proc,       \* goroutines that work on states
    Hash,       \* hashes of ticket sets
    ZeroHash,   \* common.Hash{}
    N,          \* maxCachedTicketsCount
    Nil, Empty, Torn, None

TicketCacheAssumption ==
    /\ N \in Nat /\ N > 1
    /\ None \notin Proc /\ Nil # Empty

Slot == 0 .. N - 1

\* What a slot can hold and what a Get can answer.
Tickets == Hash \cup {Nil}
Answer == Tickets \cup {Empty, Torn, None}

VARIABLES
    hashes, tickets,    \* CachedTicketSlice.tickets, the two fields of an entry
    start, end,
    rwlock,             \* the writer that holds the lock, or None
    pc,                 \* where every goroutine is
    key,                \* the hash it is after
    seen,               \* the values each word had since its Get began to copy
    answer              \* what its last Get returned

ring == <<hashes, tickets, start, end, rwlock>>
vars == <<ring, pc, key, seen, answer>>

Labels == {"idle", "get", "addget", "got", "missed", "stuck", "lock", "write", "hash", "tickets",
           "end", "start", "unlock"}

Unseen == [hashes |-> [i \in Slot |-> {}], tickets |-> [i \in Slot |-> {}],
           start |-> {}, end |-> {}, held |-> {}]

Init ==
    /\ hashes = [i \in Slot |-> ZeroHash] /\ tickets = [i \in Slot |-> Nil]
    /\ start = 0 /\ end = 0 /\ rwlock = None
    /\ pc = [p \in Proc |-> "idle"]
    /\ key = [p \in Proc |-> ZeroHash]
    /\ seen = [p \in Proc |-> Unseen]
    /\ answer = [p \in Proc |-> None]

-----------------------------------------------------------------------------
(* Get *)

Next1(i) == (i + 1) % N

\* Mutant: the search starts one slot late.
VisitedLate(from, to) ==
    {i \in Slot \ {from} : (i + N - from) % N < (to + N - from) % N}

\* The slots a search visits, from the start up to the end and not the end.
Visited(from, to) == {i \in Slot : (i + N - from) % N < (to + N - from) % N}

Goto(p, label) == pc' = [pc EXCEPT ![p] = label]
Forget(p) == seen' = [seen EXCEPT ![p] = Unseen]

\* The copy of the receiver begins: for Get(zero) nothing of it is used.
BeginCopy(p) ==
    seen' = [seen EXCEPT ![p] =
               [hashes |-> [i \in Slot |-> {hashes[i]}], tickets |-> [i \in Slot |-> {tickets[i]}],
                start |-> {start}, end |-> {end}, held |-> {rwlock # None}]]

\* Every write adds to what the copies in progress may have read.
Copying(p) == pc[p] \in {"get", "addget"}

Observed ==
    [p \in Proc |->
        IF ~Copying(p) THEN seen[p]
        ELSE [hashes |-> [i \in Slot |-> seen[p].hashes[i] \cup {hashes'[i]}],
              tickets |-> [i \in Slot |-> seen[p].tickets[i] \cup {tickets'[i]}],
              start |-> seen[p].start \cup {start'},
              end |-> seen[p].end \cup {end'},
              held |-> seen[p].held \cup {rwlock' # None}]]

\* A value of several words, copied while it changed, may be a mixture.
Copied(values) == IF \E v, w \in values : v # w THEN values \cup {Torn} ELSE values

\* What a search of the copy can return, from one slot to another: the tickets
\* of a slot that may have the hash when the slots before it may have another,
\* or nothing.
MayMiss(p, i) == seen[p].hashes[i] # {key[p]}

Hits(p, from, to) ==
    {i \in Visited(from, to) :
       /\ key[p] \in seen[p].hashes[i]
       /\ \A j \in Visited(from, to) : (j + N - from) % N < (i + N - from) % N => MayMiss(p, j)}

Found(p, from, to) ==
    (UNION {Copied(seen[p].tickets[i]) : i \in Hits(p, from, to)})
      \cup (IF \A i \in Visited(from, to) : MayMiss(p, i) THEN {Nil} ELSE {})

Answers(p) == UNION {Found(p, from, to) : from \in seen[p].start, to \in seen[p].end}

\* The copied lock has no owner that would release it.
GetBlocks(p) ==
    /\ Copying(p) /\ key[p] # ZeroHash
    /\ TRUE \in seen[p].held
    /\ Goto(p, "stuck")
    /\ Forget(p)
    /\ UNCHANGED <<ring, key, answer>>

Get(p) ==
    /\ Copying(p)
    /\ IF key[p] = ZeroHash
         THEN answer' = [answer EXCEPT ![p] = Empty]
         ELSE /\ FALSE \in seen[p].held
              /\ \E found \in Answers(p) : answer' = [answer EXCEPT ![p] = found]
    /\ Goto(p, IF answer'[p] # Nil THEN "got" ELSE IF pc[p] = "get" THEN "missed" ELSE "lock")
    /\ Forget(p)
    /\ UNCHANGED <<ring, key>>

-----------------------------------------------------------------------------
(* Those who call it *)

\* GetCachedTickets, or AllTickets of a StateDB that has not loaded its set.
GetCachedTickets(p, hash) ==
    /\ pc[p] = "idle"
    /\ key' = [key EXCEPT ![p] = hash]
    /\ BeginCopy(p)
    /\ Goto(p, "get")
    /\ UNCHANGED <<ring, answer>>

\* UpdateTickets and AddCachedTickets add the set whose hash they computed;
\* AllTickets that missed adds the set it read from the database.
Add(p, hash) ==
    /\ \/ pc[p] = "idle"
       \/ pc[p] = "missed" /\ hash = key[p]
    /\ key' = [key EXCEPT ![p] = hash]
    /\ BeginCopy(p)
    /\ Goto(p, "addget")
    /\ UNCHANGED <<ring, answer>>

\* The caller is done with the answer.  getAllTickets goes back to a past
\* state when the state of a block is gone, and adds nothing on a miss.
Return(p) ==
    /\ pc[p] \in {"got", "missed"}
    /\ Goto(p, "idle")
    /\ answer' = [answer EXCEPT ![p] = None]
    /\ key' = [key EXCEPT ![p] = ZeroHash]
    /\ UNCHANGED <<ring, seen>>

-----------------------------------------------------------------------------
(* The rest of Add, under the lock *)

Lock(p) ==
    /\ pc[p] = "lock" /\ rwlock = None
    /\ rwlock' = p
    /\ Goto(p, "write")
    /\ UNCHANGED <<hashes, tickets, start, end, key, answer>>
    /\ seen' = Observed

\* cts.tickets[cts.end] = elem is two writes, in the order of the compiler.
WriteHash(p) ==
    /\ pc[p] \in {"write", "hash"}
    /\ hashes' = [hashes EXCEPT ![end] = key[p]]
    /\ Goto(p, IF pc[p] = "write" THEN "tickets" ELSE "end")
    /\ UNCHANGED <<tickets, start, end, rwlock, key, answer>>
    /\ seen' = Observed

WriteTickets(p) ==
    /\ pc[p] \in {"write", "tickets"}
    /\ tickets' = [tickets EXCEPT ![end] = key[p]]
    /\ Goto(p, IF pc[p] = "write" THEN "hash" ELSE "end")
    /\ UNCHANGED <<hashes, start, end, rwlock, key, answer>>
    /\ seen' = Observed

\* Mutant: the end runs into the start.
FullNever == FALSE

\* The ring holds one entry less than it has slots.
Full == end' = start

MoveEnd(p) ==
    /\ pc[p] = "end"
    /\ end' = Next1(end)
    /\ Goto(p, IF Full THEN "start" ELSE "unlock")
    /\ UNCHANGED <<hashes, tickets, start, rwlock, key, answer>>
    /\ seen' = Observed

MoveStart(p) ==
    /\ pc[p] = "start"
    /\ start' = Next1(start)
    /\ Goto(p, "unlock")
    /\ UNCHANGED <<hashes, tickets, end, rwlock, key, answer>>
    /\ seen' = Observed

Unlock(p) ==
    /\ pc[p] = "unlock"
    /\ rwlock' = None
    /\ Goto(p, "idle")
    /\ answer' = [answer EXCEPT ![p] = None]
    /\ key' = [key EXCEPT ![p] = ZeroHash]
    /\ UNCHANGED <<hashes, tickets, start, end>>
    /\ seen' = Observed

Call(p) == \E hash \in Hash \cup {ZeroHash} : GetCachedTickets(p, hash) \/ Add(p, hash)

Finish(p) ==
    \/ Get(p) \/ GetBlocks(p)
    \/ WriteHash(p) \/ WriteTickets(p) \/ MoveEnd(p) \/ MoveStart(p) \/ Unlock(p)

Next == \E p \in Proc : Call(p) \/ Return(p) \/ Lock(p) \/ Finish(p)

Spec == Init /\ [][Next]_vars
-----------------------------------------------------------------------------
(* Properties *)

\* What the ring holds.  An Add that has moved the end onto the start has
\* already dropped the oldest entry.
First == IF \E p \in Proc : pc[p] = "start" THEN Next1(start) ELSE start

Contents == [i \in 1 .. (end + N - First) % N |-> hashes[(First + i - 1) % N]]

Fifo == INSTANCE FifoCache WITH Key <- Hash, Capacity <- N - 1, cached <- Contents

\* Refinement: whatever the interleaving, the ring holds the last N - 1 sets
\* added to it, in order, and nothing else (CachedTicketSlice.Add).
HoldsTheLatest == Fifo!Spec

\* A Get whose copy no Add overlapped is exact: it finds the tickets of the
\* hash when the ring has them and nothing otherwise (CachedTicketSlice.Get).
Undisturbed(p) ==
    /\ seen[p].held = {FALSE} /\ seen[p].start = {start} /\ seen[p].end = {end}
    /\ \A i \in Slot : seen[p].hashes[i] = {hashes[i]} /\ seen[p].tickets[i] = {tickets[i]}

ExactGet(p) ==
    Copying(p) /\ ~Copying(p)' /\ key[p] # ZeroHash /\ Undisturbed(p) =>
        answer'[p] = IF \E i \in DOMAIN Contents : Contents[i] = key[p] THEN key[p] ELSE Nil

QuietGetIsExact == [][\A p \in Proc : ExactGet(p)]_vars
=============================================================================
