------------------------------ MODULE Sharing ------------------------------
(***************************************************************************)
(* What the goroutines of a node share, side by side: the event feed and   *)
(* the ring of cached ticket sets.                                         *)
(***************************************************************************)
EXTENDS Feed

CONSTANTS Proc, Hash, ZeroHash, N, Nil, Empty, Torn      \* of the ring

VARIABLES hashes, tickets, start, end, rwlock, at, key, seen, answer

Ring == INSTANCE TicketCache WITH pc <- at

ASSUME RingAssumption == Ring!TicketCacheAssumption

\* HoldsTheLatest of TicketCache: the ring holds the sets added last, as a
\* first-in-first-out cache would (CachedTicketSlice.Add).
HoldsTheLatest == Ring!HoldsTheLatest

\* QuietGetIsExact of TicketCache: a Get during which nothing was written
\* answers with what the ring holds (CachedTicketSlice.Get).
QuietGetIsExact == Ring!QuietGetIsExact
=============================================================================
