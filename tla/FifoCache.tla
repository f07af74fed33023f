----------------------------- MODULE FifoCache -----------------------------
(***************************************************************************)
(* What a cache of ticket sets promises to those who add to it: it holds   *)
(* the last additions, as many as fit, oldest first.  The ring of          *)
(* core/state/statedb.go is shown to implement this in TicketCache.        *)
(***************************************************************************)
EXTENDS Naturals, Sequences

CONSTANTS Key, Capacity

VARIABLE cached     \* the keys held, oldest first

Init == cached = <<>>

Latest(keys) == IF Len(keys) > Capacity THEN Tail(keys) ELSE keys

Add(key) == cached' = Latest(Append(cached, key))

Next == \E key \in Key : Add(key)

Spec == Init /\ [][Next]_cached
=============================================================================
