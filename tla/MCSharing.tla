----------------------------- MODULE MCSharing -----------------------------
(***************************************************************************)
(* What goroutines share, side by side: the event feed ("feed"), and the   *)
(* two ways to the ticket set of a past block, the ring of cached sets     *)
(* ("ring") and, when it does not have the set, the replay from a state    *)
(* further back ("replay").  A behaviour exercises one of them, chosen at  *)
(* the start.                                                              *)
(*                                                                         *)
(* Two goroutines share a ring of three slots, which holds two sets.  In   *)
(* the replay one owner has two tickets of genesis; the other, whose row   *)
(* is the first, has one that expires early enough to buy another.  Two    *)
(* channels subscribe, twice each, and two senders send.                   *)
(***************************************************************************)
EXTENDS Sharing, TLC

CONSTANTS alice, bob, Failed      \* of the replay

feedVars == vars

ringVars == <<hashes, tickets, start, end, rwlock, at, key, seen, answer>>

VARIABLES blocks, states, head

replayVars == <<blocks, states, head>>

GenesisTicket(owner, n, expire) == [owner |-> owner, height |-> 0, number |-> n, expire |-> expire]

GenesisRows ==
    <<[owner |-> bob, tickets |-> <<GenesisTicket(bob, 1, 1)>>],
      [owner |-> alice, tickets |-> <<GenesisTicket(alice, 1, 9), GenesisTicket(alice, 2, 9)>>]>>

Past == INSTANCE TicketReplay WITH
    Owner <- {alice, bob}, maxNumberOfDeletedTickets <- 1, MinBlockTime <- 1, Steps <- {1},
    Lives <- {2, 9}, MaxBuys <- 1, MaxHeight <- 3

ASSUME Past!TicketReplayAssumption

VARIABLE part

SharingInit == part \in {"feed", "ring", "replay"} /\ Init /\ Ring!Init /\ Past!Init

SharingNext ==
    /\ UNCHANGED part
    /\ \/ part = "feed" /\ Next /\ UNCHANGED <<ringVars, replayVars>>
       \/ part = "ring" /\ Ring!Next /\ UNCHANGED <<feedVars, replayVars>>
       \/ part = "replay" /\ Past!Next /\ UNCHANGED <<feedVars, ringVars>>

SharingSpec == SharingInit /\ [][SharingNext]_<<part, feedVars, ringVars, replayVars>>

\* Goroutines and hashes are only ever compared.
Symmetry == Permutations(Proc) \cup Permutations(Hash)

\* ReplayFindsTheSet of TicketReplay: getAllTickets finds the tickets of a
\* block, in order, from whatever past state there is, unless one expires
\* between two times or the row of an owner returns.
ReplayFindsTheSet == Past!ReplayFindsTheSet
=============================================================================
