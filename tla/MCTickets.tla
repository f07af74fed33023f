----------------------------- MODULE MCTickets -----------------------------
(* All tickets of genesis belong to one owner; each of the others has money *)
(* for a ticket.  There are enough blocks for a bought ticket to win, to be *)
(* passed over first or second, to be given back and to expire.             *)
EXTENDS Tickets, TLC

CONSTANTS a1, a2, a3, fsn

MCAddress == {a1, a2, a3}
MCAssetID == {fsn}
MCGenesis == [a \in MCAddress |-> [s \in MCAssetID |-> IF a = a1 THEN 0 ELSE 1]]

MCGenesisTickets ==
    {[owner |-> a1, height |-> 0, number |-> n, start |-> 0, expire |-> 2] : n \in 0 .. 2}
MCLives == {<<0, 2>>, <<0, 5>>, <<1, 3>>, <<4, 5>>}

CONSTANTS InitialReward, HalvingBlocks

\* The reward is halved once for every segment of blocks.
HalvedReward(h) == InitialReward \div 2^(h \div HalvingBlocks)
=============================================================================
