------------------------------ MODULE MCChain ------------------------------
(***************************************************************************)
(* The block chain and the consensus engines, side by side.  The models    *)
(* share no variable, so a behaviour exercises one of them, chosen at the  *)
(* start: Clique with four signers that vote as they like ("votes"),       *)
(* Clique with a node that is given proposals ("node"), the chain with a   *)
(* crash ("crash"), the chain with a crash and a SetHead ("rewind"), the   *)
(* ancestry check of headers ("headers") and the times of DaTong's blocks  *)
(* ("time").                                                               *)
(***************************************************************************)
EXTENDS Clique, DaTong, TLC

CONSTANTS
    g, a1, a2, a3, b1, b2, b3, c2,      \* blocks
    p1, p2,                             \* goroutines that import
    k1,                                 \* a goroutine that checks headers
    m1, m2, m3                          \* miners

One == {1}
Two == 1 .. 2
Three == 1 .. 3
Four == 1 .. 4

Node == INSTANCE Clique WITH
    Address <- Three, Genesis <- Two, Keys <- One, Epoch <- 3, MaxBlocks <- 4, MaxCalls <- 3

-----------------------------------------------------------------------------
\* A chain of three blocks, a fork at genesis that becomes heavier with its
\* third block, and a block as heavy on top of the first.
VARIABLES
    stored, canonical, headBlock, headHeader, diskStates, up, currentBlock, currentHeader,
    memStates, writing, todo, step, task, crashes, rewinds, stopped, scars

chainVars == <<stored, canonical, headBlock, headHeader, diskStates, up, currentBlock,
               currentHeader, memStates, writing, todo, step, task, crashes, rewinds,
               stopped, scars>>

Parents == a1 :> g @@ a2 :> a1 @@ a3 :> a2 @@ b1 :> g @@ b2 :> b1 @@ b3 :> b2 @@ c2 :> a1

Difficulties ==
    g :> 1 @@ a1 :> 2 @@ a2 :> 2 @@ a3 :> 2 @@ b1 :> 2 @@ b2 :> 1 @@ b3 :> 4 @@ c2 :> 5

Crashes == INSTANCE BlockChain WITH
    Block <- {g, a1, a2, a3, b1, b2, b3, c2}, Genesis <- g, parentOf <- Parents,
    difficulty <- Difficulties, Mined <- {c2}, Importer <- {p1}, Archive <- FALSE,
    triesInMemory <- 2, MaxCrashes <- 1, MaxRewinds <- 0, None <- Nothing

\* A fork of one block is enough for SetHead to leave it without ancestors.
Rewinds == INSTANCE BlockChain WITH
    Block <- {g, a1, a2, a3, b1, c2}, Genesis <- g, parentOf <- Parents,
    difficulty <- Difficulties, Mined <- {c2}, Importer <- {p1}, Archive <- FALSE,
    triesInMemory <- 2, MaxCrashes <- 1, MaxRewinds <- 1, None <- Nothing

ASSUME Crashes!BlockChainAssumption /\ Rewinds!BlockChainAssumption

-----------------------------------------------------------------------------
\* A chain of two blocks, imported whole or without its first block.
headerVars == <<known, states, future, array, len, chainmu, pc, batch, index, err, check, failed>>

ShortChain == {g, a1, a2}
ParentOf(h) == Parents[h]
ShortBatches == {<<a1, a2>>, <<a2>>}

\* The blocks before took too long, or as short as they may.
SomeSpans == {100, 12}

timeVars == <<now, place, supply, span, running, since, header, due, steady, late, stops>>

-----------------------------------------------------------------------------
VARIABLE part

\* Miners differ only by their places in the list.
MinerSymmetry == Permutations(Miner)

cliqueVars == vars
allVars == <<part, cliqueVars, chainVars, headerVars, timeVars>>

ChainInit ==
    /\ part \in {"votes", "node", "crash", "rewind", "headers", "time"}
    /\ IF part = "node" THEN Node!Init ELSE Init
    /\ IF part = "rewind" THEN Rewinds!Init ELSE Crashes!Init
    /\ Headers!Init
    /\ Times!Init
    /\ part # "time" => span = 12 /\ place = [m \in Miner |-> Nothing] /\ supply = "enough"

ConsensusNext ==
    /\ UNCHANGED chainVars
    /\ \/ part = "votes" /\ Next /\ UNCHANGED <<headerVars, timeVars>>
       \/ part = "node" /\ Node!Next /\ UNCHANGED <<headerVars, timeVars>>
       \/ part = "headers" /\ Headers!Next /\ UNCHANGED <<cliqueVars, timeVars>>
       \/ part = "time" /\ Times!Next /\ UNCHANGED <<cliqueVars, headerVars>>

BlocksNext ==
    /\ UNCHANGED <<cliqueVars, headerVars, timeVars>>
    /\ \/ part = "crash" /\ Crashes!Next
       \/ part = "rewind" /\ Rewinds!Next

ChainNext == UNCHANGED part /\ (ConsensusNext \/ BlocksNext)

ChainSpec == ChainInit /\ [][ChainNext]_allVars

-----------------------------------------------------------------------------
\* CanonicalIsAncestry of BlockChain, with and without rewinds: the numbers
\* up to the current block lead to its ancestors (insert, reorg, SetHead).
CanonicalIsAncestry ==
    /\ part = "crash" => Crashes!CanonicalIsAncestry
    /\ part = "rewind" => Rewinds!CanonicalIsAncestry

\* HeadHasState of BlockChain, with and without rewinds: the state of the
\* current block can be opened (WriteBlockWithState, Stop, repair, SetHead).
HeadHasState ==
    /\ part = "crash" => Crashes!HeadHasState
    /\ part = "rewind" => Rewinds!HeadHasState

\* SealedVerifies of Clique and SealedIsValid of BlockTime: what a node seals its
\* peers accept, although the header was prepared earlier (Prepare, Seal,
\* verifyHeader).
SealedIsValid == [](part = "node" => Node!SealedVerifies) /\ Times!SealedIsValid
=============================================================================
