----------------------------- MODULE MCProgress -----------------------------
(***************************************************************************)
(* What must happen at last, side by side.  The models share no variable,  *)
(* so a behaviour exercises one of them, chosen at the start: the chain    *)
(* that peers keep offering blocks to ("chain"), the worker ("worker") and *)
(* the times of DaTong's blocks ("time").                                  *)
(***************************************************************************)
EXTENDS TLC

CONSTANTS
    g, a1, a2, b1, b2, c2,      \* blocks
    p1,                         \* a goroutine that imports
    m1, m2,                     \* miners
    Nothing

-----------------------------------------------------------------------------
\* Two chains of two blocks, and a block of the local miner that makes its chain
\* strictly the heaviest; one crash.
VARIABLES
    stored, canonical, headBlock, headHeader, diskStates, up, currentBlock, currentHeader,
    memStates, writing, todo, step, task, crashes, rewinds, stopped, scars

chainVars == <<stored, canonical, headBlock, headHeader, diskStates, up, currentBlock,
               currentHeader, memStates, writing, todo, step, task, crashes, rewinds,
               stopped, scars>>

Parents == a1 :> g @@ a2 :> a1 @@ b1 :> g @@ b2 :> b1 @@ c2 :> a1

Difficulties == g :> 1 @@ a1 :> 2 @@ a2 :> 2 @@ b1 :> 2 @@ b2 :> 1 @@ c2 :> 6

Chain == INSTANCE BlockChain WITH
    Block <- {g, a1, a2, b1, b2, c2}, Genesis <- g, parentOf <- Parents,
    difficulty <- Difficulties, Mined <- {c2}, Importer <- {p1}, Archive <- FALSE,
    triesInMemory <- 2, MaxCrashes <- 1, MaxRewinds <- 0, None <- Nothing

-----------------------------------------------------------------------------
\* Three blocks up to number 2, and channels and depths of one or two.
VARIABLES
    head, known, heads, startCh, running, newTxs, timer, newWork, interrupt, adjusts, main,
    worked, prev, pendingTasks, seals, results, unconfirmed, fastBlockNumber, mined

workerVars == <<head, known, heads, startCh, running, newTxs, timer, newWork, interrupt, adjusts,
                main, worked, prev, pendingTasks, seals, results, unconfirmed, fastBlockNumber, mined>>

Mining == INSTANCE Worker WITH
    MaxBlock <- 2, MaxNumber <- 2, resubmitAdjustChanSize <- 1, resultQueueSize <- 2,
    miningLogAtDepth <- 1, staleThreshold <- 1

-----------------------------------------------------------------------------
\* Two miners that may own tickets, one of which may stop during a block.
VARIABLES now, list, supply, span, alive, since, header, expires, steady, late, stops

timeVars == <<now, list, supply, span, alive, since, header, expires, steady, late, stops>>

Time == INSTANCE BlockTime WITH
    Miner <- {m1, m2}, Second <- 1, Period <- 15, delayTimeModifier <- 15, adjustIntervalBlocks <- 10,
    MinBlockTime <- 7, maxBlockTime <- 20, Spans <- {Nothing}, Latency <- 1,
    MaxStops <- 1, MaxIdle <- 20, None <- Nothing, up <- alive, due <- expires

ASSUME Chain!BlockChainAssumption /\ Mining!WorkerAssumption /\ Time!BlockTimeAssumption

-----------------------------------------------------------------------------
VARIABLE part

allVars == <<part, chainVars, workerVars, timeVars>>

ProgressInit ==
    /\ part \in {"chain", "worker", "time"}
    /\ Chain!Init /\ Mining!Init /\ Time!Init
    /\ fastBlockNumber \in {0, 2} /\ (part # "worker" => fastBlockNumber = 0)
    /\ part # "time" => list = [m \in {m1, m2} |-> Nothing] /\ supply = "enough"

ProgressNext ==
    /\ UNCHANGED part
    /\ \/ part = "chain" /\ Chain!Next /\ UNCHANGED <<workerVars, timeVars>>
       \/ part = "worker" /\ Mining!Next /\ UNCHANGED <<chainVars, timeVars>>
       \/ part = "time" /\ Time!Next /\ UNCHANGED <<chainVars, workerVars>>

\* The fairness of the models: goroutines go on, peers keep offering the best
\* chain, time passes; each only in the behaviours of the model.
ProgressFairness ==
    /\ WF_workerVars(part = "worker" /\ Mining!newWorkLoop)
    /\ SF_workerVars(part = "worker" /\ Mining!OnHead)
    /\ SF_workerVars(part = "worker" /\ Mining!OnAdjust)
    /\ WF_workerVars(part = "worker" /\ Mining!mainLoop)
    /\ SF_workerVars(part = "worker" /\ Mining!commitNewWork)
    /\ WF_workerVars(part = "worker" /\ Mining!takeTask)
    /\ WF_workerVars(part = "worker" /\ Mining!resultLoop)
    /\ WF_chainVars(part = "chain" /\ Chain!Write)
    /\ WF_chainVars(part = "chain" /\ Chain!Start)
    /\ WF_chainVars(part = "chain" /\ Chain!Import(p1))
    /\ \A b \in {a1, c2} : SF_chainVars(part = "chain" /\ Chain!InsertChain(p1, b))
    /\ WF_timeVars(part = "time" /\ Time!Tick)
    /\ \A m \in {m1, m2} : WF_timeVars(part = "time" /\ Time!Step(m))
                          /\ WF_timeVars(part = "time" /\ Time!Resubmit(m))

ProgressSpec == ProgressInit /\ [][ProgressNext]_allVars /\ ProgressFairness

-----------------------------------------------------------------------------
\* BestIsAdopted of BlockChain: the heaviest chain that peers keep offering
\* becomes and remains the canonical one, after any crash.
BestIsAdopted == part = "chain" => Chain!BestIsAdopted

\* HeadIsWorkedOn of Worker: every new head is worked on at last (newWorkLoop,
\* mainLoop), unless the adjustment channel is full.
HeadIsWorkedOn == part = "worker" => Mining!HeadIsWorkedOn

\* OneBlockPerParent of Worker: two blocks of this node on one parent are never
\* both written (unconfirmedBlocks, resultLoop), unless the chain has moved on.
OneBlockPerParent == Mining!OneBlockPerParent

\* ChainGrows of BlockTime: blocks cease only when no miner that owns a ticket
\* keeps running or nobody buys when one ticket is left (calcBlockDifficulty,
\* Finalize, calcDelayTime).
ChainGrows == part = "time" => Time!ChainGrows
=============================================================================
