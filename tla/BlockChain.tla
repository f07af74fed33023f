----------------------------- MODULE BlockChain -----------------------------
(***************************************************************************)
(* The chain of blocks a node keeps (core/blockchain.go, headerchain.go):  *)
(* imports under chainmu, the miner's own blocks without it, writes and    *)
(* reorganisations under mu one database write at a time, rewinds, and     *)
(* what is left after a crash or a clean stop.  Headers and bodies are     *)
(* stored together; the head of fast synchronisation, which this network   *)
(* does not support, moves with the head header and is left out.           *)
(* States of blocks are on disk or in memory only, where they are dropped  *)
(* triesInMemory blocks later.                                             *)
(***************************************************************************)
EXTENDS Naturals, FiniteSets, Sequences, SequencesExt

CONSTANTS
    Block, Genesis,
    parentOf,           \* parent of every block but genesis
    difficulty,         \* of every block, positive
    Mined,              \* blocks of the local miner
    Importer,           \* goroutines that call InsertChain
    Archive,            \* cacheConfig.Disabled: every state goes to disk
    triesInMemory,
    MaxCrashes, MaxRewinds,
    None

Number[b \in Block] == IF b = Genesis THEN 0 ELSE Number[parentOf[b]] + 1

Td[b \in Block] == difficulty[b] + (IF b = Genesis THEN 0 ELSE Td[parentOf[b]])

Ancestors[b \in Block] == {b} \cup (IF b = Genesis THEN {} ELSE Ancestors[parentOf[b]])

MaxNumber == CHOOSE n \in 0 .. Cardinality(Block) :
               (\E b \in Block : Number[b] = n) /\ (\A b \in Block : Number[b] <= n)

\* A chain that is not heavier than another is not longer by triesInMemory:
\* otherwise the states of the heavier one would be dropped.
BlockChainAssumption ==
    /\ Genesis \in Block /\ Mined \subseteq Block
    /\ triesInMemory \in Nat \ {0, 1}
    /\ \A b \in Block : difficulty[b] \in Nat \ {0}
    /\ \A b, c \in Block : Td[b] <= Td[c] => Number[b] < Number[c] + triesInMemory

VARIABLES
    \* on disk
    stored, canonical, headBlock, headHeader, diskStates,
    \* in memory
    up, currentBlock, currentHeader, memStates,
    writing,    \* what the holder of mu has still to do
    todo,       \* of every importer: the rest of its batch, and what is verified
    step,       \* of every importer
    task,       \* the block the miner seals, or None
    \* bookkeeping
    crashes, rewinds, stopped, scars

disk == <<stored, canonical, headBlock, headHeader, diskStates>>
heads == <<up, currentBlock, currentHeader>>
imports == <<todo, step>>
counts == <<crashes, rewinds, stopped, scars>>
vars == <<disk, heads, memStates, writing, imports, task, counts>>

Init ==
    /\ stored = {Genesis} /\ diskStates = {Genesis}
    /\ canonical = [n \in 0 .. MaxNumber |-> IF n = 0 THEN Genesis ELSE None]
    /\ headBlock = Genesis /\ headHeader = Genesis
    /\ up = TRUE /\ currentBlock = Genesis /\ currentHeader = Genesis
    /\ memStates = {} /\ writing = <<>>
    /\ todo = [p \in Importer |-> <<>>] /\ step = [p \in Importer |-> "idle"]
    /\ task = None
    /\ crashes = 0 /\ rewinds = 0 /\ stopped = None /\ scars = {}

HasState(b) == b \in diskStates \cup memStates

\* The blocks after the given one up to b, in order.
PathFrom(ancestor, b) ==
    SetToSortSeq(Ancestors[b] \ Ancestors[ancestor], LAMBDA x, y : Number[x] < Number[y])

\* mu is free.
Quiet == up /\ writing = <<>>

-----------------------------------------------------------------------------
(* WriteBlockWithState *)

\* Mutant: the longer chain wins.
ReorgWantedLonger(b) == {Number[b] > Number[currentBlock]}

\* The possible decisions: the heavier chain; at equal weight the lower block,
\* at equal height the local miner's or either.
ReorgWanted(b) ==
    IF Td[b] # Td[currentBlock] THEN {Td[b] > Td[currentBlock]}
    ELSE IF Number[b] # Number[currentBlock] THEN {Number[b] < Number[currentBlock]}
    ELSE IF currentBlock \in Mined THEN {FALSE}
    ELSE IF b \in Mined THEN {TRUE} ELSE BOOLEAN

\* Mutant: only the new head is inserted.
InsertsHeadOnly(b) == <<b>>

\* The blocks to insert for a new head: b alone on top of the current block,
\* otherwise what reorg collects back to the common block, and b once more.
Inserts(b) ==
    IF parentOf[b] = currentBlock THEN <<b>>
    ELSE Append(PathFrom(currentBlock, b), b)

\* reorg walks back to the common block through the database.
ChainsAreStored(b) ==
    \/ parentOf[b] = currentBlock
    \/ (Ancestors[b] \ Ancestors[currentBlock]) \cup (Ancestors[currentBlock] \ Ancestors[b])
         \subseteq stored \cup {b}

\* Mutant: the state before the last is dropped too.
PrunedBelowEarly(n) == {x \in memStates : Number[x] + 1 >= n}

\* States in memory that are older than triesInMemory blocks go.
PrunedBelow(n) == {x \in memStates : Number[x] + triesInMemory <= n}

\* The block and its state are written; the state of one older block may be
\* flushed to disk; states that are too old are dropped.
CommitState(b) ==
    IF Archive
      THEN diskStates' = diskStates \cup {b} /\ UNCHANGED memStates
      ELSE /\ memStates' = (memStates \cup {b}) \ PrunedBelow(Number[b])
           /\ \/ UNCHANGED diskStates
              \/ /\ Number[b] > triesInMemory
                 /\ diskStates' = diskStates \cup
                      ({canonical[Number[b] - triesInMemory]} \cap memStates)

\* The whole write up to the choice of the head; the insertions follow.
WriteBlockWithState(b) ==
    /\ writing = <<>> /\ parentOf[b] \in stored
    /\ stored' = stored \cup {b}
    /\ CommitState(b)
    /\ \E reorg \in ReorgWanted(b) :
         writing' = IF reorg /\ ChainsAreStored(b)
                      THEN [i \in 1 .. Len(Inserts(b)) |-> [block |-> Inserts(b)[i], do |-> "canonical"]]
                      ELSE <<>>
    /\ UNCHANGED <<canonical, headBlock, headHeader, heads, counts>>

\* insert, one database write after the other.
InsertCanonical ==
    LET b == Head(writing).block IN
    /\ up /\ writing # <<>> /\ Head(writing).do = "canonical"
    /\ canonical' = [canonical EXCEPT ![Number[b]] = b]
    /\ writing' = <<[block |-> b, do |-> IF canonical[Number[b]] = b THEN "head" ELSE "heads"]>>
                  \o Tail(writing)
    /\ UNCHANGED <<stored, headBlock, headHeader, diskStates, heads, memStates, imports, task, counts>>

InsertHead ==
    LET b == Head(writing).block IN
    /\ up /\ writing # <<>> /\ Head(writing).do \in {"head", "heads"}
    /\ headBlock' = b /\ currentBlock' = b
    /\ writing' = IF Head(writing).do = "head" THEN Tail(writing)
                  ELSE <<[block |-> b, do |-> "header"]>> \o Tail(writing)
    /\ UNCHANGED <<stored, canonical, headHeader, diskStates, up, currentHeader, memStates,
                   imports, task, counts>>

InsertHeader ==
    LET b == Head(writing).block IN
    /\ up /\ writing # <<>> /\ Head(writing).do = "header"
    /\ headHeader' = b /\ currentHeader' = b
    /\ writing' = Tail(writing)
    /\ UNCHANGED <<stored, canonical, headBlock, diskStates, up, currentBlock, memStates,
                   imports, task, counts>>

-----------------------------------------------------------------------------
(* insertChain *)

\* A batch that ends in the given block, its parent first if that is not
\* stored; the lock is free.
InsertChain(p, b) ==
    LET batch == IF parentOf[b] \in stored THEN <<b>> ELSE <<parentOf[b], b>> IN
    /\ up /\ \A q \in Importer : step[q] \in {"idle", "unlocked"}
    /\ step[p] = "idle" /\ b # Genesis
    /\ todo' = [todo EXCEPT ![p] = 
         [i \in 1 .. Len(batch) |-> [block |-> batch[i], verified |-> FALSE]]]
    /\ step' = [step EXCEPT ![p] = "verify"]
    /\ UNCHANGED <<disk, heads, memStates, writing, task, counts>>

\* The importer is done with its first block, or gives up.
NextBlock(p) == [todo EXCEPT ![p] = Tail(@)]
Ended(p) == [todo EXCEPT ![p] = <<>>]
StepTo(p, s) == [step EXCEPT ![p] = s]

StepAfter(p) ==
    StepTo(p, IF Len(todo[p]) = 1 THEN "idle" ELSE IF todo[p][2].verified THEN "unlocked" ELSE "verify")

\* Known with its state, and no rewind to make good.
Known(b) == b \in stored /\ HasState(b) /\ Number[currentBlock] >= Number[b]

\* The blocks up to the given one that have no state, from the last state on.
Winner(b) ==
    SelectSeq(PathFrom(Genesis, b),
              LAMBDA x : \A y \in Ancestors[b] : HasState(y) => Number[y] < Number[x])

\* Everything in memory is gone.
Down ==
    /\ up' = FALSE /\ memStates' = {} /\ writing' = <<>>
    /\ todo' = [p \in Importer |-> <<>>] /\ step' = [p \in Importer |-> "idle"]
    /\ task' = None
    /\ currentBlock' = Genesis /\ currentHeader' = Genesis
    /\ UNCHANGED <<stored, canonical, headBlock, headHeader>>

\* The database has a block of a new chain as canonical below the old head, or
\* a head that SetHead has deleted.
BetweenWrites ==
    /\ writing # <<>>
    /\ \/ Head(writing).do = "heads" /\ Number[Head(writing).block] <= Number[headBlock]
       \/ Head(writing).do \in {"set header", "set head"}

\* VerifyHeader and ValidateBody.
Verify(p) ==
    LET b == todo[p][1].block  parent == parentOf[b] IN
    /\ up /\ step[p] = "verify"
    /\ \/ /\ parent \notin stored                           \* ErrUnknownAncestor
          /\ todo' = Ended(p) /\ step' = StepTo(p, "idle")
          /\ UNCHANGED stored
       \/ /\ parent \in stored /\ Known(b)                  \* ErrKnownBlock
          /\ todo' = NextBlock(p) /\ step' = StepAfter(p)
          /\ UNCHANGED stored
       \/ /\ parent \in stored /\ ~(b \in stored /\ HasState(b)) /\ ~HasState(parent)
          /\ Td[currentBlock] > Td[b]                       \* ErrPrunedAncestor, a light chain
          /\ stored' = stored \cup {b}
          /\ todo' = NextBlock(p) /\ step' = StepAfter(p)
       \/ /\ parent \in stored /\ ~(b \in stored /\ HasState(b)) /\ ~HasState(parent)
          /\ Td[currentBlock] <= Td[b]                      \* a competitor that wins
          /\ \A c \in Ancestors[parent] \ stored : \E d \in Ancestors[parent] :
               Number[d] > Number[c] /\ HasState(d)
          /\ todo' = [todo EXCEPT ![p] =
               [i \in 1 .. Len(Winner(parent)) |-> [block |-> Winner(parent)[i], verified |-> FALSE]]
               \o <<[block |-> b, verified |-> TRUE]>> \o Tail(@)]
          /\ step' = StepTo(p, "unlocked")
          /\ UNCHANGED stored
       \/ /\ parent \in stored /\ ~Known(b)
          /\ HasState(parent) \/ (b \in stored /\ HasState(b))
          /\ step' = StepTo(p, "process")
          /\ UNCHANGED <<stored, todo>>
    /\ UNCHANGED <<canonical, headBlock, headHeader, diskStates, heads, memStates, writing, task, counts>>

\* The walk back to a block with a state meets one whose parent SetHead has
\* deleted: a nil block is dereferenced.
VerifyPanics(p) ==
    LET b == todo[p][1].block  parent == parentOf[b] IN
    /\ up /\ step[p] = "verify"
    /\ parent \in stored /\ ~(b \in stored /\ HasState(b)) /\ ~HasState(parent)
    /\ Td[currentBlock] <= Td[b]
    /\ \E c \in Ancestors[parent] \ stored : \A d \in Ancestors[parent] :
         Number[d] > Number[c] => ~HasState(d)
    /\ Down
    /\ scars' = IF BetweenWrites THEN scars \cup {"torn"} ELSE scars
    /\ UNCHANGED <<diskStates, crashes, rewinds, stopped>>

\* insertChain(winner) takes chainmu again, and so does its caller afterwards.
Relock(p) ==
    /\ up /\ step[p] = "unlocked" /\ \A q \in Importer \ {p} : step[q] \in {"idle", "unlocked"}
    /\ step' = StepTo(p, IF todo[p][1].verified THEN "process" ELSE "verify")
    /\ UNCHANGED <<disk, heads, memStates, writing, todo, task, counts>>

\* Process and WriteBlockWithState; without the parent or its state the import ends.
Process(p) ==
    LET b == todo[p][1].block IN
    /\ up /\ step[p] = "process"
    /\ \/ /\ HasState(parentOf[b]) /\ WriteBlockWithState(b)
          /\ step' = StepTo(p, "writing") /\ UNCHANGED todo
       \/ /\ writing = <<>> /\ (parentOf[b] \notin stored \/ ~HasState(parentOf[b]))
          /\ todo' = Ended(p) /\ step' = StepTo(p, "idle")
          /\ UNCHANGED <<disk, heads, memStates, writing, counts>>
    /\ UNCHANGED task

Written(p) ==
    /\ up /\ step[p] = "writing" /\ writing = <<>>
    /\ todo' = NextBlock(p) /\ step' = StepAfter(p)
    /\ UNCHANGED <<disk, heads, memStates, writing, task, counts>>

-----------------------------------------------------------------------------
(* The miner *)

StartMining(b) ==
    /\ Quiet /\ task = None
    /\ b \in Mined \ stored /\ parentOf[b] = currentBlock /\ HasState(currentBlock)
    /\ task' = b
    /\ UNCHANGED <<disk, heads, memStates, writing, imports, counts>>

\* resultLoop writes the sealed block, wherever the head is by then.
WriteMined ==
    /\ up /\ task # None
    /\ \/ task \notin stored /\ WriteBlockWithState(task)
       \/ /\ writing = <<>> /\ (task \in stored \/ parentOf[task] \notin stored)
          /\ UNCHANGED <<disk, heads, memStates, writing, counts>>
    /\ task' = None
    /\ UNCHANGED imports

-----------------------------------------------------------------------------
(* Rewinding, stopping, crashing, starting *)

\* HeaderChain.SetHead: the headers above n and their canonical numbers go in
\* one batch.
SetHead(n) ==
    /\ Quiet /\ rewinds < MaxRewinds /\ n < Number[currentHeader]
    /\ stored' = stored \ {b \in Ancestors[currentHeader] : Number[b] > n}
    /\ canonical' = [m \in DOMAIN canonical |->
                       IF n < m /\ m <= Number[currentHeader] THEN None ELSE canonical[m]]
    /\ currentHeader' = CHOOSE b \in Ancestors[currentHeader] : Number[b] = n
    /\ writing' = <<[block |-> currentHeader', do |-> "set header"]>>
    /\ rewinds' = rewinds + 1
    /\ scars' = IF \A b \in stored' : Ancestors[b] \subseteq stored' THEN scars
                ELSE scars \cup {"orphans"}
    /\ UNCHANGED <<headBlock, headHeader, diskStates, up, currentBlock, memStates, imports, task,
                   crashes, stopped>>

SetHeadHeader ==
    /\ up /\ writing # <<>> /\ Head(writing).do = "set header"
    /\ headHeader' = currentHeader
    /\ writing' = <<[block |-> currentHeader, do |-> "set head"]>>
    /\ UNCHANGED <<stored, canonical, headBlock, diskStates, heads, memStates, imports, task, counts>>

\* repair: the latest ancestor whose state is there.
Repaired(head, states) ==
    CHOOSE b \in Ancestors[head] \cap states :
      \A c \in Ancestors[head] \cap states : Number[c] <= Number[b]

\* The current block follows the header down; to genesis without a state.
RewoundBlock ==
    LET b == IF Number[currentHeader] < Number[currentBlock] THEN currentHeader ELSE currentBlock
    IN  IF HasState(b) THEN b ELSE Genesis

\* The new head block is written, and loadLastState finds it.
SetHeadBlock ==
    /\ up /\ writing # <<>> /\ Head(writing).do = "set head"
    /\ headBlock' = RewoundBlock
    /\ currentBlock' = RewoundBlock
    /\ writing' = <<>>
    /\ UNCHANGED <<stored, canonical, headHeader, diskStates, up, currentHeader, memStates, imports,
                   task, counts>>

Crash ==
    /\ up /\ crashes < MaxCrashes
    /\ Down
    /\ scars' = IF BetweenWrites THEN scars \cup {"torn"} ELSE scars
    /\ crashes' = crashes + 1 /\ stopped' = None
    /\ UNCHANGED <<diskStates, rewinds>>

\* The states written by Stop: of the head, its parent and an old block.
Flushed ==
    {canonical[n] : n \in {m \in 1 .. Number[currentBlock] :
                             Number[currentBlock] - m \in {0, 1, triesInMemory - 1}}}

\* Imports have ended, the miner has stopped.
Stop ==
    /\ Quiet /\ crashes < MaxCrashes /\ \A p \in Importer : step[p] = "idle"
    /\ diskStates' = IF Archive THEN diskStates ELSE diskStates \cup (Flushed \cap memStates)
    /\ Down
    /\ crashes' = crashes + 1 /\ stopped' = currentBlock
    /\ UNCHANGED <<rewinds, scars>>

\* NewBlockChain, loadLastState.
Start ==
    /\ ~up /\ headBlock \in stored
    /\ up' = TRUE
    /\ currentBlock' = Repaired(headBlock, diskStates)
    /\ currentHeader' = IF headHeader \in stored THEN headHeader ELSE currentBlock'
    /\ headHeader' = currentHeader'
    /\ stopped' = None
    /\ UNCHANGED <<stored, canonical, headBlock, diskStates, memStates, writing, imports, task,
                   crashes, rewinds, scars>>

Next ==
    \/ InsertCanonical \/ InsertHead \/ InsertHeader
    \/ \E p \in Importer : \/ \E b \in Block : InsertChain(p, b)
                           \/ Verify(p) \/ VerifyPanics(p) \/ Relock(p) \/ Process(p) \/ Written(p)
    \/ \E b \in Mined : StartMining(b)
    \/ WriteMined
    \/ \E n \in 0 .. MaxNumber : SetHead(n)
    \/ SetHeadHeader \/ SetHeadBlock
    \/ Crash \/ Stop \/ Start

Spec == Init /\ [][Next]_vars

\* The heaviest block; at equal weight the lowest.
Best ==
    CHOOSE b \in Block : \A c \in Block : Td[c] < Td[b] \/ (Td[c] = Td[b] /\ Number[c] >= Number[b])

\* The holder of mu and an importer go on.
Write == InsertCanonical \/ InsertHead \/ InsertHeader \/ SetHeadHeader \/ SetHeadBlock
Import(p) == Verify(p) \/ VerifyPanics(p) \/ Relock(p) \/ Process(p) \/ Written(p)

\* Goroutines go on, a node that is down is started again, and peers keep
\* offering the best chain they have.
Fairness ==
    /\ WF_vars(Write) /\ WF_vars(Start)
    /\ \A p \in Importer :
         WF_vars(Import(p)) /\ \A b \in Ancestors[Best] : SF_vars(InsertChain(p, b))

-----------------------------------------------------------------------------
(* Properties *)

\* Up to the current block the canonical numbers are its ancestors, whatever
\* imports, mined blocks, rewinds, restarts there were, unless a crash fell
\* between two database writes.
CanonicalIsAncestry ==
    Quiet /\ "torn" \notin scars => \A b \in Ancestors[currentBlock] : canonical[Number[b]] = b

\* The state of the current block is there, for the miner and all queries,
\* unless SetHead has left blocks of a fork above the ancestors it deleted.
HeadHasState == Quiet /\ "orphans" \notin scars => HasState(currentBlock)

\* The heaviest chain that peers keep offering becomes and remains the
\* canonical one, after any crash (full node, no SetHead).
BestIsAdopted == <>[](up => currentBlock = Best)
=============================================================================
