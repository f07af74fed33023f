------------------------------- MODULE Worker -------------------------------
(***************************************************************************)
(* The miner's worker (miner/worker.go): four goroutines around channels.  *)
(* newWorkLoop turns new heads, starts and the resubmit timer into work    *)
(* requests and interrupts the work in progress; mainLoop packs a block on *)
(* the current head; taskLoop hands it to the engine, stopping the         *)
(* previous seal; resultLoop writes what the engine has sealed, at most    *)
(* one block per parent (miner/unconfirmed.go).  What is packed is in      *)
(* StateTransition.                                                        *)
(***************************************************************************)
EXTENDS Integers, FiniteSets, Sequences

CONSTANTS
    MaxBlock,                \* bound: blocks are 0 (genesis) to MaxBlock
    resubmitAdjustChanSize,
    resultQueueSize,
    miningLogAtDepth,        \* how long unconfirmed keeps a block
    staleThreshold,          \* how long pendingTasks keeps a task
    MaxNumber                \* bound: the highest block

WorkerAssumption ==
    /\ {resubmitAdjustChanSize, resultQueueSize} \subseteq Nat \ {0}
    /\ {miningLogAtDepth, staleThreshold, MaxNumber, MaxBlock} \subseteq Nat

Block == 0 .. MaxBlock
genesis == 0

None == 0       \* commitInterruptNone
NewHead == 1    \* commitInterruptNewHead
Resubmit == 2   \* commitInterruptResubmit

\* A sealed or sealable block: its number, its parent and its seal hash.
Task == [number : 1 .. MaxNumber, parent : Block, hash : Block]

VARIABLES
    head,         \* the current block of the chain: number and hash
    known,        \* hashes the chain has
    heads,        \* chainHeadCh: numbers
    startCh,      \* one start is waiting
    running, newTxs,
    timer,        \* the resubmit timer is armed
    newWork,      \* newWorkLoop: [pc, noempty]
    interrupt,    \* the interrupt of the request that mainLoop last took
    adjusts,      \* resubmitAdjustCh: how many adjustments wait
    main,         \* mainLoop: [pc, task, rounds]
    worked,       \* history: the highest parent number mainLoop started from
    prev,         \* taskLoop: the last task it sealed
    pendingTasks,
    seals,        \* seals in progress: [task, stop]
    results,      \* resultCh
    unconfirmed,  \* the blocks sealed here, oldest first
    fastBlockNumber, \* of resultLoop: the fast block when it began; 0 on an archive node
    mined         \* history: the blocks resultLoop wrote

newWorkVars == <<startCh, timer, newWork>>
mainVars == <<main, worked>>
taskVars == <<prev, seals>>
resultVars == <<results, fastBlockNumber, mined>>
vars == <<head, known, heads, running, newTxs, interrupt, adjusts, pendingTasks, unconfirmed,
          newWorkVars, mainVars, taskVars, resultVars>>

NoTask == [number |-> 1, parent |-> genesis, hash |-> genesis]

Init ==
    /\ head = [number |-> 0, hash |-> genesis] /\ known = {genesis} /\ heads = <<>>
    /\ startCh = TRUE /\ running = FALSE /\ newTxs = FALSE /\ timer = FALSE
    /\ newWork = [pc |-> "select", noempty |-> FALSE]
    /\ interrupt = None /\ adjusts = 0
    /\ main = [pc |-> "select", task |-> NoTask, rounds |-> 0] /\ worked = 0
    /\ prev = NoTask /\ pendingTasks = {} /\ seals = {}
    /\ results = <<>> /\ unconfirmed = <<>> /\ mined = {}
    /\ fastBlockNumber \in 0 .. MaxNumber

-----------------------------------------------------------------------------
(* The outside: the node's user, the chain and the pool.                    *)

start ==
    /\ ~startCh
    /\ startCh' = TRUE /\ running' = TRUE
    /\ UNCHANGED <<head, known, heads, newTxs, interrupt, adjusts, pendingTasks, unconfirmed,
                   timer, newWork, mainVars, taskVars, resultVars>>

stop ==
    /\ running /\ running' = FALSE
    /\ UNCHANGED <<head, known, heads, newTxs, interrupt, adjusts, pendingTasks, unconfirmed,
                   newWorkVars, mainVars, taskVars, resultVars>>

\* The hashes the chain, the worker or a seal in progress may still use.
Used == known \cup {t.hash : t \in pendingTasks} \cup {s.task.hash : s \in seals}
              \cup {results[i].hash : i \in DOMAIN results} \cup {main.task.hash, prev.hash}

\* Hashes are interchangeable: a new block takes the first free one.
Fresh(b) == b \in Block \ Used /\ \A c \in Block \ Used : b <= c

\* The chain imports a block that becomes its head: on the head, or beside it.
ImportHead(b, number) ==
    /\ Fresh(b) /\ number \in {head.number, head.number + 1} \ {0} /\ number <= MaxNumber
    /\ head' = [number |-> number, hash |-> b] /\ known' = known \cup {b}
    /\ heads' = Append(heads, number)
    /\ UNCHANGED <<running, newTxs, interrupt, adjusts, pendingTasks, unconfirmed,
                   newWorkVars, mainVars, taskVars, resultVars>>

\* mainLoop is told of new transactions.
NewTxs ==
    /\ main.pc = "select" /\ ~newTxs
    /\ newTxs' = TRUE
    /\ UNCHANGED <<head, known, heads, running, interrupt, adjusts, pendingTasks, unconfirmed,
                   newWorkVars, mainVars, taskVars, resultVars>>

-----------------------------------------------------------------------------
(* newWorkLoop *)

clearPending(number) == {t \in pendingTasks : t.number + staleThreshold > number}

\* Mutant: the loop does not wait when mainLoop is busy.
commitRequestDrops(noempty, s) ==
    /\ interrupt' = s
    /\ newWork' = [pc |-> IF main.pc = "select" THEN "send" ELSE "select", noempty |-> noempty]

\* The closure commit: the work in progress is interrupted, then the loop
\* waits for mainLoop to take the request.
commitRequest(noempty, s) ==
    /\ interrupt' = s
    /\ newWork' = [pc |-> "send", noempty |-> noempty]

OnStart ==
    /\ newWork.pc = "select" /\ startCh
    /\ startCh' = FALSE
    /\ pendingTasks' = clearPending(head.number)
    /\ commitRequest(FALSE, NewHead)
    /\ UNCHANGED <<head, known, heads, running, newTxs, adjusts, unconfirmed, timer,
                   mainVars, taskVars, resultVars>>

OnHead ==
    /\ newWork.pc = "select" /\ heads # <<>>
    /\ heads' = Tail(heads)
    /\ pendingTasks' = clearPending(Head(heads))
    /\ commitRequest(FALSE, NewHead)
    /\ UNCHANGED <<head, known, startCh, running, newTxs, adjusts, unconfirmed, timer,
                   mainVars, taskVars, resultVars>>

\* Without new transactions the timer is set again; when the worker does not
\* run it is not.
OnTimer ==
    /\ newWork.pc = "select" /\ timer
    /\ \/ /\ ~running /\ timer' = FALSE
          /\ UNCHANGED <<interrupt, newWork>>
       \/ /\ running /\ newTxs /\ timer' = FALSE
          /\ commitRequest(TRUE, Resubmit)
    /\ UNCHANGED <<head, known, heads, startCh, running, newTxs, adjusts, pendingTasks, unconfirmed,
                   mainVars, taskVars, resultVars>>

OnAdjust ==
    /\ newWork.pc = "select" /\ adjusts > 0
    /\ adjusts' = adjusts - 1
    /\ UNCHANGED <<head, known, heads, running, newTxs, interrupt, pendingTasks, unconfirmed,
                   newWorkVars, mainVars, taskVars, resultVars>>

\* The end of the closure commit, after mainLoop has taken the request.
ResetTimer ==
    /\ newWork.pc = "reset"
    /\ timer' = TRUE /\ newTxs' = FALSE
    /\ newWork' = [newWork EXCEPT !.pc = "select"]
    /\ UNCHANGED <<head, known, heads, startCh, running, interrupt, adjusts, pendingTasks, unconfirmed,
                   mainVars, taskVars, resultVars>>

-----------------------------------------------------------------------------
(* mainLoop *)

\* mainLoop takes the request; commitNewWork stops at once when the worker
\* does not run, has no ticket for the next block, or nothing to resubmit.
\* Otherwise it packs up to two sets of transactions, local and remote.
commitNewWork ==
    /\ main.pc = "select" /\ newWork.pc = "send"
    /\ newWork' = [newWork EXCEPT !.pc = "reset"]
    /\ interrupt' = None
    /\ worked' = IF running THEN head.number ELSE worked
    /\ \/ main' = main
       \/ /\ running /\ head.number < MaxNumber
          /\ \E n \in 0 .. 2 :
                /\ newWork.noempty => n > 0
                /\ main' = [pc |-> IF n = 0 THEN "finalize" ELSE "pack", rounds |-> n,
                            task |-> [number |-> head.number + 1, parent |-> head.hash, hash |-> genesis]]
    /\ UNCHANGED <<head, known, heads, startCh, running, newTxs, adjusts, pendingTasks, unconfirmed,
                   timer, taskVars, resultVars>>

\* commitTransactions: a new head discards the work; a resubmit, or the end of
\* the transactions, leads to an adjustment of the resubmit interval.
commitTransactions ==
    /\ main.pc = "pack"
    /\ main' = [main EXCEPT !.pc = IF interrupt = NewHead THEN "select" ELSE "adjust"]
    /\ UNCHANGED <<head, known, heads, running, newTxs, interrupt, adjusts, pendingTasks, unconfirmed,
                   newWorkVars, worked, taskVars, resultVars>>

\* The adjustment waits for room in the channel.
sendAdjust ==
    /\ main.pc = "adjust" /\ adjusts < resubmitAdjustChanSize
    /\ adjusts' = adjusts + 1
    /\ main' = [main EXCEPT !.pc = IF main.rounds > 1 THEN "pack" ELSE "finalize", !.rounds = @ - 1]
    /\ UNCHANGED <<head, known, heads, running, newTxs, interrupt, pendingTasks, unconfirmed,
                   newWorkVars, worked, taskVars, resultVars>>

\* commit: Finalize may fail; a worker that was stopped submits nothing.  The
\* block has the seal hash of an earlier one or a new one.
commit ==
    /\ main.pc = "finalize"
    /\ \/ main' = [main EXCEPT !.pc = "select"]
       \/ /\ running
          /\ \E b \in Block :
                /\ Fresh(b) \/ prev = [main.task EXCEPT !.hash = b]
                /\ main' = [main EXCEPT !.pc = "sendtask", !.task.hash = b]
    /\ UNCHANGED <<head, known, heads, running, newTxs, interrupt, adjusts, pendingTasks, unconfirmed,
                   newWorkVars, worked, taskVars, resultVars>>

\* unconfirmedBlocks.Shift drops from the oldest on, up to the first too fresh.
Shifted(u, height) ==
    IF \E i \in DOMAIN u : u[i].number + miningLogAtDepth > height
      THEN LET first == CHOOSE i \in DOMAIN u : /\ u[i].number + miningLogAtDepth > height
                                                /\ \A j \in 1 .. i - 1 : u[j].number + miningLogAtDepth <= height
           IN  SubSeq(u, first, Len(u))
      ELSE <<>>

Shift ==
    /\ main.pc = "shift"
    /\ unconfirmed' = Shifted(unconfirmed, main.task.number - 1)
    /\ main' = [main EXCEPT !.pc = "select"]
    /\ UNCHANGED <<head, known, heads, running, newTxs, interrupt, adjusts, pendingTasks,
                   newWorkVars, worked, taskVars, resultVars>>

-----------------------------------------------------------------------------
(* taskLoop, and the goroutines that the engine starts                      *)

StopAll(s) == {[x EXCEPT !.stop = TRUE] : x \in s}

\* A duplicate is ignored.  Otherwise the previous seal is told to stop and a
\* new one begins, unless the engine refuses.
takeTask ==
    /\ main.pc = "sendtask"
    /\ main' = [main EXCEPT !.pc = "shift"]
    /\ IF main.task = prev
         THEN UNCHANGED <<prev, pendingTasks, seals>>
         ELSE /\ prev' = main.task
              /\ pendingTasks' = pendingTasks \cup {main.task}
              /\ \/ seals' = StopAll(seals)
                 \/ seals' = StopAll(seals) \cup {[task |-> main.task, stop |-> FALSE]}
    /\ UNCHANGED <<head, known, heads, running, newTxs, interrupt, adjusts, unconfirmed,
                   newWorkVars, worked, resultVars>>

\* DaTong.Seal: after the delay the block is sent if the channel has room, also
\* when stop was closed at the same time; a stopped seal may just end.
Seal(s) ==
    /\ s \in seals
    /\ seals' = seals \ {s}
    /\ \/ s.stop /\ UNCHANGED results
       \/ results' = IF Len(results) < resultQueueSize THEN Append(results, s.task) ELSE results
    /\ UNCHANGED <<head, known, heads, running, newTxs, interrupt, adjusts, pendingTasks, unconfirmed,
                   newWorkVars, mainVars, prev, fastBlockNumber, mined>>

-----------------------------------------------------------------------------
(* resultLoop *)

\* Mutant: blocks sealed before are not looked at.
HasNever(parent) == FALSE

\* unconfirmedBlocks.Has.
Has(parent) == \E i \in DOMAIN unconfirmed : unconfirmed[i].parent = parent

Refused(t) ==
    t.hash \in known \/ t.number < fastBlockNumber \/ Has(t.parent) \/ t \notin pendingTasks

\* WriteBlockWithState fails, before or after the block itself is stored.
writeFails(t) ==
    /\ known' \in {known, known \cup {t.hash}}
    /\ UNCHANGED <<mined, unconfirmed, head, heads>>

\* WriteBlockWithState makes the block the head when it is higher, may do so
\* when it is as high, and keeps it as a side block otherwise.
writeBlock(t) ==
    /\ known' = known \cup {t.hash}
    /\ mined' = mined \cup {[task |-> t, at |-> head.number]}
    /\ unconfirmed' = Append(Shifted(unconfirmed, t.number), t)
    /\ \/ /\ t.number >= head.number
          /\ head' = [number |-> t.number, hash |-> t.hash]
          /\ heads' = Append(heads, t.number)
       \/ t.number <= head.number /\ UNCHANGED <<head, heads>>

resultLoop ==
    /\ results # <<>>
    /\ results' = Tail(results)
    /\ IF Refused(Head(results))
         THEN UNCHANGED <<known, mined, unconfirmed, head, heads>>
         ELSE writeBlock(Head(results)) \/ writeFails(Head(results))
    /\ UNCHANGED <<running, newTxs, interrupt, adjusts, pendingTasks, newWorkVars, mainVars, taskVars,
                   fastBlockNumber>>

-----------------------------------------------------------------------------
newWorkLoop == OnStart \/ OnHead \/ OnTimer \/ OnAdjust \/ ResetTimer
mainLoop == commitNewWork \/ commitTransactions \/ sendAdjust \/ commit \/ Shift

Next ==
    \/ start \/ stop \/ NewTxs
    \/ \E b \in Block, n \in 1 .. MaxNumber : ImportHead(b, n)
    \/ newWorkLoop \/ mainLoop \/ takeTask
    \/ \E s \in seals : Seal(s)
    \/ resultLoop

\* Goroutines run; a select that is ready again and again takes every ready
\* case at last, since Go chooses at random.
Fairness ==
    /\ WF_vars(newWorkLoop) /\ SF_vars(OnHead) /\ SF_vars(OnAdjust)
    /\ WF_vars(mainLoop) /\ SF_vars(commitNewWork)
    /\ WF_vars(takeTask) /\ WF_vars(resultLoop)

Spec == Init /\ [][Next]_vars /\ Fairness
-----------------------------------------------------------------------------
(* Properties *)

\* The node never writes two blocks of its own on one parent, whatever
\* resubmissions, interrupts and seals that end late come together, unless the
\* second one is out of date already: the chain has moved on by the depth that
\* unconfirmed remembers.
OneBlockPerParent ==
    \A x, y \in mined :
        x # y /\ x.task.parent = y.task.parent =>
            \E z \in {x, y} : z.at >= z.task.number + miningLogAtDepth

\* The two loops wait for each other for ever: the request is not taken and
\* the adjustment finds no room.
Jammed ==
    /\ newWork.pc = "send" /\ main.pc = "adjust"
    /\ adjusts = resubmitAdjustChanSize

\* While the worker runs, every new head is worked on at last: interrupts are
\* not lost and no loop waits for another, unless the adjustment channel is full.
HeadIsWorkedOn ==
    \A n \in 1 .. MaxNumber :
        (running /\ heads # <<>> /\ head.number >= n) ~> (worked >= n \/ ~running \/ Jammed)
=============================================================================
