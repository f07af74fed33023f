--------------------------- MODULE DownloadQueue ---------------------------
(***************************************************************************)
(* The downloader's queue (eth/downloader/queue.go) with the loops that    *)
(* drive it (fetchParts and the processor, eth/downloader/downloader.go).  *)
(* Headers are scheduled in order; bodies and, in a fast sync, receipts    *)
(* are reserved by peers, delivered whole, in part or wrongly, time out or *)
(* are revoked; results leave a cache of bounded size in block order.      *)
(* Blocks are their numbers, counted from the first one of the sync.  The  *)
(* skeleton of headers and the estimate of a peer's capacity are left out. *)
(***************************************************************************)
EXTENDS Integers, Sequences, FiniteSets

CONSTANTS
    Peer,
    Honest,             \* peers that answer in full, when they answer
    Blocks,             \* bound: how many headers the sync brings
    Noop,               \* the blocks with nothing to fetch, for every kind
    blockCacheItems, maxResultsProcess,
    MaxCount            \* bound: the capacity of a peer

Block == 1 .. Blocks
AllKinds == {"body", "receipt"}
Nil == -1

DownloadQueueAssumption ==
    /\ Blocks \in Nat /\ MaxCount \in Nat
    /\ blockCacheItems \in Nat \ {0} /\ maxResultsProcess \in Nat \ {0}
    /\ Noop \in [AllKinds -> SUBSET Block]
    /\ Honest \subseteq Peer /\ IsFiniteSet(Peer)

VARIABLES
    kinds,              \* what the mode asks for
    scheduled,          \* the last header scheduled
    taskPool, taskQueue, pendPool, donePool,    \* of every kind
    lacking,            \* of every peer
    resultCache,        \* pending parts of a block in the cache, or Nil
    resultOffset,       \* the first block of the cache
    limit,              \* the slots of the cache that the memory limit leaves
    waiting,            \* the processor waits for a signal
    ended,              \* the header fetcher said that no more headers come
    finished,           \* the kinds whose fetcher has ended
    failed              \* the sync was given up with errInvalidChain

tasks == <<taskPool, taskQueue, pendPool, donePool>>
vars == <<kinds, scheduled, tasks, lacking, resultCache, resultOffset, limit,
          waiting, ended, finished, failed>>

Init ==
    /\ kinds \in {AllKinds, {"body"}}
    /\ scheduled = 0
    /\ taskPool = [k \in AllKinds |-> {}]
    /\ taskQueue = [k \in AllKinds |-> [b \in Block |-> 0]]
    /\ pendPool = [k \in AllKinds |-> [p \in Peer |-> <<>>]]
    /\ donePool = [k \in AllKinds |-> {}]
    /\ lacking = [p \in Peer |-> {}]
    /\ resultCache = [b \in Block |-> Nil]
    /\ resultOffset = 1
    /\ limit = blockCacheItems
    /\ waiting = FALSE /\ ended = FALSE /\ finished = {} /\ failed = FALSE

Elements(s) == {s[i] : i \in DOMAIN s}
Tasks(k) == {b \in Block : taskQueue[k][b] > 0}
PushAll(k, bs) == [taskQueue EXCEPT ![k] = [b \in Block |-> @[b] + IF b \in bs THEN 1 ELSE 0]]

-----------------------------------------------------------------------------
(* Headers *)

\* The next header of the chain; one that is known is skipped by Schedule.
Schedule ==
    /\ scheduled < Blocks /\ ~ended
    /\ scheduled' = scheduled + 1
    /\ taskPool' = [k \in AllKinds |-> IF k \in kinds THEN taskPool[k] \cup {scheduled'} ELSE taskPool[k]]
    /\ taskQueue' = [k \in AllKinds |-> IF k \in kinds
                       THEN [taskQueue[k] EXCEPT ![scheduled'] = @ + 1] ELSE taskQueue[k]]
    /\ UNCHANGED <<kinds, pendPool, donePool, lacking, resultCache, resultOffset, limit,
                   waiting, ended, finished, failed>>

\* processHeaders tells the fetchers that the headers have ended.
EndOfHeaders ==
    /\ ~ended
    /\ ended' = TRUE
    /\ UNCHANGED <<kinds, scheduled, tasks, lacking, resultCache, resultOffset, limit,
                   waiting, finished, failed>>

-----------------------------------------------------------------------------
(* Reservations and deliveries *)

\* The leading blocks of the cache within the limit.
Leading == {b \in Block : /\ resultOffset <= b /\ b < resultOffset + limit
                          /\ \A c \in resultOffset .. b : resultCache[c] # Nil}

resultSlots(k) ==
    limit - Cardinality(Leading \cap donePool[k])
          - Cardinality({pi \in {<<p, i>> : p \in Peer, i \in 1 .. MaxCount} :
                           /\ pi[2] <= Len(pendPool[k][pi[1]])
                           /\ pendPool[k][pi[1]][pi[2]] < resultOffset + limit})

\* The tasks taken off the queue, least number first, while there is space and
\* fewer than count have to be sent.
Sent(k, p) == {b \in Tasks(k) : b \notin Noop[k] /\ b \notin lacking[p]}
Taken(k, p, count) ==
    {b \in Tasks(k) : /\ Cardinality({c \in Tasks(k) : c < b}) < resultSlots(k)
                      /\ Cardinality({c \in Sent(k, p) : c < b}) < count}

InOrder(bs) == [i \in 1 .. Cardinality(bs) |->
                  CHOOSE b \in bs : Cardinality({c \in bs : c < b}) = i - 1]

\* Mutant: a block with nothing to fetch does not wake the processor.
ReserveNoSignal(k, p, count) ==
    LET taken == Taken(k, p, count)
        noops == taken \cap Noop[k]
        send == taken \cap Sent(k, p)
    IN  /\ k \in kinds \ finished /\ Tasks(k) # {} /\ pendPool[k][p] = <<>>
        /\ resultSlots(k) > 0
        /\ failed' = (\E b \in taken : b - resultOffset >= blockCacheItems)
        /\ taskQueue' = [taskQueue EXCEPT ![k] =
                           [b \in Block |-> @[b] - IF b \in noops \cup send THEN 1 ELSE 0]]
        /\ taskPool' = [taskPool EXCEPT ![k] = @ \ noops]
        /\ donePool' = [donePool EXCEPT ![k] = @ \cup noops]
        /\ pendPool' = [pendPool EXCEPT ![k][p] = InOrder(send)]
        /\ resultCache' = [b \in Block |->
             (IF b \in taken /\ resultCache[b] = Nil THEN Cardinality(kinds) ELSE resultCache[b])
             - IF b \in noops THEN 1 ELSE 0]
        /\ UNCHANGED <<waiting, kinds, scheduled, lacking, resultOffset, limit, ended, finished>>

\* reserveHeaders, called for an idle peer unless the download is throttled.
\* Every task taken gets a slot of the cache; those with nothing to fetch are
\* done, those the peer lacks go back, the rest is the peer's request.  A task
\* beyond the cache ends the sync, whatever the queue then holds.
Reserve(k, p, count) ==
    LET taken == Taken(k, p, count)
        noops == taken \cap Noop[k]
        send == taken \cap Sent(k, p)
    IN  /\ k \in kinds \ finished /\ Tasks(k) # {} /\ pendPool[k][p] = <<>>
        /\ resultSlots(k) > 0
        /\ failed' = (\E b \in taken : b - resultOffset >= blockCacheItems)
        /\ taskQueue' = [taskQueue EXCEPT ![k] =
                           [b \in Block |-> @[b] - IF b \in noops \cup send THEN 1 ELSE 0]]
        /\ taskPool' = [taskPool EXCEPT ![k] = @ \ noops]
        /\ donePool' = [donePool EXCEPT ![k] = @ \cup noops]
        /\ pendPool' = [pendPool EXCEPT ![k][p] = InOrder(send)]
        /\ resultCache' = [b \in Block |->
             (IF b \in taken /\ resultCache[b] = Nil THEN Cardinality(kinds) ELSE resultCache[b])
             - IF b \in noops THEN 1 ELSE 0]
        /\ waiting' = (waiting /\ noops = {})
        /\ UNCHANGED <<kinds, scheduled, lacking, resultOffset, limit, ended, finished>>

\* Mutant: what was not delivered is not queued again.
DeliverForgets(k, p, results, valid) ==
    LET request == pendPool[k][p]
        accepted == Elements(SubSeq(request, 1, valid))
    IN  /\ k \in kinds \ finished /\ request # <<>>
        /\ valid <= results /\ results <= Len(request)
        /\ p \in Honest => valid = Len(request)
        /\ pendPool' = [pendPool EXCEPT ![k][p] = <<>>]
        /\ lacking' = IF results = 0 THEN [lacking EXCEPT ![p] = @ \cup Elements(request)] ELSE lacking
        /\ donePool' = [donePool EXCEPT ![k] = @ \cup accepted]
        /\ taskPool' = [taskPool EXCEPT ![k] = @ \ accepted]
        /\ resultCache' = [b \in Block |-> resultCache[b] - IF b \in accepted THEN 1 ELSE 0]
        /\ waiting' = (waiting /\ accepted = {})
        /\ UNCHANGED <<failed, taskQueue, kinds, scheduled, resultOffset, limit, ended, finished>>

\* A delivery with so many results, the first of which fit the request.  An
\* empty one marks the blocks as lacking; what is missing is queued again.
Deliver(k, p, results, valid) ==
    LET request == pendPool[k][p]
        accepted == Elements(SubSeq(request, 1, valid))
    IN  /\ k \in kinds \ finished /\ request # <<>>
        /\ valid <= results /\ results <= Len(request)
        /\ p \in Honest => valid = Len(request)
        /\ pendPool' = [pendPool EXCEPT ![k][p] = <<>>]
        /\ lacking' = IF results = 0 THEN [lacking EXCEPT ![p] = @ \cup Elements(request)] ELSE lacking
        /\ failed' = (\E b \in accepted : resultCache[b] = Nil)
        /\ donePool' = [donePool EXCEPT ![k] = @ \cup accepted]
        /\ taskPool' = [taskPool EXCEPT ![k] = @ \ accepted]
        /\ taskQueue' = PushAll(k, Elements(request) \ accepted)
        /\ resultCache' = [b \in Block |-> resultCache[b] - IF b \in accepted THEN 1 ELSE 0]
        /\ waiting' = (waiting /\ accepted = {})
        /\ UNCHANGED <<kinds, scheduled, resultOffset, limit, ended, finished>>

\* A request that timed out goes back to the queue.
Expire(k, p) ==
    /\ k \in kinds \ finished /\ pendPool[k][p] # <<>>
    /\ taskQueue' = PushAll(k, Elements(pendPool[k][p]))
    /\ pendPool' = [pendPool EXCEPT ![k][p] = <<>>]
    /\ UNCHANGED <<kinds, scheduled, taskPool, donePool, lacking, resultCache, resultOffset, limit,
                   waiting, ended, finished, failed>>

\* A peer is dropped, and may come back as a new one.
Revoke(p) ==
    /\ taskQueue' = [k \in AllKinds |-> PushAll(k, Elements(pendPool[k][p]))[k]]
    /\ pendPool' = [k \in AllKinds |-> [pendPool[k] EXCEPT ![p] = <<>>]]
    /\ lacking' = [lacking EXCEPT ![p] = {}]
    /\ UNCHANGED <<kinds, scheduled, taskPool, donePool, resultCache, resultOffset, limit,
                   waiting, ended, finished, failed>>

\* fetchParts returns; after the last one the queue is closed, which wakes the
\* processor.
Finish(k) ==
    /\ k \in kinds \ finished /\ ended
    /\ Tasks(k) = {} /\ \A p \in Peer : pendPool[k][p] = <<>>
    /\ finished' = finished \cup {k}
    /\ waiting' = (waiting /\ finished' # kinds)
    /\ UNCHANGED <<kinds, scheduled, tasks, lacking, resultCache, resultOffset, limit,
                   ended, failed>>

-----------------------------------------------------------------------------
(* The processor *)

\* The leading results that have all their parts.
Processable == {b \in Block : b >= resultOffset /\ b < resultOffset + blockCacheItems
                              /\ \A c \in resultOffset .. b : resultCache[c] = 0}

Wait ==
    /\ ~waiting /\ Processable = {} /\ finished # kinds
    /\ waiting' = TRUE
    /\ UNCHANGED <<kinds, scheduled, tasks, lacking, resultCache, resultOffset, limit,
                   ended, finished, failed>>

\* Results are removed from the front of the cache, whose item limit follows
\* their size.
Results ==
    LET n == IF Cardinality(Processable) > maxResultsProcess THEN maxResultsProcess
             ELSE Cardinality(Processable)
        out == resultOffset .. (resultOffset + n - 1)
    IN  /\ ~waiting /\ Processable # {}
        /\ donePool' = [k \in AllKinds |-> donePool[k] \ out]
        /\ resultCache' = [b \in Block |-> IF b \in out THEN Nil ELSE resultCache[b]]
        /\ resultOffset' = resultOffset + n
        /\ limit' \in 1 .. blockCacheItems
        /\ UNCHANGED <<kinds, scheduled, taskPool, taskQueue, pendPool, lacking,
                       waiting, ended, finished, failed>>

Next ==
    /\ ~failed
    /\ \/ Schedule \/ EndOfHeaders \/ Wait \/ Results
       \/ \E k \in AllKinds :
            \/ Finish(k)
            \/ \E p \in Peer :
                 \/ Expire(k, p)
                 \/ \E count \in 1 .. MaxCount : Reserve(k, p, count)
                 \/ \E results, valid \in 0 .. MaxCount : Deliver(k, p, results, valid)
       \/ \E p \in Peer : Revoke(p)

Spec == Init /\ [][Next]_vars

-----------------------------------------------------------------------------
(* Properties *)

\* Each part of a scheduled block is in one place: a task in the queue, in one
\* peer's request, or done; and its slot counts the parts still to come.  No
\* part is asked for beyond the cache and none delivered without a slot, which
\* would end the sync with errInvalidChain.
OnePlace ==
    /\ ~failed
    /\ \A k \in kinds, b \in Block :
         LET requests == Cardinality({p \in Peer : b \in Elements(pendPool[k][p])})
             open == resultOffset <= b /\ b <= scheduled
         IN  /\ taskQueue[k][b] + requests + (IF b \in donePool[k] THEN 1 ELSE 0)
                = IF open THEN 1 ELSE 0
             /\ (b \in taskPool[k]) <=> (taskQueue[k][b] + requests = 1)
             /\ resultCache[b] # Nil =>
                  open /\ resultCache[b] = Cardinality({j \in kinds : b \notin donePool[j]})

\* The processor never sleeps while there are results to process.
NoLostWakeup == waiting => Processable = {}
=============================================================================
