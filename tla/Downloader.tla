----------------------------- MODULE Downloader -----------------------------
(***************************************************************************)
(* A sync (eth/downloader/downloader.go, eth/downloader/queue.go).         *)
(*                                                                         *)
(* The header half is the body of this module: fetchHeaders asks the       *)
(* master peer for a skeleton (every MaxHeaderFetch-th header),            *)
(* fillHeaderSkeleton fills the batches between its headers from all       *)
(* peers, and the batches go to the header processor through headerProcCh, *)
(* early where they can, in order always.  The unit is a batch, known by   *)
(* its position from the origin of the sync.  The pivot of a fast sync is  *)
(* left out.                                                               *)
(*                                                                         *)
(* Bodies and receipts come by way of the queue of parts (DownloadQueue).  *)
(* The two halves share no variable: which header is next is all that the  *)
(* queue learns of the skeleton, and Schedule takes the next one.          *)
(***************************************************************************)
EXTENDS Integers, Sequences, FiniteSets

CONSTANTS
    Peer, Master,
    Honest,             \* peers that serve every batch of the chain, if in time
    Batches,            \* bound: the length of the chain
    MaxSkeletonSize,
    MaxJoins            \* bound: how often a peer that left comes back

SkeletonAssumption ==
    /\ Master \in Peer /\ Honest \subseteq Peer
    /\ Batches \in Nat /\ MaxSkeletonSize \in Nat \ {0} /\ MaxJoins \in Nat

Batch == 1 .. Batches
NoRequest == 0

VARIABLES
    phase,              \* of fetchHeaders
    skeleton,           \* it asks for skeletons, not yet for headers directly
    from,               \* the next batch to ask for
    rest,               \* the batches it has to push before it asks again
    size,               \* of the skeleton that is being filled
    genuine,            \* the batches of it that end as in the honest chain
    headerTaskPool, headerTaskQueue, headerPendPool, headerPeerMiss,
    headerResults,      \* the batches filled
    headerProced,       \* how many the processor was given early
    cont,               \* headerContCh holds a false
    finished,           \* fetchParts has received it
    headerProcCh,       \* at most one sequence of batches
    processed,          \* ghost: what the processor has received
    peers, joins

queue == <<headerTaskPool, headerTaskQueue, headerPendPool, headerPeerMiss, headerResults,
           headerProced, cont>>
vars == <<phase, skeleton, from, rest, size, genuine, queue, finished, headerProcCh, processed,
          peers, joins>>

Init ==
    /\ phase = "asking" /\ skeleton = TRUE /\ from = 1 /\ rest = 0
    /\ size = 0 /\ genuine = {}
    /\ headerTaskPool = {} /\ headerTaskQueue = [b \in Batch |-> 0]
    /\ headerPendPool = [p \in Peer |-> NoRequest] /\ headerPeerMiss = [p \in Peer |-> {}]
    /\ headerResults = {} /\ headerProced = 0 /\ cont = FALSE /\ finished = FALSE
    /\ headerProcCh = <<>> /\ processed = <<>>
    /\ peers = Peer /\ joins = 0

Run(first, n) == [i \in 1 .. n |-> first + i - 1]
Tasks == {b \in Batch : headerTaskQueue[b] > 0}
Syncing == phase \in {"asking", "filling", "pushing"}
InFlight == \E p \in Peer : headerPendPool[p] # NoRequest

-----------------------------------------------------------------------------
(* fetchHeaders *)

\* The master answers with a skeleton of n headers, of which some may lie: the
\* fill starts.
ScheduleSkeleton(n, fit) ==
    LET batches == from .. (from + n - 1)
    IN  /\ phase = "asking" /\ skeleton
        /\ n <= MaxSkeletonSize /\ from + n - 1 <= Batches /\ fit \subseteq batches
        /\ Master \in Honest => fit = batches
        /\ phase' = "filling" /\ size' = n /\ genuine' = fit
        /\ headerTaskPool' = batches
        /\ headerTaskQueue' = [b \in Batch |-> IF b \in batches THEN 1 ELSE 0]
        /\ headerPeerMiss' = [p \in Peer |-> {}]
        /\ headerResults' = {} /\ headerProced' = 0 /\ cont' = FALSE /\ finished' = FALSE
        /\ UNCHANGED <<skeleton, from, rest, headerPendPool, headerProcCh, processed, peers, joins>>

\* The skeletons have ended: headers are asked for directly.
SkeletonEnds ==
    /\ phase = "asking" /\ skeleton
    /\ skeleton' = FALSE
    /\ UNCHANGED <<phase, from, rest, size, genuine, queue, finished, headerProcCh, processed,
                   peers, joins>>

\* The master answers with a batch of headers.
Direct ==
    /\ phase = "asking" /\ ~skeleton /\ from <= Batches
    /\ phase' = "pushing" /\ rest' = 1
    /\ UNCHANGED <<skeleton, from, size, genuine, queue, finished, headerProcCh, processed,
                   peers, joins>>

\* The headers have ended; the processor is told by a nil.
HeadersEnd ==
    /\ phase = "asking" /\ ~skeleton /\ headerProcCh = <<>>
    /\ phase' = "done"
    /\ UNCHANGED <<skeleton, from, rest, size, genuine, queue, finished, headerProcCh, processed,
                   peers, joins>>

\* The master does not answer in time, or leaves: the sync ends.
MasterLost ==
    /\ Syncing
    /\ phase' = "failed" /\ peers' = peers \ {Master}
    /\ UNCHANGED <<skeleton, from, rest, size, genuine, queue, finished, headerProcCh, processed,
                   joins>>

\* The blocking send of what was not given to the processor early.
Push ==
    /\ phase = "pushing" /\ headerProcCh = <<>>
    /\ headerProcCh' = <<Run(from, rest)>>
    /\ from' = from + rest /\ rest' = 0 /\ phase' = "asking"
    /\ UNCHANGED <<skeleton, size, genuine, queue, finished, processed, peers, joins>>

\* processHeaders takes the next batches.
Process ==
    /\ headerProcCh # <<>>
    /\ processed' = processed \o Head(headerProcCh)
    /\ headerProcCh' = Tail(headerProcCh)
    /\ UNCHANGED <<phase, skeleton, from, rest, size, genuine, queue, finished, peers, joins>>

-----------------------------------------------------------------------------
(* fillHeaderSkeleton *)

\* An idle peer gets the first batch that it has not failed to deliver.
ReserveHeaders(p) ==
    LET fit == Tasks \ headerPeerMiss[p]
    IN  /\ phase = "filling" /\ p \in peers /\ headerPendPool[p] = NoRequest
        /\ fit # {}
        /\ LET send == CHOOSE b \in fit : \A c \in fit : b <= c
           IN  /\ headerPendPool' = [headerPendPool EXCEPT ![p] = send]
               /\ headerTaskQueue' = [headerTaskQueue EXCEPT ![send] = @ - 1]
        /\ UNCHANGED <<phase, skeleton, from, rest, size, genuine, headerTaskPool, headerPeerMiss,
                       headerResults, headerProced, cont, finished, headerProcCh, processed, peers, joins>>

\* A batch that does not fit the skeleton goes back, and the peer is not asked
\* for it again.
DeliverRefused(p) ==
    /\ phase = "filling" /\ p \in peers /\ headerPendPool[p] # NoRequest
    /\ ~(p \in Honest /\ headerPendPool[p] \in genuine)
    /\ headerPendPool' = [headerPendPool EXCEPT ![p] = NoRequest]
    /\ headerPeerMiss' = [headerPeerMiss EXCEPT ![p] = @ \cup {headerPendPool[p]}]
    /\ headerTaskQueue' = [headerTaskQueue EXCEPT ![headerPendPool[p]] = @ + 1]
    /\ UNCHANGED <<phase, skeleton, from, rest, size, genuine, headerTaskPool, headerResults,
                   headerProced, cont, finished, headerProcCh, processed, peers, joins>>

\* How many leading batches, not given to the processor yet, are filled.
Ready(results) ==
    Cardinality({b \in results : \A c \in (from + headerProced) .. b : c \in results}
                \ (from .. (from + headerProced - 1)))

\* Mutant: what the full channel did not take counts as given.
DeliverHeadersCounts(p) ==
    LET b == headerPendPool[p]
        ready == Ready(headerResults')
    IN  /\ phase = "filling" /\ p \in peers /\ b # NoRequest
        /\ ~(p \in Honest /\ b \notin genuine)
        /\ headerPendPool' = [headerPendPool EXCEPT ![p] = NoRequest]
        /\ headerResults' = headerResults \cup {b}
        /\ headerTaskPool' = headerTaskPool \ {b}
        /\ headerProced' = headerProced + ready
        /\ headerProcCh' = IF ready > 0 /\ headerProcCh = <<>>
                           THEN <<Run(from + headerProced, ready)>> ELSE headerProcCh
        /\ cont' = (cont \/ headerTaskPool' = {})
        /\ UNCHANGED <<phase, skeleton, from, rest, size, genuine, headerTaskQueue, headerPeerMiss,
                       finished, processed, peers, joins>>

\* A batch that fits is kept; the leading batches are given to the processor if
\* its channel has room; after the last one the fetch is told to end.
DeliverHeaders(p) ==
    LET b == headerPendPool[p]
        ready == Ready(headerResults')
        given == ready > 0 /\ headerProcCh = <<>>
    IN  /\ phase = "filling" /\ p \in peers /\ b # NoRequest
        /\ ~(p \in Honest /\ b \notin genuine)
        /\ headerPendPool' = [headerPendPool EXCEPT ![p] = NoRequest]
        /\ headerResults' = headerResults \cup {b}
        /\ headerTaskPool' = headerTaskPool \ {b}
        /\ headerProced' = IF given THEN headerProced + ready ELSE headerProced
        /\ headerProcCh' = IF given THEN <<Run(from + headerProced, ready)>> ELSE headerProcCh
        /\ cont' = (cont \/ headerTaskPool' = {})
        /\ UNCHANGED <<phase, skeleton, from, rest, size, genuine, headerTaskQueue, headerPeerMiss,
                       finished, processed, peers, joins>>

\* A request that timed out goes back to the queue, and the peer is dropped (a
\* header request counts as no headers): the sync ends if it is the master.
ExpireHeaders(p) ==
    /\ phase = "filling" /\ headerPendPool[p] # NoRequest
    /\ headerTaskQueue' = [headerTaskQueue EXCEPT ![headerPendPool[p]] = @ + 1]
    /\ headerPendPool' = [headerPendPool EXCEPT ![p] = NoRequest]
    /\ peers' = peers \ {p}
    /\ phase' = IF p = Master \/ peers' = {} THEN "failed" ELSE phase
    /\ UNCHANGED <<skeleton, from, rest, size, genuine, headerTaskPool, headerPeerMiss,
                   headerResults, headerProced, cont, finished, headerProcCh, processed, joins>>

\* Another peer leaves: Revoke forgets its bodies and receipts, not its header
\* request; it may come back, under the same name.
Leave(p) ==
    /\ p \in peers \ {Master} /\ Syncing
    /\ peers' = peers \ {p}
    /\ UNCHANGED <<phase, skeleton, from, rest, size, genuine, queue, finished, headerProcCh,
                   processed, joins>>

Join(p) ==
    /\ p \in Peer \ peers /\ Syncing /\ joins < MaxJoins
    /\ peers' = peers \cup {p} /\ joins' = joins + 1
    /\ UNCHANGED <<phase, skeleton, from, rest, size, genuine, queue, finished, headerProcCh,
                   processed>>

Continue ==
    /\ phase = "filling" /\ cont
    /\ cont' = FALSE /\ finished' = TRUE
    /\ UNCHANGED <<phase, skeleton, from, rest, size, genuine, headerTaskPool, headerTaskQueue,
                   headerPendPool, headerPeerMiss, headerResults, headerProced, headerProcCh,
                   processed, peers, joins>>

\* Nothing is in flight and no peer can be asked for what is left: the sync
\* ends with errPeersUnavailable, and fetchHeaders calls the skeleton invalid.
Unavailable ==
    /\ phase = "filling" /\ ~InFlight /\ Tasks # {}
    /\ \A p \in peers : Tasks \subseteq headerPeerMiss[p]
    /\ phase' = "invalid"
    /\ headerResults' = {} /\ headerProced' = 0
    /\ UNCHANGED <<skeleton, from, rest, size, genuine, headerTaskPool, headerTaskQueue,
                   headerPendPool, headerPeerMiss, cont, finished, headerProcCh, processed,
                   peers, joins>>

\* The fetch ends (RetrieveHeaders): what the processor has not received early is to be pushed.
Filled ==
    /\ phase = "filling" /\ Tasks = {} /\ ~InFlight /\ finished
    /\ from' = from + headerProced
    /\ rest' = size - headerProced
    /\ phase' = IF rest' > 0 THEN "pushing" ELSE "asking"
    /\ headerResults' = {} /\ headerProced' = 0
    /\ UNCHANGED <<skeleton, size, genuine, headerTaskPool, headerTaskQueue, headerPendPool,
                   headerPeerMiss, cont, finished, headerProcCh, processed, peers, joins>>

\* After the sync.
Over == ~Syncing /\ UNCHANGED vars

Next ==
    \/ \E n \in 1 .. MaxSkeletonSize : \E fit \in SUBSET Batch : ScheduleSkeleton(n, fit)
    \/ SkeletonEnds \/ Direct \/ HeadersEnd \/ MasterLost \/ Push \/ Process
    \/ Continue \/ Unavailable \/ Filled \/ Over
    \/ \E p \in Peer : \/ ReserveHeaders(p) \/ DeliverRefused(p) \/ DeliverHeaders(p)
                       \/ ExpireHeaders(p) \/ Leave(p) \/ Join(p)

Spec == Init /\ [][Next]_vars

-----------------------------------------------------------------------------
(* The queue of parts *)

CONSTANTS
    PartPeer,               \* the peers that parts are asked of
    HonestPart,             \* those that answer in full, when they answer
    Blocks, Noop, blockCacheItems, maxResultsProcess, MaxCount

VARIABLES
    kinds, scheduled, taskPool, taskQueue, pendPool, donePool, lacking, resultCache,
    resultOffset, limit, waiting, ended, fetched, givenUp

queueVars == <<kinds, scheduled, taskPool, taskQueue, pendPool, donePool, lacking, resultCache,
               resultOffset, limit, waiting, ended, fetched, givenUp>>

Parts == INSTANCE DownloadQueue WITH
    Peer <- PartPeer, Honest <- HonestPart, finished <- fetched, failed <- givenUp

ASSUME SyncAssumption == SkeletonAssumption /\ Parts!DownloadQueueAssumption

SyncSpec == Spec /\ Parts!Spec

-----------------------------------------------------------------------------
(* Properties *)

\* The processor is given every batch once and in order, whichever peer filled
\* it and whether it went early (DeliverHeaders) or late (fetchHeaders); what
\* goes early has been filled.
GivenInOrder ==
    LET given == processed \o (IF headerProcCh = <<>> THEN <<>> ELSE Head(headerProcCh))
    IN  /\ phase # "invalid" => given = Run(1, from - 1 + headerProced)
        /\ phase = "filling" => from .. (from + headerProced - 1) \subseteq headerResults

\* While a skeleton is filled each of its batches is queued, asked of one peer,
\* or filled, so no delivery finds its task gone (headerTaskPool[request.From]
\* would be nil), and the end is announced once all are filled.
EachInOnePlace ==
    phase = "filling" =>
      /\ \A b \in from .. (from + size - 1) :
           LET asked == Cardinality({p \in Peer : headerPendPool[p] = b})
           IN  /\ headerTaskQueue[b] + asked + (IF b \in headerResults THEN 1 ELSE 0) = 1
               /\ b \in headerTaskPool <=> b \notin headerResults
      /\ headerTaskPool = {} <=> (cont \/ finished)

\* OnePlace of DownloadQueue and EachInOnePlace: each part of a
\* scheduled block, and each batch of a skeleton, is queued, asked of one peer
\* or done (reserve, deliver, expire, revoke).
AllInOnePlace == Parts!OnePlace /\ EachInOnePlace

\* NoLostWakeup of DownloadQueue: the processor does not sleep while there are
\* results (Results).
NoLostWakeup == Parts!NoLostWakeup
=============================================================================
