------------------------------- MODULE Fetcher -------------------------------
(***************************************************************************)
(* The block fetcher (eth/fetcher/fetcher.go).  Peers announce hashes; the *)
(* loop asks one of them for the header, then for the body, queues what is *)
(* complete by number and imports what fits the chain in goroutines that   *)
(* report back.  One event of the loop is one action, together with the    *)
(* clean-up and the imports the loop does before it waits again.  Clocks   *)
(* are abstracted: which announcements are due and which requests have     *)
(* timed out is open.  Requests may be lost and answers may come unasked.  *)
(***************************************************************************)
EXTENDS Integers, Sequences, FiniteSets, Functions

CONSTANTS
    Announcer,      \* the peers that announce blocks
    Hash,
    Number,         \* block number of every hash, from 1 on
    Parent,         \* parent hash, or Root
    Root, NoPeer,
    Body,           \* what TxHash and UncleHash stand for
    NoBody,         \* the body of an empty block
    Valid,          \* the blocks whose header verifies
    hashLimit, blockLimit, maxUncleDist, maxQueueDist,
    MaxAnnounces,   \* bound: announcements of one hash that wait together
    MaxDebt         \* bound: how far a counter of announcements may fall

ASSUME FetcherAssumption ==
    /\ IsFiniteSet(Hash) /\ NoPeer \notin Announcer
    /\ Number \in [Hash -> Nat \ {0}]
    /\ Parent \in [Hash -> Hash \cup {Root}]
    /\ \A h \in Hash : Number[h] = IF Parent[h] = Root THEN 1 ELSE Number[Parent[h]] + 1
    /\ Valid \subseteq Hash
    /\ {hashLimit, blockLimit, maxUncleDist, maxQueueDist, MaxAnnounces, MaxDebt} \subseteq Nat

\* A notification: who sent it, the number it promised, and whether its header
\* has come.
Announce == [origin : Announcer, number : Nat, header : BOOLEAN]

VARIABLES
    fetcher,        \* the announcements and the block cache of the Fetcher
    fetchTimer, completeTimer,
    known,          \* the blocks of the chain
    importing,      \* goroutines that import a block
    done            \* goroutines that wait to report a hash

fetcherVars == <<fetcher, fetchTimer, completeTimer, known, importing, done>>

FetcherInit ==
    /\ fetcher = [announces  |-> [p \in Announcer |-> 0],
                  announced  |-> [h \in Hash |-> <<>>],
                  fetching   |-> [h \in Hash |-> NoPeer],
                  fetched    |-> [h \in Hash |-> <<>>],
                  completing |-> [h \in Hash |-> NoPeer],
                  queue      |-> [h \in Hash |-> 0],
                  queues     |-> [p \in Announcer |-> 0],
                  queued     |-> [h \in Hash |-> NoPeer]]
    /\ fetchTimer = TRUE /\ completeTimer = TRUE
    /\ known = {}
    /\ importing = [h \in Hash |-> 0]
    /\ done = [h \in Hash |-> 0]

chainHeight == IF known = {} THEN 0
               ELSE CHOOSE n \in {Number[h] : h \in known} : \A h \in known : Number[h] <= n

Near(n) == n - chainHeight >= -maxUncleDist /\ n - chainHeight <= maxQueueDist

\* How often a peer is the origin of some announcements, or of one.
By(p, anns) == Cardinality({i \in DOMAIN anns : anns[i].origin = p})
Is(p, ann) == IF ann # NoPeer /\ ann.origin = p THEN 1 ELSE 0

-----------------------------------------------------------------------------
(* forgetHash, forgetBlock and enqueue *)

\* How many announcements of a hash count for a peer.
Counted(f, p, h) == By(p, f.announced[h]) + Is(p, f.fetching[h])
                    + By(p, f.fetched[h]) + Is(p, f.completing[h])

\* forgetHash, for a set of hashes.
forgetHash(f, hashes) ==
    [f EXCEPT !.announces = [p \in Announcer |->
                  @[p] - SumFunctionOnSet([h \in Hash |-> Counted(f, p, h)], hashes)],
              !.announced = [h \in Hash |-> IF h \in hashes THEN <<>> ELSE @[h]],
              !.fetching = [h \in Hash |-> IF h \in hashes THEN NoPeer ELSE @[h]],
              !.fetched = [h \in Hash |-> IF h \in hashes THEN <<>> ELSE @[h]],
              !.completing = [h \in Hash |-> IF h \in hashes THEN NoPeer ELSE @[h]]]

\* forgetBlock, for a set of hashes.
forgetBlock(f, hashes) ==
    [f EXCEPT !.queues = [p \in Announcer |-> @[p] - Cardinality({h \in hashes : f.queued[h] = p})],
              !.queued = [h \in Hash |-> IF h \in hashes THEN NoPeer ELSE @[h]]]

\* Mutant: a block that is queued or being imported is queued again.
enqueueAgain(f, p, hashes) ==
    [f EXCEPT !.queues[p] = @ + Cardinality(hashes),
              !.queued = [h \in Hash |-> IF h \in hashes THEN p ELSE @[h]],
              !.queue = [h \in Hash |-> IF h \in hashes THEN @[h] + 1 ELSE @[h]]]

\* The end of enqueue: what is not queued yet is.
enqueue(f, p, hashes) ==
    LET new == {h \in hashes : f.queued[h] = NoPeer}
    IN  [f EXCEPT !.queues[p] = @ + Cardinality(new),
                  !.queued = [h \in Hash |-> IF h \in new THEN p ELSE @[h]],
                  !.queue = [h \in Hash |-> IF h \in new THEN @[h] + 1 ELSE @[h]]]

\* The blocks of a peer that enqueue admits: the near ones, in any order, while
\* the peer has less than its limit.
Admissible(f, p, hashes) ==
    LET near == {h \in hashes : Near(Number[h])}
    IN  {s \in SUBSET near : /\ s # {} => f.queues[p] + Cardinality(s) <= blockLimit
                             /\ s # near => f.queues[p] + Cardinality(s) >= blockLimit}

-----------------------------------------------------------------------------
(* The loop *)

\* What the loop does before it waits for the next event: fetches that timed
\* out are forgotten; queued blocks that may fit are forgotten when they are
\* old or known, and else imported by a goroutine.
Turn(f) ==
    \E expired \in SUBSET {h \in Hash : f.fetching[h] # NoPeer} :
      LET g == forgetHash(f, expired)
          ready == {h \in Hash : g.queue[h] > 0 /\ Number[h] <= chainHeight + 1}
          stale == {h \in ready : Number[h] + maxUncleDist < chainHeight \/ h \in known}
      IN  /\ fetcher' = [forgetBlock(g, stale) EXCEPT
                           !.queue = [h \in Hash |-> IF h \in ready THEN 0 ELSE @[h]]]
          /\ importing' = [h \in Hash |-> importing[h]
                                          + (IF h \in ready \ stale THEN g.queue[h] ELSE 0)]

\* The turn after an event that offers blocks of a peer for import.
EnqueueTurn(f, p, hashes) ==
    \E s \in Admissible(f, p, hashes) : Turn(enqueue(forgetHash(f, hashes \ s), p, s))

\* An announcement counts for its peer and waits, unless the peer has too many,
\* the number is out of range or the block is being retrieved.
Notify(p, h, n) ==
    /\ Len(fetcher.announced[h]) < MaxAnnounces
    /\ fetcher.announces[p] >= -MaxDebt
    /\ LET accepted == /\ fetcher.announces[p] + 1 <= hashLimit
                       /\ n > 0 => Near(n)
                       /\ fetcher.fetching[h] = NoPeer
                       /\ fetcher.completing[h] = NoPeer
           ann == [origin |-> p, number |-> n, header |-> FALSE]
           f == [fetcher EXCEPT !.announces[p] = @ + 1, !.announced[h] = Append(@, ann)]
       IN  /\ Turn(IF accepted THEN f ELSE fetcher)
           /\ fetchTimer' = (fetchTimer \/ (accepted /\ \A g \in Hash \ {h} : f.announced[g] = <<>>))
    /\ UNCHANGED <<completeTimer, known, done>>

\* A block was propagated in full.
Inject(p, h) ==
    /\ EnqueueTurn(fetcher, p, {h})
    /\ UNCHANGED <<fetchTimer, completeTimer, known, done>>

Done(h) ==
    /\ done[h] > 0
    /\ done' = [done EXCEPT ![h] = @ - 1]
    /\ Turn(forgetBlock(forgetHash(fetcher, {h}), {h}))
    /\ UNCHANGED <<fetchTimer, completeTimer, known>>

\* The announcements that are due are dropped but for one of each hash, whose
\* peer is asked for the header.
Fetch(due) ==
    /\ fetchTimer
    /\ \E pick \in [due -> 1 .. MaxAnnounces] :
         /\ \A h \in due : pick[h] <= Len(fetcher.announced[h])
         /\ LET g == forgetHash(fetcher, due)
            IN  Turn([g EXCEPT !.fetching = [h \in Hash |->
                        IF h \in due \ known THEN fetcher.announced[h][pick[h]] ELSE @[h]]])
    /\ fetchTimer' = (\E h \in Hash \ due : fetcher.announced[h] # <<>>)
    /\ UNCHANGED <<completeTimer, known, done>>

\* All blocks whose header has come are asked for, each from one peer.
Complete ==
    LET due == {h \in Hash : fetcher.fetched[h] # <<>>}
        g == forgetHash(fetcher, due)
    IN  /\ completeTimer
        /\ Turn([g EXCEPT !.completing = [h \in Hash |->
                    IF h \in due \ known THEN fetcher.fetched[h][1] ELSE @[h]]])
        /\ completeTimer' = FALSE
        /\ UNCHANGED <<fetchTimer, known, done>>

Got(ann) == [ann EXCEPT !.header = TRUE]

\* The header of a block that was asked for, perhaps twice in the message.  An
\* empty block is complete.  The fetch is not deleted: it may still time out.
FilterHeaders(p, h, twice) ==
    LET ann == fetcher.fetching[h]
        got == Got(ann)
    IN  /\ ann # NoPeer /\ ann.origin = p /\ fetcher.fetched[h] = <<>>
        /\ fetcher.completing[h] = NoPeer /\ fetcher.queued[h] = NoPeer
        /\ \/ /\ ann.number # Number[h] \/ h \in known
              /\ Turn(forgetHash(fetcher, {h}))
              /\ UNCHANGED completeTimer
           \/ /\ ann.number = Number[h] /\ h \notin known /\ Body[h] = NoBody
              /\ LET f == [fetcher EXCEPT !.fetching[h] = got, !.completing[h] = got]
                 IN  EnqueueTurn(f, p, {h})
              /\ UNCHANGED completeTimer
           \/ /\ ann.number = Number[h] /\ h \notin known /\ Body[h] # NoBody
              /\ Turn([fetcher EXCEPT !.fetching[h] = got,
                                      !.fetched[h] = IF twice THEN <<got, got>> ELSE <<got>>])
              /\ completeTimer' = (completeTimer \/ \A g \in Hash \ {h} : fetcher.fetched[g] = <<>>)
        /\ UNCHANGED <<fetchTimer, known, done>>

\* A body completes every block of the peer that has it.
FilterBodies(p, body) ==
    LET matched == {h \in Hash : /\ fetcher.completing[h] # NoPeer /\ fetcher.queued[h] = NoPeer
                                 /\ Body[h] = body /\ fetcher.completing[h].origin = p}
    IN  /\ matched # {}
        /\ EnqueueTurn(forgetHash(fetcher, matched \cap known), p, matched \ known)
        /\ UNCHANGED <<fetchTimer, completeTimer, known, done>>

-----------------------------------------------------------------------------
(* Outside the loop *)

\* The goroutine of insert: a block with an unknown parent or a bad header is
\* not inserted, and the chain may refuse it; it always reports.
Import(h) ==
    /\ importing[h] > 0
    /\ importing' = [importing EXCEPT ![h] = @ - 1]
    /\ done' = [done EXCEPT ![h] = @ + 1]
    /\ \/ Parent[h] \in known \cup {Root} /\ h \in Valid /\ known' = known \cup {h}
       \/ UNCHANGED known
    /\ UNCHANGED <<fetcher, fetchTimer, completeTimer>>

\* The downloader or the miner extends the chain.
Extend(h) ==
    /\ h \in Valid \ known /\ Parent[h] \in known \cup {Root}
    /\ known' = known \cup {h}
    /\ UNCHANGED <<fetcher, fetchTimer, completeTimer, importing, done>>

Announced == {h \in Hash : fetcher.announced[h] # <<>>}

\* What may happen when only some peers and hashes are heard of.
NextOf(peers, hashes) ==
    \/ \E p \in peers, h \in hashes : \E n \in {0, Number[h]} : Notify(p, h, n)
    \/ \E p \in peers, h \in hashes : Inject(p, h)
    \/ \E due \in SUBSET Announced : Fetch(due)
    \/ Complete
    \/ \E p \in peers, h \in hashes, twice \in BOOLEAN : FilterHeaders(p, h, twice)
    \/ \E p \in peers, body \in {Body[h] : h \in hashes} : FilterBodies(p, body)
    \/ \E h \in hashes : Done(h) \/ Import(h) \/ Extend(h)

FetcherNext == NextOf(Announcer, Hash)

FetcherSpec == FetcherInit /\ [][FetcherNext]_fetcherVars

-----------------------------------------------------------------------------
(* Properties *)

\* A block is imported by one goroutine at a time: the set of queued hashes,
\* which outlives the queue's entry, covers the queue, the imports and the
\* reports, each once.  So the count of a peer's blocks, which the limit is
\* checked against, is right at every time.
OneImport ==
    /\ \A h \in Hash : fetcher.queue[h] + importing[h] + done[h]
                       = IF fetcher.queued[h] = NoPeer THEN 0 ELSE 1
    /\ \A p \in Announcer : /\ fetcher.queues[p] = Cardinality({h \in Hash : fetcher.queued[h] = p})
                       /\ fetcher.queues[p] <= blockLimit

\* While an announcement or a header waits the timer that will serve it is set.
TimersArmed ==
    /\ Announced # {} => fetchTimer
    /\ (\E h \in Hash : fetcher.fetched[h] # <<>>) => completeTimer

\* Both: a block is queued, being imported or reported once at a time, whatever
\* is announced, sent and imported by others (enqueue, insert), and what waits has
\* its timer set (rescheduleFetch).
FetchedOnce == OneImport /\ TimersArmed
==============================================================================
