----------------------------- MODULE SyncProofs -----------------------------
(***************************************************************************)
(* The sync: the processor gets the batches of headers once and in order,  *)
(* every batch and every part is in one place, and no wakeup of the        *)
(* processor is lost, for any peers, chain, skeleton and cache.            *)
(*                                                                         *)
(* OrderInv and FillInv are inductive for the skeleton.  PartsInv is for   *)
(* the queue of parts: besides where each part is, it says that a slot     *)
(* counts what its block lacks and that what was asked for or has come is, *)
(* for every kind, an initial run of the blocks but for those put back, so *)
(* that counting the open requests bounds how far a reservation reaches.   *)
(***************************************************************************)
EXTENDS Downloader, FiniteSetTheorems, WellFoundedInduction, TLAPS

\* Leaves are for Zenon; those with arithmetic or sequences say SMT.
USE Zenon

\* A set of numbers that is not empty has a least one.
LEMMA LeastNat ==
    ASSUME NEW T \in SUBSET Nat, T # {}
    PROVE  \E n \in T : \A m \in T : n <= m
<1> DEFINE R == OpToRel(<, Nat)
<1>1. IsWellFoundedOn(R, Nat) BY NatLessThanWellFounded
<1>2. \A m, n \in Nat : m < n => <<m, n>> \in R BY DEF OpToRel
<1> HIDE DEF R
<1>3. PICK n \in T : \A m \in T : ~ (<<m, n>> \in R) BY <1>1, WFMin
<1>4. ASSUME NEW m \in T PROVE n <= m
  <2>1. m \in Nat /\ n \in Nat OBVIOUS
  <2>2. ~ (m < n) BY <1>2, <1>3, <2>1
  <2> QED BY <2>1, <2>2, SMT
<1> QED BY <1>4

\* A bounded set of numbers from lo on that leaves out none below one of its
\* own is an interval that begins at lo.
LEMMA PrefixIsRun ==
    ASSUME NEW lo \in Nat, NEW hi \in Nat, NEW S \in SUBSET Nat,
           \A b \in S : lo <= b /\ b <= hi /\ \A c \in lo .. b : c \in S
    PROVE  \E m \in Nat : S = lo .. (lo + m - 1) /\ Cardinality(S) = m
  <1> DEFINE T == {i \in Nat : lo + i \notin S}
  <1>1. hi + 1 \in T
    <2>1. hi + 1 \in Nat /\ ~(lo + (hi + 1) <= hi)  BY SMT
    <2> QED  BY <2>1
  <1>2. PICK m \in T : \A i \in T : m <= i
    <2>1. T \in SUBSET Nat  OBVIOUS
    <2> HIDE DEF T
    <2> QED  BY <1>1, <2>1, LeastNat
  <1>3. m \in Nat /\ lo + m \notin S  BY <1>2
  <1>4. ASSUME NEW c \in lo .. (lo + m - 1) PROVE c \in S
    <2> SUFFICES ASSUME c \notin S PROVE FALSE  OBVIOUS
    <2>1. c - lo \in Nat /\ lo + (c - lo) = c /\ ~(m <= c - lo)  BY <1>3, SMT
    <2>2. c - lo \in T  BY <2>1
    <2> QED  BY <1>2, <2>1, <2>2
  <1>5. ASSUME NEW b \in S PROVE b \in lo .. (lo + m - 1)
    <2>1. b \in Nat /\ lo <= b /\ lo + m \notin lo .. b  BY <1>3
    <2> QED  BY <1>3, <2>1, SMT
  <1>6. S = lo .. (lo + m - 1)  BY <1>4, <1>5
  <1>7. Cardinality(S) = m
    <2>1. PICK last \in Int : last = lo + m - 1  BY <1>3, SMT
    <2>2. lo \in Int  BY SMT
    <2>3. Cardinality(lo .. last) = IF lo > last THEN 0 ELSE last - lo + 1  BY <2>2, FS_Interval
    <2>4. Cardinality(lo .. last) = m  BY <1>3, <2>1, <2>3, SMT
    <2> QED  BY <1>6, <2>1, <2>4
  <1> QED  BY <1>3, <1>6, <1>7

-----------------------------------------------------------------------------
(* The skeleton of headers *)

\* What fetchHeaders and the processor have of each other: the channel holds at
\* most one run of batches, and between two skeletons nothing counts as early.
OrderInv ==
    /\ phase \in {"asking", "filling", "pushing", "done", "failed", "invalid"}
    /\ from \in Nat \ {0} /\ rest \in Nat /\ headerProced \in Nat
    /\ processed \in Seq(Int)
    /\ \/ headerProcCh = <<>>
       \/ \E a, n \in Nat : headerProcCh = <<Run(a, n)>>
    /\ phase # "invalid" =>
           processed \o (IF headerProcCh = <<>> THEN <<>> ELSE Head(headerProcCh))
             = Run(1, from - 1 + headerProced)
    /\ phase \in {"asking", "pushing"} => headerProced = 0

\* A batch of the skeleton is queued, asked of one peer, or filled.
Queued(b) ==
    /\ headerTaskQueue[b] = 1 /\ b \notin headerResults
    /\ \A p \in Peer : headerPendPool[p] # b
Asked(b) ==
    /\ headerTaskQueue[b] = 0 /\ b \notin headerResults
    /\ \E p \in Peer : headerPendPool[p] = b /\ \A q \in Peer : headerPendPool[q] = b => q = p
Full(b) ==
    /\ headerTaskQueue[b] = 0 /\ b \in headerResults
    /\ \A p \in Peer : headerPendPool[p] # b

Placed(b) == Queued(b) \/ Asked(b) \/ Full(b)

\* The batches of the skeleton that is being filled.
Wanted == from .. (from + size - 1)

PlacesInv ==
    /\ \A b \in Wanted : Placed(b)
    /\ \A b \in Batch \ Wanted : headerTaskQueue[b] = 0
    /\ \A p \in Peer : headerPendPool[p] # NoRequest => headerPendPool[p] \in Wanted
    /\ headerResults \subseteq Wanted /\ headerTaskPool = Wanted \ headerResults

FillInv ==
    /\ headerTaskQueue \in [Batch -> Int]
    /\ headerPendPool \in [Peer -> Batch \cup {NoRequest}]
    /\ phase \in {"asking", "pushing"} => \A p \in Peer : headerPendPool[p] = NoRequest
    /\ phase = "filling" =>
         /\ size \in Nat \ {0} /\ Wanted \subseteq Batch
         /\ PlacesInv
         /\ headerTaskPool = {} <=> (cont \/ finished)
         /\ from .. (from + headerProced - 1) \subseteq headerResults

\* Runs of batches that follow each other are a run.
LEMMA RunThen ==
    ASSUME NEW a \in Nat, NEW n \in Nat
    PROVE  Run(1, a) \o Run(a + 1, n) = Run(1, a + n)
  <1>1. Run(1, a) \in Seq(Int) /\ Len(Run(1, a)) = a  BY SMT DEF Run
  <1>2. Run(a + 1, n) \in Seq(Int) /\ Len(Run(a + 1, n)) = n  BY SMT DEF Run
  <1> DEFINE s == Run(1, a) \o Run(a + 1, n)
  <1>3. \A i \in 1 .. (a + n) : s[i] = i  BY <1>1, <1>2, SMT DEF Run
  <1>4. s \in Seq(Int) /\ Len(s) = a + n  BY <1>1, <1>2, SMT
  <1> HIDE DEF s
  <1>5. s = [i \in 1 .. (a + n) |-> s[i]]  BY <1>4, SMT
  <1>6. [i \in 1 .. (a + n) |-> s[i]] = [i \in 1 .. (a + n) |-> i]  BY <1>3
  <1>7. Run(1, a + n) = [i \in 1 .. (a + n) |-> i]  BY SMT DEF Run
  <1> QED  BY <1>5, <1>6, <1>7 DEF s

\* What is ready is a run of filled batches that begins where the last one ended.
LEMMA ReadyIsRun ==
    ASSUME NEW R \in SUBSET Batch, from \in Nat \ {0}, headerProced \in Nat,
           \A b \in R : b >= from, Batches \in Nat
    PROVE  /\ Ready(R) \in Nat
           /\ \A c \in (from + headerProced) .. (from + headerProced + Ready(R) - 1) : c \in R
  <1> DEFINE lo == from + headerProced
             T == {k \in Nat : lo + k \notin R}
             S == {b \in R : \A c \in lo .. b : c \in R} \ (from .. (lo - 1))
  <1>1. lo \in Nat /\ lo >= from /\ lo > 0  BY SMT
  <1>2. lo + Batches \notin R  BY <1>1, SMT DEF Batch
  <1> HIDE DEF lo
  <1>3. PICK k \in T : \A m \in T : k <= m
    <2>1. T \in SUBSET Nat /\ Batches \in T  BY <1>2
    <2> HIDE DEF T
    <2> QED  BY <2>1, LeastNat
  <1>4. k \in Nat /\ lo + k \notin R  BY <1>3
  <1>5. \A c \in lo .. (lo + k - 1) : c \in R
    <2> SUFFICES ASSUME NEW c \in lo .. (lo + k - 1), c \notin R PROVE FALSE  OBVIOUS
    <2>1. c - lo \in Nat /\ lo + (c - lo) = c /\ c - lo < k  BY <1>1, <1>4, SMT
    <2>2. c - lo \in T  BY <2>1
    <2> QED  BY <1>3, <1>4, <2>1, <2>2, SMT
  <1>6. S = lo .. (lo + k - 1)
    <2>1. ASSUME NEW b \in S PROVE b \in lo .. (lo + k - 1)
      <3>1. b \in R /\ b \in Int /\ b >= from  BY <2>1, SMT DEF Batch
      <3>2. b \notin from .. (lo - 1) /\ \A c \in lo .. b : c \in R  BY <2>1
      <3>3. b >= lo  BY <1>1, <3>1, <3>2, SMT
      <3>4. lo + k \notin lo .. b  BY <1>4, <3>2
      <3> QED  BY <1>1, <1>4, <3>1, <3>3, <3>4, SMT
    <2>2. ASSUME NEW b \in lo .. (lo + k - 1) PROVE b \in S
      <3>1. b \notin from .. (lo - 1)  BY <1>1, <1>4, <2>2, SMT
      <3>2. \A c \in lo .. b : c \in lo .. (lo + k - 1)  BY <1>1, <1>4, <2>2, SMT
      <3> QED  BY <1>5, <2>2, <3>1, <3>2
    <2> QED  BY <2>1, <2>2
  <1>7. Cardinality(lo .. (lo + k - 1)) = k
    <2>1. lo \in Int /\ lo + k - 1 \in Int  BY <1>1, <1>4, SMT
    <2> QED  BY <1>1, <1>4, <2>1, FS_Interval, SMT
  <1>8. Ready(R) = Cardinality(S)  BY SMT DEF Ready, lo
  <1> QED  BY <1>4, <1>5, <1>6, <1>7, <1>8 DEF lo

-----------------------------------------------------------------------------

\* A step that gives the processor nothing.
LEMMA OrderKept ==
    ASSUME OrderInv, UNCHANGED <<from, headerProced, processed, headerProcCh>>, rest' \in Nat,
           phase' \in {"asking", "filling", "pushing", "done", "failed"}, phase # "invalid",
           phase' \in {"asking", "pushing"} => headerProced = 0
    PROVE  OrderInv'
  BY DEF OrderInv, Run

\* After a delivery what is ready is a run of filled batches.
LEMMA DeliverReady ==
    ASSUME OrderInv, FillInv, NEW p \in Peer, DeliverHeaders(p)
    PROVE  /\ headerPendPool[p] \in Wanted
           /\ headerResults' \subseteq Batch
           /\ Ready(headerResults') \in Nat
           /\ \A c \in (from + headerProced) .. (from + headerProced + Ready(headerResults') - 1) :
                 c \in headerResults'
  <1>1. /\ phase = "filling" /\ headerPendPool[p] # NoRequest
        /\ headerResults' = headerResults \cup {headerPendPool[p]}
    BY DEF DeliverHeaders
  <1>2. /\ Wanted \subseteq Batch /\ headerPendPool[p] \in Wanted /\ headerResults \subseteq Wanted
    BY <1>1 DEF FillInv, PlacesInv
  <1>3. headerResults' \in SUBSET Batch /\ headerResults' \subseteq Wanted  BY <1>1, <1>2
  <1>4. from \in Nat \ {0} /\ headerProced \in Nat /\ size \in Nat /\ Batches \in Nat
    BY <1>1, SyncAssumption DEF OrderInv, FillInv, SkeletonAssumption
  <1>5. \A b \in headerResults' : b >= from  BY <1>3, <1>4, SMT DEF Wanted
  <1> QED  BY <1>2, <1>3, <1>4, <1>5, ReadyIsRun

\* Every step keeps what the processor is given in order.
LEMMA NextOrder ==
    ASSUME OrderInv, FillInv, [Next]_vars
    PROVE  OrderInv'
  <1>1. ASSUME UNCHANGED <<phase, from, rest, headerProced, processed, headerProcCh>> PROVE OrderInv'
    BY <1>1 DEF OrderInv, Run
  <1>2. ASSUME NEW n \in 1 .. MaxSkeletonSize, NEW fit \in SUBSET Batch, ScheduleSkeleton(n, fit)
        PROVE  OrderInv'
    <2>1. /\ phase = "asking" /\ phase' = "filling" /\ headerProced' = 0
          /\ UNCHANGED <<from, rest, processed, headerProcCh>>
      BY <1>2 DEF ScheduleSkeleton
    <2>2. headerProced' = headerProced /\ rest \in Nat  BY <2>1 DEF OrderInv
    <2> QED  BY <2>1, <2>2, OrderKept
  <1>3. CASE SkeletonEnds  BY <1>1, <1>3 DEF SkeletonEnds, queue
  <1>4. CASE Direct
    <2>1. /\ phase = "asking" /\ phase' = "pushing" /\ rest' = 1
          /\ UNCHANGED <<from, headerProced, processed, headerProcCh>>
      BY <1>4 DEF Direct, queue
    <2>2. rest' \in Nat  BY <2>1, SMT
    <2>3. headerProced = 0  BY <2>1 DEF OrderInv
    <2> QED  BY <2>1, <2>2, <2>3, OrderKept
  <1>5. CASE HeadersEnd
    <2>1. /\ phase = "asking" /\ phase' = "done"
          /\ UNCHANGED <<from, rest, headerProced, processed, headerProcCh>>
      BY <1>5 DEF HeadersEnd, queue
    <2>2. rest' \in Nat  BY <2>1 DEF OrderInv
    <2> QED  BY <2>1, <2>2, OrderKept
  <1>6. CASE MasterLost
    <2>1. /\ phase # "invalid" /\ phase' = "failed"
          /\ UNCHANGED <<from, rest, headerProced, processed, headerProcCh>>
      BY <1>6 DEF MasterLost, Syncing, queue
    <2>2. rest' \in Nat  BY <2>1 DEF OrderInv
    <2> QED  BY <2>1, <2>2, OrderKept
  <1>7. CASE Push
    <2>1. /\ phase = "pushing" /\ headerProcCh = <<>> /\ headerProcCh' = <<Run(from, rest)>>
          /\ from' = from + rest /\ rest' = 0 /\ phase' = "asking" /\ headerProced' = headerProced
          /\ processed' = processed
      BY <1>7 DEF Push, queue
    <2>2. /\ headerProced = 0 /\ from \in Nat \ {0} /\ rest \in Nat /\ processed \in Seq(Int)
          /\ processed \o <<>> = Run(1, from - 1 + headerProced)
      BY <2>1 DEF OrderInv
    <2>3. processed = Run(1, from - 1)  BY <2>2, SMT
    <2>4. from - 1 \in Nat /\ from - 1 + 1 = from /\ from - 1 + rest = from + rest - 1
      BY <2>2, SMT
    <2>5. Run(1, from - 1) \o Run(from, rest) = Run(1, from + rest - 1)
      BY <2>2, <2>4, RunThen
    <2>6. headerProcCh' # <<>> /\ Head(headerProcCh') = Run(from, rest)  BY <2>1, SMT
    <2>7. from' - 1 + headerProced' = from + rest - 1 /\ from' \in Nat \ {0} /\ rest' \in Nat
      BY <2>1, <2>2, SMT
    <2>8. \E a, n \in Nat : headerProcCh' = <<Run(a, n)>>  BY <2>1, <2>2
    <2> QED  BY <2>1, <2>2, <2>3, <2>5, <2>6, <2>7, <2>8 DEF OrderInv, Run
  <1>8. CASE Process
    <2>1. /\ headerProcCh # <<>> /\ processed' = processed \o Head(headerProcCh)
          /\ headerProcCh' = Tail(headerProcCh)
          /\ UNCHANGED <<phase, from, rest, headerProced>>
      BY <1>8 DEF Process, queue
    <2>2. PICK a, n \in Nat : headerProcCh = <<Run(a, n)>>  BY <2>1 DEF OrderInv
    <2>3. Head(headerProcCh) = Run(a, n) /\ headerProcCh' = <<>>  BY <2>1, <2>2, SMT
    <2>4. processed \in Seq(Int) /\ Run(a, n) \in Seq(Int)  BY <2>2, SMT DEF OrderInv, Run
    <2>5. processed' \in Seq(Int) /\ processed' \o <<>> = processed'  BY <2>1, <2>3, <2>4, SMT
    <2> QED  BY <2>1, <2>3, <2>5 DEF OrderInv, Run
  <1>9. CASE Continue  BY <1>1, <1>9 DEF Continue
  <1>10. CASE Unavailable
    <2>1. phase' = "invalid" /\ headerProced' = 0 /\ UNCHANGED <<from, rest, processed, headerProcCh>>
      BY <1>10 DEF Unavailable
    <2>2. headerProced' \in Nat  BY <2>1, SMT
    <2> QED  BY <2>1, <2>2 DEF OrderInv, Run
  <1>11. CASE Filled
    <2>1. /\ phase = "filling" /\ from' = from + headerProced /\ rest' = size - headerProced
          /\ phase' \in {"pushing", "asking"} /\ headerProced' = 0
          /\ UNCHANGED <<processed, headerProcCh>>
      BY <1>11 DEF Filled
    <2>2. from \in Nat \ {0} /\ headerProced \in Nat /\ size \in Nat \ {0}  BY <2>1 DEF OrderInv, FillInv
    <2>3. from' \in Nat \ {0} /\ headerProced' \in Nat
          /\ from' - 1 + headerProced' = from - 1 + headerProced
      BY <2>1, <2>2, SMT
    <2>4. rest' \in Nat
      <3>1. from .. (from + headerProced - 1) \subseteq from .. (from + size - 1)
        BY <2>1 DEF FillInv, PlacesInv, Wanted
      <3>2. headerProced > 0 => from + headerProced - 1 \in from .. (from + headerProced - 1)  BY <2>2, SMT
      <3>3. headerProced > 0 => from + headerProced - 1 \in from .. (from + size - 1)  BY <3>1, <3>2
      <3> QED  BY <2>1, <2>2, <3>3, SMT
    <2> QED  BY <2>1, <2>3, <2>4 DEF OrderInv, Run
  <1>12. CASE Over  BY <1>1, <1>12 DEF Over, vars, queue
  <1>13. ASSUME NEW p \in Peer, ReserveHeaders(p) PROVE OrderInv'
    BY <1>1, <1>13 DEF ReserveHeaders
  <1>14. ASSUME NEW p \in Peer, DeliverRefused(p) PROVE OrderInv'
    BY <1>1, <1>14 DEF DeliverRefused
  <1>15. ASSUME NEW p \in Peer, DeliverHeaders(p) PROVE OrderInv'
    <2> DEFINE ready == Ready(headerResults')
    <2>1. /\ phase = "filling" /\ headerPendPool[p] # NoRequest
          /\ headerResults' = headerResults \cup {headerPendPool[p]}
          /\ UNCHANGED <<phase, from, rest, processed>>
          /\ headerProced' = IF ready > 0 /\ headerProcCh = <<>> THEN headerProced + ready ELSE headerProced
          /\ headerProcCh' = IF ready > 0 /\ headerProcCh = <<>>
                             THEN <<Run(from + headerProced, ready)>> ELSE headerProcCh
      BY <1>15 DEF DeliverHeaders
    <2>2. ready \in Nat
      BY <1>15, <2>1, DeliverReady
    <2> HIDE DEF ready
    <2>3. CASE ~ (ready > 0 /\ headerProcCh = <<>>)
      BY <1>1, <2>1, <2>3
    <2>4. CASE ready > 0 /\ headerProcCh = <<>>
      <3>1. /\ headerProced' = headerProced + ready
            /\ headerProcCh' = <<Run(from + headerProced, ready)>>
        BY <2>1, <2>4
      <3>2. /\ from \in Nat \ {0} /\ headerProced \in Nat /\ processed \in Seq(Int) /\ rest \in Nat
            /\ processed \o <<>> = Run(1, from - 1 + headerProced)
        BY <2>1, <2>4 DEF OrderInv
      <3>3. processed = Run(1, from - 1 + headerProced)  BY <3>2, SMT
      <3>4. /\ from - 1 + headerProced \in Nat /\ from - 1 + headerProced + 1 = from + headerProced
            /\ from - 1 + (headerProced + ready) = from - 1 + headerProced + ready
            /\ headerProced + ready \in Nat /\ from + headerProced \in Nat
        BY <2>2, <3>2, SMT
      <3>5. processed \o Run(from + headerProced, ready) = Run(1, from - 1 + (headerProced + ready))
        BY <2>2, <3>3, <3>4, RunThen
      <3>6. headerProcCh' # <<>> /\ Head(headerProcCh') = Run(from + headerProced, ready)
        BY <3>1, SMT
      <3>7. \E a, n \in Nat : headerProcCh' = <<Run(a, n)>>  BY <2>2, <3>1, <3>4
      <3> QED  BY <2>1, <3>1, <3>2, <3>4, <3>5, <3>6, <3>7 DEF OrderInv, Run
    <2> QED  BY <2>3, <2>4
  <1>16. ASSUME NEW p \in Peer, ExpireHeaders(p) PROVE OrderInv'
    <2>1. /\ phase = "filling" /\ phase' \in {"filling", "failed"}
          /\ UNCHANGED <<from, rest, headerProced, processed, headerProcCh>>
      BY <1>16 DEF ExpireHeaders
    <2>2. rest' \in Nat  BY <2>1 DEF OrderInv
    <2> QED  BY <2>1, <2>2, OrderKept
  <1>17. ASSUME NEW p \in Peer, Leave(p) \/ Join(p) PROVE OrderInv'
    BY <1>1, <1>17 DEF Leave, Join, queue
  <1>18. CASE UNCHANGED vars  BY <1>1, <1>18 DEF vars, queue
  <1> QED
    BY <1>2, <1>3, <1>4, <1>5, <1>6, <1>7, <1>8, <1>9, <1>10, <1>11, <1>12, <1>13, <1>14, <1>15,
       <1>16, <1>17, <1>18 DEF Next

-----------------------------------------------------------------------------

\* A batch that a step does not touch.
LEMMA PlaceKept ==
    ASSUME NEW c, Placed(c), headerTaskQueue'[c] = headerTaskQueue[c],
           c \in headerResults' <=> c \in headerResults,
           \A q \in Peer : headerPendPool'[q] = c <=> headerPendPool[q] = c
    PROVE  Placed(c)'
  <1>1. CASE Queued(c)  BY <1>1 DEF Placed, Queued
  <1>2. CASE Full(c)  BY <1>2 DEF Placed, Full
  <1>3. CASE Asked(c)
    <2>1. PICK p \in Peer : headerPendPool[p] = c /\ \A q \in Peer : headerPendPool[q] = c => q = p
      BY <1>3 DEF Asked
    <2>2. headerPendPool'[p] = c /\ \A q \in Peer : headerPendPool'[q] = c => q = p  BY <2>1
    <2>3. headerTaskQueue'[c] = 0 /\ c \notin headerResults'  BY <1>3 DEF Asked
    <2>4. Asked(c)'  BY <2>2, <2>3 DEF Asked
    <2> QED  BY <2>4 DEF Placed
  <1> QED  BY <1>1, <1>2, <1>3 DEF Placed

\* A step that leaves the queue alone.
LEMMA FillKept ==
    ASSUME FillInv, UNCHANGED <<from, size, headerTaskPool, headerTaskQueue, headerPendPool,
                                headerResults, headerProced>>,
           phase' # phase => phase' \in {"done", "failed", "invalid"} \/ {phase, phase'} \subseteq {"asking", "pushing"},
           (cont' \/ finished') <=> (cont \/ finished)
    PROVE  FillInv'
  <1>1. Wanted' = Wanted  BY DEF Wanted
  <1>2. ASSUME PlacesInv PROVE PlacesInv'
    <2>1. ASSUME NEW c \in Wanted PROVE Placed(c)'  BY <1>2, <2>1, PlaceKept DEF PlacesInv
    <2> QED  BY <1>1, <1>2, <2>1 DEF PlacesInv
  <1> QED  BY <1>1, <1>2 DEF FillInv

\* A batch that is asked of a peer is in one place before and after.
LEMMA TaskMoves ==
    ASSUME PlacesInv, FillInv, NEW p \in Peer, headerPendPool[p] # NoRequest
    PROVE  /\ headerPendPool[p] \in Wanted /\ headerTaskQueue[headerPendPool[p]] = 0
           /\ headerPendPool[p] \notin headerResults
           /\ \A q \in Peer : headerPendPool[q] = headerPendPool[p] => q = p
  <1>1. headerPendPool[p] \in Wanted  BY DEF PlacesInv
  <1>2. Asked(headerPendPool[p])  BY <1>1 DEF PlacesInv, Placed, Queued, Full
  <1> QED  BY <1>1, <1>2 DEF Asked

\* A request that is refused or has timed out goes back to the queue.
LEMMA RequestBack ==
    ASSUME FillInv, phase = "filling", phase' \in {"filling", "failed"},
           NEW p \in Peer, headerPendPool[p] # NoRequest,
           headerTaskQueue' = [headerTaskQueue EXCEPT ![headerPendPool[p]] = @ + 1],
           headerPendPool' = [headerPendPool EXCEPT ![p] = NoRequest],
           UNCHANGED <<from, size, headerTaskPool, headerResults, headerProced, cont, finished>>
    PROVE  FillInv'
  <1> USE DEF NoRequest
  <1>b. PICK b : b = headerPendPool[p]  OBVIOUS
  <1>0. \A c \in Batch : c # 0  BY SyncAssumption, SMT DEF SkeletonAssumption, Batch
  <1>1. PlacesInv /\ Wanted \subseteq Batch /\ size \in Nat \ {0}  BY DEF FillInv
  <1>2. /\ b \in Wanted /\ headerTaskQueue[b] = 0 /\ b \notin headerResults
        /\ \A q \in Peer : headerPendPool[q] = b => q = p
    BY <1>1, <1>b, TaskMoves
  <1>3. /\ headerTaskQueue'[b] = 1 /\ headerTaskQueue' \in [Batch -> Int]
        /\ \A c \in Batch \ {b} : headerTaskQueue'[c] = headerTaskQueue[c]
    BY <1>b, <1>1, <1>2, SMT DEF FillInv
  <1>4. /\ headerPendPool'[p] = 0 /\ \A q \in Peer \ {p} : headerPendPool'[q] = headerPendPool[q]
        /\ headerPendPool' \in [Peer -> Batch \cup {0}]
    BY DEF FillInv
  <1>5. Wanted' = Wanted  BY DEF Wanted
  <1>6. b # 0 /\ b = headerPendPool[p]  BY <1>b
  <1>7. Queued(b)'  BY <1>2, <1>3, <1>4, <1>6 DEF Queued
  <1>8. ASSUME NEW c \in Wanted, c # b PROVE Placed(c)'
    <2>1. headerTaskQueue'[c] = headerTaskQueue[c] /\ c # 0  BY <1>0, <1>1, <1>3, <1>8
    <2>2. \A q \in Peer : headerPendPool'[q] = c <=> headerPendPool[q] = c
      BY <1>4, <1>6, <1>8, <2>1
    <2>3. Placed(c)  BY <1>1, <1>8 DEF PlacesInv
    <2> QED  BY <2>1, <2>2, <2>3, PlaceKept
  <1>9. \A c \in Batch \ Wanted : headerTaskQueue'[c] = 0  BY <1>1, <1>2, <1>3 DEF PlacesInv
  <1>10. \A q \in Peer : headerPendPool'[q] # 0 => headerPendPool'[q] \in Wanted
    BY <1>1, <1>4 DEF PlacesInv
  <1>11. \A c \in Wanted' : Placed(c)'  BY <1>5, <1>7, <1>8 DEF Placed
  <1>12. PlacesInv'  BY <1>1, <1>5, <1>9, <1>10, <1>11 DEF PlacesInv
  <1> QED  BY <1>1, <1>3, <1>4, <1>5, <1>12 DEF FillInv

\* Every step keeps the batches in their places.
LEMMA NextFill ==
    ASSUME OrderInv, FillInv, [Next]_vars
    PROVE  FillInv'
  <1> USE DEF NoRequest
  <1>0. Batches \in Nat /\ MaxSkeletonSize \in Nat
    BY SyncAssumption DEF SkeletonAssumption
  <1>1. ASSUME NEW n \in 1 .. MaxSkeletonSize, NEW fit \in SUBSET Batch, ScheduleSkeleton(n, fit)
        PROVE  FillInv'
    <2>1. /\ phase = "asking" /\ phase' = "filling" /\ from + n - 1 <= Batches
          /\ size' = n /\ headerTaskPool' = from .. (from + n - 1)
          /\ headerTaskQueue' = [b \in Batch |-> IF b \in from .. (from + n - 1) THEN 1 ELSE 0]
          /\ headerResults' = {} /\ headerProced' = 0 /\ cont' = FALSE /\ finished' = FALSE
          /\ UNCHANGED <<from, headerPendPool>>
      BY <1>1 DEF ScheduleSkeleton
    <2>2. n \in Nat \ {0} /\ from \in Nat \ {0}  BY <1>0, SMT DEF OrderInv
    <2>3. Wanted' = from .. (from + n - 1)  BY <2>1 DEF Wanted
    <2>4. Wanted' \subseteq Batch /\ from \in Wanted'  BY <1>0, <2>1, <2>2, <2>3, SMT DEF Batch
    <2>5. \A p \in Peer : headerPendPool'[p] = 0  BY <2>1 DEF FillInv
    <2>6. headerTaskQueue' \in [Batch -> Int]  BY <2>1, SMT
    <2>7. headerPendPool' \in [Peer -> Batch \cup {0}]  BY <2>1 DEF FillInv
    <2>8. \A b \in Batch : b # 0  BY <1>0, SMT DEF Batch
    <2>9. ASSUME NEW b \in Wanted' PROVE Placed(b)'
      <3>1. headerTaskQueue'[b] = 1  BY <2>1, <2>3, <2>4, <2>9
      <3> QED  BY <2>1, <2>4, <2>5, <2>8, <2>9, <3>1 DEF Placed, Queued
    <2>10. ASSUME NEW b \in Batch \ Wanted' PROVE headerTaskQueue'[b] = 0  BY <2>1, <2>3, <2>10
    <2>11. PlacesInv'  BY <2>1, <2>3, <2>5, <2>9, <2>10 DEF PlacesInv
    <2>12. headerTaskPool' # {}  BY <2>1, <2>3, <2>4
    <2>13. from' .. (from' + headerProced' - 1) \subseteq headerResults'  BY <2>1, <2>2, SMT
    <2> QED  BY <2>1, <2>2, <2>4, <2>6, <2>7, <2>11, <2>12, <2>13 DEF FillInv
  <1>2. CASE SkeletonEnds  BY <1>2, FillKept DEF SkeletonEnds, queue
  <1>3. CASE Direct  BY <1>3, FillKept DEF Direct, queue
  <1>4. CASE HeadersEnd  BY <1>4, FillKept DEF HeadersEnd, queue
  <1>5. CASE MasterLost  BY <1>5, FillKept DEF MasterLost, queue
  <1>6. CASE Push
    <2>1. /\ phase = "pushing" /\ phase' = "asking"
          /\ UNCHANGED <<headerTaskQueue, headerPendPool>>
      BY <1>6 DEF Push, queue
    <2> QED  BY <2>1 DEF FillInv
  <1>7. CASE Process  BY <1>7, FillKept DEF Process, queue
  <1>8. CASE Continue
    <2>1. /\ phase = "filling" /\ cont /\ finished' = TRUE
          /\ UNCHANGED <<phase, from, size, headerTaskPool, headerTaskQueue, headerPendPool,
                         headerResults, headerProced>>
      BY <1>8 DEF Continue
    <2> QED  BY <2>1, FillKept
  <1>9. CASE Unavailable
    <2>1. /\ phase' = "invalid" /\ UNCHANGED <<headerTaskQueue, headerPendPool>>
      BY <1>9 DEF Unavailable
    <2> QED  BY <2>1 DEF FillInv
  <1>10. CASE Filled
    <2>1. /\ phase' \in {"pushing", "asking"} /\ ~ InFlight
          /\ UNCHANGED <<headerTaskQueue, headerPendPool>>
      BY <1>10 DEF Filled
    <2> QED  BY <2>1 DEF FillInv, InFlight
  <1>11. CASE Over  BY <1>11, FillKept DEF Over, vars, queue
  <1>12. ASSUME NEW p \in Peer, ReserveHeaders(p) PROVE FillInv'
    <2> DEFINE fit == Tasks \ headerPeerMiss[p]
               send == CHOOSE b \in fit : \A c \in fit : b <= c
    <2>1. /\ phase = "filling" /\ headerPendPool[p] = 0 /\ fit # {}
          /\ headerPendPool' = [headerPendPool EXCEPT ![p] = send]
          /\ headerTaskQueue' = [headerTaskQueue EXCEPT ![send] = @ - 1]
          /\ UNCHANGED <<phase, from, size, headerTaskPool, headerResults, headerProced, cont, finished>>
      BY <1>12 DEF ReserveHeaders
    <2>2. send \in fit
      <3>1. fit \in SUBSET Nat  BY <1>0, SMT DEF Tasks, Batch
      <3> HIDE DEF fit
      <3>2. \E b \in fit : \A c \in fit : b <= c  BY <2>1, <3>1, LeastNat
      <3> QED  BY <3>2
    <2>s. PICK b : b = send  OBVIOUS
    <2>t. /\ headerPendPool' = [headerPendPool EXCEPT ![p] = b]
          /\ headerTaskQueue' = [headerTaskQueue EXCEPT ![b] = @ - 1]
      BY <2>1, <2>s
    <2>3. b \in Batch /\ headerTaskQueue[b] > 0  BY <2>2, <2>s DEF Tasks
    <2> HIDE DEF send, fit
    <2>4. PlacesInv /\ Wanted \subseteq Batch  BY <2>1 DEF FillInv
    <2>5. b \in Wanted  BY <2>3, <2>4, SMT DEF PlacesInv
    <2>6. ~ Asked(b) /\ ~ Full(b)  BY <2>3, SMT DEF Asked, Full
    <2>7. Queued(b)  BY <2>4, <2>5, <2>6 DEF PlacesInv, Placed
    <2>8. /\ headerTaskQueue'[b] = 0 /\ headerTaskQueue' \in [Batch -> Int]
          /\ \A c \in Batch \ {b} : headerTaskQueue'[c] = headerTaskQueue[c]
      BY <2>t, <2>3, <2>7, SMT DEF FillInv, Queued
    <2>9. /\ headerPendPool'[p] = b /\ \A q \in Peer \ {p} : headerPendPool'[q] = headerPendPool[q]
          /\ headerPendPool' \in [Peer -> Batch \cup {0}]
      BY <2>t, <2>3 DEF FillInv
    <2>10. Wanted' = Wanted  BY <2>1 DEF Wanted
    <2>11. Asked(b)'
      <3>1. \A q \in Peer : headerPendPool'[q] = b => q = p  BY <2>7, <2>9 DEF Queued
      <3> QED  BY <2>1, <2>7, <2>8, <2>9, <3>1 DEF Asked, Queued
    <2>12. ASSUME NEW c \in Wanted, c # b PROVE Placed(c)'
      <3>1. headerTaskQueue'[c] = headerTaskQueue[c] /\ c # 0  BY <1>0, <2>4, <2>8, <2>12, SMT DEF Batch
      <3>2. \A q \in Peer : headerPendPool'[q] = c <=> headerPendPool[q] = c
        BY <2>1, <2>9, <2>12, <3>1
      <3>3. headerResults' = headerResults /\ Placed(c)  BY <2>1, <2>4, <2>12 DEF PlacesInv
      <3> QED  BY <3>1, <3>2, <3>3, PlaceKept
    <2>13. \A c \in Batch \ Wanted : headerTaskQueue'[c] = 0  BY <2>4, <2>5, <2>8 DEF PlacesInv
    <2>14. \A q \in Peer : headerPendPool'[q] # 0 => headerPendPool'[q] \in Wanted
      BY <2>4, <2>5, <2>9 DEF PlacesInv
    <2>15. PlacesInv'
      <3>1. \A c \in Wanted' : Placed(c)'  BY <2>10, <2>11, <2>12 DEF Placed
      <3> QED  BY <2>1, <2>4, <2>10, <2>13, <2>14, <3>1 DEF PlacesInv
    <2> QED  BY <2>1, <2>4, <2>8, <2>9, <2>10, <2>15 DEF FillInv
  <1>13. ASSUME NEW p \in Peer, DeliverRefused(p) PROVE FillInv'
    <2>1. /\ phase = "filling" /\ headerPendPool[p] # NoRequest
          /\ headerTaskQueue' = [headerTaskQueue EXCEPT ![headerPendPool[p]] = @ + 1]
          /\ headerPendPool' = [headerPendPool EXCEPT ![p] = NoRequest]
          /\ UNCHANGED <<phase, from, size, headerTaskPool, headerResults, headerProced, cont, finished>>
      BY <1>13 DEF DeliverRefused
    <2> QED  BY <2>1, RequestBack
  <1>14. ASSUME NEW p \in Peer, DeliverHeaders(p) PROVE FillInv'
    <2> DEFINE ready == Ready(headerResults')
    <2>b. PICK b : b = headerPendPool[p]  OBVIOUS
    <2>1. /\ phase = "filling" /\ b # 0
          /\ headerPendPool' = [headerPendPool EXCEPT ![p] = NoRequest]
          /\ headerResults' = headerResults \cup {b} /\ headerTaskPool' = headerTaskPool \ {b}
          /\ headerProced' = IF ready > 0 /\ headerProcCh = <<>> THEN headerProced + ready ELSE headerProced
          /\ cont' = (cont \/ headerTaskPool' = {})
          /\ UNCHANGED <<phase, from, size, headerTaskQueue, finished>>
      BY <1>14, <2>b DEF DeliverHeaders
    <2>2. PlacesInv /\ Wanted \subseteq Batch /\ size \in Nat \ {0}  BY <2>1 DEF FillInv
    <2>3. /\ b \in Wanted /\ headerTaskQueue[b] = 0 /\ b \notin headerResults
          /\ \A q \in Peer : headerPendPool[q] = b => q = p
      BY <2>b, <2>1, <2>2, TaskMoves
    <2>4. ready \in Nat /\ \A c \in (from + headerProced) .. (from + headerProced + ready - 1) : c \in headerResults'
      BY <1>14, DeliverReady
    <2> HIDE DEF ready
    <2>5. /\ headerPendPool'[p] = 0 /\ \A q \in Peer \ {p} : headerPendPool'[q] = headerPendPool[q]
          /\ headerPendPool' \in [Peer -> Batch \cup {0}]
      BY <2>1 DEF FillInv
    <2>6. Wanted' = Wanted  BY <2>1 DEF Wanted
    <2>7. Full(b)'
      <3>1. \A q \in Peer : headerPendPool'[q] # b
        <4>1. b # 0  BY <2>1
        <4> QED  BY <2>3, <2>5, <4>1
      <3> QED  BY <2>1, <2>3, <3>1 DEF Full
    <2>8. ASSUME NEW c \in Wanted, c # b PROVE Placed(c)'
      <3>1. c # 0  BY <1>0, <2>2, <2>8, SMT DEF Batch
      <3>2. headerPendPool[p] # c  BY <2>b, <2>8
      <3>3. \A q \in Peer : headerPendPool'[q] = c <=> headerPendPool[q] = c  BY <2>5, <3>1, <3>2
      <3>4. c \in headerResults' <=> c \in headerResults  BY <2>1, <2>8
      <3>5. headerTaskQueue'[c] = headerTaskQueue[c]  BY <2>1
      <3>6. Placed(c)  BY <2>2, <2>8 DEF PlacesInv
      <3> QED  BY <3>3, <3>4, <3>5, <3>6, PlaceKept
    <2>9. PlacesInv'
      <3>1. \A c \in Wanted' : Placed(c)'  BY <2>6, <2>7, <2>8 DEF Placed
      <3>2. \A q \in Peer : headerPendPool'[q] # 0 => headerPendPool'[q] \in Wanted
        BY <2>2, <2>5 DEF PlacesInv
      <3>3. headerResults' \subseteq Wanted /\ headerTaskPool' = Wanted \ headerResults'
        BY <2>1, <2>2, <2>3 DEF PlacesInv
      <3> QED  BY <2>1, <2>2, <2>6, <3>1, <3>2, <3>3 DEF PlacesInv
    <2>10. (headerTaskPool = {} <=> (cont \/ finished))'
      <3>1. headerTaskPool # {}  BY <2>2, <2>3 DEF PlacesInv
      <3>2. ~ cont /\ ~ finished  BY <2>1, <3>1 DEF FillInv
      <3> QED  BY <2>1, <3>2
    <2>11. from' .. (from' + headerProced' - 1) \subseteq headerResults'
      <3>1. /\ from .. (from + headerProced - 1) \subseteq headerResults'
            /\ from \in Nat /\ headerProced \in Nat
        BY <2>1 DEF FillInv, OrderInv
      <3>2. CASE headerProced' = headerProced  BY <2>1, <3>1, <3>2
      <3>3. CASE headerProced' = headerProced + ready
        <4>1. \A c \in from .. (from + (headerProced + ready) - 1) :
                 \/ c \in from .. (from + headerProced - 1)
                 \/ c \in (from + headerProced) .. (from + headerProced + ready - 1)
          BY <2>4, <3>1, SMT
        <4> QED  BY <2>1, <2>4, <3>1, <3>3, <4>1
      <3> QED  BY <2>1, <3>2, <3>3
    <2>12. headerTaskQueue' \in [Batch -> Int] /\ size' \in Nat \ {0} /\ Wanted' \subseteq Batch
      BY <2>1, <2>2, <2>6 DEF FillInv
    <2> QED  BY <2>1, <2>5, <2>9, <2>10, <2>11, <2>12 DEF FillInv
  <1>15. ASSUME NEW p \in Peer, ExpireHeaders(p) PROVE FillInv'
    <2>1. /\ phase = "filling" /\ headerPendPool[p] # NoRequest
          /\ headerTaskQueue' = [headerTaskQueue EXCEPT ![headerPendPool[p]] = @ + 1]
          /\ headerPendPool' = [headerPendPool EXCEPT ![p] = NoRequest]
          /\ phase' \in {"filling", "failed"}
          /\ UNCHANGED <<from, size, headerTaskPool, headerResults, headerProced, cont, finished>>
      BY <1>15 DEF ExpireHeaders
    <2> QED  BY <2>1, RequestBack
  <1>16. ASSUME NEW p \in Peer, Leave(p) \/ Join(p) PROVE FillInv'
    <2>1. UNCHANGED <<phase, from, size, headerTaskPool, headerTaskQueue, headerPendPool,
                      headerResults, headerProced, cont, finished>>
      BY <1>16 DEF Leave, Join, queue
    <2> QED  BY <2>1, FillKept
  <1>17. CASE UNCHANGED vars  BY <1>17, FillKept DEF vars, queue
  <1> QED
    BY <1>1, <1>2, <1>3, <1>4, <1>5, <1>6, <1>7, <1>8, <1>9, <1>10, <1>11, <1>12, <1>13, <1>14,
       <1>15, <1>16, <1>17 DEF Next

LEMMA SkeletonInvAlways == Spec => [](OrderInv /\ FillInv)
  <1>1. Init => OrderInv /\ FillInv
    <2> SUFFICES ASSUME Init PROVE OrderInv /\ FillInv  OBVIOUS
    <2>1. Run(1, 1 - 1 + 0) = <<>>  BY SMT DEF Run
    <2>2. <<>> \o <<>> = <<>> /\ <<>> \in Seq(Int)  BY SMT
    <2>3. OrderInv  BY <2>1, <2>2, SMT DEF Init, OrderInv
    <2>4. headerTaskQueue \in [Batch -> Int]  BY SMT DEF Init
    <2> QED  BY <2>3, <2>4 DEF Init, FillInv
  <1>2. OrderInv /\ FillInv /\ [Next]_vars => (OrderInv /\ FillInv)'  BY NextOrder, NextFill
  <1> QED  BY <1>1, <1>2, PTL DEF Spec

\* For any chain, peers and size of skeleton, whoever
\* fills a batch, times out or leaves, the processor is given every batch once
\* and in order, and early only what has been filled (DeliverHeaders).
THEOREM AlwaysGivenInOrder == Spec => []GivenInOrder
  <1>1. OrderInv /\ FillInv => GivenInOrder  BY DEF OrderInv, FillInv, GivenInOrder
  <1> QED  BY <1>1, SkeletonInvAlways, PTL

\* A batch of the skeleton is queued, asked of one peer, or filled, and the
\* fetch is told to end when all are (ReserveHeaders, DeliverHeaders,
\* ExpireHeaders).
LEMMA BatchesInOnePlace == Spec => []EachInOnePlace
  <1>1. ASSUME FillInv PROVE EachInOnePlace
    <2> SUFFICES ASSUME phase = "filling" PROVE EachInOnePlace  BY DEF EachInOnePlace
    <2>1. PlacesInv /\ (headerTaskPool = {} <=> (cont \/ finished))  BY <1>1 DEF FillInv
    <2>2. ASSUME NEW b \in Wanted
          PROVE  LET asked == Cardinality({p \in Peer : headerPendPool[p] = b})
                 IN  headerTaskQueue[b] + asked + (IF b \in headerResults THEN 1 ELSE 0) = 1
      <3> DEFINE S == {p \in Peer : headerPendPool[p] = b}
      <3>1. CASE Queued(b)
        <4>1. S = {}  BY <3>1 DEF Queued
        <4>2. Cardinality(S) = 0  BY <4>1, FS_EmptySet
        <4> QED  BY <3>1, <4>2, SMT DEF Queued
      <3>2. CASE Asked(b)
        <4>1. PICK p \in Peer : S = {p}  BY <3>2 DEF Asked
        <4>2. Cardinality(S) = 1  BY <4>1, FS_Singleton
        <4> QED  BY <3>2, <4>2, SMT DEF Asked
      <3>3. CASE Full(b)
        <4>1. S = {}  BY <3>3 DEF Full
        <4>2. Cardinality(S) = 0  BY <4>1, FS_EmptySet
        <4> QED  BY <3>3, <4>2, SMT DEF Full
      <3> QED  BY <2>1, <3>1, <3>2, <3>3 DEF PlacesInv, Placed
    <2>3. \A b \in Wanted : b \in headerTaskPool <=> b \notin headerResults  BY <2>1 DEF PlacesInv
    <2> QED  BY <2>1, <2>2, <2>3 DEF EachInOnePlace, Wanted
  <1> QED  BY <1>1, SkeletonInvAlways, PTL

-----------------------------------------------------------------------------
(* The queue of parts: counting *)

\* DownloadQueue counts with the Cardinality of FiniteSets.
LEMMA PartsCount ==
    ASSUME NEW S
    PROVE  Parts!Cardinality(S) = Cardinality(S) /\ (Parts!IsFiniteSet(S) <=> IsFiniteSet(S))
  BY DEF Parts!Cardinality, Cardinality, Parts!IsFiniteSet, IsFiniteSet

Below(S, b) == {c \in S : c < b}

LEMMA BelowCount ==
    ASSUME NEW S \in SUBSET Nat, IsFiniteSet(S), NEW b \in Nat
    PROVE  /\ Below(S, b) \in SUBSET S /\ IsFiniteSet(Below(S, b))
           /\ Cardinality(Below(S, b)) \in Nat /\ Cardinality(S) \in Nat
           /\ Cardinality(Below(S, b)) <= Cardinality(S)
  <1>1. Below(S, b) \in SUBSET S  BY DEF Below
  <1> QED  BY <1>1, FS_Subset, FS_CardinalityType

\* A smaller number has fewer numbers below it.
LEMMA BelowLess ==
    ASSUME NEW S \in SUBSET Nat, IsFiniteSet(S), NEW b \in S, NEW d \in Nat, b < d
    PROVE  Cardinality(Below(S, b)) < Cardinality(Below(S, d))
  <1>1. b \in Nat  OBVIOUS
  <1>2. \A c \in Below(S, b) : c \in Below(S, d)  BY <1>1, SMT DEF Below
  <1>3. b \in Below(S, d) /\ b \notin Below(S, b)  BY <1>1, SMT DEF Below
  <1>4. Below(S, b) # Below(S, d)  BY <1>3
  <1>5. IsFiniteSet(Below(S, d)) /\ Cardinality(Below(S, d)) \in Nat  BY BelowCount
  <1>6. Cardinality(Below(S, b)) \in Nat  BY <1>1, BelowCount
  <1>7. Cardinality(Below(S, b)) <= Cardinality(Below(S, d))
        /\ Cardinality(Below(S, b)) # Cardinality(Below(S, d))
    <2>1. Below(S, b) \in SUBSET Below(S, d)  BY <1>2
    <2> QED  BY <1>4, <1>5, <2>1, FS_Subset
  <1> QED  BY <1>5, <1>6, <1>7, SMT

Rank(S) == [b \in S |-> Cardinality(Below(S, b))]

\* The ranks of a set's members are different.
LEMMA RankInjection ==
    ASSUME NEW S \in SUBSET Nat, IsFiniteSet(S), NEW n \in Nat,
           \A b \in S : Cardinality(Below(S, b)) < n
    PROVE  /\ Rank(S) \in Injection(S, 0 .. (n - 1))
           /\ IsFiniteSet(0 .. (n - 1)) /\ Cardinality(0 .. (n - 1)) = n
  <1>1. ASSUME NEW b \in S PROVE Rank(S)[b] \in 0 .. (n - 1)
    <2>1. b \in Nat  OBVIOUS
    <2>2. Cardinality(Below(S, b)) \in Nat /\ Cardinality(Below(S, b)) < n  BY <2>1, BelowCount
    <2>3. Rank(S)[b] = Cardinality(Below(S, b))  BY DEF Rank
    <2> QED  BY <2>2, <2>3, SMT
  <1>2. ASSUME NEW b \in S, NEW d \in S, Rank(S)[b] = Rank(S)[d] PROVE b = d
    <2>1. b \in Nat /\ d \in Nat  OBVIOUS
    <2>2. Cardinality(Below(S, b)) \in Nat /\ Cardinality(Below(S, d)) \in Nat  BY <2>1, BelowCount
    <2>3. Cardinality(Below(S, b)) = Cardinality(Below(S, d))  BY <1>2 DEF Rank
    <2>4. ~(b < d)
      <3> SUFFICES ASSUME b < d PROVE FALSE  OBVIOUS
      <3>1. Cardinality(Below(S, b)) < Cardinality(Below(S, d))  BY <2>1, BelowLess
      <3> QED  BY <2>2, <2>3, <3>1, SMT
    <2>5. ~(d < b)
      <3> SUFFICES ASSUME d < b PROVE FALSE  OBVIOUS
      <3>1. Cardinality(Below(S, d)) < Cardinality(Below(S, b))  BY <2>1, BelowLess
      <3> QED  BY <2>2, <2>3, <3>1, SMT
    <2> QED  BY <2>1, <2>4, <2>5, SMT
  <1>3. Rank(S) \in [S -> 0 .. (n - 1)]
    <2>1. Rank(S) = [b \in S |-> Rank(S)[b]]  BY DEF Rank
    <2> QED  BY <1>1, <2>1
  <1>4. Rank(S) \in Injection(S, 0 .. (n - 1))  BY <1>2, <1>3 DEF Injection, IsInjective
  <1>5. 0 \in Int /\ n - 1 \in Int  BY SMT
  <1>6. IsFiniteSet(0 .. (n - 1))
        /\ Cardinality(0 .. (n - 1)) = IF 0 > n - 1 THEN 0 ELSE n - 1 - 0 + 1
    BY <1>5, FS_Interval
  <1>7. Cardinality(0 .. (n - 1)) = n  BY <1>6, SMT
  <1> QED  BY <1>4, <1>6, <1>7

\* A set whose members have fewer than n others below them has at most n.
LEMMA CountBound ==
    ASSUME NEW S \in SUBSET Nat, IsFiniteSet(S), NEW n \in Nat,
           \A b \in S : Cardinality(Below(S, b)) < n
    PROVE  Cardinality(S) <= n
  <1>1. /\ Rank(S) \in Injection(S, 0 .. (n - 1))
        /\ IsFiniteSet(0 .. (n - 1)) /\ Cardinality(0 .. (n - 1)) = n
    BY RankInjection
  <1>2. Cardinality(S) <= Cardinality(0 .. (n - 1))  BY <1>1, FS_Injection
  <1> QED  BY <1>1, <1>2

LEMMA InOrderIs ==
    ASSUME NEW S
    PROVE  Parts!InOrder(S) = [i \in 1 .. Cardinality(S) |->
                                 CHOOSE b \in S : Cardinality({c \in S : c < b}) = i - 1]
  BY DEF Parts!InOrder, Parts!Cardinality, Cardinality

\* A request lists the blocks it is made of.
LEMMA InOrderElements ==
    ASSUME NEW S \in SUBSET Nat, IsFiniteSet(S)
    PROVE  /\ Parts!InOrder(S) \in Seq(S) /\ Len(Parts!InOrder(S)) = Cardinality(S)
           /\ Parts!Elements(Parts!InOrder(S)) = S
  <1> DEFINE n == Cardinality(S)
             s == Parts!InOrder(S)
  <1>1. n \in Nat  BY FS_CardinalityType
  <1>2. ASSUME NEW b \in S PROVE Cardinality(Below(S, b)) < n
    <2>1. b \in Nat  OBVIOUS
    <2>2. Below(S, b) # S  BY <2>1, SMT DEF Below
    <2>3. /\ Below(S, b) \in SUBSET S /\ Cardinality(Below(S, b)) \in Nat
          /\ Cardinality(Below(S, b)) <= n
      BY <2>1, BelowCount
    <2>4. Cardinality(Below(S, b)) # n  BY <2>2, <2>3, FS_Subset
    <2> QED  BY <1>1, <2>3, <2>4, SMT
  <1>3. /\ Rank(S) \in Injection(S, 0 .. (n - 1))
        /\ IsFiniteSet(0 .. (n - 1)) /\ Cardinality(0 .. (n - 1)) = n
    BY <1>1, <1>2, RankInjection
  <1>4. Rank(S) \in Surjection(S, 0 .. (n - 1))  BY <1>3, FS_Injection
  <1>5. \A b \in S : Rank(S)[b] = Cardinality({c \in S : c < b})  BY DEF Rank, Below
  <1>6. \A b \in S : Rank(S)[b] \in 0 .. (n - 1)  BY <1>3 DEF Injection
  <1>7. ASSUME NEW i \in 1 .. n PROVE s[i] \in S /\ Rank(S)[s[i]] = i - 1
    <2>1. i - 1 \in 0 .. (n - 1)  BY <1>1, SMT
    <2>2. \E b \in S : Cardinality({c \in S : c < b}) = i - 1  BY <1>4, <1>5, <2>1 DEF Surjection
    <2>3. s[i] = CHOOSE b \in S : Cardinality({c \in S : c < b}) = i - 1  BY InOrderIs
    <2>4. s[i] \in S /\ Cardinality({c \in S : c < s[i]}) = i - 1  BY <2>2, <2>3
    <2> QED  BY <1>5, <2>4
  <1>8. s = [i \in 1 .. n |-> s[i]]
    <2> DEFINE e(i) == CHOOSE b \in S : Cardinality({c \in S : c < b}) = i - 1
    <2>1. s = [i \in 1 .. n |-> e(i)]  BY InOrderIs
    <2> HIDE DEF e, s
    <2> QED  BY <2>1
  <1>9. ASSUME NEW b \in S PROVE \E i \in 1 .. n : s[i] = b
    <2> DEFINE i == Rank(S)[b] + 1
    <2>1. i \in 1 .. n /\ i - 1 = Rank(S)[b]  BY <1>1, <1>6, SMT
    <2> HIDE DEF i
    <2>2. s[i] \in S /\ Rank(S)[s[i]] = Rank(S)[b]  BY <1>7, <2>1
    <2>3. s[i] = b  BY <1>3, <2>2 DEF Injection, IsInjective
    <2> QED  BY <2>1, <2>3
  <1> HIDE DEF s
  <1>10. s \in Seq(S) /\ Len(s) = n /\ DOMAIN s = 1 .. n
    <2>1. s \in [1 .. n -> S]  BY <1>7, <1>8
    <2> QED  BY <1>1, <2>1, SMT
  <1>11. Parts!Elements(s) = S  BY <1>7, <1>9, <1>10 DEF Parts!Elements
  <1> QED  BY <1>10, <1>11 DEF s
-----------------------------------------------------------------------------
(* The queue of parts: the invariant *)

Requested(k, p) == Parts!Elements(pendPool[k][p])
Open(b) == resultOffset <= b /\ b <= scheduled
Missing(b) == {j \in kinds : b \notin donePool[j]}

\* A part of an open block waits in the queue, is asked of one peer, or is
\* done; of another block, nothing is left.
PartQueued(k, b) ==
    /\ taskQueue[k][b] = 1 /\ b \notin donePool[k] /\ b \in taskPool[k]
    /\ \A p \in PartPeer : b \notin Requested(k, p)
PartAsked(k, b) ==
    /\ taskQueue[k][b] = 0 /\ b \notin donePool[k] /\ b \in taskPool[k]
    /\ \E p \in PartPeer : b \in Requested(k, p) /\ \A q \in PartPeer : b \in Requested(k, q) => q = p
    /\ resultCache[b] # Parts!Nil
PartDone(k, b) ==
    /\ taskQueue[k][b] = 0 /\ b \in donePool[k] /\ b \notin taskPool[k]
    /\ \A p \in PartPeer : b \notin Requested(k, p)
    /\ resultCache[b] # Parts!Nil
PartGone(k, b) ==
    /\ taskQueue[k][b] = 0 /\ b \notin donePool[k] /\ b \notin taskPool[k]
    /\ \A p \in PartPeer : b \notin Requested(k, p)
    /\ resultCache[b] = Parts!Nil

PartPlaced(k, b) ==
    IF Open(b) THEN PartQueued(k, b) \/ PartAsked(k, b) \/ PartDone(k, b) ELSE PartGone(k, b)

\* A block's slot counts what it misses, and the blocks before it have slots.
SlotCounts(b) ==
    resultCache[b] # Parts!Nil =>
      /\ resultCache[b] = Cardinality(Missing(b))
      /\ \A c \in resultOffset .. b : resultCache[c] # Parts!Nil

PartsType ==
    /\ kinds \in {Parts!AllKinds, {"body"}}
    /\ scheduled \in 0 .. Blocks
    /\ taskPool \in [Parts!AllKinds -> SUBSET Parts!Block]
    /\ taskQueue \in [Parts!AllKinds -> [Parts!Block -> Int]]
    /\ pendPool \in [Parts!AllKinds -> [PartPeer -> Seq(Parts!Block)]]
    /\ \A k \in Parts!AllKinds, p \in PartPeer : Len(pendPool[k][p]) <= MaxCount
    /\ donePool \in [Parts!AllKinds -> SUBSET Parts!Block]
    /\ resultCache \in [Parts!Block -> Int]
    /\ resultOffset \in 1 .. (scheduled + 1)
    /\ limit \in 1 .. blockCacheItems

PartsInv ==
    /\ PartsType
    /\ givenUp = FALSE
    /\ \A k \in kinds, b \in Parts!Block : PartPlaced(k, b)
    /\ \A b \in Parts!Block : SlotCounts(b)
    /\ waiting => Parts!Processable = {}

LEMMA SeqSubset ==
    ASSUME NEW S, NEW T, S \subseteq T, NEW s \in Seq(S)
    PROVE  s \in Seq(T)
  BY SMT

LEMMA OneLess ==
    ASSUME NEW S, IsFiniteSet(S), NEW k \in S
    PROVE  Cardinality(S \ {k}) = Cardinality(S) - 1
  BY FS_RemoveElement

LEMMA NoElements == Parts!Elements(<<>>) = {}
  BY SMT DEF Parts!Elements

LEMMA ElementsFacts ==
    ASSUME NEW T
    PROVE  /\ Parts!Elements(<<>>) = {}
           /\ <<>> \in Seq(T) /\ Len(<<>>) = 0
           /\ \A s \in Seq(T) : Parts!Elements(s) \subseteq T
           /\ \A s \in Seq(T), n \in Nat :
                n <= Len(s) => Parts!Elements(SubSeq(s, 1, n)) \subseteq Parts!Elements(s)
  <1>1. Parts!Elements(<<>>) = {}  BY SMT DEF Parts!Elements
  <1>2. <<>> \in Seq(T) /\ Len(<<>>) = 0  BY SMT
  <1>3. \A s \in Seq(T) : Parts!Elements(s) \subseteq T  BY SMT DEF Parts!Elements
  <1>4. ASSUME NEW s \in Seq(T), NEW n \in Nat, n <= Len(s), NEW x \in Parts!Elements(SubSeq(s, 1, n))
        PROVE  x \in Parts!Elements(s)
    BY <1>4, SMT DEF Parts!Elements
  <1> QED  BY <1>1, <1>2, <1>3, <1>4

\* The kinds are a finite set that is not empty, and so is what is missing.
LEMMA KindsFinite ==
    ASSUME PartsType
    PROVE  /\ IsFiniteSet(kinds) /\ Cardinality(kinds) \in Nat /\ Cardinality(kinds) # 0
           /\ kinds \subseteq Parts!AllKinds
           /\ \A K \in SUBSET kinds : IsFiniteSet(K) /\ Cardinality(K) \in Nat
  <1>1. kinds = {"body", "receipt"} \/ kinds = {"body"}  BY DEF PartsType, Parts!AllKinds
  <1>2. IsFiniteSet({"body"}) /\ IsFiniteSet({"body"} \cup {"receipt"})
    BY FS_Singleton, FS_AddElement
  <1>3. {"body"} \cup {"receipt"} = {"body", "receipt"}  OBVIOUS
  <1>4. IsFiniteSet(kinds)  BY <1>1, <1>2, <1>3
  <1>5. kinds # {}  BY <1>1
  <1>6. Cardinality(kinds) # 0  BY <1>4, <1>5, FS_EmptySet
  <1>7. \A K \in SUBSET kinds : IsFiniteSet(K)  BY <1>4, FS_Subset
  <1>8. kinds \subseteq Parts!AllKinds  BY <1>1 DEF Parts!AllKinds
  <1> QED  BY <1>4, <1>6, <1>7, <1>8, FS_CardinalityType

LEMMA PartsStarts == Parts!Init => PartsInv
  <1> SUFFICES ASSUME Parts!Init PROVE PartsInv  OBVIOUS
  <1>1. PartsType
    <2>1. /\ kinds \in {Parts!AllKinds, {"body"}} /\ scheduled = 0 /\ resultOffset = 1
          /\ limit = blockCacheItems /\ blockCacheItems \in Nat \ {0} /\ Blocks \in Nat /\ MaxCount \in Nat
      BY SyncAssumption DEF Parts!Init, Parts!DownloadQueueAssumption
    <2>2. scheduled \in 0 .. Blocks /\ resultOffset \in 1 .. (scheduled + 1) /\ limit \in 1 .. blockCacheItems
      BY <2>1, SMT
    <2>3. /\ taskPool \in [Parts!AllKinds -> SUBSET Parts!Block]
          /\ donePool \in [Parts!AllKinds -> SUBSET Parts!Block]
      BY DEF Parts!Init
    <2>4. /\ taskQueue \in [Parts!AllKinds -> [Parts!Block -> Int]]
          /\ resultCache \in [Parts!Block -> Int]
      BY SMT DEF Parts!Init, Parts!Nil
    <2>5. pendPool \in [Parts!AllKinds -> [PartPeer -> Seq(Parts!Block)]]
      BY ElementsFacts DEF Parts!Init
    <2>6. \A k \in Parts!AllKinds, p \in PartPeer : Len(pendPool[k][p]) <= MaxCount
      <3> TAKE k \in Parts!AllKinds, p \in PartPeer
      <3>1. pendPool[k][p] = <<>>  BY DEF Parts!Init
      <3> QED  BY <2>1, <3>1, SMT
    <2> QED  BY <2>1, <2>2, <2>3, <2>4, <2>5, <2>6 DEF PartsType
  <1>2. \A b \in Parts!Block : SlotCounts(b)  BY DEF SlotCounts, Parts!Init
  <1>3. ASSUME NEW k \in kinds, NEW b \in Parts!Block PROVE PartPlaced(k, b)
    <2>1. k \in Parts!AllKinds  BY <1>1, KindsFinite
    <2>2. ~Open(b)  BY SMT DEF Open, Parts!Init, Parts!Block
    <2>3. \A p \in PartPeer : b \notin Requested(k, p)
      <3> TAKE p \in PartPeer
      <3>1. pendPool[k][p] = <<>>  BY <2>1 DEF Parts!Init
      <3> QED  BY <3>1, ElementsFacts DEF Requested
    <2>4. PartGone(k, b)  BY <2>1, <2>3 DEF PartGone, Parts!Init
    <2> QED  BY <2>2, <2>4 DEF PartPlaced
  <1>4. givenUp = FALSE /\ ~waiting  BY DEF Parts!Init
  <1> QED  BY <1>1, <1>2, <1>3, <1>4 DEF PartsInv

\* What an open block is: its parts are queued, asked for or done.
LEMMA TaskIsQueued ==
    ASSUME PartsInv, NEW k \in kinds, NEW b \in Parts!Block
    PROVE  /\ b \in Parts!Tasks(k) => PartQueued(k, b) /\ Open(b)
           /\ PartQueued(k, b) => b \in Parts!Tasks(k)
  <1>1. PartPlaced(k, b)  BY DEF PartsInv
  <1>2. (b \in Parts!Tasks(k)) <=> taskQueue[k][b] > 0  BY DEF Parts!Tasks
  <1>3. ASSUME taskQueue[k][b] = 0 PROVE ~(taskQueue[k][b] > 0)  BY <1>3, SMT
  <1>4. ASSUME taskQueue[k][b] = 1 PROVE taskQueue[k][b] > 0  BY <1>4, SMT
  <1> QED  BY <1>1, <1>2, <1>3, <1>4 DEF PartPlaced, PartQueued, PartAsked, PartDone, PartGone
-----------------------------------------------------------------------------
(* The queue of parts: reservations stay within the cache *)

LEMMA UnionBound ==
    ASSUME NEW Q, NEW A, NEW D, NEW W, IsFiniteSet(Q), IsFiniteSet(A), IsFiniteSet(D),
           W \subseteq (Q \cup A) \cup D
    PROVE  Cardinality(W) <= Cardinality(Q) + Cardinality(A) + Cardinality(D)
  <1>1. /\ IsFiniteSet(Q \cup A)
        /\ Cardinality(Q \cup A) = Cardinality(Q) + Cardinality(A) - Cardinality(Q \cap A)
    BY FS_Union
  <1>2. /\ IsFiniteSet((Q \cup A) \cup D)
        /\ Cardinality((Q \cup A) \cup D)
             = Cardinality(Q \cup A) + Cardinality(D) - Cardinality((Q \cup A) \cap D)
    BY <1>1, FS_Union
  <1>3. IsFiniteSet(Q \cap A) /\ IsFiniteSet((Q \cup A) \cap D)  BY <1>1, FS_Intersection
  <1>4. /\ Cardinality(Q) \in Nat /\ Cardinality(A) \in Nat /\ Cardinality(D) \in Nat
        /\ Cardinality(Q \cap A) \in Nat /\ Cardinality((Q \cup A) \cap D) \in Nat
    BY <1>3, FS_CardinalityType
  <1>5. W \in SUBSET ((Q \cup A) \cup D)  OBVIOUS
  <1>6. IsFiniteSet(W) /\ Cardinality(W) <= Cardinality((Q \cup A) \cup D)  BY <1>2, <1>5, FS_Subset
  <1>7. Cardinality(W) \in Nat  BY <1>6, FS_CardinalityType
  <1> QED  BY <1>1, <1>2, <1>4, <1>6, <1>7, SMT

LEMMA BlocksFinite ==
    /\ IsFiniteSet(Parts!Block) /\ Parts!Block \in SUBSET Nat
    /\ \A S \in SUBSET Parts!Block :
         IsFiniteSet(S) /\ Cardinality(S) \in Nat /\ S \in SUBSET Nat
  <1>1. Blocks \in Nat  BY SyncAssumption DEF Parts!DownloadQueueAssumption
  <1>2. 1 \in Int /\ Blocks \in Int  BY <1>1, SMT
  <1>3. IsFiniteSet(Parts!Block)  BY <1>2, FS_Interval DEF Parts!Block
  <1>4. Parts!Block \in SUBSET Nat  BY <1>1, SMT DEF Parts!Block
  <1>5. \A S \in SUBSET Parts!Block : IsFiniteSet(S)  BY <1>3, FS_Subset
  <1> QED  BY <1>3, <1>4, <1>5, FS_CardinalityType

\* The entries of requests that resultSlots counts.
Entries(k) ==
    {pi \in {<<p, i>> : p \in PartPeer, i \in 1 .. MaxCount} :
       /\ pi[2] <= Len(pendPool[k][pi[1]])
       /\ pendPool[k][pi[1]][pi[2]] < resultOffset + limit}

LEMMA EntriesFinite ==
    ASSUME NEW k
    PROVE  IsFiniteSet(Entries(k))
  <1>1. IsFiniteSet(PartPeer) /\ MaxCount \in Nat
    BY SyncAssumption, PartsCount DEF Parts!DownloadQueueAssumption
  <1>2. 1 \in Int /\ MaxCount \in Int  BY <1>1, SMT
  <1>3. IsFiniteSet(1 .. MaxCount)  BY <1>2, FS_Interval
  <1>4. IsFiniteSet(PartPeer \X (1 .. MaxCount))  BY <1>1, <1>3, FS_Product
  <1>5. Entries(k) \in SUBSET (PartPeer \X (1 .. MaxCount))  BY SMT DEF Entries
  <1> QED  BY <1>4, <1>5, FS_Subset

\* Every part asked for within the limit is an entry.
LEMMA AskedBound ==
    ASSUME PartsInv, NEW k \in kinds, NEW A \in SUBSET Parts!Block,
           \A c \in A : PartAsked(k, c) /\ c < resultOffset + limit
    PROVE  Cardinality(A) <= Cardinality(Entries(k))
  <1>1. k \in Parts!AllKinds  BY KindsFinite DEF PartsInv
  <1> DEFINE at(pi) == pendPool[k][pi[1]][pi[2]]
  <1>2. ASSUME NEW c \in A PROVE \E pi \in Entries(k) : at(pi) = c
    <2>1. PICK p \in PartPeer : c \in Requested(k, p)  BY <1>2 DEF PartAsked
    <2>2. PICK i \in DOMAIN pendPool[k][p] : pendPool[k][p][i] = c
      BY <2>1 DEF Requested, Parts!Elements
    <2>3. pendPool[k][p] \in Seq(Parts!Block) /\ Len(pendPool[k][p]) <= MaxCount /\ MaxCount \in Nat
      <3>1. PartsType  BY DEF PartsInv
      <3>2. pendPool[k][p] \in Seq(Parts!Block)  BY <1>1, <3>1 DEF PartsType
      <3>3. Len(pendPool[k][p]) <= MaxCount  BY <1>1, <3>1 DEF PartsType
      <3>4. MaxCount \in Nat  BY SyncAssumption DEF Parts!DownloadQueueAssumption
      <3> QED  BY <3>2, <3>3, <3>4
    <2>4. i \in 1 .. MaxCount /\ i <= Len(pendPool[k][p])  BY <2>3, SMT
    <2>5. <<p, i>>[1] = p /\ <<p, i>>[2] = i  OBVIOUS
    <2>6. <<p, i>> \in Entries(k)  BY <1>2, <2>2, <2>4, <2>5, SMT DEF Entries
    <2> QED  BY <2>2, <2>5, <2>6
  <1> DEFINE e(c) == CHOOSE pi \in Entries(k) : at(pi) = c
             f == [c \in A |-> e(c)]
  <1> HIDE DEF at
  <1>3. \A c \in A : e(c) \in Entries(k) /\ at(e(c)) = c  BY <1>2
  <1> HIDE DEF e
  <1>4. f \in [A -> Entries(k)]  BY <1>3
  <1>5. \A c, d \in A : f[c] = f[d] => c = d  BY <1>3
  <1>6. f \in Injection(A, Entries(k))  BY <1>4, <1>5 DEF Injection, IsInjective
  <1> QED  BY <1>6, EntriesFinite, FS_Injection

\* What reserveHeaders takes off the queue are the first tasks, and it stays
\* within the cache: the tasks before one, the parts asked for and the leading
\* ones that are done would otherwise fill the cache up to the limit.
LEMMA TakenIsWithin ==
    ASSUME PartsInv, NEW k \in kinds, NEW p \in PartPeer, NEW count \in Nat,
           NEW b \in Parts!Taken(k, p, count)
    PROVE  /\ b \in Parts!Tasks(k) /\ b \in Parts!Block
           /\ b - resultOffset < blockCacheItems
           /\ \A c \in Parts!Tasks(k) : c < b => c \in Parts!Taken(k, p, count)
  <1> DEFINE tasks_ == Parts!Tasks(k)
             sent == Parts!Sent(k, p)
  <1>1. b \in tasks_ /\ tasks_ \in SUBSET Parts!Block /\ sent \in SUBSET tasks_
    BY DEF Parts!Taken, Parts!Tasks, Parts!Sent
  <1>2. b \in Parts!Block /\ b \in Nat  BY <1>1, BlocksFinite
  <1>3. /\ IsFiniteSet(tasks_) /\ tasks_ \in SUBSET Nat
        /\ IsFiniteSet(sent) /\ sent \in SUBSET Nat
    BY <1>1, BlocksFinite
  <1>4. /\ Cardinality(Below(tasks_, b)) < Parts!resultSlots(k)
        /\ Cardinality(Below(sent, b)) < count
    BY PartsCount DEF Parts!Taken, Below
  <1>5. PartsType /\ k \in Parts!AllKinds  BY KindsFinite DEF PartsInv
  <1>6. Parts!resultSlots(k)
          = limit - Cardinality(Parts!Leading \cap donePool[k]) - Cardinality(Entries(k))
    <2>1. Parts!resultSlots(k)
            = limit - Parts!Cardinality(Parts!Leading \cap donePool[k]) - Parts!Cardinality(Entries(k))
      BY SMT DEF Parts!resultSlots, Entries
    <2>2. /\ Parts!Cardinality(Parts!Leading \cap donePool[k]) = Cardinality(Parts!Leading \cap donePool[k])
          /\ Parts!Cardinality(Entries(k)) = Cardinality(Entries(k))
      BY PartsCount
    <2> QED  BY <2>1, <2>2
  <1>7. /\ IsFiniteSet(Parts!Leading \cap donePool[k])
        /\ Cardinality(Parts!Leading \cap donePool[k]) \in Nat
    <2>1. Parts!Leading \cap donePool[k] \in SUBSET Parts!Block  BY DEF Parts!Leading
    <2> QED  BY <2>1, BlocksFinite
  <1>8. IsFiniteSet(Entries(k)) /\ Cardinality(Entries(k)) \in Nat
    BY EntriesFinite, FS_CardinalityType
  <1>9. limit \in 1 .. blockCacheItems /\ blockCacheItems \in Nat /\ resultOffset \in Nat \ {0}
        /\ scheduled \in 0 .. Blocks /\ Blocks \in Nat
    <2>1. /\ limit \in 1 .. blockCacheItems /\ resultOffset \in 1 .. (scheduled + 1)
          /\ scheduled \in 0 .. Blocks /\ Blocks \in Nat /\ blockCacheItems \in Nat
      BY <1>5, SyncAssumption DEF PartsType, Parts!DownloadQueueAssumption
    <2> QED  BY <2>1, SMT
  <1> HIDE DEF tasks_, sent
  <1>10. b < resultOffset + limit
    <2> SUFFICES ASSUME ~(b < resultOffset + limit) PROVE FALSE  OBVIOUS
    <2> DEFINE W == resultOffset .. (resultOffset + limit - 1)
               A == {c \in W : PartAsked(k, c)}
               Q == Below(tasks_, b)
               D == Parts!Leading \cap donePool[k]
    <2>1. Cardinality(W) = limit
      <3>1. PICK last \in Int : last = resultOffset + limit - 1  BY <1>9, SMT
      <3>2. resultOffset \in Int  BY <1>9, SMT
      <3>3. Cardinality(resultOffset .. last)
              = IF resultOffset > last THEN 0 ELSE last - resultOffset + 1
        BY <3>2, FS_Interval
      <3>4. Cardinality(resultOffset .. last) = limit  BY <1>9, <3>1, <3>3, SMT
      <3> QED  BY <3>1, <3>4
    <2>2. b <= scheduled  BY <1>1, <1>2, TaskIsQueued DEF Open, tasks_
    <2>3. \A c \in W : c \in Parts!Block /\ Open(c) /\ c < b /\ c < resultOffset + limit
      BY <1>2, <1>9, <2>2, SMT DEF Parts!Block, Open
    <2>4. A \in SUBSET Parts!Block  BY <2>3
    <2>5. ASSUME NEW c \in W PROVE c \in (Q \cup A) \cup D
      <3>1. c \in Parts!Block /\ Open(c) /\ c < b /\ c < resultOffset + limit  BY <2>3
      <3>2. PartQueued(k, c) \/ PartAsked(k, c) \/ PartDone(k, c)  BY <3>1 DEF PartsInv, PartPlaced
      <3>3. CASE PartQueued(k, c)
        <4>1. c \in tasks_  BY <3>1, <3>3, TaskIsQueued DEF tasks_
        <4> QED  BY <3>1, <4>1 DEF Below
      <3>4. CASE PartAsked(k, c)  BY <3>4
      <3>5. CASE PartDone(k, c)
        <4>1. c \in donePool[k] /\ resultCache[c] # Parts!Nil  BY <3>5 DEF PartDone
        <4>2. \A d \in resultOffset .. c : resultCache[d] # Parts!Nil
          BY <3>1, <4>1 DEF PartsInv, SlotCounts
        <4>3. c \in Parts!Leading  BY <3>1, <4>2 DEF Parts!Leading, Open
        <4> QED  BY <4>1, <4>3
      <3> QED  BY <3>2, <3>3, <3>4, <3>5
    <2>6. /\ IsFiniteSet(Q) /\ Cardinality(Q) \in Nat
          /\ IsFiniteSet(A) /\ Cardinality(A) \in Nat
      BY <1>2, <1>3, <2>4, BelowCount, BlocksFinite
    <2>7. Cardinality(A) <= Cardinality(Entries(k))  BY <2>3, <2>4, AskedBound
    <2>8. W \subseteq (Q \cup A) \cup D  BY <2>5
    <2> HIDE DEF W, A, Q, D
    <2>9. Cardinality(W) <= Cardinality(Q) + Cardinality(A) + Cardinality(D)
      BY <1>7, <2>6, <2>8, UnionBound DEF D
    <2>10. Cardinality(Q) < limit - Cardinality(D) - Cardinality(Entries(k))
           /\ Cardinality(D) \in Nat
      BY <1>4, <1>6, <1>7 DEF Q, D
    <2> QED  BY <1>8, <1>9, <2>1, <2>6, <2>7, <2>9, <2>10, SMT
  <1>11. b - resultOffset < blockCacheItems  BY <1>2, <1>9, <1>10, SMT
  <1>12. ASSUME NEW c \in tasks_, c < b PROVE c \in Parts!Taken(k, p, count)
    <2>1. c \in Nat /\ resultOffset \in Nat  BY <1>3, <1>9
    <2>2. /\ Cardinality(Below(tasks_, c)) < Cardinality(Below(tasks_, b))
          /\ Cardinality(Below(tasks_, c)) \in Nat /\ Cardinality(Below(tasks_, b)) \in Nat
      BY <1>2, <1>3, <1>12, <2>1, BelowLess, BelowCount
    <2>3. Cardinality(Below(sent, c)) <= Cardinality(Below(sent, b))
      <3>1. \A d \in Below(sent, c) : d \in Below(sent, b)  BY <1>2, <1>3, <1>12, <2>1, SMT DEF Below
      <3>2. Below(sent, c) \in SUBSET Below(sent, b)  BY <3>1
      <3>3. IsFiniteSet(Below(sent, b))  BY <1>2, <1>3, BelowCount
      <3> QED  BY <3>2, <3>3, FS_Subset
    <2>4. Cardinality(Below(sent, c)) \in Nat /\ Cardinality(Below(sent, b)) \in Nat
      BY <1>2, <1>3, <2>1, BelowCount
    <2>5. Parts!resultSlots(k) \in Int  BY <1>6, <1>7, <1>8, <1>9, SMT
    <2>6. Cardinality(Below(tasks_, c)) < Parts!resultSlots(k)  BY <1>4, <2>2, <2>5, SMT
    <2>7. Cardinality(Below(sent, c)) < count  BY <1>4, <2>3, <2>4, SMT
    <2> QED  BY <1>12, <2>6, <2>7, PartsCount DEF Parts!Taken, Below, tasks_, sent
  <1> QED  BY <1>1, <1>2, <1>11, <1>12 DEF tasks_
-----------------------------------------------------------------------------
(* The queue of parts: every step keeps the invariant *)

\* A part that a step leaves where it is.
LEMMA PartStays ==
    ASSUME NEW k, NEW b, PartPlaced(k, b),
           taskQueue'[k][b] = taskQueue[k][b],
           (b \in donePool'[k]) <=> (b \in donePool[k]), (b \in taskPool'[k]) <=> (b \in taskPool[k]),
           \A p \in PartPeer : (b \in Requested(k, p)') <=> (b \in Requested(k, p)),
           Open(b)' <=> Open(b),
           (resultCache'[b] = Parts!Nil) => (resultCache[b] = Parts!Nil),
           ~Open(b) => resultCache'[b] = resultCache[b]
    PROVE  PartPlaced(k, b)'
  <1>1. CASE Open(b)
    <2>1. CASE PartQueued(k, b)
      <3>1. PartQueued(k, b)'  BY <2>1 DEF PartQueued
      <3> QED  BY <1>1, <3>1 DEF PartPlaced
    <2>2. CASE PartAsked(k, b)
      <3>1. PICK p \in PartPeer : b \in Requested(k, p) /\ \A q \in PartPeer : b \in Requested(k, q) => q = p
        BY <2>2 DEF PartAsked
      <3>2. b \in Requested(k, p)' /\ \A q \in PartPeer : b \in Requested(k, q)' => q = p  BY <3>1
      <3>3. PartAsked(k, b)'  BY <2>2, <3>2 DEF PartAsked
      <3> QED  BY <1>1, <3>3 DEF PartPlaced
    <2>3. CASE PartDone(k, b)
      <3>1. PartDone(k, b)'  BY <2>3 DEF PartDone
      <3> QED  BY <1>1, <3>1 DEF PartPlaced
    <2> QED  BY <1>1, <2>1, <2>2, <2>3 DEF PartPlaced
  <1>2. CASE ~Open(b)
    <2>1. PartGone(k, b)'  BY <1>2 DEF PartPlaced, PartGone
    <2> QED  BY <1>2, <2>1 DEF PartPlaced
  <1> QED  BY <1>1, <1>2

\* What a reservation does: to the tasks it takes, to the request, to the slots.
LEMMA ReserveEffect ==
    ASSUME PartsInv, NEW k \in Parts!AllKinds, NEW p \in PartPeer, NEW count \in 1 .. MaxCount,
           Parts!Reserve(k, p, count)
    PROVE  \E T, noops, send \in SUBSET Parts!Block :
             /\ noops \subseteq T /\ send \subseteq T /\ noops \cap send = {}
             /\ T = Parts!Taken(k, p, count)
             /\ \A b \in T : PartQueued(k, b) /\ Open(b)
             /\ taskQueue' = [taskQueue EXCEPT ![k] =
                                [b \in Parts!Block |-> @[b] - IF b \in noops \cup send THEN 1 ELSE 0]]
             /\ taskPool' = [taskPool EXCEPT ![k] = @ \ noops]
             /\ donePool' = [donePool EXCEPT ![k] = @ \cup noops]
             /\ pendPool' = [pendPool EXCEPT ![k][p] = Parts!InOrder(send)]
             /\ Parts!InOrder(send) \in Seq(Parts!Block) /\ Len(Parts!InOrder(send)) <= MaxCount
             /\ Parts!Elements(Parts!InOrder(send)) = send
             /\ resultCache' = [b \in Parts!Block |->
                  (IF b \in T /\ resultCache[b] = Parts!Nil THEN Cardinality(kinds) ELSE resultCache[b])
                  - IF b \in noops THEN 1 ELSE 0]
             /\ waiting' = (waiting /\ noops = {})
             /\ givenUp' = (\E b \in T : b - resultOffset >= blockCacheItems)
  <1>1. PICK T : T = Parts!Taken(k, p, count)  OBVIOUS
  <1>2. PICK noops : noops = T \cap Noop[k]  OBVIOUS
  <1>3. PICK send : send = T \cap Parts!Sent(k, p)  OBVIOUS
  <1>4. k \in kinds  BY DEF Parts!Reserve
  <1>5. T \subseteq Parts!Tasks(k) /\ T \in SUBSET Parts!Block
    BY <1>1 DEF Parts!Taken, Parts!Tasks
  <1>6. noops \in SUBSET Parts!Block /\ send \in SUBSET Parts!Block /\ noops \subseteq T /\ send \subseteq T
    BY <1>2, <1>3, <1>5
  <1>7. noops \cap send = {}  BY <1>2, <1>3 DEF Parts!Sent
  <1>8. \A b \in T : PartQueued(k, b) /\ Open(b)  BY <1>4, <1>5, TaskIsQueued
  <1>9. /\ Parts!InOrder(send) \in Seq(send) /\ Len(Parts!InOrder(send)) = Cardinality(send)
        /\ Parts!Elements(Parts!InOrder(send)) = send /\ IsFiniteSet(send) /\ send \in SUBSET Nat
        /\ Cardinality(send) \in Nat
    BY <1>6, BlocksFinite, InOrderElements
  <1>10. Cardinality(send) <= count
    <2>1. ASSUME NEW b \in send PROVE Cardinality(Below(send, b)) < count
      <3> DEFINE all == Parts!Sent(k, p)
      <3>1. all \in SUBSET Parts!Block /\ b \in Nat  BY <1>9 DEF Parts!Sent, Parts!Tasks
      <3>2. IsFiniteSet(all) /\ all \in SUBSET Nat  BY <3>1, BlocksFinite
      <3>3. Cardinality(Below(all, b)) < count  BY <1>1, <1>3, PartsCount DEF Parts!Taken, Below
      <3>4. Below(send, b) \in SUBSET Below(all, b)  BY <1>3 DEF Below
      <3> HIDE DEF all
      <3>5. IsFiniteSet(Below(all, b)) /\ Cardinality(Below(all, b)) \in Nat  BY <3>1, <3>2, BelowCount
      <3>6. Cardinality(Below(send, b)) <= Cardinality(Below(all, b))  BY <3>4, <3>5, FS_Subset
      <3>7. Cardinality(Below(send, b)) \in Nat  BY <1>9, <3>1, BelowCount
      <3> QED  BY <3>3, <3>5, <3>6, <3>7, SMT
    <2>2. count \in Nat  BY SMT
    <2> QED  BY <1>9, <2>1, <2>2, CountBound
  <1>11. MaxCount \in Nat  BY SyncAssumption DEF Parts!DownloadQueueAssumption
  <1>12. Len(Parts!InOrder(send)) <= MaxCount  BY <1>9, <1>10, <1>11, SMT
  <1>13. Parts!InOrder(send) \in Seq(Parts!Block)  BY <1>6, <1>9, SeqSubset
  <1>14. /\ taskQueue' = [taskQueue EXCEPT ![k] =
                            [b \in Parts!Block |-> @[b] - IF b \in noops \cup send THEN 1 ELSE 0]]
         /\ taskPool' = [taskPool EXCEPT ![k] = @ \ noops]
         /\ donePool' = [donePool EXCEPT ![k] = @ \cup noops]
         /\ pendPool' = [pendPool EXCEPT ![k][p] = Parts!InOrder(send)]
         /\ resultCache' = [b \in Parts!Block |->
              (IF b \in T /\ resultCache[b] = Parts!Nil THEN Parts!Cardinality(kinds) ELSE resultCache[b])
              - IF b \in noops THEN 1 ELSE 0]
         /\ waiting' = (waiting /\ noops = {})
         /\ givenUp' = (\E b \in T : b - resultOffset >= blockCacheItems)
    BY <1>1, <1>2, <1>3 DEF Parts!Reserve
  <1>15. Parts!Cardinality(kinds) = Cardinality(kinds)  BY PartsCount
  <1> QED  BY <1>1, <1>5, <1>6, <1>7, <1>8, <1>9, <1>12, <1>13, <1>14, <1>15

\* A reservation gives every task it takes a slot, in order.
LEMMA ReserveKeeps ==
    ASSUME PartsInv, NEW k \in Parts!AllKinds, NEW p \in PartPeer, NEW count \in 1 .. MaxCount,
           Parts!Reserve(k, p, count)
    PROVE  PartsInv'
  <1>1. PICK T, noops, send \in SUBSET Parts!Block :
             /\ noops \subseteq T /\ send \subseteq T /\ noops \cap send = {}
             /\ T = Parts!Taken(k, p, count)
             /\ \A b \in T : PartQueued(k, b) /\ Open(b)
             /\ taskQueue' = [taskQueue EXCEPT ![k] =
                                [b \in Parts!Block |-> @[b] - IF b \in noops \cup send THEN 1 ELSE 0]]
             /\ taskPool' = [taskPool EXCEPT ![k] = @ \ noops]
             /\ donePool' = [donePool EXCEPT ![k] = @ \cup noops]
             /\ pendPool' = [pendPool EXCEPT ![k][p] = Parts!InOrder(send)]
             /\ Parts!InOrder(send) \in Seq(Parts!Block) /\ Len(Parts!InOrder(send)) <= MaxCount
             /\ Parts!Elements(Parts!InOrder(send)) = send
             /\ resultCache' = [b \in Parts!Block |->
                  (IF b \in T /\ resultCache[b] = Parts!Nil THEN Cardinality(kinds) ELSE resultCache[b])
                  - IF b \in noops THEN 1 ELSE 0]
             /\ waiting' = (waiting /\ noops = {})
             /\ givenUp' = (\E b \in T : b - resultOffset >= blockCacheItems)
    BY ReserveEffect
  <1>2. /\ k \in kinds /\ pendPool[k][p] = <<>>
        /\ UNCHANGED <<kinds, scheduled, resultOffset, limit>>
    BY DEF Parts!Reserve
  <1>3. PartsType  BY DEF PartsInv
  <1>4. count \in Nat  BY SMT
  <1>5. ASSUME NEW b \in T
        PROVE  /\ b \in Parts!Tasks(k) /\ b - resultOffset < blockCacheItems
               /\ \A c \in Parts!Tasks(k) : c < b => c \in T
    BY <1>1, <1>2, <1>4, TakenIsWithin
  <1>6. givenUp' = FALSE
    <2>1. \A b \in T : ~(b - resultOffset >= blockCacheItems)
      <3> TAKE b \in T
      <3>1. b \in Nat  BY <1>1, BlocksFinite
      <3>2. resultOffset \in Int /\ blockCacheItems \in Int
        <4>1. blockCacheItems \in Nat /\ scheduled \in 0 .. Blocks /\ resultOffset \in 1 .. (scheduled + 1)
          BY <1>3, SyncAssumption DEF PartsType, Parts!DownloadQueueAssumption
        <4> QED  BY <4>1, SMT
      <3> QED  BY <1>5, <3>1, <3>2, SMT
    <2> QED  BY <1>1, <2>1
  <1>7. \A q \in PartPeer, j \in Parts!AllKinds :
           Requested(j, q)' = IF j = k /\ q = p THEN send ELSE Requested(j, q)
    <2> TAKE q \in PartPeer, j \in Parts!AllKinds
    <2>1. pendPool'[j][q] = IF j = k /\ q = p THEN Parts!InOrder(send) ELSE pendPool[j][q]
      BY <1>1, <1>3 DEF PartsType
    <2> QED  BY <1>1, <2>1 DEF Requested, Parts!Elements
  <1>8. \A j \in Parts!AllKinds, b \in Parts!Block :
          /\ taskQueue'[j][b] = IF j = k /\ b \in noops \cup send THEN taskQueue[j][b] - 1 ELSE taskQueue[j][b]
          /\ (b \in taskPool'[j]) <=> (b \in taskPool[j] /\ ~(j = k /\ b \in noops))
          /\ (b \in donePool'[j]) <=> (b \in donePool[j] \/ (j = k /\ b \in noops))
    <2> TAKE j \in Parts!AllKinds, b \in Parts!Block
    <2>1. taskQueue[j][b] \in Int  BY <1>3 DEF PartsType
    <2>2. taskQueue'[j][b] = IF j = k THEN taskQueue[j][b] - (IF b \in noops \cup send THEN 1 ELSE 0)
                             ELSE taskQueue[j][b]
      BY <1>1, <1>3 DEF PartsType
    <2>3. taskQueue'[j][b] = IF j = k /\ b \in noops \cup send THEN taskQueue[j][b] - 1 ELSE taskQueue[j][b]
      BY <2>1, <2>2, SMT
    <2>4. /\ (b \in taskPool'[j]) <=> (b \in taskPool[j] /\ ~(j = k /\ b \in noops))
          /\ (b \in donePool'[j]) <=> (b \in donePool[j] \/ (j = k /\ b \in noops))
      BY <1>1, <1>3 DEF PartsType
    <2> QED  BY <2>3, <2>4
  <1>9. ASSUME NEW b \in Parts!Block
        PROVE  resultCache'[b] = IF b \in T \/ resultCache[b] # Parts!Nil THEN Cardinality(Missing(b)')
                                 ELSE Parts!Nil
    <2>1. resultCache[b] \in Int  BY <1>3 DEF PartsType
    <2>2. resultCache'[b]
            = (IF b \in T /\ resultCache[b] = Parts!Nil THEN Cardinality(kinds) ELSE resultCache[b])
              - IF b \in noops THEN 1 ELSE 0
      BY <1>1
    <2>3. kinds \subseteq Parts!AllKinds /\ IsFiniteSet(Missing(b)) /\ Cardinality(Missing(b)) \in Nat
          /\ Cardinality(kinds) \in Nat
      BY <1>3, KindsFinite DEF Missing
    <2>4. Missing(b)' = IF b \in noops THEN Missing(b) \ {k} ELSE Missing(b)
      BY <1>2, <1>8, <2>3 DEF Missing
    <2>5. ASSUME b \in T, resultCache[b] = Parts!Nil PROVE Missing(b) = kinds
      <3>1. Open(b)  BY <1>1, <2>5
      <3>2. \A j \in kinds : b \notin donePool[j]
        BY <2>5, <3>1 DEF PartsInv, PartPlaced, PartQueued, PartAsked, PartDone
      <3> QED  BY <3>2 DEF Missing
    <2>6. ASSUME b \in noops PROVE k \in Missing(b)
      BY <1>1, <1>2, <2>6 DEF Missing, PartQueued
    <2>7. resultCache[b] # Parts!Nil => resultCache[b] = Cardinality(Missing(b))
      BY DEF PartsInv, SlotCounts
    <2>8. CASE b \in T \/ resultCache[b] # Parts!Nil
      <3>1. resultCache'[b] = Cardinality(Missing(b)) - IF b \in noops THEN 1 ELSE 0
        BY <2>2, <2>5, <2>7, <2>8
      <3>2. CASE b \in noops
        <4>1. Cardinality(Missing(b) \ {k}) = Cardinality(Missing(b)) - 1
          <5>1. k \in Missing(b) /\ IsFiniteSet(Missing(b))  BY <2>3, <2>6, <3>2
          <5>2. Cardinality(Missing(b) \ {k})
                  = IF k \in Missing(b) THEN Cardinality(Missing(b)) - 1 ELSE Cardinality(Missing(b))
            BY <5>1, FS_RemoveElement
          <5> QED  BY <5>1, <5>2
        <4> QED  BY <2>4, <2>8, <3>1, <3>2, <4>1
      <3>3. CASE b \notin noops
        <4>1. resultCache'[b] = Cardinality(Missing(b))  BY <2>3, <3>1, <3>3, SMT
        <4> QED  BY <2>4, <2>8, <3>3, <4>1
      <3> QED  BY <3>2, <3>3
    <2>9. CASE ~(b \in T \/ resultCache[b] # Parts!Nil)
      <3>1. resultCache'[b] = resultCache[b] - 0  BY <1>1, <2>2, <2>9
      <3>2. resultCache'[b] = resultCache[b]  BY <2>1, <3>1, SMT
      <3> QED  BY <2>9, <3>2
    <2> QED  BY <2>8, <2>9
  <1>10. ASSUME NEW b \in Parts!Block
         PROVE  /\ Cardinality(Missing(b)') \in Nat /\ Cardinality(Missing(b)') # Parts!Nil
                /\ resultCache'[b] \in Int
                /\ (resultCache'[b] = Parts!Nil) <=> (resultCache[b] = Parts!Nil /\ b \notin T)
    <2>1. Missing(b)' \in SUBSET kinds  BY <1>2 DEF Missing
    <2>2. Cardinality(Missing(b)') \in Nat  BY <1>3, <2>1, KindsFinite
    <2>3. Cardinality(Missing(b)') # Parts!Nil /\ Cardinality(Missing(b)') \in Int /\ Parts!Nil \in Int
      BY <2>2, SMT DEF Parts!Nil
    <2> QED  BY <1>9, <2>2, <2>3
  <1>11. PartsType'
    <2>1. taskQueue' \in [Parts!AllKinds -> [Parts!Block -> Int]]
      <3>1. ASSUME NEW b \in Parts!Block PROVE taskQueue[k][b] - (IF b \in noops \cup send THEN 1 ELSE 0) \in Int
        <4>1. taskQueue[k][b] \in Int  BY <1>3 DEF PartsType
        <4> QED  BY <4>1, SMT
      <3>2. [b \in Parts!Block |-> taskQueue[k][b] - IF b \in noops \cup send THEN 1 ELSE 0] \in [Parts!Block -> Int]
        BY <3>1
      <3> QED  BY <1>1, <1>3, <3>2 DEF PartsType
    <2>2. taskPool' \in [Parts!AllKinds -> SUBSET Parts!Block] /\ donePool' \in [Parts!AllKinds -> SUBSET Parts!Block]
      BY <1>1, <1>3 DEF PartsType
    <2>3. pendPool' \in [Parts!AllKinds -> [PartPeer -> Seq(Parts!Block)]]
      BY <1>1, <1>3 DEF PartsType
    <2>4. \A j \in Parts!AllKinds, q \in PartPeer : Len(pendPool'[j][q]) <= MaxCount
      BY <1>1, <1>3 DEF PartsType
    <2>5. resultCache' \in [Parts!Block -> Int]
      <3>1. resultCache' = [b \in Parts!Block |-> resultCache'[b]]  BY <1>1
      <3> QED  BY <1>10, <3>1
    <2> QED  BY <1>2, <1>3, <2>1, <2>2, <2>3, <2>4, <2>5 DEF PartsType
  <1>12. ASSUME NEW j \in kinds', NEW b \in Parts!Block PROVE PartPlaced(j, b)'
    <2>1. j \in kinds /\ j \in Parts!AllKinds /\ PartPlaced(j, b)  BY <1>2, <1>3, KindsFinite DEF PartsInv
    <2>2. Open(b)' <=> Open(b)  BY <1>2 DEF Open
    <2>3. ~Open(b) => b \notin T  BY <1>1
    <2>4. CASE ~(j = k /\ b \in noops \cup send)
      <3>1. /\ taskQueue'[j][b] = taskQueue[j][b]
            /\ (b \in donePool'[j]) <=> (b \in donePool[j])
            /\ (b \in taskPool'[j]) <=> (b \in taskPool[j])
        BY <1>8, <2>1, <2>4
      <3>2. \A q \in PartPeer : (b \in Requested(j, q)') <=> (b \in Requested(j, q))
        <4>1. Requested(k, p) = {}  BY <1>2, ElementsFacts DEF Requested
        <4> QED  BY <1>7, <2>1, <2>4, <4>1
      <3>3. (resultCache'[b] = Parts!Nil) => (resultCache[b] = Parts!Nil)  BY <1>10
      <3>4. ~Open(b) => resultCache'[b] = resultCache[b]
        BY <1>10, <2>1, <2>3 DEF PartPlaced, PartGone
      <3> QED  BY <2>1, <2>2, <3>1, <3>2, <3>3, <3>4, PartStays
    <2>5. CASE j = k /\ b \in noops \cup send
      <3>1. b \in T /\ PartQueued(k, b) /\ Open(b)  BY <1>1, <2>5
      <3>2. taskQueue'[k][b] = 0
        <4>1. taskQueue'[k][b] = taskQueue[k][b] - 1 /\ taskQueue[k][b] = 1  BY <1>8, <2>5, <3>1 DEF PartQueued
        <4> QED  BY <4>1, SMT
      <3>3. resultCache'[b] # Parts!Nil  BY <1>10, <3>1
      <3>4. CASE b \in noops
        <4>1. \A q \in PartPeer : b \notin Requested(k, q)'  BY <1>1, <1>7, <3>1, <3>4 DEF PartQueued
        <4>2. b \in donePool'[k] /\ b \notin taskPool'[k]  BY <1>8, <3>4
        <4>3. PartDone(k, b)'  BY <3>2, <3>3, <4>1, <4>2 DEF PartDone
        <4> QED  BY <2>2, <2>5, <3>1, <4>3 DEF PartPlaced
      <3>5. CASE b \in send
        <4>1. b \notin noops  BY <1>1, <3>5
        <4>2. b \in Requested(k, p)' /\ \A q \in PartPeer : b \in Requested(k, q)' => q = p
          BY <1>7, <3>1, <3>5 DEF PartQueued
        <4>3. b \notin donePool'[k] /\ b \in taskPool'[k]  BY <1>8, <3>1, <4>1 DEF PartQueued
        <4>4. PartAsked(k, b)'  BY <3>2, <3>3, <4>2, <4>3 DEF PartAsked
        <4> QED  BY <2>2, <2>5, <3>1, <4>4 DEF PartPlaced
      <3> QED  BY <2>5, <3>4, <3>5
    <2> QED  BY <2>4, <2>5
  <1>13. ASSUME NEW b \in Parts!Block PROVE SlotCounts(b)'
    <2> SUFFICES ASSUME resultCache'[b] # Parts!Nil
                 PROVE  /\ resultCache'[b] = Cardinality(Missing(b)')
                        /\ \A c \in resultOffset .. b : resultCache'[c] # Parts!Nil
      BY <1>2 DEF SlotCounts
    <2>1. resultCache'[b] = Cardinality(Missing(b)')  BY <1>9, <1>10
    <2>2. ASSUME NEW c \in resultOffset .. b PROVE resultCache'[c] # Parts!Nil
      <3>1. /\ c \in Parts!Block /\ (c = b \/ c < b)
            /\ Open(b) => Open(c)
        <4>1. /\ b \in 1 .. Blocks /\ Blocks \in Nat /\ scheduled \in 0 .. Blocks
              /\ resultOffset \in 1 .. (scheduled + 1)
          BY <1>3, SyncAssumption DEF PartsType, Parts!DownloadQueueAssumption, Parts!Block
        <4> QED  BY <4>1, SMT DEF Parts!Block, Open
      <3>2. CASE resultCache[b] # Parts!Nil
        <4>1. resultCache[c] # Parts!Nil  BY <3>2 DEF PartsInv, SlotCounts
        <4> QED  BY <1>10, <3>1, <4>1
      <3>3. CASE resultCache[b] = Parts!Nil
        <4>1. b \in T  BY <1>10, <3>3
        <4>2. Open(c)  BY <1>1, <3>1, <4>1
        <4>3. CASE PartQueued(k, c)
          <5>1. c \in Parts!Tasks(k)  BY <1>2, <3>1, <4>3, TaskIsQueued
          <5>2. c \in T  BY <1>5, <3>1, <4>1, <5>1
          <5> QED  BY <1>10, <3>1, <5>2
        <4>4. CASE ~PartQueued(k, c)
          <5>1. resultCache[c] # Parts!Nil
            BY <1>2, <3>1, <4>2, <4>4 DEF PartsInv, PartPlaced, PartAsked, PartDone
          <5> QED  BY <1>10, <3>1, <5>1
        <4> QED  BY <4>3, <4>4
      <3> QED  BY <3>2, <3>3
    <2> QED  BY <2>1, <2>2
  <1>14. waiting' => Parts!Processable' = {}
    <2> SUFFICES ASSUME waiting' PROVE Parts!Processable' = {}  OBVIOUS
    <2>1. waiting /\ noops = {}  BY <1>1
    <2>2. Parts!Processable = {}  BY <2>1 DEF PartsInv
    <2>3. \A c \in Parts!Block : resultCache'[c] = 0 => resultCache[c] = 0
      <3> TAKE c \in Parts!Block
      <3>1. resultCache'[c] = IF c \in T /\ resultCache[c] = Parts!Nil THEN Cardinality(kinds) - 0 ELSE resultCache[c] - 0
        BY <1>1, <2>1
      <3>2. Cardinality(kinds) \in Nat /\ Cardinality(kinds) # 0 /\ resultCache[c] \in Int
        BY <1>3, KindsFinite DEF PartsType
      <3> QED  BY <3>1, <3>2, SMT
    <2>4. \A b \in Parts!Block : \A c \in resultOffset .. b : c \in Parts!Block
      <3>1. scheduled \in 0 .. Blocks /\ Blocks \in Nat /\ resultOffset \in 1 .. (scheduled + 1)
        BY <1>3, SyncAssumption DEF PartsType, Parts!DownloadQueueAssumption
      <3> QED  BY <3>1, SMT DEF Parts!Block
    <2> QED  BY <1>2, <2>2, <2>3, <2>4 DEF Parts!Processable
  <1> QED  BY <1>6, <1>11, <1>12, <1>13, <1>14 DEF PartsInv

LEMMA RequestedNext ==
    ASSUME NEW j, NEW q, NEW s, pendPool'[j][q] = s
    PROVE  Requested(j, q)' = Parts!Elements(s)
  BY DEF Requested, Parts!Elements

RequestEnded(K, p, acc) ==
    /\ \A j \in Parts!AllKinds, b \in Parts!Block :
         /\ taskQueue'[j][b] = IF j \in K /\ b \in Requested(j, p) \ acc THEN taskQueue[j][b] + 1
                               ELSE taskQueue[j][b]
         /\ (b \in taskPool'[j]) <=> (b \in taskPool[j] /\ ~(j \in K /\ b \in acc))
         /\ (b \in donePool'[j]) <=> (b \in donePool[j] \/ (j \in K /\ b \in acc))
    /\ \A j \in Parts!AllKinds, q \in PartPeer :
         Requested(j, q)' = IF j \in K /\ q = p THEN {} ELSE Requested(j, q)
    /\ \A b \in Parts!Block : resultCache'[b] = IF b \in acc THEN resultCache[b] - 1 ELSE resultCache[b]

\* A request ends: what was accepted of it is done, the rest is queued again.
LEMMA RequestEnds ==
    ASSUME PartsInv, PartsType', NEW K \in SUBSET Parts!AllKinds, NEW p \in PartPeer,
           NEW acc \in SUBSET Parts!Block,
           \A j \in K : acc \subseteq Requested(j, p),
           acc # {} => \E k \in kinds : K = {k},
           UNCHANGED <<kinds, scheduled, resultOffset>>, givenUp' = FALSE,
           waiting' => waiting /\ acc = {},
           RequestEnded(K, p, acc)
    PROVE  PartsInv'
  <1>1. PartsType /\ kinds \subseteq Parts!AllKinds  BY KindsFinite DEF PartsInv
  <1> USE DEF RequestEnded
  <1>2. ASSUME NEW j \in kinds, NEW b \in Parts!Block, b \in Requested(j, p)
        PROVE  PartAsked(j, b) /\ Open(b)
    BY <1>2 DEF PartsInv, PartPlaced, PartQueued, PartDone, PartGone
  <1>3. ASSUME NEW b \in Parts!Block
        PROVE  /\ (resultCache'[b] = Parts!Nil) <=> (resultCache[b] = Parts!Nil)
               /\ resultCache'[b] # Parts!Nil => resultCache'[b] = Cardinality(Missing(b)')
    <2>1. CASE b \notin acc
      <3>1. Missing(b)' = Missing(b) /\ resultCache'[b] = resultCache[b]  BY <1>1, <2>1 DEF Missing
      <3> QED  BY <3>1 DEF PartsInv, SlotCounts
    <2>2. CASE b \in acc
      <3>1. PICK k \in kinds : K = {k}  BY <2>2
      <3>2. b \in Requested(k, p)  BY <2>2, <3>1
      <3>3. b \notin donePool[k] /\ resultCache[b] # Parts!Nil  BY <1>2, <3>2 DEF PartAsked
      <3>4. resultCache[b] = Cardinality(Missing(b))  BY <3>3 DEF PartsInv, SlotCounts
      <3>5. Missing(b)' = Missing(b) \ {k}  BY <1>1, <2>2, <3>1 DEF Missing
      <3>6. k \in Missing(b) /\ IsFiniteSet(Missing(b))  BY <1>1, <3>1, <3>3, KindsFinite DEF Missing
      <3>7. Cardinality(Missing(b) \ {k}) = Cardinality(Missing(b)) - 1  BY <3>6, OneLess
      <3>8. resultCache'[b] = Cardinality(Missing(b)')  BY <2>2, <3>4, <3>5, <3>6, <3>7
      <3>9. Missing(b)' \in SUBSET kinds  BY <3>5 DEF Missing
      <3>10. Cardinality(Missing(b)') \in Nat  BY <1>1, <3>9, KindsFinite
      <3>11. resultCache'[b] # Parts!Nil  BY <3>8, <3>10, SMT DEF Parts!Nil
      <3> QED  BY <3>3, <3>8, <3>11
    <2> QED  BY <2>1, <2>2
  <1>4. ASSUME NEW j \in kinds', NEW b \in Parts!Block PROVE PartPlaced(j, b)'
    <2>1. j \in kinds /\ j \in Parts!AllKinds /\ PartPlaced(j, b)  BY <1>1 DEF PartsInv
    <2>2. Open(b)' <=> Open(b)  BY DEF Open
    <2>3. CASE ~(j \in K /\ b \in Requested(j, p))
      <3>1. /\ taskQueue'[j][b] = taskQueue[j][b]
            /\ (b \in donePool'[j]) <=> (b \in donePool[j])
            /\ (b \in taskPool'[j]) <=> (b \in taskPool[j])
        BY <2>1, <2>3
      <3>2. \A q \in PartPeer : (b \in Requested(j, q)') <=> (b \in Requested(j, q))  BY <2>1, <2>3
      <3>3. (resultCache'[b] = Parts!Nil) => (resultCache[b] = Parts!Nil)  BY <1>3
      <3>4. ~Open(b) => resultCache'[b] = resultCache[b]  BY <1>3, <2>1 DEF PartPlaced, PartGone
      <3> QED  BY <2>1, <2>2, <3>1, <3>2, <3>3, <3>4, PartStays
    <2>4. CASE j \in K /\ b \in Requested(j, p)
      <3>1. PartAsked(j, b) /\ Open(b)  BY <1>2, <2>1, <2>4
      <3>2. \A q \in PartPeer : b \notin Requested(j, q)'
        <4>1. \A q \in PartPeer : b \in Requested(j, q) => q = p  BY <2>4, <3>1 DEF PartAsked
        <4> TAKE q \in PartPeer
        <4>2. CASE q = p  BY <2>1, <2>4, <4>2
        <4>3. CASE q # p
          <5>1. b \notin Requested(j, q)  BY <4>1, <4>3
          <5> QED  BY <2>1, <4>3, <5>1
        <4> QED  BY <4>2, <4>3
      <3>3. CASE b \in acc
        <4>1. /\ taskQueue'[j][b] = 0 /\ b \in donePool'[j] /\ b \notin taskPool'[j]
              /\ resultCache'[b] # Parts!Nil
          BY <1>3, <2>1, <2>4, <3>1, <3>3 DEF PartAsked
        <4>2. PartDone(j, b)'  BY <3>2, <4>1 DEF PartDone
        <4> QED  BY <2>2, <3>1, <4>2 DEF PartPlaced
      <3>4. CASE b \notin acc
        <4>1. /\ taskQueue'[j][b] = taskQueue[j][b] + 1 /\ taskQueue[j][b] = 0
              /\ b \notin donePool'[j] /\ b \in taskPool'[j]
          BY <2>1, <2>4, <3>1, <3>4 DEF PartAsked
        <4>2. taskQueue'[j][b] = 1  BY <4>1, SMT
        <4>3. PartQueued(j, b)'  BY <3>2, <4>1, <4>2 DEF PartQueued
        <4> QED  BY <2>2, <3>1, <4>3 DEF PartPlaced
      <3> QED  BY <3>3, <3>4
    <2> QED  BY <2>3, <2>4
  <1>5. \A b \in Parts!Block : \A c \in resultOffset .. b : c \in Parts!Block
    <2>1. scheduled \in 0 .. Blocks /\ Blocks \in Nat /\ resultOffset \in 1 .. (scheduled + 1)
      BY <1>1, SyncAssumption DEF PartsType, Parts!DownloadQueueAssumption
    <2> QED  BY <2>1, SMT DEF Parts!Block
  <1>6. ASSUME NEW b \in Parts!Block PROVE SlotCounts(b)'
    <2> SUFFICES ASSUME resultCache'[b] # Parts!Nil
                 PROVE  /\ resultCache'[b] = Cardinality(Missing(b)')
                        /\ \A c \in resultOffset .. b : resultCache'[c] # Parts!Nil
      BY DEF SlotCounts
    <2>1. resultCache[b] # Parts!Nil  BY <1>3
    <2>2. \A c \in resultOffset .. b : resultCache[c] # Parts!Nil  BY <2>1 DEF PartsInv, SlotCounts
    <2> QED  BY <1>3, <1>5, <2>2
  <1>7. waiting' => Parts!Processable' = {}
    <2> SUFFICES ASSUME waiting' PROVE Parts!Processable' = {}  OBVIOUS
    <2>1. waiting /\ \A b \in Parts!Block : resultCache'[b] = resultCache[b]  OBVIOUS
    <2>2. Parts!Processable = {}  BY <2>1 DEF PartsInv
    <2> SUFFICES ASSUME NEW b \in Parts!Block, b >= resultOffset, b < resultOffset + blockCacheItems,
                        \A c \in resultOffset .. b : resultCache'[c] = 0
                 PROVE  FALSE
      BY DEF Parts!Processable
    <2>3. \A c \in resultOffset .. b : resultCache[c] = 0  BY <1>5, <2>1
    <2>4. b \in Parts!Processable  BY <2>3 DEF Parts!Processable
    <2> QED  BY <2>2, <2>4
  <1> QED  BY <1>4, <1>6, <1>7 DEF PartsInv

\* PushAll queues what it is given once more.
LEMMA PushAllIs ==
    ASSUME PartsType, NEW k \in Parts!AllKinds, NEW bs
    PROVE  /\ Parts!PushAll(k, bs) \in [Parts!AllKinds -> [Parts!Block -> Int]]
           /\ \A j \in Parts!AllKinds, b \in Parts!Block :
                Parts!PushAll(k, bs)[j][b]
                  = IF j = k /\ b \in bs THEN taskQueue[j][b] + 1 ELSE taskQueue[j][b]
  <1>1. taskQueue \in [Parts!AllKinds -> [Parts!Block -> Int]]  BY DEF PartsType
  <1> DEFINE row == [b \in Parts!Block |-> taskQueue[k][b] + IF b \in bs THEN 1 ELSE 0]
  <1>2. ASSUME NEW b \in Parts!Block
        PROVE  row[b] \in Int /\ row[b] = IF b \in bs THEN taskQueue[k][b] + 1 ELSE taskQueue[k][b]
    <2>1. taskQueue[k][b] \in Int  BY <1>1
    <2> QED  BY <2>1, SMT
  <1>3. row \in [Parts!Block -> Int]  BY <1>2
  <1>4. Parts!PushAll(k, bs) = [taskQueue EXCEPT ![k] = row]  BY DEF Parts!PushAll
  <1> HIDE DEF row
  <1> QED  BY <1>1, <1>2, <1>3, <1>4

LEMMA DeliverKeeps ==
    ASSUME PartsInv, NEW k \in Parts!AllKinds, NEW p \in PartPeer,
           NEW results \in 0 .. MaxCount, NEW valid \in 0 .. MaxCount,
           Parts!Deliver(k, p, results, valid)
    PROVE  PartsInv'
  <1>1. PICK acc : acc = Parts!Elements(SubSeq(pendPool[k][p], 1, valid))  OBVIOUS
  <1>2. /\ k \in kinds /\ valid <= results /\ results <= Len(pendPool[k][p])
        /\ pendPool' = [pendPool EXCEPT ![k][p] = <<>>]
        /\ givenUp' = (\E b \in acc : resultCache[b] = Parts!Nil)
        /\ donePool' = [donePool EXCEPT ![k] = @ \cup acc]
        /\ taskPool' = [taskPool EXCEPT ![k] = @ \ acc]
        /\ taskQueue' = Parts!PushAll(k, Requested(k, p) \ acc)
        /\ resultCache' = [b \in Parts!Block |-> resultCache[b] - IF b \in acc THEN 1 ELSE 0]
        /\ waiting' = (waiting /\ acc = {})
        /\ UNCHANGED <<kinds, scheduled, resultOffset, limit>>
    BY <1>1 DEF Parts!Deliver, Requested
  <1>3. PartsType  BY DEF PartsInv
  <1>4. pendPool[k][p] \in Seq(Parts!Block)  BY <1>3 DEF PartsType
  <1>5. valid \in Nat /\ valid <= Len(pendPool[k][p])  BY <1>2, <1>4, SMT
  <1>6. acc \subseteq Requested(k, p) /\ Requested(k, p) \subseteq Parts!Block
    BY <1>1, <1>4, <1>5, ElementsFacts DEF Requested
  <1>7. givenUp' = FALSE
    <2>1. \A b \in acc : resultCache[b] # Parts!Nil
      <3> TAKE b \in acc
      <3>1. b \in Parts!Block /\ b \in Requested(k, p)  BY <1>6
      <3>2. PartAsked(k, b)  BY <1>2, <3>1 DEF PartsInv, PartPlaced, PartQueued, PartDone, PartGone
      <3> QED  BY <3>2 DEF PartAsked
    <2> QED  BY <1>2, <2>1
  <1>8. \A b \in Parts!Block :
           /\ resultCache'[b] = IF b \in acc THEN resultCache[b] - 1 ELSE resultCache[b]
           /\ resultCache'[b] \in Int
    <2> TAKE b \in Parts!Block
    <2>1. resultCache[b] \in Int /\ resultCache'[b] = resultCache[b] - IF b \in acc THEN 1 ELSE 0
      BY <1>2, <1>3 DEF PartsType
    <2> QED  BY <2>1, SMT
  <1>9. \A j \in Parts!AllKinds, q \in PartPeer :
          pendPool'[j][q] = IF j = k /\ q = p THEN <<>> ELSE pendPool[j][q]
    BY <1>2, <1>3 DEF PartsType
  <1>10. \A j \in Parts!AllKinds, q \in PartPeer :
           Requested(j, q)' = IF j \in {k} /\ q = p THEN {} ELSE Requested(j, q)
    <2> TAKE j \in Parts!AllKinds, q \in PartPeer
    <2>1. CASE j = k /\ q = p
      <3>1. pendPool'[j][q] = <<>>  BY <1>9, <2>1
      <3>2. Requested(j, q)' = Parts!Elements(<<>>)  BY <3>1, RequestedNext
      <3> QED  BY <2>1, <3>2, NoElements
    <2>2. CASE ~(j = k /\ q = p)
      <3>1. pendPool'[j][q] = pendPool[j][q]  BY <1>9, <2>2
      <3> QED  BY <2>2, <3>1, RequestedNext DEF Requested
    <2> QED  BY <2>1, <2>2
  <1>11. \A j \in Parts!AllKinds, b \in Parts!Block :
           taskQueue'[j][b] = IF j \in {k} /\ b \in Requested(j, p) \ acc THEN taskQueue[j][b] + 1
                              ELSE taskQueue[j][b]
    <2>1. PICK bs : bs = Requested(k, p) \ acc  OBVIOUS
    <2>2. taskQueue' = Parts!PushAll(k, bs)  BY <1>2, <2>1
    <2>3. \A j \in Parts!AllKinds, b \in Parts!Block :
            Parts!PushAll(k, bs)[j][b] = IF j = k /\ b \in bs THEN taskQueue[j][b] + 1 ELSE taskQueue[j][b]
      BY <1>3, PushAllIs, SMT
    <2> QED  BY <2>1, <2>2, <2>3
  <1>12. \A j \in Parts!AllKinds, b \in Parts!Block :
           /\ (b \in taskPool'[j]) <=> (b \in taskPool[j] /\ ~(j \in {k} /\ b \in acc))
           /\ (b \in donePool'[j]) <=> (b \in donePool[j] \/ (j \in {k} /\ b \in acc))
    BY <1>2, <1>3 DEF PartsType
  <1>13. PartsType'
    <2>1. taskQueue' \in [Parts!AllKinds -> [Parts!Block -> Int]]  BY <1>2, <1>3, PushAllIs
    <2>2. acc \in SUBSET Parts!Block  BY <1>6
    <2>3. taskPool' \in [Parts!AllKinds -> SUBSET Parts!Block] /\ donePool' \in [Parts!AllKinds -> SUBSET Parts!Block]
      BY <1>2, <1>3, <2>2 DEF PartsType
    <2>4. <<>> \in Seq(Parts!Block) /\ Len(<<>>) <= MaxCount
      <3>1. MaxCount \in Nat  BY SyncAssumption DEF Parts!DownloadQueueAssumption
      <3> QED  BY <3>1, SMT
    <2>5. pendPool' \in [Parts!AllKinds -> [PartPeer -> Seq(Parts!Block)]]
      BY <1>2, <1>3, <2>4 DEF PartsType
    <2>6. \A j \in Parts!AllKinds, q \in PartPeer : Len(pendPool'[j][q]) <= MaxCount
      BY <1>3, <1>9, <2>4 DEF PartsType
    <2>7. resultCache' \in [Parts!Block -> Int]
      <3>1. resultCache' = [b \in Parts!Block |-> resultCache'[b]]  BY <1>2
      <3> QED  BY <1>8, <3>1
    <2> QED  BY <1>2, <1>3, <2>1, <2>3, <2>5, <2>6, <2>7 DEF PartsType
  <1>14. {k} \in SUBSET Parts!AllKinds /\ acc \in SUBSET Parts!Block
         /\ (\A j \in {k} : acc \subseteq Requested(j, p)) /\ \E j \in kinds : {k} = {j}
    BY <1>2, <1>6
  <1>15. RequestEnded({k}, p, acc)  BY <1>8, <1>10, <1>11, <1>12 DEF RequestEnded
  <1> QED  BY <1>2, <1>7, <1>13, <1>14, <1>15, RequestEnds

LEMMA ExpireKeeps ==
    ASSUME PartsInv, NEW k \in Parts!AllKinds, NEW p \in PartPeer, Parts!Expire(k, p)
    PROVE  PartsInv'
  <1>1. /\ k \in kinds
        /\ taskQueue' = Parts!PushAll(k, Requested(k, p))
        /\ pendPool' = [pendPool EXCEPT ![k][p] = <<>>]
        /\ UNCHANGED <<kinds, scheduled, taskPool, donePool, resultCache, resultOffset, limit,
                       waiting, givenUp>>
    BY DEF Parts!Expire, Requested
  <1>2. PartsType /\ givenUp = FALSE  BY DEF PartsInv
  <1>3. \A j \in Parts!AllKinds, q \in PartPeer :
          pendPool'[j][q] = IF j = k /\ q = p THEN <<>> ELSE pendPool[j][q]
    BY <1>1, <1>2 DEF PartsType
  <1>4. \A j \in Parts!AllKinds, q \in PartPeer :
           Requested(j, q)' = IF j \in {k} /\ q = p THEN {} ELSE Requested(j, q)
    <2> TAKE j \in Parts!AllKinds, q \in PartPeer
    <2>1. CASE j = k /\ q = p
      <3>1. pendPool'[j][q] = <<>>  BY <1>3, <2>1
      <3>2. Requested(j, q)' = Parts!Elements(<<>>)  BY <3>1, RequestedNext
      <3> QED  BY <2>1, <3>2, NoElements
    <2>2. CASE ~(j = k /\ q = p)
      <3>1. pendPool'[j][q] = pendPool[j][q]  BY <1>3, <2>2
      <3> QED  BY <2>2, <3>1, RequestedNext DEF Requested
    <2> QED  BY <2>1, <2>2
  <1>5. \A j \in Parts!AllKinds, b \in Parts!Block :
          /\ taskQueue'[j][b] = IF j \in {k} /\ b \in Requested(j, p) \ {} THEN taskQueue[j][b] + 1
                                ELSE taskQueue[j][b]
          /\ (b \in taskPool'[j]) <=> (b \in taskPool[j] /\ ~(j \in {k} /\ b \in {}))
          /\ (b \in donePool'[j]) <=> (b \in donePool[j] \/ (j \in {k} /\ b \in {}))
    <2>1. PICK bs : bs = Requested(k, p)  OBVIOUS
    <2>2. taskQueue' = Parts!PushAll(k, bs)  BY <1>1, <2>1
    <2>3. \A j \in Parts!AllKinds, b \in Parts!Block :
            Parts!PushAll(k, bs)[j][b] = IF j = k /\ b \in bs THEN taskQueue[j][b] + 1 ELSE taskQueue[j][b]
      BY <1>2, PushAllIs, SMT
    <2> QED  BY <1>1, <2>1, <2>2, <2>3
  <1>6. PartsType'
    <2>1. taskQueue' \in [Parts!AllKinds -> [Parts!Block -> Int]]  BY <1>1, <1>2, PushAllIs
    <2>2. <<>> \in Seq(Parts!Block) /\ Len(<<>>) <= MaxCount
      <3>1. MaxCount \in Nat  BY SyncAssumption DEF Parts!DownloadQueueAssumption
      <3> QED  BY <3>1, SMT
    <2>3. pendPool' \in [Parts!AllKinds -> [PartPeer -> Seq(Parts!Block)]]
      BY <1>1, <1>2, <2>2 DEF PartsType
    <2>4. \A j \in Parts!AllKinds, q \in PartPeer : Len(pendPool'[j][q]) <= MaxCount
      BY <1>2, <1>3, <2>2 DEF PartsType
    <2> QED  BY <1>1, <1>2, <2>1, <2>3, <2>4 DEF PartsType
  <1>7. \A b \in Parts!Block : resultCache'[b] = IF b \in {} THEN resultCache[b] - 1 ELSE resultCache[b]
    BY <1>1
  <1>8. {k} \in SUBSET Parts!AllKinds /\ {} \in SUBSET Parts!Block
        /\ \A j \in {k} : {} \subseteq Requested(j, p)
    OBVIOUS
  <1>9. RequestEnded({k}, p, {})  BY <1>4, <1>5, <1>7 DEF RequestEnded
  <1> QED  BY <1>1, <1>2, <1>6, <1>8, <1>9, RequestEnds

LEMMA RevokeKeeps ==
    ASSUME PartsInv, NEW p \in PartPeer, Parts!Revoke(p)
    PROVE  PartsInv'
  <1>1. /\ taskQueue' = [k \in Parts!AllKinds |-> Parts!PushAll(k, Requested(k, p))[k]]
        /\ pendPool' = [k \in Parts!AllKinds |-> [pendPool[k] EXCEPT ![p] = <<>>]]
        /\ UNCHANGED <<kinds, scheduled, taskPool, donePool, resultCache, resultOffset, limit,
                       waiting, givenUp>>
    BY DEF Parts!Revoke, Requested
  <1>2. PartsType /\ givenUp = FALSE  BY DEF PartsInv
  <1>3. \A j \in Parts!AllKinds, q \in PartPeer :
          pendPool'[j][q] = IF q = p THEN <<>> ELSE pendPool[j][q]
    BY <1>1, <1>2 DEF PartsType
  <1>4. \A j \in Parts!AllKinds, q \in PartPeer :
           Requested(j, q)' = IF j \in Parts!AllKinds /\ q = p THEN {} ELSE Requested(j, q)
    <2> TAKE j \in Parts!AllKinds, q \in PartPeer
    <2>1. CASE q = p
      <3>1. pendPool'[j][q] = <<>>  BY <1>3, <2>1
      <3>2. Requested(j, q)' = Parts!Elements(<<>>)  BY <3>1, RequestedNext
      <3> QED  BY <2>1, <3>2, NoElements
    <2>2. CASE q # p
      <3>1. pendPool'[j][q] = pendPool[j][q]  BY <1>3, <2>2
      <3> QED  BY <2>2, <3>1, RequestedNext DEF Requested
    <2> QED  BY <2>1, <2>2
  <1>5. ASSUME NEW j \in Parts!AllKinds
        PROVE  /\ taskQueue'[j] \in [Parts!Block -> Int]
               /\ \A b \in Parts!Block :
                    taskQueue'[j][b] = IF b \in Requested(j, p) THEN taskQueue[j][b] + 1 ELSE taskQueue[j][b]
    <2>1. PICK bs : bs = Requested(j, p)  OBVIOUS
    <2>2. taskQueue'[j] = Parts!PushAll(j, bs)[j]  BY <1>1, <2>1
    <2>3. /\ Parts!PushAll(j, bs) \in [Parts!AllKinds -> [Parts!Block -> Int]]
          /\ \A i \in Parts!AllKinds, b \in Parts!Block :
               Parts!PushAll(j, bs)[i][b] = IF i = j /\ b \in bs THEN taskQueue[i][b] + 1 ELSE taskQueue[i][b]
      BY <1>2, PushAllIs, SMT
    <2> QED  BY <2>1, <2>2, <2>3
  <1>6. \A j \in Parts!AllKinds, b \in Parts!Block :
          /\ taskQueue'[j][b] = IF j \in Parts!AllKinds /\ b \in Requested(j, p) \ {} THEN taskQueue[j][b] + 1
                                ELSE taskQueue[j][b]
          /\ (b \in taskPool'[j]) <=> (b \in taskPool[j] /\ ~(j \in Parts!AllKinds /\ b \in {}))
          /\ (b \in donePool'[j]) <=> (b \in donePool[j] \/ (j \in Parts!AllKinds /\ b \in {}))
    BY <1>1, <1>5
  <1>7. PartsType'
    <2>1. taskQueue' \in [Parts!AllKinds -> [Parts!Block -> Int]]
      <3>1. taskQueue' = [j \in Parts!AllKinds |-> taskQueue'[j]]  BY <1>1
      <3> QED  BY <1>5, <3>1
    <2>2. <<>> \in Seq(Parts!Block) /\ Len(<<>>) <= MaxCount
      <3>1. MaxCount \in Nat  BY SyncAssumption DEF Parts!DownloadQueueAssumption
      <3> QED  BY <3>1, SMT
    <2>3. pendPool' \in [Parts!AllKinds -> [PartPeer -> Seq(Parts!Block)]]
      BY <1>1, <1>2, <2>2 DEF PartsType
    <2>4. \A j \in Parts!AllKinds, q \in PartPeer : Len(pendPool'[j][q]) <= MaxCount
      BY <1>2, <1>3, <2>2 DEF PartsType
    <2> QED  BY <1>1, <1>2, <2>1, <2>3, <2>4 DEF PartsType
  <1>8. \A b \in Parts!Block : resultCache'[b] = IF b \in {} THEN resultCache[b] - 1 ELSE resultCache[b]
    BY <1>1
  <1>9. Parts!AllKinds \in SUBSET Parts!AllKinds /\ {} \in SUBSET Parts!Block
        /\ \A j \in Parts!AllKinds : {} \subseteq Requested(j, p)
    OBVIOUS
  <1>10. RequestEnded(Parts!AllKinds, p, {})  BY <1>4, <1>6, <1>8 DEF RequestEnded
  <1> QED  BY <1>1, <1>2, <1>7, <1>9, <1>10, RequestEnds

\* A step that leaves the tasks and the cache alone.
LEMMA PartsStay ==
    ASSUME PartsInv, waiting' => waiting \/ Parts!Processable = {},
           UNCHANGED <<kinds, scheduled, taskPool, taskQueue, pendPool, donePool, resultCache,
                       resultOffset, limit, givenUp>>
    PROVE  PartsInv'
  <1>1. PartsType'  BY DEF PartsInv, PartsType
  <1>2. ASSUME NEW k \in kinds', NEW b \in Parts!Block PROVE PartPlaced(k, b)'
    <2>1. PartPlaced(k, b) /\ \A p \in PartPeer : Requested(k, p)' = Requested(k, p)
      BY RequestedNext DEF PartsInv, Requested
    <2>2. Open(b)' <=> Open(b)  BY DEF Open
    <2> QED  BY <2>1, <2>2, PartStays
  <1>3. ASSUME NEW b \in Parts!Block PROVE SlotCounts(b)'
    BY DEF PartsInv, SlotCounts, Missing
  <1>4. waiting' => Parts!Processable' = {}
    <2>1. Parts!Processable' = Parts!Processable  BY DEF Parts!Processable
    <2> QED  BY <2>1 DEF PartsInv
  <1> QED  BY <1>1, <1>2, <1>3, <1>4 DEF PartsInv

LEMMA ScheduleKeeps ==
    ASSUME PartsInv, Parts!Schedule
    PROVE  PartsInv'
  <1>1. /\ scheduled < Blocks /\ scheduled' = scheduled + 1
        /\ taskPool' = [k \in Parts!AllKinds |->
                          IF k \in kinds THEN taskPool[k] \cup {scheduled'} ELSE taskPool[k]]
        /\ taskQueue' = [k \in Parts!AllKinds |->
                           IF k \in kinds THEN [taskQueue[k] EXCEPT ![scheduled'] = @ + 1] ELSE taskQueue[k]]
        /\ UNCHANGED <<kinds, pendPool, donePool, resultCache, resultOffset, limit, waiting, givenUp>>
    BY DEF Parts!Schedule
  <1>2. PartsType /\ kinds \subseteq Parts!AllKinds  BY KindsFinite DEF PartsInv
  <1>3. scheduled \in 0 .. Blocks /\ Blocks \in Nat /\ resultOffset \in 1 .. (scheduled + 1)
    BY <1>2, SyncAssumption DEF PartsType, Parts!DownloadQueueAssumption
  <1>4. /\ scheduled' \in Parts!Block /\ scheduled' \in 0 .. Blocks /\ resultOffset \in 1 .. (scheduled' + 1)
        /\ resultOffset <= scheduled' /\ ~(scheduled' <= scheduled)
    BY <1>1, <1>3, SMT DEF Parts!Block
  <1>5. PartsType'
    <2>1. taskPool' \in [Parts!AllKinds -> SUBSET Parts!Block]  BY <1>1, <1>2, <1>4 DEF PartsType
    <2>2. taskQueue' \in [Parts!AllKinds -> [Parts!Block -> Int]]
      <3>1. ASSUME NEW k \in Parts!AllKinds PROVE [taskQueue[k] EXCEPT ![scheduled'] = @ + 1] \in [Parts!Block -> Int]
        <4>1. taskQueue[k] \in [Parts!Block -> Int]  BY <1>2 DEF PartsType
        <4>2. taskQueue[k][scheduled'] + 1 \in Int  BY <1>4, <4>1, SMT
        <4> QED  BY <4>1, <4>2
      <3> QED  BY <1>1, <1>2, <3>1 DEF PartsType
    <2> QED  BY <1>1, <1>2, <1>4, <2>1, <2>2 DEF PartsType
  <1>6. ASSUME NEW k \in kinds', NEW b \in Parts!Block PROVE PartPlaced(k, b)'
    <2>1. /\ k \in kinds /\ k \in Parts!AllKinds /\ PartPlaced(k, b)
          /\ taskQueue[k] \in [Parts!Block -> Int]
      BY <1>1, <1>2 DEF PartsInv, PartsType
    <2>2. \A p \in PartPeer : Requested(k, p)' = Requested(k, p)  BY <1>1, RequestedNext DEF Requested
    <2>3. CASE b # scheduled'
      <3>1. Open(b)' <=> Open(b)
        <4>1. b \in 1 .. Blocks  BY DEF Parts!Block
        <4> QED  BY <1>1, <1>3, <2>3, <4>1, SMT DEF Open
      <3>2. taskQueue'[k][b] = taskQueue[k][b] /\ (b \in taskPool'[k] <=> b \in taskPool[k])
        BY <1>1, <1>4, <2>1, <2>3
      <3> QED  BY <1>1, <2>1, <2>2, <3>1, <3>2, PartStays
    <2>4. CASE b = scheduled'
      <3>1. ~Open(b) /\ Open(b)'  BY <1>1, <1>3, <1>4, <2>4, SMT DEF Open
      <3>2. PartGone(k, b)  BY <2>1, <3>1 DEF PartPlaced
      <3>3. taskQueue'[k][b] = 1
        <4>1. taskQueue'[k][b] = taskQueue[k][b] + 1 /\ taskQueue[k][b] = 0
          BY <1>1, <2>1, <2>4, <3>2 DEF PartGone
        <4> QED  BY <4>1, SMT
      <3>4. b \in taskPool'[k]  BY <1>1, <2>1, <2>4
      <3>5. PartQueued(k, b)'  BY <1>1, <2>2, <3>2, <3>3, <3>4 DEF PartGone, PartQueued
      <3> QED  BY <3>1, <3>5 DEF PartPlaced
    <2> QED  BY <2>3, <2>4
  <1>7. ASSUME NEW b \in Parts!Block PROVE SlotCounts(b)'
    BY <1>1 DEF PartsInv, SlotCounts, Missing
  <1>8. waiting' => Parts!Processable' = {}
    <2>1. Parts!Processable' = Parts!Processable  BY <1>1 DEF Parts!Processable
    <2> QED  BY <1>1, <2>1 DEF PartsInv
  <1> QED  BY <1>1, <1>5, <1>6, <1>7, <1>8 DEF PartsInv

\* The results that leave the cache are whole, and the first ones.
LEMMA ResultsKeeps ==
    ASSUME PartsInv, Parts!Results
    PROVE  PartsInv'
  <1>1. PICK n : n = IF Parts!Cardinality(Parts!Processable) > maxResultsProcess THEN maxResultsProcess
                     ELSE Parts!Cardinality(Parts!Processable)
    OBVIOUS
  <1>2. PICK out : out = resultOffset .. (resultOffset + n - 1)  OBVIOUS
  <1>3. /\ ~waiting
        /\ donePool' = [k \in Parts!AllKinds |-> donePool[k] \ out]
        /\ resultCache' = [b \in Parts!Block |-> IF b \in out THEN Parts!Nil ELSE resultCache[b]]
        /\ resultOffset' = resultOffset + n
        /\ limit' \in 1 .. blockCacheItems
        /\ UNCHANGED <<kinds, scheduled, taskPool, taskQueue, pendPool, waiting, givenUp>>
    BY <1>1, <1>2 DEF Parts!Results
  <1>4. PartsType /\ kinds \subseteq Parts!AllKinds  BY KindsFinite DEF PartsInv
  <1>5. /\ scheduled \in 0 .. Blocks /\ Blocks \in Nat /\ resultOffset \in 1 .. (scheduled + 1)
        /\ maxResultsProcess \in Nat
    BY <1>4, SyncAssumption DEF PartsType, Parts!DownloadQueueAssumption
  <1>6. resultOffset \in Nat  BY <1>5, SMT
  <1>7. PICK m \in Nat : Parts!Processable = resultOffset .. (resultOffset + m - 1)
                         /\ Cardinality(Parts!Processable) = m
    <2>1. \A b \in Parts!Processable : \A c \in resultOffset .. b : c \in Parts!Processable
      <3> TAKE b \in Parts!Processable
      <3> TAKE c \in resultOffset .. b
      <3>1. /\ b \in 1 .. Blocks /\ b >= resultOffset /\ b < resultOffset + blockCacheItems
            /\ \A d \in resultOffset .. b : resultCache[d] = 0
        BY DEF Parts!Processable, Parts!Block
      <3>2. blockCacheItems \in Nat  BY SyncAssumption DEF Parts!DownloadQueueAssumption
      <3>3. /\ c \in 1 .. Blocks /\ c >= resultOffset /\ c < resultOffset + blockCacheItems
            /\ \A d \in resultOffset .. c : d \in resultOffset .. b
        BY <1>5, <1>6, <3>1, <3>2, SMT
      <3> QED  BY <3>1, <3>3 DEF Parts!Processable, Parts!Block
    <2>2. \A b \in Parts!Processable : b \in Nat /\ resultOffset <= b /\ b <= Blocks
      BY <1>5, <1>6, SMT DEF Parts!Processable, Parts!Block
    <2>3. Parts!Processable \in SUBSET Nat  BY <2>2
    <2> QED  BY <1>5, <1>6, <2>1, <2>2, <2>3, PrefixIsRun
  <1>8. n \in Nat /\ n <= m
    <2>1. Parts!Cardinality(Parts!Processable) = m  BY <1>7, PartsCount
    <2>2. n = IF m > maxResultsProcess THEN maxResultsProcess ELSE m  BY <1>1, <2>1
    <2> QED  BY <1>5, <1>7, <2>2, SMT
  <1>9. \A b \in out : b \in resultOffset .. (resultOffset + m - 1)  BY <1>2, <1>6, <1>7, <1>8, SMT
  <1>10. ASSUME NEW b \in out
         PROVE  /\ b \in Parts!Block /\ resultCache[b] = 0 /\ Open(b)
                /\ \A k \in kinds : PartDone(k, b)
    <2>1. b \in Parts!Processable  BY <1>7, <1>9
    <2>2. /\ b \in Parts!Block /\ b >= resultOffset
          /\ \A c \in resultOffset .. b : resultCache[c] = 0
      BY <2>1 DEF Parts!Processable
    <2>3. b \in resultOffset .. b  BY <1>6, <2>2, SMT DEF Parts!Block
    <2>4. resultCache[b] = 0 /\ 0 # Parts!Nil  BY <2>2, <2>3, SMT DEF Parts!Nil
    <2>5. resultCache[b] = Cardinality(Missing(b))  BY <2>2, <2>4 DEF PartsInv, SlotCounts
    <2>6. Missing(b) \in SUBSET kinds  BY DEF Missing
    <2>7. Missing(b) = {}
      <3>1. IsFiniteSet(Missing(b))  BY <1>4, <2>6, KindsFinite
      <3> QED  BY <2>4, <2>5, <3>1, FS_EmptySet
    <2>8. ASSUME NEW k \in kinds PROVE PartDone(k, b) /\ Open(b)
      <3>1. b \in donePool[k]  BY <2>7 DEF Missing
      <3> QED  BY <2>2, <2>8, <3>1 DEF PartsInv, PartPlaced, PartQueued, PartAsked, PartGone
    <2>9. kinds # {}
      <3>1. Cardinality(kinds) # 0  BY <1>4, KindsFinite
      <3> QED  BY <3>1, FS_EmptySet
    <2> QED  BY <2>2, <2>4, <2>8, <2>9
  <1>11. resultOffset' \in 1 .. (scheduled + 1)
    <2>1. CASE n = 0  BY <1>3, <1>5, <1>6, <2>1, SMT
    <2>2. CASE n # 0
      <3>1. PICK last : last = resultOffset + n - 1  OBVIOUS
      <3>2. last \in out  BY <1>2, <1>6, <1>8, <2>2, <3>1, SMT
      <3>3. last <= scheduled  BY <1>10, <3>2 DEF Open
      <3> QED  BY <1>3, <1>5, <1>6, <1>8, <3>1, <3>3, SMT
    <2> QED  BY <2>1, <2>2
  <1>12. PartsType'
    <2>1. donePool' \in [Parts!AllKinds -> SUBSET Parts!Block]  BY <1>3, <1>4 DEF PartsType
    <2>2. resultCache' \in [Parts!Block -> Int]
      <3>1. Parts!Nil \in Int  BY SMT DEF Parts!Nil
      <3> QED  BY <1>3, <1>4, <3>1 DEF PartsType
    <2> QED  BY <1>3, <1>4, <1>11, <2>1, <2>2 DEF PartsType
  <1>13. \A b \in Parts!Block : Open(b)' <=> (Open(b) /\ b \notin out)
    <2> TAKE b \in Parts!Block
    <2>1. b \in 1 .. Blocks  BY DEF Parts!Block
    <2> QED  BY <1>2, <1>3, <1>5, <1>6, <1>8, <2>1, SMT DEF Open
  <1>14. ASSUME NEW k \in kinds', NEW b \in Parts!Block PROVE PartPlaced(k, b)'
    <2>1. k \in kinds /\ k \in Parts!AllKinds /\ PartPlaced(k, b)  BY <1>3, <1>4 DEF PartsInv
    <2>2. \A p \in PartPeer : Requested(k, p)' = Requested(k, p)  BY <1>3, RequestedNext DEF Requested
    <2>3. CASE b \in out
      <3>1. PartDone(k, b)  BY <1>10, <2>1, <2>3
      <3>2. PartGone(k, b)'  BY <1>3, <2>1, <2>2, <2>3, <3>1 DEF PartDone, PartGone
      <3> QED  BY <1>13, <2>3, <3>2 DEF PartPlaced
    <2>4. CASE b \notin out
      <3>1. /\ resultCache'[b] = resultCache[b] /\ taskQueue'[k][b] = taskQueue[k][b]
            /\ (b \in donePool'[k]) <=> (b \in donePool[k])
            /\ (b \in taskPool'[k]) <=> (b \in taskPool[k])
        BY <1>3, <2>1, <2>4
      <3>2. Open(b)' <=> Open(b)  BY <1>13, <2>4
      <3> QED  BY <2>1, <2>2, <3>1, <3>2, PartStays
    <2> QED  BY <2>3, <2>4
  <1>15. ASSUME NEW b \in Parts!Block PROVE SlotCounts(b)'
    <2> SUFFICES ASSUME resultCache'[b] # Parts!Nil
                 PROVE  /\ resultCache'[b] = Cardinality(Missing(b)')
                        /\ \A c \in resultOffset' .. b : resultCache'[c] # Parts!Nil
      BY DEF SlotCounts
    <2>1. b \notin out /\ resultCache'[b] = resultCache[b]  BY <1>3
    <2>2. Missing(b)' = Missing(b)  BY <1>3, <1>4, <2>1 DEF Missing
    <2>3. /\ resultCache[b] = Cardinality(Missing(b))
          /\ \A c \in resultOffset .. b : resultCache[c] # Parts!Nil
      BY <2>1 DEF PartsInv, SlotCounts
    <2>4. \A c \in resultOffset' .. b : c \in resultOffset .. b /\ c \in Parts!Block /\ c \notin out
      <3>1. b \in 1 .. Blocks  BY DEF Parts!Block
      <3> QED  BY <1>2, <1>3, <1>5, <1>6, <1>8, <3>1, SMT DEF Parts!Block
    <2> QED  BY <1>3, <2>1, <2>2, <2>3, <2>4
  <1> QED  BY <1>3, <1>12, <1>14, <1>15 DEF PartsInv

LEMMA PartsNext == PartsInv /\ [Parts!Next]_Parts!vars => PartsInv'
  <1> SUFFICES ASSUME PartsInv, [Parts!Next]_Parts!vars PROVE PartsInv'  OBVIOUS
  <1>1. CASE Parts!Schedule  BY <1>1, ScheduleKeeps
  <1>2. CASE Parts!EndOfHeaders  BY <1>2, PartsStay DEF Parts!EndOfHeaders, Parts!tasks
  <1>3. CASE Parts!Wait  BY <1>3, PartsStay DEF Parts!Wait, Parts!tasks
  <1>4. CASE Parts!Results  BY <1>4, ResultsKeeps
  <1>5. ASSUME NEW k \in Parts!AllKinds, Parts!Finish(k) PROVE PartsInv'
    BY <1>5, PartsStay DEF Parts!Finish, Parts!tasks
  <1>6. ASSUME NEW k \in Parts!AllKinds, NEW p \in PartPeer, Parts!Expire(k, p) PROVE PartsInv'
    BY <1>6, ExpireKeeps
  <1>7. ASSUME NEW k \in Parts!AllKinds, NEW p \in PartPeer, NEW count \in 1 .. MaxCount,
               Parts!Reserve(k, p, count)
        PROVE  PartsInv'
    BY <1>7, ReserveKeeps
  <1>8. ASSUME NEW k \in Parts!AllKinds, NEW p \in PartPeer,
               NEW results \in 0 .. MaxCount, NEW valid \in 0 .. MaxCount,
               Parts!Deliver(k, p, results, valid)
        PROVE  PartsInv'
    BY <1>8, DeliverKeeps
  <1>9. ASSUME NEW p \in PartPeer, Parts!Revoke(p) PROVE PartsInv'
    BY <1>9, RevokeKeeps
  <1>10. CASE UNCHANGED Parts!vars  BY <1>10, PartsStay DEF Parts!vars, Parts!tasks
  <1> QED
    BY <1>1, <1>2, <1>3, <1>4, <1>5, <1>6, <1>7, <1>8, <1>9, <1>10 DEF Parts!Next

LEMMA PartsInvAlways == Parts!Spec => []PartsInv
  <1>1. Parts!Init => PartsInv  BY PartsStarts
  <1>2. PartsInv /\ [Parts!Next]_Parts!vars => PartsInv'  BY PartsNext
  <1> QED  BY <1>1, <1>2, PTL DEF Parts!Spec

\* The counts of OnePlace follow from the places of PartsInv.
LEMMA PartsCounted == PartsInv => Parts!OnePlace
  <1> SUFFICES ASSUME PartsInv PROVE Parts!OnePlace  OBVIOUS
  <1>1. PartsType /\ ~givenUp  BY DEF PartsInv
  <1>2. ASSUME NEW k \in kinds, NEW b \in Parts!Block
        PROVE  LET requests == Cardinality({p \in PartPeer : b \in Requested(k, p)})
               IN  /\ taskQueue[k][b] + requests + (IF b \in donePool[k] THEN 1 ELSE 0)
                      = IF Open(b) THEN 1 ELSE 0
                   /\ (b \in taskPool[k]) <=> (taskQueue[k][b] + requests = 1)
    <2> DEFINE asked == {p \in PartPeer : b \in Requested(k, p)}
    <2>1. PartPlaced(k, b)  BY DEF PartsInv
    <2>2. ASSUME \A p \in PartPeer : b \notin Requested(k, p) PROVE Cardinality(asked) = 0
      <3>1. asked = {}  BY <2>2
      <3> QED  BY <3>1, FS_EmptySet
    <2>3. CASE Open(b) /\ PartQueued(k, b)
      <3>1. taskQueue[k][b] = 1 /\ Cardinality(asked) = 0  BY <2>2, <2>3 DEF PartQueued
      <3>2. b \notin donePool[k] /\ b \in taskPool[k]  BY <2>3 DEF PartQueued
      <3> HIDE DEF asked
      <3>3. taskQueue[k][b] + Cardinality(asked) = 1 /\ 1 + 0 = 1  BY <3>1, SMT
      <3> QED  BY <2>3, <3>2, <3>3 DEF asked
    <2>4. CASE Open(b) /\ PartAsked(k, b)
      <3>1. PICK p \in PartPeer : b \in Requested(k, p) /\ \A q \in PartPeer : b \in Requested(k, q) => q = p
        BY <2>4 DEF PartAsked
      <3>2. asked = {p}  BY <3>1
      <3>3. taskQueue[k][b] = 0 /\ Cardinality(asked) = 1  BY <2>4, <3>2, FS_Singleton DEF PartAsked
      <3>4. b \notin donePool[k] /\ b \in taskPool[k]  BY <2>4 DEF PartAsked
      <3> HIDE DEF asked
      <3>5. taskQueue[k][b] + Cardinality(asked) = 1 /\ 1 + 0 = 1  BY <3>3, SMT
      <3> QED  BY <2>4, <3>4, <3>5 DEF asked
    <2>5. CASE Open(b) /\ PartDone(k, b)
      <3>1. taskQueue[k][b] = 0 /\ Cardinality(asked) = 0  BY <2>2, <2>5 DEF PartDone
      <3>2. b \in donePool[k] /\ b \notin taskPool[k]  BY <2>5 DEF PartDone
      <3> HIDE DEF asked
      <3>3. taskQueue[k][b] + Cardinality(asked) = 0 /\ 0 + 1 = 1 /\ 0 # 1  BY <3>1, SMT
      <3> QED  BY <2>5, <3>2, <3>3 DEF asked
    <2>6. CASE ~Open(b)
      <3>1. PartGone(k, b)  BY <2>1, <2>6 DEF PartPlaced
      <3>2. taskQueue[k][b] = 0 /\ Cardinality(asked) = 0  BY <2>2, <3>1 DEF PartGone
      <3>3. b \notin donePool[k] /\ b \notin taskPool[k]  BY <3>1 DEF PartGone
      <3> HIDE DEF asked
      <3>4. taskQueue[k][b] + Cardinality(asked) = 0 /\ 0 + 0 = 0 /\ 0 # 1  BY <3>2, SMT
      <3> QED  BY <2>6, <3>3, <3>4 DEF asked
    <2> QED  BY <2>1, <2>3, <2>4, <2>5, <2>6 DEF PartPlaced
  <1>3. ASSUME NEW k \in kinds, NEW b \in Parts!Block, resultCache[b] # Parts!Nil
        PROVE  Open(b) /\ resultCache[b] = Cardinality(Missing(b))
    BY <1>3 DEF PartsInv, PartPlaced, PartGone, SlotCounts
  <1>4. ASSUME NEW k \in kinds, NEW b \in Parts!Block
        PROVE  LET requests == Parts!Cardinality({p \in PartPeer : b \in Parts!Elements(pendPool[k][p])})
                   open == resultOffset <= b /\ b <= scheduled
               IN  /\ taskQueue[k][b] + requests + (IF b \in donePool[k] THEN 1 ELSE 0)
                      = IF open THEN 1 ELSE 0
                   /\ (b \in taskPool[k]) <=> (taskQueue[k][b] + requests = 1)
                   /\ resultCache[b] # Parts!Nil =>
                        open /\ resultCache[b] = Parts!Cardinality({j \in kinds : b \notin donePool[j]})
    <2> DEFINE asked == {p \in PartPeer : b \in Parts!Elements(pendPool[k][p])}
               missing == {j \in kinds : b \notin donePool[j]}
    <2>1. Parts!Cardinality(asked) = Cardinality(asked) /\ Parts!Cardinality(missing) = Cardinality(missing)
      BY PartsCount
    <2>2. /\ taskQueue[k][b] + Cardinality(asked) + (IF b \in donePool[k] THEN 1 ELSE 0)
             = IF Open(b) THEN 1 ELSE 0
          /\ (b \in taskPool[k]) <=> (taskQueue[k][b] + Cardinality(asked) = 1)
      BY <1>2 DEF Requested
    <2>3. resultCache[b] # Parts!Nil => Open(b) /\ resultCache[b] = Cardinality(missing)
      BY <1>3 DEF Missing
    <2> HIDE DEF asked, missing
    <2>4. /\ taskQueue[k][b] + Parts!Cardinality(asked) + (IF b \in donePool[k] THEN 1 ELSE 0)
             = IF Open(b) THEN 1 ELSE 0
          /\ (b \in taskPool[k]) <=> (taskQueue[k][b] + Parts!Cardinality(asked) = 1)
          /\ resultCache[b] # Parts!Nil => Open(b) /\ resultCache[b] = Parts!Cardinality(missing)
      BY <2>1, <2>2, <2>3
    <2> QED  BY <2>4 DEF Open, asked, missing
  <1> QED  BY <1>1, <1>4 DEF Parts!OnePlace

LEMMA PartsInOnePlace == Parts!Spec => []Parts!OnePlace
  <1>1. Parts!Spec => []PartsInv  BY PartsInvAlways
  <1>2. PartsInv => Parts!OnePlace  BY PartsCounted
  <1> QED  BY <1>1, <1>2, PTL

\* The processor is never left asleep with results to process (Results,
\* deliver, reserveHeaders).
THEOREM NeverLostWakeup == Parts!Spec => []NoLostWakeup
  <1>1. Parts!Spec => []PartsInv  BY PartsInvAlways
  <1>2. PartsInv => NoLostWakeup  BY DEF PartsInv, NoLostWakeup, Parts!NoLostWakeup
  <1> QED  BY <1>1, <1>2, PTL

\* Every part of a scheduled block is queued, asked of one peer or done, and so
\* is every batch of a skeleton, for any number of peers and blocks, any cache
\* and any limit on it; no reservation leaves the cache (reserveHeaders), and
\* no delivery finds its slot gone (deliver).
THEOREM AlwaysInOnePlace == SyncSpec => []AllInOnePlace
  <1>1. Parts!OnePlace /\ EachInOnePlace => AllInOnePlace  BY DEF AllInOnePlace
  <1> QED  BY <1>1, PartsInOnePlace, BatchesInOnePlace, PTL DEF SyncSpec
=============================================================================
