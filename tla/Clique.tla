---- MODULE Clique ----
(***************************************************************************)
(* The proof-of-authority engine (consensus/clique).  Authorized signers   *)
(* take turns in signing blocks; a header may carry one vote to authorize  *)
(* or to drop an account, and a majority of the signers changes the set.   *)
(*                                                                         *)
(* snap is the voting snapshot of the head of one branch.  It is a         *)
(* function of the headers, so the caches of Clique.snapshot, which only   *)
(* shorten the way to it, are left out, and so are other branches.  light  *)
(* is the snapshot of a node that began at a trusted checkpoint and has    *)
(* none of the headers before it.  The rest is one signing node: its key,  *)
(* its proposals, the header it prepared and the header it sealed.  The    *)
(* other signers run the same code: their headers are those that Prepare   *)
(* and Seal would produce under some proposals.                            *)
(***************************************************************************)
EXTENDS Integers, FiniteSets

CONSTANTS
    Address,     \* accounts; their numbers give the order of their bytes
    Genesis,     \* the signers listed in the extra data of the genesis block
    Keys,        \* accounts whose keys the local node may be given
    Epoch,       \* blocks between two checkpoints
    Word,        \* the number of values of an unsigned integer (2^64)
    MaxBlocks,   \* bound: blocks on top of the genesis block
    MaxCalls     \* bound: calls of Propose, Discard and Authorize

ASSUME CliqueAssumption ==
    /\ Address \subseteq Nat \ {0} /\ IsFiniteSet(Address)
    /\ Genesis \subseteq Address /\ Keys \subseteq Address
    /\ Epoch \in Nat \ {0} /\ Word \in Nat \ {0}
    /\ MaxBlocks \in Nat /\ MaxBlocks < Word    \* block numbers do not wrap
    /\ MaxCalls \in Nat

VARIABLES
    snap,        \* the Snapshot of the head
    head,        \* the header of the head
    light,       \* the snapshot of a node that began at a checkpoint, or None
    signer,      \* Clique.signer
    proposals,   \* Clique.proposals
    work,        \* the header that Prepare filled in, or None
    sealed,      \* the header that Seal signed, or None
    crashed,     \* the process panicked
    calls        \* calls of the API so far

vars == <<snap, head, light, signer, proposals, work, sealed, crashed, calls>>
engine == <<signer, proposals, calls>>

None == [none |-> TRUE]
Zero == 0        \* the empty coinbase: no vote

Vote == [signer : Address, block : Nat, address : Address, authorize : BOOLEAN]
Tally == [authorize : BOOLEAN, votes : Nat \ {0}]
Header == [number : Nat, signer : Address \cup {Zero}, coinbase : Address \cup {Zero},
           authorize : BOOLEAN, signers : SUBSET Address, difficulty : {1, 2}]

Empty == [x \in {} |-> x]

newSnapshot(number, signers) ==
    [number |-> number, signers |-> signers, recents |-> Empty,
     votes |-> {}, tally |-> Empty]

Limit(signers) == Cardinality(signers) \div 2 + 1

(***************************************************************************)
(* snapshot.go: votes and their tally.                                     *)
(***************************************************************************)
validVote(signers, address, authorize) == (address \in signers) <=> ~authorize

cast(tally, address, authorize) ==
    [a \in DOMAIN tally \cup {address} |->
        IF a # address THEN tally[a]
        ELSE IF a \in DOMAIN tally THEN [tally[a] EXCEPT !.votes = @ + 1]
        ELSE [authorize |-> authorize, votes |-> 1]]

\* Votes of the set gone that were counted for the account.
Counted(tally, gone, a) ==
    Cardinality({v \in gone : v.address = a /\ v.authorize = tally[a].authorize})

\* uncast, called for each vote of the set gone.
uncast(tally, gone) ==
    [a \in {b \in DOMAIN tally : Counted(tally, gone, b) < tally[b].votes} |->
        [tally[a] EXCEPT !.votes = @ - Counted(tally, gone, a)]]

(***************************************************************************)
(* snapshot.go: apply, for one header on top of the snapshot.  A missing   *)
(* entry of the recent signers may be deleted: the guard number >= limit   *)
(* only avoids a wrapped key, which no entry has.                          *)
(***************************************************************************)
Delete(map, key) == [x \in DOMAIN map \ {key} |-> map[x]]

\* Mutant: votes survive the checkpoint.
BeginKeepsVotes(s, h) ==
    [s EXCEPT !.recents = Delete(@, h.number - Limit(s.signers))]

\* At a checkpoint the votes go; the oldest recent signer may sign again.
Begin(s, h) ==
    [s EXCEPT !.votes = IF h.number % Epoch = 0 THEN {} ELSE @,
              !.tally = IF h.number % Epoch = 0 THEN Empty ELSE @,
              !.recents = Delete(@, h.number - Limit(s.signers))]

\* The signer may sign: neither errUnauthorizedSigner nor errRecentlySigned.
MaySign(s, who) ==
    /\ who \in s.signers
    /\ \A k \in DOMAIN s.recents : s.recents[k] # who

Record(s, h) ==
    [s EXCEPT !.recents = [k \in DOMAIN @ \cup {h.number} |->
                              IF k = h.number THEN h.signer ELSE @[k]]]

RemoveVotes(s, gone) ==
    [s EXCEPT !.votes = @ \ gone, !.tally = uncast(@, gone)]

\* Mutant: an earlier vote of the signer stays.
PreviousNone(s, h) == {}

\* The first vote in the list that this signer cast on this account.
Previous(s, h) ==
    LET same == {v \in s.votes : v.signer = h.signer /\ v.address = h.coinbase}
    IN  {v \in same : \A w \in same : v.block <= w.block}

CastVote(s, h) ==
    IF validVote(s.signers, h.coinbase, h.authorize)
    THEN [s EXCEPT !.tally = cast(@, h.coinbase, h.authorize),
                   !.votes = @ \cup {[signer |-> h.signer, block |-> h.number,
                                      address |-> h.coinbase,
                                      authorize |-> h.authorize]}]
    ELSE s

\* Mutant: half of the signers is enough.
PassedByHalf(s, a) ==
    /\ a \in DOMAIN s.tally
    /\ s.tally[a].votes >= Cardinality(s.signers) \div 2

Passed(s, a) ==
    /\ a \in DOMAIN s.tally
    /\ s.tally[a].votes > Cardinality(s.signers) \div 2

\* Mutant: the recent signers are not shortened with the signers.
DeauthorizeKeeps(s, h) ==
    RemoveVotes([s EXCEPT !.signers = @ \ {h.coinbase}],
                {v \in s.votes : v.signer = h.coinbase})

\* The signer is dropped, and with it the votes that it cast.
Deauthorize(s, h) ==
    LET rest == s.signers \ {h.coinbase}
        cut == [s EXCEPT !.signers = rest,
                         !.recents = Delete(@, h.number - Limit(rest))]
    IN  RemoveVotes(cut, {v \in s.votes : v.signer = h.coinbase})

\* Votes around the changed account are discarded.
Settle(s, a) ==
    [s EXCEPT !.votes = {v \in @ : v.address # a},
              !.tally = Delete(@, a)]

Enact(s, h) ==
    IF ~Passed(s, h.coinbase) THEN s
    ELSE IF s.tally[h.coinbase].authorize
         THEN Settle([s EXCEPT !.signers = @ \cup {h.coinbase}], h.coinbase)
         ELSE Settle(Deauthorize(s, h), h.coinbase)

CanApply(s, h) == h.number = s.number + 1 /\ MaySign(Begin(s, h), h.signer)

apply(s, h) ==
    LET recorded == Record(Begin(s, h), h)
        replaced == RemoveVotes(recorded, Previous(recorded, h))
    IN  [Enact(CastVote(replaced, h), h) EXCEPT !.number = h.number]

(***************************************************************************)
(* clique.go: difficulty, verification and production of a header.         *)
(***************************************************************************)
inturn(s, number, who) ==
    /\ who \in s.signers
    /\ number % Cardinality(s.signers) = Cardinality({a \in s.signers : a < who})

CalcDifficulty(s, who) == IF inturn(s, s.number + 1, who) THEN 2 ELSE 1

verifySeal(s, h) ==
    /\ h.signer \in s.signers
    /\ \A seen \in DOMAIN s.recents : s.recents[seen] = h.signer =>
           ~(seen > (h.number - Limit(s.signers)) % Word)
    /\ h.difficulty = CalcDifficulty(s, h.signer)

verifyHeader(s, h) ==
    /\ h.number = s.number + 1
    /\ h.number % Epoch = 0 => h.coinbase = Zero /\ ~h.authorize
    /\ h.signers = IF h.number % Epoch = 0 THEN s.signers ELSE {}
    /\ verifySeal(s, h)

\* Mutant: a checkpoint carries a vote too.
PreparedVotes(s, who, props) ==
    LET makeSense == {a \in DOMAIN props : validVote(s.signers, a, props[a])}
        noVote == [number |-> s.number + 1, signer |-> who, coinbase |-> Zero,
                   authorize |-> FALSE, difficulty |-> CalcDifficulty(s, who),
                   signers |-> IF (s.number + 1) % Epoch = 0 THEN s.signers ELSE {}]
    IN  IF makeSense = {} THEN {noVote}
        ELSE {[noVote EXCEPT !.coinbase = a, !.authorize = props[a]] : a \in makeSense}

\* The headers that Prepare may fill in for the account who.
Prepared(s, who, props) ==
    LET number == s.number + 1
        makeSense == {a \in DOMAIN props : validVote(s.signers, a, props[a])}
        checkpoint == number % Epoch = 0
        noVote == [number |-> number, signer |-> who, coinbase |-> Zero,
                   authorize |-> FALSE, difficulty |-> CalcDifficulty(s, who),
                   signers |-> IF checkpoint THEN s.signers ELSE {}]
    IN  IF checkpoint \/ makeSense = {} THEN {noVote}
        ELSE {[noVote EXCEPT !.coinbase = a, !.authorize = props[a]] : a \in makeSense}

\* Seal goes on: the account is a signer, and not among the recent ones unless
\* the block shifts it out.
Permitted(s, who) ==
    LET number == s.number + 1
        limit == Limit(s.signers)
    IN  /\ who \in s.signers
        /\ \A seen \in DOMAIN s.recents : s.recents[seen] = who =>
               ~(number < limit \/ seen > number - limit)

(***************************************************************************)
(* Steps.                                                                  *)
(***************************************************************************)
\* The block becomes the head.  The light node takes it if it verifies it.
Extend(h) ==
    /\ snap.number < MaxBlocks
    /\ snap' = apply(snap, h) /\ head' = h
    /\ light' = IF light # None /\ verifyHeader(light.snap, h) /\ CanApply(light.snap, h)
                THEN [light EXCEPT !.snap = apply(@, h)] ELSE light
    /\ work' = None /\ sealed' = None

AnyProposal == {Empty} \cup UNION {[{a} -> BOOLEAN] : a \in Address}

\* A block of another signer, with the vote of one of its proposals.
Import(who) ==
    /\ Permitted(snap, who)
    /\ \E props \in AnyProposal : \E h \in Prepared(snap, who, props) :
           verifyHeader(snap, h) /\ CanApply(snap, h) /\ Extend(h)
    /\ UNCHANGED <<engine, crashed>>

\* Prepare; with no signers left, inturn divides by zero.
Prepare ==
    /\ snap.number < MaxBlocks
    /\ IF snap.signers = {}
       THEN crashed' = TRUE /\ UNCHANGED work
       ELSE work' \in Prepared(snap, signer, proposals) /\ UNCHANGED crashed
    /\ UNCHANGED <<snap, head, light, sealed, engine>>

\* Seal signs the prepared header with the key of this moment and waits.
Seal ==
    /\ work # None /\ Permitted(snap, signer)
    /\ sealed' = [work EXCEPT !.signer = signer] /\ work' = None
    /\ UNCHANGED <<snap, head, light, crashed, engine>>

\* The worker writes the sealed block without verifying it.
Write ==
    /\ sealed # None /\ Extend(sealed)
    /\ UNCHANGED <<engine, crashed>>

\* The wait is stopped, or nobody reads the result.
Stop ==
    /\ sealed # None /\ sealed' = None
    /\ UNCHANGED <<snap, head, light, work, crashed, engine>>

\* A node without the headers before the checkpoint begins there.
Checkpoint ==
    /\ light = None /\ snap.number > 0 /\ snap.number % Epoch = 0
    /\ light' = [base |-> head.number, snap |-> newSnapshot(head.number, head.signers)]
    /\ UNCHANGED <<snap, head, work, sealed, crashed, engine>>

Call ==
    /\ calls < MaxCalls /\ calls' = calls + 1
    /\ UNCHANGED <<snap, head, light, work, sealed, crashed>>

Propose(a, auth) ==
    /\ Call
    /\ proposals' = [x \in DOMAIN proposals \cup {a} |-> IF x = a THEN auth ELSE proposals[x]]
    /\ UNCHANGED signer

Discard(a) == Call /\ proposals' = Delete(proposals, a) /\ UNCHANGED signer

Authorize(key) == Call /\ signer' = key /\ UNCHANGED proposals

Init ==
    /\ snap = newSnapshot(0, Genesis)
    /\ head = [number |-> 0, signer |-> Zero, coinbase |-> Zero, authorize |-> FALSE,
               signers |-> Genesis, difficulty |-> 1]
    /\ light = None /\ signer \in Keys /\ proposals = Empty
    /\ work = None /\ sealed = None /\ crashed = FALSE /\ calls = 0

Next ==
    /\ ~crashed
    /\ \/ \E who \in Address : Import(who)
       \/ Prepare \/ Seal \/ Write \/ Stop \/ Checkpoint
       \/ \E a \in Address, auth \in BOOLEAN : Propose(a, auth)
       \/ \E a \in Address : Discard(a)
       \/ \E key \in Keys : Authorize(key)

Spec == Init /\ [][Next]_vars

(***************************************************************************)
(* Properties.                                                             *)
(***************************************************************************)
\* However the set of signers grew and shrank, the recent signers that
\* apply remembers never lock out more than half of it: the chain goes on
\* while a majority of the signers is there (limit in Snapshot.apply).
EnoughCanSign ==
    Cardinality({s \in snap.signers :
                     MaySign(Begin(snap, [number |-> snap.number + 1]), s)})
        >= Cardinality(snap.signers) - Cardinality(snap.signers) \div 2

\* The tally that apply keeps incrementally is the count of the standing
\* votes: each by a present signer, at most one per signer and account, each
\* for a change that is still to be made (cast, uncast and the discarding
\* loops of Snapshot.apply).
TallyIsVotes ==
    /\ DOMAIN snap.tally = {v.address : v \in snap.votes}
    /\ \A a \in DOMAIN snap.tally :
           snap.tally[a] = [authorize |-> a \notin snap.signers,
                            votes |-> Cardinality({v \in snap.votes : v.address = a})]
    /\ \A v \in snap.votes :
           /\ v.signer \in snap.signers
           /\ v.authorize <=> v.address \notin snap.signers
    /\ \A v, w \in snap.votes :
           v.signer = w.signer /\ v.address = w.address => v = w

\* The rule on recent signers is written twice: the block that Seal goes on
\* with is the block that Snapshot.apply takes, for every signer.
SealAgrees ==
    \A who \in Address :
        Permitted(snap, who) <=> MaySign(Begin(snap, [number |-> snap.number + 1]), who)

\* A node that began at a checkpoint, where newSnapshot leaves the recent
\* signers out, follows the chain and computes the same signers and votes,
\* and the same recent signers from the checkpoint on.
LightAgrees ==
    light # None =>
        /\ light.snap.number = snap.number /\ light.snap.signers = snap.signers
        /\ light.snap.votes = snap.votes /\ light.snap.tally = snap.tally
        /\ light.snap.recents =
               [k \in {b \in DOMAIN snap.recents : b > light.base} |-> snap.recents[k]]

\* What the node sealed passes the verification of its peers, although the
\* header was prepared earlier, from proposals that changed since.
SealedVerifies == sealed # None => verifyHeader(snap, sealed) /\ CanApply(snap, sealed)

\* A change of the signers by the vote of the new head.
ByMajority ==
    snap'.signers # snap.signers =>
        LET a == head'.coinbase
            voters == {v.signer : v \in {w \in snap.votes : w.address = a}}
        IN  /\ snap'.signers = IF a \in snap.signers THEN snap.signers \ {a}
                               ELSE snap.signers \cup {a}
            /\ 2 * Cardinality((voters \cap snap.signers) \cup {head'.signer})
                   > Cardinality(snap.signers)

\* The signers change by one account at a time, and only when more than half
\* of them, with different signers for different votes, stand for the change.
MajorityChanges == [][ByMajority]_vars

====
