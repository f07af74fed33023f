------------------------------- MODULE TxPool -------------------------------
(***************************************************************************)
(* The transaction pool (core/tx_pool.go).  Every operation runs under     *)
(* pool.mu, so each is one step; the operators map a pool to the pool that *)
(* is left.  A list of transactions of one account is a set with at most   *)
(* one transaction per nonce and the price heap is the order of prices on  *)
(* all: core/tx_list.go implements both.  The block gas limit, which is    *)
(* filtered with the costs, the journal of local transactions and the      *)
(* events are left out.                                                    *)
(***************************************************************************)
EXTENDS Integers, SequencesExt

CONSTANTS
    Address,
    Tx,             \* the transactions there are
    Balance,        \* the FSN balances an account may have
    Price,          \* the minimal prices that may be set
    Refusals,       \* the sets of calls a state may refuse
    Mined,          \* bound: the transactions blocks may include
    PriceBump, AccountSlots, GlobalSlots, AccountQueue, GlobalQueue,  \* TxPoolConfig
    ReorgDepth,     \* 64: deeper reorganisations reinject nothing
    MaxBatch,       \* bound: transactions handed in by one call
    MayFail,        \* whether the state of a new head may be missing
    LocalsAllowed   \* ~NoLocals

\* cost is gas * price + value; need, of an FSN call, adds the fee and the FSN
\* the call moves.
Transaction == [from : Address, nonce : Nat, price : Nat, cost : Nat, need : Nat,
                kind : {"plain", "call", "ticket"}]

TxPoolAssumption ==
    /\ Tx \subseteq Transaction /\ Mined \subseteq Tx
    /\ Balance \subseteq Nat /\ Price \subseteq Nat
    /\ \A r \in Refusals : \A t \in r : t \in Tx /\ t.kind # "plain"
    /\ {PriceBump, AccountSlots, GlobalSlots, AccountQueue, GlobalQueue,
        ReorgDepth, MaxBatch} \subseteq Nat
    /\ {MayFail, LocalsAllowed} \subseteq BOOLEAN

VARIABLES
    pool,   \* the fields of TxPool
    chain   \* the transactions of the head's chain, one in each block

vars == <<pool, chain>>

\* currentState: nonces and balances, and the calls it refuses.
State == [nonce : [Address -> Nat], balance : [Address -> Balance], refused : Refusals]

\* next is pendingState, beats the accounts by heartbeat.
Pool == [pending : [Address -> SUBSET Tx], queue : [Address -> SUBSET Tx], all : SUBSET Tx,
         next : [Address -> Nat], locals : SUBSET Address, beats : Seq(Address),
         gasPrice : Price, state : State]

NoTxs == [a \in Address |-> {}]

\* The nonces of accounts after the transactions of a chain.
Nonces(c) == [a \in Address |-> Len(SelectSeq(c, LAMBDA t : t.from = a))]

Init ==
    /\ chain = <<>>
    /\ \E b \in [Address -> Balance], refused \in Refusals :
         pool = [pending |-> NoTxs, queue |-> NoTxs, all |-> {}, next |-> Nonces(<<>>),
                 locals |-> {}, beats |-> <<>>, gasPrice |-> Min(Price),
                 state |-> [nonce |-> Nonces(<<>>), balance |-> b, refused |-> refused]]

-----------------------------------------------------------------------------
(* Lists *)

At(list, n) == {t \in list : t.nonce = n}
Above(list, n) == {t \in list : t.nonce > n}
Below(list, n) == {t \in list : t.nonce < n}
NoncesOf(list) == {t.nonce : t \in list}
InNonceOrder(list) == SetToSortSeq(list, LAMBDA t, u : t.nonce < u.nonce)

\* txList.Add accepts tx: its price beats that of the one it replaces.
Accepts(list, tx) ==
    \A old \in At(list, tx.nonce) :
        old.price < tx.price /\ (old.price * (100 + PriceBump)) \div 100 <= tx.price

Put(list, tx) == (list \ At(list, tx.nonce)) \cup {tx}

\* txSortedMap.Ready: the run of nonces at the front of the list.
Ready(list, start) ==
    IF list = {} \/ Min(NoncesOf(list)) > start THEN {}
    ELSE {t \in list : \A n \in Min(NoncesOf(list)) .. t.nonce : n \in NoncesOf(list)}

\* What txSortedMap.Cap keeps.
Capped(list, size) == {t \in list : Cardinality(Below(list, t.nonce)) < size}

-----------------------------------------------------------------------------
(* Steps of one transaction *)

enqueueTx(p, tx) ==
    IF Accepts(p.queue[tx.from], tx)
    THEN [p EXCEPT !.queue[tx.from] = Put(@, tx),
                   !.all = (@ \ At(p.queue[tx.from], tx.nonce)) \cup {tx}]
    ELSE p

promoteTx(p, tx) ==
    IF Accepts(p.pending[tx.from], tx)
    THEN [p EXCEPT !.pending[tx.from] = Put(@, tx),
                   !.all = (@ \ At(p.pending[tx.from], tx.nonce)) \cup {tx},
                   !.next[tx.from] = tx.nonce + 1,
                   !.beats = Append(Remove(@, tx.from), tx.from)]
    ELSE [p EXCEPT !.all = @ \ {tx}]

\* A pending transaction goes, those after it are queued again.
removeTx(p, tx) ==
    LET a == tx.from
        left == Below(p.pending[a], tx.nonce)
        gone == [p EXCEPT !.all = @ \ {tx}]
    IN  IF tx \notin p.all THEN p
        ELSE IF At(p.pending[a], tx.nonce) # {}
        THEN FoldSet(LAMBDA t, q : enqueueTx(q, t),
                     [gone EXCEPT !.pending[a] = left,
                                  !.beats = IF left = {} THEN Remove(@, a) ELSE @,
                                  !.next[a] = IF @ > tx.nonce THEN tx.nonce ELSE @],
                     Above(p.pending[a], tx.nonce))
        ELSE [gone EXCEPT !.queue[a] = @ \ At(@, tx.nonce)]

RemoveAll(p, txs) == FoldSet(LAMBDA t, q : removeTx(q, t), p, txs)

-----------------------------------------------------------------------------
(* Promotion.  tie says which account comes first where the code leaves it  *)
(* open: equal prices and nonces, list lengths, or heartbeats.              *)

Tie == [price : Address, length : Address, beat : Address]

PromoteReady(p, a, payable) ==
    LET ready == Ready(payable, p.next[a])
    IN  FoldLeft(LAMBDA q, t : promoteTx(q, t),
                 [p EXCEPT !.queue[a] = payable \ ready, !.all = @ \ (p.queue[a] \ payable)],
                 InNonceOrder(ready))

CapAccount(p, a) ==
    LET kept == IF a \in p.locals THEN p.queue[a] ELSE Capped(p.queue[a], AccountQueue)
    IN  [p EXCEPT !.queue[a] = kept, !.all = @ \ (p.queue[a] \ kept)]

PromoteAccount(p, a) ==
    CapAccount(PromoteReady(p, a, {t \in p.queue[a] : t.nonce >= p.state.nonce[a]
                                                        /\ t.cost <= p.state.balance[a]}), a)

Size(lists) == SumFunction([a \in Address |-> Cardinality(lists[a])])

\* The last pending transaction of an account is dropped.
CapOne(p, a) ==
    LET t == CHOOSE t \in p.pending[a] : t.nonce = Max(NoncesOf(p.pending[a]))
    IN  [p EXCEPT !.pending[a] = @ \ {t}, !.all = @ \ {t},
                  !.next[a] = IF @ > t.nonce THEN t.nonce ELSE @]

\* All of the accounts lose one at a time while the last has more than floor.
RECURSIVE LevelDown(_, _, _)
LevelDown(p, accounts, floor) ==
    IF Size(p.pending) > GlobalSlots /\ Cardinality(p.pending[Last(accounts)]) > floor
    THEN LevelDown(FoldLeft(LAMBDA q, a : CapOne(q, a), p, accounts), accounts, floor)
    ELSE p

\* The offenders are brought down to the length of the next one.
RECURSIVE Equalize(_, _, _)
Equalize(p, offenders, spammers) ==
    IF Size(p.pending) <= GlobalSlots \/ spammers = <<>> THEN [pool |-> p, offenders |-> offenders]
    ELSE Equalize(IF offenders = <<>> THEN p
                  ELSE LevelDown(p, offenders, Cardinality(p.pending[Head(spammers)])),
                  Append(offenders, Head(spammers)), Tail(spammers))

\* The pending limit: large senders are penalised first, down to AccountSlots.
CapPending(p, tie) ==
    LET n(a) == Cardinality(p.pending[a])
        spammers == SetToSortSeq({a \in Address \ p.locals : n(a) > AccountSlots},
                        LAMBDA a, b : n(a) > n(b) \/ (n(a) = n(b) /\ a = tie.length))
        e == Equalize(p, <<>>, spammers)
    IN  IF e.offenders = <<>> THEN p ELSE LevelDown(e.pool, e.offenders, AccountSlots)

\* The queue limit: accounts are emptied from the end of the heartbeat order.
RECURSIVE Trim(_, _, _)
Trim(p, drop, accounts) ==
    IF drop = 0 \/ accounts = <<>> THEN p
    ELSE LET list == p.queue[Last(accounts)]
             size == Cardinality(list)
             gone == IF size <= drop THEN list ELSE list \ Capped(list, size - drop)
         IN  Trim(RemoveAll(p, gone), drop - Cardinality(gone), Front(accounts))

CapQueue(p, tie) ==
    LET beat(a) == IF \E i \in DOMAIN p.beats : p.beats[i] = a
                   THEN CHOOSE i \in DOMAIN p.beats : p.beats[i] = a ELSE 0
        accounts == SetToSortSeq({a \in Address \ p.locals : p.queue[a] # {}},
                        LAMBDA a, b : beat(a) < beat(b) \/ (beat(a) = beat(b) /\ a = tie.beat))
    IN  IF Size(p.queue) > GlobalQueue
        THEN Trim(p, Size(p.queue) - GlobalQueue, accounts) ELSE p

promoteExecutables(p, accounts, tie) ==
    CapQueue(CapPending(FoldSet(LAMBDA a, q : PromoteAccount(q, a), p, accounts), tie), tie)

-----------------------------------------------------------------------------
(* Adding *)

validateTx(p, tx, local) ==
    /\ local \/ tx.from \in p.locals \/ tx.price >= p.gasPrice
    /\ tx.nonce >= p.state.nonce[tx.from]
    /\ tx.cost <= p.state.balance[tx.from]

\* Mutant: only pending purchases are looked at.
PurchasesPending(p, tx) ==
    IF tx.kind = "ticket" THEN {t \in p.pending[tx.from] : t.kind = "ticket"} ELSE {}

\* The purchases of tx's sender that the pool holds.
Purchases(p, tx) ==
    IF tx.kind = "ticket" THEN {t \in p.all : t.kind = "ticket" /\ t.from = tx.from} ELSE {}

\* validateFsnCallTx: another purchase that does not come after tx is found.
AlreadyBought(p, tx) == \E t \in Purchases(p, tx) : tx.nonce >= t.nonce

Funded(p, tx) == tx.kind = "plain" \/ tx.need <= p.state.balance[tx.from]

\* The calls whose parameters do not fit the state or the time any more.
Refused(p, tx) == tx \in p.state.refused

\* Cheaper first; at one price the higher nonce.
Cheaper(t, u, tie) ==
    \/ t.price < u.price
    \/ t.price = u.price /\ t.nonce > u.nonce
    \/ t.price = u.price /\ t.nonce = u.nonce /\ t.from = tie.price

Underpriced(p, tx) == tx.from \notin p.locals /\ \A t \in p.all : t.price >= tx.price

\* The cheapest transactions that are not local make room for one.
Discard(p, tie) ==
    LET remote == SetToSortSeq({t \in p.all : t.from \notin p.locals},
                               LAMBDA t, u : Cheaper(t, u, tie))
        count == Cardinality(p.all) - (GlobalSlots + GlobalQueue - 1)
    IN  Range(SubSeq(remote, 1, IF count < Len(remote) THEN count ELSE Len(remote)))

Full(p) == Cardinality(p.all) >= GlobalSlots + GlobalQueue

MakeRoom(p, tie) == IF Full(p) THEN RemoveAll(p, Discard(p, tie)) ELSE p

Error(p) == [pool |-> p, ok |-> FALSE, replace |-> FALSE]

\* A pending transaction is replaced, any other goes to the queue.
Place(p, tx, local) ==
    LET pending == p.pending[tx.from]
        queued == p.queue[tx.from]
    IN  CASE At(pending, tx.nonce) # {} /\ Accepts(pending, tx) ->
               [pool |-> [p EXCEPT !.pending[tx.from] = Put(@, tx),
                                   !.all = (@ \ At(pending, tx.nonce)) \cup {tx}],
                ok |-> TRUE, replace |-> TRUE]
          [] At(pending, tx.nonce) = {} /\ Accepts(queued, tx) ->
               [pool |-> [enqueueTx(p, tx) EXCEPT
                            !.locals = IF local THEN @ \cup {tx.from} ELSE @],
                ok |-> TRUE, replace |-> At(queued, tx.nonce) # {}]
          [] OTHER -> Error(p)

\* The end of validateFsnCallTx, which has removed a later purchase, and on.
AddChecked(p, tx, local, tie) ==
    IF ~ Funded(p, tx) \/ (Full(p) /\ ~ local /\ Underpriced(p, tx)) THEN Error(p)
    ELSE Place(MakeRoom(p, tie), tx, local)

\* A transaction that is refused may have had others removed for it.
add(p, tx, local, tie) ==
    IF tx \in p.all \/ ~ validateTx(p, tx, local) \/ Refused(p, tx) \/ AlreadyBought(p, tx)
    THEN Error(p)
    ELSE AddChecked(RemoveAll(p, Purchases(p, tx)), tx, local, tie)

\* The accounts that have something new in the queue.
Track(added, dirty, from) ==
    [pool |-> added.pool, dirty |-> IF added.ok /\ ~ added.replace THEN dirty \cup {from} ELSE dirty]

PromoteDirty(r, tie) == IF r.dirty = {} THEN r.pool ELSE promoteExecutables(r.pool, r.dirty, tie)

\* addTx is a batch of one.
addTxsLocked(p, txs, local, tie) ==
    PromoteDirty(FoldLeft(LAMBDA r, tx : Track(add(r.pool, tx, local, tie), r.dirty, tx.from),
                          [pool |-> p, dirty |-> {}], txs), tie)

-----------------------------------------------------------------------------
(* A new head *)

\* Purchases are refused because of themselves: they are in the lookup.
Invalid(p, tx) == tx.kind # "plain" /\ (Refused(p, tx) \/ AlreadyBought(p, tx) \/ ~ Funded(p, tx))

\* What of a strict list is before all of some transactions.
Before(list, txs) == {t \in list : \A u \in txs : t.nonce < u.nonce}

\* Mutant: a gap at the front is left.
DemoteAccountGap(p, a) ==
    LET current == {t \in p.pending[a] : t.nonce >= p.state.nonce[a]}
        invalid == {t \in current : Invalid(p, t)}
        valid == Before(current, invalid)
        costly == {t \in valid : t.cost > p.state.balance[a]}
        kept == Before(valid, costly)
    IN  FoldSet(LAMBDA t, q : enqueueTx(q, t),
                [p EXCEPT !.pending[a] = kept,
                          !.all = @ \ ((p.pending[a] \ current) \cup invalid \cup costly),
                          !.beats = IF kept = {} THEN Remove(@, a) ELSE @],
                current \ (kept \cup invalid \cup costly))

\* Old, invalid and unpayable transactions go; those after them are queued,
\* and all are when there is a gap at the front.
DemoteAccount(p, a) ==
    LET current == {t \in p.pending[a] : t.nonce >= p.state.nonce[a]}
        invalid == {t \in current : Invalid(p, t)}
        valid == Before(current, invalid)
        costly == {t \in valid : t.cost > p.state.balance[a]}
        left == Before(valid, costly)
        kept == IF At(left, p.state.nonce[a]) = {} THEN {} ELSE left
    IN  FoldSet(LAMBDA t, q : enqueueTx(q, t),
                [p EXCEPT !.pending[a] = kept,
                          !.all = @ \ ((p.pending[a] \ current) \cup invalid \cup costly),
                          !.beats = IF kept = {} THEN Remove(@, a) ELSE @],
                current \ (kept \cup invalid \cup costly))

demoteUnexecutables(p) ==
    FoldSet(LAMBDA a, q : DemoteAccount(q, a), p, {a \in Address : p.pending[a] # {}})

\* The transactions of the old head's chain that the new one has not, newest
\* first; none when the heads' numbers are too far apart.
Reinject(old, new) ==
    LET common == Max({n \in 0 .. Len(old) :
                         n <= Len(new) /\ SubSeq(old, 1, n) = SubSeq(new, 1, n)})
        depth == IF Len(old) > Len(new) THEN Len(old) - Len(new) ELSE Len(new) - Len(old)
        discarded == Reverse(SubSeq(old, common + 1, Len(old)))
        included == Range(SubSeq(new, common + 1, Len(new)))
    IN  IF depth > ReorgDepth THEN <<>>
        ELSE SelectSeq(discarded, LAMBDA t : t \notin included)

\* Nonces after what is left pending, and what became ready.
Refresh(p, tie) ==
    LET last(a) == IF p.pending[a] = {} THEN p.next[a] ELSE Max(NoncesOf(p.pending[a])) + 1
    IN  promoteExecutables([p EXCEPT !.next = [a \in Address |-> last(a)]],
                           {a \in Address : p.queue[a] # {}}, tie)

reset(p, old, new, tie) ==
    Refresh(demoteUnexecutables(addTxsLocked([p EXCEPT !.next = p.state.nonce],
                                             Reinject(old, new), FALSE, tie)), tie)

-----------------------------------------------------------------------------
(* The operations *)

\* AddLocal(s), AddRemote(s).
AddTxs(txs, local, tie) ==
    /\ local => LocalsAllowed
    /\ pool' = addTxsLocked(pool, txs, local, tie)
    /\ UNCHANGED chain

SetGasPrice(price) ==
    /\ pool' = RemoveAll([pool EXCEPT !.gasPrice = price],
                         {t \in pool.all : t.from \notin pool.locals /\ t.price < price})
    /\ UNCHANGED chain

\* The chains a head may be on after c: a block or two more, or a fork.
Executable(c) == \A i \in 1 .. Len(c) : c[i].nonce = Nonces(SubSeq(c, 1, i - 1))[c[i].from]

NextChains(c) ==
    { d \in { SubSeq(c, 1, n) \o s :
                n \in 0 .. Len(c), s \in {<<t>> : t \in Mined} \cup {<<t, u>> : t, u \in Mined} } :
        d # c /\ Executable(d) }

\* A chain head event: the pool takes the state of the new head.
NewHead(c, balance, refused, tie) ==
    /\ chain' = c
    /\ pool' = reset([pool EXCEPT !.state = [nonce |-> Nonces(c), balance |-> balance,
                                             refused |-> refused]], chain, c, tie)

\* The state of the new head cannot be opened: the pool keeps the old one.
NewHeadFails(c) ==
    /\ MayFail
    /\ chain' = c
    /\ UNCHANGED pool

\* The eviction tick: the queues of accounts that have been silent for too long,
\* and the purchases that have waited for too long.
Evict(accounts, old) ==
    /\ accounts \subseteq {a \in Address \ pool.locals : pool.queue[a] # {}}
    /\ old \subseteq {t \in pool.all : t.kind = "ticket"}
    /\ pool' = RemoveAll(RemoveAll(pool, UNION {pool.queue[a] : a \in accounts}), old)
    /\ UNCHANGED chain

TxLists == UNION {[1 .. n -> Tx] : n \in 1 .. MaxBatch}

Next ==
    \/ \E txs \in TxLists, local \in BOOLEAN, tie \in Tie : AddTxs(txs, local, tie)
    \/ \E price \in Price : SetGasPrice(price)
    \/ \E c \in NextChains(chain) :
         \/ \E b \in [Address -> Balance], refused \in Refusals, tie \in Tie :
              NewHead(c, b, refused, tie)
         \/ NewHeadFails(c)
    \/ \E accounts \in SUBSET Address, old \in SUBSET {t \in pool.all : t.kind = "ticket"} :
         Evict(accounts, old)

Spec == Init /\ [][Next]_vars

-----------------------------------------------------------------------------
(* Properties *)

\* "All currently processable transactions" is the comment on pending: each
\* account's pending transactions start at its nonce and have no gap.
PendingIsProcessable ==
    \A a \in Address :
        LET list == pool.pending[a]
        IN  NoncesOf(list) = {pool.state.nonce[a] + i : i \in 0 .. Cardinality(list) - 1}

\* Pending transactions are not older than the state and can be paid one by one.
PendingIsPayable ==
    \A a \in Address : \A t \in pool.pending[a] :
        t.nonce >= pool.state.nonce[a] /\ t.cost <= pool.state.balance[a]

\* What the miner is given can be executed: pending transactions have no gap, can
\* be paid one by one, and the virtual nonce is the one after them, whatever
\* heads, forks, replacements and price limits come between.
PendingIsReady ==
    /\ PendingIsProcessable /\ PendingIsPayable
    /\ \A a \in Address : pool.next[a] = pool.state.nonce[a] + Cardinality(pool.pending[a])

\* An account has at most one ticket purchase in the pool.
OnePurchase ==
    \A t, u \in pool.all : t.kind = "ticket" /\ u.kind = "ticket" /\ t.from = u.from => t = u
=============================================================================
