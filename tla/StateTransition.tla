-------------------------- MODULE StateTransition --------------------------
(***************************************************************************)
(* One transaction of a block: TransitionDb (core/state_transition.go),    *)
(* run by the worker that packs a block (miner/worker.go), which drops a   *)
(* transaction that fails, and by the node that imports the block          *)
(* (core/state_processor.go, core/block_validator.go), which must come to  *)
(* the header's state or reject the block.  What an FSN call does to the   *)
(* ledger is in Assets, Swaps and Tickets; here a call pays, buys a ticket *)
(* or fails, before or after its first write.                              *)
(***************************************************************************)
EXTENDS Integers, FiniteSets, Sequences, Functions

CONSTANTS
    Address, Coinbase,
    GenesisBalance,   \* of every account
    GasLimit, TxGas,
    TicketPrice, Reward,
    Tx,               \* the transactions
    Pools,            \* what TxPool.Pending may return: a sequence per account
    MaxHeight         \* bound: the last block explored

\* call: "none", "pay" (spend FSN for to), "ticket", "oldticket" (one that ends
\* before the block's time), "row" (fails after reading an asset the sender does
\* not have), "late" (fails after paying), "clock" (pays if the node's clock is
\* not early).  vm: how the EVM ends; burn and
\* refund are its gas.
Transaction ==
    [from : Address, nonce : Nat, gas : Nat, price : Nat, fee : Nat, intrinsic : Nat,
     call : {"none", "pay", "ticket", "oldticket", "row", "late", "clock"}, spend : Nat,
     to : Address, value : Nat, vm : {"ok", "revert", "fail"}, burn : Nat, refund : Nat]

StateTransitionAssumption ==
    /\ Coinbase \in Address /\ IsFiniteSet(Address)
    /\ {GenesisBalance, GasLimit, TxGas, TicketPrice, Reward, MaxHeight} \subseteq Nat
    /\ TxGas > 0 /\ Tx \subseteq Transaction
    /\ \A tx \in Tx : tx.intrinsic + tx.burn <= tx.gas \/ tx.gas < tx.intrinsic
    /\ Pools \subseteq [Address -> Seq(Tx)]
    /\ \A p \in Pools, a \in Address : \A i \in DOMAIN p[a] : p[a][i].from = a

VARIABLES
    phase,      \* "idle", "mine" or "import"
    parent,     \* the world at the head of the chain
    chain,      \* history: the transactions of the accepted blocks
    height,
    cur,        \* environment.state of the worker
    pool,       \* the GasPool of the worker or of Process
    used,       \* header.GasUsed in the worker, usedGas in Process
    txs,        \* TransactionsByPriceAndNonce, or the rest of the block to import
    touched,    \* accounts that the packed transactions dirtied
    packed,     \* the transactions of the block
    header,     \* what the sealed header commits to
    clock       \* the clocks of worker and importer: late or early

vars == <<phase, parent, chain, height, cur, pool, used, txs, touched, packed, header, clock>>

\* A world: accounts, with their balance rows, and tickets.
Account == [balance : Int, nonce : Nat, row : BOOLEAN]
World == [acct : [Address -> Account], tickets : SUBSET (Address \X Nat)]

NoHeader == [root |-> <<>>, tickets |-> {}, gasUsed |-> 0, known |-> FALSE, clean |-> TRUE]

Init ==
    /\ phase = "idle"
    /\ parent = [acct |-> [a \in Address |-> [balance |-> GenesisBalance, nonce |-> 0, row |-> FALSE]],
                 tickets |-> {}]
    /\ chain = <<>> /\ height = 1
    /\ cur = parent /\ pool = 0 /\ used = 0
    /\ txs = [a \in Address |-> <<>>]
    /\ touched = {} /\ packed = <<>> /\ header = NoHeader
    /\ clock = [worker |-> TRUE, importer |-> TRUE]

-----------------------------------------------------------------------------
(* TransitionDb *)

Credit(w, a, v) == [w EXCEPT !.acct[a].balance = @ + v]

GetBalance(w, a) == w.acct[a].balance

IsBuyTicketTx(tx) == tx.call \in {"ticket", "oldticket"}

mgval(tx) == tx.gas * tx.price + tx.fee

\* preCheck, and the checks of buyGas.
preCheck(w, gp, tx) ==
    CASE w.acct[tx.from].nonce < tx.nonce -> "nonce too high"
      [] w.acct[tx.from].nonce > tx.nonce -> "nonce too low"
      [] GetBalance(w, tx.from) < mgval(tx) -> "insufficient balance for gas"
      [] gp < tx.gas -> "gas limit reached"
      [] OTHER -> "ok"

\* What handleFsnCall leaves, and whether it returns nil.
handleFsnCall(w, tx, late) ==
    LET paid == Credit(Credit(w, tx.from, -tx.spend), tx.to, tx.spend)
        ticket == <<tx.from, height>>
        Fails(world) == [w |-> world, ok |-> FALSE]
        Done(world) == [w |-> world, ok |-> TRUE]
    IN  CASE tx.call = "none" -> Done(w)
          [] tx.call = "row" -> Fails([w EXCEPT !.acct[tx.from].row = TRUE])
          [] tx.call = "clock" /\ ~late -> Fails(w)
          [] IsBuyTicketTx(tx) ->
               IF ticket \in w.tickets \/ GetBalance(w, tx.from) < TicketPrice THEN Fails(w)
               ELSE Done([Credit(w, tx.from, -TicketPrice) EXCEPT !.tickets = @ \cup {ticket}])
          [] OTHER ->
               IF GetBalance(w, tx.from) < tx.spend THEN Fails(w)
               ELSE IF tx.call = "late" THEN Fails(paid) ELSE Done(paid)

CanTransfer(w, tx) == GetBalance(w, tx.from) >= tx.value

\* evm.Call once the sender can afford the value: on an error the transfer and
\* the refund counter are undone; only a revert leaves the remaining gas.
evmCall(w, tx) ==
    LET gas == tx.gas - tx.intrinsic
    IN  [w |-> IF tx.vm = "ok" THEN Credit(Credit(w, tx.from, -tx.value), tx.to, tx.value) ELSE w,
         gas |-> IF tx.vm = "fail" THEN 0 ELSE gas - tx.burn,
         refund |-> IF tx.vm = "ok" THEN tx.refund ELSE 0]

\* Mutant: the miner is paid for the refunded gas too.
refundGasTwice(tx, gas, counter) ==
    LET gasUsed == tx.gas - gas
        refund == IF gasUsed \div 2 > counter THEN counter ELSE gasUsed \div 2
    IN  [gas |-> gas + refund, remaining |-> (gas + 2 * refund) * tx.price]

\* refundGas: the gas that is left, with the refund capped to half of what was
\* used, and the FSN that goes back for it.
refundGas(tx, gas, counter) ==
    LET gasUsed == tx.gas - gas
        refund == IF gasUsed \div 2 > counter THEN counter ELSE gasUsed \div 2
    IN  [gas |-> gas + refund, remaining |-> (gas + refund) * tx.price]

\* TransitionDb on world w with gas pool gp: the error, and what it leaves.
TransitionDb(w, gp, tx, mining, late) ==
    LET pre == preCheck(w, gp, tx)
        bought == Credit(w, tx.from, -mgval(tx))
        call == handleFsnCall([bought EXCEPT !.acct[tx.from].nonce = @ + 1], tx, late)
        vm == evmCall(call.w, tx)
        left == refundGas(tx, vm.gas, vm.refund)
        gasUsed == tx.gas - left.gas
        fees == gasUsed * tx.price + tx.fee
        Stop(err, world) == [err |-> err, w |-> world, pool |-> gp - tx.gas, used |-> 0]
    IN  CASE pre # "ok" -> [err |-> pre, w |-> w, pool |-> gp, used |-> 0]
          [] pre = "ok" /\ tx.gas < tx.intrinsic -> Stop("out of gas", bought)
          [] pre = "ok" /\ tx.gas >= tx.intrinsic /\ ~call.ok /\ mining -> Stop("call", call.w)
          [] OTHER ->
               IF ~CanTransfer(call.w, tx) THEN Stop("insufficient balance", call.w)
               ELSE [err |-> "ok",
                     w |-> Credit(Credit(vm.w, tx.from, left.remaining), Coinbase, fees),
                     pool |-> gp - gasUsed, used |-> gasUsed]

-----------------------------------------------------------------------------
(* The worker *)

\* makeCurrent on the parent, with what the pool offers.
StartBlock(p, late) ==
    /\ phase = "idle" /\ height <= MaxHeight
    /\ phase' = "mine" /\ cur' = parent /\ pool' = GasLimit /\ used' = 0
    /\ txs' = p /\ touched' = {} /\ packed' = <<>> /\ header' = NoHeader
    /\ clock' = [clock EXCEPT !.worker = late]
    /\ UNCHANGED <<parent, chain, height>>

\* TxByPrice: purchases of tickets first, in any order, then the better price.
Best(a) ==
    /\ txs[a] # <<>>
    /\ \/ IsBuyTicketTx(Head(txs[a]))
       \/ \A b \in Address : txs[b] # <<>> =>
            ~IsBuyTicketTx(Head(txs[b])) /\ Head(txs[b]).price <= Head(txs[a]).price

\* Mutant: a dropped transaction keeps the nonce it took.
RevertToSnapshotNonce(w, after) ==
    [acct |-> [a \in Address |-> [w.acct[a] EXCEPT !.row = after.acct[a].row,
                                                   !.nonce = after.acct[a].nonce]],
     tickets |-> after.tickets]

\* RevertToSnapshot: rows and tickets have no journal entries.
RevertToSnapshot(w, after) ==
    [acct |-> [a \in Address |-> [w.acct[a] EXCEPT !.row = after.acct[a].row]],
     tickets |-> after.tickets]

Dirty(w, after) ==
    {a \in Address : w.acct[a].balance # after.acct[a].balance \/ w.acct[a].nonce # after.acct[a].nonce}

\* commitTransactions, one round: the best head is packed, or dropped with the
\* rest of its account (Pop) or alone (Shift).
commitTransaction(a) ==
    LET tx == Head(txs[a])
        r == TransitionDb(cur, pool, tx, TRUE, clock.worker)
    IN  /\ phase = "mine" /\ pool >= TxGas /\ Best(a)
        /\ pool' = r.pool
        /\ IF r.err = "ok"
             THEN /\ cur' = r.w
                  /\ used' = used + r.used
                  /\ packed' = Append(packed, tx)
                  /\ touched' = touched \cup Dirty(cur, r.w)
             ELSE /\ cur' = RevertToSnapshot(cur, r.w)
                  /\ UNCHANGED <<used, packed, touched>>
        /\ txs' = [txs EXCEPT ![a] =
                     IF r.err \in {"gas limit reached", "nonce too high"} THEN <<>> ELSE Tail(@)]
        /\ UNCHANGED <<phase, parent, chain, height, header, clock>>

\* Finalize pays the reward; only dirty accounts reach the root.
Finalize(w) == Credit(w, Coinbase, Reward)

\* What a dropped transaction leaves in the worker's state: tickets, or rows of
\* accounts that the block writes (the miner is one: Finalize pays the reward).
\* Only history: header.clean.
Residue ==
    \/ cur.tickets # parent.tickets \cup
         {<<packed[i].from, height>> : i \in {j \in DOMAIN packed : IsBuyTicketTx(packed[j])}}
    \/ \E a \in touched \cup {Coinbase} : cur.acct[a].row # parent.acct[a].row

\* The worker commits its work: when it has tried all, or earlier when a
\* resubmit interrupts it.
commit ==
    /\ phase = "mine"
    /\ LET w == Finalize(cur)
       IN  header' = [root |-> [a \in Address |->
                                 IF a \in touched \cup {Coinbase} THEN w.acct[a] ELSE parent.acct[a]],
                      tickets |-> w.tickets, gasUsed |-> used, known |-> TRUE, clean |-> ~Residue]
    /\ phase' = "import" /\ pool' = GasLimit /\ used' = 0 /\ cur' = parent
    /\ txs' = [a \in Address |-> <<>>]
    /\ \E late \in BOOLEAN : clock' = [clock EXCEPT !.importer = late]
    /\ UNCHANGED <<parent, chain, height, touched, packed>>

\* A block of another node, whose worker may pack calls that fail; its header
\* is the one the importer will compute.
ForeignBlock(p, a) ==
    /\ phase = "idle" /\ height <= MaxHeight /\ p[a] # <<>>
    /\ phase' = "import" /\ pool' = GasLimit /\ used' = 0 /\ cur' = parent
    /\ packed' = p[a] /\ header' = NoHeader /\ touched' = {}
    /\ \E late \in BOOLEAN : clock' = [clock EXCEPT !.importer = late]
    /\ UNCHANGED <<parent, chain, height, txs>>

-----------------------------------------------------------------------------
(* The importer *)

\* ValidateRawTransaction: one purchase of a ticket per account, looking no
\* further than the first purchase whose own check fails.
ValidateRawTransaction(block) ==
    \A j \in DOMAIN block : \A i \in 1 .. j - 1 :
        IsBuyTicketTx(block[i]) /\ IsBuyTicketTx(block[j]) /\ block[i].from = block[j].from
            => \E k \in 1 .. j - 1 : block[k].call = "oldticket"

\* Process, up to the first error.
Step(acc, tx, late) ==
    IF acc.err # "ok" THEN acc
    ELSE LET r == TransitionDb(acc.w, acc.pool, tx, FALSE, late)
         IN  [err |-> r.err, w |-> r.w, pool |-> r.pool, used |-> acc.used + r.used]

Process(block) ==
    LET after[i \in 0 .. Len(block)] ==
          IF i = 0 THEN [err |-> "ok", w |-> cur, pool |-> GasLimit, used |-> 0]
          ELSE Step(after[i - 1], block[i], clock.importer)
    IN  [after[Len(block)] EXCEPT !.w = Finalize(@)]

\* MixDigest in Finalize, then ValidateState.
ValidateState(r) ==
    header.known =>
        /\ r.w.tickets = header.tickets /\ r.used = header.gasUsed /\ r.w.acct = header.root

Accepts(r) == ValidateRawTransaction(packed) /\ r.err = "ok" /\ ValidateState(r)

\* Import of the block: it becomes the head, or is rejected.
InsertBlock ==
    LET r == Process(packed)
    IN  /\ phase = "import"
        /\ IF Accepts(r)
             THEN parent' = r.w /\ chain' = chain \o packed /\ height' = height + 1
             ELSE UNCHANGED <<parent, chain, height>>
        /\ phase' = "idle" /\ cur' = parent' /\ pool' = 0 /\ used' = 0
        /\ touched' = {} /\ packed' = <<>> /\ header' = NoHeader
        /\ clock' = [worker |-> TRUE, importer |-> TRUE]
        /\ UNCHANGED txs

Next ==
    \/ /\ phase = "idle"
       /\ \E p \in Pools :
            \/ \E late \in BOOLEAN : StartBlock(p, late)
            \/ \E a \in Address : ForeignBlock(p, a)
    \/ \E a \in Address : commitTransaction(a)
    \/ commit
    \/ InsertBlock

Spec == Init /\ [][Next]_vars
-----------------------------------------------------------------------------
(* Properties *)

SumBalances(w) == SumFunction([a \in Address |-> w.acct[a].balance])

\* Gas, fees, refunds, values, calls that fail half way and rewards only move
\* FSN: what accepted blocks leave in accounts and tickets is the genesis
\* supply and one reward per block.
SupplyIsExact ==
    SumBalances(parent) + TicketPrice * Cardinality(parent.tickets)
        = Cardinality(Address) * GenesisBalance + (height - 1) * Reward

\* The worker's block is accepted by a node that starts from the same parent
\* and whose clock is not behind: dropping, reverting and packing in the worker
\* come to the state that importing the packed transactions comes to.  The
\* exception is what the journal does not restore (journal_rows and
\* journal_tickets show it).
MinedIsAccepted ==
    [][InsertBlock /\ header.known /\ header.clean /\ (clock.worker => clock.importer)
         => height' = height + 1]_vars

\* "check in single block each account can buy only one ticket"
\* (ValidateRawTransaction): no accepted block has two purchases of an account.
OnePurchasePerBlock ==
    [][height' > height =>
         \A i, j \in DOMAIN packed :
            IsBuyTicketTx(packed[i]) /\ IsBuyTicketTx(packed[j]) /\ packed[i].from = packed[j].from
                => i = j]_vars
=============================================================================
