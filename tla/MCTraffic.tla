----------------------------- MODULE MCTraffic -----------------------------
(***************************************************************************)
(* What comes in from the network and what becomes of it.                  *)
(* The models share no variable, so a behaviour exercises one of them,     *)
(* chosen at the start: the pool with ticket purchases ("tickets"), with   *)
(* other FSN calls ("calls") and at its limits ("limits"), blocks that are *)
(* packed and imported ("blocks"), the fetcher of announced blocks         *)
(* ("fetcher", and "peers" with two that have the same block), and the     *)
(* downloader's queue of parts ("queue") and skeleton of headers           *)
(* ("skeleton").                                                           *)
(***************************************************************************)
EXTENDS Downloader, Fetcher, BlockImport, TLC

CONSTANTS
    a1, a2,                 \* accounts
    b0, b1, b2,             \* blocks
    honest, other           \* peers

-----------------------------------------------------------------------------
\* Blocks: two accounts, one of them the miner, and the transactions of one
\* sender that take every way through TransitionDb; nonces 0 to 2.
Plain(sender, nonce, price) ==
    [from |-> sender, nonce |-> nonce, gas |-> 2, price |-> price, fee |-> 0, intrinsic |-> 1,
     call |-> "none", spend |-> 0, to |-> a2, value |-> 0, vm |-> "ok", burn |-> 0, refund |-> 0]

Variants(nonce) ==
    LET tx == Plain(a1, nonce, 1)
    IN  {[tx EXCEPT !.value = 3, !.burn = 1, !.refund = 1],
         [tx EXCEPT !.value = 1, !.vm = "fail"],
         [tx EXCEPT !.value = 7, !.burn = 1],
         [tx EXCEPT !.gas = 4, !.intrinsic = 2, !.burn = 2, !.refund = 2, !.vm = "revert"],
         [tx EXCEPT !.call = "pay", !.spend = 3, !.fee = 1, !.value = 2],
         [tx EXCEPT !.call = "pay", !.spend = 2, !.to = a1, !.fee = 4],
         [tx EXCEPT !.call = "ticket"],
         [tx EXCEPT !.call = "ticket", !.value = 4],
         [tx EXCEPT !.call = "oldticket"],
         [tx EXCEPT !.call = "row"],
         [tx EXCEPT !.call = "late", !.spend = 2],
         [tx EXCEPT !.call = "clock", !.spend = 1]}

Seconds ==
    LET tx == Plain(a2, 0, 1)
    IN  {Plain(a2, 0, 2), [tx EXCEPT !.call = "ticket"], [tx EXCEPT !.call = "row"]}

BlockTxs == UNION {Variants(n) : n \in 0 .. 2} \cup Seconds

Lists == {<<t, u>> : t \in Variants(0), u \in Variants(1)}
           \cup {<<t>> : t \in Variants(1) \cup Variants(2)}

Offers == {[a \in {a1, a2} |-> IF a = a1 THEN l ELSE m] :
             l \in Lists, m \in {<<t>> : t \in Seconds}}

-----------------------------------------------------------------------------
\* The pool.
VARIABLES txpool, headchain

poolVars == <<txpool, headchain>>

MaxNonce == 2

Pooled(a, n, price, cost, need, kind) ==
    [from |-> a, nonce |-> n, price |-> price, cost |-> cost, need |-> need, kind |-> kind]

\* A sender of cheap transactions and ticket purchases, and of a dear one.
TicketTxs ==
    {Pooled(a1, 1, 2, 2, 2, "plain")} \cup
    UNION {{Pooled(a1, n, 1, 1, 1, "plain"), Pooled(a1, n, 1, 1, 2, "ticket")} : n \in 0 .. MaxNonce}

\* The same with FSN calls that are not purchases.
CallTxs ==
    {Pooled(a1, 0, 2, 2, 2, "plain")} \cup
    UNION {{Pooled(a1, n, 1, 1, 1, "plain"), Pooled(a1, n, 1, 1, 2, "call")} : n \in 0 .. MaxNonce}

\* Two senders with cheap and dear transactions, for the limits of the pool.
PlainTxs ==
    {Pooled(a, n, price, 1, 1, "plain") : a \in {a1, a2}, n \in 0 .. MaxNonce, price \in {1, 2}}

FirstTx == {Pooled(a1, 0, 1, 1, 1, "plain")}

\* A state may refuse the call at the second nonce, or all of them.
Refused(all) == {{t \in all : t.kind # "plain" /\ t.nonce \in s} : s \in {{}, {1}, 0 .. MaxNonce}}
TicketRefusals == Refused(TicketTxs)
CallRefusals == Refused(CallTxs)

TicketPool == INSTANCE TxPool WITH
    Address <- {a1}, Tx <- TicketTxs, Mined <- TicketTxs, Refusals <- TicketRefusals,
    Balance <- {1, 2}, Price <- {1, 2},
    PriceBump <- 10, AccountSlots <- 3, GlobalSlots <- 3, AccountQueue <- 3, GlobalQueue <- 3,
    ReorgDepth <- 1, MaxBatch <- 1, MayFail <- TRUE, LocalsAllowed <- FALSE,
    pool <- txpool, chain <- headchain

CallPool == INSTANCE TxPool WITH
    Address <- {a1}, Tx <- CallTxs, Mined <- CallTxs, Refusals <- CallRefusals,
    Balance <- {1, 2}, Price <- {1, 2},
    PriceBump <- 10, AccountSlots <- 3, GlobalSlots <- 3, AccountQueue <- 3, GlobalQueue <- 3,
    ReorgDepth <- 1, MaxBatch <- 2, MayFail <- TRUE, LocalsAllowed <- FALSE,
    pool <- txpool, chain <- headchain

\* Blocks take only a first cheap transaction.
LimitPool == INSTANCE TxPool WITH
    Address <- {a1, a2}, Tx <- PlainTxs, Mined <- FirstTx, Refusals <- {{}},
    Balance <- {1}, Price <- {1, 2},
    PriceBump <- 10, AccountSlots <- 1, GlobalSlots <- 3, AccountQueue <- 1, GlobalQueue <- 2,
    ReorgDepth <- 1, MaxBatch <- 1, MayFail <- FALSE, LocalsAllowed <- TRUE,
    pool <- txpool, chain <- headchain

ASSUME TicketPool!TxPoolAssumption /\ CallPool!TxPoolAssumption /\ LimitPool!TxPoolAssumption

-----------------------------------------------------------------------------
\* A valid block and an invalid one on top of it, with the same body.
Numbers == (b1 :> 1 @@ b2 :> 2)
Parents == (b1 :> b0 @@ b2 :> b1)
Bodies == (b1 :> "body" @@ b2 :> "body")

\* Of the four blocks of a sync the second is empty, and so are its receipts
\* and those of the third.
Empty == [body |-> {2}, receipt |-> {2, 3}]

-----------------------------------------------------------------------------
VARIABLE part

syncVars == <<fetcherVars, queueVars, vars>>

TrafficInit ==
    /\ \/ part \in {"blocks", "fetcher", "peers", "queue", "skeleton"}
            /\ txpool = <<>> /\ headchain = <<>>
       \/ part = "tickets" /\ TicketPool!Init
       \/ part = "calls" /\ CallPool!Init
       \/ part = "limits" /\ LimitPool!Init
    /\ Execution!Init /\ Parts!Init /\ FetcherInit /\ Init
    /\ part # "queue" => kinds = {"body"}

PoolNext ==
    /\ UNCHANGED <<blockVars, syncVars>>
    /\ \/ part = "tickets" /\ TicketPool!Next
       \/ part = "calls" /\ CallPool!Next
       \/ part = "limits" /\ LimitPool!Next

SyncNext ==
    /\ UNCHANGED <<blockVars, poolVars>>
    /\ \/ /\ \/ part = "fetcher" /\ NextOf({honest}, Hash)
             \/ part = "peers" /\ NextOf({honest, other}, {b1})
          /\ UNCHANGED <<queueVars, vars>>
       \/ part = "queue" /\ Parts!Next /\ UNCHANGED <<fetcherVars, vars>>
       \/ part = "skeleton" /\ Next /\ UNCHANGED <<fetcherVars, queueVars>>

TrafficNext ==
    /\ UNCHANGED part
    /\ \/ part = "blocks" /\ Execution!Next /\ UNCHANGED <<poolVars, syncVars>>
       \/ PoolNext
       \/ SyncNext

TrafficSpec ==
    TrafficInit /\ [][TrafficNext]_<<part, blockVars, poolVars, syncVars>>

-----------------------------------------------------------------------------
\* OnePurchasePerBlock of StateTransition: no accepted block has two ticket
\* purchases of one account (ValidateRawTransaction).
OnePurchasePerBlock == Execution!OnePurchasePerBlock

\* OnePurchase of TxPool: an account has at most one ticket purchase in the
\* pool (validateTx, add, demoteUnexecutables).
OnePurchase == part = "tickets" => TicketPool!OnePurchase

\* PendingIsProcessable of TxPool where there are ticket purchases: the pending
\* transactions of an account start at its nonce and have no gap (promoteTx,
\* demoteUnexecutables).
PurchasesProcessable == part = "tickets" => TicketPool!PendingIsProcessable

\* PendingIsReady of TxPool: what the miner is given has no gap and can be
\* paid, and the virtual nonce is the one after it; with calls and at the
\* limits of the pool (promoteExecutables, demoteUnexecutables, removeTx).
PendingIsReady ==
    /\ part = "calls" => CallPool!PendingIsReady
    /\ part = "limits" => LimitPool!PendingIsReady
    /\ part = "tickets" => TicketPool!PendingIsPayable
=============================================================================
