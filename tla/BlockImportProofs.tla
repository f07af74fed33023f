------------------------- MODULE BlockImportProofs -------------------------
(***************************************************************************)
(* The execution of blocks, for every set of accounts and transactions: it *)
(* neither creates nor destroys FSN beyond the reward, and what the worker *)
(* packs an importer accepts.                                              *)
(*                                                                         *)
(* SupplyInv is inductive: the importer starts from the head, and the      *)
(* worth of a world (balances, and the price of each ticket) is what       *)
(* Process leaves plus the reward; the argument runs along the             *)
(* transactions of the block, by the least one after which it would fail.  *)
(* MinedInv adds that the worker's balances, nonces and gas are, after     *)
(* each transaction it packs or drops, what an importer of the packed ones *)
(* would have, and that its tickets and gas pool are no better: whatever   *)
(* the worker could do the importer can.                                   *)
(***************************************************************************)
EXTENDS BlockImport, Sequences, AccountsProofs

\* Leaves are for Zenon; those with arithmetic or sequences say SMT.
USE Zenon

-----------------------------------------------------------------------------
(* The execution of blocks *)

LEMMA ExecutionCount ==
    ASSUME NEW S
    PROVE  Execution!Cardinality(S) = Cardinality(S) /\ (Execution!IsFiniteSet(S) <=> IsFiniteSet(S))
  BY DEF Execution!Cardinality, Cardinality, Execution!IsFiniteSet, IsFiniteSet

LEMMA ExecutionSum ==
    ASSUME NEW f
    PROVE  Execution!SumFunction(f) = SumFunction(f)
  BY DEF Execution!SumFunction, Execution!SumFunctionOnSet, Execution!FoldFunctionOnSet,
         Execution!MapThenFoldSet, SumFunction, SumFunctionOnSet, FoldFunctionOnSet, MapThenFoldSet

LEMMA ExecutionAssumed ==
    /\ Coinbase \in Holder /\ IsFiniteSet(Holder)
    /\ GenesisBalance \in Nat /\ TicketPrice \in Nat /\ Reward \in Nat
    /\ Tx \subseteq Execution!Transaction
    /\ Pools \subseteq [Holder -> Seq(Tx)]
  BY ExecutionAssumption, ExecutionCount DEF Execution!StateTransitionAssumption

IsWorld(w) == w \in Execution!World /\ IsFiniteSet(w.tickets)

Balances(w) == [a \in Holder |-> w.acct[a].balance]

\* All the FSN of a world.
Holdings(w) == SumFunction(Balances(w)) + TicketPrice * Cardinality(w.tickets)

LEMMA WorthInt ==
    ASSUME NEW w, IsWorld(w)
    PROVE  /\ Balances(w) \in [Holder -> Int] /\ SumFunction(Balances(w)) \in Int
           /\ Cardinality(w.tickets) \in Nat /\ Holdings(w) \in Int
  <1>1. Balances(w) \in [Holder -> Int]
    BY DEF Balances, IsWorld, Execution!World, Execution!Account
  <1>2. SumFunction(Balances(w)) \in Int  BY <1>1, SumInt, ExecutionAssumed
  <1>3. Cardinality(w.tickets) \in Nat  BY FS_CardinalityType DEF IsWorld
  <1>4. Holdings(w) \in Int  BY <1>2, <1>3, ExecutionAssumed, SMT DEF Holdings
  <1> QED  BY <1>1, <1>2, <1>3, <1>4

LEMMA CreditType ==
    ASSUME NEW w \in Execution!World, NEW a \in Holder, NEW v \in Int
    PROVE  Execution!Credit(w, a, v) \in Execution!World
  <1>1. PICK acc : acc = [w.acct[a] EXCEPT !.balance = @ + v]  OBVIOUS
  <1>2. w.acct[a] \in Execution!Account  BY DEF Execution!World
  <1>3. acc \in Execution!Account  BY <1>1, <1>2, SMT DEF Execution!Account
  <1>4. Execution!Credit(w, a, v) = [w EXCEPT !.acct = [@ EXCEPT ![a] = acc]]
    BY <1>1, SMT DEF Execution!World, Execution!Credit
  <1> QED  BY <1>3, <1>4, SMT DEF Execution!World

LEMMA CreditWorth ==
    ASSUME NEW w, IsWorld(w), NEW a \in Holder, NEW v \in Int
    PROVE  LET c == Execution!Credit(w, a, v)
           IN  IsWorld(c) /\ Holdings(c) = Holdings(w) + v /\ c.tickets = w.tickets
  <1> DEFINE c == Execution!Credit(w, a, v)
  <1>1. w \in Execution!World  BY DEF IsWorld
  <1>2. c \in Execution!World  BY <1>1, CreditType
  <1>3. c.tickets = w.tickets  BY <1>1, SMT DEF Execution!Credit, Execution!World
  <1>4. IsWorld(c)  BY <1>2, <1>3 DEF IsWorld
  <1>5. \A x \in Holder \ {a} : c.acct[x] = w.acct[x]
    BY <1>1, SMT DEF Execution!Credit, Execution!World
  <1>6. c.acct[a].balance = w.acct[a].balance + v
    BY <1>1, SMT DEF Execution!Credit, Execution!World, Execution!Account
  <1> HIDE DEF c
  <1>7. /\ Balances(w) \in [Holder -> Int] /\ Balances(c) \in [Holder -> Int]
        /\ SumFunction(Balances(w)) \in Int /\ Cardinality(w.tickets) \in Nat
    BY <1>4, WorthInt
  <1>8. \A x \in Holder \ {a} : Balances(c)[x] = Balances(w)[x]  BY <1>5 DEF Balances
  <1>9. SumFunction(Balances(c)) = SumFunction(Balances(w)) + Balances(c)[a] - Balances(w)[a]
    BY <1>7, <1>8, SumChange, ExecutionAssumed
  <1>10. Balances(c)[a] = Balances(w)[a] + v  BY <1>6 DEF Balances
  <1>11. Balances(w)[a] \in Int  BY <1>7
  <1>12. SumFunction(Balances(c)) = SumFunction(Balances(w)) + v  BY <1>7, <1>9, <1>10, <1>11, SMT
  <1>13. Holdings(c) = Holdings(w) + v  BY <1>3, <1>7, <1>12, ExecutionAssumed, SMT DEF Holdings
  <1> QED  BY <1>3, <1>4, <1>13 DEF c

\* What changes no balance and no ticket changes no worth.
LEMMA SameWorth ==
    ASSUME NEW w, NEW x, \A a \in Holder : x.acct[a].balance = w.acct[a].balance,
           x.tickets = w.tickets
    PROVE  Holdings(x) = Holdings(w)
  BY DEF Holdings, Balances

\* A transfer of FSN.
LEMMA MoveWorth ==
    ASSUME NEW w, IsWorld(w), NEW a \in Holder, NEW b \in Holder, NEW v \in Nat
    PROVE  LET m == Execution!Credit(Execution!Credit(w, a, -v), b, v)
           IN  IsWorld(m) /\ Holdings(m) = Holdings(w)
  <1>1. PICK c : c = Execution!Credit(w, a, -v)  OBVIOUS
  <1>2. -v \in Int /\ v \in Int  BY SMT
  <1>3. IsWorld(c) /\ Holdings(c) = Holdings(w) + (-v)  BY <1>1, <1>2, CreditWorth
  <1>4. PICK m : m = Execution!Credit(c, b, v)  OBVIOUS
  <1>5. IsWorld(m) /\ Holdings(m) = Holdings(c) + v  BY <1>2, <1>3, <1>4, CreditWorth
  <1>6. Holdings(m) = Holdings(w)  BY <1>2, <1>3, <1>5, WorthInt, SMT
  <1> QED  BY <1>1, <1>4, <1>5, <1>6

\* A ticket is worth what was paid for it.
LEMMA TicketWorth ==
    ASSUME NEW w, IsWorld(w), NEW a \in Holder, NEW t \in Holder \X Nat, t \notin w.tickets
    PROVE  LET b == [Execution!Credit(w, a, -TicketPrice) EXCEPT !.tickets = @ \cup {t}]
           IN  IsWorld(b) /\ Holdings(b) = Holdings(w)
  <1>1. PICK c : c = Execution!Credit(w, a, -TicketPrice)  OBVIOUS
  <1>2. -TicketPrice \in Int  BY ExecutionAssumed, SMT
  <1>3. IsWorld(c) /\ Holdings(c) = Holdings(w) + (-TicketPrice) /\ c.tickets = w.tickets
    BY <1>1, <1>2, CreditWorth
  <1>4. PICK b : b = [c EXCEPT !.tickets = @ \cup {t}]  OBVIOUS
  <1>5. c \in Execution!World  BY <1>3 DEF IsWorld
  <1>6. b \in Execution!World /\ b.tickets = c.tickets \cup {t} /\ b.acct = c.acct
    BY <1>4, <1>5, SMT DEF Execution!World
  <1>7. IsFiniteSet(b.tickets) /\ Cardinality(b.tickets) = Cardinality(c.tickets) + 1
    <2>1. IsFiniteSet(c.tickets) /\ t \notin c.tickets  BY <1>3 DEF IsWorld
    <2>2. PICK s : s = c.tickets  OBVIOUS
    <2>3. IsFiniteSet(s \cup {t}) /\ Cardinality(s \cup {t}) = Cardinality(s) + 1
      BY <2>1, <2>2, FS_AddElement
    <2> QED  BY <1>6, <2>2, <2>3
  <1>8. IsWorld(b)  BY <1>6, <1>7 DEF IsWorld
  <1>9. Balances(b) = Balances(c)  BY <1>6 DEF Balances
  <1>10. SumFunction(Balances(c)) \in Int /\ Cardinality(c.tickets) \in Nat  BY <1>3, WorthInt
  <1>11. Holdings(b) = Holdings(c) + TicketPrice  BY <1>7, <1>9, <1>10, ExecutionAssumed, SMT DEF Holdings
  <1>12. Holdings(b) = Holdings(w)  BY <1>3, <1>11, WorthInt, ExecutionAssumed, SMT
  <1> QED  BY <1>1, <1>4, <1>8, <1>12

\* A balance row that is made changes nothing else.
LEMMA RowSet ==
    ASSUME NEW w \in Execution!World, NEW a \in Holder
    PROVE  LET row == [w EXCEPT !.acct[a].row = TRUE]
           IN  /\ row \in Execution!World /\ row.tickets = w.tickets
               /\ \A x \in Holder : row.acct[x].balance = w.acct[x].balance
  <1>1. PICK row : row = [w EXCEPT !.acct[a].row = TRUE]  OBVIOUS
  <1>2. row \in Execution!World
    <2>1. PICK acc : acc = [w.acct[a] EXCEPT !.row = TRUE]  OBVIOUS
    <2>2. w.acct[a] \in Execution!Account  BY DEF Execution!World
    <2>3. acc \in Execution!Account
      <3>1. PICK old : old = w.acct[a]  OBVIOUS
      <3>2. old.balance \in Int /\ old.nonce \in Nat  BY <2>2, <3>1 DEF Execution!Account
      <3>3. acc = [balance |-> old.balance, nonce |-> old.nonce, row |-> TRUE]
        BY <2>1, <2>2, <3>1 DEF Execution!Account
      <3> QED  BY <3>2, <3>3 DEF Execution!Account
    <2>4. row = [w EXCEPT !.acct = [@ EXCEPT ![a] = acc]]
      BY <1>1, <2>1, SMT DEF Execution!World
    <2> QED  BY <2>3, <2>4, SMT DEF Execution!World
  <1>3. row.tickets = w.tickets  BY <1>1, SMT DEF Execution!World
  <1>4. \A x \in Holder : row.acct[x].balance = w.acct[x].balance
    BY <1>1, SMT DEF Execution!World, Execution!Account
  <1> QED  BY <1>1, <1>2, <1>3, <1>4

\* Succeed or fail, before or after its writes: a call moves no FSN out of the
\* accounts and tickets.
LEMMA CallWorth ==
    ASSUME NEW w, IsWorld(w), NEW tx \in Tx, NEW late, height \in Nat
    PROVE  LET h == Execution!handleFsnCall(w, tx, late)
           IN  IsWorld(h.w) /\ Holdings(h.w) = Holdings(w)
  <1>1. tx.from \in Holder /\ tx.to \in Holder /\ tx.spend \in Nat
    BY ExecutionAssumed DEF Execution!Transaction
  <1>2. PICK paid : paid = Execution!Credit(Execution!Credit(w, tx.from, -tx.spend), tx.to, tx.spend)
    OBVIOUS
  <1>3. IsWorld(paid) /\ Holdings(paid) = Holdings(w)  BY <1>1, <1>2, MoveWorth
  <1>4. PICK row : row = [w EXCEPT !.acct[tx.from].row = TRUE]  OBVIOUS
  <1>5. IsWorld(row) /\ Holdings(row) = Holdings(w)  BY <1>1, <1>4, RowSet, SameWorth DEF IsWorld
  <1>6. PICK t : t = <<tx.from, height>>  OBVIOUS
  <1>7. t \in Holder \X Nat  BY <1>1, <1>6
  <1>8. PICK b : b = [Execution!Credit(w, tx.from, -TicketPrice) EXCEPT !.tickets = @ \cup {t}]
    OBVIOUS
  <1>9. t \notin w.tickets => IsWorld(b) /\ Holdings(b) = Holdings(w)
    BY <1>1, <1>7, <1>8, TicketWorth, ZenonT(40)
  <1>10. PICK h : h = Execution!handleFsnCall(w, tx, late)  OBVIOUS
  <1>11. \/ h.w = w
         \/ h.w = row
         \/ h.w = b /\ t \notin w.tickets
         \/ h.w = paid
    BY <1>2, <1>4, <1>6, <1>8, <1>10, SMT DEF Execution!handleFsnCall
  <1>12. IsWorld(h.w) /\ Holdings(h.w) = Holdings(w)  BY <1>3, <1>5, <1>9, <1>11
  <1> QED  BY <1>10, <1>12

\* The EVM only moves the value, and never adds gas.
LEMMA VmWorth ==
    ASSUME NEW w, IsWorld(w), NEW tx \in Tx, tx.gas >= tx.intrinsic
    PROVE  LET v == Execution!evmCall(w, tx)
           IN  IsWorld(v.w) /\ Holdings(v.w) = Holdings(w) /\ v.gas \in Int /\ v.refund \in Int
  <1>1. /\ tx.from \in Holder /\ tx.to \in Holder /\ tx.value \in Nat
        /\ tx.gas \in Nat /\ tx.intrinsic \in Nat /\ tx.burn \in Nat /\ tx.refund \in Nat
    BY ExecutionAssumed DEF Execution!Transaction
  <1>2. PICK m : m = Execution!Credit(Execution!Credit(w, tx.from, -tx.value), tx.to, tx.value)
    OBVIOUS
  <1>3. IsWorld(m) /\ Holdings(m) = Holdings(w)  BY <1>1, <1>2, MoveWorth
  <1>4. PICK v : v = Execution!evmCall(w, tx)  OBVIOUS
  <1>5. v.w \in {w, m}  BY <1>2, <1>4 DEF Execution!evmCall
  <1>6. v.gas \in Int /\ v.refund \in Int  BY <1>1, <1>4, SMT DEF Execution!evmCall
  <1>7. IsWorld(v.w) /\ Holdings(v.w) = Holdings(w)  BY <1>3, <1>5
  <1> QED  BY <1>4, <1>6, <1>7

\* What goes back for the gas that is left and what goes to the miner for the
\* gas that was used are what was paid for all of it.
LEMMA RefundExact ==
    ASSUME NEW tx \in Tx, NEW gas \in Int, NEW counter \in Int
    PROVE  LET left == Execution!refundGas(tx, gas, counter)
               fees == (tx.gas - left.gas) * tx.price + tx.fee
           IN  /\ left.remaining \in Int /\ fees \in Int
               /\ left.remaining + fees = Execution!mgval(tx)
  <1>1. tx.gas \in Nat /\ tx.price \in Nat /\ tx.fee \in Nat
    BY ExecutionAssumed DEF Execution!Transaction
  <1>2. PICK left : left = Execution!refundGas(tx, gas, counter)  OBVIOUS
  <1>3. left.gas \in Int /\ left.remaining = left.gas * tx.price
    BY <1>1, <1>2, SMT DEF Execution!refundGas
  <1>4. PICK g, p, f, l : g = tx.gas /\ p = tx.price /\ f = tx.fee /\ l = left.gas  OBVIOUS
  <1>5. g \in Int /\ p \in Int /\ f \in Int /\ l \in Int  BY <1>1, <1>3, <1>4, SMT
  <1>6. (g - l) * p = g * p - l * p  BY <1>5, SMT
  <1>7. l * p + ((g - l) * p + f) = g * p + f  BY <1>5, <1>6, SMT
  <1>8. l * p \in Int /\ (g - l) * p + f \in Int  BY <1>5, SMT
  <1> QED  BY <1>2, <1>3, <1>4, <1>7, <1>8 DEF Execution!mgval

\* preCheck passes, with the word "ok", only a transaction it can buy gas for.
LEMMA TransitionWorth ==
    ASSUME NEW w, IsWorld(w), NEW gp, NEW tx \in Tx, NEW mining, NEW late, height \in Nat,
           Execution!TransitionDb(w, gp, tx, mining, late).err = "ok"
    PROVE  LET r == Execution!TransitionDb(w, gp, tx, mining, late)
           IN  IsWorld(r.w) /\ Holdings(r.w) = Holdings(w)
  <1>1. /\ tx.from \in Holder /\ tx.gas \in Nat /\ tx.intrinsic \in Nat
        /\ tx.price \in Nat /\ tx.fee \in Nat
    BY ExecutionAssumed DEF Execution!Transaction
  <1>2. PICK paid : paid = Execution!mgval(tx)  OBVIOUS
  <1>3. paid \in Int /\ -paid \in Int  BY <1>1, <1>2, SMT DEF Execution!mgval
  <1>4. PICK bought : bought = Execution!Credit(w, tx.from, -paid)  OBVIOUS
  <1>5. IsWorld(bought) /\ Holdings(bought) = Holdings(w) + (-paid)  BY <1>1, <1>3, <1>4, CreditWorth
  <1>6. PICK counted : counted = [bought EXCEPT !.acct[tx.from].nonce = @ + 1]  OBVIOUS
  <1>7. IsWorld(counted) /\ Holdings(counted) = Holdings(bought)
    <2>1. bought \in Execution!World  BY <1>5 DEF IsWorld
    <2>2. counted \in Execution!World
      <3>1. /\ bought.acct \in [Holder -> Execution!Account]
            /\ bought.tickets \in SUBSET (Holder \X Nat)
            /\ bought = [acct |-> bought.acct, tickets |-> bought.tickets]
        BY <2>1 DEF Execution!World
      <3>2. PICK row : row = [bought.acct[tx.from] EXCEPT !.nonce = @ + 1]  OBVIOUS
      <3>3. row \in Execution!Account  BY <1>1, <3>1, <3>2, SMT DEF Execution!Account
      <3>4. counted = [acct |-> [bought.acct EXCEPT ![tx.from] = row], tickets |-> bought.tickets]
        BY <1>6, <3>1, <3>2
      <3> QED  BY <1>1, <3>1, <3>3, <3>4 DEF Execution!World
    <2>3. counted.tickets = bought.tickets  BY <1>6, <2>1, SMT DEF Execution!World
    <2>4. \A a \in Holder : counted.acct[a].balance = bought.acct[a].balance
      BY <1>1, <1>6, <2>1, SMT DEF Execution!World, Execution!Account
    <2> QED  BY <1>5, <2>2, <2>3, <2>4, SameWorth DEF IsWorld
  <1>8. PICK call : call = Execution!handleFsnCall(counted, tx, late)  OBVIOUS
  <1>9. IsWorld(call.w) /\ Holdings(call.w) = Holdings(counted)  BY <1>7, <1>8, CallWorth
  <1>10. PICK vm : vm = Execution!evmCall(call.w, tx)  OBVIOUS
  <1>11. PICK left : left = Execution!refundGas(tx, vm.gas, vm.refund)  OBVIOUS
  <1>12. PICK fees : fees = (tx.gas - left.gas) * tx.price + tx.fee  OBVIOUS
  <1>13. PICK back : back = Execution!Credit(vm.w, tx.from, left.remaining)  OBVIOUS
  <1>14. PICK end : end = Execution!Credit(back, Coinbase, fees)  OBVIOUS
  <1>15. PICK r : r = Execution!TransitionDb(w, gp, tx, mining, late)  OBVIOUS
  <1>16. r.w = end /\ tx.gas >= tx.intrinsic
    <2>1. r.err = "ok"  BY <1>15
    <2>2. PICK pre : pre = Execution!preCheck(w, gp, tx)  OBVIOUS
    <2>3. tx.gas < tx.intrinsic \/ tx.gas >= tx.intrinsic  BY <1>1, SMT
    <2> QED
      BY <1>2, <1>4, <1>6, <1>8, <1>10, <1>11, <1>12, <1>13, <1>14, <1>15, <2>1, <2>2, <2>3, ZenonT(40)
      DEF Execution!TransitionDb
  <1>17. IsWorld(vm.w) /\ Holdings(vm.w) = Holdings(call.w) /\ vm.gas \in Int /\ vm.refund \in Int
    BY <1>9, <1>10, <1>16, VmWorth
  <1>18. left.remaining \in Int /\ fees \in Int /\ left.remaining + fees = paid
    BY <1>2, <1>11, <1>12, <1>17, RefundExact
  <1>19. IsWorld(back) /\ Holdings(back) = Holdings(vm.w) + left.remaining
    BY <1>1, <1>13, <1>17, <1>18, CreditWorth
  <1>20. IsWorld(end) /\ Holdings(end) = Holdings(back) + fees
    BY <1>14, <1>18, <1>19, CreditWorth, ExecutionAssumed
  <1>21. Holdings(w) \in Int  BY WorthInt
  <1>22. Holdings(end) = Holdings(w)
    BY <1>3, <1>5, <1>7, <1>9, <1>17, <1>18, <1>19, <1>20, <1>21, SMT
  <1> QED  BY <1>15, <1>16, <1>20, <1>22

\* g is what Process has come to after each transaction of the block.
Start(w) == [err |-> "ok", w |-> w, pool |-> GasLimit, used |-> 0]

Runs(g, w, block, late) ==
    g = [i \in 0 .. Len(block) |-> IF i = 0 THEN Start(w)
                                   ELSE Execution!Step(g[i - 1], block[i], late)]

LEMMA RunExists ==
    ASSUME NEW w, NEW block, NEW late, Len(block) \in Nat
    PROVE  \E g : Runs(g, w, block, late)
  <1> DEFINE N == 0 .. Len(block)
             Val(g, i) == IF i = 0 THEN Start(w) ELSE Execution!Step(g[i - 1], block[i], late)
             Upto(g, n) == \A i \in N : i <= n => g[i] = Val(g, i)
             Bad == {n \in Nat : ~ \E g : Upto(g, n)}
  <1>1. ASSUME NEW g, NEW n \in Int, Upto(g, n)
        PROVE  \E k : Upto(k, n + 1)
    <2> DEFINE k == [i \in N |-> Val(g, i)]
    <2> SUFFICES ASSUME NEW i \in N, i <= n + 1
                 PROVE  k[i] = Val(k, i)
      OBVIOUS
    <2>1. k[i] = Val(g, i)  OBVIOUS
    <2>2. CASE i = 0  BY <2>1, <2>2
    <2>3. CASE i # 0
      <3>1. i - 1 \in N /\ i - 1 <= n  BY <2>3, SMT
      <3>2. g[i - 1] = Val(g, i - 1)  BY <1>1, <3>1
      <3>3. k[i - 1] = Val(g, i - 1)  BY <3>1
      <3>4. k[i - 1] = g[i - 1]  BY <3>2, <3>3
      <3> HIDE DEF k
      <3> QED  BY <2>1, <2>3, <3>4
    <2> QED  BY <2>2, <2>3
  <1>2. \E k : Upto(k, 0)
    <2>1. Upto(w, 0 - 1)
      <3> SUFFICES ASSUME NEW i \in N, i <= 0 - 1 PROVE FALSE  OBVIOUS
      <3> QED  BY SMT
    <2>2. (0 - 1) + 1 = 0 /\ 0 - 1 \in Int  BY SMT
    <2> HIDE DEF Upto
    <2> QED  BY <1>1, <2>1, <2>2
  <1> HIDE DEF Upto
  <1>3. ASSUME NEW n \in Nat PROVE \E g : Upto(g, n)
    <2> SUFFICES ASSUME Bad # {} PROVE FALSE
      OBVIOUS
    <2>1. PICK m \in Bad : \A k \in Bad : m <= k  BY LeastNat
    <2>2. m # 0  BY <1>2, <2>1
    <2>3. m - 1 \in Nat /\ ~ (m <= m - 1) /\ m - 1 \in Int /\ (m - 1) + 1 = m  BY <2>2, SMT
    <2>4. PICK g : Upto(g, m - 1)  BY <2>1, <2>3
    <2>5. \E k : Upto(k, (m - 1) + 1)  BY <1>1, <2>3, <2>4
    <2> QED  BY <2>1, <2>3, <2>5
  <1>4. PICK g : Upto(g, Len(block))  BY <1>3
  <1>5. \A i \in N : i <= Len(block)  BY SMT
  <1>6. \A i \in N : g[i] = Val(g, i)  BY <1>4, <1>5 DEF Upto
  <1> DEFINE k == [i \in N |-> g[i]]
  <1>7. \A i \in N : k[i] = g[i]  OBVIOUS
  <1> HIDE DEF k
  <1>8. \A i \in N : Val(g, i) = Val(k, i)
    <2> TAKE i \in N
    <2>1. CASE i = 0  BY <2>1
    <2>2. CASE i # 0
      <3>1. i - 1 \in N  BY <2>2, SMT
      <3> QED  BY <1>7, <2>2, <3>1
    <2> QED  BY <2>1, <2>2
  <1>9. k = [i \in N |-> Val(k, i)]  BY <1>6, <1>8 DEF k
  <1> QED  BY <1>9 DEF Runs

\* Along the block, as long as no transaction fails, the FSN stay in the world.
LEMMA RunWorth ==
    ASSUME NEW world, IsWorld(world), NEW block \in Seq(Tx), NEW late, height \in Nat,
           NEW g, Runs(g, world, block, late)
    PROVE  \A i \in 0 .. Len(block) :
               /\ g[i] = [err |-> g[i].err, w |-> g[i].w, pool |-> g[i].pool, used |-> g[i].used]
               /\ g[i].err = "ok" => IsWorld(g[i].w) /\ Holdings(g[i].w) = Holdings(world)
  <1> DEFINE N == 0 .. Len(block)
             Rec(r) == r = [err |-> r.err, w |-> r.w, pool |-> r.pool, used |-> r.used]
             Kept(r) == r.err = "ok" => IsWorld(r.w) /\ Holdings(r.w) = Holdings(world)
             Bad == {i \in N : ~ (Rec(g[i]) /\ Kept(g[i]))}
  <1> SUFFICES ASSUME Bad # {} PROVE FALSE
    OBVIOUS
  <1>1. N \subseteq Nat  BY SMT
  <1>2. PICK m \in Bad : \A k \in Bad : m <= k  BY <1>1, LeastNat
  <1>3. CASE m = 0
    <2>1. g[m] = Start(world)  BY <1>2, <1>3 DEF Runs
    <2>2. Rec(Start(world)) /\ Kept(Start(world))  BY SMT DEF Start
    <2> QED  BY <1>2, <2>1, <2>2
  <1>4. CASE m # 0
    <2>1. m - 1 \in N /\ m \in N /\ ~ (m <= m - 1) /\ m \in 1 .. Len(block)  BY <1>2, <1>4, SMT
    <2>2. Rec(g[m - 1]) /\ Kept(g[m - 1])  BY <1>2, <2>1
    <2>3. g[m] = Execution!Step(g[m - 1], block[m], late)  BY <1>4, <2>1 DEF Runs
    <2>4. block[m] \in Tx  BY <2>1, SMT
    <2>5. PICK a : a = g[m - 1]  OBVIOUS
    <2>6. PICK b : b = g[m]  OBVIOUS
    <2>7. CASE a.err # "ok"
      <3>1. b = a  BY <2>3, <2>5, <2>6, <2>7 DEF Execution!Step
      <3> QED  BY <1>2, <2>2, <2>5, <2>6, <3>1
    <2>8. CASE a.err = "ok"
      <3>0. PICK mining : mining = FALSE  OBVIOUS
      <3>1. PICK r : r = Execution!TransitionDb(a.w, a.pool, block[m], mining, late)
        OBVIOUS
      <3>2. b = [err |-> r.err, w |-> r.w, pool |-> r.pool, used |-> a.used + r.used]
        BY <2>3, <2>5, <2>6, <2>8, <3>0, <3>1 DEF Execution!Step
      <3>3. b.err = r.err /\ b.w = r.w /\ Rec(b)  BY <3>2, SMT
      <3>4. IsWorld(a.w) /\ Holdings(a.w) = Holdings(world)  BY <2>2, <2>5, <2>8
      <3>5. r.err = "ok" => IsWorld(r.w) /\ Holdings(r.w) = Holdings(a.w)
        <4> SUFFICES ASSUME r.err = "ok" PROVE IsWorld(r.w) /\ Holdings(r.w) = Holdings(a.w)
          OBVIOUS
        <4>1. PICK w, gp, tx : w = a.w /\ gp = a.pool /\ tx = block[m]  OBVIOUS
        <4>2. IsWorld(w) /\ tx \in Tx /\ Execution!TransitionDb(w, gp, tx, mining, late).err = "ok"
          BY <2>4, <3>1, <3>4, <4>1
        <4>3. IsWorld(Execution!TransitionDb(w, gp, tx, mining, late).w)
              /\ Holdings(Execution!TransitionDb(w, gp, tx, mining, late).w) = Holdings(w)
          BY <4>2, TransitionWorth, SMT
        <4> QED  BY <3>1, <4>1, <4>3
      <3> QED  BY <1>2, <2>6, <3>3, <3>4, <3>5
    <2> QED  BY <2>7, <2>8
  <1> QED  BY <1>3, <1>4

\* Process comes to the end of the run, and pays the reward.
LEMMA ProcessIs ==
    ASSUME NEW block \in Seq(Tx), NEW world, world = cur, NEW late, late = clock.importer
    PROVE  \E g : /\ Runs(g, world, block, late)
                  /\ Execution!Process(block) = [g[Len(block)] EXCEPT !.w = Execution!Finalize(@)]
  <1>1. PICK g : g = CHOOSE h : Runs(h, cur, block, clock.importer)  OBVIOUS
  <1>2. Len(block) \in Nat  BY SMT
  <1>3. \E h : Runs(h, cur, block, clock.importer)  BY <1>2, RunExists
  <1>4. Runs(g, cur, block, clock.importer)  BY <1>1, <1>3
  <1>5. Execution!Process(block) = [g[Len(block)] EXCEPT !.w = Execution!Finalize(@)]
    BY <1>1 DEF Execution!Process, Runs, Start
  <1> QED  BY <1>4, <1>5

\* What it comes to is a record.
LEMMA ProcessFields ==
    ASSUME NEW e, e = [err |-> e.err, w |-> e.w, pool |-> e.pool, used |-> e.used], NEW r,
           r = [e EXCEPT !.w = Execution!Finalize(@)]
    PROVE  r.err = e.err /\ r.w = Execution!Finalize(e.w) /\ r.used = e.used
  BY SMT

\* A block that is processed adds one reward.
LEMMA ProcessWorth ==
    ASSUME NEW block \in Seq(Tx), IsWorld(cur), height \in Nat,
           Execution!Process(block).err = "ok"
    PROVE  /\ IsWorld(Execution!Process(block).w)
           /\ Holdings(Execution!Process(block).w) = Holdings(cur) + Reward
  <1>1. PICK world, late : world = cur /\ late = clock.importer  OBVIOUS
  <1>2. PICK g : /\ Runs(g, world, block, late)
                 /\ Execution!Process(block) = [g[Len(block)] EXCEPT !.w = Execution!Finalize(@)]
    BY <1>1, ProcessIs
  <1>3. PICK e : e = g[Len(block)]  OBVIOUS
  <1>4. /\ e = [err |-> e.err, w |-> e.w, pool |-> e.pool, used |-> e.used]
        /\ e.err = "ok" => IsWorld(e.w) /\ Holdings(e.w) = Holdings(world)
    <2>1. Len(block) \in 0 .. Len(block)  BY SMT
    <2>2. IsWorld(world)  BY <1>1
    <2>3. \A i \in 0 .. Len(block) :
            /\ g[i] = [err |-> g[i].err, w |-> g[i].w, pool |-> g[i].pool, used |-> g[i].used]
            /\ g[i].err = "ok" => IsWorld(g[i].w) /\ Holdings(g[i].w) = Holdings(world)
      BY <1>2, <2>2, RunWorth, SMT
    <2> QED  BY <1>3, <2>1, <2>3
  <1>5. PICK r : r = Execution!Process(block)  OBVIOUS
  <1>6. r.err = e.err /\ r.w = Execution!Finalize(e.w)  BY <1>2, <1>3, <1>4, <1>5, ProcessFields
  <1>7. IsWorld(e.w) /\ Holdings(e.w) = Holdings(world)  BY <1>4, <1>5, <1>6
  <1>8. Reward \in Int  BY ExecutionAssumed, SMT
  <1>9. IsWorld(r.w) /\ Holdings(r.w) = Holdings(e.w) + Reward
    BY <1>6, <1>7, <1>8, CreditWorth, ExecutionAssumed DEF Execution!Finalize
  <1> QED  BY <1>1, <1>5, <1>7, <1>9

\* The sum of a constant.
LEMMA SumConst ==
    ASSUME NEW S, IsFiniteSet(S), NEW c \in Nat, NEW f, f = [x \in S |-> c]
    PROVE  SumFunction(f) = Cardinality(S) * c
  <1>1. PICK h : SumsOver(h, f, S) /\ SumFunction(f) = h[S]  BY SumIsLast
  <1> DEFINE B == {s \in SUBSET S : h[s] # Cardinality(s) * c}
  <1> SUFFICES ASSUME B # {} PROVE FALSE
    BY <1>1
  <1>2. PICK s \in B : \A r \in B : Cardinality(s) <= Cardinality(r)  BY MinimalSubset
  <1>3. CASE s = {}
    <2>1. Cardinality(s) = 0  BY <1>3, FS_EmptySet
    <2>2. h[s] = 0  BY <1>1, <1>3 DEF SumsOver
    <2>3. 0 * c = 0  BY SMT
    <2> QED  BY <1>2, <2>1, <2>2, <2>3
  <1>4. CASE s # {}
    <2> DEFINE x == CHOOSE x \in s : TRUE
    <2>1. /\ x \in s /\ s \ {x} \in SUBSET S /\ Cardinality(s \ {x}) \in Nat
          /\ Cardinality(s \ {x}) = Cardinality(s) - 1 /\ Cardinality(s) \in Nat
      BY <1>4, Chosen
    <2>2. h[s] = f[x] + h[s \ {x}]  BY <1>1, <1>4 DEF SumsOver
    <2>3. ~ (Cardinality(s) <= Cardinality(s \ {x}))  BY <2>1, SMT
    <2>4. h[s \ {x}] = Cardinality(s \ {x}) * c  BY <1>2, <2>1, <2>3
    <2>5. f[x] = c  BY <2>1
    <2> HIDE DEF x
    <2>6. PICK n, m : n = Cardinality(s) /\ m = Cardinality(s \ {x})  OBVIOUS
    <2>7. n \in Nat /\ m = n - 1  BY <2>1, <2>6
    <2>8. c + m * c = n * c  BY <2>7, SMT
    <2> QED  BY <1>2, <2>2, <2>4, <2>5, <2>6, <2>8
  <1> QED  BY <1>3, <1>4

\* Strengthening: the importer starts from the head, and what it imports are
\* transactions.
SupplyInv ==
    /\ IsWorld(parent) /\ height \in Nat
    /\ packed \in Seq(Tx) /\ txs \in [Holder -> Seq(Tx)]
    /\ stage = "import" => cur = parent
    /\ SupplyIsExact

LEMMA SupplyIs ==
    SupplyIsExact <=> Holdings(parent) = Cardinality(Holder) * GenesisBalance + (height - 1) * Reward
  <1>1. Execution!SumBalances(parent) = SumFunction(Balances(parent))
    BY ExecutionSum DEF Execution!SumBalances, Balances
  <1>2. /\ Execution!Cardinality(parent.tickets) = Cardinality(parent.tickets)
        /\ Execution!Cardinality(Holder) = Cardinality(Holder)
    BY ExecutionCount
  <1> QED  BY <1>1, <1>2 DEF SupplyIsExact, Execution!SupplyIsExact, Holdings

LEMMA SupplyAtGenesis ==
    Execution!Init => SupplyInv
  <1> SUFFICES ASSUME Execution!Init PROVE SupplyInv  OBVIOUS
  <1>1. parent.tickets = {}  BY DEF Execution!Init
  <1>2. parent \in Execution!World
    BY ExecutionAssumed, SMT DEF Execution!Init, Execution!World, Execution!Account
  <1>3. IsWorld(parent)  BY <1>1, <1>2, FS_EmptySet DEF IsWorld
  <1>4. Balances(parent) = [a \in Holder |-> GenesisBalance]  BY DEF Balances, Execution!Init
  <1>5. SumFunction(Balances(parent)) = Cardinality(Holder) * GenesisBalance
    BY <1>4, SumConst, ExecutionAssumed
  <1>6. Cardinality(parent.tickets) = 0  BY <1>1, FS_EmptySet
  <1>7. height = 1  BY DEF Execution!Init
  <1>8. Cardinality(Holder) \in Nat  BY ExecutionAssumed, FS_CardinalityType
  <1>9. Cardinality(Holder) * GenesisBalance \in Int  BY <1>8, ExecutionAssumed, SMT
  <1>10. TicketPrice * 0 = 0 /\ (1 - 1) * Reward = 0  BY ExecutionAssumed, SMT
  <1>11. Holdings(parent) = Cardinality(Holder) * GenesisBalance + (height - 1) * Reward
    BY <1>5, <1>6, <1>7, <1>9, <1>10, SMT DEF Holdings
  <1>12. packed \in Seq(Tx) /\ txs \in [Holder -> Seq(Tx)]
    BY SMT DEF Execution!Init
  <1>13. stage # "import" /\ height \in Nat  BY SMT DEF Execution!Init
  <1> QED  BY <1>3, <1>11, <1>12, <1>13, SupplyIs DEF SupplyInv

LEMMA SupplyKept ==
    SupplyInv /\ [Execution!Next]_(Execution!vars) => SupplyInv'
  <1> SUFFICES ASSUME SupplyInv, [Execution!Next]_(Execution!vars) PROVE SupplyInv'  OBVIOUS
  <1> USE DEF SupplyInv
  <1>1. ASSUME UNCHANGED <<parent, height>> PROVE IsWorld(parent)' /\ height' \in Nat /\ SupplyIsExact'
    BY <1>1 DEF IsWorld, Execution!World, Execution!Account, SupplyIsExact, Execution!SupplyIsExact,
                Execution!SumBalances
  <1>2. ASSUME NEW p \in Pools, NEW late \in BOOLEAN, Execution!StartBlock(p, late)
        PROVE  SupplyInv'
    <2>1. packed' = <<>> /\ txs' = p /\ stage' = "mine"  BY <1>2 DEF Execution!StartBlock
    <2>2. packed' \in Seq(Tx) /\ stage' # "import"  BY <2>1, SMT
    <2>3. txs' \in [Holder -> Seq(Tx)]  BY <2>1, ExecutionAssumed
    <2> QED  BY <1>1, <1>2, <2>2, <2>3 DEF Execution!StartBlock
  <1>3. ASSUME NEW p \in Pools, NEW a \in Holder, Execution!ForeignBlock(p, a)
        PROVE  SupplyInv'
    <2>1. packed' = p[a] /\ cur' = parent /\ UNCHANGED <<parent, height, txs>>
      BY <1>3 DEF Execution!ForeignBlock
    <2>2. packed' \in Seq(Tx)  BY <2>1, ExecutionAssumed
    <2> QED  BY <1>1, <2>1, <2>2
  <1>4. ASSUME NEW a \in Holder, Execution!commitTransaction(a)
        PROVE  SupplyInv'
    <2>1. stage' = "mine" /\ UNCHANGED <<parent, height>>
      BY <1>4 DEF Execution!commitTransaction
    <2>2. txs[a] \in Seq(Tx) /\ txs[a] # <<>>
      BY <1>4 DEF Execution!commitTransaction, Execution!Best
    <2>3. Head(txs[a]) \in Tx /\ Tail(txs[a]) \in Seq(Tx) /\ <<>> \in Seq(Tx)  BY <2>2, SMT
    <2>4. packed' = packed \/ packed' = Append(packed, Head(txs[a]))
      BY <1>4 DEF Execution!commitTransaction
    <2>5. packed' \in Seq(Tx)  BY <2>3, <2>4, SMT
    <2>6. \E s \in {<<>>, Tail(txs[a])} : txs' = [txs EXCEPT ![a] = s]
      BY <1>4 DEF Execution!commitTransaction
    <2>7. txs' \in [Holder -> Seq(Tx)]  BY <2>3, <2>6
    <2>8. stage' # "import"  BY <2>1, SMT
    <2> QED  BY <1>1, <2>1, <2>5, <2>7, <2>8
  <1>5. ASSUME Execution!commit PROVE SupplyInv'
    <2>1. UNCHANGED <<parent, height, packed>> /\ cur' = parent /\ txs' = [a \in Holder |-> <<>>]
      BY <1>5 DEF Execution!commit
    <2>2. txs' \in [Holder -> Seq(Tx)]  BY <2>1, SMT
    <2> QED  BY <1>1, <2>1, <2>2
  <1>6. ASSUME Execution!InsertBlock PROVE SupplyInv'
    <2>1. packed' = <<>> /\ stage' = "idle" /\ txs' = txs /\ stage = "import"
      BY <1>6 DEF Execution!InsertBlock
    <2>2. packed' \in Seq(Tx) /\ stage' # "import"  BY <2>1, SMT
    <2>3. CASE UNCHANGED <<parent, height>>  BY <1>1, <2>1, <2>2, <2>3
    <2>4. CASE ~ UNCHANGED <<parent, height>>
      <3>1. PICK r : r = Execution!Process(packed)  OBVIOUS
      <3>2. parent' = r.w /\ height' = height + 1 /\ r.err = "ok"
        BY <1>6, <2>4, <3>1 DEF Execution!InsertBlock, Execution!Accepts
      <3>3. cur = parent /\ IsWorld(cur)  BY <2>1
      <3>4. IsWorld(r.w) /\ Holdings(r.w) = Holdings(parent) + Reward
        BY <3>1, <3>2, <3>3, ProcessWorth
      <3>5. PICK c : c = Cardinality(Holder) * GenesisBalance  OBVIOUS
      <3>6. c \in Int
        BY <3>5, ExecutionAssumed, FS_CardinalityType, SMT
      <3>7. Holdings(parent) = c + (height - 1) * Reward  BY <3>5, SupplyIs
      <3>8. (height - 1) * Reward + Reward = ((height + 1) - 1) * Reward  BY ExecutionAssumed, SMT
      <3>9. (height - 1) * Reward \in Int /\ height + 1 \in Nat  BY ExecutionAssumed, SMT
      <3>10. Holdings(r.w) = c + ((height + 1) - 1) * Reward
        BY <3>4, <3>6, <3>7, <3>8, <3>9, ExecutionAssumed, SMT
      <3>11. IsWorld(parent)'  BY <3>2, <3>4 DEF IsWorld, Execution!World, Execution!Account
      <3>12. SupplyIsExact'
        <4>1. Execution!SumBalances(r.w) = SumFunction(Balances(r.w))
          BY ExecutionSum DEF Execution!SumBalances, Balances
        <4>2. /\ Execution!Cardinality(r.w.tickets) = Cardinality(r.w.tickets)
              /\ Execution!Cardinality(Holder) = Cardinality(Holder)
          BY ExecutionCount
        <4>3. Execution!SumBalances(r.w) + TicketPrice * Execution!Cardinality(r.w.tickets)
                = Execution!Cardinality(Holder) * GenesisBalance + ((height + 1) - 1) * Reward
          BY <3>5, <3>10, <4>1, <4>2 DEF Holdings
        <4> QED
          BY <3>2, <4>3 DEF SupplyIsExact, Execution!SupplyIsExact, Execution!SumBalances
      <3> QED  BY <2>1, <2>2, <3>2, <3>9, <3>11, <3>12
    <2> QED  BY <2>3, <2>4
  <1>7. ASSUME UNCHANGED Execution!vars PROVE SupplyInv'
    <2>1. UNCHANGED <<parent, height, packed, txs, cur, stage>>  BY <1>7 DEF Execution!vars
    <2> QED  BY <1>1, <2>1
  <1> QED  BY <1>2, <1>3, <1>4, <1>5, <1>6, <1>7 DEF Execution!Next

\* Whatever transactions blocks carry and however their calls and the EVM end:
\* every accepted block leaves in accounts and tickets exactly what there was,
\* and one reward.
THEOREM AlwaysExactSupply ==
    Execution!Spec => []SupplyIsExact
  <1>1. Execution!Init => SupplyInv  BY SupplyAtGenesis
  <1>2. SupplyInv /\ [Execution!Next]_(Execution!vars) => SupplyInv'  BY SupplyKept
  <1>3. SupplyInv => SupplyIsExact  BY DEF SupplyInv
  <1> QED  BY <1>1, <1>2, <1>3, PTL DEF Execution!Spec

-----------------------------------------------------------------------------
(* What the worker packs is accepted *)

\* A world is its balances, nonces, rows and tickets.
Nonces(w) == [a \in Holder |-> w.acct[a].nonce]
Rows(w) == [a \in Holder |-> w.acct[a].row]

\* A balance credited.
Added(f, a, v) == [f EXCEPT ![a] = @ + v]

Agree(w, x) == Balances(w) = Balances(x) /\ Nonces(w) = Nonces(x)

LEMMA CreditParts ==
    ASSUME NEW w \in Execution!World, NEW a \in Holder, NEW v \in Int
    PROVE  LET c == Execution!Credit(w, a, v)
           IN  /\ c \in Execution!World /\ c.tickets = w.tickets
               /\ Balances(c) = Added(Balances(w), a, v)
               /\ Nonces(c) = Nonces(w) /\ Rows(c) = Rows(w)
  <1>1. PICK c : c = Execution!Credit(w, a, v)  OBVIOUS
  <1>2. c \in Execution!World  BY <1>1, CreditType
  <1>3. c.tickets = w.tickets  BY <1>1, SMT DEF Execution!Credit, Execution!World
  <1>4. \A x \in Holder :
          /\ c.acct[x].nonce = w.acct[x].nonce
          /\ c.acct[x].row = w.acct[x].row
          /\ c.acct[x].balance = IF x = a THEN w.acct[x].balance + v ELSE w.acct[x].balance
    BY <1>1, SMT DEF Execution!Credit, Execution!World, Execution!Account
  <1>5. Balances(c) = Added(Balances(w), a, v)  BY <1>4 DEF Balances, Added
  <1>6. Nonces(c) = Nonces(w) /\ Rows(c) = Rows(w)  BY <1>4 DEF Nonces, Rows
  <1> QED  BY <1>1, <1>2, <1>3, <1>5, <1>6

\* A transfer depends on the balances only.
LEMMA MoveParts ==
    ASSUME NEW w \in Execution!World, NEW a \in Holder, NEW b \in Holder, NEW v \in Int, NEW u \in Int
    PROVE  LET m == Execution!Credit(Execution!Credit(w, a, v), b, u)
           IN  /\ m \in Execution!World /\ m.tickets = w.tickets
               /\ Balances(m) = Added(Added(Balances(w), a, v), b, u)
               /\ Nonces(m) = Nonces(w) /\ Rows(m) = Rows(w)
  <1>1. PICK c : c = Execution!Credit(w, a, v)  OBVIOUS
  <1>2. /\ c \in Execution!World /\ c.tickets = w.tickets
        /\ Balances(c) = Added(Balances(w), a, v)
        /\ Nonces(c) = Nonces(w) /\ Rows(c) = Rows(w)
    BY <1>1, CreditParts
  <1>3. PICK m : m = Execution!Credit(c, b, u)  OBVIOUS
  <1>4. /\ m \in Execution!World /\ m.tickets = c.tickets
        /\ Balances(m) = Added(Balances(c), b, u)
        /\ Nonces(m) = Nonces(c) /\ Rows(m) = Rows(c)
    <2>1. c \in Execution!World  BY <1>2
    <2> QED  BY <1>3, <2>1, CreditParts, SMT
  <1> QED  BY <1>1, <1>2, <1>3, <1>4

Paid(w, tx) == Execution!Credit(Execution!Credit(w, tx.from, -tx.spend), tx.to, tx.spend)
Ticket(tx) == <<tx.from, height>>
Bought(w, tx) ==
    [Execution!Credit(w, tx.from, -TicketPrice) EXCEPT !.tickets = @ \cup {Ticket(tx)}]
Listed(w, tx) == [w EXCEPT !.acct[tx.from].row = TRUE]
Short(w, tx, v) == Execution!GetBalance(w, tx.from) < v

\* handleFsnCall, call by call.
CallOutcome(w, tx, late, h) ==
    \/ tx.call = "none" /\ h.ok /\ h.w = w
    \/ tx.call = "row" /\ ~h.ok /\ h.w = Listed(w, tx)
    \/ tx.call = "clock" /\ ~late /\ ~h.ok /\ h.w = w
    \/ /\ tx.call \in {"ticket", "oldticket"}
       /\ \/ (Ticket(tx) \in w.tickets \/ Short(w, tx, TicketPrice)) /\ ~h.ok /\ h.w = w
          \/ /\ Ticket(tx) \notin w.tickets /\ ~Short(w, tx, TicketPrice)
             /\ h.ok /\ h.w = Bought(w, tx)
    \/ /\ tx.call \in {"pay", "late", "clock"} /\ (tx.call = "clock" => late)
       /\ \/ Short(w, tx, tx.spend) /\ ~h.ok /\ h.w = w
          \/ ~Short(w, tx, tx.spend) /\ tx.call = "late" /\ ~h.ok /\ h.w = Paid(w, tx)
          \/ ~Short(w, tx, tx.spend) /\ tx.call # "late" /\ h.ok /\ h.w = Paid(w, tx)

LEMMA CallCases ==
    ASSUME NEW w, NEW tx \in Tx, NEW late
    PROVE  CallOutcome(w, tx, late, Execution!handleFsnCall(w, tx, late))
  <1>1. tx.call \in {"none", "pay", "ticket", "oldticket", "row", "late", "clock"}
    BY ExecutionAssumed DEF Execution!Transaction
  <1>2. PICK h : h = Execution!handleFsnCall(w, tx, late)  OBVIOUS
  <1>3. CallOutcome(w, tx, late, h)
    BY <1>1, <1>2
    DEF Execution!handleFsnCall, Execution!IsBuyTicketTx, CallOutcome, Paid, Ticket, Bought, Listed, Short
  <1> QED  BY <1>2, <1>3

LEMMA TxFields ==
    ASSUME NEW tx \in Tx
    PROVE  /\ tx.from \in Holder /\ tx.to \in Holder
           /\ tx.nonce \in Nat /\ tx.gas \in Nat /\ tx.price \in Nat /\ tx.fee \in Nat
           /\ tx.intrinsic \in Nat /\ tx.spend \in Nat /\ tx.value \in Nat
           /\ tx.burn \in Nat /\ tx.refund \in Nat
           /\ tx.gas \in Int /\ tx.spend \in Int /\ -tx.spend \in Int /\ tx.value \in Int
           /\ -tx.value \in Int /\ TicketPrice \in Int /\ -TicketPrice \in Int
  <1>1. /\ tx.from \in Holder /\ tx.to \in Holder
        /\ tx.nonce \in Nat /\ tx.gas \in Nat /\ tx.price \in Nat /\ tx.fee \in Nat
        /\ tx.intrinsic \in Nat /\ tx.spend \in Nat /\ tx.value \in Nat
        /\ tx.burn \in Nat /\ tx.refund \in Nat
    BY ExecutionAssumed DEF Execution!Transaction
  <1>2. /\ tx.gas \in Int /\ tx.spend \in Int /\ -tx.spend \in Int /\ tx.value \in Int
        /\ -tx.value \in Int /\ TicketPrice \in Int /\ -TicketPrice \in Int
    <2>1. \A n \in Nat : n \in Int /\ -n \in Int  BY SMT
    <2> QED  BY <1>1, <2>1, ExecutionAssumed
  <1> QED  BY <1>1, <1>2

LEMMA PaidParts ==
    ASSUME NEW w \in Execution!World, NEW tx \in Tx
    PROVE  /\ Paid(w, tx) \in Execution!World /\ Paid(w, tx).tickets = w.tickets
           /\ Balances(Paid(w, tx)) = Added(Added(Balances(w), tx.from, -tx.spend), tx.to, tx.spend)
           /\ Nonces(Paid(w, tx)) = Nonces(w) /\ Rows(Paid(w, tx)) = Rows(w)
  <1>1. tx.from \in Holder /\ tx.to \in Holder /\ -tx.spend \in Int /\ tx.spend \in Int  BY TxFields
  <1> QED  BY <1>1, MoveParts, SMT DEF Paid

LEMMA BoughtParts ==
    ASSUME NEW w \in Execution!World, NEW tx \in Tx, height \in Nat
    PROVE  /\ Bought(w, tx) \in Execution!World
           /\ Bought(w, tx).tickets = w.tickets \cup {Ticket(tx)}
           /\ Balances(Bought(w, tx)) = Added(Balances(w), tx.from, -TicketPrice)
           /\ Nonces(Bought(w, tx)) = Nonces(w) /\ Rows(Bought(w, tx)) = Rows(w)
  <1>0. tx.from \in Holder /\ -TicketPrice \in Int  BY TxFields
  <1>1. PICK c : c = Execution!Credit(w, tx.from, -TicketPrice)  OBVIOUS
  <1>2. /\ c \in Execution!World /\ c.tickets = w.tickets
        /\ Balances(c) = Added(Balances(w), tx.from, -TicketPrice)
        /\ Nonces(c) = Nonces(w) /\ Rows(c) = Rows(w)
    BY <1>0, <1>1, CreditParts, SMT
  <1>3. PICK t, b : t = Ticket(tx) /\ b = Bought(w, tx)  OBVIOUS
  <1>4. t \in Holder \X Nat  BY <1>3, TxFields DEF Ticket
  <1>5. b = [c EXCEPT !.tickets = @ \cup {t}]  BY <1>1, <1>3 DEF Bought
  <1>6. b \in Execution!World /\ b.tickets = c.tickets \cup {t} /\ b.acct = c.acct
    BY <1>2, <1>4, <1>5, SMT DEF Execution!World
  <1>7. Balances(b) = Balances(c) /\ Nonces(b) = Nonces(c) /\ Rows(b) = Rows(c)
    BY <1>6 DEF Balances, Nonces, Rows
  <1> QED  BY <1>2, <1>3, <1>6, <1>7

\* Whatever comes of a call, it takes no ticket away.
LEMMA CallType ==
    ASSUME NEW w \in Execution!World, NEW tx \in Tx, NEW late, height \in Nat
    PROVE  LET h == Execution!handleFsnCall(w, tx, late)
           IN  h.w \in Execution!World /\ w.tickets \subseteq h.w.tickets
  <1>1. PICK h : h = Execution!handleFsnCall(w, tx, late)  OBVIOUS
  <1>0. CallOutcome(w, tx, late, h)  BY <1>1, CallCases
  <1>2. PICK row : row = Listed(w, tx)  OBVIOUS
  <1>3. h.w \in {w, row, Bought(w, tx), Paid(w, tx)}  BY <1>0, <1>2 DEF CallOutcome
  <1>4. row \in Execution!World /\ row.tickets = w.tickets  BY <1>2, TxFields, RowSet DEF Listed
  <1>5. /\ Bought(w, tx) \in Execution!World /\ w.tickets \subseteq Bought(w, tx).tickets
        /\ Paid(w, tx) \in Execution!World /\ w.tickets \subseteq Paid(w, tx).tickets
    BY BoughtParts, PaidParts
  <1>6. h.w \in Execution!World /\ w.tickets \subseteq h.w.tickets  BY <1>3, <1>4, <1>5
  <1> QED  BY <1>1, <1>6

\* The tickets that a packed transaction buys.
Buys(tx) == IF Execution!IsBuyTicketTx(tx) THEN {Ticket(tx)} ELSE {}

\* A call that succeeds writes no row and no nonce, and buys what it should.
LEMMA CallDone ==
    ASSUME NEW w \in Execution!World, NEW tx \in Tx, NEW late, height \in Nat,
           NEW h, h = Execution!handleFsnCall(w, tx, late), h.ok
    PROVE  /\ Nonces(h.w) = Nonces(w) /\ Rows(h.w) = Rows(w)
           /\ h.w.tickets = w.tickets \cup Buys(tx) /\ Buys(tx) \cap w.tickets = {}
  <1>2. \/ h.w = w /\ ~Execution!IsBuyTicketTx(tx)
        \/ h.w = Bought(w, tx) /\ Execution!IsBuyTicketTx(tx) /\ Ticket(tx) \notin w.tickets
        \/ h.w = Paid(w, tx) /\ ~Execution!IsBuyTicketTx(tx)
    <2>1. CallOutcome(w, tx, late, h) /\ h.ok  BY CallCases
    <2> QED  BY <2>1 DEF CallOutcome, Execution!IsBuyTicketTx
  <1>3. CASE h.w = w /\ ~Execution!IsBuyTicketTx(tx)  BY <1>3 DEF Buys
  <1>4. CASE h.w = Paid(w, tx) /\ ~Execution!IsBuyTicketTx(tx)  BY <1>4, PaidParts, ZenonT(40) DEF Buys
  <1>5. CASE h.w = Bought(w, tx) /\ Execution!IsBuyTicketTx(tx) /\ Ticket(tx) \notin w.tickets
    BY <1>5, BoughtParts, ZenonT(40) DEF Buys
  <1> QED  BY <1>2, <1>3, <1>4, <1>5

\* It also succeeds, with the same balances, where these were the same and there
\* were no more tickets.
LEMMA CallAgrees ==
    ASSUME NEW w \in Execution!World, NEW x \in Execution!World, Agree(w, x),
           x.tickets \subseteq w.tickets, NEW tx \in Tx, height \in Nat,
           NEW late, NEW later, late => later,
           NEW h, h = Execution!handleFsnCall(w, tx, late), h.ok,
           NEW k, k = Execution!handleFsnCall(x, tx, later)
    PROVE  k.ok /\ Balances(h.w) = Balances(k.w)
  <1>3. tx.from \in Holder  BY TxFields
  <1>4. \A v : Short(w, tx, v) <=> Short(x, tx, v)
    BY <1>3 DEF Short, Execution!GetBalance, Agree, Balances
  <1>5. Balances(Paid(w, tx)) = Balances(Paid(x, tx))
    <2>1. Balances(Paid(w, tx)) = Added(Added(Balances(w), tx.from, -tx.spend), tx.to, tx.spend)
      BY PaidParts
    <2>2. Balances(Paid(x, tx)) = Added(Added(Balances(x), tx.from, -tx.spend), tx.to, tx.spend)
      BY PaidParts
    <2> QED  BY <2>1, <2>2 DEF Agree
  <1>6. Balances(Bought(w, tx)) = Balances(Bought(x, tx))  BY BoughtParts DEF Agree
  <1>7. CallOutcome(w, tx, late, h) /\ h.ok  BY CallCases
  <1>0. CallOutcome(x, tx, later, k)  BY CallCases
  <1>8. \/ tx.call = "none" /\ h.w = w
        \/ /\ Execution!IsBuyTicketTx(tx) /\ h.w = Bought(w, tx)
           /\ Ticket(tx) \notin w.tickets /\ ~Short(w, tx, TicketPrice)
        \/ /\ tx.call \in {"pay", "clock"} /\ (tx.call = "clock" => late) /\ h.w = Paid(w, tx)
           /\ ~Short(w, tx, tx.spend)
    BY <1>7 DEF CallOutcome, Execution!IsBuyTicketTx
  <1>9. CASE tx.call = "none" /\ h.w = w
    <2>1. k.ok /\ k.w = x  BY <1>0, <1>9 DEF CallOutcome
    <2> QED  BY <1>9, <2>1 DEF Agree
  <1>10. CASE /\ Execution!IsBuyTicketTx(tx) /\ h.w = Bought(w, tx)
              /\ Ticket(tx) \notin w.tickets /\ ~Short(w, tx, TicketPrice)
    <2>1. Ticket(tx) \notin x.tickets /\ ~Short(x, tx, TicketPrice)  BY <1>4, <1>10
    <2>2. k.ok /\ k.w = Bought(x, tx)  BY <1>0, <1>10, <2>1 DEF CallOutcome, Execution!IsBuyTicketTx
    <2> QED  BY <1>6, <1>10, <2>2
  <1>11. CASE /\ tx.call \in {"pay", "clock"} /\ (tx.call = "clock" => late) /\ h.w = Paid(w, tx)
              /\ ~Short(w, tx, tx.spend)
    <2>1. ~Short(x, tx, tx.spend) /\ (tx.call = "clock" => later)  BY <1>4, <1>11
    <2>2. k.ok /\ k.w = Paid(x, tx)  BY <1>0, <1>11, <2>1 DEF CallOutcome
    <2> QED  BY <1>5, <1>11, <2>2
  <1> QED  BY <1>8, <1>9, <1>10, <1>11

\* The EVM: what it does depends on the transaction and the balances.
LEMMA VmParts ==
    ASSUME NEW w \in Execution!World, NEW tx \in Tx
    PROVE  LET v == Execution!evmCall(w, tx)
           IN  /\ v.w \in Execution!World /\ v.w.tickets = w.tickets
               /\ Nonces(v.w) = Nonces(w) /\ Rows(v.w) = Rows(w)
               /\ Balances(v.w) = IF tx.vm = "ok"
                                  THEN Added(Added(Balances(w), tx.from, -tx.value), tx.to, tx.value)
                                  ELSE Balances(w)
  <1>1. PICK m : m = Execution!Credit(Execution!Credit(w, tx.from, -tx.value), tx.to, tx.value)
    OBVIOUS
  <1>2. tx.from \in Holder /\ tx.to \in Holder /\ -tx.value \in Int /\ tx.value \in Int  BY TxFields
  <1>3. /\ m \in Execution!World /\ m.tickets = w.tickets
        /\ Balances(m) = Added(Added(Balances(w), tx.from, -tx.value), tx.to, tx.value)
        /\ Nonces(m) = Nonces(w) /\ Rows(m) = Rows(w)
    BY <1>1, <1>2, MoveParts, SMT
  <1>4. PICK v : v = Execution!evmCall(w, tx)  OBVIOUS
  <1>5. v.w = IF tx.vm = "ok" THEN m ELSE w  BY <1>1, <1>4 DEF Execution!evmCall
  <1>6. CASE tx.vm = "ok"
    <2>1. v.w = m  BY <1>5, <1>6
    <2> QED  BY <1>3, <1>4, <1>6, <2>1
  <1>7. CASE tx.vm # "ok"
    <2>1. v.w = w  BY <1>5, <1>7
    <2> QED  BY <1>4, <1>7, <2>1
  <1> QED  BY <1>6, <1>7

LEMMA VmGas ==
    ASSUME NEW tx \in Tx
    PROVE  \E gas \in Int, refund \in Int :
             \A w : Execution!evmCall(w, tx).gas = gas /\ Execution!evmCall(w, tx).refund = refund
  <1> DEFINE gas == IF tx.vm = "fail" THEN 0 ELSE (tx.gas - tx.intrinsic) - tx.burn
             refund == IF tx.vm = "ok" THEN tx.refund ELSE 0
  <1>1. gas \in Int /\ refund \in Int  BY TxFields, SMT
  <1>2. \A w : Execution!evmCall(w, tx).gas = gas /\ Execution!evmCall(w, tx).refund = refund
    BY DEF Execution!evmCall
  <1> QED  BY <1>1, <1>2

\* The checks before a transaction depend on nonce, balance and gas pool.
LEMMA PreCheckOk ==
    ASSUME NEW w, NEW gp, NEW tx
    PROVE  (Execution!preCheck(w, gp, tx) = "ok")
             <=> /\ ~(w.acct[tx.from].nonce < tx.nonce) /\ ~(w.acct[tx.from].nonce > tx.nonce)
                 /\ ~Short(w, tx, Execution!mgval(tx)) /\ ~(gp < tx.gas)
  BY DEF Execution!preCheck, Short

LEMMA PreCheckAgrees ==
    ASSUME NEW w, NEW x, Agree(w, x), NEW tx \in Tx, NEW gp \in Int, NEW gq \in Int, gp <= gq,
           Execution!preCheck(w, gp, tx) = "ok"
    PROVE  Execution!preCheck(x, gq, tx) = "ok"
  <1>1. tx.from \in Holder /\ tx.gas \in Int  BY TxFields
  <1>2. w.acct[tx.from].nonce = x.acct[tx.from].nonce  BY <1>1 DEF Agree, Nonces
  <1>3. \A v : Short(w, tx, v) <=> Short(x, tx, v)
    BY <1>1 DEF Short, Execution!GetBalance, Agree, Balances
  <1>4. ~(gp < tx.gas)  BY PreCheckOk
  <1>5. ~(gq < tx.gas)  BY <1>1, <1>4, SMT
  <1> QED  BY <1>2, <1>3, <1>5, PreCheckOk

\* The nonce is counted.
LEMMA CountedParts ==
    ASSUME NEW c \in Execution!World, NEW a \in Holder
    PROVE  LET e == [c EXCEPT !.acct[a].nonce = @ + 1]
           IN  /\ e \in Execution!World /\ e.tickets = c.tickets
               /\ Balances(e) = Balances(c) /\ Rows(e) = Rows(c)
               /\ Nonces(e) = Added(Nonces(c), a, 1)
  <1>1. PICK e : e = [c EXCEPT !.acct[a].nonce = @ + 1]  OBVIOUS
  <1>2. e \in Execution!World
    <2>1. PICK acc : acc = [c.acct[a] EXCEPT !.nonce = @ + 1]  OBVIOUS
    <2>2. c.acct[a] \in Execution!Account  BY DEF Execution!World
    <2>3. acc \in Execution!Account  BY <2>1, <2>2, SMT DEF Execution!Account
    <2>4. e = [c EXCEPT !.acct = [@ EXCEPT ![a] = acc]]
      BY <1>1, <2>1, SMT DEF Execution!World
    <2> QED  BY <2>3, <2>4, SMT DEF Execution!World
  <1>3. e.tickets = c.tickets  BY <1>1, SMT DEF Execution!World
  <1>4. \A x \in Holder :
          /\ e.acct[x].balance = c.acct[x].balance /\ e.acct[x].row = c.acct[x].row
          /\ e.acct[x].nonce = IF x = a THEN c.acct[x].nonce + 1 ELSE c.acct[x].nonce
    BY <1>1, SMT DEF Execution!World, Execution!Account
  <1>5. /\ Balances(e) = Balances(c) /\ Rows(e) = Rows(c)
        /\ Nonces(e) = Added(Nonces(c), a, 1)
    BY <1>4 DEF Balances, Rows, Nonces, Added
  <1> QED  BY <1>1, <1>2, <1>3, <1>5

\* The gas is bought and the nonce is counted.
Entered(w, tx) ==
    [Execution!Credit(w, tx.from, -Execution!mgval(tx)) EXCEPT !.acct[tx.from].nonce = @ + 1]

LEMMA EnteredParts ==
    ASSUME NEW w \in Execution!World, NEW tx \in Tx
    PROVE  /\ Execution!Credit(w, tx.from, -Execution!mgval(tx)) \in Execution!World
           /\ Execution!Credit(w, tx.from, -Execution!mgval(tx)).tickets = w.tickets
           /\ Entered(w, tx) \in Execution!World /\ Entered(w, tx).tickets = w.tickets
           /\ Balances(Entered(w, tx)) = Added(Balances(w), tx.from, -Execution!mgval(tx))
           /\ Nonces(Entered(w, tx)) = Added(Nonces(w), tx.from, 1)
           /\ Rows(Entered(w, tx)) = Rows(w)
  <1>1. tx.from \in Holder /\ tx.gas \in Nat /\ tx.price \in Nat /\ tx.fee \in Nat  BY TxFields
  <1>2. -Execution!mgval(tx) \in Int  BY <1>1, SMT DEF Execution!mgval
  <1>3. PICK v : v = -Execution!mgval(tx)  OBVIOUS
  <1>4. PICK c : c = Execution!Credit(w, tx.from, v)  OBVIOUS
  <1>5. /\ c \in Execution!World /\ c.tickets = w.tickets
        /\ Balances(c) = Added(Balances(w), tx.from, v)
        /\ Nonces(c) = Nonces(w) /\ Rows(c) = Rows(w)
    <2>1. v \in Int  BY <1>2, <1>3
    <2> QED  BY <1>1, <1>4, <2>1, CreditParts
  <1>6. PICK e : e = [c EXCEPT !.acct[tx.from].nonce = @ + 1]  OBVIOUS
  <1>7. /\ e \in Execution!World /\ e.tickets = c.tickets /\ Balances(e) = Balances(c)
        /\ Rows(e) = Rows(c) /\ Nonces(e) = Added(Nonces(c), tx.from, 1)
    BY <1>1, <1>5, <1>6, CountedParts
  <1>8. e = Entered(w, tx)  BY <1>3, <1>4, <1>6 DEF Entered
  <1> QED  BY <1>3, <1>4, <1>5, <1>7, <1>8

\* From the end of the call on: the EVM, the refund and the fees.
GasLeft(c, tx) ==
    Execution!refundGas(tx, Execution!evmCall(c, tx).gas, Execution!evmCall(c, tx).refund)
GasUsed(c, tx) == tx.gas - GasLeft(c, tx).gas
Settled(c, tx) ==
    Execution!Credit(Execution!Credit(Execution!evmCall(c, tx).w, tx.from, GasLeft(c, tx).remaining),
                     Coinbase, GasUsed(c, tx) * tx.price + tx.fee)

LEMMA SettledGas ==
    ASSUME NEW tx \in Tx
    PROVE  \E back \in Int, spent \in Int, fees \in Int :
             \A c : /\ GasLeft(c, tx).remaining = back /\ GasUsed(c, tx) = spent
                    /\ GasUsed(c, tx) * tx.price + tx.fee = fees
  <1>1. PICK gas \in Int, refund \in Int :
          \A w : Execution!evmCall(w, tx).gas = gas /\ Execution!evmCall(w, tx).refund = refund
    BY VmGas
  <1>2. PICK left : left = Execution!refundGas(tx, gas, refund)  OBVIOUS
  <1>3. \A c : GasLeft(c, tx) = left  BY <1>1, <1>2 DEF GasLeft
  <1>4. tx.gas \in Nat /\ tx.price \in Nat /\ tx.fee \in Nat  BY TxFields
  <1>5. left.gas \in Int /\ left.remaining \in Int
    BY <1>2, <1>4, SMT DEF Execution!refundGas
  <1>6. PICK spent : spent = tx.gas - left.gas  OBVIOUS
  <1>7. PICK fees : fees = spent * tx.price + tx.fee  OBVIOUS
  <1>8. PICK back : back = left.remaining  OBVIOUS
  <1>9. spent \in Int /\ fees \in Int  BY <1>4, <1>5, <1>6, <1>7, SMT
  <1>10. \A c : GasUsed(c, tx) = spent  BY <1>3, <1>6 DEF GasUsed
  <1>11. \A c : /\ GasLeft(c, tx).remaining = back /\ GasUsed(c, tx) = spent
                /\ GasUsed(c, tx) * tx.price + tx.fee = fees
    BY <1>3, <1>7, <1>8, <1>10
  <1> back \in Int /\ spent \in Int /\ fees \in Int  BY <1>5, <1>8, <1>9
  <1> WITNESS back \in Int, spent \in Int, fees \in Int
  <1> QED  BY <1>11

LEMMA SettledParts ==
    ASSUME NEW c \in Execution!World, NEW tx \in Tx
    PROVE  /\ Settled(c, tx) \in Execution!World /\ Settled(c, tx).tickets = c.tickets
           /\ Nonces(Settled(c, tx)) = Nonces(c) /\ Rows(Settled(c, tx)) = Rows(c)
           /\ GasUsed(c, tx) \in Int
           /\ \A d \in Execution!World : Agree(c, d) =>
                 Agree(Settled(c, tx), Settled(d, tx)) /\ GasUsed(c, tx) = GasUsed(d, tx)
  <1>1. PICK back \in Int, spent \in Int, fees \in Int :
          \A x : /\ GasLeft(x, tx).remaining = back /\ GasUsed(x, tx) = spent
                 /\ GasUsed(x, tx) * tx.price + tx.fee = fees
    BY SettledGas
  <1>2. tx.from \in Holder /\ Coinbase \in Holder  BY TxFields, ExecutionAssumed
  <1>3. ASSUME NEW x \in Execution!World
        PROVE  /\ Settled(x, tx) \in Execution!World /\ Settled(x, tx).tickets = x.tickets
               /\ Nonces(Settled(x, tx)) = Nonces(x) /\ Rows(Settled(x, tx)) = Rows(x)
               /\ Balances(Settled(x, tx)) =
                    Added(Added(Balances(Execution!evmCall(x, tx).w), tx.from, back), Coinbase, fees)
    <2>1. PICK v : v = Execution!evmCall(x, tx).w  OBVIOUS
    <2>2. /\ v \in Execution!World /\ v.tickets = x.tickets
          /\ Nonces(v) = Nonces(x) /\ Rows(v) = Rows(x)
      BY <2>1, VmParts, SMT
    <2>3. PICK m : m = Execution!Credit(Execution!Credit(v, tx.from, back), Coinbase, fees)  OBVIOUS
    <2>4. v \in Execution!World  BY <2>2
    <2>5. /\ m \in Execution!World /\ m.tickets = v.tickets
          /\ Balances(m) = Added(Added(Balances(v), tx.from, back), Coinbase, fees)
          /\ Nonces(m) = Nonces(v) /\ Rows(m) = Rows(v)
      BY <1>2, <2>3, <2>4, MoveParts, SMT
    <2>6. m = Settled(x, tx)  BY <1>1, <2>1, <2>3 DEF Settled
    <2> QED  BY <2>1, <2>2, <2>5, <2>6
  <1>4. ASSUME NEW x \in Execution!World, NEW d \in Execution!World, Balances(x) = Balances(d)
        PROVE  Balances(Execution!evmCall(x, tx).w) = Balances(Execution!evmCall(d, tx).w)
    <2>1. PICK b : b = IF tx.vm = "ok"
                       THEN Added(Added(Balances(x), tx.from, -tx.value), tx.to, tx.value)
                       ELSE Balances(x)
      OBVIOUS
    <2>2. Balances(Execution!evmCall(x, tx).w) = b  BY <2>1, VmParts, SMT
    <2>3. Balances(Execution!evmCall(d, tx).w) = b  BY <1>4, <2>1, VmParts, SMT
    <2> QED  BY <2>2, <2>3
  <1>5. ASSUME NEW d \in Execution!World, Agree(c, d)
        PROVE  Agree(Settled(c, tx), Settled(d, tx)) /\ GasUsed(c, tx) = GasUsed(d, tx)
    <2>1. Balances(Execution!evmCall(c, tx).w) = Balances(Execution!evmCall(d, tx).w)
      BY <1>4, <1>5 DEF Agree
    <2>2. Balances(Settled(c, tx)) = Balances(Settled(d, tx))  BY <1>3, <2>1
    <2>3. Nonces(Settled(c, tx)) = Nonces(c) /\ Nonces(Settled(d, tx)) = Nonces(d)  BY <1>3
    <2>4. GasUsed(c, tx) = GasUsed(d, tx)  BY <1>1
    <2> QED  BY <1>5, <2>2, <2>3, <2>4 DEF Agree
  <1>6. GasUsed(c, tx) \in Int  BY <1>1
  <1> QED  BY <1>3, <1>5, <1>6

\* How TransitionDb ends: the transaction is done, or it stops on one of four
\* errors with what it had written.
Outcome(w, gp, tx, mining, late, r) ==
    LET h == Execution!handleFsnCall(Entered(w, tx), tx, late)
    IN  \/ /\ r.err = "ok" /\ Execution!preCheck(w, gp, tx) = "ok" /\ tx.gas >= tx.intrinsic
           /\ (mining => h.ok) /\ Execution!CanTransfer(h.w, tx)
           /\ r.w = Settled(h.w, tx) /\ r.used = GasUsed(h.w, tx) /\ r.pool = gp - GasUsed(h.w, tx)
        \/ /\ r.err # "ok"
           /\ \/ Execution!preCheck(w, gp, tx) # "ok" \/ ~(tx.gas >= tx.intrinsic)
              \/ ~Execution!CanTransfer(h.w, tx) \/ (mining /\ ~h.ok)
           /\ \/ r.w = w \/ r.w = h.w \/ r.w = Execution!Credit(w, tx.from, -Execution!mgval(tx))
           /\ r.pool \in {gp, gp - tx.gas}

LEMMA OutcomeOf ==
    ASSUME NEW w, NEW gp, NEW tx \in Tx, NEW mining, NEW late
    PROVE  Outcome(w, gp, tx, mining, late, Execution!TransitionDb(w, gp, tx, mining, late))
  <1>1. tx.gas < tx.intrinsic <=> ~(tx.gas >= tx.intrinsic)  BY TxFields, SMT
  <1>2. PICK pre : pre = Execution!preCheck(w, gp, tx)  OBVIOUS
  <1>3. PICK h : h = Execution!handleFsnCall(Entered(w, tx), tx, late)  OBVIOUS
  <1>4. PICK b : b = Execution!Credit(w, tx.from, -Execution!mgval(tx))  OBVIOUS
  <1>5. PICK s : s = Settled(h.w, tx)  OBVIOUS
  <1>6. PICK u : u = GasUsed(h.w, tx)  OBVIOUS
  <1>7. PICK r : r = Execution!TransitionDb(w, gp, tx, mining, late)  OBVIOUS
  <1>8. r = CASE pre # "ok" -> [err |-> pre, w |-> w, pool |-> gp, used |-> 0]
              [] pre = "ok" /\ tx.gas < tx.intrinsic ->
                   [err |-> "out of gas", w |-> b, pool |-> gp - tx.gas, used |-> 0]
              [] pre = "ok" /\ tx.gas >= tx.intrinsic /\ ~h.ok /\ mining ->
                   [err |-> "call", w |-> h.w, pool |-> gp - tx.gas, used |-> 0]
              [] OTHER ->
                   IF ~Execution!CanTransfer(h.w, tx)
                   THEN [err |-> "insufficient balance", w |-> h.w, pool |-> gp - tx.gas, used |-> 0]
                   ELSE [err |-> "ok", w |-> s, pool |-> gp - u, used |-> u]
    BY <1>2, <1>3, <1>4, <1>5, <1>6, <1>7
    DEF Execution!TransitionDb, Entered, Settled, GasUsed, GasLeft
  <1>9. CASE pre # "ok"
    <2>1. r = [err |-> pre, w |-> w, pool |-> gp, used |-> 0]  BY <1>8, <1>9
    <2>2. r.err # "ok" /\ r.w = w /\ r.pool = gp  BY <1>9, <2>1
    <2> QED  BY <1>2, <1>7, <1>9, <2>2 DEF Outcome
  <1>10. CASE pre = "ok" /\ ~(tx.gas >= tx.intrinsic)
    <2>1. r = [err |-> "out of gas", w |-> b, pool |-> gp - tx.gas, used |-> 0]
      BY <1>1, <1>8, <1>10
    <2>2. r.err # "ok" /\ r.w = b /\ r.pool = gp - tx.gas  BY <2>1
    <2> QED  BY <1>4, <1>7, <1>10, <2>2 DEF Outcome
  <1>11. CASE pre = "ok" /\ tx.gas >= tx.intrinsic /\ ~h.ok /\ mining
    <2>1. r = [err |-> "call", w |-> h.w, pool |-> gp - tx.gas, used |-> 0]
      BY <1>1, <1>8, <1>11
    <2>2. r.err # "ok" /\ r.w = h.w /\ r.pool = gp - tx.gas  BY <2>1
    <2> QED  BY <1>3, <1>7, <1>11, <2>2 DEF Outcome
  <1>12. CASE /\ pre = "ok" /\ tx.gas >= tx.intrinsic /\ ~(~h.ok /\ mining)
              /\ ~Execution!CanTransfer(h.w, tx)
    <2>1. r = [err |-> "insufficient balance", w |-> h.w, pool |-> gp - tx.gas, used |-> 0]
      BY <1>1, <1>8, <1>12
    <2>2. r.err # "ok" /\ r.w = h.w /\ r.pool = gp - tx.gas  BY <2>1
    <2> QED  BY <1>3, <1>7, <1>12, <2>2 DEF Outcome
  <1>13. CASE /\ pre = "ok" /\ tx.gas >= tx.intrinsic /\ ~(~h.ok /\ mining)
              /\ Execution!CanTransfer(h.w, tx)
    <2>1. r = [err |-> "ok", w |-> s, pool |-> gp - u, used |-> u]  BY <1>1, <1>8, <1>13
    <2>2. r.err = "ok" /\ r.w = s /\ r.pool = gp - u /\ r.used = u  BY <2>1
    <2> QED  BY <1>2, <1>3, <1>5, <1>6, <1>7, <1>13, <2>2 DEF Outcome
  <1> QED  BY <1>9, <1>10, <1>11, <1>12, <1>13

\* A transaction that the worker packs is done by the importer too: where the
\* balances, the nonces and the gas pool let the worker do it, and no ticket is in
\* the way, they let the importer do it, and come to the same balances and nonces.
Packable(w, gp, tx, late, r) ==
    /\ r.w \in Execution!World /\ r.used \in Int /\ r.pool = gp - r.used
    /\ Rows(r.w) = Rows(w) /\ r.w.tickets = w.tickets \cup Buys(tx)
    /\ Buys(tx) \cap w.tickets = {}

LEMMA TransitionDone ==
    ASSUME NEW w \in Execution!World, NEW gp \in Int, NEW tx \in Tx, NEW late, height \in Nat,
           NEW mining, NEW r, r = Execution!TransitionDb(w, gp, tx, mining, late), r.err = "ok",
           Execution!handleFsnCall(Entered(w, tx), tx, late).ok
    PROVE  Packable(w, gp, tx, late, r)
  <1>1. PICK e : e = Entered(w, tx)  OBVIOUS
  <1>2. PICK h : h = Execution!handleFsnCall(e, tx, late)  OBVIOUS
  <1>3. e \in Execution!World /\ e.tickets = w.tickets /\ Rows(e) = Rows(w)  BY <1>1, EnteredParts
  <1>4. h.w \in Execution!World  BY <1>2, <1>3, CallType
  <1>5. h.ok  BY <1>1, <1>2
  <1>6. Rows(h.w) = Rows(e) /\ h.w.tickets = e.tickets \cup Buys(tx) /\ Buys(tx) \cap e.tickets = {}
    BY <1>2, <1>3, <1>5, CallDone, SMT
  <1>7. Outcome(w, gp, tx, mining, late, r)  BY OutcomeOf
  <1>8. r.w = Settled(h.w, tx) /\ r.used = GasUsed(h.w, tx) /\ r.pool = gp - GasUsed(h.w, tx)
    BY <1>1, <1>2, <1>7 DEF Outcome
  <1>9. /\ r.w \in Execution!World /\ r.w.tickets = h.w.tickets /\ Rows(r.w) = Rows(h.w)
        /\ r.used \in Int
    BY <1>4, <1>8, SettledParts, ZenonT(40)
  <1> QED  BY <1>3, <1>6, <1>8, <1>9 DEF Packable

\* The worker does tx on world w.
Done(w, gp, tx, late, r) ==
    r = Execution!TransitionDb(w, gp, tx, TRUE, late) /\ r.err = "ok"

\* The worker does tx on world w, and an importer does it on x.
Twice(w, gp, late, r, x, gq, later, s, tx) ==
    /\ w \in Execution!World /\ x \in Execution!World /\ Agree(w, x) /\ x.tickets \subseteq w.tickets
    /\ gp \in Int /\ gq \in Int /\ gp <= gq /\ (late => later) /\ tx \in Tx
    /\ Done(w, gp, tx, late, r) /\ s = Execution!TransitionDb(x, gq, tx, FALSE, later)

\* The importer did what the worker did, with result r.
Repeated(r, x, gq, later, s, tx) ==
    s.err = "ok" /\ Packable(x, gq, tx, later, s) /\ s.used = r.used /\ Agree(r.w, s.w)

LEMMA TransitionAgrees ==
    ASSUME NEW w, NEW gp, NEW late, NEW r, NEW x, NEW gq, NEW later, NEW s, NEW tx,
           Twice(w, gp, late, r, x, gq, later, s, tx), height \in Nat
    PROVE  Packable(w, gp, tx, late, r) /\ Repeated(r, x, gq, later, s, tx)
  <1>0. /\ w \in Execution!World /\ x \in Execution!World /\ Agree(w, x)
        /\ x.tickets \subseteq w.tickets /\ gp \in Int /\ gq \in Int /\ gp <= gq
        /\ (late => later) /\ tx \in Tx /\ r.err = "ok"
        /\ r = Execution!TransitionDb(w, gp, tx, TRUE, late)
        /\ s = Execution!TransitionDb(x, gq, tx, FALSE, later)
    BY DEF Twice, Done
  <1> USE <1>0
  <1>1. PICK e : e = Entered(w, tx)  OBVIOUS
  <1>2. PICK f : f = Entered(x, tx)  OBVIOUS
  <1>3. e \in Execution!World /\ e.tickets = w.tickets  BY <1>1, EnteredParts
  <1>4. f \in Execution!World /\ f.tickets = x.tickets  BY <1>2, EnteredParts
  <1>5. Agree(e, f)
    <2>1. Balances(w) = Balances(x) /\ Nonces(w) = Nonces(x)  BY DEF Agree
    <2>2. /\ Balances(e) = Added(Balances(w), tx.from, -Execution!mgval(tx))
          /\ Nonces(e) = Added(Nonces(w), tx.from, 1)
      BY <1>1, EnteredParts
    <2>3. /\ Balances(f) = Added(Balances(x), tx.from, -Execution!mgval(tx))
          /\ Nonces(f) = Added(Nonces(x), tx.from, 1)
      BY <1>2, EnteredParts
    <2> QED  BY <2>1, <2>2, <2>3 DEF Agree
  <1>6. PICK h : h = Execution!handleFsnCall(e, tx, late)  OBVIOUS
  <1>7. PICK k : k = Execution!handleFsnCall(f, tx, later)  OBVIOUS
  <1>8. Outcome(w, gp, tx, TRUE, late, r)
    <2>1. PICK mining : mining = TRUE  OBVIOUS
    <2>2. Outcome(w, gp, tx, mining, late, Execution!TransitionDb(w, gp, tx, mining, late))
      BY OutcomeOf
    <2> QED  BY <2>1, <2>2
  <1>9. /\ Execution!preCheck(w, gp, tx) = "ok" /\ tx.gas >= tx.intrinsic /\ h.ok
        /\ Execution!CanTransfer(h.w, tx)
        /\ r.w = Settled(h.w, tx) /\ r.used = GasUsed(h.w, tx)
    BY <1>1, <1>6, <1>8 DEF Outcome
  <1>10. h.w \in Execution!World  BY <1>3, <1>6, CallType
  <1>11. k.w \in Execution!World  BY <1>4, <1>7, CallType
  <1>12. k.ok /\ Balances(h.w) = Balances(k.w)
    <2>1. f.tickets \subseteq e.tickets  BY <1>3, <1>4
    <2>2. h.ok  BY <1>9
    <2> QED  BY <1>3, <1>4, <1>5, <1>6, <1>7, <2>1, <2>2, CallAgrees, SMT
  <1>13. Nonces(h.w) = Nonces(e)  BY <1>3, <1>6, <1>9, CallDone, ZenonT(40)
  <1>14. Nonces(k.w) = Nonces(f)  BY <1>4, <1>7, <1>12, CallDone, SMT
  <1>15. Agree(h.w, k.w)  BY <1>5, <1>12, <1>13, <1>14 DEF Agree
  <1>16. Execution!preCheck(x, gq, tx) = "ok"  BY <1>9, PreCheckAgrees
  <1>17. Execution!CanTransfer(k.w, tx)
    <2>1. tx.from \in Holder  BY TxFields
    <2>2. h.w.acct[tx.from].balance = k.w.acct[tx.from].balance  BY <1>12, <2>1 DEF Balances
    <2> QED  BY <1>9, <2>2 DEF Execution!CanTransfer, Execution!GetBalance
  <1>18. Outcome(x, gq, tx, FALSE, later, s)
    <2>1. PICK mining : mining = FALSE  OBVIOUS
    <2>2. Outcome(x, gq, tx, mining, later, Execution!TransitionDb(x, gq, tx, mining, later))
      BY OutcomeOf
    <2> QED  BY <2>1, <2>2
  <1>19. s.err = "ok" /\ s.w = Settled(k.w, tx) /\ s.used = GasUsed(k.w, tx)
    BY <1>2, <1>7, <1>9, <1>16, <1>17, <1>18 DEF Outcome
  <1>20. Agree(r.w, s.w) /\ s.used = r.used
    BY <1>9, <1>10, <1>11, <1>15, <1>19, SettledParts, ZenonT(40)
  <1>21. Packable(w, gp, tx, late, r)
    <2>1. PICK mining : mining = TRUE  OBVIOUS
    <2>2. r = Execution!TransitionDb(w, gp, tx, mining, late)  BY <2>1
    <2>3. Execution!handleFsnCall(Entered(w, tx), tx, late).ok  BY <1>1, <1>6, <1>9
    <2> QED  BY <2>2, <2>3, TransitionDone
  <1>22. Packable(x, gq, tx, later, s)
    <2>1. PICK mining : mining = FALSE  OBVIOUS
    <2>2. s = Execution!TransitionDb(x, gq, tx, mining, later)  BY <2>1
    <2>3. Execution!handleFsnCall(Entered(x, tx), tx, later).ok  BY <1>2, <1>7, <1>12
    <2> QED  BY <1>19, <2>2, <2>3, TransitionDone
  <1> QED  BY <1>19, <1>20, <1>21, <1>22 DEF Repeated

\* A transaction that the worker drops leaves its tickets, and takes gas from the
\* pool.
LEMMA TransitionFails ==
    ASSUME NEW w \in Execution!World, NEW gp \in Int, NEW tx \in Tx, height \in Nat, NEW late,
           NEW mining, NEW r, r = Execution!TransitionDb(w, gp, tx, mining, late), r.err # "ok"
    PROVE  /\ r.w \in Execution!World /\ w.tickets \subseteq r.w.tickets
           /\ r.pool \in Int /\ r.pool <= gp
  <1>1. PICK e : e = Entered(w, tx)  OBVIOUS
  <1>2. PICK h : h = Execution!handleFsnCall(e, tx, late)  OBVIOUS
  <1>3. PICK b : b = Execution!Credit(w, tx.from, -Execution!mgval(tx))  OBVIOUS
  <1>4. e \in Execution!World /\ e.tickets = w.tickets  BY <1>1, EnteredParts
  <1>5. b \in Execution!World /\ b.tickets = w.tickets  BY <1>3, EnteredParts
  <1>6. h.w \in Execution!World /\ e.tickets \subseteq h.w.tickets  BY <1>2, <1>4, CallType
  <1>7. Outcome(w, gp, tx, mining, late, r)  BY OutcomeOf
  <1>8. (r.w = w \/ r.w = h.w \/ r.w = b) /\ (r.pool = gp \/ r.pool = gp - tx.gas)
    BY <1>1, <1>2, <1>3, <1>7 DEF Outcome
  <1>9. r.w \in Execution!World /\ w.tickets \subseteq r.w.tickets  BY <1>4, <1>5, <1>6, <1>8
  <1>10. tx.gas \in Nat  BY TxFields
  <1>11. r.pool \in Int /\ r.pool <= gp  BY <1>8, <1>10, SMT
  <1> QED  BY <1>9, <1>11

\* RevertToSnapshot restores balances and nonces.
LEMMA Reverted ==
    ASSUME NEW w \in Execution!World, NEW after \in Execution!World
    PROVE  LET b == Execution!RevertToSnapshot(w, after)
           IN  /\ b \in Execution!World /\ b.tickets = after.tickets /\ Agree(b, w)
  <1>1. PICK b : b = Execution!RevertToSnapshot(w, after)  OBVIOUS
  <1>2. ASSUME NEW a \in Holder
        PROVE  /\ b.acct[a] \in Execution!Account
               /\ b.acct[a].balance = w.acct[a].balance /\ b.acct[a].nonce = w.acct[a].nonce
    <2>1. PICK x : x = w.acct[a]  OBVIOUS
    <2>2. PICK row : row = after.acct[a].row  OBVIOUS
    <2>3. x \in Execution!Account  BY <2>1 DEF Execution!World
    <2>4. after.acct[a] \in Execution!Account  BY DEF Execution!World
    <2>5. row \in BOOLEAN  BY <2>2, <2>4 DEF Execution!Account
    <2>6. b.acct[a] = [x EXCEPT !.row = row]  BY <1>1, <2>1, <2>2 DEF Execution!RevertToSnapshot
    <2>7. [x EXCEPT !.row = row] = [balance |-> x.balance, nonce |-> x.nonce, row |-> row]
      BY <2>3, SMT DEF Execution!Account
    <2>8. x.balance \in Int /\ x.nonce \in Nat  BY <2>3 DEF Execution!Account
    <2>9. [balance |-> x.balance, nonce |-> x.nonce, row |-> row] \in Execution!Account
      BY <2>5, <2>8 DEF Execution!Account
    <2> QED  BY <2>1, <2>6, <2>7, <2>9
  <1>3. b.acct \in [Holder -> Execution!Account]
    <2>1. b.acct = [a \in Holder |-> b.acct[a]]  BY <1>1 DEF Execution!RevertToSnapshot
    <2> QED  BY <1>2, <2>1
  <1>4. b.tickets = after.tickets  BY <1>1 DEF Execution!RevertToSnapshot
  <1>5. b = [acct |-> b.acct, tickets |-> b.tickets]  BY <1>1 DEF Execution!RevertToSnapshot
  <1>6. after.tickets \in SUBSET (Holder \X Nat)  BY DEF Execution!World
  <1>7. b \in Execution!World  BY <1>3, <1>4, <1>5, <1>6 DEF Execution!World
  <1>8. Agree(b, w)  BY <1>2 DEF Agree, Balances, Nonces
  <1> QED  BY <1>1, <1>4, <1>7, <1>8

\* Calls know the height, which stays the same while a block is made.
LEMMA CallSame ==
    ASSUME height' = height, NEW w, NEW tx, NEW late
    PROVE  Execution!handleFsnCall(w, tx, late)' = Execution!handleFsnCall(w, tx, late)
  BY ZenonT(40) DEF Execution!handleFsnCall, Execution!IsBuyTicketTx, Execution!Credit, Execution!GetBalance

LEMMA StepSame ==
    ASSUME height' = height, NEW acc, NEW tx, NEW late
    PROVE  Execution!Step(acc, tx, late)' = Execution!Step(acc, tx, late)
  <1>1. \A w : Execution!handleFsnCall(w, tx, late)' = Execution!handleFsnCall(w, tx, late)
    BY CallSame
  <1>2. ASSUME NEW w, NEW gp, NEW mining
        PROVE  Execution!TransitionDb(w, gp, tx, mining, late)'
                 = Execution!TransitionDb(w, gp, tx, mining, late)
    <2>1. PICK e : e = Entered(w, tx)  OBVIOUS
    <2>2. PICK h : h = Execution!handleFsnCall(e, tx, late)  OBVIOUS
    <2>3. h = Execution!handleFsnCall(e, tx, late)'  BY <1>1, <2>2
    <2>4. e = Entered(w, tx)'  BY <2>1
    <2>5. Execution!TransitionDb(w, gp, tx, mining, late)
            = Execution!TransitionDb(w, gp, tx, mining, late)'
      BY <2>1, <2>2, <2>3, <2>4, ZenonT(40) DEF Execution!TransitionDb, Entered
    <2> QED  BY <2>5
  <1> QED  BY <1>2 DEF Execution!Step

LEMMA RunsSame ==
    ASSUME height' = height, NEW g, NEW w, NEW block, NEW late
    PROVE  Runs(g, w, block, late)' <=> Runs(g, w, block, late)
  <1>1. \A acc, tx : Execution!Step(acc, tx, late)' = Execution!Step(acc, tx, late)  BY StepSame
  <1> QED  BY <1>1 DEF Runs, Start

\* A run of a block with one more transaction.
LEMMA RunAppends ==
    ASSUME NEW block \in Seq(Tx), NEW tx \in Tx, NEW w, NEW late, NEW g,
           Runs(g, w, Append(block, tx), late)
    PROVE  \E f : /\ Runs(f, w, block, late)
                  /\ g[Len(Append(block, tx))] = Execution!Step(f[Len(block)], tx, late)
  <1> DEFINE longer == Append(block, tx)
             n == Len(block)
             f == [i \in 0 .. n |-> g[i]]
  <1>1. n \in Nat /\ Len(longer) = n + 1 /\ longer[n + 1] = tx  BY SMT
  <1>2. \A i \in 1 .. n : longer[i] = block[i]  BY SMT
  <1>3. \A i \in 0 .. n : /\ i \in 0 .. n + 1
                          /\ i # 0 => i \in 1 .. n /\ i - 1 \in 0 .. n
    BY <1>1, SMT
  <1>4. n \in 0 .. n /\ n + 1 \in 0 .. n + 1 /\ n + 1 # 0 /\ (n + 1) - 1 = n  BY <1>1, SMT
  <1>5. \A i \in 0 .. n + 1 :
          g[i] = IF i = 0 THEN Start(w) ELSE Execution!Step(g[i - 1], longer[i], late)
    BY <1>1 DEF Runs
  <1>6. \A i \in 0 .. n : f[i] = g[i]  OBVIOUS
  <1> HIDE DEF f, longer
  <1>7. ASSUME NEW i \in 0 .. n
        PROVE  g[i] = IF i = 0 THEN Start(w) ELSE Execution!Step(f[i - 1], block[i], late)
    <2>1. CASE i = 0  BY <1>3, <1>5, <2>1
    <2>2. CASE i # 0
      <3>1. g[i] = Execution!Step(g[i - 1], longer[i], late)  BY <1>3, <1>5, <2>2
      <3>2. longer[i] = block[i] /\ f[i - 1] = g[i - 1]  BY <1>2, <1>3, <1>6, <2>2
      <3> QED  BY <2>2, <3>1, <3>2
    <2> QED  BY <2>1, <2>2
  <1>8. Runs(f, w, block, late)
    <2>1. f = [i \in 0 .. n |-> IF i = 0 THEN Start(w) ELSE Execution!Step(f[i - 1], block[i], late)]
      BY <1>7 DEF f
    <2> QED  BY <2>1 DEF Runs
  <1>9. g[n + 1] = Execution!Step(f[n], tx, late)
    <2>1. g[n + 1] = Execution!Step(g[(n + 1) - 1], longer[n + 1], late)  BY <1>4, <1>5
    <2> QED  BY <1>1, <1>4, <1>6, <2>1
  <1> QED  BY <1>1, <1>8, <1>9 DEF longer

\* The tickets that the transactions of a block buy.
Purchased(block) == UNION {Buys(block[i]) : i \in DOMAIN block}

LEMMA PurchasedAppends ==
    ASSUME NEW block \in Seq(Tx), NEW tx \in Tx
    PROVE  Purchased(Append(block, tx)) = Purchased(block) \cup Buys(tx)
  <1> DEFINE longer == Append(block, tx)
             n == Len(block)
  <1>1. n \in Nat /\ longer[n + 1] = tx /\ DOMAIN longer = 1 .. n + 1 /\ DOMAIN block = 1 .. n  BY SMT
  <1>2. \A i \in 1 .. n : longer[i] = block[i] /\ i \in 1 .. n + 1  BY SMT
  <1>3. n + 1 \in 1 .. n + 1 /\ \A i \in 1 .. n + 1 : i = n + 1 \/ i \in 1 .. n  BY <1>1, SMT
  <1> HIDE DEF longer
  <1>4. ASSUME NEW t \in Purchased(longer) PROVE t \in Purchased(block) \cup Buys(tx)
    <2>1. PICK i \in 1 .. n + 1 : t \in Buys(longer[i])  BY <1>1, <1>4 DEF Purchased
    <2>2. CASE i = n + 1  BY <1>1, <2>1, <2>2
    <2>3. CASE i \in 1 .. n  BY <1>1, <1>2, <2>1, <2>3 DEF Purchased
    <2> QED  BY <1>3, <2>2, <2>3
  <1>5. ASSUME NEW t \in Buys(tx) PROVE t \in Purchased(longer)
    BY <1>1, <1>3, <1>5 DEF Purchased
  <1>6. ASSUME NEW t \in Purchased(block) PROVE t \in Purchased(longer)
    <2>1. PICK i \in 1 .. n : t \in Buys(block[i])  BY <1>1, <1>6 DEF Purchased
    <2>2. t \in Buys(longer[i]) /\ i \in DOMAIN longer  BY <1>1, <1>2, <2>1
    <2> QED  BY <2>2 DEF Purchased
  <1> QED  BY <1>4, <1>5, <1>6 DEF longer

\* No account buys two tickets in a block.
BuyOnce(block) ==
    \A i, j \in DOMAIN block :
        Execution!IsBuyTicketTx(block[i]) /\ Execution!IsBuyTicketTx(block[j])
            /\ block[i].from = block[j].from => i = j

\* Where an importer stands after the transactions that the worker has packed:
\* its world has the worker's balances and nonces, the parent's rows, and no
\* tickets but those that the block buys.
Mirrors(w, gp, u, par, block, e) ==
    /\ e.err = "ok" /\ e.used = u /\ e.pool \in Int /\ gp <= e.pool
    /\ e.w \in Execution!World /\ Agree(w, e.w) /\ Rows(e.w) = Rows(par)
    /\ e.w.tickets = par.tickets \cup Purchased(block)

Mirrored(w, gp, u, par, block, worker) ==
    \A late, g : (worker => late) /\ Runs(g, par, block, late)
                   => Mirrors(w, gp, u, par, block, g[Len(block)])

\* The worker's side, with its world, gas pool, gas used and touched accounts.
Packs(w, gp, u, par, block, seen, worker) ==
    /\ w \in Execution!World /\ gp \in Int
    /\ par.tickets \cup Purchased(block) \subseteq w.tickets
    /\ BuyOnce(block)
    /\ \A a \in Holder \ seen : Balances(w)[a] = Balances(par)[a] /\ Nonces(w)[a] = Nonces(par)[a]
    /\ Mirrored(w, gp, u, par, block, worker)

LEMMA PacksSame ==
    ASSUME height' = height, NEW w, NEW gp, NEW u, NEW par, NEW block, NEW seen, NEW worker
    PROVE  Packs(w, gp, u, par, block, seen, worker)' <=> Packs(w, gp, u, par, block, seen, worker)
  <1>1. Purchased(block)' = Purchased(block)  BY DEF Purchased, Buys, Ticket
  <1>2. \A e : Mirrors(w, gp, u, par, block, e)' <=> Mirrors(w, gp, u, par, block, e)
    BY <1>1 DEF Mirrors
  <1>3. \A late, g : Runs(g, par, block, late)' <=> Runs(g, par, block, late)  BY RunsSame
  <1>4. Mirrored(w, gp, u, par, block, worker)' <=> Mirrored(w, gp, u, par, block, worker)
    BY <1>2, <1>3 DEF Mirrored
  <1> QED  BY <1>1, <1>4 DEF Packs

LEMMA PacksStart ==
    ASSUME NEW par \in Execution!World, NEW worker
    PROVE  Packs(par, GasLimit, 0, par, <<>>, {}, worker)
  <1>1. PICK block : block = <<>>  OBVIOUS
  <1>2. DOMAIN block = {} /\ Len(block) = 0  BY <1>1, SMT
  <1>3. Purchased(block) = {}  BY <1>2 DEF Purchased
  <1>4. BuyOnce(block)  BY <1>2 DEF BuyOnce
  <1>5. GasLimit \in Int /\ GasLimit <= GasLimit
    BY ExecutionAssumption, SMT DEF Execution!StateTransitionAssumption
  <1>6. ASSUME NEW late, NEW g, Runs(g, par, block, late)
        PROVE  Mirrors(par, GasLimit, 0, par, block, g[Len(block)])
    <2>1. 0 \in 0 .. 0  BY SMT
    <2>2. g[0] = Start(par)  BY <1>2, <1>6, <2>1 DEF Runs
    <2>3. PICK e : e = g[Len(block)]  OBVIOUS
    <2>4. e = Start(par)  BY <1>2, <2>2, <2>3
    <2>5. e.err = "ok" /\ e.w = par /\ e.pool = GasLimit /\ e.used = 0  BY <2>4 DEF Start
    <2>6. Mirrors(par, GasLimit, 0, par, block, e)  BY <1>3, <1>5, <2>5 DEF Mirrors, Agree
    <2> QED  BY <2>3, <2>6
  <1>7. Mirrored(par, GasLimit, 0, par, block, worker)  BY <1>6 DEF Mirrored
  <1>8. Packs(par, GasLimit, 0, par, block, {}, worker)  BY <1>3, <1>4, <1>5, <1>7 DEF Packs
  <1> QED  BY <1>1, <1>8

\* A transaction is packed.
LEMMA PacksDone ==
    ASSUME NEW w, NEW gp, NEW u, NEW par, NEW block \in Seq(Tx), NEW seen, NEW worker,
           Packs(w, gp, u, par, block, seen, worker), height \in Nat, NEW tx \in Tx,
           NEW r, Done(w, gp, tx, worker, r)
    PROVE  Packs(r.w, r.pool, u + r.used, par, Append(block, tx),
                 seen \cup Execution!Dirty(w, r.w), worker)
  <1>1. PICK longer : longer = Append(block, tx)  OBVIOUS
  <1>2. Purchased(longer) = Purchased(block) \cup Buys(tx)  BY <1>1, PurchasedAppends
  <1>3. w \in Execution!World /\ gp \in Int  BY DEF Packs
  <1>4. Packable(w, gp, tx, worker, r)
    <2>1. Agree(w, w) /\ w.tickets \subseteq w.tickets /\ gp <= gp  BY <1>3, SMT DEF Agree
    <2>2. PICK s : s = Execution!TransitionDb(w, gp, tx, FALSE, worker)  OBVIOUS
    <2>3. Twice(w, gp, worker, r, w, gp, worker, s, tx)  BY <1>3, <2>1, <2>2 DEF Twice
    <2> QED  BY <2>3, TransitionAgrees
  <1>5. /\ r.w \in Execution!World /\ r.used \in Int /\ r.pool = gp - r.used
        /\ r.w.tickets = w.tickets \cup Buys(tx) /\ Buys(tx) \cap w.tickets = {}
    BY <1>4 DEF Packable
  <1>6. r.pool \in Int
    <2>1. r.used \in Int /\ r.pool = gp - r.used  BY <1>5
    <2> QED  BY <1>3, <2>1, SMT
  <1>7. par.tickets \cup Purchased(longer) \subseteq r.w.tickets  BY <1>2, <1>5 DEF Packs
  <1>8. BuyOnce(longer)
    <2> DEFINE n == Len(block)
    <2>1. n \in Nat /\ longer[n + 1] = tx /\ DOMAIN longer = 1 .. n + 1 /\ DOMAIN block = 1 .. n
      BY <1>1, SMT
    <2>2. \A i \in 1 .. n : longer[i] = block[i]  BY <1>1, SMT
    <2>3. \A i \in 1 .. n + 1 : i = n + 1 \/ i \in 1 .. n  BY <2>1, SMT
    <2>4. ASSUME NEW i \in 1 .. n, Execution!IsBuyTicketTx(longer[i]), Execution!IsBuyTicketTx(tx)
          PROVE  longer[i].from # tx.from
      <3> SUFFICES ASSUME longer[i].from = tx.from PROVE FALSE  OBVIOUS
      <3>1. Ticket(tx) \in Buys(block[i])  BY <2>2, <2>4 DEF Buys, Ticket
      <3>2. Ticket(tx) \in Purchased(block)  BY <2>1, <3>1 DEF Purchased
      <3>3. Ticket(tx) \in w.tickets  BY <3>2 DEF Packs
      <3> QED  BY <1>5, <2>4, <3>3 DEF Buys
    <2> SUFFICES ASSUME NEW i \in 1 .. n + 1, NEW j \in 1 .. n + 1, Execution!IsBuyTicketTx(longer[i]),
                        Execution!IsBuyTicketTx(longer[j]), longer[i].from = longer[j].from
                 PROVE  i = j
      BY <2>1 DEF BuyOnce
    <2>5. CASE i \in 1 .. n /\ j \in 1 .. n
      <3>1. BuyOnce(block)  BY DEF Packs
      <3> QED  BY <2>1, <2>2, <2>5, <3>1 DEF BuyOnce
    <2>6. CASE i \in 1 .. n /\ j = n + 1  BY <2>1, <2>4, <2>6
    <2>7. CASE i = n + 1 /\ j \in 1 .. n  BY <2>1, <2>4, <2>7
    <2> QED  BY <2>3, <2>5, <2>6, <2>7
  <1>9. ASSUME NEW a \in Holder \ (seen \cup Execution!Dirty(w, r.w))
        PROVE  Balances(r.w)[a] = Balances(par)[a] /\ Nonces(r.w)[a] = Nonces(par)[a]
    <2>1. w.acct[a].balance = r.w.acct[a].balance /\ w.acct[a].nonce = r.w.acct[a].nonce
      BY <1>9 DEF Execution!Dirty
    <2>2. Balances(w)[a] = Balances(r.w)[a] /\ Nonces(w)[a] = Nonces(r.w)[a]
      BY <2>1 DEF Balances, Nonces
    <2>3. Balances(w)[a] = Balances(par)[a] /\ Nonces(w)[a] = Nonces(par)[a]  BY <1>9 DEF Packs
    <2> QED  BY <2>2, <2>3
  <1>10. ASSUME NEW late, NEW g, worker => late, Runs(g, par, longer, late)
         PROVE  Mirrors(r.w, r.pool, u + r.used, par, longer, g[Len(longer)])
    <2>1. PICK f : /\ Runs(f, par, block, late)
                   /\ g[Len(longer)] = Execution!Step(f[Len(block)], tx, late)
      <3>1. Runs(g, par, Append(block, tx), late)  BY <1>1, <1>10
      <3>2. \E f : /\ Runs(f, par, block, late)
                   /\ g[Len(Append(block, tx))] = Execution!Step(f[Len(block)], tx, late)
        BY <3>1, RunAppends, SMT
      <3> QED  BY <1>1, <3>2
    <2>2. PICK e : e = f[Len(block)]  OBVIOUS
    <2>3. Mirrors(w, gp, u, par, block, e)  BY <1>10, <2>1, <2>2 DEF Packs, Mirrored
    <2>4. PICK x, gq : x = e.w /\ gq = e.pool  OBVIOUS
    <2>5. /\ x \in Execution!World /\ gq \in Int /\ gp <= gq /\ Agree(w, x)
          /\ Rows(x) = Rows(par) /\ x.tickets = par.tickets \cup Purchased(block)
          /\ e.err = "ok" /\ e.used = u
      BY <2>3, <2>4 DEF Mirrors
    <2>6. x.tickets \subseteq w.tickets  BY <2>5 DEF Packs
    <2>7. PICK s : s = Execution!TransitionDb(x, gq, tx, FALSE, late)  OBVIOUS
    <2>8. s.err = "ok" /\ Packable(x, gq, tx, late, s) /\ s.used = r.used /\ Agree(r.w, s.w)
      <3>1. Twice(w, gp, worker, r, x, gq, late, s, tx)  BY <1>3, <1>10, <2>5, <2>6, <2>7 DEF Twice
      <3>2. Repeated(r, x, gq, late, s, tx)  BY <3>1, TransitionAgrees
      <3> QED  BY <3>2 DEF Repeated
    <2>9. PICK end : end = g[Len(longer)]  OBVIOUS
    <2>10. end = [err |-> s.err, w |-> s.w, pool |-> s.pool, used |-> e.used + s.used]
      BY <2>1, <2>2, <2>4, <2>5, <2>7, <2>9 DEF Execution!Step
    <2>11. end.err = "ok" /\ end.w = s.w /\ end.pool = s.pool /\ end.used = u + r.used
      BY <2>5, <2>8, <2>10
    <2>12. /\ s.w \in Execution!World /\ s.pool = gq - s.used
           /\ Rows(s.w) = Rows(x) /\ s.w.tickets = x.tickets \cup Buys(tx)
      BY <2>8 DEF Packable
    <2>13. end.pool \in Int /\ r.pool <= end.pool
      <3>1. r.used \in Int /\ r.pool = gp - r.used  BY <1>5
      <3>2. gq \in Int /\ gp <= gq  BY <2>5
      <3>3. end.pool = gq - r.used  BY <2>8, <2>11, <2>12
      <3> QED  BY <1>3, <3>1, <3>2, <3>3, SMT
    <2>14. end.w.tickets = par.tickets \cup Purchased(longer)  BY <1>2, <2>5, <2>11, <2>12
    <2>15. Mirrors(r.w, r.pool, u + r.used, par, longer, end)
      BY <2>5, <2>8, <2>11, <2>12, <2>13, <2>14 DEF Mirrors
    <2> QED  BY <2>9, <2>15
  <1>11. Mirrored(r.w, r.pool, u + r.used, par, longer, worker)  BY <1>10 DEF Mirrored
  <1>12. Packs(r.w, r.pool, u + r.used, par, longer, seen \cup Execution!Dirty(w, r.w), worker)
    BY <1>5, <1>6, <1>7, <1>8, <1>9, <1>11 DEF Packs
  <1> QED  BY <1>1, <1>12

\* A transaction is dropped.
LEMMA PacksDropped ==
    ASSUME NEW w, NEW gp, NEW u, NEW par, NEW block \in Seq(Tx), NEW seen, NEW worker,
           Packs(w, gp, u, par, block, seen, worker), height \in Nat, NEW tx \in Tx,
           NEW mining, NEW r, r = Execution!TransitionDb(w, gp, tx, mining, worker), r.err # "ok"
    PROVE  Packs(Execution!RevertToSnapshot(w, r.w), r.pool, u, par, block, seen, worker)
  <1>1. w \in Execution!World /\ gp \in Int  BY DEF Packs
  <1>2. /\ r.w \in Execution!World /\ w.tickets \subseteq r.w.tickets
        /\ r.pool \in Int /\ r.pool <= gp
    BY <1>1, TransitionFails
  <1>3. PICK b : b = Execution!RevertToSnapshot(w, r.w)  OBVIOUS
  <1>4. b \in Execution!World /\ b.tickets = r.w.tickets /\ Agree(b, w)  BY <1>1, <1>2, <1>3, Reverted
  <1>5. par.tickets \cup Purchased(block) \subseteq b.tickets  BY <1>2, <1>4 DEF Packs
  <1>6. ASSUME NEW a \in Holder \ seen
        PROVE  Balances(b)[a] = Balances(par)[a] /\ Nonces(b)[a] = Nonces(par)[a]
    BY <1>4, <1>6 DEF Packs, Agree
  <1>7. ASSUME NEW e, Mirrors(w, gp, u, par, block, e)
        PROVE  Mirrors(b, r.pool, u, par, block, e)
    <2>1. e.pool \in Int /\ gp <= e.pool  BY <1>7 DEF Mirrors
    <2>2. r.pool \in Int /\ r.pool <= gp  BY <1>2
    <2>3. r.pool <= e.pool  BY <1>1, <2>1, <2>2, SMT
    <2>4. Agree(b, e.w)  BY <1>4, <1>7 DEF Mirrors, Agree
    <2> QED  BY <1>7, <2>3, <2>4 DEF Mirrors
  <1>8. Mirrored(b, r.pool, u, par, block, worker)
    <2>1. Mirrored(w, gp, u, par, block, worker)  BY DEF Packs
    <2> QED  BY <1>7, <2>1 DEF Mirrored
  <1>9. Packs(b, r.pool, u, par, block, seen, worker)
    BY <1>2, <1>4, <1>5, <1>6, <1>8 DEF Packs
  <1> QED  BY <1>3, <1>9

\* What a sealed header must commit to.
Seals(par, block, worker, hd) ==
    /\ BuyOnce(block)
    /\ \A late, g : (worker => late) /\ Runs(g, par, block, late)
                      => LET e == g[Len(block)]
                         IN  /\ e.err = "ok" /\ e.used = hd.gasUsed
                             /\ Execution!Finalize(e.w).tickets = hd.tickets
                             /\ Execution!Finalize(e.w).acct = hd.root

LEMMA SealsSame ==
    ASSUME height' = height, NEW par, NEW block, NEW worker, NEW hd
    PROVE  Seals(par, block, worker, hd)' <=> Seals(par, block, worker, hd)
  <1>1. \A late, g : Runs(g, par, block, late)' <=> Runs(g, par, block, late)  BY RunsSame
  <1> QED  BY <1>1 DEF Seals

\* The root that commit seals.
SealedRoot(w, par, seen) ==
    [a \in Holder |-> IF a \in seen \cup {Coinbase} THEN Execution!Finalize(w).acct[a] ELSE par.acct[a]]

\* Accounts with the same balance, nonce and row are the same.
LEMMA SameAccount ==
    ASSUME NEW x \in Execution!Account, NEW y \in Execution!Account,
           x.balance = y.balance, x.nonce = y.nonce, x.row = y.row
    PROVE  x = y
  <1>1. x = [balance |-> x.balance, nonce |-> x.nonce, row |-> x.row]  BY SMT DEF Execution!Account
  <1>2. y = [balance |-> y.balance, nonce |-> y.nonce, row |-> y.row]  BY SMT DEF Execution!Account
  <1> QED  BY <1>1, <1>2

\* The header commit seals when the worker's state has no residue.
SealedBy(hd, w, u, par, block, seen) ==
    /\ hd.root = SealedRoot(w, par, seen) /\ hd.tickets = Execution!Finalize(w).tickets
    /\ hd.gasUsed = u
    /\ w.tickets = par.tickets \cup Purchased(block)
    /\ \A a \in seen \cup {Coinbase} : w.acct[a].row = par.acct[a].row

\* Without a residue, an importer comes to the header.
LEMMA PacksSeal ==
    ASSUME NEW w, NEW gp, NEW u, NEW par \in Execution!World, NEW block, NEW seen, NEW worker,
           Packs(w, gp, u, par, block, seen, worker),
           NEW hd, SealedBy(hd, w, u, par, block, seen)
    PROVE  Seals(par, block, worker, hd)
  <1> USE DEF SealedBy
  <1>1. w \in Execution!World /\ BuyOnce(block)  BY DEF Packs
  <1>2. Coinbase \in Holder /\ Reward \in Int  BY ExecutionAssumed, SMT
  <1>3. ASSUME NEW e, Mirrors(w, gp, u, par, block, e)
        PROVE  /\ e.err = "ok" /\ e.used = hd.gasUsed
               /\ Execution!Finalize(e.w).tickets = hd.tickets
               /\ Execution!Finalize(e.w).acct = hd.root
    <2>1. PICK x : x = e.w  OBVIOUS
    <2>2. /\ x \in Execution!World /\ Agree(w, x) /\ Rows(x) = Rows(par)
          /\ x.tickets = par.tickets \cup Purchased(block)
      BY <1>3, <2>1 DEF Mirrors
    <2>3. PICK fw, fx : fw = Execution!Finalize(w) /\ fx = Execution!Finalize(x)  OBVIOUS
    <2>4. /\ fw \in Execution!World /\ fw.tickets = w.tickets
          /\ Balances(fw) = Added(Balances(w), Coinbase, Reward)
          /\ Nonces(fw) = Nonces(w) /\ Rows(fw) = Rows(w)
      BY <1>1, <1>2, <2>3, CreditParts DEF Execution!Finalize
    <2>5. /\ fx \in Execution!World /\ fx.tickets = x.tickets
          /\ Balances(fx) = Added(Balances(x), Coinbase, Reward)
          /\ Nonces(fx) = Nonces(x) /\ Rows(fx) = Rows(x)
      BY <1>2, <2>2, <2>3, CreditParts DEF Execution!Finalize
    <2>6. fx.tickets = hd.tickets  BY <2>2, <2>3, <2>4, <2>5
    <2>7. ASSUME NEW a \in Holder PROVE fx.acct[a] = hd.root[a]
      <3>1. /\ fx.acct[a] \in Execution!Account /\ fw.acct[a] \in Execution!Account
            /\ par.acct[a] \in Execution!Account
        BY <2>4, <2>5 DEF Execution!World
      <3>2. Balances(fx) = Balances(fw) /\ Nonces(fx) = Nonces(fw)  BY <2>2, <2>4, <2>5 DEF Agree
      <3>3. fx.acct[a].balance = fw.acct[a].balance /\ fx.acct[a].nonce = fw.acct[a].nonce
        BY <3>2 DEF Balances, Nonces
      <3>4. fx.acct[a].row = par.acct[a].row /\ fw.acct[a].row = w.acct[a].row
        BY <2>2, <2>4, <2>5, ZenonT(40) DEF Rows
      <3>5. CASE a \in seen \cup {Coinbase}
        <4>1. hd.root[a] = fw.acct[a]  BY <2>3, <3>5 DEF SealedRoot
        <4>2. fx.acct[a].row = fw.acct[a].row  BY <3>4, <3>5
        <4> QED  BY <3>1, <3>3, <4>1, <4>2, SameAccount
      <3>6. CASE a \notin seen \cup {Coinbase}
        <4>1. hd.root[a] = par.acct[a]  BY <3>6 DEF SealedRoot
        <4>2. Balances(w)[a] = Balances(par)[a] /\ Nonces(w)[a] = Nonces(par)[a]  BY <3>6 DEF Packs
        <4>3. Balances(fw)[a] = Balances(w)[a]  BY <2>4, <3>6 DEF Added, Balances
        <4>4. Nonces(fw)[a] = Nonces(w)[a]  BY <2>4
        <4>5. fw.acct[a].balance = par.acct[a].balance /\ fw.acct[a].nonce = par.acct[a].nonce
          BY <4>2, <4>3, <4>4 DEF Balances, Nonces
        <4> QED  BY <3>1, <3>3, <3>4, <4>1, <4>5, SameAccount
      <3> QED  BY <3>5, <3>6
    <2>8. fx.acct = hd.root
      <3>1. fx.acct \in [Holder -> Execution!Account]  BY <2>5 DEF Execution!World
      <3>2. hd.root = [a \in Holder |-> hd.root[a]]  BY DEF SealedRoot
      <3> QED  BY <2>7, <3>1, <3>2
    <2>9. e.err = "ok" /\ e.used = hd.gasUsed  BY <1>3 DEF Mirrors
    <2> QED  BY <2>1, <2>3, <2>6, <2>8, <2>9
  <1>4. Mirrored(w, gp, u, par, block, worker)  BY DEF Packs
  <1> QED  BY <1>1, <1>3, <1>4 DEF Mirrored, Seals

\* Strengthening: the worker is where an importer of what it packed would be, and
\* a clean header commits to where it will be.
MinedInv ==
    /\ SupplyInv /\ "worker" \in DOMAIN clock
    /\ stage = "mine" => Packs(cur, pool, used, parent, packed, touched, clock.worker)
    /\ stage = "import" /\ header.known /\ header.clean
         => Seals(parent, packed, clock.worker, header)

LEMMA NoResidue ==
    ASSUME ~Execution!Residue
    PROVE  /\ cur.tickets = parent.tickets \cup Purchased(packed)
           /\ \A a \in touched \cup {Coinbase} : cur.acct[a].row = parent.acct[a].row
  <1>1. Purchased(packed) =
          {<<packed[i].from, height>> : i \in {j \in DOMAIN packed : Execution!IsBuyTicketTx(packed[j])}}
    BY DEF Purchased, Buys, Ticket
  <1> QED  BY <1>1 DEF Execution!Residue

\* A step that packs or drops a transaction.
LEMMA CommitPacks ==
    ASSUME MinedInv, NEW a \in Holder, Execution!commitTransaction(a)
    PROVE  Packs(cur, pool, used, parent, packed, touched, clock.worker)'
  <1>1. PICK tx, r, worker : /\ tx = Head(txs[a]) /\ worker = clock.worker
                             /\ r = Execution!TransitionDb(cur, pool, tx, TRUE, worker)
    OBVIOUS
  <1>2. tx \in Tx
    <2>1. txs[a] \in Seq(Tx) /\ txs[a] # <<>>
      BY DEF MinedInv, SupplyInv, Execution!commitTransaction, Execution!Best
    <2> QED  BY <1>1, <2>1, SMT
  <1>3. /\ UNCHANGED <<parent, height, clock>> /\ stage = "mine" /\ pool' = r.pool
        /\ \/ /\ r.err = "ok" /\ cur' = r.w /\ used' = used + r.used /\ packed' = Append(packed, tx)
              /\ touched' = touched \cup Execution!Dirty(cur, r.w)
           \/ /\ r.err # "ok" /\ cur' = Execution!RevertToSnapshot(cur, r.w)
              /\ UNCHANGED <<used, packed, touched>>
    BY <1>1 DEF Execution!commitTransaction
  <1>4. PICK w, gp, u, par, block, seen :
          w = cur /\ gp = pool /\ u = used /\ par = parent /\ block = packed /\ seen = touched
    OBVIOUS
  <1>5. Packs(w, gp, u, par, block, seen, worker)  BY <1>1, <1>3, <1>4 DEF MinedInv
  <1>6. block \in Seq(Tx) /\ height \in Nat  BY <1>4 DEF MinedInv, SupplyInv
  <1>7. CASE r.err = "ok"
    <2>1. Done(w, gp, tx, worker, r)  BY <1>1, <1>4, <1>7 DEF Done
    <2>2. Packs(r.w, r.pool, u + r.used, par, Append(block, tx),
                seen \cup Execution!Dirty(w, r.w), worker)
      BY <1>2, <1>5, <1>6, <2>1, PacksDone
    <2>3. PICK v, gq, t, longer, more :
            /\ v = r.w /\ gq = r.pool /\ t = u + r.used /\ longer = Append(block, tx)
            /\ more = seen \cup Execution!Dirty(w, r.w)
      OBVIOUS
    <2>4. Packs(v, gq, t, par, longer, more, worker)'  BY <1>3, <2>2, <2>3, PacksSame
    <2>5. /\ cur' = v /\ pool' = gq /\ used' = t /\ parent' = par /\ packed' = longer
          /\ touched' = more /\ clock'.worker = worker
      BY <1>1, <1>3, <1>4, <1>7, <2>3
    <2> QED  BY <2>4, <2>5
  <1>8. CASE r.err # "ok"
    <2>0. PICK mining : mining = TRUE  OBVIOUS
    <2>1. r = Execution!TransitionDb(w, gp, tx, mining, worker)  BY <1>1, <1>4, <2>0
    <2>2. Packs(Execution!RevertToSnapshot(w, r.w), r.pool, u, par, block, seen, worker)
      BY <1>2, <1>5, <1>6, <1>8, <2>1, PacksDropped
    <2>3. PICK v, gq : v = Execution!RevertToSnapshot(w, r.w) /\ gq = r.pool  OBVIOUS
    <2>4. Packs(v, gq, u, par, block, seen, worker)'  BY <1>3, <2>2, <2>3, PacksSame
    <2>5. /\ cur' = v /\ pool' = gq /\ used' = u /\ parent' = par /\ packed' = block
          /\ touched' = seen /\ clock'.worker = worker
      BY <1>1, <1>3, <1>4, <1>8, <2>3
    <2> QED  BY <2>4, <2>5
  <1> QED  BY <1>7, <1>8

\* The worker seals its block.
LEMMA CommitSeals ==
    ASSUME MinedInv, Execution!commit, header'.clean
    PROVE  Seals(parent, packed, clock.worker, header)'
  <1>1. /\ stage = "mine" /\ UNCHANGED <<parent, height, packed>>
        /\ header' = [root |-> SealedRoot(cur, parent, touched),
                      tickets |-> Execution!Finalize(cur).tickets, gasUsed |-> used,
                      known |-> TRUE, clean |-> ~Execution!Residue]
    BY DEF Execution!commit, SealedRoot
  <1>2. PICK w, gp, u, par, block, seen, worker, hd :
          /\ w = cur /\ gp = pool /\ u = used /\ par = parent /\ block = packed /\ seen = touched
          /\ worker = clock.worker /\ hd = header'
    OBVIOUS
  <1>3. Packs(w, gp, u, par, block, seen, worker)  BY <1>1, <1>2 DEF MinedInv
  <1>4. /\ hd.root = SealedRoot(w, par, seen) /\ hd.tickets = Execution!Finalize(w).tickets
        /\ hd.gasUsed = u
    BY <1>1, <1>2
  <1>5. ~Execution!Residue  BY <1>1
  <1>6. /\ w.tickets = par.tickets \cup Purchased(block)
        /\ \A a \in seen \cup {Coinbase} : w.acct[a].row = par.acct[a].row
    BY <1>2, <1>5, NoResidue
  <1>7. par \in Execution!World  BY <1>2 DEF MinedInv, SupplyInv, IsWorld
  <1>8. Seals(par, block, worker, hd)
    <2>1. SealedBy(hd, w, u, par, block, seen)  BY <1>4, <1>6 DEF SealedBy
    <2> QED  BY <1>3, <1>7, <2>1, PacksSeal
  <1>9. Seals(par, block, worker, hd)'  BY <1>1, <1>8, SealsSame
  <1>10. clock'.worker = worker
    <2>1. PICK late : clock' = [clock EXCEPT !.importer = late]  BY DEF Execution!commit
    <2>2. "worker" \in DOMAIN clock /\ "worker" # "importer"  BY DEF MinedInv
    <2> QED  BY <1>2, <2>1, <2>2
  <1> QED  BY <1>1, <1>2, <1>9, <1>10

LEMMA MinedKept ==
    MinedInv /\ [Execution!Next]_(Execution!vars) => MinedInv'
  <1> SUFFICES ASSUME MinedInv, [Execution!Next]_(Execution!vars) PROVE MinedInv'  OBVIOUS
  <1>1. SupplyInv'  BY SupplyKept DEF MinedInv
  <1>2. ASSUME NEW p \in Pools, NEW late \in BOOLEAN, Execution!StartBlock(p, late)
        PROVE  MinedInv'
    <2>1. /\ stage' = "mine" /\ cur' = parent /\ pool' = GasLimit /\ used' = 0 /\ touched' = {}
          /\ packed' = <<>> /\ UNCHANGED <<parent, height>> /\ clock' = [clock EXCEPT !.worker = late]
      BY <1>2 DEF Execution!StartBlock
    <2>2. PICK par, block, limit, none, zero, worker :
            /\ par = parent /\ block = <<>> /\ limit = GasLimit /\ none = {} /\ zero = 0
            /\ worker = clock'.worker
      OBVIOUS
    <2>3. par \in Execution!World  BY <2>2 DEF MinedInv, SupplyInv, IsWorld
    <2>4. Packs(par, limit, zero, par, block, none, worker)  BY <2>2, <2>3, PacksStart
    <2>5. Packs(par, limit, zero, par, block, none, worker)'  BY <2>1, <2>4, PacksSame
    <2>6. Packs(cur, pool, used, parent, packed, touched, clock.worker)'  BY <2>1, <2>2, <2>5
    <2>7. "worker" \in DOMAIN clock'  BY <2>1 DEF MinedInv
    <2>8. stage' # "import"  BY <2>1
    <2> QED  BY <1>1, <2>6, <2>7, <2>8 DEF MinedInv
  <1>3. ASSUME NEW p \in Pools, NEW a \in Holder, Execution!ForeignBlock(p, a)
        PROVE  MinedInv'
    <2>1. stage' = "import" /\ header' = Execution!NoHeader
      BY <1>3 DEF Execution!ForeignBlock
    <2>2. stage' # "mine" /\ ~header'.known  BY <2>1 DEF Execution!NoHeader
    <2>3. PICK late : clock' = [clock EXCEPT !.importer = late]  BY <1>3 DEF Execution!ForeignBlock
    <2>4. "worker" \in DOMAIN clock'  BY <2>3 DEF MinedInv
    <2> QED  BY <1>1, <2>2, <2>4 DEF MinedInv
  <1>4. ASSUME NEW a \in Holder, Execution!commitTransaction(a)
        PROVE  MinedInv'
    <2>1. Packs(cur, pool, used, parent, packed, touched, clock.worker)'  BY <1>4, CommitPacks
    <2>2. stage' = "mine" /\ clock' = clock  BY <1>4 DEF Execution!commitTransaction
    <2>3. stage' # "import" /\ "worker" \in DOMAIN clock'  BY <2>2 DEF MinedInv
    <2> QED  BY <1>1, <2>1, <2>3 DEF MinedInv
  <1>5. ASSUME Execution!commit PROVE MinedInv'
    <2>1. header'.clean => Seals(parent, packed, clock.worker, header)'  BY <1>5, CommitSeals
    <2>2. stage' = "import"  BY <1>5 DEF Execution!commit
    <2>3. PICK late : clock' = [clock EXCEPT !.importer = late]  BY <1>5 DEF Execution!commit
    <2>4. stage' # "mine" /\ "worker" \in DOMAIN clock'  BY <2>2, <2>3 DEF MinedInv
    <2> QED  BY <1>1, <2>1, <2>4 DEF MinedInv
  <1>6. ASSUME Execution!InsertBlock PROVE MinedInv'
    <2>1. stage' = "idle" /\ clock' = [worker |-> TRUE, importer |-> TRUE]
      BY <1>6 DEF Execution!InsertBlock
    <2>2. stage' # "mine" /\ stage' # "import" /\ "worker" \in DOMAIN clock'  BY <2>1
    <2> QED  BY <1>1, <2>2 DEF MinedInv
  <1>7. ASSUME UNCHANGED Execution!vars PROVE MinedInv'
    <2>1. UNCHANGED <<stage, parent, height, cur, pool, used, touched, packed, header, clock>>
      BY <1>7 DEF Execution!vars
    <2>2. PICK w, gp, u, par, block, seen, worker, hd :
            /\ w = cur /\ gp = pool /\ u = used /\ par = parent /\ block = packed /\ seen = touched
            /\ worker = clock.worker /\ hd = header
      OBVIOUS
    <2>3. /\ Packs(w, gp, u, par, block, seen, worker)' <=> Packs(w, gp, u, par, block, seen, worker)
          /\ Seals(par, block, worker, hd)' <=> Seals(par, block, worker, hd)
      BY <2>1, PacksSame, SealsSame
    <2>4. Packs(cur, pool, used, parent, packed, touched, clock.worker)'
            <=> Packs(cur, pool, used, parent, packed, touched, clock.worker)
      BY <2>1, <2>2, <2>3
    <2>5. Seals(parent, packed, clock.worker, header)' <=> Seals(parent, packed, clock.worker, header)
      BY <2>1, <2>2, <2>3
    <2> QED  BY <1>1, <2>1, <2>4, <2>5 DEF MinedInv
  <1> QED  BY <1>2, <1>3, <1>4, <1>5, <1>6, <1>7 DEF Execution!Next

\* The importer of the worker's block.
LEMMA MinedStep ==
    ASSUME MinedInv, Execution!InsertBlock, header.known, header.clean,
           clock.worker => clock.importer
    PROVE  height' = height + 1
  <1>1. stage = "import"  BY DEF Execution!InsertBlock
  <1>2. /\ cur = parent /\ IsWorld(parent) /\ packed \in Seq(Tx) /\ height \in Nat
        /\ Seals(parent, packed, clock.worker, header)
    BY <1>1 DEF MinedInv, SupplyInv
  <1>3. PICK world, late, block : world = cur /\ late = clock.importer /\ block = packed  OBVIOUS
  <1>4. block \in Seq(Tx) /\ IsWorld(world)  BY <1>2, <1>3
  <1>5. PICK g : /\ Runs(g, world, block, late)
                 /\ Execution!Process(block) = [g[Len(block)] EXCEPT !.w = Execution!Finalize(@)]
    <2>1. world = cur /\ late = clock.importer  BY <1>3
    <2> QED  BY <1>4, <2>1, ProcessIs
  <1>6. PICK e, r : e = g[Len(block)] /\ r = Execution!Process(block)  OBVIOUS
  <1>7. /\ e.err = "ok" /\ e.used = header.gasUsed /\ BuyOnce(block)
        /\ Execution!Finalize(e.w).tickets = header.tickets
        /\ Execution!Finalize(e.w).acct = header.root
    BY <1>2, <1>3, <1>5, <1>6, ZenonT(40) DEF Seals
  <1>8. e = [err |-> e.err, w |-> e.w, pool |-> e.pool, used |-> e.used]
    <2>1. Len(block) \in 0 .. Len(block)  BY <1>4, SMT
    <2>2. \A i \in 0 .. Len(block) :
            /\ g[i] = [err |-> g[i].err, w |-> g[i].w, pool |-> g[i].pool, used |-> g[i].used]
            /\ g[i].err = "ok" => IsWorld(g[i].w) /\ Holdings(g[i].w) = Holdings(world)
      BY <1>2, <1>4, <1>5, RunWorth, SMT
    <2> QED  BY <1>6, <2>1, <2>2
  <1>9. r.err = e.err /\ r.w = Execution!Finalize(e.w) /\ r.used = e.used
    BY <1>5, <1>6, <1>8, ProcessFields
  <1>10. Execution!ValidateRawTransaction(block)
    <2>1. \A j \in DOMAIN block : \A i \in 1 .. j - 1 : i \in DOMAIN block /\ i # j  BY <1>4, SMT
    <2> QED  BY <1>7, <2>1 DEF BuyOnce, Execution!ValidateRawTransaction
  <1>11. Execution!Accepts(r)
    BY <1>3, <1>7, <1>9, <1>10 DEF Execution!Accepts, Execution!ValidateState
  <1> QED  BY <1>3, <1>6, <1>11 DEF Execution!InsertBlock

\* Whatever the pool offers, in whatever order, and whatever the worker drops on
\* the way: an importer whose clock is not behind accepts the worker's block,
\* unless a dropped transaction left a row or a ticket that the journal does not
\* take back.
THEOREM MinedIsAlwaysAccepted ==
    Execution!Spec => MinedIsAccepted
  <1>1. Execution!Init => MinedInv
    <2> SUFFICES ASSUME Execution!Init PROVE MinedInv  OBVIOUS
    <2>1. SupplyInv  BY SupplyAtGenesis
    <2>2. stage = "idle" /\ clock = [worker |-> TRUE, importer |-> TRUE]  BY DEF Execution!Init
    <2>3. stage # "mine" /\ stage # "import" /\ "worker" \in DOMAIN clock  BY <2>2
    <2> QED  BY <2>1, <2>3 DEF MinedInv
  <1>2. MinedInv /\ [Execution!Next]_(Execution!vars) => MinedInv'  BY MinedKept
  <1>3. MinedInv => [Execution!InsertBlock /\ header.known /\ header.clean
                       /\ (clock.worker => clock.importer) => height' = height + 1]_(Execution!vars)
    BY MinedStep
  <1> QED  BY <1>1, <1>2, <1>3, PTL DEF Execution!Spec, MinedIsAccepted, Execution!MinedIsAccepted
============================================================================
