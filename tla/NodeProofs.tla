----------------------------- MODULE NodeProofs -----------------------------
(***************************************************************************)
(* Two parts of a node that one goroutine at a time changes.               *)
(*                                                                         *)
(* The journal undoes exactly what was done.  The inductive invariant is a *)
(* chain: hist has the world before every entry, undoing an entry in the   *)
(* world after it gives the world before it, and every snapshot points at  *)
(* the world it was taken in.                                              *)
(*                                                                         *)
(* The fetcher, for every set of peers and hashes: it queues and imports a *)
(* block once at a time and never forgets a timer.  FetcherInv is          *)
(* inductive: for each hash the places it can be in (queue, import,        *)
(* report) add up to whether it is known as queued, and the counts per     *)
(* peer are the sizes of what they count.                                  *)
(***************************************************************************)
EXTENDS Journal, Fetcher, FiniteSetTheorems, TLAPS

\* Leaves are for Zenon; those with arithmetic or sequences say SMT.
USE Zenon

-----------------------------------------------------------------------------
(* The journal *)


\* A part of a sequence has the elements of that part.
LEMMA SubSeqElements ==
    ASSUME NEW S, NEW s \in Seq(S), NEW m \in 1 .. Len(s) + 1, NEW n \in m - 1 .. Len(s)
    PROVE  /\ SubSeq(s, m, n) \in Seq(S)
           /\ Len(SubSeq(s, m, n)) = n - m + 1
           /\ \A i \in 1 .. n - m + 1 : SubSeq(s,m,n)[i] = s[m + i - 1]
BY SMT

DB == [world : World, rows : [Address -> Rows], tickets : SUBSET Ticket,
       journal : Seq(Entry), hist : Seq(World)]

ChainInv(d) ==
    /\ d \in DB
    /\ Len(d.hist) = Len(d.journal) + 1
    /\ d.hist[Len(d.hist)] = d.world
    /\ \A i \in 1 .. Len(d.journal) : Undo(d.journal[i], d.hist[i + 1]) = d.hist[i]

\* d has all of c's history.
Continues(d, c) ==
    /\ Len(c.journal) <= Len(d.journal)
    /\ \A i \in 1 .. Len(c.journal) : d.journal[i] = c.journal[i]
    /\ \A i \in 1 .. Len(c.hist) : d.hist[i] = c.hist[i]

Good(d, c) == ChainInv(d) /\ Continues(d, c)

-----------------------------------------------------------------------------
(* Objects and worlds *)

\* The objects newObject starts from are objects.
LEMMA ObjectsTyped ==
    /\ NoObject \in Object /\ NewObject \in Object /\ NewObject.exists
    /\ NoRows \in Rows
BY JournalAssumption DEF NoObject, NewObject, Object, LiveObject, NoRows, Rows

\* Replacing one object gives a world (setStateObject).
LEMMA WithObjectWorld ==
    ASSUME NEW w \in World, NEW a \in Address, NEW o \in Object
    PROVE  /\ WithObject(w, a, o) \in World
           /\ WithObject(w, a, o).object[a] = o
           /\ \A b \in Address \ {a} : WithObject(w, a, o).object[b] = w.object[b]
           /\ WithObject(WithObject(w, a, o), a, w.object[a]) = w
<1>1. WithObject(w, a, o) = [object |-> [w.object EXCEPT ![a] = o],
                             refund |-> w.refund, logs |-> w.logs]
  BY SMT DEF WithObject, World
<1>2. w.object \in [Address -> Object] /\ w.refund \in Nat /\ w.logs \in Nat BY DEF World
<1>3. WithObject(w, a, o) \in World BY <1>1, <1>2, SMT DEF World
<1>4. WithObject(WithObject(w, a, o), a, w.object[a])
         = [object |-> [[w.object EXCEPT ![a] = o] EXCEPT ![a] = w.object[a]],
            refund |-> w.refund, logs |-> w.logs]
  <2> DEFINE v == WithObject(w, a, o)
  <2>1. v.object = [w.object EXCEPT ![a] = o] /\ v.refund = w.refund /\ v.logs = w.logs
    BY <1>1, SMT
  <2>2. v \in World BY <1>3
  <2> HIDE DEF v
  <2>3. WithObject(v, a, w.object[a]) = [object |-> [v.object EXCEPT ![a] = w.object[a]],
                                         refund |-> v.refund, logs |-> v.logs]
    BY <2>2, SMT DEF WithObject, World
  <2> QED BY <2>1, <2>3 DEF v
<1>5. [[w.object EXCEPT ![a] = o] EXCEPT ![a] = w.object[a]] = w.object BY <1>2
<1>6. w = [object |-> w.object, refund |-> w.refund, logs |-> w.logs] BY DEF World
<1>7. WithObject(WithObject(w, a, o), a, w.object[a]) = w BY <1>4, <1>5, <1>6
<1>8. /\ WithObject(w, a, o).object[a] = o
      /\ \A b \in Address \ {a} : WithObject(w, a, o).object[b] = w.object[b]
  BY <1>1, <1>2, SMT
<1> QED BY <1>3, <1>7, <1>8

-----------------------------------------------------------------------------
(* Recording an entry *)

\* An entry that undoes its own change may be appended (journal.append).
LEMMA RecordGood ==
    ASSUME NEW d, ChainInv(d), NEW e \in Entry, NEW w \in World, Undo(e, w) = d.world
    PROVE  /\ Good(Record(d, e, w), d)
           /\ Record(d, e, w).world = w
           /\ Record(d, e, w).rows = d.rows
<1> DEFINE r == Record(d, e, w)
           n == Len(d.journal)
<1>1. d \in DB /\ Len(d.hist) = n + 1 /\ d.journal \in Seq(Entry) /\ d.hist \in Seq(World)
      /\ n \in Nat /\ d.hist[n + 1] = d.world
  BY SMT DEF ChainInv, DB
<1>2. /\ r.world = w /\ r.rows = d.rows
      /\ r.journal = Append(d.journal, e) /\ r.hist = Append(d.hist, w)
  BY <1>1 DEF Record, DB
<1>3. /\ Append(d.journal, e) \in Seq(Entry) /\ Len(Append(d.journal, e)) = n + 1
      /\ \A i \in 1 .. n : Append(d.journal, e)[i] = d.journal[i]
      /\ Append(d.journal, e)[n + 1] = e
  BY <1>1, SMT
<1>4. /\ Append(d.hist, w) \in Seq(World) /\ Len(Append(d.hist, w)) = n + 2
      /\ \A i \in 1 .. n + 1 : Append(d.hist, w)[i] = d.hist[i]
      /\ Append(d.hist, w)[n + 2] = w
  BY <1>1, SMT
<1>5. r \in DB BY <1>1, <1>3, <1>4 DEF DB, Record
<1> HIDE DEF r
<1>6. Len(r.hist) = Len(r.journal) + 1 /\ r.hist[Len(r.hist)] = r.world
  BY <1>1, <1>2, <1>3, <1>4, SMT
<1>7. ASSUME NEW i \in 1 .. Len(r.journal)
      PROVE  Undo(r.journal[i], r.hist[i + 1]) = r.hist[i]
  <2>1. CASE i = n + 1
    <3>1. r.journal[i] = e /\ r.hist[i + 1] = w /\ r.hist[i] = d.world
      BY <1>1, <1>2, <1>3, <1>4, <2>1, SMT
    <3> QED BY <3>1
  <2>2. CASE i \in 1 .. n
    <3>1. r.journal[i] = d.journal[i] /\ r.hist[i + 1] = d.hist[i + 1] /\ r.hist[i] = d.hist[i]
      BY <1>1, <1>2, <1>3, <1>4, <2>2, SMT
    <3> QED BY <2>2, <3>1 DEF ChainInv
  <2> QED BY <1>1, <1>2, <1>3, <2>1, <2>2, SMT
<1>8. Continues(r, d) BY <1>1, <1>2, <1>3, <1>4, SMT DEF Continues
<1>9. Good(r, d) BY <1>5, <1>6, <1>7, <1>8 DEF Good, ChainInv
<1>10. r.world = w /\ r.rows = d.rows BY <1>2
<1> QED BY <1>9, <1>10 DEF r

\* Extending a history twice extends it.
LEMMA GoodTrans ==
    ASSUME NEW d, NEW c, NEW b, ChainInv(b), Good(c, b), Good(d, c)
    PROVE  Good(d, b)
<1>1. Len(b.hist) = Len(b.journal) + 1 /\ Len(c.hist) = Len(c.journal) + 1
      /\ Len(b.journal) \in Nat /\ Len(c.journal) \in Nat /\ Len(d.journal) \in Nat
  BY SMT DEF Good, ChainInv, DB
<1> QED BY <1>1, SMT DEF Good, Continues

\* Reading a row changes nothing the journal knows of.
LEMMA RowsGood ==
    ASSUME NEW d, ChainInv(d), NEW a \in Address, NEW s \in AssetID
    PROVE  /\ Good(BalanceRow(d, a, s), d) /\ Good(LockRow(d, a, s), d)
           /\ BalanceRow(d, a, s).world = d.world /\ LockRow(d, a, s).world = d.world
           /\ s \in BalanceRow(d, a, s).rows[a].balance
           /\ \A b \in Address : d.rows[b].balance \subseteq BalanceRow(d, a, s).rows[b].balance
<1> DEFINE rb == [d.rows EXCEPT ![a].balance = @ \cup {s}]
           rl == [d.rows EXCEPT ![a].lock = @ \cup {s}]
<1>1. d \in DB /\ d.rows \in [Address -> Rows] BY DEF ChainInv, DB
<1>2. rb \in [Address -> Rows] /\ rl \in [Address -> Rows] BY <1>1 DEF Rows
<1>3. /\ s \in rb[a].balance
      /\ \A b \in Address : d.rows[b].balance \subseteq rb[b].balance
  BY <1>1 DEF Rows
<1> HIDE DEF rb, rl
<1>4. /\ BalanceRow(d, a, s).world = d.world /\ BalanceRow(d, a, s).rows = rb
      /\ BalanceRow(d, a, s).journal = d.journal /\ BalanceRow(d, a, s).hist = d.hist
  BY <1>1 DEF BalanceRow, DB, rb
<1>5. /\ LockRow(d, a, s).world = d.world /\ LockRow(d, a, s).rows = rl
      /\ LockRow(d, a, s).journal = d.journal /\ LockRow(d, a, s).hist = d.hist
  BY <1>1 DEF LockRow, DB, rl
<1>6. BalanceRow(d, a, s) \in DB /\ LockRow(d, a, s) \in DB
  BY <1>1, <1>2 DEF DB, BalanceRow, LockRow, rb, rl
<1>7. Len(d.journal) \in Nat BY <1>1, SMT DEF DB
<1>8. Good(BalanceRow(d, a, s), d) BY <1>4, <1>6, <1>7, SMT DEF Good, ChainInv, Continues
<1>9. Good(LockRow(d, a, s), d) BY <1>5, <1>6, <1>7, SMT DEF Good, ChainInv, Continues
<1> QED BY <1>3, <1>4, <1>5, <1>8, <1>9

-----------------------------------------------------------------------------
(* The setters *)

\* An entry about an account that undoes the change of its object.
LEMMA ObjectEntryGood ==
    ASSUME NEW d, ChainInv(d), NEW a \in Address, NEW o \in Object, NEW e \in Entry,
           e.account = a, e.kind \notin {"refund", "log"}, UndoObject(e, o) = Obj(d, a)
    PROVE  LET r == Record(d, e, WithObject(d.world, a, o))
           IN  /\ Good(r, d) /\ Obj(r, a) = o /\ r.rows = d.rows
               /\ \A b \in Address \ {a} : Obj(r, b) = Obj(d, b)
<1>1. d.world \in World BY DEF ChainInv, DB
<1> DEFINE w == WithObject(d.world, a, o)
<1>2. /\ w \in World /\ w.object[a] = o /\ WithObject(w, a, d.world.object[a]) = d.world
      /\ \A b \in Address \ {a} : w.object[b] = d.world.object[b]
  BY <1>1, WithObjectWorld, SMT
<1> HIDE DEF w
<1>3. Undo(e, w) = d.world BY <1>2 DEF Undo, Obj
<1>4. /\ Good(Record(d, e, w), d) /\ Record(d, e, w).world = w
      /\ Record(d, e, w).rows = d.rows
  BY <1>2, <1>3, RecordGood
<1>5. Obj(Record(d, e, w), a) = o /\ \A b \in Address \ {a} : Obj(Record(d, e, w), b) = Obj(d, b)
  BY <1>2, <1>4 DEF Obj
<1> QED BY <1>4, <1>5 DEF w

\* Every address has an object, and its parts are typed.
LEMMA ObjTyped ==
    ASSUME NEW d, ChainInv(d), NEW a \in Address
    PROVE  /\ Obj(d, a) \in Object /\ d.rows[a] \in Rows
           /\ Obj(d, a).exists => Obj(d, a) \in LiveObject
           /\ ~ Obj(d, a).exists => Obj(d, a) = NoObject
<1>1. Obj(d, a) \in Object /\ d.rows[a] \in Rows BY DEF ChainInv, DB, World, Obj
<1>2. ASSUME NEW x \in LiveObject PROVE x.exists = TRUE BY DEF LiveObject
<1>3. NoObject.exists = FALSE BY DEF NoObject
<1>4. CASE Obj(d, a) \in LiveObject BY <1>1, <1>2, <1>4
<1>5. CASE Obj(d, a) = NoObject BY <1>1, <1>3, <1>5
<1> QED BY <1>1, <1>4, <1>5 DEF Object

\* createObject records how to get the previous object back.
LEMMA createObjectGood ==
    ASSUME NEW d, ChainInv(d), NEW a \in Address, NEW o \in Object, o.exists
    PROVE  /\ Good(createObject(d, a, o), d)
           /\ Obj(createObject(d, a, o), a) = o /\ createObject(d, a, o).rows = d.rows
           /\ \A b \in Address \ {a} : Obj(createObject(d, a, o), b) = Obj(d, b)
<1>1. Obj(d, a) \in Object /\ d.rows[a] \in Rows BY ObjTyped
<1> DEFINE reset == [kind |-> "reset", account |-> a, prev |-> Obj(d, a), rows |-> d.rows[a]]
           create == [kind |-> "create", account |-> a]
           e == IF Obj(d, a).exists THEN reset ELSE create
<1>2. reset \in Entry /\ create \in Entry BY <1>1 DEF Entry
<1>3. UndoObject(reset, o) = Obj(d, a) BY DEF UndoObject
<1>4. ~ Obj(d, a).exists => UndoObject(create, o) = Obj(d, a) BY ObjTyped DEF UndoObject
<1>5. e \in Entry /\ e.account = a /\ e.kind \notin {"refund", "log"} /\ UndoObject(e, o) = Obj(d, a)
  <2>1. CASE Obj(d, a).exists BY <1>2, <1>3, <2>1
  <2>2. CASE ~ Obj(d, a).exists BY <1>2, <1>4, <2>2
  <2> QED BY <2>1, <2>2
<1>6. createObject(d, a, o) = Record(d, e, WithObject(d.world, a, o)) BY DEF createObject
<1> HIDE DEF e
<1>7. /\ Good(createObject(d, a, o), d)
      /\ Obj(createObject(d, a, o), a) = o /\ createObject(d, a, o).rows = d.rows
      /\ \A b \in Address \ {a} : Obj(createObject(d, a, o), b) = Obj(d, b)
  BY <1>5, <1>6, ObjectEntryGood, SMT
<1> QED BY <1>7

\* So does GetOrNewStateObject, which also makes the account exist.
LEMMA GetOrNewGood ==
    ASSUME NEW d, ChainInv(d), NEW a \in Address
    PROVE  LET g == GetOrNewStateObject(d, a)
           IN  /\ Good(g, d) /\ Obj(g, a).exists /\ g.rows = d.rows
               /\ \A b \in Address : Obj(d, b).exists => Obj(g, b) = Obj(d, b)
<1>1. CASE Obj(d, a).exists
  <2>1. Good(d, d) BY SMT DEF Good, Continues, ChainInv, DB
  <2> QED BY <1>1, <2>1 DEF GetOrNewStateObject
<1>2. CASE ~ Obj(d, a).exists
  BY <1>2, createObjectGood, ObjectsTyped, SMT DEF GetOrNewStateObject
<1> QED BY <1>1, <1>2

\* SetBalance records the previous balance.
LEMMA SetBalanceGood ==
    ASSUME NEW d, ChainInv(d), NEW a \in Address, Obj(d, a).exists,
           NEW s \in AssetID, NEW v \in Value
    PROVE  LET g == SetBalance(d, a, s, v)
           IN  /\ Good(g, d)
               /\ \A b \in Address : Obj(g, b).exists = Obj(d, b).exists
               /\ \A b \in Address : d.rows[b].balance \subseteq g.rows[b].balance
<1> DEFINE c == BalanceRow(d, a, s)
           o == [Obj(d, a) EXCEPT !.balance[s] = v]
           e == [kind |-> "balance", account |-> a, key |-> s, prev |-> Obj(d, a).balance[s]]
           g == Record(c, e, WithObject(c.world, a, o))
<1>1. /\ Good(c, d) /\ c.world = d.world
      /\ \A b \in Address : d.rows[b].balance \subseteq c.rows[b].balance
  BY RowsGood
<1>2. Obj(d, a) \in LiveObject BY ObjTyped
<1>3. o \in Object /\ e \in Entry /\ o.exists = Obj(d, a).exists BY <1>2 DEF Object, LiveObject, Entry
<1>4. UndoObject(e, o) = Obj(d, a) BY <1>2 DEF UndoObject, LiveObject
<1>5. SetBalance(d, a, s, v) = g BY <1>1 DEF SetBalance
<1>6. e.account = a /\ e.kind \notin {"refund", "log"} OBVIOUS
<1> HIDE DEF c, e, o
<1>7. Obj(c, a) = Obj(d, a) /\ ChainInv(c) BY <1>1 DEF Obj, Good
<1>8. /\ Good(g, c) /\ Obj(g, a) = o /\ g.rows = c.rows
      /\ \A b \in Address \ {a} : Obj(g, b) = Obj(c, b)
  BY <1>3, <1>4, <1>6, <1>7, ObjectEntryGood, SMT
<1> HIDE DEF g
<1>9. Good(g, d) BY <1>1, <1>8, GoodTrans
<1>10. \A b \in Address : Obj(c, b) = Obj(d, b) BY <1>1 DEF Obj
<1>11. \A b \in Address : Obj(g, b).exists = Obj(d, b).exists
  BY <1>3, <1>8, <1>10
<1> QED BY <1>1, <1>5, <1>8, <1>9, <1>11

\* SetTimeLockBalance records the previous time lock.
LEMMA SetTimeLockBalanceGood ==
    ASSUME NEW d, ChainInv(d), NEW a \in Address, Obj(d, a).exists,
           NEW s \in AssetID, NEW v \in Value
    PROVE  LET g == SetTimeLockBalance(d, a, s, v) IN Good(g, d)
<1> DEFINE c == LockRow(d, a, s)
           o == [Obj(d, a) EXCEPT !.lock[s] = v]
           e == [kind |-> "lock", account |-> a, key |-> s, prev |-> Obj(d, a).lock[s]]
           g == Record(c, e, WithObject(c.world, a, o))
<1>1. Good(c, d) /\ c.world = d.world BY RowsGood
<1>2. Obj(d, a) \in LiveObject BY ObjTyped
<1>3. o \in Object /\ e \in Entry /\ o.exists BY <1>2 DEF Object, LiveObject, Entry
<1>4. UndoObject(e, o) = Obj(d, a) BY <1>2 DEF UndoObject, LiveObject
<1>5. SetTimeLockBalance(d, a, s, v) = g BY <1>1 DEF SetTimeLockBalance
<1>6. e.account = a /\ e.kind \notin {"refund", "log"} OBVIOUS
<1> HIDE DEF c, e, o
<1>7. Obj(c, a) = Obj(d, a) /\ ChainInv(c) BY <1>1 DEF Obj, Good
<1>8. Good(g, c) /\ Obj(g, a) = o /\ \A b \in Address \ {a} : Obj(g, b) = Obj(c, b)
  BY <1>3, <1>4, <1>6, <1>7, ObjectEntryGood, SMT
<1> HIDE DEF g
<1>9. Good(g, d) BY <1>1, <1>8, GoodTrans
<1> QED BY <1>5, <1>9

\* SetNonce, SetCode, SetNotation and SetState record the previous value.
LEMMA SetCellGood ==
    ASSUME NEW d, ChainInv(d), NEW a \in Address, Obj(d, a).exists,
           NEW c \in Cell, NEW v \in Value
    PROVE  LET g == SetCell(d, a, c, v) IN Good(g, d)
<1> DEFINE o == [Obj(d, a) EXCEPT !.cell[c] = v]
           e == [kind |-> "cell", account |-> a, key |-> c, prev |-> Obj(d, a).cell[c]]
           g == Record(d, e, WithObject(d.world, a, o))
<1>1. Obj(d, a) \in LiveObject BY ObjTyped
<1>2. o \in Object /\ e \in Entry /\ o.exists BY <1>1 DEF Object, LiveObject, Entry
<1>3. UndoObject(e, o) = Obj(d, a) BY <1>1 DEF UndoObject, LiveObject
<1>4. SetCell(d, a, c, v) = g BY DEF SetCell
<1>5. e.account = a /\ e.kind \notin {"refund", "log"} OBVIOUS
<1> HIDE DEF e, o
<1>6. Good(g, d) /\ Obj(g, a) = o /\ \A b \in Address \ {a} : Obj(g, b) = Obj(d, b)
  BY <1>2, <1>3, <1>5, ObjectEntryGood, SMT
<1> HIDE DEF g
<1> QED BY <1>4, <1>6

\* Doing nothing extends a history.
LEMMA GoodRefl == ASSUME NEW d, ChainInv(d) PROVE Good(d, d)
BY SMT DEF Good, Continues, ChainInv, DB

\* touch changes nothing that its entry would have to undo.
LEMMA TouchGood ==
    ASSUME NEW d, ChainInv(d), NEW a \in Address, Obj(d, a).exists
    PROVE  LET g == Touch(d, a)
           IN  /\ Good(g, d) /\ g.rows = d.rows
               /\ \A b \in Address : Obj(g, b).exists = Obj(d, b).exists
<1> DEFINE e == [kind |-> "touch", account |-> a]
<1>1. d.world \in World /\ Obj(d, a) \in Object BY ObjTyped DEF ChainInv, DB
<1>2. CASE IsEmpty(d, a)
  <2>1. e \in Entry BY DEF Entry
  <2>2. Undo(e, d.world) = d.world
    <3>1. Undo(e, d.world) = WithObject(d.world, a, d.world.object[a])
      BY DEF Undo, UndoObject
    <3>2. d.world.object \in [Address -> Object] BY <1>1 DEF World
    <3> QED BY <1>1, <3>1, <3>2 DEF WithObject, World
  <2> HIDE DEF e
  <2>3. /\ Good(Record(d, e, d.world), d) /\ Record(d, e, d.world).world = d.world
        /\ Record(d, e, d.world).rows = d.rows
    BY <1>1, <2>1, <2>2, RecordGood
  <2>4. Touch(d, a) = Record(d, e, d.world) BY <1>2 DEF Touch, e
  <2> QED BY <2>3, <2>4 DEF Obj
<1>3. CASE ~ IsEmpty(d, a) BY <1>3, GoodRefl DEF Touch
<1> QED BY <1>2, <1>3

\* CreateAccount carries balances over to the new object and records the old
\* one.
LEMMA CreateAccountGood ==
    ASSUME NEW d, ChainInv(d), NEW a \in Address
    PROVE  Good(CreateAccount(d, a), d) /\ Obj(CreateAccount(d, a), a).exists
<1> DEFINE prev == Obj(d, a)
           carried == [NewObject EXCEPT !.balance = prev.balance, !.lock = prev.lock]
           o == IF prev.exists THEN carried ELSE NewObject
<1>1. prev.exists => prev \in LiveObject BY ObjTyped
<1>2. NewObject \in LiveObject BY JournalAssumption DEF NewObject, NoObject, LiveObject
<1>3. prev.exists => carried \in LiveObject BY <1>1, <1>2 DEF LiveObject
<1>4. o \in LiveObject BY <1>2, <1>3
<1>5. o \in Object /\ o.exists BY <1>4 DEF Object, LiveObject
<1>6. CreateAccount(d, a) = createObject(d, a, o) BY DEF CreateAccount
<1> HIDE DEF o
<1> QED BY <1>5, <1>6, createObjectGood, SMT

\* An account with a balance row suicides with an entry.
LEMMA SuicideGood ==
    ASSUME NEW d, ChainInv(d), NEW a \in Address, Obj(d, a).exists, d.rows[a].balance # {}
    PROVE  Good(Suicide(d, a), d)
<1> DEFINE zero == [s \in AssetID |-> 0]
           gone == [Obj(d, a) EXCEPT !.suicided = TRUE, !.balance = zero, !.lock = zero]
           e == [kind |-> "suicide", account |-> a, prev |-> Obj(d, a), rows |-> d.rows[a]]
<1>1. Obj(d, a) \in LiveObject /\ Obj(d, a) \in Object /\ d.rows[a] \in Rows BY ObjTyped
<1>2. gone \in Object BY <1>1, JournalAssumption DEF LiveObject, Object
<1>3. e \in Entry /\ e.account = a /\ e.kind \notin {"refund", "log"} BY <1>1 DEF Entry
<1>4. UndoObject(e, gone) = Obj(d, a) BY <1>1 DEF UndoObject, UndoSuicide, LiveObject
<1>5. Suicide(d, a) = Record(d, e, WithObject(d.world, a, gone)) BY DEF Suicide
<1> HIDE DEF e, gone
<1> QED BY <1>2, <1>3, <1>4, <1>5, ObjectEntryGood

-----------------------------------------------------------------------------
(* The invariant *)

\* Revision r marks a world of d's history.
Marks(r, d) == r.journalIndex <= Len(d.journal) /\ r.world = d.hist[r.journalIndex + 1]

JournalInv ==
    /\ ChainInv(db)
    /\ revisions \in Seq(Revision)
    /\ \A q \in 1 .. Len(revisions) : Marks(revisions[q], db)
    /\ reverting \in Revision \cup {None}
    /\ reverting # None => Marks(reverting, db)
    /\ RevisionsNested
    /\ stored \in [Address -> Object]
    /\ txs \in 0 .. MaxTxs

\* A fresh journal is a good one.
LEMMA NewJournalGood ==
    ASSUME NEW w \in World, NEW rows \in [Address -> Rows], NEW ts \in SUBSET Ticket
    PROVE  ChainInv(NewJournal(w, rows, ts)) /\ NewJournal(w, rows, ts).journal = <<>>
<1>1. <<w>> \in Seq(World) /\ Len(<<w>>) = 1 /\ <<w>>[1] = w BY SMT
<1>2. Len(<< >>) = 0 OBVIOUS
<1> QED BY <1>1, <1>2, SMT DEF ChainInv, NewJournal, DB

\* The inductive invariant holds in the first state.
LEMMA JournalInvInit == Init => JournalInv
<1> SUFFICES ASSUME Init PROVE JournalInv
  OBVIOUS
<1>1. PICK g \in Genesis :
        /\ stored = [a \in Address |-> g[a].object]
        /\ db = NewJournal([object |-> stored, refund |-> 0, logs |-> 0],
                           [a \in Address |-> g[a].rows], {})
  BY DEF Init
<1>2. \A a \in Address : g[a].object \in Object /\ g[a].rows \in Rows BY GenesisAssumption
<1>3. stored \in [Address -> Object] /\ [a \in Address |-> g[a].rows] \in [Address -> Rows]
  BY <1>1, <1>2
<1>4. [object |-> stored, refund |-> 0, logs |-> 0] \in World BY <1>3 DEF World
<1>5. ChainInv(db) /\ db.journal = <<>> BY <1>1, <1>3, <1>4, NewJournalGood
<1>6. revisions = <<>> /\ reverting = None /\ txs = 0 BY DEF Init
<1>7. RevisionsNested BY <1>5, <1>6, SMT DEF RevisionsNested
<1> QED BY <1>3, <1>5, <1>6, <1>7, JournalAssumption, SMT DEF JournalInv

\* A valid snapshot is a revision, and its place in the journal a number.
LEMMA IndexNat ==
    ASSUME JournalInv, NEW q \in 1 .. Len(revisions)
    PROVE  revisions[q] \in Revision /\ revisions[q].journalIndex \in Nat
<1>1. revisions[q] \in Revision BY SMT DEF JournalInv
<1> QED BY <1>1 DEF Revision

\* An operation that continues the history keeps the invariant.
LEMMA DoesInv ==
    ASSUME JournalInv, NEW d, Good(d, db), Does(d)
    PROVE  JournalInv'
<1>1. db' = d /\ UNCHANGED <<revisions, reverting, stored, txs>> /\ reverting = None
  BY DEF Does
<1>2. /\ Len(db.journal) \in Nat /\ Len(d.journal) \in Nat
      /\ Len(db.journal) <= Len(d.journal) /\ Len(db.hist) = Len(db.journal) + 1
  <2>1. ChainInv(db) /\ ChainInv(d) /\ Continues(d, db) BY DEF JournalInv, Good
  <2>2. db \in DB /\ d \in DB BY <2>1 DEF ChainInv
  <2>3. Len(db.journal) \in Nat /\ Len(d.journal) \in Nat BY <2>2, SMT DEF DB
  <2> QED BY <2>1, <2>3 DEF ChainInv, Continues
<1>3. ASSUME NEW q \in 1 .. Len(revisions) PROVE Marks(revisions[q], d)
  <2>1. revisions[q] \in Revision /\ Marks(revisions[q], db) BY SMT DEF JournalInv
  <2>2. revisions[q].journalIndex \in Nat BY <2>1 DEF Revision
  <2>3. revisions[q].journalIndex + 1 \in 1 .. Len(db.hist)
    <3>1. revisions[q].journalIndex <= Len(db.journal) BY <2>1 DEF Marks
    <3> QED BY <1>2, <2>2, <3>1, SMT
  <2>4. d.hist[revisions[q].journalIndex + 1] = db.hist[revisions[q].journalIndex + 1]
    BY <2>3 DEF Good, Continues
  <2>5. revisions[q].journalIndex <= Len(d.journal)
    <3>1. revisions[q].journalIndex <= Len(db.journal) BY <2>1 DEF Marks
    <3> QED BY <1>2, <2>2, <3>1, SMT
  <2> QED BY <2>1, <2>4, <2>5 DEF Marks
<1>4. RevisionsNested'
  <2>1. \A q \in 1 .. Len(revisions) : revisions[q].journalIndex \in Nat
    BY IndexNat
  <2> QED BY <1>1, <1>2, <2>1, SMT DEF RevisionsNested, JournalInv
<1>5. ChainInv(db)' BY <1>1 DEF Good
<1>6. (\A q \in 1 .. Len(revisions) : Marks(revisions[q], db))' BY <1>1, <1>3
<1> QED BY <1>1, <1>4, <1>5, <1>6 DEF JournalInv

\* The setters of balances, time locks and cells preserve the invariant.
LEMMA ChangeInv ==
    ASSUME JournalInv, NEW a \in Address, NEW s \in AssetID, NEW v \in Value
    PROVE  /\ ChangeBalance(a, s, v) => JournalInv'
           /\ ChangeTimeLock(a, s, v) => JournalInv'
           /\ AddNothing(a) => JournalInv'
           /\ \A c \in Cell : ChangeCell(a, c, v) => JournalInv'
<1> DEFINE d == GetOrNewStateObject(db, a)
<1>0. ChainInv(db) BY DEF JournalInv
<1>1. Good(d, db) /\ Obj(d, a).exists BY <1>0, GetOrNewGood
<1> HIDE DEF d
<1>2. ChainInv(d) BY <1>1 DEF Good
<1>3. ASSUME ChangeBalance(a, s, v) PROVE JournalInv'
  <2>1. Good(SetBalance(d, a, s, v), db) BY <1>0, <1>1, <1>2, SetBalanceGood, GoodTrans
  <2>2. Does(SetBalance(d, a, s, v)) BY <1>3 DEF ChangeBalance, d
  <2> QED BY <2>1, <2>2, DoesInv
<1>4. ASSUME ChangeTimeLock(a, s, v) PROVE JournalInv'
  <2>1. Good(SetTimeLockBalance(d, a, s, v), db)
    BY <1>0, <1>1, <1>2, SetTimeLockBalanceGood, GoodTrans
  <2>2. Does(SetTimeLockBalance(d, a, s, v)) BY <1>4 DEF ChangeTimeLock, d
  <2> QED BY <2>1, <2>2, DoesInv
<1>5. ASSUME AddNothing(a) PROVE JournalInv'
  <2>1. Good(Touch(d, a), db) BY <1>0, <1>1, <1>2, TouchGood, GoodTrans
  <2>2. Does(Touch(d, a)) BY <1>5 DEF AddNothing, d
  <2> QED BY <2>1, <2>2, DoesInv
<1>6. ASSUME NEW c \in Cell, ChangeCell(a, c, v) PROVE JournalInv'
  <2>1. Good(SetCell(d, a, c, v), db) BY <1>0, <1>1, <1>2, SetCellGood, GoodTrans
  <2>2. Does(SetCell(d, a, c, v)) \/ Does(d) BY <1>6 DEF ChangeCell, d
  <2> QED BY <1>1, <2>1, <2>2, DoesInv
<1> QED BY <1>3, <1>4, <1>5, <1>6

\* So does the creation of a contract (EVM.create).
LEMMA ContractInv ==
    ASSUME JournalInv, NEW a \in Address, CreateContract(a)
    PROVE  JournalInv'
<1> DEFINE d == CreateAccount(db, a)
           g == SetCell(d, a, "nonce", 1)
<1>1. ChainInv(db) BY DEF JournalInv
<1>2. Good(d, db) /\ Obj(d, a).exists BY <1>1, CreateAccountGood
<1>3. Does(g) BY DEF CreateContract
<1> HIDE DEF d
<1>4. "nonce" \in Cell /\ 1 \in Value BY JournalAssumption
<1>5. ChainInv(d) BY <1>2 DEF Good
<1>6. Good(g, d) BY <1>2, <1>4, <1>5, SetCellGood
<1> HIDE DEF g
<1>7. Good(g, db) BY <1>1, <1>2, <1>6, GoodTrans
<1> QED BY <1>3, <1>7, DoesInv

\* So does opSuicide, although Suicide records all rows at once.
LEMMA SelfDestructInv ==
    ASSUME JournalInv, NEW a \in Address, NEW to \in Address, SelfDestruct(a, to)
    PROVE  JournalInv'
<1> DEFINE s == SystemAssetID
           read == BalanceRow(db, a, s)
           v == Obj(db, a).balance[s]
           d == GetOrNewStateObject(read, to)
           sum == Obj(d, to).balance[s] + v
           paid == IF v = 0 THEN Touch(d, to) ELSE SetBalance(d, to, s, sum)
<1>1. ChainInv(db) /\ s \in AssetID BY JournalAssumption DEF JournalInv
<1>2. Obj(db, a).exists /\ sum \in Value /\ Does(Suicide(paid, a)) BY DEF SelfDestruct
<1> HIDE DEF s, v
<1>3. Good(read, db) /\ read.world = db.world /\ s \in read.rows[a].balance
  BY <1>1, RowsGood
<1>4. ChainInv(read) /\ Obj(read, a).exists BY <1>2, <1>3 DEF Good, Obj
<1> HIDE DEF read
<1>5. /\ Good(d, read) /\ Obj(d, to).exists /\ d.rows = read.rows
      /\ \A b \in Address : Obj(read, b).exists => Obj(d, b) = Obj(read, b)
  BY <1>4, GetOrNewGood
<1>6. ChainInv(d) /\ Obj(d, a).exists BY <1>4, <1>5 DEF Good
<1>7. Good(d, db) BY <1>1, <1>3, <1>5, GoodTrans
<1> HIDE DEF d, sum
<1>8. Good(paid, d) /\ Obj(paid, a).exists /\ s \in paid.rows[a].balance
  <2>1. CASE v = 0
    <3>1. /\ Good(Touch(d, to), d) /\ Touch(d, to).rows = d.rows
          /\ \A b \in Address : Obj(Touch(d, to), b).exists = Obj(d, b).exists
      BY <1>5, <1>6, TouchGood
    <3> QED BY <1>3, <1>5, <1>6, <2>1, <3>1
  <2>2. CASE v # 0
    <3>1. /\ Good(SetBalance(d, to, s, sum), d)
          /\ \A b \in Address : Obj(SetBalance(d, to, s, sum), b).exists = Obj(d, b).exists
          /\ \A b \in Address : d.rows[b].balance \subseteq SetBalance(d, to, s, sum).rows[b].balance
      BY <1>1, <1>2, <1>5, <1>6, SetBalanceGood
    <3> QED BY <1>3, <1>5, <1>6, <2>2, <3>1
  <2> QED BY <2>1, <2>2
<1> HIDE DEF paid
<1>9. ChainInv(paid) BY <1>8 DEF Good
<1>10. Good(Suicide(paid, a), paid) BY <1>8, <1>9, SuicideGood
<1>11. Good(paid, db) BY <1>1, <1>7, <1>8, GoodTrans
<1>12. Good(Suicide(paid, a), db) BY <1>1, <1>10, <1>11, GoodTrans
<1> QED BY <1>2, <1>12, DoesInv

\* So do GetBalance and GetTimeLockBalance, which only add rows.
LEMMA ReadInv ==
    ASSUME JournalInv, NEW a \in Address, NEW s \in AssetID
    PROVE  /\ ReadBalance(a, s) => JournalInv'
           /\ ReadTimeLock(a, s) => JournalInv'
<1>1. Good(BalanceRow(db, a, s), db) /\ Good(LockRow(db, a, s), db)
  BY RowsGood DEF JournalInv
<1> QED BY <1>1, DoesInv DEF ReadBalance, ReadTimeLock

\* Undoing a log takes it away again (addLogChange).
LEMMA UndoLogWorld ==
    ASSUME NEW w \in World
    PROVE  UndoAddLog([w EXCEPT !.logs = @ + 1]) = w
<1> DEFINE v == [w EXCEPT !.logs = @ + 1]
<1>1. v = [object |-> w.object, refund |-> w.refund, logs |-> w.logs + 1] BY SMT DEF World
<1>2. w.logs \in Nat /\ (w.logs + 1) - 1 = w.logs BY SMT DEF World
<1>3. w = [object |-> w.object, refund |-> w.refund, logs |-> w.logs] BY DEF World
<1> HIDE DEF v
<1>4. UndoAddLog(v) = w BY <1>1, <1>2, <1>3, SMT DEF UndoAddLog
<1> QED BY <1>4 DEF v

\* So do AddRefund, AddLog and AddTicket.
LEMMA OtherInv ==
    ASSUME JournalInv
    PROVE  /\ AddRefund => JournalInv'
           /\ AddLog => JournalInv'
           /\ \A t \in Ticket : AddTicket(t) => JournalInv'
<1>1. ChainInv(db) /\ db \in DB /\ db.world \in World BY DEF JournalInv, ChainInv, DB
<1>5. ASSUME AddRefund PROVE JournalInv'
  <2> DEFINE e == [kind |-> "refund", prev |-> db.world.refund]
             w == [db.world EXCEPT !.refund = @ + 1]
  <2>0. e \in Entry /\ w \in World BY <1>1, SMT DEF Entry, World
  <2>1. Undo(e, w) = db.world
    <3>1. Undo(e, w) = [w EXCEPT !.refund = db.world.refund] BY DEF Undo
    <3>2. [w EXCEPT !.refund = db.world.refund] = db.world BY <1>1 DEF World
    <3> QED BY <3>1, <3>2
  <2>2. Does(Record(db, e, w)) BY <1>5 DEF AddRefund
  <2> HIDE DEF e, w
  <2>3. Good(Record(db, e, w), db) BY <1>1, <2>0, <2>1, RecordGood
  <2> QED BY <2>2, <2>3, DoesInv
<1>6. ASSUME AddLog PROVE JournalInv'
  <2> DEFINE e == [kind |-> "log"]
             w == [db.world EXCEPT !.logs = @ + 1]
  <2>1. e \in Entry /\ w \in World BY <1>1, SMT DEF Entry, World
  <2>2. Undo(e, w) = db.world
    <3>1. e.kind = "log" OBVIOUS
    <3>2. UndoAddLog(w) = db.world BY <1>1, UndoLogWorld
    <3> HIDE DEF e, w
    <3>3. Undo(e, w) = UndoAddLog(w) BY <3>1 DEF Undo
    <3> QED BY <3>2, <3>3
  <2>3. Does(Record(db, e, w)) BY <1>6 DEF AddLog
  <2> HIDE DEF e, w
  <2>4. Good(Record(db, e, w), db) BY <1>1, <2>1, <2>2, RecordGood
  <2> QED BY <2>3, <2>4, DoesInv
<1>7. ASSUME NEW t \in Ticket, AddTicket(t) PROVE JournalInv'
  <2> DEFINE d == [db EXCEPT !.tickets = @ \cup {t}]
  <2>1. /\ d.world = db.world /\ d.journal = db.journal /\ d.hist = db.hist /\ d \in DB
    BY <1>1 DEF DB
  <2>2. Does(d) BY <1>7 DEF AddTicket
  <2> HIDE DEF d
  <2>3. Len(db.journal) \in Nat BY <1>1, SMT DEF DB
  <2>4. Good(d, db) BY <1>1, <2>1, <2>3, SMT DEF Good, ChainInv, Continues
  <2> QED BY <2>2, <2>4, DoesInv
<1> QED BY <1>5, <1>6, <1>7

-----------------------------------------------------------------------------
(* Snapshots and reverting *)

\* A new snapshot marks the present, at the top of the journal.
LEMMA SnapshotInv == ASSUME JournalInv, Snapshot PROVE JournalInv'
<1> DEFINE new == [journalIndex |-> Len(db.journal), world |-> db.world,
                   rows |-> db.rows, tickets |-> db.tickets]
           n == Len(revisions)
<1>1. /\ revisions' = Append(revisions, new) /\ reverting = None
      /\ UNCHANGED <<db, reverting, stored, txs>>
  BY DEF Snapshot
<1>2. db \in DB /\ Len(db.hist) = Len(db.journal) + 1 /\ db.hist[Len(db.hist)] = db.world
  BY DEF JournalInv, ChainInv
<1>3. Len(db.journal) \in Nat BY <1>2, SMT DEF DB
<1>4. new \in Revision BY <1>2, <1>3 DEF DB, Revision
<1>5. Marks(new, db) BY <1>2, <1>3, SMT DEF Marks
<1>6. new.journalIndex = Len(db.journal) OBVIOUS
<1> HIDE DEF new
<1>7. /\ revisions' \in Seq(Revision) /\ Len(revisions') = n + 1 /\ n \in Nat
      /\ revisions'[n + 1] = new /\ \A q \in 1 .. n : revisions'[q] = revisions[q]
  BY <1>1, <1>4, SMT DEF JournalInv
<1>8. \A q \in 1 .. n : revisions[q].journalIndex \in Nat BY IndexNat
<1>9. (\A q \in 1 .. Len(revisions) : Marks(revisions[q], db))'
  <2> SUFFICES ASSUME NEW q \in 1 .. n + 1 PROVE Marks(revisions'[q], db)
    BY <1>1, <1>7
  <2>1. CASE q \in 1 .. n BY <1>7, <2>1 DEF JournalInv
  <2>2. CASE q = n + 1 BY <1>5, <1>7, <2>2
  <2> QED BY <1>7, <2>1, <2>2, SMT
<1>10. RevisionsNested'
  <2>1. /\ \A q \in 1 .. n : revisions[q].journalIndex <= Len(db.journal)
        /\ \A q \in 1 .. n : \A r \in q .. n :
              revisions[q].journalIndex <= revisions[r].journalIndex
    BY <1>1 DEF JournalInv, RevisionsNested
  <2>2. \A q \in 1 .. n + 1 : revisions'[q].journalIndex <= Len(db.journal)
    BY <1>3, <1>6, <1>7, <2>1, SMT
  <2>3. ASSUME NEW q \in 1 .. n + 1, NEW r \in q .. n + 1
        PROVE  revisions'[q].journalIndex <= revisions'[r].journalIndex
    <3>1. CASE r = n + 1 BY <1>6, <1>7, <2>2, <3>1
    <3>2. CASE r \in 1 .. n
      <4>1. q \in 1 .. n /\ r \in q .. n BY <1>7, <3>2, SMT
      <4> QED BY <1>7, <2>1, <3>2, <4>1
    <3> QED BY <1>7, <3>1, <3>2, SMT
  <2> QED BY <1>1, <1>3, <1>7, <2>2, <2>3, SMT DEF RevisionsNested
<1> QED BY <1>1, <1>7, <1>9, <1>10 DEF JournalInv

\* Starting a revert keeps the older snapshots only.
LEMMA RevertToSnapshotInv ==
    ASSUME JournalInv, NEW r \in 1 .. Len(revisions), RevertToSnapshot(r)
    PROVE  JournalInv'
<1>1. /\ reverting' = revisions[r] /\ reverting = None
      /\ revisions' = SubSeq(revisions, 1, r - 1) /\ UNCHANGED <<db, stored, txs>>
  BY DEF RevertToSnapshot
<1>2. /\ revisions \in Seq(Revision) /\ Len(revisions) \in Nat
      /\ \A q \in 1 .. Len(revisions) : revisions[q] \in Revision /\ Marks(revisions[q], db)
  BY SMT DEF JournalInv
<1>3. /\ revisions' \in Seq(Revision) /\ Len(revisions') = r - 1
      /\ \A q \in 1 .. r - 1 : revisions'[q] = revisions[q]
  BY <1>1, <1>2, SubSeqElements, SMT
<1>4. RevisionsNested'
  <2>1. \A q \in 1 .. r : revisions[q].journalIndex <= revisions[r].journalIndex
    BY SMT DEF JournalInv, RevisionsNested
  <2>2. \A q \in 1 .. r - 1 : \A p \in q .. r - 1 :
           revisions[q].journalIndex <= revisions[p].journalIndex
    BY SMT DEF JournalInv, RevisionsNested
  <2>3. revisions[r].journalIndex <= Len(db.journal) BY <1>2 DEF Marks
  <2>4. \A q \in 1 .. Len(revisions) : revisions[q].journalIndex \in Nat BY IndexNat
  <2>5. Len(db.journal) \in Nat BY SMT DEF JournalInv, ChainInv, DB
  <2>6. \A q \in 1 .. r - 1 : /\ revisions[q].journalIndex <= revisions[r].journalIndex
                              /\ revisions[q].journalIndex <= Len(db.journal)
    BY <2>1, <2>3, <2>4, <2>5, SMT
  <2>7. Len(db.journal) <= Len(db.journal) BY <2>5, SMT
  <2>8. \A q \in 1 .. r - 1 : \A p \in q .. r - 1 : p \in 1 .. r - 1 BY SMT
  <2>9. \A q \in 1 .. r - 1 : \A p \in q .. r - 1 :
           revisions'[q].journalIndex <= revisions'[p].journalIndex
    BY <1>3, <2>2, <2>8
  <2> QED BY <1>1, <1>3, <2>3, <2>6, <2>7, <2>9 DEF RevisionsNested
<1>5. (\A q \in 1 .. Len(revisions) : Marks(revisions[q], db))' BY <1>1, <1>2, <1>3, SMT
<1>6. (reverting # None => Marks(reverting, db))' BY <1>1, <1>2
<1>7. (reverting \in Revision \cup {None})' BY <1>1, <1>2
<1> QED BY <1>1, <1>3, <1>4, <1>5, <1>6, <1>7 DEF JournalInv

\* Undoing an entry gives rows.
LEMMA UndoRowsTyped ==
    ASSUME NEW e \in Entry, NEW rows \in [Address -> Rows]
    PROVE  UndoRows(e, rows) \in [Address -> Rows]
<1>1. CASE e.kind = "create" BY <1>1, ObjectsTyped DEF UndoRows
<1>2. CASE e.kind = "reset"
  <2>1. e.rows \in Rows BY <1>2 DEF Entry
  <2> QED BY <1>2, <2>1 DEF UndoRows
<1>3. CASE e.kind = "suicide"
  <2>1. e.rows \in Rows /\ e.account \in Address BY <1>3 DEF Entry
  <2>2. /\ e.rows.lock \subseteq AssetID /\ rows[e.account] \in Rows
    BY <2>1 DEF Rows
  <2>3. [rows[e.account] EXCEPT
            !.balance = @ \cup e.rows.lock,
            !.nil = (@ \cup e.rows.lock) \ e.rows.balance] \in Rows
    BY <2>2 DEF Rows
  <2> QED BY <1>3, <2>1, <2>2, <2>3 DEF UndoRows, Rows
<1>4. CASE e.kind \notin {"create", "reset", "suicide"} BY <1>4 DEF UndoRows
<1> QED BY <1>1, <1>2, <1>3, <1>4

\* Undoing the last entry goes one step back in the history.
LEMMA UndoLastInv == ASSUME JournalInv, UndoLast PROVE JournalInv'
<1> DEFINE n == Len(db.journal)
           e == db.journal[n]
           m == reverting.journalIndex
<1>1. /\ reverting # None /\ n > m
      /\ db' = [db EXCEPT !.world = Undo(e, @), !.rows = UndoRows(e, @),
                          !.journal = SubSeq(@, 1, n - 1), !.hist = SubSeq(@, 1, n)]
      /\ UNCHANGED <<revisions, reverting, stored, txs>>
  BY DEF UndoLast
<1>2. db \in DB /\ Len(db.hist) = n + 1 /\ db.hist[n + 1] = db.world
  BY DEF JournalInv, ChainInv
<1>3. reverting \in Revision /\ m \in Nat BY <1>1 DEF JournalInv, Revision
<1>4. n \in Nat /\ n >= 1 BY <1>1, <1>2, <1>3, SMT DEF DB
<1>5. \A i \in 1 .. n : Undo(db.journal[i], db.hist[i + 1]) = db.hist[i]
  BY DEF JournalInv, ChainInv
<1>6. /\ db'.world = Undo(e, db.world) /\ db'.rows = UndoRows(e, db.rows)
      /\ db'.tickets = db.tickets
      /\ db'.journal = SubSeq(db.journal, 1, n - 1) /\ db'.hist = SubSeq(db.hist, 1, n)
      /\ db' = [world |-> db'.world, rows |-> db'.rows, tickets |-> db'.tickets,
                journal |-> db'.journal, hist |-> db'.hist]
  BY <1>1, <1>2 DEF DB
<1>7. /\ db.journal \in Seq(Entry) /\ db.hist \in Seq(World)
      /\ db.rows \in [Address -> Rows] /\ db.tickets \in SUBSET Ticket
  BY <1>2 DEF DB
<1>8. e \in Entry BY <1>4, <1>7, SMT
<1>9. db'.world = db.hist[n]
  <2>1. n \in 1 .. n BY <1>4, SMT
  <2>2. Undo(e, db.hist[n + 1]) = db.hist[n] BY <1>5, <2>1
  <2> QED BY <1>2, <1>6, <2>2
<1>10. db.hist[n] \in World BY <1>2, <1>4, <1>7, SMT
<1> HIDE DEF e
<1>11. /\ db'.journal \in Seq(Entry) /\ Len(db'.journal) = n - 1
       /\ \A i \in 1 .. n - 1 : db'.journal[i] = db.journal[i]
  BY <1>4, <1>6, <1>7, SubSeqElements, SMT
<1>12. /\ db'.hist \in Seq(World) /\ Len(db'.hist) = n
       /\ \A i \in 1 .. n : db'.hist[i] = db.hist[i]
  BY <1>2, <1>4, <1>6, <1>7, SubSeqElements, SMT
<1>13. db'.rows \in [Address -> Rows] BY <1>6, <1>7, <1>8, UndoRowsTyped
<1>14. db' \in DB BY <1>6, <1>7, <1>9, <1>10, <1>11, <1>12, <1>13 DEF DB
<1>15. ChainInv(db)'
  <2>1. Len(db'.hist) = Len(db'.journal) + 1 BY <1>4, <1>11, <1>12, SMT
  <2>2. db'.hist[Len(db'.hist)] = db'.world BY <1>4, <1>9, <1>12, SMT
  <2>3. ASSUME NEW i \in 1 .. n - 1
        PROVE  Undo(db'.journal[i], db'.hist[i + 1]) = db'.hist[i]
    <3>1. i \in 1 .. n /\ i + 1 \in 1 .. n BY <1>4, SMT
    <3>2. /\ db'.journal[i] = db.journal[i] /\ db'.hist[i] = db.hist[i]
          /\ db'.hist[i + 1] = db.hist[i + 1]
      BY <1>11, <1>12, <3>1
    <3> QED BY <1>5, <3>1, <3>2
  <2> QED BY <1>11, <1>14, <2>1, <2>2, <2>3 DEF ChainInv
<1>16. ASSUME NEW r \in Revision, Marks(r, db), r.journalIndex <= m PROVE Marks(r, db')
  <2>1. r.journalIndex \in Nat BY DEF Revision
  <2>2. r.journalIndex + 1 \in 1 .. n BY <1>1, <1>3, <1>4, <1>16, <2>1, SMT
  <2>3. db'.hist[r.journalIndex + 1] = db.hist[r.journalIndex + 1] BY <1>12, <2>2
  <2>4. r.journalIndex <= Len(db'.journal) BY <1>4, <1>11, <2>1, <2>2, SMT
  <2> QED BY <1>16, <2>3, <2>4 DEF Marks
<1>17. \A q \in 1 .. Len(revisions) : Marks(revisions[q], db')
  <2> TAKE q \in 1 .. Len(revisions)
  <2>1. revisions[q] \in Revision /\ Marks(revisions[q], db) BY SMT DEF JournalInv
  <2>2. revisions[q].journalIndex <= m BY <1>1 DEF JournalInv, RevisionsNested
  <2> QED BY <1>16, <2>1, <2>2
<1>18. Marks(reverting, db') BY <1>1, <1>3, <1>16, SMT DEF JournalInv
<1>19. RevisionsNested'
  BY <1>1, <1>3, <1>4, <1>11, SMT DEF JournalInv, RevisionsNested
<1> QED BY <1>1, <1>15, <1>17, <1>18, <1>19 DEF JournalInv

\* The end of a revert preserves the invariant.
LEMMA RevertDoneInv == ASSUME JournalInv, RevertDone PROVE JournalInv'
<1>1. /\ reverting # None /\ Len(db.journal) = reverting.journalIndex /\ reverting' = None
      /\ UNCHANGED <<db, revisions, stored, txs>>
  BY DEF RevertDone
<1>2. RevisionsNested' BY <1>1 DEF JournalInv, RevisionsNested
<1>3. ChainInv(db)' /\ (\A q \in 1 .. Len(revisions) : Marks(revisions[q], db))'
  BY <1>1 DEF JournalInv
<1> QED BY <1>1, <1>2, <1>3 DEF JournalInv

\* The end of a transaction starts a new history (Finalise).
LEMMA FinaliseInv == ASSUME JournalInv, Finalise PROVE JournalInv'
<1> DEFINE Gone(a) == a \in Dirties(db) /\ (Obj(db, a).suicided \/ IsEmpty(db, a))
           object == [a \in Address |-> IF Gone(a) THEN NoObject ELSE Obj(db, a)]
           rows == [a \in Address |-> IF Gone(a) THEN NoRows ELSE db.rows[a]]
           w == [object |-> object, refund |-> 0, logs |-> 0]
<1>1. /\ reverting = None /\ reverting' = None /\ revisions' = <<>>
      /\ txs < MaxTxs /\ txs' = txs + 1
      /\ stored' = [a \in Address |-> IF a \in Dirties(db) THEN object[a] ELSE stored[a]]
      /\ db' = NewJournal(w, rows, db.tickets)
  BY DEF Finalise
<1>2. db \in DB BY DEF JournalInv, ChainInv
<1>3. \A a \in Address : Obj(db, a) \in Object /\ db.rows[a] \in Rows
  BY <1>2 DEF DB, World, Obj
<1> HIDE DEF Gone
<1>4. object \in [Address -> Object] /\ rows \in [Address -> Rows] BY <1>3, ObjectsTyped
<1>5. db.tickets \in SUBSET Ticket BY <1>2 DEF DB
<1> HIDE DEF object, rows
<1>6. w \in World BY <1>4 DEF World
<1> HIDE DEF w
<1>7. ChainInv(db)' /\ db'.journal = <<>> BY <1>1, <1>4, <1>5, <1>6, NewJournalGood
<1>8. stored' \in [Address -> Object] BY <1>1, <1>4 DEF JournalInv
<1>9. txs' \in 0 .. MaxTxs BY <1>1, JournalAssumption, SMT DEF JournalInv
<1>10. RevisionsNested' BY <1>1, <1>7, SMT DEF RevisionsNested
<1> QED BY <1>1, <1>7, <1>8, <1>9, <1>10, SMT DEF JournalInv

\* Every step preserves the invariant.
LEMMA JournalInvStep == JournalInv /\ [Next]_vars => JournalInv'
<1> SUFFICES ASSUME JournalInv, [Next]_vars PROVE JournalInv'
  OBVIOUS
<1>0. SystemAssetID \in AssetID /\ 0 \in Value BY JournalAssumption
<1>1. ASSUME NEW a \in Address, NEW s \in AssetID, NEW v \in Value,
             ChangeBalance(a, s, v) \/ ChangeTimeLock(a, s, v)
      PROVE  JournalInv'
  BY <1>1, ChangeInv
<1>2. ASSUME NEW a \in Address, AddNothing(a) \/ CreateContract(a) PROVE JournalInv'
  BY <1>0, <1>2, ChangeInv, ContractInv
<1>3. ASSUME NEW a \in Address, NEW c \in Cell, NEW v \in Value, ChangeCell(a, c, v)
      PROVE  JournalInv'
  BY <1>0, <1>3, ChangeInv
<1>4. ASSUME NEW a \in Address, NEW s \in AssetID, ReadBalance(a, s) \/ ReadTimeLock(a, s)
      PROVE  JournalInv'
  BY <1>4, ReadInv
<1>5. ASSUME NEW a \in Address, NEW to \in Address, SelfDestruct(a, to) PROVE JournalInv'
  BY <1>5, SelfDestructInv
<1>6. CASE AddRefund \/ AddLog BY <1>6, OtherInv
<1>7. CASE Snapshot BY <1>7, SnapshotInv
<1>8. CASE UndoLast BY <1>8, UndoLastInv
<1>9. CASE RevertDone BY <1>9, RevertDoneInv
<1>10. CASE Finalise BY <1>10, FinaliseInv
<1>11. ASSUME NEW t \in Ticket, AddTicket(t) PROVE JournalInv' BY <1>11, OtherInv
<1>12. ASSUME NEW r \in 1 .. Len(revisions), RevertToSnapshot(r) PROVE JournalInv'
  BY <1>12, RevertToSnapshotInv
<1>13. CASE UNCHANGED vars
  BY <1>13 DEF vars, JournalInv, ChainInv, Marks, RevisionsNested
<1> QED
  BY <1>1, <1>2, <1>3, <1>4, <1>5, <1>6, <1>7, <1>8, <1>9, <1>10, <1>11, <1>12, <1>13 DEF Next

\* So it holds in every state.
LEMMA JournalInvHolds == Spec => []JournalInv
<1> QED BY JournalInvInit, JournalInvStep, PTL DEF Spec

-----------------------------------------------------------------------------
(* What the trie has *)

\* At place i of the history nothing is half done: an object that replaces
\* another (resetObject) is not dirty until the next entry makes it so.
Settled(d, i) == i = 0 \/ d.journal[i].kind # "reset"

\* What the first i entries do not mark as dirty was in the trie in world i.
StoredAt(d, i) ==
    \A a \in Address :
        (\A j \in 1 .. i : a \notin Dirtied(d.journal[j])) => stored[a] = d.hist[i + 1].object[a]

Tracks(d) == \A i \in 0 .. Len(d.journal) : Settled(d, i) => StoredAt(d, i)

\* The present world is in the trie, but for what is dirty and perhaps x.
CurrentBut(d, x) ==
    \A a \in Address \ {x} :
        (\A j \in 1 .. Len(d.journal) : a \notin Dirtied(d.journal[j])) => stored[a] = Obj(d, a)

\* d tracks the trie and may be left as it is.
Whole(d) == ChainInv(d) /\ Tracks(d) /\ Settled(d, Len(d.journal))

StoredInv ==
    /\ Tracks(db)
    /\ \A q \in 1 .. Len(revisions) : Settled(db, revisions[q].journalIndex)
    /\ Settled(db, IF reverting = None THEN Len(db.journal) ELSE reverting.journalIndex)

\* In a settled state all of the world is in the trie but what is dirty.
LEMMA WholeIsCurrent ==
    ASSUME NEW d, Whole(d)
    PROVE  /\ \A a \in Address :
                 (\A j \in 1 .. Len(d.journal) : a \notin Dirtied(d.journal[j]))
                     => stored[a] = Obj(d, a)
           /\ \A x : CurrentBut(d, x)
<1>1. Len(d.journal) \in Nat BY SMT DEF Whole, ChainInv, DB
<1>2. StoredAt(d, Len(d.journal)) BY <1>1, SMT DEF Whole, Tracks
<1>3. d.hist[Len(d.journal) + 1] = d.world BY DEF Whole, ChainInv
<1> QED BY <1>2, <1>3 DEF StoredAt, Obj, CurrentBut

\* An entry marks what it changes, or is about to (journal.append).
LEMMA RecordTracks ==
    ASSUME NEW d, ChainInv(d), Tracks(d), NEW x, CurrentBut(d, x),
           NEW e \in Entry, NEW w \in World,
           \A b \in Address \ {x} : b \notin Dirtied(e) => w.object[b] = Obj(d, b),
           e.kind # "reset" => x \in Dirtied(e) \/ x \notin Address
    PROVE  /\ Tracks(Record(d, e, w)) /\ CurrentBut(Record(d, e, w), x)
           /\ e.kind # "reset" => Settled(Record(d, e, w), Len(Record(d, e, w).journal))
<1> DEFINE r == Record(d, e, w)
           n == Len(d.journal)
<1>1. /\ d \in DB /\ Len(d.hist) = n + 1 /\ d.journal \in Seq(Entry) /\ d.hist \in Seq(World)
      /\ n \in Nat
  BY SMT DEF ChainInv, DB
<1>2. r.world = w /\ r.journal = Append(d.journal, e) /\ r.hist = Append(d.hist, w)
  BY <1>1 DEF Record, DB
<1> HIDE DEF r
<1>3. /\ Len(r.journal) = n + 1 /\ r.journal[n + 1] = e
      /\ \A i \in 1 .. n : r.journal[i] = d.journal[i]
  BY <1>1, <1>2, SMT
<1>4. r.hist[n + 2] = w /\ \A i \in 1 .. n + 1 : r.hist[i] = d.hist[i]
  BY <1>1, <1>2, SMT
<1>5. ASSUME NEW a \in Address \ {x}, \A j \in 1 .. n + 1 : a \notin Dirtied(r.journal[j])
      PROVE  stored[a] = w.object[a]
  <2>1. a \notin Dirtied(e) BY <1>1, <1>3, <1>5, SMT
  <2>2. \A j \in 1 .. n : a \notin Dirtied(d.journal[j]) BY <1>1, <1>3, <1>5, SMT
  <2> QED BY <2>1, <2>2 DEF CurrentBut
<1>6. CurrentBut(r, x) BY <1>2, <1>3, <1>5 DEF CurrentBut, Obj
<1>7. ASSUME NEW i \in 0 .. n + 1, Settled(r, i) PROVE StoredAt(r, i)
  <2>1. CASE i = n + 1
    <3>1. e.kind # "reset" BY <1>1, <1>3, <1>7, <2>1, SMT DEF Settled
    <3> SUFFICES ASSUME NEW a \in Address, \A j \in 1 .. n + 1 : a \notin Dirtied(r.journal[j])
                 PROVE  stored[a] = r.hist[n + 2].object[a]
      BY <1>1, <2>1, SMT DEF StoredAt
    <3>2. a \notin Dirtied(e) BY <1>1, <1>3, SMT
    <3>3. a # x BY <3>1, <3>2
    <3> QED BY <1>4, <1>5, <3>3
  <2>2. CASE i \in 0 .. n
    <3>1. Settled(d, i) BY <1>3, <1>7, <2>2, SMT DEF Settled
    <3>2. StoredAt(d, i) BY <2>2, <3>1 DEF Tracks
    <3>3. r.hist[i + 1] = d.hist[i + 1] /\ \A j \in 1 .. i : r.journal[j] = d.journal[j]
      BY <1>1, <1>3, <1>4, <2>2, SMT
    <3> QED BY <3>2, <3>3 DEF StoredAt
  <2> QED BY <1>1, <2>1, <2>2, SMT
<1>8. Tracks(r) BY <1>3, <1>7 DEF Tracks
<1>9. e.kind # "reset" => Settled(r, Len(r.journal)) BY <1>1, <1>3 DEF Settled
<1> QED BY <1>6, <1>8, <1>9 DEF r

\* An entry about an account marks it, except the one of a replacement.
LEMMA ObjectEntryTracks ==
    ASSUME NEW d, ChainInv(d), Tracks(d), NEW a \in Address, CurrentBut(d, a),
           NEW o \in Object, NEW e \in Entry, e.account = a, e.kind \notin {"refund", "log"}
    PROVE  LET r == Record(d, e, WithObject(d.world, a, o))
           IN  /\ Tracks(r) /\ CurrentBut(r, a)
               /\ e.kind # "reset" => Settled(r, Len(r.journal))
<1> DEFINE w == WithObject(d.world, a, o)
<1>1. d.world \in World BY DEF ChainInv, DB
<1>2. w \in World /\ \A b \in Address \ {a} : w.object[b] = d.world.object[b]
  BY <1>1, WithObjectWorld, SMT
<1> HIDE DEF w
<1>3. e.kind # "reset" => a \in Dirtied(e) BY DEF Dirtied
<1>4. \A b \in Address \ {a} : b \notin Dirtied(e) => w.object[b] = Obj(d, b) BY <1>2 DEF Obj
<1>5. /\ Tracks(Record(d, e, w)) /\ CurrentBut(Record(d, e, w), a)
      /\ e.kind # "reset" => Settled(Record(d, e, w), Len(Record(d, e, w).journal))
  BY <1>2, <1>3, <1>4, RecordTracks
<1> QED BY <1>5 DEF w

\* What a setter makes of a settled state, when its entry undoes it (Good) and
\* is not the one of a replacement.
LEMMA SetterWhole ==
    ASSUME NEW d, ChainInv(d), Tracks(d), NEW a \in Address, CurrentBut(d, a),
           NEW o \in Object, NEW e \in Entry, e.account = a,
           e.kind \notin {"refund", "log", "reset"}, NEW c,
           Good(Record(d, e, WithObject(d.world, a, o)), c)
    PROVE  Whole(Record(d, e, WithObject(d.world, a, o)))
BY ObjectEntryTracks DEF Whole, Good

\* Reading a row leaves the history as it is.
LEMMA RowsWhole ==
    ASSUME NEW d, Whole(d), NEW a \in Address, NEW s \in AssetID
    PROVE  Whole(BalanceRow(d, a, s)) /\ Whole(LockRow(d, a, s))
<1>1. d \in DB BY DEF Whole, ChainInv
<1>2. /\ BalanceRow(d, a, s).journal = d.journal /\ BalanceRow(d, a, s).hist = d.hist
      /\ LockRow(d, a, s).journal = d.journal /\ LockRow(d, a, s).hist = d.hist
  BY <1>1 DEF BalanceRow, LockRow, DB
<1>3. ChainInv(BalanceRow(d, a, s)) /\ ChainInv(LockRow(d, a, s))
  BY RowsGood DEF Whole, Good
<1> QED BY <1>2, <1>3 DEF Whole, Tracks, Settled, StoredAt

\* A new account is marked.
LEMMA GetOrNewWhole ==
    ASSUME NEW d, Whole(d), NEW a \in Address
    PROVE  Whole(GetOrNewStateObject(d, a))
<1>1. CASE Obj(d, a).exists BY <1>1 DEF GetOrNewStateObject
<1>2. CASE ~ Obj(d, a).exists
  <2> DEFINE e == [kind |-> "create", account |-> a]
  <2>1. GetOrNewStateObject(d, a) = Record(d, e, WithObject(d.world, a, NewObject))
    BY <1>2 DEF GetOrNewStateObject, createObject
  <2>2. e \in Entry /\ e.account = a /\ e.kind \notin {"refund", "log", "reset"} BY DEF Entry
  <2>3. Good(GetOrNewStateObject(d, a), d) BY GetOrNewGood DEF Whole
  <2>4. ChainInv(d) /\ Tracks(d) /\ CurrentBut(d, a) BY WholeIsCurrent DEF Whole
  <2> HIDE DEF e
  <2> QED BY <2>1, <2>2, <2>3, <2>4, SetterWhole, ObjectsTyped
<1> QED BY <1>1, <1>2

\* A changed balance is marked.
LEMMA SetBalanceWhole ==
    ASSUME NEW d, Whole(d), NEW a \in Address, Obj(d, a).exists,
           NEW s \in AssetID, NEW v \in Value
    PROVE  Whole(SetBalance(d, a, s, v))
<1> DEFINE c == BalanceRow(d, a, s)
           o == [Obj(d, a) EXCEPT !.balance[s] = v]
           e == [kind |-> "balance", account |-> a, key |-> s, prev |-> Obj(d, a).balance[s]]
<1>1. ChainInv(d) BY DEF Whole
<1>2. Whole(c) /\ c.world = d.world BY <1>1, RowsWhole, RowsGood
<1>3. Obj(d, a) \in LiveObject BY <1>1, ObjTyped
<1>4. o \in Object /\ e \in Entry BY <1>3 DEF Object, LiveObject, Entry
<1>5. e.account = a /\ e.kind \notin {"refund", "log", "reset"} OBVIOUS
<1>6. SetBalance(d, a, s, v) = Record(c, e, WithObject(c.world, a, o)) BY <1>2 DEF SetBalance
<1>7. Good(SetBalance(d, a, s, v), d) BY <1>1, SetBalanceGood
<1> HIDE DEF c, e, o
<1>8. ChainInv(c) /\ Tracks(c) /\ CurrentBut(c, a) BY <1>2, WholeIsCurrent DEF Whole
<1> QED BY <1>4, <1>5, <1>6, <1>7, <1>8, SetterWhole

\* A changed time lock is marked.
LEMMA SetTimeLockBalanceWhole ==
    ASSUME NEW d, Whole(d), NEW a \in Address, Obj(d, a).exists,
           NEW s \in AssetID, NEW v \in Value
    PROVE  Whole(SetTimeLockBalance(d, a, s, v))
<1> DEFINE c == LockRow(d, a, s)
           o == [Obj(d, a) EXCEPT !.lock[s] = v]
           e == [kind |-> "lock", account |-> a, key |-> s, prev |-> Obj(d, a).lock[s]]
<1>1. ChainInv(d) BY DEF Whole
<1>2. Whole(c) /\ c.world = d.world BY <1>1, RowsWhole, RowsGood
<1>3. Obj(d, a) \in LiveObject BY <1>1, ObjTyped
<1>4. o \in Object /\ e \in Entry BY <1>3 DEF Object, LiveObject, Entry
<1>5. e.account = a /\ e.kind \notin {"refund", "log", "reset"} OBVIOUS
<1>6. SetTimeLockBalance(d, a, s, v) = Record(c, e, WithObject(c.world, a, o))
  BY <1>2 DEF SetTimeLockBalance
<1>7. Good(SetTimeLockBalance(d, a, s, v), d) BY <1>1, SetTimeLockBalanceGood
<1> HIDE DEF c, e, o
<1>8. ChainInv(c) /\ Tracks(c) /\ CurrentBut(c, a) BY <1>2, WholeIsCurrent DEF Whole
<1> QED BY <1>4, <1>5, <1>6, <1>7, <1>8, SetterWhole

\* A changed cell is marked, and with it an object that was just replaced.
LEMMA SetCellWhole ==
    ASSUME NEW d, ChainInv(d), Tracks(d), NEW a \in Address, CurrentBut(d, a), Obj(d, a).exists,
           NEW c \in Cell, NEW v \in Value
    PROVE  Whole(SetCell(d, a, c, v))
<1> DEFINE o == [Obj(d, a) EXCEPT !.cell[c] = v]
           e == [kind |-> "cell", account |-> a, key |-> c, prev |-> Obj(d, a).cell[c]]
<1>1. Obj(d, a) \in LiveObject BY ObjTyped
<1>2. o \in Object /\ e \in Entry BY <1>1 DEF Object, LiveObject, Entry
<1>3. e.account = a /\ e.kind \notin {"refund", "log", "reset"} OBVIOUS
<1>4. SetCell(d, a, c, v) = Record(d, e, WithObject(d.world, a, o)) BY DEF SetCell
<1>5. Good(SetCell(d, a, c, v), d) BY SetCellGood
<1> HIDE DEF e, o
<1> QED BY <1>2, <1>3, <1>4, <1>5, SetterWhole

\* touch marks an account that has not changed.
LEMMA TouchWhole ==
    ASSUME NEW d, Whole(d), NEW a \in Address, Obj(d, a).exists
    PROVE  Whole(Touch(d, a))
<1> DEFINE e == [kind |-> "touch", account |-> a]
<1>1. CASE IsEmpty(d, a)
  <2>1. ChainInv(d) /\ Tracks(d) /\ CurrentBut(d, a) BY WholeIsCurrent DEF Whole
  <2>2. e \in Entry /\ d.world \in World BY <2>1 DEF Entry, ChainInv, DB
  <2>3. Touch(d, a) = Record(d, e, d.world) BY <1>1 DEF Touch
  <2>4. a \in Dirtied(e) /\ e.kind # "reset" BY DEF Dirtied
  <2> HIDE DEF e
  <2>5. \A b \in Address \ {a} : b \notin Dirtied(e) => d.world.object[b] = Obj(d, b) BY DEF Obj
  <2>6. Tracks(Touch(d, a)) /\ Settled(Touch(d, a), Len(Touch(d, a).journal))
    BY <2>1, <2>2, <2>3, <2>4, <2>5, RecordTracks
  <2>7. ChainInv(Touch(d, a)) BY <2>1, TouchGood DEF Good
  <2> QED BY <2>6, <2>7 DEF Whole
<1>2. CASE ~ IsEmpty(d, a) BY <1>2 DEF Touch
<1> QED BY <1>1, <1>2

\* The account of a suicide is marked.
LEMMA SuicideWhole ==
    ASSUME NEW d, Whole(d), NEW a \in Address, Obj(d, a).exists, d.rows[a].balance # {}
    PROVE  Whole(Suicide(d, a))
<1> DEFINE zero == [s \in AssetID |-> 0]
           gone == [Obj(d, a) EXCEPT !.suicided = TRUE, !.balance = zero, !.lock = zero]
           e == [kind |-> "suicide", account |-> a, prev |-> Obj(d, a), rows |-> d.rows[a]]
<1>1. ChainInv(d) /\ Tracks(d) /\ CurrentBut(d, a) BY WholeIsCurrent DEF Whole
<1>2. Obj(d, a) \in LiveObject /\ Obj(d, a) \in Object /\ d.rows[a] \in Rows BY <1>1, ObjTyped
<1>3. gone \in Object BY <1>2, JournalAssumption DEF LiveObject, Object
<1>4. e \in Entry /\ e.account = a /\ e.kind \notin {"refund", "log", "reset"} BY <1>2 DEF Entry
<1>5. Suicide(d, a) = Record(d, e, WithObject(d.world, a, gone)) BY DEF Suicide
<1>6. Good(Suicide(d, a), d) BY <1>1, SuicideGood
<1> HIDE DEF e, gone
<1> QED BY <1>1, <1>3, <1>4, <1>5, <1>6, SetterWhole

\* CreateAccount may replace an object without marking it.
LEMMA CreateAccountTracks ==
    ASSUME NEW d, Whole(d), NEW a \in Address
    PROVE  LET g == CreateAccount(d, a)
           IN  ChainInv(g) /\ Tracks(g) /\ CurrentBut(g, a) /\ Obj(g, a).exists
<1> DEFINE prev == Obj(d, a)
           carried == [NewObject EXCEPT !.balance = prev.balance, !.lock = prev.lock]
           o == IF prev.exists THEN carried ELSE NewObject
           e == IF prev.exists
                THEN [kind |-> "reset", account |-> a, prev |-> prev, rows |-> d.rows[a]]
                ELSE [kind |-> "create", account |-> a]
<1>1. ChainInv(d) /\ Tracks(d) /\ CurrentBut(d, a) BY WholeIsCurrent DEF Whole
<1>2. prev \in Object /\ d.rows[a] \in Rows /\ (prev.exists => prev \in LiveObject)
  BY <1>1, ObjTyped
<1>3. NewObject \in LiveObject BY JournalAssumption DEF NewObject, NoObject, LiveObject
<1>4. prev.exists => carried \in LiveObject BY <1>2, <1>3 DEF LiveObject
<1>5. o \in Object BY <1>3, <1>4 DEF Object
<1>6. e \in Entry /\ e.account = a /\ e.kind \notin {"refund", "log"} BY <1>2 DEF Entry
<1>7. CreateAccount(d, a) = Record(d, e, WithObject(d.world, a, o))
  BY DEF CreateAccount, createObject
<1>8. ChainInv(CreateAccount(d, a)) /\ Obj(CreateAccount(d, a), a).exists
  BY <1>1, CreateAccountGood DEF Good
<1> HIDE DEF e, o
<1> QED BY <1>1, <1>5, <1>6, <1>7, <1>8, ObjectEntryTracks

\* A fresh journal has nothing to write.
LEMMA StoredInvInit == Init => StoredInv
<1> SUFFICES ASSUME Init PROVE StoredInv
  OBVIOUS
<1>1. /\ db.journal = <<>> /\ db.hist = <<[object |-> stored, refund |-> 0, logs |-> 0]>>
      /\ revisions = <<>> /\ reverting = None
  BY SMT DEF Init, NewJournal
<1>2. Len(db.journal) = 0 /\ Len(revisions) = 0 /\ db.hist[1].object = stored BY <1>1, SMT
<1> QED BY <1>1, <1>2, SMT DEF StoredInv, Tracks, Settled, StoredAt

\* Between operations the state is settled.
LEMMA StoredIsWhole ==
    ASSUME JournalInv, StoredInv, reverting = None
    PROVE  Whole(db)
BY DEF JournalInv, StoredInv, Whole

\* An operation that leaves a settled state keeps what the trie has.
LEMMA DoesStored ==
    ASSUME JournalInv, StoredInv, NEW d, Good(d, db), Does(d), Whole(d)
    PROVE  StoredInv'
<1>1. db' = d /\ UNCHANGED <<revisions, reverting, stored, txs>> /\ reverting = None
  BY DEF Does
<1>2. ASSUME NEW q \in 1 .. Len(revisions) PROVE Settled(d, revisions[q].journalIndex)
  <2> DEFINE k == revisions[q].journalIndex
  <2>1. k \in Nat /\ Marks(revisions[q], db) /\ Settled(db, k)
    BY IndexNat DEF JournalInv, StoredInv
  <2>2. Len(db.journal) \in Nat BY SMT DEF JournalInv, ChainInv, DB
  <2>3. k # 0 => k \in 1 .. Len(db.journal) BY <2>1, <2>2, SMT DEF Marks
  <2>4. k # 0 => d.journal[k] = db.journal[k] BY <2>3 DEF Good, Continues
  <2> QED BY <2>1, <2>4 DEF Settled
<1> QED BY <1>1, <1>2 DEF StoredInv, Whole, Tracks, Settled, StoredAt

\* The setters of balances, time locks and cells mark what they change.
LEMMA ChangeStored ==
    ASSUME JournalInv, StoredInv, NEW a \in Address, NEW s \in AssetID, NEW v \in Value
    PROVE  /\ ChangeBalance(a, s, v) => StoredInv'
           /\ ChangeTimeLock(a, s, v) => StoredInv'
           /\ AddNothing(a) => StoredInv'
           /\ \A c \in Cell : ChangeCell(a, c, v) => StoredInv'
<1> SUFFICES ASSUME reverting = None
             PROVE  /\ ChangeBalance(a, s, v) => StoredInv'
                    /\ ChangeTimeLock(a, s, v) => StoredInv'
                    /\ AddNothing(a) => StoredInv'
                    /\ \A c \in Cell : ChangeCell(a, c, v) => StoredInv'
  BY DEF ChangeBalance, ChangeTimeLock, AddNothing, ChangeCell, Does
<1> DEFINE d == GetOrNewStateObject(db, a)
<1>0. Whole(db) /\ ChainInv(db) BY StoredIsWhole DEF Whole
<1>1. Good(d, db) /\ Obj(d, a).exists /\ Whole(d) BY <1>0, GetOrNewGood, GetOrNewWhole
<1>2. ChainInv(d) /\ Tracks(d) /\ CurrentBut(d, a) BY <1>1, WholeIsCurrent DEF Whole
<1>3. ASSUME ChangeBalance(a, s, v) PROVE StoredInv'
  <2>1. Does(SetBalance(d, a, s, v)) BY <1>3 DEF ChangeBalance
  <2> HIDE DEF d
  <2>2. Good(SetBalance(d, a, s, v), db) BY <1>0, <1>1, <1>2, SetBalanceGood, GoodTrans
  <2>3. Whole(SetBalance(d, a, s, v)) BY <1>1, SetBalanceWhole
  <2> QED BY <2>1, <2>2, <2>3, DoesStored
<1>4. ASSUME ChangeTimeLock(a, s, v) PROVE StoredInv'
  <2>1. Does(SetTimeLockBalance(d, a, s, v)) BY <1>4 DEF ChangeTimeLock
  <2> HIDE DEF d
  <2>2. Good(SetTimeLockBalance(d, a, s, v), db)
    BY <1>0, <1>1, <1>2, SetTimeLockBalanceGood, GoodTrans
  <2>3. Whole(SetTimeLockBalance(d, a, s, v)) BY <1>1, SetTimeLockBalanceWhole
  <2> QED BY <2>1, <2>2, <2>3, DoesStored
<1>5. ASSUME AddNothing(a) PROVE StoredInv'
  <2>1. Does(Touch(d, a)) BY <1>5 DEF AddNothing
  <2> HIDE DEF d
  <2>2. Good(Touch(d, a), db) BY <1>0, <1>1, <1>2, TouchGood, GoodTrans
  <2>3. Whole(Touch(d, a)) BY <1>1, TouchWhole
  <2> QED BY <2>1, <2>2, <2>3, DoesStored
<1>6. ASSUME NEW c \in Cell, ChangeCell(a, c, v) PROVE StoredInv'
  <2>1. Does(SetCell(d, a, c, v)) \/ Does(d) BY <1>6 DEF ChangeCell
  <2> HIDE DEF d
  <2>2. Good(SetCell(d, a, c, v), db) BY <1>0, <1>1, <1>2, SetCellGood, GoodTrans
  <2>3. Whole(SetCell(d, a, c, v)) BY <1>1, <1>2, SetCellWhole
  <2> QED BY <1>1, <2>1, <2>2, <2>3, DoesStored
<1> QED BY <1>3, <1>4, <1>5, <1>6

\* A contract's account is marked by its nonce, also when it replaces another.
LEMMA ContractStored ==
    ASSUME JournalInv, StoredInv, NEW a \in Address, CreateContract(a)
    PROVE  StoredInv'
<1> DEFINE d == CreateAccount(db, a)
           g == SetCell(d, a, "nonce", 1)
<1>1. Does(g) BY DEF CreateContract
<1>2. Whole(db) /\ ChainInv(db) BY <1>1, StoredIsWhole DEF Whole, Does
<1>3. Good(d, db) BY <1>2, CreateAccountGood
<1>4. ChainInv(d) /\ Tracks(d) /\ CurrentBut(d, a) /\ Obj(d, a).exists
  BY <1>2, CreateAccountTracks
<1>5. "nonce" \in Cell /\ 1 \in Value BY JournalAssumption
<1> HIDE DEF d
<1>6. Good(g, db) BY <1>2, <1>3, <1>4, <1>5, SetCellGood, GoodTrans
<1>7. Whole(g) BY <1>4, <1>5, SetCellWhole
<1> HIDE DEF g
<1> QED BY <1>1, <1>6, <1>7, DoesStored

\* The accounts of a suicide and of its beneficiary are marked.
LEMMA SelfDestructStored ==
    ASSUME JournalInv, StoredInv, NEW a \in Address, NEW to \in Address, SelfDestruct(a, to)
    PROVE  StoredInv'
<1> DEFINE s == SystemAssetID
           read == BalanceRow(db, a, s)
           v == Obj(db, a).balance[s]
           d == GetOrNewStateObject(read, to)
           sum == Obj(d, to).balance[s] + v
           paid == IF v = 0 THEN Touch(d, to) ELSE SetBalance(d, to, s, sum)
<1>1. Obj(db, a).exists /\ sum \in Value /\ Does(Suicide(paid, a)) BY DEF SelfDestruct
<1>2. Whole(db) /\ ChainInv(db) /\ s \in AssetID
  BY <1>1, StoredIsWhole, JournalAssumption DEF Whole, Does
<1> HIDE DEF s, v
<1>3. /\ Good(read, db) /\ Whole(read) /\ read.world = db.world /\ s \in read.rows[a].balance
  BY <1>2, RowsGood, RowsWhole
<1>4. ChainInv(read) /\ Obj(read, a).exists BY <1>1, <1>3 DEF Good, Obj
<1> HIDE DEF read
<1>5. /\ Good(d, read) /\ Obj(d, to).exists /\ d.rows = read.rows
      /\ \A b \in Address : Obj(read, b).exists => Obj(d, b) = Obj(read, b)
      /\ Whole(d)
  BY <1>3, <1>4, GetOrNewGood, GetOrNewWhole
<1>6. ChainInv(d) /\ Obj(d, a).exists /\ Good(d, db) BY <1>2, <1>3, <1>4, <1>5, GoodTrans DEF Good
<1> HIDE DEF d, sum
<1>7. Good(paid, d) /\ Whole(paid) /\ Obj(paid, a).exists /\ s \in paid.rows[a].balance
  <2>1. CASE v = 0
    <3>1. /\ Good(Touch(d, to), d) /\ Touch(d, to).rows = d.rows
          /\ \A b \in Address : Obj(Touch(d, to), b).exists = Obj(d, b).exists
      BY <1>5, <1>6, TouchGood
    <3>2. Whole(Touch(d, to)) BY <1>5, TouchWhole
    <3> QED BY <1>3, <1>5, <1>6, <2>1, <3>1, <3>2
  <2>2. CASE v # 0
    <3>1. /\ Good(SetBalance(d, to, s, sum), d)
          /\ \A b \in Address : Obj(SetBalance(d, to, s, sum), b).exists = Obj(d, b).exists
          /\ \A b \in Address : d.rows[b].balance \subseteq SetBalance(d, to, s, sum).rows[b].balance
      BY <1>1, <1>2, <1>5, <1>6, SetBalanceGood
    <3>2. Whole(SetBalance(d, to, s, sum)) BY <1>1, <1>2, <1>5, SetBalanceWhole
    <3> QED BY <1>3, <1>5, <1>6, <2>2, <3>1, <3>2
  <2> QED BY <2>1, <2>2
<1> HIDE DEF paid
<1>8. Good(Suicide(paid, a), paid) /\ Whole(Suicide(paid, a))
  BY <1>7, SuicideGood, SuicideWhole DEF Whole
<1>9. Good(Suicide(paid, a), db) BY <1>2, <1>6, <1>7, <1>8, GoodTrans
<1> QED BY <1>1, <1>8, <1>9, DoesStored

\* Reads, refunds, logs and tickets change no account.
LEMMA OtherStored ==
    ASSUME JournalInv, StoredInv
    PROVE  /\ \A a \in Address, s \in AssetID : ReadBalance(a, s) \/ ReadTimeLock(a, s) => StoredInv'
           /\ AddRefund => StoredInv'
           /\ AddLog => StoredInv'
           /\ \A t \in Ticket : AddTicket(t) => StoredInv'
<1>1. ChainInv(db) /\ db \in DB /\ db.world \in World BY DEF JournalInv, ChainInv, DB
<1>2. ASSUME NEW a \in Address, NEW s \in AssetID, ReadBalance(a, s) \/ ReadTimeLock(a, s)
      PROVE  StoredInv'
  <2>1. Whole(db) BY <1>2, StoredIsWhole DEF ReadBalance, ReadTimeLock, Does
  <2>2. Whole(BalanceRow(db, a, s)) /\ Whole(LockRow(db, a, s)) BY <2>1, RowsWhole
  <2>3. Good(BalanceRow(db, a, s), db) /\ Good(LockRow(db, a, s), db) BY <1>1, RowsGood
  <2> QED BY <1>2, <2>2, <2>3, DoesStored DEF ReadBalance, ReadTimeLock
<1>3. ASSUME NEW e \in Entry, e.kind \in {"refund", "log"}, NEW w \in World,
             w.object = db.world.object, Does(Record(db, e, w)), Good(Record(db, e, w), db)
      PROVE  StoredInv'
  <2>1. Whole(db) BY <1>3, StoredIsWhole DEF Does
  <2>2. PICK x : x \notin Address BY NoSetContainsEverything
  <2>3. Tracks(db) /\ CurrentBut(db, x) BY <2>1, WholeIsCurrent DEF Whole
  <2>4. \A b \in Address \ {x} : b \notin Dirtied(e) => w.object[b] = Obj(db, b)
    BY <1>3 DEF Obj
  <2>5. Tracks(Record(db, e, w)) /\ Settled(Record(db, e, w), Len(Record(db, e, w).journal))
    BY <1>1, <1>3, <2>2, <2>3, <2>4, RecordTracks
  <2>6. Whole(Record(db, e, w)) BY <1>3, <2>5 DEF Whole, Good
  <2> QED BY <1>3, <2>6, DoesStored
<1>4. ASSUME AddRefund PROVE StoredInv'
  <2> DEFINE e == [kind |-> "refund", prev |-> db.world.refund]
             w == [db.world EXCEPT !.refund = @ + 1]
  <2>1. /\ e \in Entry /\ e.kind \in {"refund", "log"} /\ w \in World
        /\ w.object = db.world.object
    BY <1>1, SMT DEF Entry, World
  <2>2. Does(Record(db, e, w)) BY <1>4 DEF AddRefund
  <2>3. Undo(e, w) = db.world
    <3>1. Undo(e, w) = [w EXCEPT !.refund = db.world.refund] BY DEF Undo
    <3>2. [w EXCEPT !.refund = db.world.refund] = db.world BY <1>1 DEF World
    <3> QED BY <3>1, <3>2
  <2> HIDE DEF e, w
  <2>4. Good(Record(db, e, w), db) BY <1>1, <2>1, <2>3, RecordGood
  <2> QED BY <1>3, <2>1, <2>2, <2>4
<1>5. ASSUME AddLog PROVE StoredInv'
  <2> DEFINE e == [kind |-> "log"]
             w == [db.world EXCEPT !.logs = @ + 1]
  <2>1. /\ e \in Entry /\ e.kind = "log" /\ w \in World /\ w.object = db.world.object
    BY <1>1, SMT DEF Entry, World
  <2>2. Does(Record(db, e, w)) BY <1>5 DEF AddLog
  <2>3. UndoAddLog(w) = db.world BY <1>1, UndoLogWorld
  <2> HIDE DEF e, w
  <2>4. Undo(e, w) = db.world BY <2>1, <2>3 DEF Undo
  <2>5. Good(Record(db, e, w), db) BY <1>1, <2>1, <2>4, RecordGood
  <2> QED BY <1>3, <2>1, <2>2, <2>5
<1>6. ASSUME NEW t \in Ticket, AddTicket(t) PROVE StoredInv'
  <2> DEFINE d == [db EXCEPT !.tickets = @ \cup {t}]
  <2>1. /\ d.world = db.world /\ d.journal = db.journal /\ d.hist = db.hist /\ d \in DB
    BY <1>1 DEF DB
  <2>2. Does(d) BY <1>6 DEF AddTicket
  <2> HIDE DEF d
  <2>3. Len(db.journal) \in Nat BY <1>1, SMT DEF DB
  <2>4. Good(d, db) BY <1>1, <2>1, <2>3, SMT DEF Good, ChainInv, Continues
  <2>5. Whole(db) BY <2>2, StoredIsWhole DEF Does
  <2>6. Whole(d) BY <2>1, <2>4, <2>5 DEF Whole, Good, Tracks, Settled, StoredAt
  <2> QED BY <2>2, <2>4, <2>6, DoesStored
<1> QED BY <1>2, <1>4, <1>5, <1>6

\* A snapshot is taken, and a revert begins and ends, in settled states.
LEMMA SnapshotStored ==
    ASSUME JournalInv, StoredInv
    PROVE  /\ Snapshot => StoredInv'
           /\ \A r \in 1 .. Len(revisions) : RevertToSnapshot(r) => StoredInv'
           /\ RevertDone => StoredInv'
<1>1. ASSUME Snapshot PROVE StoredInv'
  <2> DEFINE new == [journalIndex |-> Len(db.journal), world |-> db.world,
                     rows |-> db.rows, tickets |-> db.tickets]
             n == Len(revisions)
  <2>1. /\ revisions' = Append(revisions, new) /\ reverting = None
        /\ UNCHANGED <<db, reverting, stored, txs>>
    BY <1>1 DEF Snapshot
  <2>2. new.journalIndex = Len(db.journal) OBVIOUS
  <2> HIDE DEF new
  <2>3. /\ Len(revisions') = n + 1 /\ n \in Nat
        /\ revisions'[n + 1] = new /\ \A q \in 1 .. n : revisions'[q] = revisions[q]
    BY <2>1, SMT DEF JournalInv
  <2>4. ASSUME NEW q \in 1 .. n + 1 PROVE Settled(db, revisions'[q].journalIndex)
    <3>1. CASE q \in 1 .. n BY <2>3, <3>1 DEF StoredInv
    <3>2. CASE q = n + 1 BY <2>1, <2>2, <2>3, <3>2 DEF StoredInv
    <3> QED BY <2>3, <3>1, <3>2, SMT
  <2> QED BY <2>1, <2>3, <2>4 DEF StoredInv, Tracks, Settled, StoredAt
<1>2. ASSUME NEW r \in 1 .. Len(revisions), RevertToSnapshot(r) PROVE StoredInv'
  <2>1. /\ reverting' = revisions[r] /\ reverting = None
        /\ revisions' = SubSeq(revisions, 1, r - 1) /\ UNCHANGED <<db, stored, txs>>
    BY <1>2 DEF RevertToSnapshot
  <2>2. Len(revisions') = r - 1 /\ \A q \in 1 .. r - 1 : revisions'[q] = revisions[q]
    BY <2>1, SubSeqElements, SMT DEF JournalInv
  <2>3. \A q \in 1 .. Len(revisions) : Settled(db, revisions[q].journalIndex) BY DEF StoredInv
  <2>4. Settled(db, Len(db.journal)) BY <2>1 DEF StoredInv
  <2>5. Tracks(db)' BY <2>1 DEF StoredInv, Tracks, Settled, StoredAt
  <2>6. (\A q \in 1 .. Len(revisions) : Settled(db, revisions[q].journalIndex))'
    BY <2>1, <2>2, <2>3, SMT DEF Settled
  <2>7. Settled(db', IF reverting' = None THEN Len(db'.journal) ELSE reverting'.journalIndex)
    <3>1. CASE revisions[r] = None BY <2>1, <2>4, <3>1
    <3>2. CASE revisions[r] # None BY <2>1, <2>3, <3>2
    <3> QED BY <3>1, <3>2
  <2> QED BY <2>5, <2>6, <2>7 DEF StoredInv, Settled
<1>3. ASSUME RevertDone PROVE StoredInv'
  BY <1>3 DEF RevertDone, StoredInv, Tracks, Settled, StoredAt
<1> QED BY <1>1, <1>2, <1>3

\* Undoing goes back in a history that tracks the trie.
LEMMA UndoLastStored == ASSUME JournalInv, StoredInv, UndoLast PROVE StoredInv'
<1> DEFINE n == Len(db.journal)
           m == reverting.journalIndex
<1>1. /\ reverting # None /\ n > m
      /\ db'.journal = SubSeq(db.journal, 1, n - 1) /\ db'.hist = SubSeq(db.hist, 1, n)
      /\ UNCHANGED <<revisions, reverting, stored, txs>>
  BY DEF UndoLast, JournalInv, ChainInv, DB
<1>2. /\ db.journal \in Seq(Entry) /\ db.hist \in Seq(World) /\ Len(db.hist) = n + 1
      /\ n \in Nat /\ m \in Nat
  BY <1>1, SMT DEF JournalInv, ChainInv, DB, Revision
<1>3. /\ Len(db'.journal) = n - 1 /\ \A i \in 1 .. n - 1 : db'.journal[i] = db.journal[i]
  BY <1>1, <1>2, SubSeqElements, SMT
<1>4. \A i \in 1 .. n : db'.hist[i] = db.hist[i] BY <1>1, <1>2, SubSeqElements, SMT
<1>5. \A i \in 0 .. n - 1 : Settled(db, i) <=> Settled(db', i) BY <1>3, SMT DEF Settled
<1>6. ASSUME NEW i \in 0 .. n - 1, Settled(db', i) PROVE StoredAt(db, i)'
  <2>1. StoredAt(db, i) BY <1>2, <1>5, <1>6, SMT DEF StoredInv, Tracks
  <2>2. db'.hist[i + 1] = db.hist[i + 1] /\ \A j \in 1 .. i : db'.journal[j] = db.journal[j]
    BY <1>2, <1>3, <1>4, SMT
  <2> QED BY <1>1, <2>1, <2>2 DEF StoredAt
<1>7. Tracks(db)' BY <1>3, <1>6 DEF Tracks, Settled
<1>8. ASSUME NEW q \in 1 .. Len(revisions) PROVE Settled(db', revisions[q].journalIndex)
  <2>1. revisions[q].journalIndex \in Nat /\ revisions[q].journalIndex <= m
    BY <1>1, IndexNat DEF JournalInv, RevisionsNested
  <2>2. revisions[q].journalIndex \in 0 .. n - 1
    <3>1. n \in Nat /\ m \in Nat /\ n > m BY <1>1, <1>2
    <3> QED BY <2>1, <3>1, SMT
  <2> QED BY <1>5, <2>2 DEF StoredInv
<1>9. Settled(db', m)
  <2>1. m \in 0 .. n - 1 BY <1>1, <1>2, SMT
  <2> QED BY <1>1, <1>5, <2>1 DEF StoredInv
<1> QED BY <1>1, <1>7, <1>8, <1>9 DEF StoredInv, Settled

\* Finalise writes what is dirty; the rest is in the trie already.
LEMMA FinaliseStored == ASSUME JournalInv, StoredInv, Finalise PROVE StoredInv'
<1> DEFINE Gone(a) == a \in Dirties(db) /\ (Obj(db, a).suicided \/ IsEmpty(db, a))
           object == [a \in Address |-> IF Gone(a) THEN NoObject ELSE Obj(db, a)]
           rows == [a \in Address |-> IF Gone(a) THEN NoRows ELSE db.rows[a]]
           w == [object |-> object, refund |-> 0, logs |-> 0]
<1>1. /\ reverting = None /\ reverting' = None /\ revisions' = <<>>
      /\ stored' = [a \in Address |-> IF a \in Dirties(db) THEN object[a] ELSE stored[a]]
      /\ db' = NewJournal(w, rows, db.tickets)
  BY DEF Finalise
<1>2. ASSUME NEW a \in Address PROVE stored'[a] = object[a]
  <2>1. CASE a \in Dirties(db) BY <1>1, <2>1
  <2>2. CASE a \notin Dirties(db)
    <3>1. \A j \in 1 .. Len(db.journal) : a \notin Dirtied(db.journal[j]) BY <2>2 DEF Dirties
    <3>2. stored[a] = Obj(db, a) BY <1>1, <3>1, StoredIsWhole, WholeIsCurrent
    <3> QED BY <1>1, <2>2, <3>2
  <2> QED BY <2>1, <2>2
<1> HIDE DEF object, rows
<1>3. /\ db'.journal = <<>> /\ Len(db'.journal) = 0 /\ db'.hist = <<w>> /\ db'.hist[1] = w
      /\ w.object = object /\ Len(revisions') = 0
  BY <1>1 DEF NewJournal
<1>4. StoredAt(db, 0)' BY <1>2, <1>3, SMT DEF StoredAt
<1>5. Tracks(db)' BY <1>3, <1>4, SMT DEF Tracks
<1> QED BY <1>1, <1>3, <1>5, SMT DEF StoredInv, Settled

\* Every step keeps what the trie has.
LEMMA StoredInvStep == JournalInv /\ StoredInv /\ [Next]_vars => StoredInv'
<1> SUFFICES ASSUME JournalInv, StoredInv, [Next]_vars PROVE StoredInv'
  OBVIOUS
<1>0. SystemAssetID \in AssetID /\ 0 \in Value BY JournalAssumption
<1>1. ASSUME NEW a \in Address, NEW s \in AssetID, NEW v \in Value,
             ChangeBalance(a, s, v) \/ ChangeTimeLock(a, s, v)
      PROVE  StoredInv'
  BY <1>1, ChangeStored
<1>2. ASSUME NEW a \in Address, AddNothing(a) \/ CreateContract(a) PROVE StoredInv'
  BY <1>0, <1>2, ChangeStored, ContractStored
<1>3. ASSUME NEW a \in Address, NEW c \in Cell, NEW v \in Value, ChangeCell(a, c, v)
      PROVE  StoredInv'
  BY <1>0, <1>3, ChangeStored
<1>4. ASSUME NEW a \in Address, NEW s \in AssetID, ReadBalance(a, s) \/ ReadTimeLock(a, s)
      PROVE  StoredInv'
  BY <1>4, OtherStored
<1>5. ASSUME NEW a \in Address, NEW to \in Address, SelfDestruct(a, to) PROVE StoredInv'
  BY <1>5, SelfDestructStored
<1>6. CASE AddRefund \/ AddLog BY <1>6, OtherStored
<1>7. CASE Snapshot \/ RevertDone BY <1>7, SnapshotStored
<1>8. CASE UndoLast BY <1>8, UndoLastStored
<1>9. CASE Finalise BY <1>9, FinaliseStored
<1>10. ASSUME NEW t \in Ticket, AddTicket(t) PROVE StoredInv' BY <1>10, OtherStored
<1>11. ASSUME NEW r \in 1 .. Len(revisions), RevertToSnapshot(r) PROVE StoredInv'
  BY <1>11, SnapshotStored
<1>12. CASE UNCHANGED vars BY <1>12 DEF vars, StoredInv, Tracks, Settled, StoredAt
<1> QED
  BY <1>1, <1>2, <1>3, <1>4, <1>5, <1>6, <1>7, <1>8, <1>9, <1>10, <1>11, <1>12 DEF Next

-----------------------------------------------------------------------------
(* The theorems *)

\* StateDB is well-formed after every operation: accounts, rows, journal
\* entries, snapshots and the trie hold what their types say.
THEOREM JournalTypeCorrect == Spec => []TypeOK
<1>1. JournalInv => TypeOK
  <2> SUFFICES ASSUME JournalInv PROVE TypeOK
    OBVIOUS
  <2>1. db \in DB /\ Len(db.hist) = Len(db.journal) + 1 BY DEF JournalInv, ChainInv
  <2>2. \A r \in 1 .. Len(revisions) : revisions[r] \in Revision BY IndexNat
  <2> QED BY <2>1, <2>2 DEF JournalInv, TypeOK, DB
<1> QED BY <1>1, JournalInvHolds, PTL

\* Snapshots stay a stack over the journal (validRevisions, RevertToSnapshot).
THEOREM SnapshotsNest == Spec => []RevisionsNested
<1>1. JournalInv => RevisionsNested BY DEF JournalInv
<1> QED BY <1>1, JournalInvHolds, PTL

\* RevertToSnapshot restores what the journal covers, after any sequence of
\* operations and nested reverts.
THEOREM RevertIsExact == Spec => RevertRestores
<1>1. ASSUME JournalInv, [Next]_vars, reverting # None, reverting' = None
      PROVE  db'.world = reverting.world
  <2>1. RevertDone
    BY <1>1 DEF Next, vars, ChangeBalance, ChangeTimeLock, AddNothing, CreateContract,
      ChangeCell, ReadBalance, ReadTimeLock, SelfDestruct, AddRefund, AddLog, Does, Snapshot,
      UndoLast, Finalise, AddTicket, RevertToSnapshot
  <2>2. db' = db /\ Len(db.journal) = reverting.journalIndex BY <2>1 DEF RevertDone
  <2>3. Marks(reverting, db) /\ ChainInv(db) BY <1>1 DEF JournalInv
  <2> QED BY <2>2, <2>3 DEF Marks, ChainInv
<1>2. JournalInv /\ [Next]_vars
         => [reverting # None /\ reverting' = None => db'.world = reverting.world]_vars
  BY <1>1
<1> QED BY <1>2, JournalInvHolds, PTL DEF Spec, RevertRestores

\* What the trie lacks is marked dirty, after any operations and reverts
\* (journal.dirties, Finalise).
THEOREM StoredAlways == Spec => []StoredIsCurrent
<1>1. JournalInv /\ StoredInv => StoredIsCurrent
  <2> SUFFICES ASSUME JournalInv, StoredInv, reverting = None,
                      NEW a \in Address \ Dirties(db)
               PROVE  stored[a] = Obj(db, a)
    BY DEF StoredIsCurrent
  <2>1. \A j \in 1 .. Len(db.journal) : a \notin Dirtied(db.journal[j]) BY DEF Dirties
  <2> QED BY <2>1, StoredIsWhole, WholeIsCurrent
<1> QED BY <1>1, StoredInvInit, StoredInvStep, JournalInvHolds, PTL DEF Spec

-----------------------------------------------------------------------------
(* The fetcher *)


LEMMA FetchingAssumed ==
    IsFiniteSet(Hash) /\ NoPeer \notin Announcer /\ blockLimit \in Nat
  BY FetcherAssumption

Fields == {"announces", "announced", "fetching", "fetched", "completing", "queue", "queues", "queued"}

\* The hashes that are queued for a peer.
QueuedFor(f, p) == {h \in Hash : f.queued[h] = p}

\* The maps of a Fetcher.
IsFetcher(f) ==
    /\ f = [x \in Fields |-> f[x]]
    /\ f.announced = [h \in Hash |-> f.announced[h]]
    /\ f.fetched = [h \in Hash |-> f.fetched[h]]
    /\ f.queue \in [Hash -> Nat]
    /\ f.queues \in [Announcer -> Nat]
    /\ f.queued \in [Hash -> Announcer \cup {NoPeer}]
    /\ \A p \in Announcer : f.queues[p] = Cardinality(QueuedFor(f, p)) /\ f.queues[p] <= blockLimit

\* Where the blocks are, with i goroutines that import and d that report.
EachOnce(f, i, d) ==
    /\ IsFetcher(f)
    /\ i \in [Hash -> Nat] /\ d \in [Hash -> Nat]
    /\ \A h \in Hash : f.queue[h] + i[h] + d[h] = IF f.queued[h] = NoPeer THEN 0 ELSE 1

\* What waits for a timer is at most what waited before.
NotMore(f, g) ==
    \A h \in Hash : /\ f.announced[h] # <<>> => g.announced[h] # <<>>
                    /\ f.fetched[h] # <<>> => g.fetched[h] # <<>>

\* forgetHash touches neither the queue nor the blocks in it.
LEMMA ForgetHashKeeps ==
    ASSUME NEW f, IsFetcher(f), NEW H
    PROVE  LET g == forgetHash(f, H)
           IN  /\ IsFetcher(g) /\ NotMore(g, f)
               /\ g.queue = f.queue /\ g.queues = f.queues /\ g.queued = f.queued
               /\ \A h \in Hash \cap H : g.announced[h] = <<>> /\ g.fetched[h] = <<>>
  <1> DEFINE g == forgetHash(f, H)
  <1>0. f = [x \in Fields |-> f[x]]  BY DEF IsFetcher
  <1>1. g = [x \in Fields |-> g[x]]
    BY <1>0 DEF forgetHash
  <1>2. g.queue = f.queue /\ g.queues = f.queues /\ g.queued = f.queued
    BY <1>0, SMT DEF forgetHash, Fields
  <1>3. g.announced = [h \in Hash |-> IF h \in H THEN <<>> ELSE f.announced[h]]
    BY <1>0, SMT DEF forgetHash, Fields
  <1>4. g.fetched = [h \in Hash |-> IF h \in H THEN <<>> ELSE f.fetched[h]]
    BY <1>0, SMT DEF forgetHash, Fields
  <1> HIDE DEF g
  <1>5. g.announced = [h \in Hash |-> g.announced[h]] /\ g.fetched = [h \in Hash |-> g.fetched[h]]
    BY <1>3, <1>4
  <1>6. IsFetcher(g)
    <2>1. \A p : QueuedFor(g, p) = QueuedFor(f, p)  BY <1>2 DEF QueuedFor
    <2> QED  BY <1>1, <1>2, <1>5, <2>1 DEF IsFetcher
  <1>7. NotMore(g, f)  BY <1>3, <1>4, SMT DEF NotMore
  <1>8. \A h \in Hash \cap H : g.announced[h] = <<>> /\ g.fetched[h] = <<>>  BY <1>3, <1>4
  <1> QED  BY <1>2, <1>6, <1>7, <1>8 DEF g

\* forgetBlock takes its hashes out of the set of queued ones, and of the counts.
LEMMA ForgetBlockKeeps ==
    ASSUME NEW f, IsFetcher(f), NEW H \in SUBSET Hash
    PROVE  LET g == forgetBlock(f, H)
           IN  /\ IsFetcher(g)
               /\ g.announced = f.announced /\ g.fetched = f.fetched /\ g.queue = f.queue
               /\ g.queued = [h \in Hash |-> IF h \in H THEN NoPeer ELSE f.queued[h]]
  <1> DEFINE g == forgetBlock(f, H)
             Of(p) == {h \in H : f.queued[h] = p}
  <1>0. f = [x \in Fields |-> f[x]]  BY DEF IsFetcher
  <1>1. g = [x \in Fields |-> g[x]]
    BY <1>0 DEF forgetBlock
  <1>2. g.queue = f.queue /\ g.announced = f.announced /\ g.fetched = f.fetched
    BY <1>0, SMT DEF forgetBlock, Fields
  <1>3. g.queued = [h \in Hash |-> IF h \in H THEN NoPeer ELSE f.queued[h]]
    BY <1>0, SMT DEF forgetBlock, Fields
  <1>4. g.queues = [p \in Announcer |-> f.queues[p] - Cardinality(Of(p))]
    BY <1>0, SMT DEF forgetBlock, Fields
  <1> HIDE DEF g
  <1>5. ASSUME NEW p \in Announcer
        PROVE  /\ g.queues[p] = Cardinality(QueuedFor(g, p)) /\ g.queues[p] \in Nat
               /\ g.queues[p] <= blockLimit
    <2>1. p # NoPeer  BY FetchingAssumed
    <2>2. QueuedFor(g, p) = QueuedFor(f, p) \ Of(p)
      BY <1>3, <2>1 DEF QueuedFor
    <2>3. Of(p) \subseteq QueuedFor(f, p)  BY DEF QueuedFor
    <2>4. IsFiniteSet(QueuedFor(f, p))  BY FetchingAssumed, FS_Subset DEF QueuedFor
    <2> DEFINE A == QueuedFor(f, p)  C == Of(p)
    <2>5. IsFiniteSet(C) /\ IsFiniteSet(A \ C)  BY <2>3, <2>4, FS_Subset, FS_Difference
    <2>6. A \cap C = C  BY <2>3
    <2> HIDE DEF A, C
    <2>7. Cardinality(A \ C) = Cardinality(A) - Cardinality(C)
      BY <2>4, <2>6, FS_Difference, ZenonT(40) DEF A
    <2>8. Cardinality(A) \in Nat /\ Cardinality(C) \in Nat /\ Cardinality(A \ C) \in Nat
      BY <2>4, <2>5, FS_CardinalityType DEF A
    <2>9. g.queues[p] = f.queues[p] - Cardinality(C)  BY <1>4 DEF C
    <2>10. f.queues[p] = Cardinality(A) /\ f.queues[p] <= blockLimit  BY DEF A, IsFetcher
    <2>11. g.queues[p] = Cardinality(A \ C)  BY <2>7, <2>9, <2>10
    <2>12. g.queues[p] <= blockLimit  BY <2>8, <2>9, <2>10, FetchingAssumed, SMT
    <2> QED  BY <2>2, <2>8, <2>11, <2>12 DEF A, C
  <1>6. g.queues \in [Announcer -> Nat]  BY <1>4, <1>5
  <1>7. g.queued \in [Hash -> Announcer \cup {NoPeer}]  BY <1>3 DEF IsFetcher
  <1>8. IsFetcher(g)  BY <1>1, <1>2, <1>5, <1>6, <1>7 DEF IsFetcher
  <1> QED  BY <1>2, <1>3, <1>8 DEF g

\* Blocks that the limit leaves room for are queued, unless they are already.
LEMMA EnqueueKeeps ==
    ASSUME NEW f, NEW p \in Announcer, NEW S \in SUBSET Hash, NEW i, NEW d, EachOnce(f, i, d),
           S # {} => f.queues[p] + Cardinality(S) <= blockLimit
    PROVE  LET g == enqueue(f, p, S)
           IN  EachOnce(g, i, d) /\ g.announced = f.announced /\ g.fetched = f.fetched
  <1> DEFINE g == enqueue(f, p, S)
             new == {h \in S : f.queued[h] = NoPeer}
             n == Cardinality(new)
  <1>0. IsFetcher(f) /\ f = [x \in Fields |-> f[x]]  BY DEF EachOnce, IsFetcher
  <1>1. g = [x \in Fields |-> g[x]]
    BY <1>0 DEF enqueue
  <1>2. g.announced = f.announced /\ g.fetched = f.fetched
    BY <1>0, SMT DEF enqueue, Fields
  <1>3. g.queued = [h \in Hash |-> IF h \in new THEN p ELSE f.queued[h]]
    BY <1>0, SMT DEF enqueue, Fields
  <1>4. g.queue = [h \in Hash |-> IF h \in new THEN f.queue[h] + 1 ELSE f.queue[h]]
    BY <1>0, SMT DEF enqueue, Fields
  <1>5. g.queues = [f.queues EXCEPT ![p] = @ + n]
    <2>1. g.queues = [f.queues EXCEPT ![p] = @ + Cardinality(new)]
      BY <1>0, SMT DEF enqueue, Fields
    <2> QED  BY <2>1
  <1>6. /\ IsFiniteSet(new) /\ n \in Nat /\ new \in SUBSET Hash
        /\ f.queues[p] + n <= blockLimit
    <2>1. IsFiniteSet(S)  BY FetchingAssumed, FS_Subset
    <2>2. IsFiniteSet(new) /\ Cardinality(new) <= Cardinality(S)  BY <2>1, FS_Subset
    <2>3. n \in Nat /\ Cardinality(S) \in Nat  BY <2>1, <2>2, FS_CardinalityType
    <2>4. new \in SUBSET Hash  OBVIOUS
    <2>5. CASE S # {}
      <3>1. f.queues[p] \in Nat  BY <1>0 DEF IsFetcher
      <3> HIDE DEF new
      <3> QED  BY <2>2, <2>3, <2>4, <2>5, <3>1, FetchingAssumed, SMT
    <2>6. CASE S = {}
      <3>1. new = {} /\ f.queues[p] \in Nat /\ f.queues[p] <= blockLimit  BY <1>0, <2>6 DEF IsFetcher
      <3>2. n = 0  BY <3>1, FS_EmptySet
      <3> QED  BY <2>2, <2>4, <3>1, <3>2, SMT
    <2> QED  BY <2>5, <2>6
  <1> HIDE DEF g
  <1>7. ASSUME NEW q \in Announcer
        PROVE  /\ g.queues[q] = Cardinality(QueuedFor(g, q)) /\ g.queues[q] \in Nat
               /\ g.queues[q] <= blockLimit
    <2>1. q # NoPeer  BY FetchingAssumed
    <2>2. f.queues[q] = Cardinality(QueuedFor(f, q)) /\ f.queues[q] \in Nat /\ f.queues[q] <= blockLimit
          /\ DOMAIN f.queues = Announcer
      BY <1>0 DEF IsFetcher
    <2>3. CASE q # p
      <3>1. QueuedFor(g, q) = QueuedFor(f, q)  BY <1>3, <2>1, <2>3 DEF QueuedFor
      <3>2. g.queues[q] = f.queues[q]  BY <1>5, <2>2, <2>3
      <3> QED  BY <2>2, <3>1, <3>2
    <2>4. CASE q = p
      <3> DEFINE A == QueuedFor(f, p)
      <3>1. QueuedFor(g, q) = A \cup new  BY <1>3, <2>4 DEF QueuedFor
      <3>2. A \cap new = {}  BY <2>1, <2>4 DEF QueuedFor
      <3>3. IsFiniteSet(A)  BY FetchingAssumed, FS_Subset DEF QueuedFor
      <3> HIDE DEF A, new
      <3>4. Cardinality(A \cup new) = Cardinality(A) + n /\ Cardinality(A) \in Nat
        <4>1. Cardinality(A \cup new) = Cardinality(A) + Cardinality(new) - Cardinality(A \cap new)
          BY <1>6, <3>3, FS_Union
        <4>2. Cardinality(A \cap new) = 0  BY <3>2, FS_EmptySet
        <4>3. Cardinality(A) \in Nat  BY <3>3, FS_CardinalityType
        <4> QED  BY <1>6, <4>1, <4>2, <4>3, SMT
      <3>5. g.queues[q] = f.queues[p] + n  BY <1>5, <2>2, <2>4
      <3>6. f.queues[p] = Cardinality(A)  BY <2>2, <2>4 DEF A
      <3>7. g.queues[q] = Cardinality(QueuedFor(g, q))  BY <3>1, <3>4, <3>5, <3>6
      <3> HIDE DEF n
      <3> QED  BY <1>6, <2>2, <2>4, <3>5, <3>7, SMT
    <2> QED  BY <2>3, <2>4
  <1>8. g.queues \in [Announcer -> Nat]
    <2>1. g.queues = [q \in Announcer |-> g.queues[q]]  BY <1>0, <1>5 DEF IsFetcher
    <2> QED  BY <1>7, <2>1
  <1>9. g.queued \in [Hash -> Announcer \cup {NoPeer}] /\ g.queue \in [Hash -> Nat]
    <2>1. g.queued \in [Hash -> Announcer \cup {NoPeer}]  BY <1>0, <1>3, ZenonT(40) DEF IsFetcher
    <2>2. g.queue \in [Hash -> Nat]  BY <1>0, <1>4, SMT DEF IsFetcher
    <2> QED  BY <2>1, <2>2
  <1>10. IsFetcher(g)  BY <1>0, <1>1, <1>2, <1>7, <1>8, <1>9 DEF IsFetcher
  <1>11. ASSUME NEW h \in Hash
         PROVE  g.queue[h] + i[h] + d[h] = IF g.queued[h] = NoPeer THEN 0 ELSE 1
    <2>1. f.queue[h] + i[h] + d[h] = IF f.queued[h] = NoPeer THEN 0 ELSE 1  BY DEF EachOnce
    <2>2. f.queue[h] \in Nat /\ i[h] \in Nat /\ d[h] \in Nat  BY <1>0 DEF EachOnce, IsFetcher
    <2>3. p # NoPeer  BY FetchingAssumed
    <2>4. CASE h \in new
      <3>1. f.queued[h] = NoPeer /\ g.queued[h] = p /\ g.queue[h] = f.queue[h] + 1  BY <1>3, <1>4, <2>4
      <3> QED  BY <2>1, <2>2, <2>3, <3>1, SMT
    <2>5. CASE h \notin new
      <3>1. g.queued[h] = f.queued[h] /\ g.queue[h] = f.queue[h]  BY <1>3, <1>4, <2>5
      <3> QED  BY <2>1, <3>1
    <2> QED  BY <2>4, <2>5
  <1>12. EachOnce(g, i, d)  BY <1>10, <1>11 DEF EachOnce
  <1> QED  BY <1>2, <1>12 DEF g

\* What the loop does before it waits moves blocks from the queue to goroutines.
LEMMA TurnKeeps ==
    ASSUME NEW f, NEW d, EachOnce(f, importing, d), Turn(f)
    PROVE  EachOnce(fetcher', importing', d) /\ NotMore(fetcher', f)
  <1>1. PICK expired \in SUBSET {h \in Hash : f.fetching[h] # NoPeer} :
          LET g == forgetHash(f, expired)
              ready == {h \in Hash : g.queue[h] > 0 /\ Number[h] <= chainHeight + 1}
              stale == {h \in ready : Number[h] + maxUncleDist < chainHeight \/ h \in known}
          IN  /\ fetcher' = [forgetBlock(g, stale) EXCEPT
                               !.queue = [h \in Hash |-> IF h \in ready THEN 0 ELSE @[h]]]
              /\ importing' = [h \in Hash |-> importing[h]
                                              + (IF h \in ready \ stale THEN g.queue[h] ELSE 0)]
    BY DEF Turn
  <1> DEFINE g == forgetHash(f, expired)
             ready == {h \in Hash : g.queue[h] > 0 /\ Number[h] <= chainHeight + 1}
             stale == {h \in ready : Number[h] + maxUncleDist < chainHeight \/ h \in known}
             e == forgetBlock(g, stale)
  <1>2. IsFetcher(f)  BY DEF EachOnce
  <1>3. IsFetcher(g) /\ NotMore(g, f) /\ g.queue = f.queue /\ g.queued = f.queued
    BY <1>2, ForgetHashKeeps
  <1>4. \A h \in ready : g.queue[h] > 0  OBVIOUS
  <1>5. ready \in SUBSET Hash /\ stale \in SUBSET ready  OBVIOUS
  <1>6. fetcher' = [e EXCEPT !.queue = [h \in Hash |-> IF h \in ready THEN 0 ELSE @[h]]]  BY <1>1
  <1>7. importing' = [h \in Hash |-> importing[h] + (IF h \in ready \ stale THEN g.queue[h] ELSE 0)]
    BY <1>1
  <1> HIDE DEF g, ready, stale
  <1>8. /\ IsFetcher(e) /\ e.announced = g.announced /\ e.fetched = g.fetched /\ e.queue = g.queue
        /\ e.queued = [h \in Hash |-> IF h \in stale THEN NoPeer ELSE g.queued[h]]
    <2>1. stale \in SUBSET Hash  BY <1>5
    <2>2. IsFetcher(g)  BY <1>3
    <2> QED  BY <2>1, <2>2, ForgetBlockKeeps, SMT
  <1> HIDE DEF e
  <1>9. e = [x \in Fields |-> e[x]]  BY <1>8 DEF IsFetcher
  <1>10. fetcher' = [x \in Fields |-> fetcher'[x]]  BY <1>6, <1>9
  <1>11. /\ fetcher'.announced = e.announced /\ fetcher'.fetched = e.fetched
         /\ fetcher'.queues = e.queues /\ fetcher'.queued = e.queued
    BY <1>6, <1>9, SMT DEF Fields
  <1>12. fetcher'.queue = [h \in Hash |-> IF h \in ready THEN 0 ELSE e.queue[h]]
    BY <1>6, <1>9, SMT DEF Fields
  <1>13. NotMore(fetcher', f)  BY <1>3, <1>8, <1>11, ZenonT(40) DEF NotMore
  <1>14. IsFetcher(fetcher')
    <2>1. \A p : QueuedFor(fetcher', p) = QueuedFor(e, p)  BY <1>11 DEF QueuedFor
    <2>2. fetcher'.queue \in [Hash -> Nat]  BY <1>8, <1>12, SMT DEF IsFetcher
    <2> QED  BY <1>8, <1>10, <1>11, <2>1, <2>2 DEF IsFetcher
  <1>15. ASSUME NEW h \in Hash
         PROVE  /\ importing'[h] \in Nat
                /\ fetcher'.queue[h] + importing'[h] + d[h] = IF fetcher'.queued[h] = NoPeer THEN 0 ELSE 1
    <2>1. f.queue[h] + importing[h] + d[h] = IF f.queued[h] = NoPeer THEN 0 ELSE 1  BY DEF EachOnce
    <2>2. f.queue[h] \in Nat /\ importing[h] \in Nat /\ d[h] \in Nat  BY <1>2 DEF EachOnce, IsFetcher
    <2>0. /\ fetcher'.queue[h] = IF h \in ready THEN 0 ELSE f.queue[h]
          /\ fetcher'.queued[h] = IF h \in stale THEN NoPeer ELSE f.queued[h]
          /\ importing'[h] = importing[h] + (IF h \in ready \ stale THEN f.queue[h] ELSE 0)
      <3>1. fetcher'.queue[h] = IF h \in ready THEN 0 ELSE e.queue[h]  BY <1>12
      <3>2. fetcher'.queued[h] = IF h \in stale THEN NoPeer ELSE g.queued[h]  BY <1>8, <1>11
      <3>3. importing'[h] = importing[h] + (IF h \in ready \ stale THEN g.queue[h] ELSE 0)  BY <1>7
      <3>4. e.queue = f.queue /\ g.queue = f.queue /\ g.queued = f.queued  BY <1>3, <1>8
      <3> QED  BY <3>1, <3>2, <3>3, <3>4
    <2>3. CASE h \notin ready
      <3>1. h \notin stale  BY <1>5, <2>3
      <3>2. fetcher'.queue[h] = f.queue[h] /\ fetcher'.queued[h] = f.queued[h]
            /\ importing'[h] = importing[h] + 0
        BY <2>0, <2>3, <3>1
      <3> QED  BY <2>1, <2>2, <3>2, SMT
    <2>4. CASE h \in stale
      <3>1. h \in ready /\ f.queue[h] > 0 /\ fetcher'.queue[h] = 0 /\ fetcher'.queued[h] = NoPeer
            /\ importing'[h] = importing[h] + 0
        BY <1>3, <1>4, <1>5, <2>0, <2>4
      <3> QED  BY <2>1, <2>2, <3>1, SMT
    <2>5. CASE h \in ready \ stale
      <3>1. fetcher'.queue[h] = 0 /\ fetcher'.queued[h] = f.queued[h]
            /\ importing'[h] = importing[h] + f.queue[h]
        BY <2>0, <2>5
      <3> QED  BY <2>1, <2>2, <3>1, SMT
    <2> QED  BY <2>3, <2>4, <2>5
  <1>16. importing' \in [Hash -> Nat]
    <2>1. importing' = [h \in Hash |-> importing'[h]]  BY <1>7
    <2> QED  BY <1>15, <2>1
  <1>17. d \in [Hash -> Nat]  BY DEF EachOnce
  <1>18. EachOnce(fetcher', importing', d)  BY <1>14, <1>15, <1>16, <1>17 DEF EachOnce
  <1> QED  BY <1>13, <1>18

\* Announcements come and go without the queue.
LEMMA SameQueue ==
    ASSUME NEW f, NEW g, NEW i, NEW d, EachOnce(f, i, d), g = [x \in Fields |-> g[x]],
           g.queue = f.queue /\ g.queues = f.queues /\ g.queued = f.queued,
           g.announced = [h \in Hash |-> g.announced[h]], g.fetched = [h \in Hash |-> g.fetched[h]]
    PROVE  EachOnce(g, i, d)
  <1>1. IsFetcher(f)  BY DEF EachOnce
  <1>2. \A p : QueuedFor(g, p) = QueuedFor(f, p)  BY DEF QueuedFor
  <1>3. IsFetcher(g)  BY <1>1, <1>2 DEF IsFetcher
  <1> QED  BY <1>3 DEF EachOnce

LEMMA ForgetHashOnce ==
    ASSUME NEW f, NEW i, NEW d, EachOnce(f, i, d), NEW H
    PROVE  EachOnce(forgetHash(f, H), i, d)
  <1> DEFINE g == forgetHash(f, H)
  <1>1. IsFetcher(f)  BY DEF EachOnce
  <1>2. IsFetcher(g) /\ g.queue = f.queue /\ g.queues = f.queues /\ g.queued = f.queued
    BY <1>1, ForgetHashKeeps
  <1> HIDE DEF g
  <1>3. g = [x \in Fields |-> g[x]] /\ g.announced = [h \in Hash |-> g.announced[h]]
        /\ g.fetched = [h \in Hash |-> g.fetched[h]]
    BY <1>2 DEF IsFetcher
  <1>4. EachOnce(g, i, d)  BY <1>2, <1>3, SameQueue
  <1> QED  BY <1>4 DEF g

LEMMA NotMoreTwice ==
    ASSUME NEW e, NEW f, NEW g, NotMore(e, f), NotMore(f, g)
    PROVE  NotMore(e, g)
  BY DEF NotMore

LEMMA EnqueueTurnKeeps ==
    ASSUME NEW f, NEW d, EachOnce(f, importing, d), NEW p \in Announcer, NEW H \in SUBSET Hash,
           EnqueueTurn(f, p, H)
    PROVE  EachOnce(fetcher', importing', d) /\ NotMore(fetcher', f)
  <1>1. PICK S \in Admissible(f, p, H) :
               Turn(enqueue(forgetHash(f, H \ S), p, S))
    BY DEF EnqueueTurn
  <1>2. S \in SUBSET Hash /\ (S # {} => f.queues[p] + Cardinality(S) <= blockLimit)
    BY <1>1 DEF Admissible
  <1>3. PICK g : g = forgetHash(f, H \ S)  OBVIOUS
  <1>4. EachOnce(g, importing, d)  BY <1>3, ForgetHashOnce
  <1>5. NotMore(g, f) /\ g.queues = f.queues
    <2>1. IsFetcher(f)  BY DEF EachOnce
    <2> QED  BY <1>3, <2>1, ForgetHashKeeps
  <1>6. PICK e : e = enqueue(g, p, S)  OBVIOUS
  <1>7. EachOnce(e, importing, d) /\ e.announced = g.announced /\ e.fetched = g.fetched
    <2>1. S # {} => g.queues[p] + Cardinality(S) <= blockLimit  BY <1>2, <1>5
    <2> QED  BY <1>2, <1>4, <1>6, <2>1, EnqueueKeeps
  <1>8. Turn(e)  BY <1>1, <1>3, <1>6
  <1>9. EachOnce(fetcher', importing', d) /\ NotMore(fetcher', e)  BY <1>7, <1>8, TurnKeeps
  <1>10. NotMore(e, f)  BY <1>5, <1>7 DEF NotMore
  <1> QED  BY <1>9, <1>10, NotMoreTwice

\* The inductive invariant.
FetcherInv == EachOnce(fetcher, importing, done) /\ TimersArmed

AnyAnnounced(f) == \E h \in Hash : f.announced[h] # <<>>
AnyFetched(f) == \E h \in Hash : f.fetched[h] # <<>>

LEMMA TimersArmedIs ==
    TimersArmed <=> (AnyAnnounced(fetcher) => fetchTimer) /\ (AnyFetched(fetcher) => completeTimer)
  BY DEF TimersArmed, Announced, AnyAnnounced, AnyFetched

LEMMA NotMoreAny ==
    ASSUME NEW f, NEW g, NotMore(f, g)
    PROVE  (AnyAnnounced(f) => AnyAnnounced(g)) /\ (AnyFetched(f) => AnyFetched(g))
  BY DEF NotMore, AnyAnnounced, AnyFetched

\* A step after which no more waits than in f, which its timers serve.
LEMMA StepKeeps ==
    ASSUME NEW f, EachOnce(fetcher', importing', done'), NotMore(fetcher', f),
           AnyAnnounced(f) => fetchTimer', AnyFetched(f) => completeTimer'
    PROVE  FetcherInv'
  <1>1. (AnyAnnounced(fetcher') => fetchTimer') /\ (AnyFetched(fetcher') => completeTimer')
    BY NotMoreAny
  <1>2. TimersArmed'
    BY <1>1 DEF TimersArmed, Announced, AnyAnnounced, AnyFetched
  <1> QED  BY <1>2 DEF FetcherInv

LEMMA InitFetcher == FetcherInit => FetcherInv
  <1> SUFFICES ASSUME FetcherInit PROVE FetcherInv  OBVIOUS
  <1>1. /\ fetcher.announced = [h \in Hash |-> <<>>] /\ fetcher.fetched = [h \in Hash |-> <<>>]
        /\ fetcher.queue = [h \in Hash |-> 0] /\ fetcher.queues = [p \in Announcer |-> 0]
        /\ fetcher.queued = [h \in Hash |-> NoPeer]
    BY DEF FetcherInit
  <1>2. fetcher = [x \in Fields |-> fetcher[x]]  BY DEF FetcherInit, Fields
  <1>3. importing = [h \in Hash |-> 0] /\ done = [h \in Hash |-> 0]  BY DEF FetcherInit
  <1>4. \A p \in Announcer : QueuedFor(fetcher, p) = {}  BY <1>1, FetchingAssumed DEF QueuedFor
  <1>5. Cardinality({}) = 0  BY FS_EmptySet
  <1>6. \A p \in Announcer :
          fetcher.queues[p] = Cardinality(QueuedFor(fetcher, p)) /\ fetcher.queues[p] <= blockLimit
    <2>1. 0 <= blockLimit  BY FetchingAssumed, SMT
    <2> QED  BY <1>1, <1>4, <1>5, <2>1
  <1>7. fetcher.queue \in [Hash -> Nat] /\ fetcher.queues \in [Announcer -> Nat]
        /\ importing \in [Hash -> Nat] /\ done \in [Hash -> Nat]
    BY <1>1, <1>3, SMT
  <1>8. IsFetcher(fetcher)  BY <1>1, <1>2, <1>6, <1>7 DEF IsFetcher
  <1>9. \A h \in Hash : fetcher.queue[h] + importing[h] + done[h] = 0 /\ fetcher.queued[h] = NoPeer
    BY <1>1, <1>3, SMT
  <1>10. EachOnce(fetcher, importing, done)  BY <1>7, <1>8, <1>9 DEF EachOnce
  <1>11. TimersArmed  BY DEF FetcherInit, TimersArmed
  <1> QED  BY <1>10, <1>11 DEF FetcherInv

LEMMA NextFetcher == FetcherInv /\ [FetcherNext]_fetcherVars => FetcherInv'
  <1> SUFFICES ASSUME FetcherInv, [FetcherNext]_fetcherVars PROVE FetcherInv'  OBVIOUS
  <1>1. /\ EachOnce(fetcher, importing, done) /\ IsFetcher(fetcher)
        /\ AnyAnnounced(fetcher) => fetchTimer
        /\ AnyFetched(fetcher) => completeTimer
    BY TimersArmedIs DEF FetcherInv, EachOnce
  <1>2. fetcher = [x \in Fields |-> fetcher[x]]  BY <1>1 DEF IsFetcher
  <1>3. ASSUME NEW p \in Announcer, NEW h \in Hash, NEW n \in {0, Number[h]}, Notify(p, h, n)
        PROVE  FetcherInv'
    <2> DEFINE ann == [origin |-> p, number |-> n, header |-> FALSE]
               f == [fetcher EXCEPT !.announces[p] = @ + 1, !.announced[h] = Append(@, ann)]
    <2>1. completeTimer' = completeTimer /\ done' = done  BY <1>3 DEF Notify
    <2>2. CASE Turn(fetcher) /\ (fetchTimer => fetchTimer')
      <3>1. EachOnce(fetcher', importing', done) /\ NotMore(fetcher', fetcher)  BY <1>1, <2>2, TurnKeeps
      <3> QED  BY <1>1, <2>1, <2>2, <3>1, StepKeeps
    <2>3. CASE /\ Turn(f) /\ (fetchTimer => fetchTimer')
               /\ (\A g \in Hash \ {h} : f.announced[g] = <<>>) => fetchTimer'
      <3>1. f = [x \in Fields |-> f[x]]  BY <1>2
      <3>2. f.queue = fetcher.queue /\ f.queues = fetcher.queues /\ f.queued = fetcher.queued
            /\ f.fetched = fetcher.fetched
        BY <1>2, SMT DEF Fields
      <3>3. f.announced = [fetcher.announced EXCEPT ![h] = Append(@, ann)]  BY <1>2, SMT DEF Fields
      <3> HIDE DEF f
      <3>4. f.announced = [g \in Hash |-> f.announced[g]] /\ f.fetched = [g \in Hash |-> f.fetched[g]]
            /\ \A g \in Hash \ {h} : f.announced[g] = fetcher.announced[g]
        BY <1>1, <3>2, <3>3 DEF IsFetcher
      <3>5. EachOnce(f, importing, done)  BY <1>1, <3>1, <3>2, <3>4, SameQueue
      <3>6. EachOnce(fetcher', importing', done) /\ NotMore(fetcher', f)  BY <2>3, <3>5, TurnKeeps
      <3>7. AnyAnnounced(f) => fetchTimer'
        <4>1. CASE \A g \in Hash \ {h} : f.announced[g] = <<>>  BY <2>3, <4>1
        <4>2. CASE \E g \in Hash \ {h} : f.announced[g] # <<>>
          <5>1. AnyAnnounced(fetcher)  BY <3>4, <4>2 DEF AnyAnnounced
          <5> QED  BY <1>1, <2>3, <5>1
        <4> QED  BY <4>1, <4>2
      <3>8. AnyFetched(f) => completeTimer'  BY <1>1, <2>1, <3>2 DEF AnyFetched
      <3> QED  BY <2>1, <3>6, <3>7, <3>8, StepKeeps
    <2>4. PICK accepted : /\ Turn(IF accepted THEN f ELSE fetcher)
                          /\ fetchTimer' = (fetchTimer \/
                               (accepted /\ \A g \in Hash \ {h} : f.announced[g] = <<>>))
      BY <1>3 DEF Notify
    <2> HIDE DEF f
    <2> QED  BY <2>2, <2>3, <2>4
  <1>4. ASSUME NEW p \in Announcer, NEW h \in Hash, Inject(p, h)
        PROVE  FetcherInv'
    <2>1. EnqueueTurn(fetcher, p, {h}) /\ UNCHANGED <<fetchTimer, completeTimer, done>>
      BY <1>4 DEF Inject
    <2>2. EachOnce(fetcher', importing', done) /\ NotMore(fetcher', fetcher)
      BY <1>1, <2>1, EnqueueTurnKeeps
    <2> QED  BY <1>1, <2>1, <2>2, StepKeeps
  <1>5. ASSUME NEW due \in SUBSET Announced, Fetch(due)
        PROVE  FetcherInv'
    <2> DEFINE g == forgetHash(fetcher, due)
               e(pick) == [g EXCEPT !.fetching = [h \in Hash |->
                             IF h \in due \ known THEN fetcher.announced[h][pick[h]] ELSE @[h]]]
    <2>1. PICK pick : Turn(e(pick))  BY <1>5 DEF Fetch
    <2>2. /\ fetchTimer' = (\E h \in Hash \ due : fetcher.announced[h] # <<>>)
          /\ completeTimer' = completeTimer /\ done' = done
      BY <1>5 DEF Fetch
    <2>3. EachOnce(g, importing, done)  BY <1>1, ForgetHashOnce
    <2>4. NotMore(g, fetcher) /\ \A h \in Hash \cap due : g.announced[h] = <<>>
      BY <1>1, ForgetHashKeeps, SMT
    <2>5. PICK f : f = e(pick)  OBVIOUS
    <2> HIDE DEF g
    <2>6. /\ g = [x \in Fields |-> g[x]] /\ g.announced = [h \in Hash |-> g.announced[h]]
          /\ g.fetched = [h \in Hash |-> g.fetched[h]]
      BY <2>3 DEF EachOnce, IsFetcher
    <2>7. f = [x \in Fields |-> f[x]]  BY <2>5, <2>6
    <2>8. f.queue = g.queue /\ f.queues = g.queues /\ f.queued = g.queued
          /\ f.announced = g.announced /\ f.fetched = g.fetched
      BY <2>5, <2>6, SMT DEF Fields
    <2>9. EachOnce(f, importing, done)  BY <2>3, <2>6, <2>7, <2>8, SameQueue
    <2>10. EachOnce(fetcher', importing', done) /\ NotMore(fetcher', f)  BY <2>1, <2>5, <2>9, TurnKeeps
    <2>11. AnyAnnounced(f) => fetchTimer'  BY <2>2, <2>4, <2>8 DEF AnyAnnounced, NotMore
    <2>12. AnyFetched(f) => completeTimer'  BY <1>1, <2>2, <2>4, <2>8 DEF AnyFetched, NotMore
    <2> QED  BY <2>2, <2>10, <2>11, <2>12, StepKeeps
  <1>6. CASE Complete
    <2> DEFINE due == {h \in Hash : fetcher.fetched[h] # <<>>}
               g == forgetHash(fetcher, due)
               e == [g EXCEPT !.completing = [h \in Hash |->
                       IF h \in due \ known THEN fetcher.fetched[h][1] ELSE @[h]]]
    <2>1. Turn(e) /\ UNCHANGED <<fetchTimer, done>>  BY <1>6 DEF Complete
    <2>2. EachOnce(g, importing, done)  BY <1>1, ForgetHashOnce
    <2>3. NotMore(g, fetcher) /\ \A h \in Hash \cap due : g.fetched[h] = <<>>
      BY <1>1, ForgetHashKeeps, SMT
    <2>4. \A h \in Hash : g.fetched[h] = <<>>
      <3>1. ASSUME NEW h \in Hash PROVE g.fetched[h] = <<>>
        <4> HIDE DEF g
        <4>1. CASE h \in due  BY <2>3, <4>1
        <4>2. CASE h \notin due  BY <2>3, <4>2 DEF NotMore
        <4> QED  BY <4>1, <4>2
      <3> QED  BY <3>1
    <2>5. PICK f : f = e  OBVIOUS
    <2> HIDE DEF g
    <2>6. /\ g = [x \in Fields |-> g[x]] /\ g.announced = [h \in Hash |-> g.announced[h]]
          /\ g.fetched = [h \in Hash |-> g.fetched[h]]
      BY <2>2 DEF EachOnce, IsFetcher
    <2>7. f = [x \in Fields |-> f[x]]  BY <2>5, <2>6
    <2>8. f.queue = g.queue /\ f.queues = g.queues /\ f.queued = g.queued
          /\ f.announced = g.announced /\ f.fetched = g.fetched
      BY <2>5, <2>6, SMT DEF Fields
    <2>9. EachOnce(f, importing, done)  BY <2>2, <2>6, <2>7, <2>8, SameQueue
    <2>10. EachOnce(fetcher', importing', done) /\ NotMore(fetcher', f)  BY <2>1, <2>5, <2>9, TurnKeeps
    <2>11. AnyAnnounced(f) => fetchTimer'  BY <1>1, <2>1, <2>3, <2>8 DEF AnyAnnounced, NotMore
    <2>12. ~AnyFetched(f)  BY <2>4, <2>8 DEF AnyFetched
    <2> QED  BY <2>1, <2>10, <2>11, <2>12, StepKeeps
  <1>7. ASSUME NEW p \in Announcer, NEW h \in Hash, NEW twice \in BOOLEAN,
               FilterHeaders(p, h, twice)
        PROVE  FetcherInv'
    <2> DEFINE got == Got(fetcher.fetching[h])
               e == [fetcher EXCEPT !.fetching[h] = got, !.completing[h] = got]
               g == [fetcher EXCEPT !.fetching[h] = got,
                                    !.fetched[h] = IF twice THEN <<got, got>> ELSE <<got>>]
    <2>1. /\ UNCHANGED <<fetchTimer, done>>
          /\ \/ Turn(forgetHash(fetcher, {h})) /\ completeTimer' = completeTimer
             \/ EnqueueTurn(e, p, {h}) /\ completeTimer' = completeTimer
             \/ /\ Turn(g)
                /\ completeTimer' = (completeTimer \/ \A x \in Hash \ {h} : fetcher.fetched[x] = <<>>)
      BY <1>7 DEF FilterHeaders
    <2>2. CASE Turn(forgetHash(fetcher, {h})) /\ completeTimer' = completeTimer
      <3>1. PICK f : f = forgetHash(fetcher, {h})  OBVIOUS
      <3>2. EachOnce(f, importing, done)  BY <1>1, <3>1, ForgetHashOnce
      <3>3. NotMore(f, fetcher)  BY <1>1, <3>1, ForgetHashKeeps
      <3>4. EachOnce(fetcher', importing', done) /\ NotMore(fetcher', f)  BY <2>2, <3>1, <3>2, TurnKeeps
      <3>5. NotMore(fetcher', fetcher)  BY <3>3, <3>4, NotMoreTwice
      <3> QED  BY <1>1, <2>1, <2>2, <3>4, <3>5, StepKeeps
    <2>3. CASE EnqueueTurn(e, p, {h}) /\ completeTimer' = completeTimer
      <3>1. e = [x \in Fields |-> e[x]]  BY <1>2
      <3>2. e.queue = fetcher.queue /\ e.queues = fetcher.queues /\ e.queued = fetcher.queued
            /\ e.announced = fetcher.announced /\ e.fetched = fetcher.fetched
        BY <1>2, SMT DEF Fields
      <3> HIDE DEF e
      <3>3. e.announced = [x \in Hash |-> e.announced[x]] /\ e.fetched = [x \in Hash |-> e.fetched[x]]
        BY <1>1, <3>2 DEF IsFetcher
      <3>4. EachOnce(e, importing, done)  BY <1>1, <3>1, <3>2, <3>3, SameQueue
      <3>5. EachOnce(fetcher', importing', done) /\ NotMore(fetcher', e)
        BY <2>3, <3>4, EnqueueTurnKeeps
      <3>6. NotMore(fetcher', fetcher)  BY <3>2, <3>5 DEF NotMore
      <3> QED  BY <1>1, <2>1, <2>3, <3>5, <3>6, StepKeeps
    <2>4. CASE /\ Turn(g)
               /\ completeTimer' = (completeTimer \/ \A x \in Hash \ {h} : fetcher.fetched[x] = <<>>)
      <3>1. g = [x \in Fields |-> g[x]]  BY <1>2
      <3>2. g.queue = fetcher.queue /\ g.queues = fetcher.queues /\ g.queued = fetcher.queued
            /\ g.announced = fetcher.announced
        BY <1>2, SMT DEF Fields
      <3>3. g.fetched = [fetcher.fetched EXCEPT ![h] = IF twice THEN <<got, got>> ELSE <<got>>]
        BY <1>2, SMT DEF Fields
      <3> HIDE DEF g
      <3>4. g.announced = [x \in Hash |-> g.announced[x]] /\ g.fetched = [x \in Hash |-> g.fetched[x]]
            /\ \A x \in Hash \ {h} : g.fetched[x] = fetcher.fetched[x]
        BY <1>1, <3>2, <3>3 DEF IsFetcher
      <3>5. EachOnce(g, importing, done)  BY <1>1, <3>1, <3>2, <3>4, SameQueue
      <3>6. EachOnce(fetcher', importing', done) /\ NotMore(fetcher', g)  BY <2>4, <3>5, TurnKeeps
      <3>7. AnyFetched(g) => completeTimer'
        <4>1. CASE \A x \in Hash \ {h} : fetcher.fetched[x] = <<>>  BY <2>4, <4>1
        <4>2. CASE \E x \in Hash \ {h} : fetcher.fetched[x] # <<>>
          <5>1. AnyFetched(fetcher)  BY <4>2 DEF AnyFetched
          <5> QED  BY <1>1, <2>4, <5>1
        <4> QED  BY <4>1, <4>2
      <3>8. AnyAnnounced(g) => fetchTimer'  BY <1>1, <2>1, <3>2 DEF AnyAnnounced
      <3> QED  BY <2>1, <3>6, <3>7, <3>8, StepKeeps
    <2> HIDE DEF e, g
    <2> QED  BY <2>1, <2>2, <2>3, <2>4
  <1>8. ASSUME NEW p \in Announcer, NEW body, FilterBodies(p, body)
        PROVE  FetcherInv'
    <2> DEFINE matched == {h \in Hash : /\ fetcher.completing[h] # NoPeer /\ fetcher.queued[h] = NoPeer
                                        /\ Body[h] = body /\ fetcher.completing[h].origin = p}
    <2>1. /\ EnqueueTurn(forgetHash(fetcher, matched \cap known), p,
                                  matched \ known)
          /\ UNCHANGED <<fetchTimer, completeTimer, done>>
      BY <1>8 DEF FilterBodies
    <2>2. matched \ known \in SUBSET Hash  OBVIOUS
    <2> HIDE DEF matched
    <2>3. PICK f : f = forgetHash(fetcher, matched \cap known)  OBVIOUS
    <2>4. EachOnce(f, importing, done)  BY <1>1, <2>3, ForgetHashOnce
    <2>5. NotMore(f, fetcher)  BY <1>1, <2>3, ForgetHashKeeps
    <2>6. EachOnce(fetcher', importing', done) /\ NotMore(fetcher', f)
      BY <2>1, <2>2, <2>3, <2>4, EnqueueTurnKeeps
    <2>7. NotMore(fetcher', fetcher)  BY <2>5, <2>6, NotMoreTwice
    <2> QED  BY <1>1, <2>1, <2>6, <2>7, StepKeeps
  <1>9. ASSUME NEW h \in Hash, Done(h)
        PROVE  FetcherInv'
    <2>1. /\ done[h] > 0 /\ done' = [done EXCEPT ![h] = @ - 1]
          /\ Turn(forgetBlock(forgetHash(fetcher, {h}), {h}))
          /\ UNCHANGED <<fetchTimer, completeTimer>>
      BY <1>9 DEF Done
    <2>2. PICK f : f = forgetHash(fetcher, {h})  OBVIOUS
    <2>3. EachOnce(f, importing, done)  BY <1>1, <2>2, ForgetHashOnce
    <2>4. NotMore(f, fetcher)  BY <1>1, <2>2, ForgetHashKeeps
    <2>5. PICK g : g = forgetBlock(f, {h})  OBVIOUS
    <2>6. /\ IsFetcher(g)
          /\ g.announced = f.announced /\ g.fetched = f.fetched /\ g.queue = f.queue
          /\ g.queued = [x \in Hash |-> IF x \in {h} THEN NoPeer ELSE f.queued[x]]
      <3>1. IsFetcher(f) /\ {h} \in SUBSET Hash  BY <2>3 DEF EachOnce
      <3> QED  BY <2>5, <3>1, ForgetBlockKeeps, SMT
    <2>7. ASSUME NEW x \in Hash
          PROVE  /\ done'[x] \in Nat
                 /\ g.queue[x] + importing[x] + done'[x] = IF g.queued[x] = NoPeer THEN 0 ELSE 1
      <3>1. /\ f.queue[x] + importing[x] + done[x] = IF f.queued[x] = NoPeer THEN 0 ELSE 1
            /\ f.queue[x] \in Nat /\ importing[x] \in Nat /\ done[x] \in Nat
            /\ done \in [Hash -> Nat]
        BY <2>3 DEF EachOnce, IsFetcher
      <3>2. CASE x = h
        <4>1. g.queued[x] = NoPeer /\ g.queue[x] = f.queue[x] /\ done'[x] = done[x] - 1 /\ done[x] > 0
          BY <2>1, <2>6, <3>1, <3>2
        <4> QED  BY <3>1, <4>1, SMT
      <3>3. CASE x # h
        <4>1. g.queued[x] = f.queued[x] /\ g.queue[x] = f.queue[x] /\ done'[x] = done[x]
          BY <2>1, <2>6, <3>1, <3>3
        <4> QED  BY <3>1, <4>1
      <3> QED  BY <3>2, <3>3
    <2>8. done' \in [Hash -> Nat]
      <3>1. done' = [x \in Hash |-> done'[x]]  BY <1>1, <2>1 DEF EachOnce
      <3> QED  BY <2>7, <3>1
    <2>9. importing \in [Hash -> Nat]  BY <1>1 DEF EachOnce
    <2>10. EachOnce(g, importing, done')  BY <2>6, <2>7, <2>8, <2>9 DEF EachOnce
    <2>11. Turn(g)  BY <2>1, <2>2, <2>5
    <2>12. EachOnce(fetcher', importing', done') /\ NotMore(fetcher', g)  BY <2>10, <2>11, TurnKeeps
    <2>13. NotMore(g, fetcher)  BY <2>4, <2>6 DEF NotMore
    <2>14. NotMore(fetcher', fetcher)  BY <2>12, <2>13, NotMoreTwice
    <2> QED  BY <1>1, <2>1, <2>12, <2>14, StepKeeps
  <1>10. ASSUME UNCHANGED <<fetcher, fetchTimer, completeTimer, importing, done>>
         PROVE  FetcherInv'
    <2>1. NotMore(fetcher', fetcher)  BY <1>10 DEF NotMore
    <2> QED  BY <1>1, <1>10, <2>1, StepKeeps
  <1>11. ASSUME NEW h \in Hash, Import(h)
         PROVE  FetcherInv'
    <2>1. /\ importing[h] > 0 /\ importing' = [importing EXCEPT ![h] = @ - 1]
          /\ done' = [done EXCEPT ![h] = @ + 1] /\ UNCHANGED <<fetcher, fetchTimer, completeTimer>>
      BY <1>11 DEF Import
    <2>2. importing \in [Hash -> Nat] /\ done \in [Hash -> Nat]  BY <1>1 DEF EachOnce
    <2>3. ASSUME NEW x \in Hash
          PROVE  /\ importing'[x] \in Nat /\ done'[x] \in Nat
                 /\ fetcher.queue[x] + importing'[x] + done'[x] = IF fetcher.queued[x] = NoPeer THEN 0 ELSE 1
      <3>1. /\ fetcher.queue[x] + importing[x] + done[x] = IF fetcher.queued[x] = NoPeer THEN 0 ELSE 1
            /\ fetcher.queue[x] \in Nat /\ importing[x] \in Nat /\ done[x] \in Nat
        BY <1>1 DEF EachOnce, IsFetcher
      <3>2. CASE x = h
        <4>1. importing'[x] = importing[x] - 1 /\ done'[x] = done[x] + 1 /\ importing[x] > 0
          BY <2>1, <2>2, <3>2
        <4> QED  BY <3>1, <4>1, SMT
      <3>3. CASE x # h
        <4>1. importing'[x] = importing[x] /\ done'[x] = done[x]  BY <2>1, <2>2, <3>3
        <4> QED  BY <3>1, <4>1
      <3> QED  BY <3>2, <3>3
    <2>4. importing' \in [Hash -> Nat] /\ done' \in [Hash -> Nat]
      <3>1. importing' = [x \in Hash |-> importing'[x]] /\ done' = [x \in Hash |-> done'[x]]
        BY <2>1, <2>2
      <3> QED  BY <2>3, <3>1
    <2>5. EachOnce(fetcher, importing', done')  BY <1>1, <2>3, <2>4 DEF EachOnce
    <2>6. EachOnce(fetcher', importing', done') /\ NotMore(fetcher', fetcher)  BY <2>1, <2>5 DEF NotMore
    <2> QED  BY <1>1, <2>1, <2>6, StepKeeps
  <1>12. ASSUME NEW h \in Hash, Extend(h) PROVE FetcherInv'
    BY <1>10, <1>12 DEF Extend
  <1>13. CASE UNCHANGED fetcherVars  BY <1>10, <1>13 DEF fetcherVars
  <1>14. CASE FetcherNext
    BY <1>14, <1>3, <1>4, <1>5, <1>6, <1>7, <1>8, <1>9, <1>11, <1>12 DEF FetcherNext, NextOf
  <1> QED  BY <1>13, <1>14

LEMMA FetcherInvAlways == FetcherSpec => []FetcherInv
  BY InitFetcher, NextFetcher, PTL DEF FetcherSpec

\* Whatever is announced, sent, answered and imported by others, a block is
\* queued, being imported or reported once at a time (enqueue, insert, done),
\* the count of a peer's blocks, against which its limit is checked, is right
\* (forgetBlock), and what waits to be fetched or completed has its timer set
\* (rescheduleFetch, rescheduleComplete).
THEOREM AlwaysFetchedOnce == FetcherSpec => []FetchedOnce
  <1>1. FetcherInv => FetchedOnce
    <2> SUFFICES ASSUME FetcherInv PROVE FetchedOnce  OBVIOUS
    <2>1. EachOnce(fetcher, importing, done) /\ IsFetcher(fetcher) /\ TimersArmed
      BY DEF FetcherInv, EachOnce
    <2>2. \A p \in Announcer :
            /\ fetcher.queues[p] = Cardinality({h \in Hash : fetcher.queued[h] = p})
            /\ fetcher.queues[p] <= blockLimit
      BY <2>1 DEF IsFetcher, QueuedFor
    <2>3. OneImport  BY <2>1, <2>2 DEF OneImport, EachOnce
    <2> QED  BY <2>1, <2>3 DEF FetchedOnce
  <1> QED  BY <1>1, FetcherInvAlways, PTL
============================================================================
