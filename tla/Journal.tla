------------------------------ MODULE Journal ------------------------------
(***************************************************************************)
(* The state a transaction works on (StateDB, core/state/statedb.go) and   *)
(* the journal that undoes its changes (core/state/journal.go).  Every     *)
(* setter appends an entry that knows the previous value; a call of the    *)
(* EVM that fails, and a transaction the miner drops, go back to a         *)
(* snapshot by undoing the entries after it, last first; the end of the    *)
(* transaction writes the dirty accounts to the trie.                      *)
(*                                                                         *)
(* Two things are not in the journal: the rows that reading a balance adds *)
(* to an account, and the tickets.  They are kept apart here.              *)
(***************************************************************************)
EXTENDS Naturals, Sequences

CONSTANTS
    Address,
    AssetID,
    SystemAssetID,
    Value,         \* values of balances, time locks and cells; 0 is the initial one
    Cell,          \* the parts of an account that have one journal entry each:
                   \* nonce, notation, code, a slot of the storage
    Ticket,
    MaxEntries,    \* bound: the length of the journal
    MaxRevisions,  \* bound: the snapshots that are valid at a time
    MaxTxs,        \* bound: the transactions
    Genesis,       \* the accounts a run may start with
    None

ASSUME JournalAssumption ==
    /\ SystemAssetID \in AssetID
    /\ {"nonce", "code"} \subseteq Cell /\ Cell \subseteq {"nonce", "code", "notation", "storage"}
    /\ Value \subseteq Nat /\ {0, 1} \subseteq Value
    /\ MaxEntries \in Nat /\ MaxRevisions \in Nat /\ MaxTxs \in Nat

\* A state object.  What it holds of an asset without a row is 0.
LiveObject == [exists : {TRUE}, suicided : BOOLEAN, balance : [AssetID -> Value],
               lock : [AssetID -> Value], cell : [Cell -> Value]]

NoObject == [exists |-> FALSE, suicided |-> FALSE, balance |-> [s \in AssetID |-> 0],
             lock |-> [s \in AssetID |-> 0], cell |-> [c \in Cell |-> 0]]

Object == LiveObject \cup {NoObject}

\* newObject.
NewObject == [NoObject EXCEPT !.exists = TRUE]

\* Which assets have a row in BalancesVal and in TimeLockBalancesVal, and for
\* which of the former it is a nil pointer.
Rows == [balance : SUBSET AssetID, lock : SUBSET AssetID, nil : SUBSET AssetID]
NoRows == [balance |-> {}, lock |-> {}, nil |-> {}]

\* What the journal restores.
World == [object : [Address -> Object], refund : Nat, logs : Nat]

ASSUME GenesisAssumption == Genesis \subseteq [Address -> [object : Object, rows : Rows]]

VARIABLES
    db,         \* StateDB: world, rows, tickets, journal; hist is history: the
                \* world before each entry of the journal, and the present one
    revisions,  \* validRevisions; world, rows and tickets are history
    reverting,  \* the revision RevertToSnapshot is on the way back to, or None
    stored,     \* the accounts in the trie
    txs         \* the transactions finalised so far

vars == <<db, revisions, reverting, stored, txs>>

NewJournal(world, rows, tickets) ==
    [world |-> world, rows |-> rows, tickets |-> tickets, journal |-> <<>>, hist |-> <<world>>]

Init ==
    /\ \E g \in Genesis :
          /\ stored = [a \in Address |-> g[a].object]
          /\ db = NewJournal([object |-> stored, refund |-> 0, logs |-> 0],
                             [a \in Address |-> g[a].rows], {})
    /\ revisions = <<>>
    /\ reverting = None
    /\ txs = 0

-----------------------------------------------------------------------------
(* Entries *)

Entry ==
    [kind : {"create", "touch"}, account : Address]
    \cup [kind : {"reset", "suicide"}, account : Address, prev : Object, rows : Rows]
    \cup [kind : {"balance", "lock"}, account : Address, key : AssetID, prev : Value]
    \cup [kind : {"cell"}, account : Address, key : Cell, prev : Value]
    \cup [kind : {"refund"}, prev : Nat]
    \cup [kind : {"log"}]

Obj(d, a) == d.world.object[a]

\* The change that makes o the object at a.
WithObject(world, a, o) == [world EXCEPT !.object[a] = o]

\* Append an entry; the world becomes w.
Record(d, e, w) ==
    [d EXCEPT !.world = w, !.journal = Append(@, e), !.hist = Append(@, w)]

\* Mutant: an account that has suicided is not written.
DirtiedNoSuicide(e) ==
    IF e.kind \in {"reset", "refund", "log", "suicide"} THEN {} ELSE {e.account}

\* journalEntry.dirtied.
Dirtied(e) == IF e.kind \in {"reset", "refund", "log"} THEN {} ELSE {e.account}

Dirties(d) == UNION {Dirtied(d.journal[i]) : i \in 1 .. Len(d.journal)}

\* Mutant: the time locks stay cleared.
UndoSuicideNoLock(e, o) ==
    [o EXCEPT !.suicided = e.prev.suicided, !.balance = e.prev.balance]

UndoSuicide(e, o) ==
    [o EXCEPT !.suicided = e.prev.suicided, !.balance = e.prev.balance, !.lock = e.prev.lock]

\* journalEntry.revert of the entries about an account, on its object ...
UndoObject(e, o) ==
    CASE e.kind = "create"  -> NoObject
      [] e.kind = "reset"   -> e.prev
      [] e.kind = "balance" -> [o EXCEPT !.balance[e.key] = e.prev]
      [] e.kind = "lock"    -> [o EXCEPT !.lock[e.key] = e.prev]
      [] e.kind = "cell"    -> [o EXCEPT !.cell[e.key] = e.prev]
      [] e.kind = "suicide" -> UndoSuicide(e, o)
      [] e.kind = "touch"   -> o

UndoAddLog(w) == [w EXCEPT !.logs = @ - 1]

\* ... and of all entries, on the world.
Undo(e, w) ==
    CASE e.kind = "refund" -> [w EXCEPT !.refund = e.prev]
      [] e.kind = "log"    -> UndoAddLog(w)
      [] OTHER -> WithObject(w, e.account, UndoObject(e, w.object[e.account]))

\* The same on the rows.  The entries that Suicide makes for time locks do not
\* say so: undoing them gives the asset a nil balance, which the entry for the
\* balance, if there was a row, overwrites.
UndoRows(e, rows) ==
    CASE e.kind = "create"  -> [rows EXCEPT ![e.account] = NoRows]
      [] e.kind = "reset"   -> [rows EXCEPT ![e.account] = e.rows]
      [] e.kind = "suicide" -> [rows EXCEPT ![e.account].balance = @ \cup e.rows.lock,
                                            ![e.account].nil = (@ \cup e.rows.lock)
                                                                  \ e.rows.balance]
      [] OTHER -> rows

-----------------------------------------------------------------------------
(* The setters of StateDB *)

\* createObject, with what its caller puts into the new object right away.
createObject(d, a, o) ==
    Record(d, IF Obj(d, a).exists
              THEN [kind |-> "reset", account |-> a, prev |-> Obj(d, a), rows |-> d.rows[a]]
              ELSE [kind |-> "create", account |-> a],
           WithObject(d.world, a, o))

GetOrNewStateObject(d, a) == IF Obj(d, a).exists THEN d ELSE createObject(d, a, NewObject)

\* balanceAssetIndex and timeLockAssetIndex: looking a row up makes it.
BalanceRow(d, a, s) == [d EXCEPT !.rows[a].balance = @ \cup {s}]
LockRow(d, a, s) == [d EXCEPT !.rows[a].lock = @ \cup {s}]

SetBalance(d, a, s, v) ==
    Record(BalanceRow(d, a, s),
           [kind |-> "balance", account |-> a, key |-> s, prev |-> Obj(d, a).balance[s]],
           WithObject(d.world, a, [Obj(d, a) EXCEPT !.balance[s] = v]))

SetTimeLockBalance(d, a, s, v) ==
    Record(LockRow(d, a, s),
           [kind |-> "lock", account |-> a, key |-> s, prev |-> Obj(d, a).lock[s]],
           WithObject(d.world, a, [Obj(d, a) EXCEPT !.lock[s] = v]))

SetCell(d, a, c, v) ==
    Record(d, [kind |-> "cell", account |-> a, key |-> c, prev |-> Obj(d, a).cell[c]],
           WithObject(d.world, a, [Obj(d, a) EXCEPT !.cell[c] = v]))

\* stateObject.empty, for accounts other than the special ones.
IsEmpty(d, a) ==
    /\ Obj(d, a).cell["nonce"] = 0 /\ Obj(d, a).cell["code"] = 0
    /\ d.rows[a].balance = {} /\ d.rows[a].lock = {}

Touch(d, a) ==
    IF IsEmpty(d, a) THEN Record(d, [kind |-> "touch", account |-> a], d.world) ELSE d

\* CreateAccount: the new object takes over balances, time locks and rows.
CreateAccount(d, a) ==
    LET prev == Obj(d, a)
        carried == [NewObject EXCEPT !.balance = prev.balance, !.lock = prev.lock]
    IN  createObject(d, a, IF prev.exists THEN carried ELSE NewObject)

\* Suicide makes an entry for every balance row and two for every lock row; one
\* entry stands for them all, since no snapshot comes between them.  Without a
\* row there is no entry.
Suicide(d, a) ==
    LET o == Obj(d, a)
        zero == [s \in AssetID |-> 0]
        gone == [o EXCEPT !.suicided = TRUE, !.balance = zero, !.lock = zero]
    IN  IF d.rows[a].balance = {} /\ d.rows[a].lock = {}
        THEN [d EXCEPT !.world = WithObject(@, a, [o EXCEPT !.suicided = TRUE])]
        ELSE Record(d, [kind |-> "suicide", account |-> a, prev |-> o, rows |-> d.rows[a]],
                    WithObject(d.world, a, gone))

-----------------------------------------------------------------------------
(* What a transaction does *)

\* An operation on StateDB makes it d.
Does(d) ==
    /\ reverting = None
    /\ txs < MaxTxs /\ Len(d.journal) <= MaxEntries
    /\ db' = d
    /\ UNCHANGED <<revisions, reverting, stored, txs>>

\* AddBalance and SubBalance: a change to some other value, or of nothing.
\* Arithmetic on a nil row panics.
ChangeBalance(a, s, v) ==
    LET d == GetOrNewStateObject(db, a)
    IN  /\ s \notin d.rows[a].nil
        /\ Does(SetBalance(d, a, s, v))

AddNothing(a) == Does(Touch(GetOrNewStateObject(db, a), a))

ChangeTimeLock(a, s, v) == Does(SetTimeLockBalance(GetOrNewStateObject(db, a), a, s, v))

\* SetNonce, SetNotation, SetCode; SetState, which skips a value that is there.
ChangeCell(a, c, v) ==
    LET d == GetOrNewStateObject(db, a)
    IN  IF c = "storage" /\ Obj(d, a).cell[c] = v THEN Does(d) ELSE Does(SetCell(d, a, c, v))

\* GetBalance and GetTimeLockBalance.
ReadBalance(a, s) == Obj(db, a).exists /\ Does(BalanceRow(db, a, s))
ReadTimeLock(a, s) == Obj(db, a).exists /\ Does(LockRow(db, a, s))

\* EVM.create, from the snapshot on: the account gets a nonce at once.
CreateContract(a) ==
    /\ Obj(db, a).cell["nonce"] = 0 /\ Obj(db, a).cell["code"] = 0
    /\ Does(SetCell(CreateAccount(db, a), a, "nonce", 1))

\* opSuicide: the balance is read, given to the beneficiary, and cleared.  (That
\* the sum is in Value is a bound.)
SelfDestruct(a, to) ==
    LET read == BalanceRow(db, a, SystemAssetID)
        v == Obj(db, a).balance[SystemAssetID]
        d == GetOrNewStateObject(read, to)
        sum == Obj(d, to).balance[SystemAssetID] + v
        paid == IF v = 0 THEN Touch(d, to) ELSE SetBalance(d, to, SystemAssetID, sum)
    IN  /\ Obj(db, a).exists
        /\ db.rows[a].nil = {} /\ SystemAssetID \notin db.rows[to].nil
        /\ sum \in Value
        /\ Does(Suicide(paid, a))

AddRefund ==
    Does(Record(db, [kind |-> "refund", prev |-> db.world.refund],
                [db.world EXCEPT !.refund = @ + 1]))

AddLog == Does(Record(db, [kind |-> "log"], [db.world EXCEPT !.logs = @ + 1]))

AddTicket(t) == Does([db EXCEPT !.tickets = @ \cup {t}])

-----------------------------------------------------------------------------
(* Snapshots, reverting, and the end of the transaction *)

Snapshot ==
    /\ reverting = None
    /\ Len(revisions) < MaxRevisions
    /\ revisions' = Append(revisions,
                           [journalIndex |-> Len(db.journal), world |-> db.world,
                            rows |-> db.rows, tickets |-> db.tickets])
    /\ UNCHANGED <<db, reverting, stored, txs>>

RevertToSnapshot(r) ==
    /\ reverting = None
    /\ reverting' = revisions[r]
    /\ revisions' = SubSeq(revisions, 1, r - 1)
    /\ UNCHANGED <<db, stored, txs>>

\* The loop of journal.revert, an entry at a time.
UndoLast ==
    LET n == Len(db.journal)
        e == db.journal[n]
    IN  /\ reverting # None /\ n > reverting.journalIndex
        /\ db' = [db EXCEPT !.world = Undo(e, @), !.rows = UndoRows(e, @),
                            !.journal = SubSeq(@, 1, n - 1), !.hist = SubSeq(@, 1, n)]
        /\ UNCHANGED <<revisions, reverting, stored, txs>>

RevertDone ==
    /\ reverting # None /\ Len(db.journal) = reverting.journalIndex
    /\ reverting' = None
    /\ UNCHANGED <<db, revisions, stored, txs>>

\* Finalise(true): dirty accounts are written, or deleted when they are empty or
\* have suicided; the journal, the snapshots and the refund start afresh.
Finalise ==
    LET Gone(a) == a \in Dirties(db) /\ (Obj(db, a).suicided \/ IsEmpty(db, a))
        object == [a \in Address |-> IF Gone(a) THEN NoObject ELSE Obj(db, a)]
        rows == [a \in Address |-> IF Gone(a) THEN NoRows ELSE db.rows[a]]
    IN  /\ reverting = None
        /\ txs < MaxTxs /\ txs' = txs + 1
        /\ stored' = [a \in Address |-> IF a \in Dirties(db) THEN object[a] ELSE stored[a]]
        /\ db' = NewJournal([object |-> object, refund |-> 0, logs |-> 0], rows, db.tickets)
        /\ revisions' = <<>>
        /\ UNCHANGED reverting

Next ==
    \/ \E a \in Address, s \in AssetID, v \in Value : ChangeBalance(a, s, v) \/ ChangeTimeLock(a, s, v)
    \/ \E a \in Address : AddNothing(a) \/ CreateContract(a)
    \/ \E a \in Address, c \in Cell, v \in Value : ChangeCell(a, c, v)
    \/ \E a \in Address, s \in AssetID : ReadBalance(a, s) \/ ReadTimeLock(a, s)
    \/ \E a, to \in Address : SelfDestruct(a, to)
    \/ AddRefund \/ AddLog \/ Snapshot \/ UndoLast \/ RevertDone \/ Finalise
    \/ \E t \in Ticket : AddTicket(t)
    \/ \E r \in 1 .. Len(revisions) : RevertToSnapshot(r)

Spec == Init /\ [][Next]_vars

-----------------------------------------------------------------------------
(* Properties *)

Revision == [journalIndex : Nat, world : World, rows : [Address -> Rows], tickets : SUBSET Ticket]

\* Variables hold what the Go variables can hold.
TypeOK ==
    /\ db.world \in World
    /\ db.rows \in [Address -> Rows]
    /\ db.tickets \subseteq Ticket
    /\ db.journal \in Seq(Entry) /\ Len(db.hist) = Len(db.journal) + 1
    /\ \A r \in 1 .. Len(revisions) : revisions[r] \in Revision
    /\ reverting \in Revision \cup {None}
    /\ stored \in [Address -> Object]
    /\ txs \in 0 .. MaxTxs

\* Snapshots are a stack over the journal: each marks a place at or before the
\* next one's and within the journal, also while a revert is under way, so
\* journal.revert never cuts into what an older snapshot covers
\* (validRevisions, RevertToSnapshot).
RevisionsNested ==
    LET top == IF reverting = None THEN Len(db.journal) ELSE reverting.journalIndex
    IN  /\ top <= Len(db.journal)
        /\ \A q \in 1 .. Len(revisions) :
              /\ revisions[q].journalIndex <= top
              /\ \A r \in q .. Len(revisions) :
                    revisions[q].journalIndex <= revisions[r].journalIndex

\* RevertToSnapshot gives every account back what it had at the snapshot, its
\* existence, balances, time locks, nonce, notation, code and storage, and the
\* refund and the logs, whatever was created, overwritten, destroyed or
\* reverted in between.
RevertRestores ==
    [][reverting # None /\ reverting' = None => db'.world = reverting.world]_vars

\* What the trie is missing is marked: an account that is not dirty is in the
\* trie as it stands, so Finalise, which writes the dirty ones only, loses
\* nothing, even after reverts took the marks away again (journal.dirties).
StoredIsCurrent ==
    reverting = None =>
        \A a \in Address \ Dirties(db) : stored[a] = Obj(db, a)

\* RevertToSnapshot also takes away the tickets added since the snapshot, as its
\* comment says of "all state changes".
RevertRestoresTickets ==
    [][reverting # None /\ reverting' = None => db'.tickets = reverting.tickets]_vars

\* RevertToSnapshot also takes away the rows added to accounts since the
\* snapshot, which are part of what is hashed into the state root.
RevertRestoresRows ==
    [][reverting # None /\ reverting' = None => db'.rows = reverting.rows]_vars
=============================================================================
