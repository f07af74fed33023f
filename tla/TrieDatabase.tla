---------------------------- MODULE TrieDatabase ----------------------------
(***************************************************************************)
(* The trie database (trie/database.go): the cache of trie nodes between   *)
(* the state and the disk.  Nodes are counted by the cached nodes that     *)
(* refer to them and are linked, oldest first, in the flush-list.  A root  *)
(* is referenced by the blocks that have it (core/blockchain.go), and its  *)
(* trie leaves the cache by Dereference, by Cap, which flushes the oldest  *)
(* nodes, or by Commit, which writes it out.  Writes go to the disk in     *)
(* batches, of which any may fail or be the last before a crash.           *)
(* Node names stand for hashes, which determine what a node contains.      *)
(***************************************************************************)
EXTENDS Integers, Sequences, FiniteSetsExt

CONSTANTS
    Node, Zero,         \* hashes, and the hash of the meta root
    Embedded,           \* the hashes inside a node, in order
    External,           \* the storage root and the code an account leaf names
    Roots, Genesis,     \* the roots of states, and the one on disk at first
    MaxBlocks           \* bound: the blocks in triegc

TrieDatabaseAssumption ==
    /\ Zero \notin Node /\ Genesis \in Roots /\ Roots \subseteq Node
    /\ Embedded \in [Node -> Seq(Node)] /\ External \in [Node -> SUBSET Node]
    /\ MaxBlocks \in Nat

Elements(s) == {s[i] : i \in DOMAIN s}
Children(n) == Elements(Embedded[n]) \cup External[n]
RECURSIVE Reach(_)
Reach(n) == {n} \cup UNION {Reach(c) : c \in Children(n)}

VARIABLES
    db,                 \* the cache: see EmptyCache
    disk,               \* the nodes on disk
    live,               \* how many blocks of triegc have a root
    todo,               \* what Cap or Commit still has to write, in order
    clear,              \* what it then removes from the cache, or none
    archive             \* the node keeps every state (cacheConfig.Disabled)

vars == <<db, disk, live, todo, clear, archive>>

\* nodes: the hashes cached; parents: the counts; children: the external ones
\* a node counts, and for the meta root how often it counts a root.
EmptyCache == [nodes |-> {},
               parents |-> [n \in Node |-> 0],
               children |-> [n \in Node |-> {}],
               roots |-> [n \in Node |-> 0],
               oldest |-> Zero, newest |-> Zero,
               prev |-> [n \in Node |-> Zero], next |-> [n \in Node |-> Zero]]
Idle == [kind |-> "none"]

Init ==
    /\ db = EmptyCache /\ disk = Reach(Genesis)
    /\ live = [n \in Node |-> 0] /\ todo = <<>> /\ clear = Idle
    /\ archive \in BOOLEAN

-----------------------------------------------------------------------------
(* The cache *)

Times(n, c) == Cardinality({i \in DOMAIN Embedded[n] : Embedded[n][i] = c})

\* The links of the meta root are written by the code and never read.
SetLink(links, n, m) == IF n = Zero THEN links ELSE [links EXCEPT ![n] = m]

insert(d, n) ==
    IF n \in d.nodes THEN d
    ELSE [d EXCEPT !.nodes = @ \cup {n},
                   !.parents = [c \in Node |-> IF c = n THEN 0
                                               ELSE IF c \in d.nodes THEN @[c] + Times(n, c) ELSE @[c]],
                   !.prev = [@ EXCEPT ![n] = d.newest],
                   !.next = IF d.oldest = Zero THEN @ ELSE [@ EXCEPT ![d.newest] = n],
                   !.oldest = IF @ = Zero THEN n ELSE @,
                   !.newest = n]

reference(d, c, n) ==
    IF c \notin d.nodes \/ c \in d.children[n] THEN d
    ELSE [d EXCEPT !.parents[c] = @ + 1, !.children[n] = @ \cup {c}]

referenceRoot(d, r) ==
    IF r \notin d.nodes THEN d ELSE [d EXCEPT !.parents[r] = @ + 1, !.roots[r] = @ + 1]

\* A node is taken out of the flush-list.
unlink(d, n) ==
    CASE n = d.oldest -> [d EXCEPT !.oldest = d.next[n], !.prev = SetLink(@, d.next[n], Zero)]
      [] n # d.oldest /\ n = d.newest ->
           [d EXCEPT !.newest = d.prev[n], !.next = SetLink(@, d.prev[n], Zero)]
      [] OTHER -> [d EXCEPT !.next = SetLink(@, d.prev[n], d.next[n]),
                            !.prev = SetLink(@, d.next[n], d.prev[n])]

delete(d, n) == [d EXCEPT !.nodes = @ \ {n}, !.parents[n] = 0, !.children[n] = {},
                          !.prev[n] = Zero, !.next[n] = Zero]

\* All that childs lists, a hash that a node holds twice twice.
ChildList(d, n) ==
    Embedded[n] \o (LET ext == d.children[n]
                    IN  CHOOSE s \in [1 .. Cardinality(ext) -> ext] : Elements(s) = ext)

\* dereference for a list of children of one node, the counts of the node itself
\* being gone with it.
RECURSIVE dereferenceAll(_, _)
dereferenceAll(d, cs) ==
    IF cs = <<>> THEN d
    ELSE LET c == Head(cs)
             e == IF c \in d.nodes /\ d.parents[c] > 0 THEN [d EXCEPT !.parents[c] = @ - 1] ELSE d
         IN  dereferenceAll(IF c \in e.nodes /\ e.parents[c] = 0
                            THEN delete(dereferenceAll(unlink(e, c), ChildList(e, c)), c)
                            ELSE e,
                            Tail(cs))

\* The nodes of a trie that commit writes: children before parents.
RECURSIVE commitAll(_, _)
commitAll(d, cs) ==
    IF cs = <<>> THEN <<>>
    ELSE (IF Head(cs) \in d.nodes
          THEN commitAll(d, ChildList(d, Head(cs))) \o <<Head(cs)>> ELSE <<>>)
         \o commitAll(d, Tail(cs))

RECURSIVE uncacheAll(_, _)
uncacheAll(d, cs) ==
    IF cs = <<>> THEN d
    ELSE uncacheAll(IF Head(cs) \in d.nodes
                    THEN delete(uncacheAll(unlink(d, Head(cs)), ChildList(d, Head(cs))), Head(cs))
                    ELSE d,
                    Tail(cs))

-----------------------------------------------------------------------------
(* Blocks *)

\* insert and the references of leaves, for the nodes that a state has changed,
\* children first.
RECURSIVE storeAll(_, _)
storeAll(d, ns) ==
    IF ns = {} THEN d
    ELSE LET n == CHOOSE m \in ns : Children(m) \cap ns = {}
             RECURSIVE refer(_, _)
             refer(e, cs) == IF cs = {} THEN e
                             ELSE LET c == CHOOSE x \in cs : TRUE
                                  IN  refer(reference(e, c, n), cs \ {c})
         IN  storeAll(refer(insert(d, n), External[n]), ns \ {n})

Blocks == MapThenSumSet(LAMBDA n : live[n], Roots)
Available == db.nodes \cup disk

\* A state with root r was made from one that a block has or the disk holds;
\* the nodes in dirty were changed, or changed back.
MadeFrom(r, dirty) ==
    LET clean == Reach(r) \ dirty
    IN  /\ r \in Roots /\ dirty \subseteq Reach(r)
        /\ \A n \in clean : Children(n) \cap dirty = {}
        /\ \E base \in Roots : /\ live[base] > 0 \/ base \in disk
                               /\ clean \subseteq Reach(base)

\* A block is written by a full node: its state goes to the cache, its root is
\* referenced and queued for collection.
WriteBlock(r, dirty) ==
    /\ clear = Idle /\ ~archive /\ MadeFrom(r, dirty) /\ Blocks < MaxBlocks
    /\ db' = referenceRoot(storeAll(db, dirty), r)
    /\ live' = [live EXCEPT ![r] = @ + 1]
    /\ UNCHANGED <<disk, todo, clear, archive>>

\* An archive node commits the root at once.
WriteArchive(r, dirty) ==
    LET d == storeAll(db, dirty)
    IN  /\ clear = Idle /\ archive /\ MadeFrom(r, dirty)
        /\ db' = d
        /\ todo' = commitAll(d, <<r>>) /\ clear' = [kind |-> "commit", root |-> r]
        /\ UNCHANGED <<disk, live, archive>>

Dereference(r) ==
    /\ clear = Idle /\ live[r] > 0
    /\ live' = [live EXCEPT ![r] = @ - 1]
    /\ db' = dereferenceAll([db EXCEPT !.roots[r] = IF @ > 0 THEN @ - 1 ELSE @], <<r>>)
    /\ UNCHANGED <<disk, todo, clear, archive>>

\* The flush-list from n on.
RECURSIVE FlushList(_, _)
FlushList(d, n) == IF n = Zero THEN <<>> ELSE <<n>> \o FlushList(d, d.next[n])

\* Cap: some of the oldest nodes are to be flushed; upto stays.
Cap(upto) ==
    LET list == FlushList(db, db.oldest)
        k == IF upto = Zero THEN Len(list) ELSE CHOOSE i \in DOMAIN list : list[i] = upto
    IN  /\ clear = Idle /\ upto \in db.nodes \cup {Zero} /\ db.nodes # {}
        /\ todo' = SubSeq(list, 1, IF upto = Zero THEN k ELSE k - 1)
        /\ clear' = [kind |-> "cap", upto |-> upto]
        /\ UNCHANGED <<db, disk, live, archive>>

Commit(r) ==
    /\ clear = Idle /\ live[r] > 0
    /\ todo' = commitAll(db, <<r>>) /\ clear' = [kind |-> "commit", root |-> r]
    /\ UNCHANGED <<db, disk, live, archive>>

\* A batch is full and written.
WriteBatch(k) ==
    /\ k \in DOMAIN todo
    /\ disk' = disk \cup Elements(SubSeq(todo, 1, k))
    /\ todo' = SubSeq(todo, k + 1, Len(todo))
    /\ UNCHANGED <<db, live, clear, archive>>

\* A batch is not written: Cap and Commit leave the cache as it is.
WriteFails ==
    /\ todo # <<>>
    /\ todo' = <<>> /\ clear' = Idle
    /\ UNCHANGED <<db, disk, live, archive>>

\* Mutant: the cache is cleared before the last write.
ClearEarly ==
    /\ clear # Idle
    /\ db' = IF clear.kind = "commit" THEN uncacheAll(db, <<clear.root>>)
             ELSE LET RECURSIVE drop(_)
                      drop(d) == IF d.oldest = clear.upto THEN [d EXCEPT !.prev = SetLink(@, d.oldest, Zero)]
                                 ELSE drop([delete(d, d.oldest) EXCEPT !.oldest = d.next[d.oldest]])
                  IN  drop(db)
    /\ clear' = Idle
    /\ UNCHANGED <<disk, live, todo, archive>>

\* All is written: what was flushed or committed leaves the cache.
Clear ==
    /\ clear # Idle /\ todo = <<>>
    /\ db' = IF clear.kind = "commit" THEN uncacheAll(db, <<clear.root>>)
             ELSE LET RECURSIVE drop(_)
                      drop(d) == IF d.oldest = clear.upto THEN [d EXCEPT !.prev = SetLink(@, d.oldest, Zero)]
                                 ELSE drop([delete(d, d.oldest) EXCEPT !.oldest = d.next[d.oldest]])
                  IN  drop(db)
    /\ clear' = Idle
    /\ UNCHANGED <<disk, live, todo, archive>>

\* The process dies and starts again from the disk.
Crash ==
    /\ db' = EmptyCache /\ live' = [n \in Node |-> 0] /\ todo' = <<>> /\ clear' = Idle
    /\ archive' \in BOOLEAN /\ UNCHANGED disk

Next ==
    \/ \E r \in Roots, dirty \in SUBSET Node : WriteBlock(r, dirty) \/ WriteArchive(r, dirty)
    \/ \E r \in Roots : Dereference(r) \/ Commit(r)
    \/ \E n \in Node \cup {Zero} : Cap(n)
    \/ \E k \in 1 .. Cardinality(Node) * 2 : WriteBatch(k)
    \/ WriteFails \/ Clear \/ Crash

Spec == Init /\ [][Next]_vars

-----------------------------------------------------------------------------
(* Properties *)

\* The state of every block that has not been collected can be read, from the
\* cache or the disk, at every moment of a flush or a commit: "It is important
\* that outside code doesn't see an inconsistent state".
LiveIsAvailable == \A r \in Roots : live[r] > 0 => Reach(r) \subseteq Available

\* What is on disk is complete: a node is never there without all it refers to,
\* whatever batch was the last, so a root on disk is a state (HasState).
DiskIsClosed == \A n \in disk : Children(n) \subseteq disk

\* The flush-list holds exactly the cached nodes, linked both ways, after any
\* insert, dereference, flush and commit: Cap flushes every node in its turn.
ListIsCache ==
    LET list == FlushList(db, db.oldest)
    IN  /\ Elements(list) = db.nodes /\ Len(list) = Cardinality(db.nodes)
        /\ list # <<>> => db.newest = list[Len(list)]
        /\ \A i \in 2 .. Len(list) : db.prev[list[i]] = list[i - 1]

\* The three together: what the chain relies on when it uses a root.
StatesAreWhole == LiveIsAvailable /\ DiskIsClosed /\ ListIsCache
=============================================================================
