----------------------------- MODULE MCJournal -----------------------------
(***************************************************************************)
(* The state of one transaction with its journal ("journal"), and the trie *)
(* database that keeps the states of blocks ("trie"), side by side: the    *)
(* models share no variable, so a behaviour exercises one of them.         *)
(***************************************************************************)
EXTENDS Journal, TLC

CONSTANTS
    a1, a2, fsn, k1,                    \* accounts, an asset, a ticket
    root0, rootA, rootB, leaf, store,   \* trie nodes
    Zero

-----------------------------------------------------------------------------
\* An account that does not exist, and a contract with free and time-locked FSN.
Absent == [object |-> NoObject, rows |-> NoRows]
Contract == [object |-> [NewObject EXCEPT !.balance[fsn] = 1, !.lock[fsn] = 1,
                                          !.cell["nonce"] = 1, !.cell["code"] = 1],
             rows |-> [NoRows EXCEPT !.balance = {fsn}, !.lock = {fsn}]]

MCGenesis == {[a \in Address |-> IF a = a2 THEN Contract ELSE Absent]}

-----------------------------------------------------------------------------
\* The roots rootA and rootB share a leaf, which rootA holds twice; it is an
\* account with a storage root.
VARIABLES cache, disk, live, todo, clear, archive

trieVars == <<cache, disk, live, todo, clear, archive>>

TrieNode == {root0, rootA, rootB, leaf, store}
TrieEmbedded ==
    [n \in TrieNode |-> CASE n = rootA -> <<leaf, leaf>> [] n = rootB -> <<leaf>> [] OTHER -> <<>>]
TrieExternal == [n \in TrieNode |-> IF n = leaf THEN {store} ELSE {}]

Tries == INSTANCE TrieDatabase WITH
    Node <- TrieNode, Embedded <- TrieEmbedded, External <- TrieExternal,
    Roots <- {root0, rootA, rootB}, Genesis <- root0, MaxBlocks <- 2, db <- cache

ASSUME Tries!TrieDatabaseAssumption

-----------------------------------------------------------------------------
VARIABLE part

StateInit ==
    /\ part \in {"journal", "trie"}
    /\ Init
    /\ Tries!Init
    /\ part # "trie" => ~archive

StateNext ==
    /\ UNCHANGED part
    /\ \/ part = "journal" /\ Next /\ UNCHANGED trieVars
       \/ part = "trie" /\ Tries!Next /\ UNCHANGED vars

StateSpec == StateInit /\ [][StateNext]_<<part, vars, trieVars>>

-----------------------------------------------------------------------------
\* StatesAreWhole of TrieDatabase: the states of live blocks can be read, what
\* is on disk is complete, and the flush-list is the cache (insert,
\* dereference, Cap, Commit, uncache).
StatesAreWhole == Tries!StatesAreWhole
=============================================================================
