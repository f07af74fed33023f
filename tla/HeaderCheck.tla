---------------------------- MODULE HeaderCheck ----------------------------
(***************************************************************************)
(* Which parent a header is checked against (consensus/datong).  The       *)
(* headers of a batch that insertChain (core/blockchain.go) is working on  *)
(* are not in the database yet, so it puts those before the current one in *)
(* the global glb_parents, for VerifyHeader and for Finalize, and clears   *)
(* it again, all under chainmu, which it gives up while it imports the     *)
(* pruned ancestors of a block.  The fetcher checks the headers of blocks  *)
(* that peers propagate, and the miner finalizes and writes its blocks, at *)
(* the same time and without that lock: they read the same global.  A      *)
(* slice is two words here, its array and its length, read and written one *)
(* by one.  Headers and blocks are one here, and any check may fail for a  *)
(* reason that is left out.                                                *)
(***************************************************************************)
EXTENDS Naturals, Sequences

CONSTANTS
    Header,
    Genesis,
    ParentHash(_),      \* the parent of a header other than genesis
    Batches,            \* the sequences of linked headers that may be imported
    Importer,           \* calls of insertChain that may go on at one time
    Checker,            \* goroutines that check or finalize one header
    None

HeaderCheckAssumption ==
    /\ Genesis \in Header
    /\ \A h \in Header \ {Genesis} : ParentHash(h) \in Header
    /\ Batches \subseteq Seq(Header \ {Genesis}) \ {<<>>}
    /\ \A b \in Batches : \A i \in 2 .. Len(b) : ParentHash(b[i]) = b[i - 1]
    /\ None \notin Importer \cup Batches

VARIABLES
    known,      \* blocks in the database
    states,     \* those whose state can be opened
    future,     \* futureBlocks
    array, len, \* glb_parents
    chainmu,    \* the importer inside insertChain, or None
    pc, batch, index,   \* of every importer
    err,        \* its last error
    check,      \* what every checker is doing
    failed      \* history: importers that were refused a parent they had

dbVars == <<known, states, future>>
vars == <<dbVars, array, len, chainmu, pc, batch, index, err, check, failed>>

NoCheck == [step |-> "idle", header |-> Genesis, array |-> None, len |-> 0,
            quiet |-> TRUE]

Init ==
    /\ known = {Genesis} /\ states = {Genesis} /\ future = {}
    /\ array = None /\ len = 0 /\ chainmu = None
    /\ pc = [p \in Importer |-> "idle"]
    /\ batch = [p \in Importer |-> <<>>] /\ index = [p \in Importer |-> 0]
    /\ err = [p \in Importer |-> "nil"]
    /\ check = [c \in Checker |-> NoCheck]
    /\ failed = {}

\* getParent: the last of the given parents when there are any, otherwise
\* what the database has; in either case it must be the parent.  A length
\* beyond the array (a slice half written) yields no parent.
getParentOf(header, parents, length) ==
    LET found == IF parents # None /\ length > 0
                   THEN IF length <= Len(parents) THEN {parents[length]} ELSE {}
                   ELSE known
    IN  ParentHash(header) \in found

-----------------------------------------------------------------------------
(* insertChain *)

\* A check that is going on is no longer alone.
Noticed == [c \in Checker |-> [check[c] EXCEPT !.quiet = @ /\ check[c].step = "idle"]]

block(p) == batch[p][index[p]]

\* The parent is in the batch or in the database.
Linked(p) == index[p] > 1 \/ ParentHash(block(p)) \in known

\* A batch of linked blocks, known ones included.
insertChain(p, blocks) ==
    /\ pc[p] = "idle" /\ chainmu = None
    /\ chainmu' = p
    /\ batch' = [batch EXCEPT ![p] = blocks] /\ index' = [index EXCEPT ![p] = 1]
    /\ pc' = [pc EXCEPT ![p] = "verify"]
    /\ check' = Noticed
    /\ UNCHANGED <<dbVars, array, len, err, failed>>

\* The node shuts down, or the block is a banned one.
Abort(p) ==
    /\ pc[p] = "verify"
    /\ pc' = [pc EXCEPT ![p] = "done"]
    /\ UNCHANGED <<dbVars, array, len, chainmu, batch, index, err, check, failed>>

\* SetHeaders(headers[:i]), before VerifyHeader and before Process: one of the
\* two words of the slice, then both.
SetHeadersHalf(p) ==
    /\ pc[p] \in {"verify", "process"}
    /\ \/ len' = index[p] - 1 /\ array' = array
       \/ array' = batch[p] /\ len' = len
    /\ pc' = [pc EXCEPT ![p] = IF @ = "verify" THEN "verify half" ELSE "process half"]
    /\ UNCHANGED <<dbVars, chainmu, batch, index, err, check, failed>>

SetHeaders(p) ==
    /\ pc[p] \in {"verify half", "process half"}
    /\ array' = batch[p] /\ len' = index[p] - 1
    /\ pc' = [pc EXCEPT ![p] = IF @ = "verify half" THEN "VerifyHeader" ELSE "Process"]
    /\ UNCHANGED <<dbVars, chainmu, batch, index, err, check, failed>>

\* BlockValidator.ValidateBody.
ValidateBody(b) ==
    CASE b \in states -> "known"
      [] b \notin states /\ ParentHash(b) \in states -> "nil"
      [] b \notin states /\ ParentHash(b) \in known \ states -> "pruned"
      [] OTHER -> "unknown ancestor"

\* VerifyHeader and ValidateBody: a header may also be wrong or in the future,
\* which is looked at first.
VerifyErrors(p) ==
    {"other", "future",
     IF getParentOf(block(p), array, len) THEN ValidateBody(block(p)) ELSE "unknown ancestor"}

\* Mutant: an import that fails returns at once, with the parents still set.
VerifyHeaderReturns(p) ==
    /\ pc[p] = "VerifyHeader"
    /\ \E e \in VerifyErrors(p) :
         /\ err' = [err EXCEPT ![p] = e]
         /\ pc' = [pc EXCEPT ![p] = IF e = "other" THEN "done" ELSE "verified"]
    /\ failed' = IF Linked(p) /\ ~getParentOf(block(p), array, len) THEN failed \cup {p} ELSE failed
    /\ UNCHANGED <<dbVars, array, len, chainmu, batch, index, check>>

VerifyHeader(p) ==
    /\ pc[p] = "VerifyHeader"
    /\ \E e \in VerifyErrors(p) : err' = [err EXCEPT ![p] = e]
    /\ failed' = IF Linked(p) /\ ~getParentOf(block(p), array, len) THEN failed \cup {p} ELSE failed
    /\ pc' = [pc EXCEPT ![p] = "verified"]
    /\ UNCHANGED <<dbVars, array, len, chainmu, batch, index, check>>

\* SetHeaders(nil).
ClearHeadersHalf(p) ==
    /\ pc[p] \in {"verified", "processed"}
    /\ \/ len' = 0 /\ array' = array
       \/ array' = None /\ len' = len
    /\ pc' = [pc EXCEPT ![p] = IF @ = "verified" THEN "verified half" ELSE "processed half"]
    /\ UNCHANGED <<dbVars, chainmu, batch, index, err, check, failed>>

ClearHeaders(p) ==
    /\ pc[p] \in {"verified half", "processed half"}
    /\ array' = None /\ len' = 0
    /\ pc' = [pc EXCEPT ![p] = IF @ = "verified half" THEN "switch"
                               ELSE IF err[p] = "nil" THEN "write" ELSE "done"]
    /\ UNCHANGED <<dbVars, chainmu, batch, index, err, check, failed>>

\* On to the next block.
Continue(p) ==
    /\ index' = [index EXCEPT ![p] = @ + 1]
    /\ pc' = [pc EXCEPT ![p] = IF index[p] = Len(batch[p]) THEN "done" ELSE "verify"]

\* A known block is passed over, if it is not above the current one.
Ignore(p) ==
    /\ pc[p] = "switch" /\ err[p] = "known"
    /\ Continue(p)
    /\ UNCHANGED <<dbVars, array, len, chainmu, batch, err, check, failed>>

\* A block of the future, or on one, waits.
AddFuture(p) ==
    /\ pc[p] = "switch"
    /\ err[p] = "future" \/ (err[p] = "unknown ancestor" /\ ParentHash(block(p)) \in future)
    /\ future' = future \cup {block(p)}
    /\ Continue(p)
    /\ UNCHANGED <<known, states, array, len, chainmu, batch, err, check, failed>>

\* A block on a pruned one is stored only, while the canonical chain is heavier.
WriteBlockWithoutState(p) ==
    /\ pc[p] = "switch" /\ err[p] = "pruned"
    /\ known' = known \cup {block(p)}
    /\ Continue(p)
    /\ UNCHANGED <<states, future, array, len, chainmu, batch, err, check, failed>>

\* The pruned ancestors of a winner are imported, by a call of its own that
\* takes the lock; this one goes on when it has the lock again.
ImportWinner(p) ==
    /\ pc[p] = "switch" /\ err[p] = "pruned"
    /\ chainmu' = None
    /\ pc' = [pc EXCEPT ![p] = "waiting"]
    /\ UNCHANGED <<dbVars, array, len, batch, index, err, check, failed>>

Relock(p) ==
    /\ pc[p] = "waiting" /\ chainmu = None
    /\ chainmu' = p
    /\ pc' = [pc EXCEPT ![p] = "open"]
    /\ check' = Noticed
    /\ UNCHANGED <<dbVars, array, len, batch, index, err, failed>>

Proceed(p) ==
    /\ pc[p] = "switch" /\ err[p] \in {"nil", "known"}
    /\ pc' = [pc EXCEPT ![p] = "open"]
    /\ UNCHANGED <<dbVars, array, len, chainmu, batch, index, err, check, failed>>

\* insertChain returns with an error: of the check, because the block is too far
\* in the future or could not be stored, of the ancestors' import or of StateAt.
Refuse(p) ==
    /\ \/ pc[p] = "switch" /\ err[p] \notin {"nil", "known"}
       \/ pc[p] = "open"
    /\ pc' = [pc EXCEPT ![p] = "done"]
    /\ UNCHANGED <<dbVars, array, len, chainmu, batch, index, err, check, failed>>

StateAt(p) ==
    /\ pc[p] = "open" /\ ParentHash(block(p)) \in states
    /\ pc' = [pc EXCEPT ![p] = "process"]
    /\ UNCHANGED <<dbVars, array, len, chainmu, batch, index, err, check, failed>>

\* Process, and Finalize, which looks up the parent again.
Process(p) ==
    /\ pc[p] = "Process"
    /\ LET found == getParentOf(block(p), array, len)
       IN  /\ \E e \in IF found THEN {"nil", "other"} ELSE {"other"} : err' = [err EXCEPT ![p] = e]
           /\ failed' = IF found THEN failed ELSE failed \cup {p}
    /\ pc' = [pc EXCEPT ![p] = "processed"]
    /\ UNCHANGED <<dbVars, array, len, chainmu, batch, index, check>>

\* WriteBlockWithState: the states of older blocks may be dropped for that of
\* the new one.
Stored(b) ==
    /\ known' = known \cup {b} /\ future' = future \ {b}
    /\ \E kept \in SUBSET states : Genesis \in kept /\ states' = kept \cup {b}

WriteBlock(p) ==
    /\ pc[p] = "write"
    /\ Stored(block(p))
    /\ Continue(p)
    /\ UNCHANGED <<array, len, chainmu, batch, err, check, failed>>

\* ValidateState fails, or WriteBlockWithState before or after the block itself
\* is in the database.
WriteFails(p) ==
    /\ pc[p] = "write"
    /\ known' \in {known, known \cup {block(p)}}
    /\ pc' = [pc EXCEPT ![p] = "done"]
    /\ UNCHANGED <<states, future, array, len, chainmu, batch, index, err, check, failed>>

Unlock(p) ==
    /\ pc[p] = "done"
    /\ chainmu' = None
    /\ pc' = [pc EXCEPT ![p] = "idle"]
    /\ batch' = [batch EXCEPT ![p] = <<>>] /\ index' = [index EXCEPT ![p] = 0]
    /\ err' = [err EXCEPT ![p] = "nil"]
    /\ UNCHANGED <<dbVars, array, len, check, failed>>

-----------------------------------------------------------------------------
(* The fetcher's VerifyHeader, and the miner's Finalize and its block *)

\* A header on a known parent: the fetcher imports a block only when it has
\* the parent, the miner works on the current block.
BeginCheck(c, header) ==
    /\ check[c].step = "idle"
    /\ header # Genesis /\ ParentHash(header) \in known
    /\ check' = [check EXCEPT ![c] = [step |-> "read", header |-> header, array |-> array,
                                      len |-> len, quiet |-> chainmu = None]]
    /\ UNCHANGED <<dbVars, array, len, chainmu, pc, batch, index, err, failed>>

\* Either word of the slice may have been read first.
EndCheck(c) ==
    /\ check[c].step = "read"
    /\ \E parents \in {array, check[c].array}, length \in {len, check[c].len} :
         check' = [check EXCEPT ![c].step =
                     IF getParentOf(check[c].header, parents, length) THEN "accepted" ELSE "refused"]
    /\ UNCHANGED <<dbVars, array, len, chainmu, pc, batch, index, err, failed>>

Return(c) ==
    /\ check[c].step \in {"accepted", "refused"}
    /\ check' = [check EXCEPT ![c] = NoCheck]
    /\ UNCHANGED <<dbVars, array, len, chainmu, pc, batch, index, err, failed>>

\* The worker writes a block of its own, which is a new one.
Mine(b) ==
    /\ b \notin known /\ ParentHash(b) \in states
    /\ Stored(b)
    /\ UNCHANGED <<array, len, chainmu, pc, batch, index, err, check, failed>>

Switch(p) ==
    Ignore(p) \/ AddFuture(p) \/ WriteBlockWithoutState(p) \/ ImportWinner(p) \/ Proceed(p) \/ Refuse(p)

Import(p) ==
    \/ \E blocks \in Batches : insertChain(p, blocks)
    \/ Abort(p) \/ SetHeadersHalf(p) \/ SetHeaders(p) \/ VerifyHeader(p)
    \/ ClearHeadersHalf(p) \/ ClearHeaders(p) \/ Switch(p) \/ Relock(p) \/ StateAt(p)
    \/ Process(p) \/ WriteBlock(p) \/ WriteFails(p) \/ Unlock(p)

Check(c) == (\E h \in Header : BeginCheck(c, h)) \/ EndCheck(c) \/ Return(c)

Next ==
    \/ \E p \in Importer : Import(p)
    \/ \E c \in Checker : Check(c)
    \/ \E b \in Header : Mine(b)

Spec == Init /\ [][Next]_vars

-----------------------------------------------------------------------------
(* Properties *)

\* A header whose parent is there is not refused for its ancestry: no import is
\* refused a block whose parent is in its batch or in the database, whoever else
\* imports, checks or mines at the same time, and no check is refused that no
\* import overlaps, also after imports that failed at any point.
LinkedIsAccepted ==
    /\ failed = {}
    /\ \A c \in Checker : check[c].step = "refused" => ~check[c].quiet
=============================================================================
