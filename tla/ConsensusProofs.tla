-------------------------- MODULE ConsensusProofs --------------------------
(***************************************************************************)
(* The two engines.                                                        *)
(*                                                                         *)
(* Clique, for any accounts, genesis signers and epoch: the tally is the   *)
(* count of the standing votes, Seal and apply agree on who may sign, and  *)
(* at least half of the signers may always sign.  With one signing key, a  *)
(* node that began at a checkpoint has the same signers and recent signers *)
(* as a full node, and what the worker seals would pass its verification.  *)
(* None of these is inductive.  Window says that the recent signers are    *)
(* those of the last Limit blocks, which the growth and the shrinking of   *)
(* the set of signers must keep; Tallied says the same as TallyIsVotes of  *)
(* the votes and the tally alone, relative to a set of signers, so that it *)
(* can be followed through the steps of apply; LightInv says that the node *)
(* from the checkpoint lacks only the older recent signers.                *)
(*                                                                         *)
(* DaTong: a block that is sealed is not early, a miner is not overtaken   *)
(* by one further down the list, and linked headers are not refused for    *)
(* their ancestry.                                                         *)
(***************************************************************************)
EXTENDS Clique, DaTong, Integers, Sequences, FiniteSetTheorems, TLAPS

\* Leaves are for Zenon; those with arithmetic or sequences say SMT.
USE Zenon

-----------------------------------------------------------------------------
(* Clique *)

On(votes, a) == {v \in votes : v.address = a}

Tallied(votes, tally, S) ==
    /\ votes \subseteq Vote /\ IsFiniteSet(votes)
    /\ DOMAIN tally = {v.address : v \in votes}
    /\ tally = [a \in DOMAIN tally |-> tally[a]]
    /\ \A a \in DOMAIN tally :
           tally[a] = [authorize |-> a \notin S, votes |-> Cardinality(On(votes, a))]
    /\ \A v \in votes : v.authorize <=> v.address \notin S
    /\ \A v, w \in votes : v.signer = w.signer /\ v.address = w.address => v = w

\* The fields of an entry of the tally.
LEMMA EntryAuthorize ==
    ASSUME NEW p \in BOOLEAN, NEW n, NEW e, e = [authorize |-> p, votes |-> n]
    PROVE  e.authorize = p /\ e.votes = n
  OBVIOUS

\* The votes on an account are finitely many, and some for an account of the tally.
LEMMA VotesOnAccount ==
    ASSUME NEW votes, NEW tally, NEW S, Tallied(votes, tally, S), NEW a
    PROVE  /\ IsFiniteSet(On(votes, a)) /\ Cardinality(On(votes, a)) \in Nat
           /\ a \in DOMAIN tally <=> On(votes, a) # {}
           /\ Cardinality(On(votes, a)) > 0 <=> On(votes, a) # {}
  <1>1. On(votes, a) \in SUBSET votes /\ IsFiniteSet(votes)  BY DEF On, Tallied
  <1>2. IsFiniteSet(On(votes, a))  BY <1>1, FS_Subset
  <1>3. Cardinality(On(votes, a)) \in Nat  BY <1>2, FS_CardinalityType
  <1>4. Cardinality(On(votes, a)) = 0 <=> On(votes, a) = {}  BY <1>2, FS_EmptySet
  <1>5. a \in DOMAIN tally <=> On(votes, a) # {}  BY ZenonT(40) DEF On, Tallied
  <1> QED  BY <1>2, <1>3, <1>4, <1>5, SMT

\* Discarding votes and uncasting them keeps the tally right (uncast).
LEMMA UncastKeeps ==
    ASSUME NEW votes, NEW tally, NEW S, Tallied(votes, tally, S),
           NEW gone \in SUBSET votes
    PROVE  Tallied(votes \ gone, uncast(tally, gone), S)
  <1> DEFINE rest == votes \ gone
             left == uncast(tally, gone)
  <1>1. \A a \in DOMAIN tally : Counted(tally, gone, a) = Cardinality(On(gone, a))
    <2> SUFFICES ASSUME NEW a \in DOMAIN tally
                 PROVE  {v \in gone : v.address = a /\ v.authorize = tally[a].authorize} = On(gone, a)
        BY DEF Counted
    <2>1. tally[a].authorize = (a \notin S)
      <3>1. tally[a] = [authorize |-> a \notin S, votes |-> Cardinality(On(votes, a))]  BY DEF Tallied
      <3>2. (a \notin S) \in BOOLEAN  OBVIOUS
      <3> QED  BY <3>1, <3>2, EntryAuthorize
    <2>2. \A v \in gone : v.authorize \in BOOLEAN /\ (v.authorize <=> v.address \notin S)
        BY DEF Tallied, Vote
    <2>3. \A v \in gone : v.address = a => v.authorize = (a \notin S)  BY <2>2
    <2>4. \A v \in gone : v.address = a => v.authorize = tally[a].authorize  BY <2>1, <2>3
    <2> QED  BY <2>4 DEF On
  <1>2. ASSUME NEW a
        PROVE  /\ Cardinality(On(rest, a)) = Cardinality(On(votes, a)) - Cardinality(On(gone, a))
               /\ Cardinality(On(gone, a)) \in Nat /\ Cardinality(On(rest, a)) \in Nat
               /\ Cardinality(On(rest, a)) > 0 <=> On(rest, a) # {}
    <2>1. On(rest, a) = On(votes, a) \ On(gone, a) /\ On(votes, a) \cap On(gone, a) = On(gone, a)
        BY DEF On
    <2>2. IsFiniteSet(On(votes, a)) /\ Cardinality(On(votes, a)) \in Nat  BY VotesOnAccount
    <2>3. Cardinality(On(rest, a)) = Cardinality(On(votes, a)) - Cardinality(On(gone, a))
      <3>1. Cardinality(On(votes, a) \ On(gone, a))
              = Cardinality(On(votes, a)) - Cardinality(On(votes, a) \cap On(gone, a))
        BY <2>2, FS_Difference
      <3> QED  BY <2>1, <3>1
    <2>4. On(rest, a) \in SUBSET On(votes, a) /\ On(gone, a) \in SUBSET On(votes, a)  BY DEF On
    <2>5. IsFiniteSet(On(rest, a)) /\ IsFiniteSet(On(gone, a))  BY <2>2, <2>4, FS_Subset
    <2>6. Cardinality(On(rest, a)) \in Nat /\ Cardinality(On(gone, a)) \in Nat
        BY <2>5, FS_CardinalityType
    <2>7. Cardinality(On(rest, a)) = 0 <=> On(rest, a) = {}  BY <2>5, FS_EmptySet
    <2> QED  BY <2>3, <2>6, <2>7, SMT
  <1>3. \A a \in DOMAIN tally : tally[a].votes = Cardinality(On(votes, a))
                                /\ tally[a] = [authorize |-> a \notin S, votes |-> Cardinality(On(votes, a))]
    BY SMT DEF Tallied
  <1>4. DOMAIN left = {b \in DOMAIN tally : Counted(tally, gone, b) < tally[b].votes}
    BY DEF uncast
  <1>5. DOMAIN left = {v.address : v \in rest}
    <2>1. \A b \in DOMAIN tally : Counted(tally, gone, b) < tally[b].votes <=> On(rest, b) # {}
      <3> TAKE b \in DOMAIN tally
      <3>1. Cardinality(On(votes, b)) \in Nat  BY VotesOnAccount
      <3>2. Counted(tally, gone, b) = Cardinality(On(gone, b)) /\ tally[b].votes = Cardinality(On(votes, b))
          BY <1>1, <1>3
      <3>3. Cardinality(On(gone, b)) < Cardinality(On(votes, b)) <=> Cardinality(On(rest, b)) > 0
          BY <3>1, <1>2, SMT
      <3> QED  BY <3>2, <3>3, <1>2
    <2>2. \A b : On(rest, b) # {} => b \in DOMAIN tally  BY DEF On, Tallied
    <2>3. \A b : b \in DOMAIN left <=> On(rest, b) # {}  BY <2>1, <2>2, <1>4
    <2>4. \A b : On(rest, b) # {} <=> b \in {v.address : v \in rest}  BY DEF On
    <2> QED  BY <2>3, <2>4
  <1>6. left = [a \in DOMAIN left |-> left[a]]  BY DEF uncast
  <1>7. ASSUME NEW a \in DOMAIN left
        PROVE  left[a] = [authorize |-> a \notin S, votes |-> Cardinality(On(rest, a))]
    <2>1. a \in DOMAIN tally  BY <1>4
    <2>2. left[a] = [tally[a] EXCEPT !.votes = tally[a].votes - Counted(tally, gone, a)]
        BY <1>4 DEF uncast
    <2> QED  BY <2>1, <2>2, <1>1, <1>2, <1>3, SMT
  <1>8. rest \subseteq Vote /\ IsFiniteSet(rest)
    <2>1. rest \in SUBSET votes /\ IsFiniteSet(votes) /\ votes \subseteq Vote  BY DEF Tallied
    <2> QED  BY <2>1, FS_Subset
  <1>9. \A v \in rest : v.authorize <=> v.address \notin S  BY DEF Tallied
  <1>10. \A v, w \in rest : v.signer = w.signer /\ v.address = w.address => v = w  BY DEF Tallied
  <1> QED  BY <1>5, <1>6, <1>7, <1>8, <1>9, <1>10 DEF Tallied

\* Casting a valid vote that the signer has not cast keeps the tally right (cast).
LEMMA CastKeeps ==
    ASSUME NEW votes, NEW tally, NEW S, Tallied(votes, tally, S),
           NEW v \in Vote, v.authorize <=> v.address \notin S,
           \A w \in votes : ~(w.signer = v.signer /\ w.address = v.address)
    PROVE  Tallied(votes \cup {v}, cast(tally, v.address, v.authorize), S)
  <1> DEFINE all == votes \cup {v}
             more == cast(tally, v.address, v.authorize)
             b == v.address
  <1>1. DOMAIN more = DOMAIN tally \cup {b}  BY DEF cast
  <1>2. DOMAIN more = {w.address : w \in all}  BY <1>1, SMT DEF Tallied
  <1>3. v \notin votes  OBVIOUS
  <1>4. /\ IsFiniteSet(On(votes, b)) /\ Cardinality(On(votes, b)) \in Nat
        /\ b \in DOMAIN tally <=> On(votes, b) # {}
    BY VotesOnAccount
  <1>5. On(all, b) = On(votes, b) \cup {v} /\ v \notin On(votes, b)  BY <1>3 DEF On
  <1>6. Cardinality(On(all, b)) = Cardinality(On(votes, b)) + 1  BY <1>4, <1>5, FS_AddElement
  <1>7. more[b] = [authorize |-> b \notin S, votes |-> Cardinality(On(all, b))]
    <2>1. more[b] = IF b \in DOMAIN tally THEN [tally[b] EXCEPT !.votes = tally[b].votes + 1]
                    ELSE [authorize |-> v.authorize, votes |-> 1]
        BY DEF cast
    <2>2. CASE b \in DOMAIN tally
      <3>1. tally[b] = [authorize |-> b \notin S, votes |-> Cardinality(On(votes, b))]
          BY <2>2 DEF Tallied
      <3> QED  BY <2>1, <2>2, <3>1, <1>6, SMT
    <2>3. CASE b \notin DOMAIN tally
      <3>1. Cardinality(On(votes, b)) = 0  BY <2>3, <1>4, FS_EmptySet
      <3>2. v.authorize = (b \notin S)  BY DEF Vote
      <3> QED  BY <2>1, <2>3, <3>1, <3>2, <1>6, SMT
    <2> QED  BY <2>2, <2>3
  <1>8. ASSUME NEW a \in DOMAIN more, a # b
        PROVE  more[a] = [authorize |-> a \notin S, votes |-> Cardinality(On(all, a))]
    <2>1. On(all, a) = On(votes, a)  BY <1>8 DEF On
    <2>2. more[a] = tally[a] /\ a \in DOMAIN tally  BY <1>8, <1>1 DEF cast
    <2> QED  BY <2>1, <2>2 DEF Tallied
  <1>9. more = [a \in DOMAIN more |-> more[a]]  BY DEF cast
  <1>10. all \subseteq Vote /\ IsFiniteSet(all)  BY FS_AddElement DEF Tallied
  <1>11. \A w \in all : w.authorize <=> w.address \notin S  BY DEF Tallied
  <1>12. \A x, w \in all : x.signer = w.signer /\ x.address = w.address => x = w  BY DEF Tallied
  <1> QED  BY <1>2, <1>7, <1>8, <1>9, <1>10, <1>11, <1>12, ZenonT(40) DEF Tallied

\* When an account changes sides and its votes go, the tally of the others is
\* right for the new signers (the last loop of apply).
LEMMA SettleKeeps ==
    ASSUME NEW votes, NEW tally, NEW S, NEW T, NEW a, Tallied(votes, tally, S),
           \A x : x # a => (x \in S <=> x \in T)
    PROVE  Tallied({v \in votes : v.address # a}, Delete(tally, a), T)
  <1> DEFINE rest == {v \in votes : v.address # a}
             left == Delete(tally, a)
  <1>1. DOMAIN left = DOMAIN tally \ {a} /\ \A x \in DOMAIN left : left[x] = tally[x]  BY DEF Delete
  <1>2. DOMAIN left = {v.address : v \in rest}  BY <1>1, SMT DEF Tallied
  <1>3. ASSUME NEW x \in DOMAIN left
        PROVE  left[x] = [authorize |-> x \notin T, votes |-> Cardinality(On(rest, x))]
    <2>1. x # a /\ x \in DOMAIN tally /\ left[x] = tally[x]  BY <1>1
    <2>2. On(rest, x) = On(votes, x)  BY <2>1 DEF On
    <2>3. tally[x] = [authorize |-> x \notin S, votes |-> Cardinality(On(votes, x))]  BY <2>1 DEF Tallied
    <2>4. (x \notin S) = (x \notin T)  BY <2>1
    <2> QED  BY <2>1, <2>2, <2>3, <2>4
  <1>4. left = [x \in DOMAIN left |-> left[x]]  BY DEF Delete
  <1>5. rest \subseteq Vote /\ IsFiniteSet(rest)
    <2>1. rest \in SUBSET votes /\ IsFiniteSet(votes) /\ votes \subseteq Vote  BY DEF Tallied
    <2> QED  BY <2>1, FS_Subset
  <1>6. \A v \in rest : v.authorize <=> v.address \notin T  BY DEF Tallied
  <1>7. \A v, w \in rest : v.signer = w.signer /\ v.address = w.address => v = w  BY DEF Tallied
  <1> QED  BY <1>2, <1>3, <1>4, <1>5, <1>6, <1>7 DEF Tallied

-----------------------------------------------------------------------------
\* The recent signers are signers of the last blocks: those above n - limit.
Window(recents, limit, n) ==
    /\ DOMAIN recents \subseteq Nat
    /\ \A k \in DOMAIN recents : recents[k] \in Address /\ n - limit < k /\ k <= n

Fields == {"number", "signers", "recents", "votes", "tally"}
IsSnapshot(s) == s = [f \in Fields |-> s[f]]

\* A snapshot whose recent signers end with block n.
SnapshotAt(s, n) ==
    /\ IsSnapshot(s)
    /\ s.number \in Nat /\ s.signers \subseteq Address
    /\ Window(s.recents, Limit(s.signers), n)
    /\ Tallied(s.votes, s.tally, s.signers)
    /\ \A v \in s.votes : v.signer \in s.signers

SnapshotInv(s) == SnapshotAt(s, s.number)

\* What Prepare and Seal put into a header.
Honest(h) ==
    /\ h.number \in Nat /\ h.signer \in Address
    /\ h.coinbase \in Address \cup {Zero} /\ h.authorize \in BOOLEAN
    /\ h.coinbase = Zero => ~h.authorize

\* The window grows with the signers, and shrinks by at most one block when
\* one of them is dropped.
LEMMA LimitChanges ==
    ASSUME NEW S \in SUBSET Address, NEW a \in Address
    PROVE  /\ Limit(S) \in Nat \ {0} /\ Limit(S \cup {a}) \in Nat /\ Limit(S \ {a}) \in Nat
           /\ Limit(S \cup {a}) >= Limit(S)
           /\ Limit(S \ {a}) \in {Limit(S), Limit(S) - 1}
           /\ Cardinality(S) \in Nat /\ Limit(S) - 1 = Cardinality(S) \div 2
  <1>1. IsFiniteSet(S)  BY CliqueAssumption, FS_Subset
  <1>2. Cardinality(S) \in Nat  BY <1>1, FS_CardinalityType
  <1>3. Cardinality(S \cup {a}) = IF a \in S THEN Cardinality(S) ELSE Cardinality(S) + 1
    BY <1>1, FS_AddElement
  <1>4. Cardinality(S \ {a}) = IF a \in S THEN Cardinality(S) - 1 ELSE Cardinality(S)
    BY <1>1, FS_RemoveElement
  <1>5. a \in S => Cardinality(S) > 0  BY <1>1, <1>2, FS_EmptySet, SMT
  <1> HIDE DEF Limit
  <1>6. Limit(S) = Cardinality(S) \div 2 + 1 /\ Limit(S \cup {a}) = Cardinality(S \cup {a}) \div 2 + 1
        /\ Limit(S \ {a}) = Cardinality(S \ {a}) \div 2 + 1
    BY DEF Limit
  <1>7. \A c \in Nat : /\ c \div 2 \in Nat /\ (c + 1) \div 2 \in Nat /\ (c + 1) \div 2 >= c \div 2
                       /\ (c + 1) \div 2 <= c \div 2 + 1
    BY SMT
  <1>8. CASE a \in S
    <2>1. Cardinality(S) - 1 \in Nat /\ (Cardinality(S) - 1) + 1 = Cardinality(S)  BY <1>2, <1>5, <1>8, SMT
    <2> QED  BY <2>1, <1>2, <1>3, <1>4, <1>6, <1>7, <1>8, SMT
  <1>9. CASE a \notin S  BY <1>2, <1>3, <1>4, <1>6, <1>7, <1>9, SMT
  <1> QED  BY <1>8, <1>9

\* Begin shifts the oldest signer out and empties the votes at a checkpoint.
LEMMA BeginKeeps ==
    ASSUME NEW s, SnapshotInv(s), NEW h, h.number = s.number + 1
    PROVE  LET b == Begin(s, h)
           IN  /\ SnapshotAt(b, s.number)
               /\ b.number = s.number /\ b.signers = s.signers
               /\ \A k \in DOMAIN b.recents : h.number - Limit(s.signers) < k
               /\ b.recents = Delete(s.recents, h.number - Limit(s.signers))
               /\ b.votes \subseteq s.votes
  <1> DEFINE b == Begin(s, h)
             key == h.number - Limit(s.signers)
  <1>1. /\ IsSnapshot(s) /\ s.number \in Nat /\ s.signers \subseteq Address
        /\ Window(s.recents, Limit(s.signers), s.number)
        /\ Tallied(s.votes, s.tally, s.signers)
        /\ \A v \in s.votes : v.signer \in s.signers
    BY DEF SnapshotInv, SnapshotAt
  <1>2. /\ h.number % Epoch = 0 => b.votes = {} /\ b.tally = Empty
        /\ h.number % Epoch # 0 => b.votes = s.votes /\ b.tally = s.tally
    BY <1>1 DEF Begin, IsSnapshot, Fields
  <1>3. /\ IsSnapshot(b) /\ b.number = s.number /\ b.signers = s.signers
        /\ b.recents = Delete(s.recents, key)
    BY <1>1 DEF Begin, IsSnapshot, Fields
  <1> HIDE DEF b
  <1>4. Limit(s.signers) \in Nat
    <2>1. IsFiniteSet(s.signers)  BY <1>1, CliqueAssumption, FS_Subset
    <2>2. Cardinality(s.signers) \in Nat  BY <2>1, FS_CardinalityType
    <2> QED  BY <2>2, SMT DEF Limit
  <1>5. DOMAIN b.recents = DOMAIN s.recents \ {key} /\ \A k \in DOMAIN b.recents : b.recents[k] = s.recents[k]
    BY <1>3 DEF Delete
  <1>6. \A k \in DOMAIN b.recents : key < k  BY <1>1, <1>4, <1>5, SMT DEF Window
  <1>7. Window(b.recents, Limit(b.signers), s.number)  BY <1>1, <1>3, <1>5 DEF Window
  <1>8. Tallied(b.votes, b.tally, b.signers)
    <2>1. CASE h.number % Epoch = 0
      <3>1. b.votes = {} /\ b.tally = Empty  BY <1>2, <2>1
      <3>2. DOMAIN Empty = {} /\ Empty = [a \in DOMAIN Empty |-> Empty[a]]  BY DEF Empty
      <3>3. DOMAIN b.tally = {v.address : v \in b.votes}  BY <3>1, <3>2
      <3>4. IsFiniteSet(b.votes)  BY <3>1, FS_EmptySet
      <3> QED  BY <3>1, <3>2, <3>3, <3>4 DEF Tallied
    <2>2. CASE h.number % Epoch # 0  BY <1>1, <1>2, <1>3, <2>2
    <2> QED  BY <2>1, <2>2
  <1>9. \A v \in b.votes : v.signer \in b.signers
    <2>1. b.votes = {} \/ b.votes = s.votes  BY <1>2
    <2> QED  BY <2>1, <1>1, <1>3
  <1>10. b.votes \subseteq s.votes
    <2>1. b.votes = {} \/ b.votes = s.votes  BY <1>2
    <2> QED  BY <2>1
  <1> QED  BY <1>1, <1>3, <1>6, <1>7, <1>8, <1>9, <1>10 DEF SnapshotAt, b

\* Record adds the signer of the block.
LEMMA RecordKeeps ==
    ASSUME NEW s, NEW n \in Nat, SnapshotAt(s, n), NEW h, h.number = n + 1, h.signer \in Address,
           \A k \in DOMAIN s.recents : h.number - Limit(s.signers) < k
    PROVE  LET r == Record(s, h)
           IN  /\ SnapshotAt(r, h.number)
               /\ r.number = s.number /\ r.signers = s.signers
               /\ r.votes = s.votes /\ r.tally = s.tally
  <1> DEFINE r == Record(s, h)
  <1>1. IsSnapshot(s) /\ s.signers \subseteq Address /\ Window(s.recents, Limit(s.signers), n)
    BY DEF SnapshotAt
  <1>2. /\ IsSnapshot(r) /\ r.number = s.number /\ r.signers = s.signers
        /\ r.votes = s.votes /\ r.tally = s.tally
        /\ r.recents = [k \in DOMAIN s.recents \cup {h.number} |->
                           IF k = h.number THEN h.signer ELSE s.recents[k]]
    BY <1>1 DEF Record, IsSnapshot, Fields
  <1> HIDE DEF r
  <1>3. Limit(s.signers) \in Nat \ {0}
    <2>1. IsFiniteSet(s.signers)  BY <1>1, CliqueAssumption, FS_Subset
    <2>2. Cardinality(s.signers) \in Nat  BY <2>1, FS_CardinalityType
    <2> QED  BY <2>2, SMT DEF Limit
  <1>4. Window(r.recents, Limit(r.signers), h.number)  BY <1>1, <1>2, <1>3, SMT DEF Window
  <1>5. SnapshotAt(r, h.number)  BY <1>2, <1>4 DEF SnapshotAt
  <1> QED  BY <1>2, <1>5 DEF r

\* Discarding votes keeps the snapshot in order.
LEMMA RemoveVotesKeeps ==
    ASSUME NEW s, NEW n, SnapshotAt(s, n), NEW gone \in SUBSET s.votes
    PROVE  LET p == RemoveVotes(s, gone)
           IN  /\ SnapshotAt(p, n)
               /\ p.number = s.number /\ p.signers = s.signers /\ p.votes = s.votes \ gone
  <1> DEFINE p == RemoveVotes(s, gone)
  <1>1. IsSnapshot(s) /\ Tallied(s.votes, s.tally, s.signers)  BY DEF SnapshotAt
  <1>2. /\ IsSnapshot(p) /\ p.number = s.number /\ p.signers = s.signers
        /\ p.recents = s.recents
        /\ p.votes = s.votes \ gone /\ p.tally = uncast(s.tally, gone)
    BY <1>1 DEF RemoveVotes, IsSnapshot, Fields
  <1> HIDE DEF p
  <1>3. Tallied(s.votes \ gone, uncast(s.tally, gone), s.signers)  BY <1>1, UncastKeeps
  <1>4. SnapshotAt(p, n)  BY <1>2, <1>3 DEF SnapshotAt
  <1> QED  BY <1>2, <1>4 DEF p

\* The earlier vote of the signer on the account is the only one.
LEMMA PreviousIsAll ==
    ASSUME NEW s, NEW n, SnapshotAt(s, n), NEW h
    PROVE  Previous(s, h) = {v \in s.votes : v.signer = h.signer /\ v.address = h.coinbase}
  <1>1. /\ \A v, w \in s.votes : v.signer = w.signer /\ v.address = w.address => v = w
        /\ \A v \in s.votes : v.block \in Nat
    BY DEF SnapshotAt, Tallied, Vote
  <1> QED  BY <1>1, SMT DEF Previous

\* Casting the vote of the header keeps the snapshot in order.
LEMMA CastVoteKeeps ==
    ASSUME NEW s, NEW n, SnapshotAt(s, n), NEW h, Honest(h), h.signer \in s.signers,
           \A v \in s.votes : ~(v.signer = h.signer /\ v.address = h.coinbase)
    PROVE  LET c == CastVote(s, h)
           IN  /\ SnapshotAt(c, n) /\ c.number = s.number /\ c.signers = s.signers
               /\ \A v \in c.votes : \/ v \in s.votes
                                     \/ v.signer = h.signer /\ v.address = h.coinbase
  <1> DEFINE c == CastVote(s, h)
             v == [signer |-> h.signer, block |-> h.number,
                   address |-> h.coinbase, authorize |-> h.authorize]
  <1>1. IsSnapshot(s) /\ Tallied(s.votes, s.tally, s.signers) /\ s.signers \subseteq Address
    BY DEF SnapshotAt
  <1>2. CASE validVote(s.signers, h.coinbase, h.authorize)
    <2>1. h.coinbase \in Address  BY <1>1, <1>2, CliqueAssumption DEF Honest, validVote, Zero
    <2>2. v \in Vote  BY <2>1 DEF Vote, Honest
    <2>3. v.authorize <=> v.address \notin s.signers  BY <1>2 DEF validVote, Honest
    <2>4. /\ IsSnapshot(c) /\ c.number = s.number /\ c.signers = s.signers
          /\ c.recents = s.recents
          /\ c.votes = s.votes \cup {v} /\ c.tally = cast(s.tally, v.address, v.authorize)
      BY <1>1, <1>2 DEF CastVote, IsSnapshot, Fields
    <2>5. v.signer = h.signer /\ v.address = h.coinbase  OBVIOUS
    <2> HIDE DEF c, v
    <2>6. \A w \in s.votes : ~(w.signer = v.signer /\ w.address = v.address)  BY <2>5
    <2>7. Tallied(s.votes \cup {v}, cast(s.tally, v.address, v.authorize), s.signers)
      BY <1>1, <2>2, <2>3, <2>6, CastKeeps
    <2>8. \A w \in c.votes : w.signer \in c.signers  BY <2>4, <2>5 DEF SnapshotAt
    <2>9. SnapshotAt(c, n)  BY <2>4, <2>7, <2>8 DEF SnapshotAt
    <2> QED  BY <2>4, <2>5, <2>9 DEF c
  <1>3. CASE ~validVote(s.signers, h.coinbase, h.authorize)  BY <1>3 DEF CastVote
  <1> QED  BY <1>2, <1>3

\* A vote that passed changes one account, and the snapshot stays in order.
LEMMA EnactKeeps ==
    ASSUME NEW s, NEW n \in Nat, SnapshotAt(s, n), NEW h, h.number = n
    PROVE  LET e == Enact(s, h)
               a == h.coinbase
           IN  /\ SnapshotAt(e, n) /\ e.number = s.number
               /\ \/ e.signers = s.signers
                  \/ /\ e.signers = IF a \in s.signers THEN s.signers \ {a} ELSE s.signers \cup {a}
                     /\ Cardinality(On(s.votes, a)) > Cardinality(s.signers) \div 2
  <1> DEFINE e == Enact(s, h)
             a == h.coinbase
  <1>1. /\ IsSnapshot(s) /\ s.number \in Nat /\ s.signers \in SUBSET Address
        /\ Window(s.recents, Limit(s.signers), n)
        /\ Tallied(s.votes, s.tally, s.signers)
        /\ \A v \in s.votes : v.signer \in s.signers
    BY DEF SnapshotAt
  <1>2. CASE ~Passed(s, a)  BY <1>2 DEF Enact
  <1>3. CASE Passed(s, a)
    <2>1. a \in DOMAIN s.tally /\ s.tally[a].votes > Cardinality(s.signers) \div 2  BY <1>3 DEF Passed
    <2>2. a \in Address
      <3>1. PICK v \in s.votes : v.address = a  BY <1>1, <2>1 DEF Tallied
      <3> QED  BY <3>1, <1>1 DEF Tallied, Vote
    <2>3. s.tally[a].authorize = (a \notin s.signers) /\ s.tally[a].votes = Cardinality(On(s.votes, a))
      <3>1. s.tally[a] = [authorize |-> a \notin s.signers, votes |-> Cardinality(On(s.votes, a))]
          BY <1>1, <2>1 DEF Tallied
      <3>2. (a \notin s.signers) \in BOOLEAN  OBVIOUS
      <3> QED  BY <3>1, <3>2, EntryAuthorize, SMT
    <2>4. Cardinality(On(s.votes, a)) > Cardinality(s.signers) \div 2  BY <2>1, <2>3
    <2>5. /\ Limit(s.signers) \in Nat \ {0} /\ Limit(s.signers \cup {a}) \in Nat
          /\ Limit(s.signers \ {a}) \in Nat
          /\ Limit(s.signers \cup {a}) >= Limit(s.signers)
          /\ Limit(s.signers \ {a}) \in {Limit(s.signers), Limit(s.signers) - 1}
      BY <1>1, <2>2, LimitChanges
    <2>6. CASE a \notin s.signers
      <3> DEFINE x == [s EXCEPT !.signers = @ \cup {a}]
      <3>1. e = Settle(x, a)  BY <1>3, <2>3, <2>6 DEF Enact
      <3>2. /\ IsSnapshot(x) /\ x.number = s.number /\ x.signers = s.signers \cup {a}
            /\ x.recents = s.recents /\ x.votes = s.votes /\ x.tally = s.tally
        BY <1>1 DEF IsSnapshot, Fields
      <3> HIDE DEF x, e
      <3>3. /\ IsSnapshot(e) /\ e.number = x.number /\ e.signers = x.signers
            /\ e.recents = x.recents
            /\ e.votes = {v \in x.votes : v.address # a} /\ e.tally = Delete(x.tally, a)
        BY <3>1, <3>2 DEF Settle, IsSnapshot, Fields
      <3>4. Tallied(e.votes, e.tally, e.signers)
        <4>1. \A y : y # a => (y \in s.signers <=> y \in s.signers \cup {a})  OBVIOUS
        <4>2. Tallied({v \in s.votes : v.address # a}, Delete(s.tally, a), s.signers \cup {a})
          BY <1>1, <4>1, SettleKeeps, SMT
        <4> QED  BY <4>2, <3>2, <3>3
      <3>5. Window(e.recents, Limit(e.signers), n)
        <4>1. e.recents = s.recents /\ Limit(e.signers) >= Limit(s.signers)
              /\ Limit(e.signers) \in Nat /\ Limit(s.signers) \in Nat  BY <2>5, <3>2, <3>3
        <4> QED  BY <1>1, <4>1, SMT DEF Window
      <3>6. e.signers = s.signers \cup {a} /\ e.signers \subseteq Address
            /\ \A v \in e.votes : v.signer \in e.signers
        BY <1>1, <2>2, <3>2, <3>3
      <3>7. SnapshotAt(e, n) /\ e.number = s.number  BY <1>1, <3>2, <3>3, <3>4, <3>5, <3>6 DEF SnapshotAt
      <3> QED  BY <2>4, <2>6, <3>6, <3>7 DEF e
    <2>7. CASE a \in s.signers
      <3> DEFINE rest == s.signers \ {a}
                 gone == {v \in s.votes : v.signer = a}
                 cut == [s EXCEPT !.signers = rest, !.recents = Delete(@, n - Limit(rest))]
                 d == RemoveVotes(cut, gone)
      <3>1. e = Settle(d, a)  BY <1>3, <2>3, <2>7 DEF Enact, Deauthorize
      <3>2. /\ IsSnapshot(cut) /\ cut.number = s.number /\ cut.signers = rest
            /\ cut.recents = Delete(s.recents, n - Limit(rest))
            /\ cut.votes = s.votes /\ cut.tally = s.tally
        BY <1>1 DEF IsSnapshot, Fields
      <3> HIDE DEF cut, e
      <3>3. /\ IsSnapshot(d) /\ d.number = cut.number /\ d.signers = cut.signers
            /\ d.recents = cut.recents
            /\ d.votes = cut.votes \ gone /\ d.tally = uncast(cut.tally, gone)
        BY <3>2 DEF RemoveVotes, IsSnapshot, Fields
      <3> HIDE DEF d
      <3>4. /\ IsSnapshot(e) /\ e.number = d.number /\ e.signers = d.signers
            /\ e.recents = d.recents
            /\ e.votes = {v \in d.votes : v.address # a} /\ e.tally = Delete(d.tally, a)
        BY <3>1, <3>3 DEF Settle, IsSnapshot, Fields
      <3>5. Tallied(d.votes, d.tally, s.signers)
        <4>1. gone \in SUBSET s.votes  OBVIOUS
        <4>2. Tallied(s.votes \ gone, uncast(s.tally, gone), s.signers)  BY <1>1, <4>1, UncastKeeps
        <4> QED  BY <4>2, <3>2, <3>3
      <3>6. Tallied(e.votes, e.tally, e.signers)
        <4>1. \A y : y # a => (y \in s.signers <=> y \in rest)  OBVIOUS
        <4>2. Tallied({v \in d.votes : v.address # a}, Delete(d.tally, a), rest)
          BY <3>5, <4>1, SettleKeeps, SMT
        <4> QED  BY <4>2, <3>2, <3>3, <3>4
      <3>7. Window(e.recents, Limit(e.signers), n)
        <4>1. e.recents = Delete(s.recents, n - Limit(rest)) /\ Limit(e.signers) = Limit(rest)
          BY <3>2, <3>3, <3>4
        <4>2. DOMAIN e.recents = DOMAIN s.recents \ {n - Limit(rest)}
              /\ \A k \in DOMAIN e.recents : e.recents[k] = s.recents[k]  BY <4>1 DEF Delete
        <4>3. \A k \in DOMAIN e.recents : n - Limit(rest) < k  BY <1>1, <2>5, <4>2, SMT DEF Window
        <4> QED  BY <1>1, <4>1, <4>2, <4>3 DEF Window
      <3>8. e.signers = rest /\ \A v \in e.votes : v.signer \in e.signers
        BY <1>1, <3>2, <3>3, <3>4
      <3>9. SnapshotAt(e, n) /\ e.number = s.number
        BY <1>1, <3>2, <3>3, <3>4, <3>6, <3>7, <3>8 DEF SnapshotAt
      <3> QED  BY <2>4, <2>7, <3>8, <3>9 DEF e
    <2> QED  BY <2>6, <2>7
  <1> QED  BY <1>2, <1>3

\* The signers who stand for a change of the account with the header.
Standing(s, h) ==
    ({v.signer : v \in {w \in s.votes : w.address = h.coinbase}} \cap s.signers) \cup {h.signer}

\* Votes on one account, of different signers, are as many as their signers.
LEMMA VotersCount ==
    ASSUME NEW X, NEW Y, IsFiniteSet(Y), \A v \in X : v.signer \in Y,
           \A v, w \in X : v.signer = w.signer => v = w
    PROVE  Cardinality(X) <= Cardinality(Y)
  <1> DEFINE f == [v \in X |-> v.signer]
  <1>1. f \in Injection(X, Y)  BY DEF Injection, IsInjective
  <1> QED  BY <1>1, FS_Injection

\* apply keeps a snapshot in order, and changes the signers by a majority.
LEMMA ApplyKeeps ==
    ASSUME NEW s, SnapshotInv(s), NEW h, Honest(h), CanApply(s, h)
    PROVE  /\ SnapshotInv(apply(s, h))
           /\ LET a == h.coinbase
                  t == apply(s, h).signers
              IN  \/ t = s.signers
                  \/ /\ t = IF a \in s.signers THEN s.signers \ {a} ELSE s.signers \cup {a}
                     /\ 2 * Cardinality(Standing(s, h)) > Cardinality(s.signers)
  <1> DEFINE b == Begin(s, h)
             r == Record(b, h)
             p == RemoveVotes(r, Previous(r, h))
             c == CastVote(p, h)
             e == Enact(c, h)
  <1>1. h.number = s.number + 1 /\ s.number \in Nat /\ MaySign(b, h.signer) /\ h.number \in Nat
        /\ h.signer \in Address
    BY DEF CanApply, SnapshotInv, SnapshotAt, Honest
  <1>2. /\ SnapshotAt(b, s.number) /\ b.number = s.number /\ b.signers = s.signers
        /\ \A k \in DOMAIN b.recents : h.number - Limit(b.signers) < k
        /\ b.votes \subseteq s.votes
    BY <1>1, BeginKeeps
  <1>3. h.signer \in b.signers  BY <1>1 DEF MaySign
  <1> HIDE DEF b
  <1>4. SnapshotAt(r, h.number) /\ r.number = b.number /\ r.signers = b.signers
        /\ r.votes = b.votes
    BY <1>1, <1>2, RecordKeeps, ZenonT(40)
  <1> HIDE DEF r
  <1>5. Previous(r, h) = {v \in r.votes : v.signer = h.signer /\ v.address = h.coinbase}
    BY <1>4, PreviousIsAll
  <1>6. Previous(r, h) \in SUBSET r.votes  BY <1>5
  <1>7. /\ SnapshotAt(p, h.number) /\ p.number = r.number /\ p.signers = r.signers
        /\ p.votes = r.votes \ Previous(r, h)
    BY <1>4, <1>6, RemoveVotesKeeps, SMT
  <1> HIDE DEF p
  <1>8. \A v \in p.votes : ~(v.signer = h.signer /\ v.address = h.coinbase)  BY <1>5, <1>7
  <1>9. h.signer \in p.signers  BY <1>3, <1>4, <1>7
  <1>10. /\ SnapshotAt(c, h.number) /\ c.number = p.number /\ c.signers = p.signers
         /\ \A v \in c.votes : v \in p.votes \/ (v.signer = h.signer /\ v.address = h.coinbase)
    BY <1>7, <1>8, <1>9, CastVoteKeeps
  <1> HIDE DEF c
  <1>11. /\ SnapshotAt(e, h.number) /\ e.number = c.number
         /\ \/ e.signers = c.signers
            \/ /\ e.signers = IF h.coinbase \in c.signers THEN c.signers \ {h.coinbase}
                              ELSE c.signers \cup {h.coinbase}
               /\ Cardinality(On(c.votes, h.coinbase)) > Cardinality(c.signers) \div 2
    BY <1>1, <1>10, EnactKeeps
  <1> HIDE DEF e
  <1> DEFINE f == [e EXCEPT !.number = h.number]
  <1>12. apply(s, h) = f  BY DEF apply, e, c, p, r, b
  <1>13. IsSnapshot(e)  BY <1>11 DEF SnapshotAt
  <1>14. /\ IsSnapshot(f) /\ f.number = h.number /\ f.signers = e.signers
         /\ f.recents = e.recents /\ f.votes = e.votes /\ f.tally = e.tally
    BY <1>13 DEF IsSnapshot, Fields
  <1> HIDE DEF f
  <1>15. SnapshotInv(f)  BY <1>1, <1>11, <1>14 DEF SnapshotAt, SnapshotInv
  <1>16. c.signers = s.signers  BY <1>2, <1>4, <1>7, <1>10
  <1>17. Cardinality(On(c.votes, h.coinbase)) <= Cardinality(Standing(s, h))
         /\ Cardinality(On(c.votes, h.coinbase)) \in Nat /\ Cardinality(Standing(s, h)) \in Nat
    <2> DEFINE X == On(c.votes, h.coinbase)
               Y == Standing(s, h)
    <2>1. s.signers \subseteq Address  BY DEF SnapshotInv, SnapshotAt
    <2>2. Y \in SUBSET Address  BY <1>1, <2>1 DEF Standing
    <2>3. IsFiniteSet(Y)  BY <2>2, CliqueAssumption, FS_Subset
    <2>4. Tallied(c.votes, c.tally, c.signers) /\ \A v \in c.votes : v.signer \in c.signers
      BY <1>10 DEF SnapshotAt
    <2>5. \A v, w \in X : v.signer = w.signer => v = w  BY <2>4 DEF Tallied, On
    <2>6. \A v \in X : v.signer \in Y
      <3> TAKE v \in X
      <3>1. v \in c.votes /\ v.address = h.coinbase  BY DEF On
      <3>2. v.signer \in s.signers  BY <3>1, <2>4, <1>16
      <3>3. CASE v.signer = h.signer  BY <3>3 DEF Standing
      <3>4. CASE v \in p.votes
        <4>1. v \in s.votes  BY <3>4, <1>2, <1>4, <1>7
        <4> QED  BY <4>1, <3>1, <3>2 DEF Standing
      <3> QED  BY <3>1, <3>3, <3>4, <1>10
    <2>7. Cardinality(X) \in Nat  BY <2>4, VotesOnAccount
    <2>8. Cardinality(Y) \in Nat  BY <2>3, FS_CardinalityType
    <2> HIDE DEF X, Y
    <2>9. Cardinality(X) <= Cardinality(Y)  BY <2>3, <2>5, <2>6, VotersCount
    <2> QED  BY <2>7, <2>8, <2>9 DEF X, Y
  <1>18. Cardinality(s.signers) \in Nat
    <2>1. s.signers \in SUBSET Address  BY DEF SnapshotInv, SnapshotAt
    <2>2. IsFiniteSet(s.signers)  BY <2>1, CliqueAssumption, FS_Subset
    <2> QED  BY <2>2, FS_CardinalityType
  <1>19. \A x, y, z \in Nat : x > z \div 2 /\ x <= y => 2 * y > z  BY SMT
  <1>20. \/ f.signers = s.signers
         \/ /\ f.signers = IF h.coinbase \in s.signers THEN s.signers \ {h.coinbase}
                           ELSE s.signers \cup {h.coinbase}
            /\ 2 * Cardinality(Standing(s, h)) > Cardinality(s.signers)
    BY <1>11, <1>14, <1>16, <1>17, <1>18, <1>19
  <1> QED  BY <1>12, <1>15, <1>20

\* Seal and apply agree on a snapshot in order.
LEMMA SealIsApply ==
    ASSUME NEW s, SnapshotInv(s), NEW h, h.number = s.number + 1, NEW who
    PROVE  Permitted(s, who) <=> MaySign(Begin(s, h), who)
  <1> DEFINE b == Begin(s, h)
             key == h.number - Limit(s.signers)
  <1>1. /\ s.number \in Nat /\ s.signers \in SUBSET Address
        /\ Window(s.recents, Limit(s.signers), s.number)
    BY DEF SnapshotInv, SnapshotAt
  <1>2. Limit(s.signers) \in Nat
    <2>1. IsFiniteSet(s.signers)  BY <1>1, CliqueAssumption, FS_Subset
    <2>2. Cardinality(s.signers) \in Nat  BY <2>1, FS_CardinalityType
    <2> QED  BY <2>2, SMT DEF Limit
  <1>3. b.signers = s.signers /\ b.recents = Delete(s.recents, key)  BY BeginKeeps
  <1> HIDE DEF b
  <1>4. DOMAIN b.recents = DOMAIN s.recents \ {key} /\ \A k \in DOMAIN b.recents : b.recents[k] = s.recents[k]
    BY <1>3 DEF Delete
  <1>5. \A k \in DOMAIN s.recents : k \in Nat /\ k >= key /\ k <= s.number  BY <1>1, <1>2, SMT DEF Window
  <1>6. \A k \in DOMAIN s.recents :
            ~(h.number < Limit(s.signers) \/ k > key) <=> (k = key /\ h.number >= Limit(s.signers))
    BY <1>1, <1>2, <1>5, SMT
  <1>7. \A k \in DOMAIN s.recents : k = key => h.number >= Limit(s.signers)  BY <1>1, <1>2, <1>5, SMT
  <1>8. MaySign(b, who) <=> who \in s.signers /\ \A k \in DOMAIN s.recents : s.recents[k] = who => k = key
    BY <1>3, <1>4 DEF MaySign
  <1>9. Permitted(s, who) <=> who \in s.signers /\ \A k \in DOMAIN s.recents : s.recents[k] = who => k = key
    BY <1>6, <1>7 DEF Permitted
  <1> QED  BY <1>8, <1>9 DEF b

\* The headers of Prepare vote on accounts, or for nothing.
LEMMA PreparedHonest ==
    ASSUME NEW s, SnapshotInv(s), NEW who \in Address, NEW props, DOMAIN props \subseteq Address,
           \A a \in DOMAIN props : props[a] \in BOOLEAN, NEW h \in Prepared(s, who, props)
    PROVE  h \in Header /\ Honest(h) /\ h.number = s.number + 1
  <1>1. s.number \in Nat /\ s.signers \subseteq Address  BY DEF SnapshotInv, SnapshotAt
  <1>2. CalcDifficulty(s, who) \in {1, 2}  BY DEF CalcDifficulty
  <1> DEFINE noVote == [number |-> s.number + 1, signer |-> who, coinbase |-> Zero,
                        authorize |-> FALSE, difficulty |-> CalcDifficulty(s, who),
                        signers |-> IF (s.number + 1) % Epoch = 0 THEN s.signers ELSE {}]
  <1>3. h = noVote \/ \E a \in DOMAIN props : h = [noVote EXCEPT !.coinbase = a, !.authorize = props[a]]
    BY DEF Prepared
  <1>4. noVote \in Header  BY <1>1, <1>2, SMT DEF Header
  <1>5. CASE h = noVote  BY <1>1, <1>4, <1>5, SMT DEF Honest
  <1>6. ASSUME NEW a \in DOMAIN props, h = [noVote EXCEPT !.coinbase = a, !.authorize = props[a]]
        PROVE  h \in Header /\ Honest(h) /\ h.number = s.number + 1
    <2>1. h.number = s.number + 1 /\ h.signer = who /\ h.coinbase = a /\ h.authorize = props[a]
      BY <1>6
    <2>2. a \in Address /\ a # Zero /\ props[a] \in BOOLEAN  BY CliqueAssumption DEF Zero
    <2>3. h \in Header  BY <1>4, <1>6, <2>2 DEF Header
    <2> QED  BY <1>1, <2>1, <2>2, <2>3, SMT DEF Honest
  <1> QED  BY <1>3, <1>5, <1>6

-----------------------------------------------------------------------------
\* The inductive invariant: the snapshot is in order, and what was prepared and
\* sealed can be put on top of it.
IInv ==
    /\ SnapshotInv(snap)
    /\ signer \in Keys
    /\ DOMAIN proposals \subseteq Address /\ \A a \in DOMAIN proposals : proposals[a] \in BOOLEAN
    /\ work = None \/ (work \in Header /\ Honest(work) /\ work.number = snap.number + 1)
    /\ sealed = None \/ (Honest(sealed) /\ CanApply(snap, sealed))

\* The genesis snapshot is in order.
LEMMA InitIInv == Init => IInv
  <1> SUFFICES ASSUME Init PROVE IInv  OBVIOUS
  <1>1. snap = newSnapshot(0, Genesis)  BY DEF Init
  <1>2. /\ IsSnapshot(snap) /\ snap.number = 0 /\ snap.signers = Genesis /\ snap.recents = Empty
        /\ snap.votes = {} /\ snap.tally = Empty
    BY <1>1 DEF newSnapshot, IsSnapshot, Fields
  <1>3. DOMAIN Empty = {} /\ Empty = [a \in DOMAIN Empty |-> Empty[a]]  BY DEF Empty
  <1>4. Tallied(snap.votes, snap.tally, snap.signers)
    <2>1. DOMAIN snap.tally = {v.address : v \in snap.votes}  BY <1>2, <1>3
    <2>2. IsFiniteSet(snap.votes)  BY <1>2, FS_EmptySet
    <2> QED  BY <1>2, <1>3, <2>1, <2>2 DEF Tallied
  <1>5. Window(snap.recents, Limit(snap.signers), snap.number)  BY <1>2, <1>3 DEF Window
  <1>6. SnapshotInv(snap)  BY <1>2, <1>4, <1>5, CliqueAssumption, SMT DEF SnapshotInv, SnapshotAt
  <1>7. DOMAIN proposals = {}  BY <1>3 DEF Init
  <1> QED  BY <1>6, <1>7 DEF Init, IInv

\* A block on top of the head keeps the snapshot in order.
LEMMA ExtendKeeps ==
    ASSUME IInv, NEW h, Honest(h), CanApply(snap, h), Extend(h), UNCHANGED engine
    PROVE  IInv'
  <1>1. SnapshotInv(apply(snap, h))  BY ApplyKeeps DEF IInv
  <1>2. snap' = apply(snap, h) /\ work' = None /\ sealed' = None  BY DEF Extend
  <1>3. SnapshotInv(snap')  BY <1>1, <1>2
  <1>4. SnapshotInv(snap)'  BY <1>3 DEF SnapshotInv, SnapshotAt, IsSnapshot
  <1> QED  BY <1>2, <1>4 DEF IInv, engine, None

\* A step that leaves the snapshot alone keeps it in order.
LEMMA SnapUnchanged ==
    ASSUME SnapshotInv(snap), snap' = snap
    PROVE  SnapshotInv(snap)'
  <1>1. SnapshotInv(snap')  OBVIOUS
  <1> QED  BY <1>1 DEF SnapshotInv, SnapshotAt, IsSnapshot

\* A block comes from Import or Write, which put it on the head with apply.
BlockStep == \E h : Honest(h) /\ CanApply(snap, h) /\ Extend(h) /\ UNCHANGED engine

\* An imported block is honest and can be applied.
LEMMA ImportIsBlock ==
    ASSUME IInv, NEW who \in Address, Import(who)
    PROVE  BlockStep
  <1>1. PICK props \in AnyProposal : \E h \in Prepared(snap, who, props) :
            verifyHeader(snap, h) /\ CanApply(snap, h) /\ Extend(h)
    BY DEF Import
  <1>2. PICK h \in Prepared(snap, who, props) : CanApply(snap, h) /\ Extend(h)  BY <1>1
  <1>3. DOMAIN props \subseteq Address /\ \A a \in DOMAIN props : props[a] \in BOOLEAN
    BY ZenonT(40) DEF AnyProposal, Empty
  <1>4. Honest(h)  BY <1>3, PreparedHonest DEF IInv
  <1> QED  BY <1>2, <1>4 DEF BlockStep, Import

\* A written block is honest and can be applied.
LEMMA WriteIsBlock ==
    ASSUME IInv, Write
    PROVE  BlockStep
  BY DEF IInv, Write, BlockStep

\* Every step keeps the inductive invariant.
LEMMA NextIInv == IInv /\ [Next]_vars => IInv'
  <1> SUFFICES ASSUME IInv, [Next]_vars PROVE IInv'  OBVIOUS
  <1>1. ASSUME BlockStep PROVE IInv'  BY <1>1, ExtendKeeps DEF BlockStep
  <1>2. ASSUME NEW who \in Address, Import(who) PROVE IInv'  BY <1>1, <1>2, ImportIsBlock
  <1>3. ASSUME Write PROVE IInv'  BY <1>1, <1>3, WriteIsBlock
  <1>4. ASSUME Prepare PROVE IInv'
    <2>1. snap' = snap /\ sealed' = sealed /\ UNCHANGED engine  BY <1>4 DEF Prepare
    <2>2. SnapshotInv(snap)'  BY <2>1, SnapUnchanged DEF IInv
    <2>3. work' = work \/ work' \in Prepared(snap, signer, proposals)  BY <1>4 DEF Prepare
    <2>4. signer \in Address  BY CliqueAssumption DEF IInv
    <2>5. work' = None \/ (work' \in Header /\ Honest(work') /\ work'.number = snap'.number + 1)
      <3>1. CASE work' = work  BY <2>1, <3>1 DEF IInv
      <3>2. CASE work' \in Prepared(snap, signer, proposals)
        BY <2>1, <2>4, <3>2, PreparedHonest DEF IInv
      <3> QED  BY <2>3, <3>1, <3>2
    <2>6. sealed' = None \/ (Honest(sealed') /\ CanApply(snap', sealed'))  BY <2>1 DEF IInv
    <2>7. UNCHANGED <<signer, proposals>>  BY <2>1 DEF engine
    <2> QED  BY <2>2, <2>5, <2>6, <2>7 DEF IInv, Honest, CanApply, MaySign, Begin, None, Header
  <1>5. ASSUME Seal PROVE IInv'
    <2>1. /\ snap' = snap /\ UNCHANGED engine /\ work' = None /\ work # None
          /\ sealed' = [work EXCEPT !.signer = signer] /\ Permitted(snap, signer)
      BY <1>5 DEF Seal
    <2>2. SnapshotInv(snap)'  BY <2>1, SnapUnchanged DEF IInv
    <2>3. work \in Header /\ Honest(work) /\ work.number = snap.number + 1  BY <2>1 DEF IInv
    <2>4. signer \in Address  BY CliqueAssumption DEF IInv
    <2>5. /\ sealed'.number = work.number /\ sealed'.signer = signer
          /\ sealed'.coinbase = work.coinbase /\ sealed'.authorize = work.authorize
      BY <2>1, <2>3 DEF Header
    <2>6. Honest(sealed')  BY <2>3, <2>4, <2>5 DEF Honest
    <2>7. CanApply(snap, sealed')  BY <2>1, <2>3, <2>5, SealIsApply DEF IInv, CanApply
    <2>8. UNCHANGED <<signer, proposals>>  BY <2>1 DEF engine
    <2> QED  BY <2>1, <2>2, <2>6, <2>7, <2>8 DEF IInv, Honest, CanApply, MaySign, Begin, None
  <1>6. ASSUME UNCHANGED <<snap, work>>, sealed' \in {sealed, None}, signer' \in Keys,
               DOMAIN proposals' \subseteq Address, \A a \in DOMAIN proposals' : proposals'[a] \in BOOLEAN
        PROVE  IInv'
    <2>1. SnapshotInv(snap)'  BY <1>6, SnapUnchanged DEF IInv
    <2> QED  BY <1>6, <2>1 DEF IInv, Honest, CanApply, MaySign, Begin, None, Header
  <1>7. ASSUME Stop PROVE IInv'  BY <1>6, <1>7 DEF Stop, engine, IInv
  <1>8. ASSUME Checkpoint PROVE IInv'  BY <1>6, <1>8 DEF Checkpoint, engine, IInv
  <1>9. ASSUME NEW a \in Address, NEW auth \in BOOLEAN, Propose(a, auth) PROVE IInv'
    BY <1>6, <1>9 DEF Propose, Call, IInv
  <1>10. ASSUME NEW a \in Address, Discard(a) PROVE IInv'
    BY <1>6, <1>10 DEF Discard, Call, IInv, Delete
  <1>11. ASSUME NEW key \in Keys, Authorize(key) PROVE IInv'
    BY <1>6, <1>11 DEF Authorize, Call, IInv
  <1>12. ASSUME UNCHANGED vars PROVE IInv'  BY <1>6, <1>12 DEF vars, IInv
  <1> QED  BY <1>2, <1>3, <1>4, <1>5, <1>7, <1>8, <1>9, <1>10, <1>11, <1>12 DEF Next

\* The inductive invariant holds in every reachable state.
LEMMA IInvAlways == Spec => []IInv
  BY InitIInv, NextIInv, PTL DEF Spec

\* Spec => []TallyIsVotes: however votes are cast, replaced and discarded as
\* signers come and go, the tally of Snapshot.apply counts the standing votes.
THEOREM TallyAlways == Spec => []TallyIsVotes
  <1>1. IInv => TallyIsVotes
    BY DEF IInv, SnapshotInv, SnapshotAt, Tallied, TallyIsVotes, On
  <1> QED  BY <1>1, IInvAlways, PTL

\* Spec => []SealAgrees: Seal goes on exactly for the signers that
\* Snapshot.apply accepts.
THEOREM SealAgreesAlways == Spec => []SealAgrees
  <1>1. ASSUME IInv, NEW who \in Address
        PROVE  Permitted(snap, who) <=> MaySign(Begin(snap, [number |-> snap.number + 1]), who)
    <2>1. [number |-> snap.number + 1].number = snap.number + 1  OBVIOUS
    <2> QED  BY <1>1, <2>1, SealIsApply DEF IInv
  <1>2. IInv => SealAgrees  BY <1>1 DEF SealAgrees
  <1> QED  BY <1>2, IInvAlways, PTL

\* Spec => []EnoughCanSign: at least half of the signers may sign the next
\* block, for any number of signers and any history of votes.
THEOREM EnoughAlways == Spec => []EnoughCanSign
  <1>1. ASSUME IInv PROVE EnoughCanSign
    <2> DEFINE h == [number |-> snap.number + 1]
               b == Begin(snap, h)
               S == snap.signers
               keys == DOMAIN b.recents
               locked == {b.recents[k] : k \in keys}
               able == {s \in S : MaySign(b, s)}
    <2>1. h.number = snap.number + 1 /\ SnapshotInv(snap) /\ snap.number \in Nat /\ S \in SUBSET Address
      BY <1>1 DEF IInv, SnapshotInv, SnapshotAt
    <2> HIDE DEF h
    <2>2. /\ SnapshotAt(b, snap.number) /\ b.signers = S
          /\ \A k \in keys : h.number - Limit(S) < k
      BY <2>1, BeginKeeps
    <2>3. /\ Limit(S) \in Nat \ {0} /\ Cardinality(S) \in Nat /\ Limit(S) - 1 = Cardinality(S) \div 2
      <3>1. IsFiniteSet(S)  BY <2>1, CliqueAssumption, FS_Subset
      <3>2. Cardinality(S) \in Nat  BY <3>1, FS_CardinalityType
      <3> QED  BY <3>2, SMT DEF Limit
    <2>4. keys \in SUBSET ((snap.number + 2 - Limit(S)) .. snap.number)
      BY <2>1, <2>2, <2>3, SMT DEF SnapshotAt, Window
    <2>5. IsFiniteSet(keys) /\ Cardinality(keys) <= Limit(S) - 1 /\ Cardinality(keys) \in Nat
      <3> DEFINE lo == snap.number + 2 - Limit(S)
                 I == lo .. snap.number
      <3>1. lo \in Int /\ snap.number \in Int  BY <2>1, <2>3, SMT
      <3>2. IsFiniteSet(I) /\ Cardinality(I) = IF lo > snap.number THEN 0 ELSE snap.number - lo + 1
        BY <3>1, FS_Interval
      <3>3. Cardinality(I) <= Limit(S) - 1 /\ Cardinality(I) \in Nat  BY <2>1, <2>3, <3>2, SMT
      <3> HIDE DEF I
      <3>4. keys \in SUBSET I  BY <2>4 DEF I
      <3>5. IsFiniteSet(keys) /\ Cardinality(keys) <= Cardinality(I)  BY <3>2, <3>4, FS_Subset
      <3>6. Cardinality(keys) \in Nat  BY <3>5, FS_CardinalityType
      <3> QED  BY <2>3, <3>3, <3>5, <3>6, SMT
    <2> HIDE DEF b
    <2>6. IsFiniteSet(locked) /\ Cardinality(locked) <= Cardinality(keys)
      <3> DEFINE f == [k \in keys |-> b.recents[k]]
      <3>1. f \in Surjection(keys, locked)  BY DEF Surjection
      <3> HIDE DEF locked
      <3> QED  BY <2>5, <3>1, FS_Surjection
    <2>7. able = S \ locked  BY <2>2 DEF MaySign
    <2>8. IsFiniteSet(S)  BY <2>1, CliqueAssumption, FS_Subset
    <2> HIDE DEF locked
    <2>9. Cardinality(able) = Cardinality(S) - Cardinality(S \cap locked)  BY <2>7, <2>8, FS_Difference
    <2>10. S \cap locked \in SUBSET locked  OBVIOUS
    <2>11. Cardinality(S \cap locked) <= Cardinality(locked) /\ IsFiniteSet(S \cap locked)
      BY <2>6, <2>10, FS_Subset
    <2>12. Cardinality(S \cap locked) \in Nat /\ Cardinality(locked) \in Nat
      BY <2>6, <2>11, FS_CardinalityType
    <2>13. Cardinality(able) >= Cardinality(S) - Cardinality(S) \div 2
      BY <2>3, <2>5, <2>6, <2>9, <2>11, <2>12, SMT
    <2> QED  BY <2>13 DEF EnoughCanSign, b, h
  <1> QED  BY <1>1, IInvAlways, PTL

\* Spec => MajorityChanges: signers change one at a time, by the votes of more
\* than half of them, each counted once.
THEOREM MajorityAlways == Spec => MajorityChanges
  <1>1. ASSUME IInv, [Next]_vars PROVE [ByMajority]_vars
    <2>1. ASSUME BlockStep PROVE ByMajority
      <3>1. PICK h : Honest(h) /\ CanApply(snap, h) /\ Extend(h)  BY <2>1 DEF BlockStep
      <3>2. snap' = apply(snap, h) /\ head' = h  BY <3>1 DEF Extend
      <3>3. LET a == h.coinbase
                t == apply(snap, h).signers
            IN  \/ t = snap.signers
                \/ /\ t = IF a \in snap.signers THEN snap.signers \ {a} ELSE snap.signers \cup {a}
                   /\ 2 * Cardinality(Standing(snap, h)) > Cardinality(snap.signers)
        BY <1>1, <3>1, ApplyKeeps DEF IInv
      <3> QED  BY <3>2, <3>3 DEF Standing, ByMajority
    <2>2. ASSUME snap' = snap PROVE ByMajority  BY <2>2 DEF ByMajority
    <2>3. ASSUME NEW who \in Address, Import(who) PROVE ByMajority  BY <1>1, <2>1, <2>3, ImportIsBlock
    <2>4. ASSUME Write PROVE ByMajority  BY <1>1, <2>1, <2>4, WriteIsBlock
    <2>5. ASSUME Prepare \/ Seal \/ Stop \/ Checkpoint PROVE ByMajority
      BY <2>2, <2>5 DEF Prepare, Seal, Stop, Checkpoint
    <2>6. ASSUME Call PROVE ByMajority  BY <2>2, <2>6 DEF Call
    <2>7. ASSUME Next PROVE ByMajority
      BY <2>3, <2>4, <2>5, <2>6, <2>7 DEF Next, Propose, Discard, Authorize
    <2> QED  BY <1>1, <2>7
  <1> QED  BY <1>1, IInvAlways, PTL DEF Spec, MajorityChanges
-----------------------------------------------------------------------------
(* The node that began at a checkpoint *)

\* What such a node knows of the recent signers, and of a snapshot.
Since(recents, base) == [k \in {n \in DOMAIN recents : n > base} |-> recents[k]]
Without(s, base) == [s EXCEPT !.recents = Since(@, base)]

\* Only the recent signers are less.
LEMMA WithoutFields ==
    ASSUME NEW s, IsSnapshot(s), NEW base
    PROVE  /\ IsSnapshot(Without(s, base))
           /\ Without(s, base).number = s.number /\ Without(s, base).signers = s.signers
           /\ Without(s, base).recents = Since(s.recents, base)
           /\ Without(s, base).votes = s.votes /\ Without(s, base).tally = s.tally
  BY DEF Without, IsSnapshot, Fields

\* The fields tell what a snapshot is.
LEMMA IsWithout ==
    ASSUME NEW s, NEW w, NEW base, IsSnapshot(s), IsSnapshot(w), w.number = s.number,
           w.signers = s.signers, w.recents = Since(s.recents, base), w.votes = s.votes,
           w.tally = s.tally
    PROVE  w = Without(s, base)
  <1> DEFINE v == Without(s, base)
  <1>1. /\ IsSnapshot(v) /\ v.number = s.number /\ v.signers = s.signers
        /\ v.recents = Since(s.recents, base) /\ v.votes = s.votes /\ v.tally = s.tally
    BY WithoutFields
  <1> HIDE DEF v
  <1>2. v = w  BY <1>1 DEF IsSnapshot, Fields
  <1> QED  BY <1>2 DEF v

\* Old entries may be deleted before or after.
LEMMA SinceDelete ==
    ASSUME NEW r, NEW key, NEW base
    PROVE  Since(Delete(r, key), base) = Delete(Since(r, base), key)
  <1> DEFINE x == Since(Delete(r, key), base)
             y == Delete(Since(r, base), key)
  <1>1. DOMAIN Delete(r, key) = DOMAIN r \ {key} /\ DOMAIN Since(r, base) = {n \in DOMAIN r : n > base}
    BY DEF Delete, Since
  <1>2. DOMAIN x = {n \in DOMAIN r \ {key} : n > base}  BY <1>1 DEF Since
  <1>3. DOMAIN y = {n \in DOMAIN r : n > base} \ {key}  BY <1>1 DEF Delete
  <1>4. DOMAIN x = DOMAIN y  BY <1>2, <1>3
  <1>5. \A k \in DOMAIN x : x[k] = r[k] /\ y[k] = r[k]  BY <1>1, <1>2, <1>3, <1>4 DEF Since, Delete
  <1>6. x = [k \in DOMAIN x |-> x[k]] /\ y = [k \in DOMAIN y |-> y[k]]  BY <1>2, <1>3 DEF Since, Delete
  <1> QED  BY <1>4, <1>5, <1>6

\* Each step of apply does the same without the old entries.
LEMMA BeginWithout ==
    ASSUME NEW s, IsSnapshot(s), NEW h, NEW base
    PROVE  /\ IsSnapshot(Begin(s, h)) /\ Begin(s, h).signers = s.signers
           /\ Begin(Without(s, base), h) = Without(Begin(s, h), base)
  <1> DEFINE w == Without(s, base)
             x == Begin(w, h)
             y == Begin(s, h)
             checkpoint == h.number % Epoch = 0
             key == h.number - Limit(s.signers)
  <1>1. /\ IsSnapshot(w) /\ w.number = s.number /\ w.signers = s.signers
        /\ w.recents = Since(s.recents, base) /\ w.votes = s.votes /\ w.tally = s.tally
    BY WithoutFields
  <1> HIDE DEF w
  <1>2. /\ IsSnapshot(y) /\ y.number = s.number /\ y.signers = s.signers
        /\ y.recents = Delete(s.recents, key)
        /\ y.votes = (IF checkpoint THEN {} ELSE s.votes)
        /\ y.tally = (IF checkpoint THEN Empty ELSE s.tally)
    BY DEF Begin, IsSnapshot, Fields
  <1>3. /\ IsSnapshot(x) /\ x.number = w.number /\ x.signers = w.signers
        /\ x.recents = Delete(w.recents, h.number - Limit(w.signers))
        /\ x.votes = (IF checkpoint THEN {} ELSE w.votes)
        /\ x.tally = (IF checkpoint THEN Empty ELSE w.tally)
    BY <1>1 DEF Begin, IsSnapshot, Fields
  <1> HIDE DEF x, y
  <1> HIDE DEF key, checkpoint
  <1>4. x.recents = Since(y.recents, base)  BY <1>1, <1>2, <1>3, SinceDelete, SMT DEF key
  <1>5. x = Without(y, base)  BY <1>1, <1>2, <1>3, <1>4, IsWithout, SMT
  <1> QED  BY <1>2, <1>5 DEF x, y, w

\* The signer of a later block is not an old entry.
LEMMA RecordWithout ==
    ASSUME NEW s, IsSnapshot(s), NEW h, NEW base, h.number > base
    PROVE  /\ IsSnapshot(Record(s, h))
           /\ Record(Without(s, base), h) = Without(Record(s, h), base)
  <1> DEFINE Add(r) == [k \in DOMAIN r \cup {h.number} |-> IF k = h.number THEN h.signer ELSE r[k]]
             w == Without(s, base)
             x == Record(w, h)
             y == Record(s, h)
  <1>1. /\ IsSnapshot(w) /\ w.number = s.number /\ w.signers = s.signers
        /\ w.recents = Since(s.recents, base) /\ w.votes = s.votes /\ w.tally = s.tally
    BY WithoutFields
  <1> HIDE DEF w
  <1>2. /\ IsSnapshot(y) /\ y.number = s.number /\ y.signers = s.signers
        /\ y.recents = Add(s.recents) /\ y.votes = s.votes /\ y.tally = s.tally
    BY DEF Record, IsSnapshot, Fields
  <1>3. /\ IsSnapshot(x) /\ x.number = w.number /\ x.signers = w.signers
        /\ x.recents = Add(w.recents) /\ x.votes = w.votes /\ x.tally = w.tally
    BY <1>1 DEF Record, IsSnapshot, Fields
  <1> HIDE DEF x, y
  <1>4. Since(Add(s.recents), base) = Add(Since(s.recents, base))
    <2> DEFINE r == s.recents
               p == Since(Add(r), base)
               q == Add(Since(r, base))
    <2>1. DOMAIN Add(r) = DOMAIN r \cup {h.number} /\ DOMAIN Since(r, base) = {n \in DOMAIN r : n > base}
      BY DEF Since
    <2>2. DOMAIN p = {n \in DOMAIN r \cup {h.number} : n > base}  BY <2>1 DEF Since
    <2>3. DOMAIN q = {n \in DOMAIN r : n > base} \cup {h.number}  BY <2>1
    <2>4. DOMAIN p = DOMAIN q  BY <2>2, <2>3
    <2>5. ASSUME NEW k \in DOMAIN p PROVE p[k] = q[k]
      <3>1. p[k] = Add(r)[k] /\ k \in DOMAIN Add(r)  BY <2>1, <2>2, <2>5 DEF Since
      <3>2. CASE k = h.number  BY <2>3, <2>4, <2>5, <3>1, <3>2
      <3>3. CASE k # h.number
        <4>1. p[k] = r[k]  BY <3>1, <3>3
        <4>2. q[k] = Since(r, base)[k] /\ k \in {n \in DOMAIN r : n > base}
          BY <2>3, <2>4, <2>5, <3>3
        <4> QED  BY <4>1, <4>2 DEF Since
      <3> QED  BY <3>2, <3>3
    <2>6. p = [k \in DOMAIN p |-> p[k]] /\ q = [k \in DOMAIN q |-> q[k]]  BY <2>2, <2>3 DEF Since
    <2> HIDE DEF p, q
    <2>7. p = q  BY <2>4, <2>5, <2>6
    <2> QED  BY <2>7 DEF p, q
  <1> HIDE DEF Add
  <1>5. x.recents = Since(y.recents, base)  BY <1>1, <1>2, <1>3, <1>4
  <1>6. x = Without(y, base)  BY <1>1, <1>2, <1>3, <1>5, IsWithout, SMT
  <1> QED  BY <1>2, <1>6 DEF x, y, w

\* Signers, votes and tally change alike.
Revised(s, signers, votes, tally) ==
    [s EXCEPT !.signers = signers, !.votes = votes, !.tally = tally]

LEMMA RevisedWithout ==
    ASSUME NEW s, IsSnapshot(s), NEW S, NEW V, NEW T, NEW base
    PROVE  /\ IsSnapshot(Revised(s, S, V, T))
           /\ Revised(Without(s, base), S, V, T) = Without(Revised(s, S, V, T), base)
  <1> DEFINE w == Without(s, base)
             x == Revised(w, S, V, T)
             y == Revised(s, S, V, T)
  <1>1. IsSnapshot(w) /\ w.number = s.number /\ w.recents = Since(s.recents, base)  BY WithoutFields
  <1> HIDE DEF w
  <1>2. /\ IsSnapshot(y) /\ y.number = s.number /\ y.signers = S /\ y.recents = s.recents
        /\ y.votes = V /\ y.tally = T
    BY DEF Revised, IsSnapshot, Fields
  <1>3. /\ IsSnapshot(x) /\ x.number = w.number /\ x.signers = S /\ x.recents = w.recents
        /\ x.votes = V /\ x.tally = T
    BY <1>1 DEF Revised, IsSnapshot, Fields
  <1> HIDE DEF x, y
  <1>4. x = Without(y, base)  BY <1>1, <1>2, <1>3, IsWithout, SMT
  <1> QED  BY <1>2, <1>4 DEF x, y, w

\* Votes are discarded, cast and settled by such changes.
LEMMA StepsRevise ==
    ASSUME NEW s, IsSnapshot(s)
    PROVE  /\ \A gone : RemoveVotes(s, gone) =
                  Revised(s, s.signers, s.votes \ gone, uncast(s.tally, gone))
           /\ \A S, a : Settle([s EXCEPT !.signers = S], a) =
                  Revised(s, S, {v \in s.votes : v.address # a}, Delete(s.tally, a))
           /\ \A S, a : Settle(s, a) =
                  Revised(s, s.signers, {v \in s.votes : v.address # a}, Delete(s.tally, a))
           /\ \A h : CastVote(s, h) =
                  IF validVote(s.signers, h.coinbase, h.authorize)
                  THEN Revised(s, s.signers,
                               s.votes \cup {[signer |-> h.signer, block |-> h.number,
                                              address |-> h.coinbase, authorize |-> h.authorize]},
                               cast(s.tally, h.coinbase, h.authorize))
                  ELSE s
  BY DEF IsSnapshot, Fields, Revised, RemoveVotes, Settle, CastVote

LEMMA EnactWithout ==
    ASSUME NEW s, IsSnapshot(s), NEW h, NEW base
    PROVE  /\ IsSnapshot(Enact(s, h))
           /\ Enact(Without(s, base), h) = Without(Enact(s, h), base)
  <1> DEFINE w == Without(s, base)
             a == h.coinbase
  <1>1. /\ IsSnapshot(w) /\ w.signers = s.signers /\ w.votes = s.votes /\ w.tally = s.tally
        /\ w.number = s.number /\ w.recents = Since(s.recents, base)
    BY WithoutFields
  <1>2. Passed(w, a) <=> Passed(s, a)  BY <1>1 DEF Passed
  <1>3. CASE ~Passed(s, a)  BY <1>2, <1>3 DEF Enact
  <1>4. CASE Passed(s, a) /\ s.tally[a].authorize
    <2> DEFINE S == s.signers \cup {a}
               V == {v \in s.votes : v.address # a}
               T == Delete(s.tally, a)
    <2>1. Enact(s, h) = Revised(s, S, V, T)  BY <1>4, StepsRevise DEF Enact
    <2>2. Enact(w, h) = Revised(w, S, V, T)
      <3>1. Enact(w, h) = Settle([w EXCEPT !.signers = S], a)  BY <1>1, <1>2, <1>4 DEF Enact
      <3> HIDE DEF w, S
      <3>2. Settle([w EXCEPT !.signers = S], a) =
              Revised(w, S, {v \in w.votes : v.address # a}, Delete(w.tally, a))
        BY <1>1, StepsRevise, SMT
      <3> QED  BY <1>1, <3>1, <3>2
    <2> QED  BY <2>1, <2>2, RevisedWithout, SMT
  <1>5. CASE Passed(s, a) /\ ~s.tally[a].authorize
    <2> DEFINE rest == s.signers \ {a}
               gone == {v \in s.votes : v.signer = a}
               key == h.number - Limit(rest)
               Cut(t) == [t EXCEPT !.signers = rest, !.recents = Delete(@, key)]
               V == {v \in s.votes \ gone : v.address # a}
               T == Delete(uncast(s.tally, gone), a)
    <2>1. ASSUME NEW t, IsSnapshot(t), t.signers = s.signers, t.votes = s.votes, t.tally = s.tally
          PROVE  /\ IsSnapshot(Cut(t)) /\ Cut(t).number = t.number /\ Cut(t).signers = rest
                 /\ Cut(t).recents = Delete(t.recents, key)
                 /\ Cut(t).votes = s.votes /\ Cut(t).tally = s.tally
                 /\ Settle(Deauthorize(t, h), a) = Revised(Cut(t), rest, V, T)
      <3>1. /\ IsSnapshot(Cut(t)) /\ Cut(t).number = t.number /\ Cut(t).signers = rest
            /\ Cut(t).recents = Delete(t.recents, key)
            /\ Cut(t).votes = s.votes /\ Cut(t).tally = s.tally
        BY <2>1 DEF IsSnapshot, Fields
      <3>2. Deauthorize(t, h) = RemoveVotes(Cut(t), gone)  BY <2>1 DEF Deauthorize
      <3> HIDE DEF Cut
      <3> DEFINE d == RemoveVotes(Cut(t), gone)
      <3>3. d = Revised(Cut(t), rest, s.votes \ gone, uncast(s.tally, gone))
        BY <3>1, StepsRevise
      <3>4. /\ IsSnapshot(d) /\ d.number = Cut(t).number /\ d.signers = rest
            /\ d.recents = Cut(t).recents
            /\ d.votes = s.votes \ gone /\ d.tally = uncast(s.tally, gone)
        BY <3>1, <3>3 DEF Revised, IsSnapshot, Fields
      <3> HIDE DEF d, rest, gone
      <3>5. Settle(d, a) = Revised(d, rest, V, T)  BY <3>4, StepsRevise, ZenonT(40)
      <3>6. Revised(d, rest, V, T) = Revised(Cut(t), rest, V, T)
        BY <3>1, <3>4 DEF Revised, IsSnapshot, Fields
      <3> QED  BY <3>1, <3>2, <3>5, <3>6 DEF d
    <2>2. Enact(s, h) = Revised(Cut(s), rest, V, T)
      <3>1. Enact(s, h) = Settle(Deauthorize(s, h), a)  BY <1>5 DEF Enact
      <3> QED  BY <2>1, <3>1
    <2>3. Enact(w, h) = Revised(Cut(w), rest, V, T)
      <3>1. Enact(w, h) = Settle(Deauthorize(w, h), a)  BY <1>1, <1>2, <1>5 DEF Enact
      <3> QED  BY <1>1, <2>1, <3>1
    <2>4. Cut(w) = Without(Cut(s), base)
      <3> DEFINE x == Cut(w)
                 y == Cut(s)
      <3>1. /\ IsSnapshot(y) /\ y.number = s.number /\ y.signers = rest
            /\ y.recents = Delete(s.recents, key) /\ y.votes = s.votes /\ y.tally = s.tally
        BY <2>1
      <3>2. /\ IsSnapshot(x) /\ x.number = w.number /\ x.signers = rest
            /\ x.recents = Delete(w.recents, key) /\ x.votes = s.votes /\ x.tally = s.tally
        BY <1>1, <2>1
      <3> HIDE DEF w, Cut, key, rest
      <3>3. x.recents = Since(y.recents, base)  BY <1>1, <3>1, <3>2, SinceDelete, SMT
      <3> QED  BY <1>1, <3>1, <3>2, <3>3, IsWithout, SMT
    <2>5. IsSnapshot(Cut(s))  BY <2>1
    <2> HIDE DEF Cut, V, T, rest
    <2> QED  BY <2>2, <2>3, <2>4, <2>5, RevisedWithout, SMT
  <1> QED  BY <1>3, <1>4, <1>5

\* So does apply.
LEMMA ApplyWithout ==
    ASSUME NEW s, IsSnapshot(s), NEW h, NEW base, h.number > base
    PROVE  /\ IsSnapshot(apply(s, h))
           /\ apply(Without(s, base), h) = Without(apply(s, h), base)
  <1> DEFINE b == Begin(s, h)
             r == Record(b, h)
             p == RemoveVotes(r, Previous(r, h))
             c == CastVote(p, h)
             e == Enact(c, h)
             f == [e EXCEPT !.number = h.number]
  <1>1. IsSnapshot(b) /\ Begin(Without(s, base), h) = Without(b, base)  BY BeginWithout, SMT
  <1> HIDE DEF b
  <1>2. IsSnapshot(r) /\ Record(Without(b, base), h) = Without(r, base)  BY <1>1, RecordWithout, SMT
  <1> HIDE DEF r
  <1>3. /\ IsSnapshot(p)
        /\ RemoveVotes(Without(r, base), Previous(Without(r, base), h)) = Without(p, base)
    <2>1. Without(r, base).votes = r.votes  BY <1>2, WithoutFields
    <2>2. Previous(Without(r, base), h) = Previous(r, h)  BY <2>1 DEF Previous
    <2> DEFINE gone == Previous(r, h)
               w == Without(r, base)
    <2>3. /\ IsSnapshot(w) /\ w.signers = r.signers /\ w.votes = r.votes /\ w.tally = r.tally
      BY <1>2, WithoutFields
    <2>4. p = Revised(r, r.signers, r.votes \ gone, uncast(r.tally, gone))  BY <1>2, StepsRevise
    <2> HIDE DEF w, gone
    <2>5. RemoveVotes(w, gone) = Revised(w, r.signers, r.votes \ gone, uncast(r.tally, gone))
      BY <2>3, StepsRevise
    <2> QED  BY <1>2, <2>2, <2>4, <2>5, RevisedWithout, SMT DEF w, gone
  <1> HIDE DEF p
  <1>4. IsSnapshot(c) /\ CastVote(Without(p, base), h) = Without(c, base)
    <2> DEFINE w == Without(p, base)
               V == p.votes \cup {[signer |-> h.signer, block |-> h.number,
                                   address |-> h.coinbase, authorize |-> h.authorize]}
               T == cast(p.tally, h.coinbase, h.authorize)
    <2>1. /\ IsSnapshot(w) /\ w.signers = p.signers /\ w.votes = p.votes /\ w.tally = p.tally
      BY <1>3, WithoutFields
    <2>2. c = IF validVote(p.signers, h.coinbase, h.authorize) THEN Revised(p, p.signers, V, T) ELSE p
      BY <1>3, StepsRevise
    <2> HIDE DEF w
    <2>3. CastVote(w, h) =
            IF validVote(p.signers, h.coinbase, h.authorize) THEN Revised(w, p.signers, V, T) ELSE w
      BY <2>1, StepsRevise
    <2> HIDE DEF V, T, c
    <2> QED  BY <1>3, <2>2, <2>3, RevisedWithout, SMT DEF w
  <1> HIDE DEF c
  <1>5. IsSnapshot(e) /\ Enact(Without(c, base), h) = Without(e, base)  BY <1>4, EnactWithout, SMT
  <1> HIDE DEF e
  <1>6. IsSnapshot(f) /\ [Without(e, base) EXCEPT !.number = h.number] = Without(f, base)
    BY <1>5 DEF Without, IsSnapshot, Fields
  <1>7. apply(s, h) = f  BY DEF apply, f, e, c, p, r, b
  <1>8. apply(Without(s, base), h) = [Without(e, base) EXCEPT !.number = h.number]
    BY <1>1, <1>2, <1>3, <1>4, <1>5 DEF apply
  <1> QED  BY <1>6, <1>7, <1>8

\* The headers that Prepare fills in pass every test of verifyHeader but the one
\* on recent signers.
Ready(s, h) ==
    /\ h.number = s.number + 1 /\ s.number < MaxBlocks
    /\ h.number % Epoch = 0 => h.coinbase = Zero /\ ~h.authorize
    /\ h.signers = IF h.number % Epoch = 0 THEN s.signers ELSE {}
    /\ h.difficulty = CalcDifficulty(s, h.signer)

LEMMA PreparedReady ==
    ASSUME NEW s, s.number < MaxBlocks, NEW who, NEW props, NEW h \in Prepared(s, who, props)
    PROVE  Ready(s, h) /\ h.signer = who
  <1> DEFINE noVote == [number |-> s.number + 1, signer |-> who, coinbase |-> Zero,
                        authorize |-> FALSE, difficulty |-> CalcDifficulty(s, who),
                        signers |-> IF (s.number + 1) % Epoch = 0 THEN s.signers ELSE {}]
  <1>1. \/ h = noVote
        \/ /\ (s.number + 1) % Epoch # 0
           /\ \E a \in DOMAIN props : h = [noVote EXCEPT !.coinbase = a, !.authorize = props[a]]
    BY DEF Prepared
  <1>2. CASE h = noVote  BY <1>2 DEF Ready
  <1>3. ASSUME (s.number + 1) % Epoch # 0, NEW a \in DOMAIN props,
               h = [noVote EXCEPT !.coinbase = a, !.authorize = props[a]]
        PROVE  Ready(s, h) /\ h.signer = who
    <2>1. /\ h.number = s.number + 1 /\ h.signer = who /\ h.difficulty = CalcDifficulty(s, who)
          /\ h.signers = IF (s.number + 1) % Epoch = 0 THEN s.signers ELSE {}
      BY <1>3
    <2> QED  BY <1>3, <2>1 DEF Ready
  <1> QED  BY <1>1, <1>2, <1>3

\* A signer that Seal lets go on passes that one too: block numbers do not wrap.
LEMMA ReadyVerifies ==
    ASSUME NEW s, SnapshotInv(s), NEW h, Ready(s, h), Permitted(s, h.signer)
    PROVE  verifyHeader(s, h)
  <1> DEFINE limit == Limit(s.signers)
  <1>1. s.number \in Nat /\ s.signers \in SUBSET Address /\ h.number = s.number + 1 /\ s.number < MaxBlocks
    BY DEF SnapshotInv, SnapshotAt, Ready
  <1>2. limit \in Nat
    <2>1. IsFiniteSet(s.signers)  BY <1>1, CliqueAssumption, FS_Subset
    <2>2. Cardinality(s.signers) \in Nat  BY <2>1, FS_CardinalityType
    <2> QED  BY <2>2, SMT DEF Limit
  <1>3. ASSUME NEW k \in DOMAIN s.recents, s.recents[k] = h.signer
        PROVE  ~(k > (h.number - limit) % Word)
    <2>1. ~(h.number < limit \/ k > h.number - limit)  BY <1>1, <1>3 DEF Permitted
    <2> HIDE DEF limit
    <2>2. h.number - limit \in 0 .. Word - 1  BY <1>1, <1>2, <2>1, CliqueAssumption, SMT
    <2>3. (h.number - limit) % Word = h.number - limit  BY <2>2, CliqueAssumption, SMT
    <2> QED  BY <2>1, <2>3
  <1>4. verifySeal(s, h)  BY <1>3 DEF verifySeal, Permitted, Ready
  <1> QED  BY <1>4 DEF verifyHeader, Ready

\* The node that began at a checkpoint accepts what the others accept.
LEMMA LightAccepts ==
    ASSUME NEW s, IsSnapshot(s), NEW h, NEW base, verifyHeader(s, h), CanApply(s, h)
    PROVE  verifyHeader(Without(s, base), h) /\ CanApply(Without(s, base), h)
  <1> DEFINE w == Without(s, base)
  <1>1. /\ IsSnapshot(w) /\ w.number = s.number /\ w.signers = s.signers
        /\ w.recents = Since(s.recents, base)
    BY WithoutFields
  <1> HIDE DEF w
  <1>2. DOMAIN w.recents \subseteq DOMAIN s.recents
        /\ \A k \in DOMAIN w.recents : w.recents[k] = s.recents[k]
    BY <1>1 DEF Since
  <1>3. CalcDifficulty(w, h.signer) = CalcDifficulty(s, h.signer)  BY <1>1 DEF CalcDifficulty, inturn
  <1>4. verifySeal(w, h)  BY <1>1, <1>2, <1>3 DEF verifyHeader, verifySeal
  <1>5. MaySign(Begin(w, h), h.signer)
    <2> DEFINE y == Begin(s, h)
               v == Without(y, base)
    <2>1. IsSnapshot(y) /\ Begin(w, h) = v  BY BeginWithout, SMT DEF w
    <2>2. MaySign(y, h.signer)  BY DEF CanApply
    <2> HIDE DEF y
    <2>3. v.signers = y.signers /\ v.recents = Since(y.recents, base)  BY <2>1, WithoutFields
    <2> HIDE DEF v
    <2>4. MaySign(v, h.signer)  BY <2>2, <2>3 DEF MaySign, Since
    <2> QED  BY <2>1, <2>4
  <1> QED  BY <1>1, <1>4, <1>5 DEF verifyHeader, CanApply, w

\* At a checkpoint no vote is left, and the signers stay.
LEMMA CheckpointClears ==
    ASSUME NEW s, SnapshotInv(s), NEW h, verifyHeader(s, h), h.number % Epoch = 0
    PROVE  /\ apply(s, h).signers = s.signers /\ h.signers = s.signers
           /\ apply(s, h).votes = {} /\ apply(s, h).tally = Empty
  <1> DEFINE b == Begin(s, h)
             r == Record(b, h)
             p == RemoveVotes(r, Previous(r, h))
             c == CastVote(p, h)
  <1>1. IsSnapshot(s) /\ s.signers \subseteq Address  BY DEF SnapshotInv, SnapshotAt
  <1>2. h.coinbase = Zero /\ ~h.authorize /\ h.signers = s.signers  BY DEF verifyHeader
  <1>3. IsSnapshot(b) /\ b.signers = s.signers /\ b.votes = {} /\ b.tally = Empty
    BY <1>1 DEF Begin, IsSnapshot, Fields
  <1> HIDE DEF b
  <1>4. IsSnapshot(r) /\ r.signers = s.signers /\ r.votes = {} /\ r.tally = Empty
    BY <1>3 DEF Record, IsSnapshot, Fields
  <1> HIDE DEF r
  <1>5. DOMAIN Empty = {} /\ \A f : DOMAIN f = {} /\ f = [x \in DOMAIN f |-> f[x]] => f = Empty
    BY DEF Empty
  <1>6. uncast(Empty, Previous(r, h)) = Empty
    <2> DEFINE u == uncast(Empty, Previous(r, h))
    <2>1. DOMAIN u = {} /\ u = [x \in DOMAIN u |-> u[x]]  BY <1>5 DEF uncast
    <2> QED  BY <1>5, <2>1
  <1>7. IsSnapshot(p) /\ p.signers = s.signers /\ p.votes = {} /\ p.tally = Empty
    BY <1>4, <1>6 DEF RemoveVotes, IsSnapshot, Fields
  <1> HIDE DEF p
  <1>8. ~validVote(p.signers, h.coinbase, h.authorize)
    BY <1>1, <1>2, <1>7, CliqueAssumption DEF validVote, Zero
  <1>9. c = p  BY <1>8 DEF CastVote
  <1>10. Enact(c, h) = p  BY <1>5, <1>7, <1>9 DEF Enact, Passed
  <1>11. apply(s, h) = [p EXCEPT !.number = h.number]  BY <1>10 DEF apply, c, p, r, b
  <1> QED  BY <1>2, <1>7, <1>11 DEF IsSnapshot, Fields

\* The header in work was made for the key of the node, on top of the head.
WorkReady == work # None => Ready(snap, work) /\ work.signer = signer

\* At a checkpoint the head lists the signers, and no vote is left.
HeadIsSnap ==
    /\ head.number = snap.number
    /\ snap.number > 0 /\ snap.number % Epoch = 0 =>
           head.signers = snap.signers /\ snap.votes = {} /\ snap.tally = Empty

\* The node that began at a checkpoint lacks the recent signers before it.
LightIsWithout ==
    light # None =>
        /\ light = [base |-> light.base, snap |-> light.snap]
        /\ light.base \in Nat /\ light.base <= snap.number
        /\ light.snap = Without(snap, light.base)

\* The strengthening that LightAgrees needs, besides IInv.
LightInv == WorkReady /\ SealedVerifies /\ HeadIsSnap /\ LightIsWithout

\* A verified block keeps it.
LEMMA ExtendLight ==
    ASSUME IInv, LightInv, NEW h, verifyHeader(snap, h), CanApply(snap, h), Extend(h)
    PROVE  LightInv'
  <1>1. /\ snap' = apply(snap, h) /\ head' = h /\ work' = None /\ sealed' = None
        /\ light' = IF light # None /\ verifyHeader(light.snap, h) /\ CanApply(light.snap, h)
                    THEN [light EXCEPT !.snap = apply(@, h)] ELSE light
    BY DEF Extend
  <1>2. SnapshotInv(snap) /\ IsSnapshot(snap) /\ snap.number \in Nat /\ h.number = snap.number + 1
    BY DEF IInv, SnapshotInv, SnapshotAt, CanApply
  <1>3. snap'.number = h.number
    <2> DEFINE x == Enact(CastVote(RemoveVotes(Record(Begin(snap, h), h),
                                               Previous(Record(Begin(snap, h), h), h)), h), h)
    <2>1. apply(snap, h) = [x EXCEPT !.number = h.number]  BY DEF apply
    <2>2. h.number > snap.number  BY <1>2, SMT
    <2>3. IsSnapshot(apply(snap, h))  BY <1>2, <2>2, ApplyWithout
    <2> HIDE DEF x
    <2> QED  BY <1>1, <2>1, <2>3 DEF IsSnapshot, Fields
  <1>4. snap'.number % Epoch = 0 =>
           head'.signers = snap'.signers /\ snap'.votes = {} /\ snap'.tally = Empty
    <2>1. h.number % Epoch = 0 => /\ apply(snap, h).signers = snap.signers /\ h.signers = snap.signers
                                  /\ apply(snap, h).votes = {} /\ apply(snap, h).tally = Empty
      BY <1>2, CheckpointClears
    <2> QED  BY <1>1, <1>3, <2>1
  <1>5. ASSUME light # None
        PROVE  /\ light' = [base |-> light'.base, snap |-> light'.snap]
               /\ light'.base \in Nat /\ light'.base <= snap'.number
               /\ light'.snap = Without(snap', light'.base)
    <2>1. /\ light = [base |-> light.base, snap |-> light.snap]
          /\ light.base \in Nat /\ light.base <= snap.number
          /\ light.snap = Without(snap, light.base)
      BY <1>5 DEF LightInv, LightIsWithout
    <2>2. light' = [light EXCEPT !.snap = apply(@, h)]  BY <1>1, <1>2, <1>5, <2>1, LightAccepts
    <2>3. light' = [base |-> light.base, snap |-> apply(light.snap, h)]  BY <2>1, <2>2
    <2>4. light'.base = light.base /\ light'.snap = apply(light.snap, h)  BY <2>3
    <2>5. h.number > light.base /\ light.base <= h.number  BY <1>2, <2>1, SMT
    <2>6. apply(Without(snap, light.base), h) = Without(apply(snap, h), light.base)
      BY <1>2, <2>5, ApplyWithout, SMT
    <2>7. light'.snap = Without(snap', light.base)  BY <1>1, <2>1, <2>4, <2>6
    <2> QED  BY <1>3, <2>1, <2>3, <2>4, <2>5, <2>7
  <1>6. LightIsWithout'
    <2>1. CASE light = None  BY <1>1, <2>1 DEF LightIsWithout, None
    <2>2. CASE light # None  BY <1>5, <2>2 DEF LightIsWithout, Without, Since
    <2> QED  BY <2>1, <2>2
  <1>7. HeadIsSnap'  BY <1>1, <1>3, <1>4 DEF HeadIsSnap, Empty
  <1> QED  BY <1>1, <1>6, <1>7 DEF LightInv, WorkReady, SealedVerifies, None

\* A step that leaves the chain alone keeps what is said of it.
LEMMA ChainUnchanged ==
    ASSUME HeadIsSnap, LightIsWithout, UNCHANGED <<snap, head, light>>
    PROVE  HeadIsSnap' /\ LightIsWithout'
  BY ZenonT(40) DEF HeadIsSnap, LightIsWithout, Without, Since, None, Empty

\* What verifies goes on to verify as long as the snapshot stays.
LEMMA SealedUnchanged ==
    ASSUME snap' = snap, sealed' # None => verifyHeader(snap, sealed') /\ CanApply(snap, sealed')
    PROVE  SealedVerifies'
  BY DEF SealedVerifies, verifyHeader, verifySeal, CanApply, MaySign, Begin, Delete, Limit,
         CalcDifficulty, inturn, None, Empty, Zero

\* So does a header in work.
LEMMA WorkUnchanged ==
    ASSUME snap' = snap, work' # None => Ready(snap, work') /\ work'.signer = signer'
    PROVE  WorkReady'
  BY DEF WorkReady, Ready, CalcDifficulty, inturn, None, Zero

\* The node that begins at a checkpoint has the snapshot, but no recent signers.
LEMMA CheckpointIsWithout ==
    ASSUME IInv, HeadIsSnap, Checkpoint
    PROVE  LightIsWithout'
  <1> DEFINE n == newSnapshot(snap.number, snap.signers)
             none == Since(snap.recents, snap.number)
  <1>1. /\ snap.number \in Nat /\ IsSnapshot(snap)
        /\ Window(snap.recents, Limit(snap.signers), snap.number)
    BY DEF IInv, SnapshotInv, SnapshotAt
  <1>2. snap' = snap /\ light' = [base |-> snap.number, snap |-> n]
        /\ snap.votes = {} /\ snap.tally = Empty
    BY DEF Checkpoint, HeadIsSnap
  <1>3. none = Empty
    <2>1. \A k \in DOMAIN snap.recents : ~(k > snap.number)  BY <1>1, SMT DEF Window
    <2>2. DOMAIN none = {} /\ none = [x \in DOMAIN none |-> none[x]]  BY <2>1 DEF Since
    <2> QED  BY <2>2 DEF Empty
  <1>4. n = Without(snap, snap.number)
    <2>1. IsSnapshot(n) /\ n.number = snap.number /\ n.signers = snap.signers /\ n.recents = Empty
          /\ n.votes = {} /\ n.tally = Empty
      BY DEF newSnapshot, IsSnapshot, Fields
    <2> HIDE DEF n
    <2> QED  BY <1>1, <1>2, <1>3, <2>1, IsWithout
  <1> HIDE DEF n
  <1>5. light'.base = snap.number /\ light'.snap = n /\ light' = [base |-> light'.base, snap |-> light'.snap]
    BY <1>2
  <1>6. snap.number <= snap.number  BY <1>1, SMT
  <1>7. light'.base \in Nat /\ light'.base <= snap'.number /\ light'.snap = Without(snap', light'.base)
    BY <1>1, <1>2, <1>4, <1>5, <1>6
  <1> QED  BY <1>5, <1>7 DEF LightIsWithout, Without, Since

\* Every step keeps it in a node with one key.
LEMMA NextLight ==
    ASSUME \A k, l \in Keys : k = l, IInv, LightInv, [Next]_vars
    PROVE  LightInv'
  <1>1. ASSUME NEW who \in Address, Import(who) PROVE LightInv'
    BY <1>1, ExtendLight DEF Import
  <1>2. ASSUME Write PROVE LightInv'
    BY <1>2, ExtendLight DEF Write, LightInv, SealedVerifies
  <1>3. ASSUME Prepare PROVE LightInv'
    <2>1. UNCHANGED <<snap, head, light, sealed, signer>> /\ snap.number < MaxBlocks
      BY <1>3 DEF Prepare, engine
    <2>2. work' = work \/ work' \in Prepared(snap, signer, proposals)  BY <1>3 DEF Prepare
    <2>3. work' # None => Ready(snap, work') /\ work'.signer = signer'
      <3>1. CASE work' = work  BY <2>1, <3>1 DEF LightInv, WorkReady
      <3>2. CASE work' \in Prepared(snap, signer, proposals)  BY <2>1, <3>2, PreparedReady
      <3> QED  BY <2>2, <3>1, <3>2
    <2>4. WorkReady'  BY <2>1, <2>3, WorkUnchanged
    <2>5. SealedVerifies'  BY <2>1, SealedUnchanged DEF LightInv, SealedVerifies
    <2> QED  BY <2>1, <2>4, <2>5, ChainUnchanged DEF LightInv
  <1>4. ASSUME Seal PROVE LightInv'
    <2>1. /\ UNCHANGED <<snap, head, light, signer>> /\ work' = None /\ work # None
          /\ sealed' = [work EXCEPT !.signer = signer] /\ Permitted(snap, signer)
      BY <1>4 DEF Seal, engine
    <2>2. work \in Header /\ Ready(snap, work) /\ work.signer = signer
      BY <2>1 DEF IInv, LightInv, WorkReady
    <2>3. sealed' = work  BY <2>1, <2>2 DEF Header
    <2>4. verifyHeader(snap, work)  BY <2>1, <2>2, ReadyVerifies DEF IInv
    <2>5. CanApply(snap, work)  BY <2>1, <2>2, SealIsApply DEF IInv, CanApply, Ready
    <2>6. SealedVerifies'  BY <2>1, <2>3, <2>4, <2>5, SealedUnchanged
    <2>7. WorkReady'  BY <2>1 DEF WorkReady, None
    <2> QED  BY <2>1, <2>6, <2>7, ChainUnchanged DEF LightInv
  <1>5. ASSUME snap' = snap, work' = work, signer' = signer, sealed' = sealed \/ sealed' = None
        PROVE  WorkReady' /\ SealedVerifies'
    <2>1. WorkReady'  BY <1>5, WorkUnchanged DEF LightInv, WorkReady
    <2>2. SealedVerifies'  BY <1>5, SealedUnchanged DEF LightInv, SealedVerifies
    <2> QED  BY <2>1, <2>2
  <1>6. ASSUME Checkpoint PROVE LightInv'
    <2>1. UNCHANGED <<snap, head, work, sealed, signer>>  BY <1>6 DEF Checkpoint, engine
    <2>2. HeadIsSnap'  BY <2>1 DEF LightInv, HeadIsSnap, Empty
    <2>3. LightIsWithout'  BY <1>6, CheckpointIsWithout DEF LightInv
    <2> QED  BY <1>5, <2>1, <2>2, <2>3 DEF LightInv
  <1>7. ASSUME Stop PROVE LightInv'
    <2>1. UNCHANGED <<snap, head, light, work, signer>> /\ sealed' = None  BY <1>7 DEF Stop, engine
    <2> QED  BY <1>5, <2>1, ChainUnchanged DEF LightInv
  <1>8. ASSUME UNCHANGED <<snap, head, light, work, sealed, signer>> PROVE LightInv'
    BY <1>5, <1>8, ChainUnchanged DEF LightInv
  <1>9. ASSUME NEW a \in Address, NEW auth \in BOOLEAN, Propose(a, auth) PROVE LightInv'
    BY <1>8, <1>9 DEF Propose, Call
  <1>10. ASSUME NEW a \in Address, Discard(a) PROVE LightInv'  BY <1>8, <1>10 DEF Discard, Call
  <1>11. ASSUME NEW key \in Keys, Authorize(key) PROVE LightInv'
    <2>1. signer' = signer  BY <1>11 DEF Authorize, IInv
    <2> QED  BY <1>8, <1>11, <2>1 DEF Authorize, Call
  <1>12. ASSUME UNCHANGED vars PROVE LightInv'  BY <1>8, <1>12 DEF vars, engine
  <1> QED  BY <1>1, <1>2, <1>3, <1>4, <1>6, <1>7, <1>9, <1>10, <1>11, <1>12 DEF Next

\* It holds in every reachable state of such a node.
LEMMA LightInvAlways ==
    ASSUME \A k, l \in Keys : k = l
    PROVE  Spec => []LightInv
  <1>1. Init => LightInv
    <2>1. ASSUME Init PROVE snap.number = 0 /\ head.number = 0
      BY <2>1 DEF Init, newSnapshot
    <2>2. ~(0 > 0)  BY SMT
    <2>3. Init => HeadIsSnap  BY <2>1, <2>2 DEF HeadIsSnap
    <2> QED  BY <2>3 DEF Init, LightInv, WorkReady, SealedVerifies, LightIsWithout
  <1>2. IInv /\ LightInv /\ [Next]_vars => LightInv'  BY NextLight
  <1> QED  BY <1>1, <1>2, IInvAlways, PTL DEF Spec

\* Spec => []LightAgrees, in a node with one key: a node that began at a
\* checkpoint without the recent signers follows the chain, and computes the
\* signers, votes and tally of the nodes that have it whole.
THEOREM LightAgreesAlways ==
    ASSUME \A k, l \in Keys : k = l
    PROVE  Spec => []LightAgrees
  <1>1. ASSUME IInv, LightInv PROVE LightAgrees
    <2>1. ASSUME light # None
          PROVE  light.snap = Without(snap, light.base) /\ IsSnapshot(snap)
      BY <1>1, <2>1 DEF IInv, SnapshotInv, SnapshotAt, LightInv, LightIsWithout
    <2>2. ASSUME light # None
          PROVE  /\ light.snap.number = snap.number /\ light.snap.signers = snap.signers
                 /\ light.snap.votes = snap.votes /\ light.snap.tally = snap.tally
                 /\ light.snap.recents = Since(snap.recents, light.base)
      BY <2>1, <2>2, WithoutFields, SMT
    <2> QED  BY <2>2 DEF LightAgrees, Since
  <1> QED  BY <1>1, IInvAlways, LightInvAlways, PTL

\* Spec => []SealedVerifies, in a node with one key: a header that Seal signed
\* passes verifyHeader and Snapshot.apply, whatever proposals came in between.
THEOREM SealedAlways ==
    ASSUME \A k, l \in Keys : k = l
    PROVE  Spec => []SealedVerifies
  <1>1. LightInv => SealedVerifies  BY DEF LightInv
  <1> QED  BY <1>1, LightInvAlways, PTL

-----------------------------------------------------------------------------
(* The times of blocks *)

\* How long after the time in its header the first miner of the list seals.
Delay(s) == Times!endTime(0) * Second - Times!adjust(s)

\* It is a second at least: the steering takes two seconds at most.
LEMMA DelayPositive ==
    ASSUME NEW s \in Spans
    PROVE  /\ Times!adjust(s) \in Int
           /\ Delay(s) \in Nat /\ Delay(s) >= Second
  <1> DEFINE q == Times!Quotient(s * Second, adjustIntervalBlocks)
             a == Times!Quotient(q - Period * Second, adjustIntervalBlocks)
  <1> USE TimesAssumption DEF Times!BlockTimeAssumption
  <1>1. \A x \in Int : Times!Quotient(x, adjustIntervalBlocks) \in Int  BY SMT DEF Times!Quotient
  <1>2. s # Nothing => q \in Int  BY <1>1, SMT
  <1>3. s # Nothing => a \in Int  BY <1>1, <1>2, SMT
  <1> HIDE DEF q, a
  <1>4. Times!adjust(s) \in Int /\ Times!adjust(s) <= 2 * Second
    BY <1>3, SMT DEF Times!adjust, q, a
  <1>5. Times!endTime(0) \in Int /\ Times!endTime(0) >= 3  BY SMT DEF Times!endTime
  <1>6. Times!endTime(0) * Second >= 3 * Second /\ Times!endTime(0) * Second \in Int  BY <1>5, SMT
  <1> QED  BY <1>4, <1>6, SMT DEF Delay

\* When a block with this time in its header is sealed.
LEMMA SealedWhen ==
    ASSUME NEW h \in Nat, NEW o \in Nat, span \in Spans
    PROVE  /\ h * Second \in Nat
           /\ o > 0 => Times!calcDelayTime(h, o) = h * Second
           /\ o = 0 => Times!calcDelayTime(h, o) = h * Second + Delay(span)
           /\ Times!calcDelayTime(h, o) \in Nat /\ Times!calcDelayTime(h, o) >= h * Second
  <1> USE TimesAssumption DEF Times!BlockTimeAssumption
  <1>1. Times!endTime(h) = h + Times!endTime(0) /\ Times!endTime(0) \in Int
    BY SMT DEF Times!endTime
  <1>2. Times!endTime(h) * Second = h * Second + Times!endTime(0) * Second  BY <1>1, SMT
  <1>3. h * Second \in Nat  BY SMT
  <1>4. Times!adjust(span) \in Int /\ Delay(span) \in Nat  BY DelayPositive
  <1>5. o = 0 => Times!calcDelayTime(h, o) = h * Second + Delay(span)
    BY <1>1, <1>2, <1>3, <1>4, SMT DEF Times!calcDelayTime, Delay
  <1>6. o > 0 => Times!calcDelayTime(h, o) = h * Second  BY SMT DEF Times!calcDelayTime
  <1> QED  BY <1>3, <1>4, <1>5, <1>6, SMT

\* Prepare puts a time off as far as the place in the list asks.
LEMMA PrepareLegal ==
    ASSUME NEW t \in Nat, NEW o \in Nat
    PROVE  /\ Times!expectTime(o) \in Nat /\ Times!maxDelaySeconds \in Nat
           /\ Times!Prepare(t, o) \in Nat /\ Times!Prepare(t, o) >= t
           /\ Times!checkBlockTime(Times!Prepare(t, o), o)
           /\ Times!Prepare(t, o) = t \/ (o > 0 /\ Times!Prepare(t, o) <= Times!expectTime(o))
  <1> USE TimesAssumption DEF Times!BlockTimeAssumption
  <1>1. Times!expectTime(o) \in Nat  BY SMT DEF Times!expectTime
  <1>2. Times!maxDelaySeconds \in Nat  BY SMT DEF Times!maxDelaySeconds
  <1> QED  BY <1>1, <1>2, SMT DEF Times!Prepare, Times!checkBlockTime

\* The seconds that the clock shows.
LEMMA ClockSeconds ==
    ASSUME NEW n \in Nat
    PROVE  LET f == n \div Second
           IN  /\ f \in Nat /\ f * Second <= n /\ n < f * Second + Second
               /\ \A h \in Nat : h * Second <= n => h <= f
  <1> DEFINE f == n \div Second
  <1>0. Second \in Nat /\ Second > 0  BY TimesAssumption, SMT DEF Times!BlockTimeAssumption
  <1>1. f \in Nat /\ f * Second <= n /\ n < f * Second + Second  BY <1>0, SMT
  <1> HIDE DEF f
  <1>2. ASSUME NEW h \in Nat, h * Second <= n PROVE h <= f
    <2>1. CASE h >= f + 1
      <3>1. h * Second >= (f + 1) * Second  BY <1>0, <1>1, <2>1, SMT
      <3>2. (f + 1) * Second = f * Second + Second  BY <1>0, <1>1, SMT
      <3>3. h * Second \in Int /\ f * Second \in Int  BY <1>0, <1>1, SMT
      <3> QED  BY <1>0, <1>1, <1>2, <3>1, <3>2, <3>3, SMT
    <2> QED  BY <1>1, <2>1, SMT
  <1> QED  BY <1>1, <1>2 DEF f

Waits(m) == m \in running /\ since[m] \in Nat /\ now <= since[m] + Latency

\* What is said of the miners: one that was told to begin was told not long ago,
\* and one that runs and owns a ticket was told or has begun; one that has begun
\* has a legal time in its header; one that seals does it after its delay, which
\* is not over, but for the second in which it began or when it bought a ticket.
MinerInv(m) ==
    /\ since[m] # Nothing => Waits(m)
    /\ header[m] = Nothing =>
         due[m] = Nothing /\ (m \in running /\ place[m] # Nothing => since[m] # Nothing)
    /\ header[m] # Nothing =>
         /\ m \in running /\ since[m] = Nothing /\ place[m] \in Nat
         /\ header[m] \in Nat /\ header[m] >= MinBlockTime
         /\ Times!checkBlockTime(header[m], place[m])
         /\ due[m] = Nothing => supply # "enough"
    /\ due[m] # Nothing =>
         /\ supply # "short" /\ due[m] = Times!calcDelayTime(header[m], place[m])
         /\ now <= due[m] \/ now < header[m] * Second + Second \/ supply = "bought"

\* Only one miner owns tickets when they are short.
SupplyInv ==
    supply = "enough" \/ \A m, n \in Miner : place[m] # Nothing /\ place[n] # Nothing => m = n

TimesInv ==
    /\ now \in Nat /\ place \in [Miner -> Nat \cup {Nothing}] /\ span \in Spans
    /\ running \subseteq Miner /\ steady \subseteq running
    /\ DOMAIN since = Miner /\ DOMAIN header = Miner /\ DOMAIN due = Miner
    /\ SupplyInv /\ supply \in {"enough", "short", "bought"}
    /\ \A m \in Miner : MinerInv(m)

\* Places in the list are numbers.
LEMMA ListsAreNumbers == ASSUME NEW l \in Times!Lists PROVE l \in [Miner -> Nat \cup {Nothing}]
  BY SMT DEF Times!Lists

LEMMA ShortIsOne ==
    ASSUME place' \in Times!Lists, supply' \in Times!Supplies(place')
    PROVE  SupplyInv' /\ supply' \in {"enough", "short", "bought"}
  BY DEF Times!Supplies, Times!Owners, SupplyInv

\* A miner that a step leaves alone stays in order.
LEMMA OthersKeep ==
    ASSUME TimesInv, NEW m \in Miner, UNCHANGED <<now, place, supply, span>>,
           header'[m] = header[m], due'[m] = due[m], since'[m] = since[m],
           m \in running <=> m \in running'
    PROVE  MinerInv(m)'
  <1>1. /\ MinerInv(m)
        /\ Times!checkBlockTime(header[m], place[m]) <=> Times!checkBlockTime(header[m], place[m])'
        /\ Times!calcDelayTime(header[m], place[m]) = Times!calcDelayTime(header[m], place[m])'
        /\ Waits(m) => Waits(m)'
    BY DEF TimesInv, Times!checkBlockTime, Times!calcDelayTime, Waits,
       Times!expectTime, Times!maxDelaySeconds, Times!endTime, Times!adjust, Times!Quotient
  <1> QED  BY <1>1 DEF MinerInv

\* A miner that begins is in order.
LEMMA StartWorkKeeps ==
    ASSUME TimesInv, NEW m \in Miner, Times!StartWork(m)
    PROVE  TimesInv'
  <1> DEFINE x == Times!minTime(now \div Second)
             d == Times!calcDelayTime(header'[m], place[m])
  <1>1. /\ m \in running /\ place[m] # Nothing
        /\ UNCHANGED <<now, place, supply, span, running, steady>>
        /\ header' = [header EXCEPT ![m] = Times!Prepare(x, place[m])]
        /\ due' = [due EXCEPT ![m] = IF supply = "short" THEN Nothing ELSE d]
        /\ since' = [since EXCEPT ![m] = Nothing]
    BY DEF Times!StartWork, Times!commit
  <1>2. now \in Nat /\ place[m] \in Nat /\ Second \in Nat \ {0} /\ MinBlockTime \in Nat /\ Nothing \notin Int
    BY <1>1, TimesAssumption DEF TimesInv, Times!BlockTimeAssumption
  <1>3. /\ now \div Second \in Nat /\ now < (now \div Second) * Second + Second
    BY <1>2, ClockSeconds
  <1>4. x \in Nat /\ x >= MinBlockTime /\ x >= now \div Second  BY <1>2, <1>3, SMT DEF Times!minTime
  <1> HIDE DEF x
  <1>5. /\ header'[m] = Times!Prepare(x, place[m]) /\ since'[m] = Nothing
        /\ due'[m] = IF supply = "short" THEN Nothing ELSE d
    BY <1>1 DEF TimesInv
  <1>6. /\ header'[m] \in Nat /\ header'[m] >= x /\ Times!checkBlockTime(header'[m], place[m])
    BY <1>2, <1>4, <1>5, PrepareLegal, ZenonT(40)
  <1>7. header'[m] \in Nat /\ header'[m] >= now \div Second /\ header'[m] >= MinBlockTime
    BY <1>2, <1>3, <1>4, <1>6, SMT
  <1>8. now < header'[m] * Second + Second
    <2>1. header'[m] * Second >= (now \div Second) * Second  BY <1>2, <1>3, <1>7, SMT
    <2> QED  BY <1>2, <1>3, <1>7, <2>1, SMT
  <1>9. MinerInv(m)'
    <2>1. header'[m] # Nothing  BY <1>2, <1>7, SMT
    <2>2. Times!checkBlockTime(header[m], place[m])'
      BY <1>1, <1>6 DEF Times!checkBlockTime, Times!expectTime, Times!maxDelaySeconds
    <2>3. d = Times!calcDelayTime(header[m], place[m])'
      <3>1. span' = span /\ place' = place  BY <1>1
      <3> QED  BY <3>1 DEF Times!calcDelayTime
    <2>4. d # Nothing
      <3>1. d \in Nat  BY <1>2, <1>7, SealedWhen DEF TimesInv
      <3> QED  BY <1>2, <3>1, SMT
    <2> HIDE DEF d
    <2>5. /\ due'[m] = Nothing => supply' # "enough"
          /\ due'[m] # Nothing => supply' # "short" /\ due'[m] = d
      <3>1. "short" # "enough"  OBVIOUS
      <3> QED  BY <1>1, <1>5, <2>4, <3>1
    <2>6. (m \in running)' /\ (place[m] \in Nat)' /\ now' < header'[m] * Second + Second
      BY <1>1, <1>2, <1>8
    <2> QED  BY <1>5, <1>7, <2>1, <2>2, <2>3, <2>5, <2>6 DEF MinerInv
  <1>10. ASSUME NEW n \in Miner, n # m PROVE MinerInv(n)'
    <2>1. header'[n] = header[n] /\ due'[n] = due[n] /\ since'[n] = since[n]
      BY <1>1, <1>10 DEF TimesInv
    <2> QED  BY <1>1, <2>1, OthersKeep
  <1> QED  BY <1>1, <1>9, <1>10 DEF TimesInv, SupplyInv

\* A block is sealed after the time in its header; the clock then shows no more
\* than the delay of the first miner, unless a ticket had to be bought.
LEMMA SealedInTime ==
    ASSUME TimesInv, NEW m \in Miner, Times!Seal(m)
    PROVE  /\ header[m] \in Nat /\ header[m] # Nothing /\ header[m] <= now \div Second
           /\ place[m] \in Nat /\ due[m] # Nothing /\ supply # "short"
           /\ now' \in Nat /\ (supply # "bought" => now' <= Delay(span))
           /\ header[m] * Second <= now
  <1> DEFINE u == header[m] * Second
  <1>1. /\ due[m] # Nothing /\ due[m] <= now /\ now' = now - u  BY DEF Times!Seal
  <1>2. /\ header[m] # Nothing /\ header[m] \in Nat
        /\ due[m] = Times!calcDelayTime(header[m], place[m]) /\ supply # "short"
        /\ now <= due[m] \/ now < u + Second \/ supply = "bought"
        /\ now \in Nat /\ place[m] \in Nat /\ span \in Spans /\ Second \in Nat
    BY <1>1, TimesAssumption DEF TimesInv, MinerInv, Times!BlockTimeAssumption
  <1>3. /\ u \in Nat /\ due[m] \in Nat /\ due[m] >= u
        /\ place[m] > 0 => due[m] = u
        /\ place[m] = 0 => due[m] = u + Delay(span)
    <2> DEFINE d == Times!calcDelayTime(header[m], place[m])
    <2>1. /\ u \in Nat /\ d \in Nat /\ d >= u
          /\ place[m] > 0 => d = u
          /\ place[m] = 0 => d = u + Delay(span)
      BY <1>2, SealedWhen
    <2> QED  BY <1>2, <2>1
  <1>4. Delay(span) \in Nat /\ Delay(span) >= Second  BY <1>2, DelayPositive
  <1> HIDE DEF u
  <1>5. now' \in Nat /\ (now <= due[m] \/ now < u + Second => now' <= Delay(span))
    BY <1>1, <1>2, <1>3, <1>4, SMT
  <1>6. u <= now  BY <1>1, <1>2, <1>3, SMT
  <1>7. header[m] <= now \div Second  BY <1>2, <1>6, ClockSeconds DEF u
  <1> QED  BY <1>1, <1>2, <1>5, <1>6, <1>7 DEF u

\* So is one that makes another block, and one that finds out it has no ticket.
LEMMA ResubmitKeeps ==
    ASSUME TimesInv, NEW m \in Miner, Times!Resubmit(m)
    PROVE  TimesInv'
  <1> DEFINE d == Times!calcDelayTime(header[m], place[m])
  <1>1. /\ UNCHANGED <<now, place, supply, span, running, since, steady>> /\ header[m] # Nothing
        /\ header' = [header EXCEPT ![m] = header[m]]
        /\ due' = [due EXCEPT ![m] = IF supply = "short" THEN Nothing
                                      ELSE Times!calcDelayTime(header'[m], place[m])]
    BY DEF Times!Resubmit, Times!Resubmitted, Times!commit
  <1>2. DOMAIN header' = Miner /\ \A n \in Miner : header'[n] = header[n]  BY <1>1 DEF TimesInv
  <1>3. /\ DOMAIN due' = Miner /\ \A n \in Miner \ {m} : due'[n] = due[n]
        /\ due'[m] = IF supply = "short" THEN Nothing ELSE d
    BY <1>1, <1>2 DEF TimesInv
  <1>4. ASSUME NEW n \in Miner PROVE MinerInv(n)'
    <2>1. CASE due'[n] = due[n]  BY <1>1, <1>2, <2>1, OthersKeep
    <2>2. CASE n = m /\ due'[n] # due[n]
      <3>1. /\ MinerInv(m) /\ header[m] \in Nat /\ place[m] \in Nat /\ span \in Spans
            /\ Nothing \notin Int
        BY <1>1, TimesAssumption DEF TimesInv, MinerInv, Times!BlockTimeAssumption
      <3>2. d \in Nat  BY <3>1, SealedWhen
      <3>3. d # Nothing  BY <3>1, <3>2, SMT
      <3>4. d = Times!calcDelayTime(header[m], place[m])'
        BY <1>1, <1>2 DEF Times!calcDelayTime
      <3>5. Times!checkBlockTime(header[m], place[m])'
        BY <1>1, <1>2, <3>1 DEF MinerInv, Times!checkBlockTime, Times!expectTime, Times!maxDelaySeconds
      <3> HIDE DEF d
      <3>6. due[m] = Nothing /\ supply # "short" /\ due'[m] = d /\ supply # "enough"
        BY <1>1, <1>3, <2>2, <3>1 DEF MinerInv, d
      <3>7. supply = "bought"  BY <1>1, <3>6 DEF TimesInv
      <3> QED  BY <1>1, <1>2, <2>2, <3>1, <3>3, <3>4, <3>5, <3>6, <3>7 DEF MinerInv
    <2> QED  BY <1>3, <2>1, <2>2
  <1> QED  BY <1>1, <1>2, <1>3, <1>4 DEF TimesInv, SupplyInv

LEMMA NoTicketKeeps ==
    ASSUME TimesInv, NEW m \in Miner, Times!NoTicket(m)
    PROVE  TimesInv'
  <1>1. /\ UNCHANGED <<now, place, supply, span, running, header, due, steady>>
        /\ since' = [since EXCEPT ![m] = Nothing] /\ place[m] = Nothing
    BY DEF Times!NoTicket
  <1>2. ASSUME NEW n \in Miner PROVE MinerInv(n)'
    <2>1. CASE n = m
      <3>1. since'[m] = Nothing /\ header[m] = Nothing /\ due[m] = Nothing
        <4>1. Nothing \notin Nat  BY TimesAssumption, SMT DEF Times!BlockTimeAssumption
        <4> QED  BY <1>1, <4>1 DEF TimesInv, MinerInv
      <3> QED  BY <1>1, <2>1, <3>1 DEF MinerInv
    <2>2. CASE n # m
      <3>1. since'[n] = since[n]  BY <1>1, <2>2 DEF TimesInv
      <3> QED  BY <1>1, <3>1, OthersKeep
    <2> QED  BY <2>1, <2>2
  <1> QED  BY <1>1, <1>2 DEF TimesInv, SupplyInv

\* Every step keeps the miners in order.
LEMMA NextTimesInv == TimesInv /\ [Times!Next]_Times!vars => TimesInv'
  <1> SUFFICES ASSUME TimesInv, [Times!Next]_Times!vars PROVE TimesInv'  OBVIOUS
  <1>0. Nothing \notin Int /\ Latency \in Nat  BY TimesAssumption DEF Times!BlockTimeAssumption
  <1>1. ASSUME NEW m \in Miner, Times!StartWork(m) PROVE TimesInv'  BY <1>1, StartWorkKeeps
  <1>2. ASSUME NEW m \in Miner, Times!Resubmit(m) PROVE TimesInv'  BY <1>2, ResubmitKeeps
  <1>3. ASSUME NEW m \in Miner, Times!Seal(m) PROVE TimesInv'
    <2>1. /\ place' \in Times!Lists /\ supply' \in Times!Supplies(place') /\ span' \in Spans
          /\ running' = running /\ steady' = running
          /\ since' = [n \in Miner |-> IF n \in running THEN now' ELSE Nothing]
          /\ header' = [n \in Miner |-> Nothing] /\ due' = [n \in Miner |-> Nothing]
      BY <1>3 DEF Times!Seal, Times!Idle
    <2>2. now' \in Nat /\ place' \in [Miner -> Nat \cup {Nothing}] /\ SupplyInv'
          /\ supply' \in {"enough", "short", "bought"}
      BY <1>3, <2>1, SealedInTime, ListsAreNumbers, ShortIsOne
    <2>3. now' <= now' + Latency /\ now' # Nothing
      <3>1. \A t \in Nat : t <= t + Latency /\ t # Nothing  BY <1>0, SMT
      <3> QED  BY <2>2, <3>1
    <2>4. ASSUME NEW n \in Miner PROVE MinerInv(n)'
      <3>1. /\ header'[n] = Nothing /\ due'[n] = Nothing
            /\ since'[n] = IF n \in running' THEN now' ELSE Nothing
        BY <2>1
      <3> QED  BY <2>2, <2>3, <3>1 DEF MinerInv, Waits
    <2> QED  BY <2>1, <2>2, <2>4 DEF TimesInv
  <1>4. ASSUME NEW m \in Miner, Times!Stop(m) PROVE TimesInv'
    <2>1. /\ UNCHANGED <<now, place, supply, span>> /\ running' = running \ {m} /\ steady' = steady \ {m}
          /\ header' = [header EXCEPT ![m] = Nothing] /\ due' = [due EXCEPT ![m] = Nothing]
          /\ since' = [since EXCEPT ![m] = Nothing]
      BY <1>4 DEF Times!Stop
    <2>2. ASSUME NEW n \in Miner PROVE MinerInv(n)'
      <3>1. CASE n = m
        <4>1. header'[n] = Nothing /\ due'[n] = Nothing /\ since'[n] = Nothing /\ n \notin running'
          BY <2>1, <3>1 DEF TimesInv
        <4> QED  BY <4>1 DEF MinerInv
      <3>2. CASE n # m
        <4>1. header'[n] = header[n] /\ due'[n] = due[n] /\ since'[n] = since[n]  BY <2>1, <3>2 DEF TimesInv
        <4> QED  BY <2>1, <3>2, <4>1, OthersKeep
      <3> QED  BY <3>1, <3>2
    <2> QED  BY <2>1, <2>2 DEF TimesInv, SupplyInv
  <1>5. ASSUME NEW m \in Miner, Times!Start(m) PROVE TimesInv'
    <2>1. /\ UNCHANGED <<now, place, supply, span, header, due, steady>> /\ running' = running \cup {m}
          /\ since' = [since EXCEPT ![m] = now] /\ m \notin running
      BY <1>5 DEF Times!Start
    <2>2. now \in Nat /\ now <= now + Latency /\ now # Nothing  BY <1>0, SMT DEF TimesInv
    <2>3. ASSUME NEW n \in Miner PROVE MinerInv(n)'
      <3>1. CASE n = m
        <4>1. header'[n] = Nothing /\ due'[n] = Nothing  BY <2>1, <3>1 DEF TimesInv, MinerInv
        <4>2. since'[n] = now /\ now' = now /\ n \in running'  BY <2>1, <3>1 DEF TimesInv
        <4> QED  BY <2>2, <4>1, <4>2 DEF MinerInv, Waits
      <3>2. CASE n # m
        <4>1. since'[n] = since[n]  BY <2>1, <3>2 DEF TimesInv
        <4> QED  BY <2>1, <3>2, <4>1, OthersKeep
      <3> QED  BY <3>1, <3>2
    <2> QED  BY <2>1, <2>3 DEF TimesInv, SupplyInv
  <1>6. ASSUME Times!Tick PROVE TimesInv'
    <2>1. /\ now' = now + 1 /\ UNCHANGED <<place, supply, span, running, since, header, due, steady>>
          /\ \A m \in running : since[m] # Nothing => now < since[m] + Latency
          /\ \A m \in running : due[m] # Nothing => now < due[m]
      BY <1>6 DEF Times!Tick
    <2>2. ASSUME NEW n \in Miner PROVE MinerInv(n)'
      <3>1. ASSUME since[n] # Nothing PROVE Waits(n)'
        <4>1. n \in running /\ since[n] \in Nat /\ now < since[n] + Latency /\ now \in Nat
          BY <2>1, <3>1 DEF TimesInv, MinerInv, Waits
        <4>2. now' <= since[n] + Latency  BY <1>0, <2>1, <4>1, SMT
        <4> QED  BY <2>1, <4>1, <4>2 DEF Waits
      <3>2. ASSUME due[n] # Nothing PROVE now' <= due[n]
        <4>1. /\ header[n] \in Nat /\ due[n] = Times!calcDelayTime(header[n], place[n]) /\ n \in running
              /\ now \in Nat /\ place[n] \in Nat /\ span \in Spans
          BY <3>2 DEF TimesInv, MinerInv
        <4>2. due[n] \in Nat  BY <4>1, SealedWhen
        <4>3. now < due[n]  BY <2>1, <3>2, <4>1
        <4> QED  BY <2>1, <4>1, <4>2, <4>3, SMT
      <3>3. /\ MinerInv(n)
            /\ Times!checkBlockTime(header[n], place[n]) <=> Times!checkBlockTime(header[n], place[n])'
            /\ Times!calcDelayTime(header[n], place[n]) = Times!calcDelayTime(header[n], place[n])'
        BY <2>1 DEF TimesInv, Times!checkBlockTime, Times!calcDelayTime,
           Times!expectTime, Times!maxDelaySeconds, Times!endTime, Times!adjust, Times!Quotient
      <3> QED  BY <2>1, <3>1, <3>2, <3>3 DEF MinerInv
    <2>3. now' \in Nat  BY <2>1, SMT DEF TimesInv
    <2> QED  BY <2>1, <2>2, <2>3 DEF TimesInv, SupplyInv
  <1>7. ASSUME NEW m \in Miner, Times!NoTicket(m) PROVE TimesInv'  BY <1>7, NoTicketKeeps
  <1>8. ASSUME Times!Buy PROVE TimesInv'
    <2>1. /\ UNCHANGED <<now, place, span, running, since, header, due, steady>>
          /\ supply = "short" /\ supply' = "bought"
      BY <1>8 DEF Times!Buy
    <2>2. ASSUME NEW n \in Miner PROVE MinerInv(n)'
      <3>1. /\ MinerInv(n) /\ (Waits(n) => Waits(n)')
            /\ Times!checkBlockTime(header[n], place[n]) <=> Times!checkBlockTime(header[n], place[n])'
        BY <2>1 DEF TimesInv, Waits, Times!checkBlockTime, Times!expectTime, Times!maxDelaySeconds
      <3>2. due[n] = Nothing  BY <2>1, <3>1 DEF MinerInv
      <3> QED  BY <2>1, <3>1, <3>2 DEF MinerInv
    <2>3. SupplyInv'  BY <2>1 DEF TimesInv, SupplyInv
    <2> QED  BY <2>1, <2>2, <2>3 DEF TimesInv
  <1>9. ASSUME UNCHANGED Times!vars PROVE TimesInv'
    <2>1. ASSUME NEW n \in Miner PROVE MinerInv(n)'  BY <1>9, OthersKeep DEF Times!vars
    <2> QED  BY <1>9, <2>1 DEF TimesInv, SupplyInv, Times!vars
  <1> QED  BY <1>1, <1>2, <1>3, <1>4, <1>5, <1>6, <1>7, <1>8, <1>9 DEF Times!Next, Times!Step

\* The miners are in order in every reachable state.
LEMMA TimesInvAlways == Times!Spec => []TimesInv
  <1>1. Times!Init => TimesInv
    <2> SUFFICES ASSUME Times!Init PROVE TimesInv  OBVIOUS
    <2>1. /\ now = 0 /\ place \in Times!Lists /\ supply \in Times!Supplies(place)
          /\ span \in Spans /\ running = Miner
          /\ since = [m \in Miner |-> 0] /\ header = [m \in Miner |-> Nothing]
          /\ due = [m \in Miner |-> Nothing] /\ steady = Miner
      BY DEF Times!Init, Times!Idle
    <2>2. place \in [Miner -> Nat \cup {Nothing}] /\ SupplyInv /\ supply \in {"enough", "short", "bought"}
      BY <2>1, ListsAreNumbers DEF SupplyInv, Times!Supplies, Times!Owners
    <2>3. now \in Nat /\ 0 \in Nat /\ 0 <= 0 + Latency /\ 0 # Nothing
      BY <2>1, TimesAssumption, SMT DEF Times!BlockTimeAssumption
    <2>4. ASSUME NEW m \in Miner PROVE MinerInv(m)  BY <2>1, <2>3 DEF MinerInv, Waits
    <2> QED  BY <2>1, <2>2, <2>3, <2>4 DEF TimesInv
  <1> QED  BY <1>1, NextTimesInv, PTL DEF Times!Spec

\* Times!Spec => Times!SealedIsValid: whenever miners begin, stop and start, the
\* block that one of them seals has a time that verifyHeader accepts at once.
THEOREM SealedAlwaysValid == Times!Spec => Times!SealedIsValid
  <1>1. ASSUME TimesInv, NEW m \in Miner, Times!Seal(m)
        PROVE  Times!verifyHeader(header[m], place[m])
    <2>1. header[m] # Nothing  BY <1>1, SealedInTime
    <2>2. header[m] >= MinBlockTime /\ Times!checkBlockTime(header[m], place[m])
      BY <1>1, <2>1 DEF TimesInv, MinerInv
    <2> QED  BY <1>1, <2>2, SealedInTime DEF Times!verifyHeader
  <1>2. TimesInv => [\A m \in Miner : Times!Seal(m) => Times!verifyHeader(header[m], place[m])]_Times!vars
    BY <1>1
  <1> QED  BY <1>2, TimesInvAlways, PTL DEF Times!SealedIsValid

\* What the network has to keep: told of a block after the longest delay of a
\* first miner, and late by Latency, the next first miner is still done before
\* the time of the second place; also when it waits for MinBlockTime.
InGoodTime ==
    /\ delayTimeModifier > 0
    /\ \A s, t \in Spans :
           /\ Delay(s) + Latency + Delay(t) < Times!expectTime(1) * Second
           /\ MinBlockTime * Second + Delay(t) < Times!expectTime(1) * Second

\* A miner that runs since the parent was sealed is told of it, or is done with
\* its own block, before the time of the places behind.
SteadyInv(n) ==
    IF header[n] = Nothing
    THEN since[n] # Nothing => \E s \in Spans : since[n] <= Delay(s)
    ELSE /\ now <= due[n] \/ now < Times!expectTime(1) * Second
         /\ \/ due[n] < Times!expectTime(1) * Second
            \/ place[n] > 0 /\ due[n] <= Times!expectTime(place[n]) * Second

\* Times of different places, in units.
LEMMA PlacesApart ==
    ASSUME InGoodTime, NEW j \in Nat, NEW k \in Nat, k < j
    PROVE  /\ Times!expectTime(j) \in Nat /\ Times!expectTime(j) * Second \in Nat
           /\ Times!expectTime(1) \in Nat /\ Times!expectTime(1) * Second \in Nat
           /\ Times!expectTime(1) * Second <= Times!expectTime(j) * Second
           /\ Times!expectTime(k) * Second < Times!expectTime(j) * Second
  <1>0. /\ Second \in Nat /\ Second > 0 /\ Period \in Nat
        /\ delayTimeModifier \in Nat /\ delayTimeModifier > 0
    BY TimesAssumption, SMT DEF Times!BlockTimeAssumption, InGoodTime
  <1>1. j * delayTimeModifier >= k * delayTimeModifier + delayTimeModifier
    <2>1. j * delayTimeModifier >= (k + 1) * delayTimeModifier  BY <1>0, SMT
    <2> QED  BY <1>0, <2>1, SMT
  <1>2. j * delayTimeModifier >= delayTimeModifier  BY <1>0, SMT
  <1>3. j * delayTimeModifier \in Nat /\ k * delayTimeModifier \in Nat  BY <1>0, SMT
  <1>4. /\ Times!expectTime(j) \in Nat /\ Times!expectTime(k) \in Nat /\ Times!expectTime(1) \in Nat
        /\ Times!expectTime(1) <= Times!expectTime(j) /\ Times!expectTime(k) + 1 <= Times!expectTime(j)
    BY <1>0, <1>1, <1>2, <1>3, SMT DEF Times!expectTime
  <1>5. \A x, y \in Nat : x * Second \in Nat /\ (x <= y => x * Second <= y * Second)
                          /\ (x + 1 <= y => x * Second < y * Second)
    <2> SUFFICES ASSUME NEW x \in Nat, NEW y \in Nat
                 PROVE  x * Second \in Nat /\ (x <= y => x * Second <= y * Second)
                        /\ (x + 1 <= y => x * Second < y * Second)
      OBVIOUS
    <2>1. x <= y => x * Second <= y * Second  BY <1>0, SMT
    <2>2. x + 1 <= y => (x + 1) * Second <= y * Second  BY <1>0, SMT
    <2>3. (x + 1) * Second = x * Second + Second  BY <1>0, SMT
    <2>4. x * Second \in Nat /\ y * Second \in Nat  BY <1>0, SMT
    <2> QED  BY <1>0, <2>1, <2>2, <2>3, <2>4, SMT
  <1> QED  BY <1>4, <1>5

\* A miner that was told in time is done in time.
LEMMA BeginsInTime ==
    ASSUME InGoodTime, TimesInv, NEW m \in Miner, Times!StartWork(m), supply = "enough",
           \E s \in Spans : since[m] <= Delay(s)
    PROVE  /\ header'[m] # Nothing /\ now < Times!expectTime(1) * Second
           /\ \/ due'[m] < Times!expectTime(1) * Second
              \/ place[m] > 0 /\ due'[m] <= Times!expectTime(place[m]) * Second
  <1> DEFINE f == now \div Second
             x == Times!minTime(f)
             h == Times!Prepare(x, place[m])
             bound == Times!expectTime(1) * Second
  <1>1. /\ m \in running /\ since[m] # Nothing /\ place[m] # Nothing
        /\ header' = [header EXCEPT ![m] = h]
        /\ due' = [due EXCEPT ![m] = Times!calcDelayTime(header'[m], place[m])]
    <2>1. "enough" # "short"  OBVIOUS
    <2> QED  BY <2>1 DEF Times!StartWork, Times!commit
  <1>2. /\ now \in Nat /\ place[m] \in Nat /\ span \in Spans
        /\ since[m] \in Nat /\ now <= since[m] + Latency
        /\ header'[m] = h /\ due'[m] = Times!calcDelayTime(h, place[m])
    BY <1>1 DEF TimesInv, MinerInv, Waits
  <1>3. /\ Second \in Nat /\ Latency \in Nat /\ MinBlockTime \in Nat /\ Nothing \notin Int
    BY TimesAssumption DEF Times!BlockTimeAssumption
  <1>4. f \in Nat /\ f * Second <= now  BY <1>2, ClockSeconds
  <1> HIDE DEF f
  <1>5. x \in Nat /\ (x = f \/ x = MinBlockTime)  BY <1>3, <1>4, SMT DEF Times!minTime
  <1> HIDE DEF x
  <1>6. h \in Nat /\ (h = x \/ (place[m] > 0 /\ h <= Times!expectTime(place[m])))
        /\ Times!expectTime(place[m]) \in Nat
    BY <1>2, <1>5, PrepareLegal
  <1>7. PICK s \in Spans : since[m] <= Delay(s)  BY <1>1
  <1>8. /\ Delay(s) \in Nat /\ Delay(span) \in Nat  BY <1>2, <1>7, DelayPositive
  <1>9. bound \in Nat
    <2>1. 0 \in Nat /\ 1 \in Nat /\ 0 < 1  BY SMT
    <2> QED  BY <2>1, PlacesApart
  <1>10. /\ Delay(s) + Latency + Delay(span) < bound
         /\ MinBlockTime * Second + Delay(span) < bound
    BY <1>2, <1>7 DEF InGoodTime
  <1> HIDE DEF h, bound
  <1>11. MinBlockTime * Second \in Nat /\ x * Second \in Nat  BY <1>3, <1>5, SMT
  <1>12. x * Second + Delay(span) < bound /\ now < bound
    <2>1. now <= Delay(s) + Latency  BY <1>2, <1>3, <1>7, <1>8, SMT
    <2>2. CASE x = f  BY <1>2, <1>3, <1>4, <1>8, <1>9, <1>10, <1>11, <2>1, <2>2, SMT
    <2>3. CASE x = MinBlockTime  BY <1>2, <1>3, <1>8, <1>9, <1>10, <1>11, <2>1, <2>3, SMT
    <2> QED  BY <1>5, <2>2, <2>3
  <1>13. header'[m] # Nothing  BY <1>2, <1>3, <1>6, SMT
  <1>14. due'[m] < bound \/ (place[m] > 0 /\ due'[m] <= Times!expectTime(place[m]) * Second)
    <2>1. /\ place[m] > 0 => due'[m] = h * Second
          /\ place[m] = 0 => due'[m] = h * Second + Delay(span)
      BY <1>2, <1>6, SealedWhen
    <2>2. CASE h = x  BY <1>2, <1>8, <1>9, <1>11, <1>12, <2>1, <2>2, SMT
    <2>3. CASE place[m] > 0 /\ h <= Times!expectTime(place[m])
      <3>1. h * Second <= Times!expectTime(place[m]) * Second  BY <1>3, <1>6, <2>3, SMT
      <3> QED  BY <2>1, <2>3, <3>1
    <2> QED  BY <1>6, <2>2, <2>3
  <1> QED  BY <1>12, <1>13, <1>14 DEF bound

\* Neither the parent nor the next block waits for a purchase.
InSupply == ~late /\ supply = "enough"

AllSteady == InSupply => \A n \in steady : SteadyInv(n)

\* A miner that the step leaves alone stays in time.
LEMMA SteadyKeeps ==
    ASSUME NEW n, SteadyInv(n), UNCHANGED <<now, place>>,
           header'[n] = header[n], due'[n] = due[n], since'[n] = since[n]
    PROVE  SteadyInv(n)'
  BY ZenonT(40) DEF SteadyInv, Delay, Times!expectTime, Times!endTime, Times!adjust, Times!Quotient

\* Every step keeps the miners in time.
LEMMA NextSteady ==
    ASSUME InGoodTime, TimesInv, AllSteady, [Times!Next]_Times!vars
    PROVE  AllSteady'
  <1> SUFFICES ASSUME InSupply' PROVE (\A n \in steady : SteadyInv(n))'  BY DEF AllSteady
  <1> DEFINE SteadyAll == \A n \in steady : SteadyInv(n)
  <1>0. ASSUME UNCHANGED <<supply, late>> PROVE SteadyAll /\ supply = "enough"
    <2>1. supply' = supply /\ late' = late  BY <1>0
    <2>2. InSupply  BY <2>1 DEF InSupply
    <2> QED  BY <2>2 DEF AllSteady, InSupply
  <1>1. ASSUME NEW m \in Miner, Times!StartWork(m) PROVE SteadyAll'
    <2>1. /\ UNCHANGED <<now, place, supply, late, steady>> /\ since' = [since EXCEPT ![m] = Nothing]
          /\ since[m] # Nothing
          /\ \E h : header' = [header EXCEPT ![m] = h] /\ \E d : due' = [due EXCEPT ![m] = d]
      BY <1>1 DEF Times!StartWork
    <2>2. ASSUME NEW n \in steady PROVE SteadyInv(n)'
      <3>1. n \in Miner  BY <2>2 DEF TimesInv
      <3>2. CASE n = m
        <4>1. \E s \in Spans : since[m] <= Delay(s)
          <5>1. header[m] = Nothing  BY <2>1 DEF TimesInv, MinerInv
          <5> QED  BY <1>0, <2>1, <2>2, <3>2, <5>1 DEF SteadyInv
        <4>2. /\ header'[m] # Nothing /\ now < Times!expectTime(1) * Second
              /\ \/ due'[m] < Times!expectTime(1) * Second
                 \/ place[m] > 0 /\ due'[m] <= Times!expectTime(place[m]) * Second
          BY <1>0, <1>1, <2>1, <4>1, BeginsInTime
        <4> QED  BY <2>1, <3>2, <4>2 DEF SteadyInv, Times!expectTime
      <3>3. CASE n # m
        <4>1. header'[n] = header[n] /\ due'[n] = due[n] /\ since'[n] = since[n]
          BY <2>1, <3>1, <3>3 DEF TimesInv
        <4> QED  BY <1>0, <2>1, <2>2, <4>1, SteadyKeeps
      <3> QED  BY <3>2, <3>3
    <2> QED  BY <2>1, <2>2
  <1>2. ASSUME NEW m \in Miner, Times!Resubmit(m) PROVE SteadyAll'
    <2>1. /\ UNCHANGED <<now, place, supply, late, span, running, since, steady>> /\ header[m] # Nothing
          /\ header' = [header EXCEPT ![m] = header[m]]
          /\ due' = [due EXCEPT ![m] = Times!calcDelayTime(header'[m], place[m])]
      <3>1. UNCHANGED <<supply, late>>  BY <1>2 DEF Times!Resubmit
      <3>2. supply = "enough" /\ supply # "short"  BY <1>0, <3>1
      <3> QED  BY <1>2, <3>2 DEF Times!Resubmit, Times!Resubmitted, Times!commit
    <2>2. \A n \in Miner : header'[n] = header[n]  BY <2>1 DEF TimesInv
    <2>3. due[m] = Times!calcDelayTime(header[m], place[m])  BY <1>0, <2>1 DEF TimesInv, MinerInv
    <2>4. \A n \in Miner : due'[n] = due[n]  BY <2>1, <2>2, <2>3 DEF TimesInv
    <2>5. ASSUME NEW n \in steady PROVE SteadyInv(n)'
      <3>1. n \in Miner  BY <2>5 DEF TimesInv
      <3> QED  BY <1>0, <2>1, <2>2, <2>4, <2>5, <3>1, SteadyKeeps
    <2> QED  BY <2>1, <2>5
  <1>3. ASSUME NEW m \in Miner, Times!Seal(m) PROVE SteadyAll'
    <2>1. /\ steady' = running /\ late' = (supply = "bought") /\ header' = [n \in Miner |-> Nothing]
          /\ since' = [n \in Miner |-> IF n \in running THEN now' ELSE Nothing]
      BY <1>3 DEF Times!Seal, Times!Idle
    <2>2. now' <= Delay(span) /\ span \in Spans
      <3>1. supply # "bought"  BY <2>1 DEF InSupply
      <3> QED  BY <1>3, <3>1, SealedInTime DEF TimesInv
    <2>3. ASSUME NEW n \in running PROVE header'[n] = Nothing /\ since'[n] = now'
      BY <2>1, <2>3 DEF TimesInv
    <2>4. ASSUME NEW n \in running PROVE SteadyInv(n)'
      BY <2>2, <2>3, <2>4 DEF SteadyInv, Delay, Times!endTime, Times!adjust, Times!Quotient
    <2> QED  BY <2>1, <2>4
  <1>4. ASSUME NEW m \in Miner, Times!Stop(m) PROVE SteadyAll'
    <2>1. /\ UNCHANGED <<now, place, supply, late>> /\ steady' = steady \ {m}
          /\ header' = [header EXCEPT ![m] = Nothing] /\ due' = [due EXCEPT ![m] = Nothing]
          /\ since' = [since EXCEPT ![m] = Nothing]
      BY <1>4 DEF Times!Stop
    <2>2. ASSUME NEW n \in steady, n # m PROVE SteadyInv(n)'
      <3>1. n \in Miner  BY <2>2 DEF TimesInv
      <3>2. header'[n] = header[n] /\ due'[n] = due[n] /\ since'[n] = since[n]
        BY <2>1, <2>2, <3>1 DEF TimesInv
      <3> QED  BY <1>0, <2>1, <2>2, <3>2, SteadyKeeps
    <2> QED  BY <2>1, <2>2
  <1>5. ASSUME NEW m \in Miner, Times!Start(m) PROVE SteadyAll'
    <2>1. /\ UNCHANGED <<now, place, supply, late, header, due, steady>> /\ m \notin running
          /\ since' = [since EXCEPT ![m] = now]
      BY <1>5 DEF Times!Start
    <2>2. ASSUME NEW n \in steady PROVE SteadyInv(n)'
      <3>1. n \in Miner /\ n # m  BY <2>1, <2>2 DEF TimesInv
      <3>2. since'[n] = since[n]  BY <2>1, <3>1 DEF TimesInv
      <3> QED  BY <1>0, <2>1, <2>2, <3>2, SteadyKeeps
    <2> QED  BY <2>1, <2>2
  <1>6. ASSUME Times!Tick PROVE SteadyAll'
    <2>1. /\ now' = now + 1 /\ UNCHANGED <<place, supply, late, since, header, due, steady>>
          /\ \A m \in running : due[m] # Nothing => now < due[m]
      BY <1>6 DEF Times!Tick
    <2>2. ASSUME NEW n \in steady PROVE SteadyInv(n)'
      <3>1. n \in Miner /\ n \in running /\ now \in Nat /\ span \in Spans /\ SteadyInv(n)
        BY <1>0, <2>1, <2>2 DEF TimesInv
      <3>2. CASE header[n] = Nothing
        <4>1. since[n] # Nothing => \E s \in Spans : since[n] <= Delay(s)  BY <3>1, <3>2 DEF SteadyInv
        <4> QED  BY <2>1, <3>2, <4>1 DEF SteadyInv, Delay, Times!endTime, Times!adjust, Times!Quotient
      <3>3. CASE header[n] # Nothing
        <4>1. /\ header[n] \in Nat /\ place[n] \in Nat /\ due[n] # Nothing
              /\ due[n] = Times!calcDelayTime(header[n], place[n])
          BY <1>0, <2>1, <3>1, <3>3 DEF TimesInv, MinerInv
        <4>2. due[n] \in Nat  BY <3>1, <4>1, SealedWhen
        <4>3. now < due[n]  BY <2>1, <3>1, <4>1
        <4>4. now' <= due[n]  BY <2>1, <3>1, <4>2, <4>3, SMT
        <4> QED  BY <2>1, <3>1, <3>3, <4>4 DEF SteadyInv, Times!expectTime
      <3> QED  BY <3>2, <3>3
    <2> QED  BY <2>1, <2>2
  <1>7. ASSUME NEW m \in Miner, Times!NoTicket(m) PROVE SteadyAll'
    <2>1. /\ UNCHANGED <<now, place, supply, late, header, due, steady>>
          /\ since' = [since EXCEPT ![m] = Nothing] /\ since[m] # Nothing
      BY <1>7 DEF Times!NoTicket
    <2>2. ASSUME NEW n \in steady PROVE SteadyInv(n)'
      <3>1. n \in Miner  BY <2>2 DEF TimesInv
      <3>2. CASE n = m
        <4>1. since'[n] = Nothing /\ header'[n] = Nothing  BY <2>1, <3>1, <3>2 DEF TimesInv, MinerInv
        <4> QED  BY <4>1 DEF SteadyInv
      <3>3. CASE n # m
        <4>1. since'[n] = since[n]  BY <2>1, <3>1, <3>3 DEF TimesInv
        <4> QED  BY <1>0, <2>1, <2>2, <4>1, SteadyKeeps
      <3> QED  BY <3>2, <3>3
    <2> QED  BY <2>1, <2>2
  <1>8. ~Times!Buy
    <2>1. "bought" # "enough"  OBVIOUS
    <2> QED  BY <2>1 DEF Times!Buy, InSupply
  <1>9. ASSUME UNCHANGED Times!vars PROVE SteadyAll'
    <2>1. UNCHANGED <<now, place, supply, late, steady, header, due, since>>  BY <1>9 DEF Times!vars
    <2> QED  BY <1>0, <2>1, SteadyKeeps
  <1> QED  BY <1>1, <1>2, <1>3, <1>4, <1>5, <1>6, <1>7, <1>8, <1>9 DEF Times!Next, Times!Step

\* Times!Spec => NotOvertaken, where the network keeps the times: for any
\* number of miners, any places, stops and starts, no miner seals with a time
\* below the longest delay while one before it in the list has run since the
\* parent was sealed, unless the parent had to wait for a purchase (Prepare,
\* calcDelayTime, Finalize).
THEOREM NeverOvertaken ==
    ASSUME InGoodTime
    PROVE  Times!Spec => NotOvertaken
  <1>1. Times!Init => AllSteady
    <2> SUFFICES ASSUME Times!Init, NEW n \in steady PROVE SteadyInv(n)  BY DEF AllSteady
    <2>1. n \in Miner /\ since[n] = 0 /\ header[n] = Nothing /\ span \in Spans
      BY DEF Times!Init, Times!Idle
    <2>2. Delay(span) \in Nat  BY <2>1, DelayPositive
    <2>3. since[n] <= Delay(span)  BY <2>1, <2>2, SMT
    <2> QED  BY <2>1, <2>3 DEF SteadyInv
  <1>2. TimesInv /\ AllSteady /\ [Times!Next]_Times!vars => AllSteady'  BY NextSteady
  <1>3. ASSUME TimesInv, AllSteady, NEW m \in Miner, NEW n \in Miner,
               Times!Seal(m), ~late, n \in steady, place[n] # Nothing, place[n] < place[m]
        PROVE  header[m] >= Times!maxDelaySeconds
    <2> DEFINE bound == Times!expectTime(1) * Second
    <2>0. supply = "enough"
      <3>1. place[m] # Nothing /\ place[m] \in Nat
        <4>1. place[m] \in Nat  BY <1>3, SealedInTime
        <4> QED  BY <4>1, TimesAssumption, SMT DEF Times!BlockTimeAssumption
      <3>2. m # n  BY <1>3, <3>1, SMT
      <3> QED  BY <1>3, <3>1, <3>2 DEF TimesInv, SupplyInv
    <2>1. /\ now \in Nat /\ place[m] \in Nat /\ place[n] \in Nat /\ span \in Spans /\ n \in running
          /\ MinerInv(m) /\ MinerInv(n) /\ SteadyInv(n)
      BY <1>3, <2>0, SealedInTime DEF TimesInv, AllSteady, InSupply
    <2>2. header[m] # Nothing /\ header[m] \in Nat /\ place[m] > 0 /\ header[m] * Second <= now
      <3>1. place[m] > 0  BY <1>3, <2>1, SMT
      <3> QED  BY <1>3, <3>1, SealedInTime
    <2>3. /\ Times!expectTime(place[m]) \in Nat /\ Times!expectTime(place[m]) * Second \in Nat
          /\ bound \in Nat /\ bound <= Times!expectTime(place[m]) * Second
          /\ Times!expectTime(place[n]) * Second < Times!expectTime(place[m]) * Second
      BY <1>3, <2>1, PlacesApart
    <2>4. ASSUME ~(header[m] >= Times!maxDelaySeconds) PROVE FALSE
      <3>1. Times!maxDelaySeconds \in Nat  BY <2>1, <2>2, PrepareLegal
      <3>2. header[m] >= Times!expectTime(place[m])
        <4>1. header[m] < Times!maxDelaySeconds  BY <2>2, <2>4, <3>1, SMT
        <4> QED  BY <2>1, <2>2, <4>1 DEF MinerInv, Times!checkBlockTime
      <3>3. Second \in Nat  BY TimesAssumption DEF Times!BlockTimeAssumption
      <3>4. header[m] * Second >= Times!expectTime(place[m]) * Second /\ header[m] * Second \in Nat
        BY <2>2, <2>3, <3>2, <3>3, SMT
      <3>5. now >= Times!expectTime(place[m]) * Second  BY <2>1, <2>2, <2>3, <3>4, SMT
      <3>6. CASE header[n] = Nothing
        <4>0. since[n] # Nothing  BY <1>3, <2>1, <3>6 DEF MinerInv
        <4>1. since[n] \in Nat /\ now <= since[n] + Latency  BY <2>1, <4>0 DEF MinerInv, Waits
        <4>2. PICK s \in Spans : since[n] <= Delay(s)  BY <2>1, <3>6, <4>0 DEF SteadyInv
        <4>3. Delay(s) \in Nat /\ Latency \in Nat
          BY <4>2, DelayPositive, TimesAssumption DEF Times!BlockTimeAssumption
        <4>4. Delay(s) + Latency + Delay(s) < bound  BY <4>2 DEF InGoodTime
        <4> QED  BY <2>1, <2>3, <3>5, <4>1, <4>2, <4>3, <4>4, SMT
      <3>7. CASE header[n] # Nothing
        <4>1. header[n] \in Nat /\ due[n] = Times!calcDelayTime(header[n], place[n])
          BY <2>0, <2>1, <3>7 DEF MinerInv
        <4>2. due[n] \in Nat  BY <2>1, <4>1, SealedWhen
        <4>3. /\ now <= due[n] \/ now < bound
              /\ due[n] < bound \/ due[n] <= Times!expectTime(place[n]) * Second
          BY <2>1, <3>7 DEF SteadyInv
        <4>4. Times!expectTime(place[n]) * Second \in Int
          <5>1. Times!expectTime(place[n]) \in Nat  BY <2>1, PrepareLegal
          <5> QED  BY <3>3, <5>1, SMT
        <4> HIDE DEF bound
        <4> QED  BY <2>1, <2>3, <3>5, <4>2, <4>3, <4>4, SMT
      <3> QED  BY <3>6, <3>7
    <2> QED  BY <2>4
  <1>4. TimesInv /\ AllSteady =>
          [\A m, n \in Miner : Times!Seal(m) /\ ~late /\ n \in steady /\ place[n] # Nothing /\ place[n] < place[m]
               => header[m] >= Times!maxDelaySeconds]_Times!vars
    BY <1>3
  <1> QED  BY <1>1, <1>2, <1>4, TimesInvAlways, PTL DEF Times!Spec, NotOvertaken, Times!NotOvertaken

\* The main net keeps the times when miners learn of a block in less than 2.4
\* seconds: blocks take MinBlockTime at least, so that the steering of
\* calcDelayTime puts the first miner off by 0.8 seconds at most.
THEOREM MainNetInGoodTime ==
    ASSUME Period = 15, delayTimeModifier = 15, adjustIntervalBlocks = 10, MinBlockTime = 7,
           maxBlockTime = 600, 10 * Latency < 24 * Second
    PROVE  InGoodTime
  <1>0. Second \in Nat /\ Second > 0 /\ Latency \in Nat
    BY TimesAssumption, SMT DEF Times!BlockTimeAssumption
  <1>1. ASSUME NEW s \in Spans PROVE 10 * Delay(s) <= 138 * Second /\ Delay(s) \in Nat
    <2>1. CASE s = Nothing  BY <1>0, <1>1, <2>1, DelayPositive, SMT DEF Delay, Times!adjust, Times!endTime
    <2>2. CASE s # Nothing
      <3> DEFINE x == s * Second
                 q == Times!Quotient(x, 10)
                 a == Times!Quotient(q - 15 * Second, 10)
      <3>1. s \in Nat /\ s >= 70  BY <1>1, <2>2, TimesAssumption, SMT DEF Times!BlockTimeAssumption
      <3>2. x \in Nat /\ x >= 70 * Second  BY <1>0, <3>1, SMT
      <3>3. Times!adjust(s) = IF a > 2 * Second THEN 2 * Second
                              ELSE IF a < -(2 * Second) THEN -(2 * Second) ELSE a
        BY <2>2 DEF Times!adjust
      <3> HIDE DEF x
      <3>4. q \in Int /\ q >= 7 * Second  BY <1>0, <3>2, SMT DEF Times!Quotient
      <3> HIDE DEF q
      <3>5. a \in Int /\ 10 * a >= -(8 * Second)  BY <1>0, <3>4, SMT DEF Times!Quotient
      <3> HIDE DEF a
      <3>6. Times!endTime(0) = 13  BY SMT DEF Times!endTime
      <3>7. Delay(s) = 13 * Second - Times!adjust(s)  BY <3>6 DEF Delay
      <3> QED  BY <1>0, <1>1, <3>3, <3>5, <3>7, DelayPositive, SMT
    <2> QED  BY <2>1, <2>2
  <1>2. Times!expectTime(1) = 30  BY SMT DEF Times!expectTime
  <1>3. ASSUME NEW s \in Spans, NEW t \in Spans
        PROVE  /\ Delay(s) + Latency + Delay(t) < 30 * Second
               /\ 7 * Second + Delay(t) < 30 * Second
    <2>1. /\ 10 * Delay(s) <= 138 * Second /\ Delay(s) \in Nat
          /\ 10 * Delay(t) <= 138 * Second /\ Delay(t) \in Nat
      BY <1>1
    <2> QED  BY <1>0, <2>1, SMT
  <1>4. delayTimeModifier > 0  BY SMT
  <1> QED  BY <1>2, <1>3, <1>4 DEF InGoodTime

-----------------------------------------------------------------------------
(* The parents that headers are checked against *)

Cleared == array = Nothing /\ len = 0

\* One importer at a time has the lock.  The parents are those of its block where
\* it looks one up, and cleared where it does not have them set; once the lookup
\* has succeeded the parent is there, and it stays while the lock is given up.
ImporterInv(p) ==
    /\ pc[p] \in {"idle", "verify", "verify half", "VerifyHeader", "verified", "verified half",
                  "switch", "waiting", "open", "process", "process half", "Process", "processed",
                  "processed half", "write", "done"}
    /\ pc[p] \notin {"idle", "waiting"} <=> chainmu = p
    /\ pc[p] \notin {"idle", "done"} => batch[p] \in Batches /\ index[p] \in 1 .. Len(batch[p])
    /\ pc[p] \in {"verified", "verified half", "switch"} /\ err[p] \in {"nil", "known", "pruned"} =>
           Headers!Linked(p)
    /\ pc[p] \in {"waiting", "open", "process", "process half", "Process"} => Headers!Linked(p)
    /\ pc[p] \in {"VerifyHeader", "Process"} => array = batch[p] /\ len = index[p] - 1
    /\ pc[p] \in {"verify", "switch", "open", "process", "write", "done"} => Cleared

\* A check of a header is on a known parent, and alone while it is quiet.
CheckInv(c) ==
    /\ check[c] = [step |-> check[c].step, header |-> check[c].header, array |-> check[c].array,
                   len |-> check[c].len, quiet |-> check[c].quiet]
    /\ check[c].step = "read" =>
           /\ ParentHash(check[c].header) \in known
           /\ check[c].quiet => chainmu = Nothing /\ check[c].array = Nothing /\ check[c].len = 0
    /\ check[c].step = "refused" => ~check[c].quiet

HeadersInv ==
    /\ failed = {} /\ chainmu \in Importer \cup {Nothing}
    /\ chainmu = Nothing => Cleared
    /\ DOMAIN pc = Importer /\ DOMAIN batch = Importer /\ DOMAIN index = Importer
    /\ DOMAIN err = Importer /\ DOMAIN check = Checker
    /\ \A p \in Importer : ImporterInv(p)
    /\ \A c \in Checker : CheckInv(c)

\* Of a batch, the parent is found when it is in the batch or in the database.
LEMMA LinkedFound ==
    ASSUME NEW b \in Batches, NEW i \in 1 .. Len(b)
    PROVE  Headers!getParentOf(b[i], b, i - 1) <=> i > 1 \/ ParentHash(b[i]) \in known
  <1>1. Len(b) \in Nat  BY HeadersAssumption, SMT DEF Headers!HeaderCheckAssumption
  <1>2. CASE i = 1  BY <1>2, SMT DEF Headers!getParentOf
  <1>3. CASE i # 1
    <2>1. i \in 2 .. Len(b) /\ i > 1  BY <1>1, <1>3, SMT
    <2>2. ParentHash(b[i]) = b[i - 1]  BY <2>1, HeadersAssumption DEF Headers!HeaderCheckAssumption
    <2>3. i - 1 > 0 /\ i - 1 <= Len(b)  BY <1>1, <2>1, SMT
    <2>4. b # Nothing  BY HeadersAssumption DEF Headers!HeaderCheckAssumption
    <2> QED  BY <2>1, <2>2, <2>3, <2>4 DEF Headers!getParentOf
  <1> QED  BY <1>2, <1>3

\* An importer with the lock excludes the others.
LEMMA OneImporter ==
    ASSUME HeadersInv, NEW p \in Importer, chainmu = p \/ pc[p] \notin {"idle", "waiting"}
    PROVE  /\ chainmu = p /\ p # Nothing
           /\ \A q \in Importer : q # p => pc[q] \in {"idle", "waiting"}
  BY HeadersAssumption DEF HeadersInv, ImporterInv, Headers!HeaderCheckAssumption

\* Those that do not have the lock see only blocks being added.
LEMMA Waiting ==
    ASSUME HeadersInv, NEW q \in Importer, pc[q] \in {"idle", "waiting"}, pc'[q] = pc[q],
           chainmu' # q, batch'[q] = batch[q], index'[q] = index[q], known \subseteq known'
    PROVE  ImporterInv(q)'
  <1>1. ImporterInv(q)  BY DEF HeadersInv
  <1>2. Headers!Linked(q) => Headers!Linked(q)'  BY DEF Headers!Linked, Headers!block
  <1> QED  BY <1>1, <1>2 DEF ImporterInv

\* A step of an importer that keeps the lock disturbs neither the others nor
\* the checks: these are not quiet.
LEMMA AtWork ==
    ASSUME HeadersInv, NEW p \in Importer, pc[p] \notin {"idle", "waiting"}, chainmu' = chainmu,
           check' = check, failed' = failed, known \subseteq known',
           NEW step, pc' = [pc EXCEPT ![p] = step], batch' = batch,
           DOMAIN index' = Importer, DOMAIN err' = Importer,
           \A q \in Importer : q # p => index'[q] = index[q], ImporterInv(p)'
    PROVE  HeadersInv'
  <1>1. chainmu = p /\ p # Nothing /\ \A q \in Importer : q # p => pc[q] \in {"idle", "waiting"}
    BY OneImporter
  <1>2. ASSUME NEW q \in Importer, q # p PROVE ImporterInv(q)'
    <2>1. pc'[q] = pc[q] /\ pc[q] \in {"idle", "waiting"} /\ chainmu' # q
      BY <1>1, <1>2 DEF HeadersInv
    <2> QED  BY <1>2, <2>1, Waiting
  <1>3. ASSUME NEW c \in Checker PROVE CheckInv(c)'  BY <1>1, <1>3 DEF HeadersInv, CheckInv
  <1>4. chainmu' # Nothing /\ chainmu' \in Importer  BY <1>1
  <1>5. DOMAIN pc' = Importer  BY DEF HeadersInv
  <1> QED  BY <1>2, <1>3, <1>4, <1>5 DEF HeadersInv

\* Neither does one that takes the lock: every check under way is noticed.
LEMMA TakesLock ==
    ASSUME HeadersInv, NEW p \in Importer, chainmu = Nothing, chainmu' = p,
           check' = Headers!Noticed, known' = known, array' = array, len' = len, failed' = failed,
           DOMAIN pc' = Importer, DOMAIN batch' = Importer, DOMAIN index' = Importer, err' = err,
           \A q \in Importer : q # p => pc'[q] = pc[q] /\ batch'[q] = batch[q] /\ index'[q] = index[q],
           ImporterInv(p)'
    PROVE  HeadersInv'
  <1>0. Nothing \notin Importer  BY HeadersAssumption DEF Headers!HeaderCheckAssumption
  <1>1. ASSUME NEW q \in Importer, q # p PROVE ImporterInv(q)'
    <2>1. pc[q] \in {"idle", "waiting"} /\ chainmu' # q  BY <1>0, <1>1 DEF HeadersInv, ImporterInv
    <2> QED  BY <1>1, <2>1, Waiting
  <1>2. ASSUME NEW c \in Checker PROVE CheckInv(c)'
    <2>1. CheckInv(c)  BY <1>2 DEF HeadersInv
    <2> DEFINE b == check[c].quiet /\ check[c].step = "idle"
    <2>2. check'[c] = [check[c] EXCEPT !.quiet = b]  BY <1>2 DEF Headers!Noticed
    <2> HIDE DEF b
    <2>3. check'[c] = [step |-> check[c].step, header |-> check[c].header, array |-> check[c].array,
                       len |-> check[c].len, quiet |-> b]
      BY <2>1, <2>2 DEF CheckInv
    <2>4. /\ check'[c].step = check[c].step /\ check'[c].header = check[c].header
          /\ check'[c].array = check[c].array /\ check'[c].len = check[c].len /\ check'[c].quiet = b
      BY <2>3, SMT
    <2>5. check'[c] = [step |-> check'[c].step, header |-> check'[c].header,
                       array |-> check'[c].array, len |-> check'[c].len, quiet |-> check'[c].quiet]
      BY <2>3, <2>4
    <2> QED  BY <2>1, <2>4, <2>5 DEF CheckInv, b
  <1>3. DOMAIN check' = Checker  BY DEF Headers!Noticed
  <1> QED  BY <1>0, <1>1, <1>2, <1>3 DEF HeadersInv, Cleared

\* Nor one that gives up the lock with the parents cleared.
LEMMA GivesLock ==
    ASSUME HeadersInv, NEW p \in Importer, chainmu = p, chainmu' = Nothing, Cleared,
           known' = known, array' = array, len' = len, failed' = failed, check' = check,
           DOMAIN pc' = Importer, DOMAIN batch' = Importer, DOMAIN index' = Importer,
           DOMAIN err' = Importer,
           \A q \in Importer : q # p => pc'[q] = pc[q] /\ batch'[q] = batch[q] /\ index'[q] = index[q],
           ImporterInv(p)'
    PROVE  HeadersInv'
  <1>1. p # Nothing /\ \A q \in Importer : q # p => pc[q] \in {"idle", "waiting"}  BY OneImporter
  <1>2. Nothing \notin Importer  BY HeadersAssumption DEF Headers!HeaderCheckAssumption
  <1>3. ASSUME NEW q \in Importer, q # p PROVE ImporterInv(q)'
    <2>1. chainmu' # q  BY <1>2
    <2> QED  BY <1>1, <1>3, <2>1, Waiting
  <1>4. ASSUME NEW c \in Checker PROVE CheckInv(c)'  BY <1>1, <1>4 DEF HeadersInv, CheckInv
  <1> QED  BY <1>3, <1>4 DEF HeadersInv, Cleared

\* Going on to the next block.
LEMMA Continues ==
    ASSUME HeadersInv, NEW p \in Importer, pc[p] \in {"switch", "write"}, Headers!Continue(p),
           known \subseteq known', UNCHANGED <<array, len, chainmu, batch, err, check, failed>>
    PROVE  HeadersInv'
  <1>1. /\ index' = [index EXCEPT ![p] = index[p] + 1]
        /\ pc' = [pc EXCEPT ![p] = IF index[p] = Len(batch[p]) THEN "done" ELSE "verify"]
    BY DEF Headers!Continue
  <1>2. batch[p] \in Batches /\ index[p] \in 1 .. Len(batch[p]) /\ Cleared /\ chainmu = p
    BY DEF HeadersInv, ImporterInv
  <1>3. /\ index'[p] = index[p] + 1 /\ DOMAIN index' = Importer
        /\ pc'[p] = IF index[p] = Len(batch[p]) THEN "done" ELSE "verify"
        /\ \A q \in Importer : q # p => index'[q] = index[q]
    BY <1>1 DEF HeadersInv
  <1>4. Len(batch[p]) \in Nat  BY <1>2, HeadersAssumption, SMT DEF Headers!HeaderCheckAssumption
  <1>5. pc'[p] = "verify" => index'[p] \in 1 .. Len(batch[p])
    <2>1. index[p] # Len(batch[p]) => index[p] + 1 \in 1 .. Len(batch[p])  BY <1>2, <1>4, SMT
    <2> QED  BY <1>3, <2>1
  <1>6. Cleared' /\ chainmu' = p /\ pc'[p] \in {"verify", "done"} /\ batch'[p] = batch[p]
    BY <1>2, <1>3 DEF Cleared
  <1>7. ImporterInv(p)'  BY <1>2, <1>5, <1>6 DEF ImporterInv
  <1>8. DOMAIN err' = Importer  BY DEF HeadersInv
  <1> QED  BY <1>1, <1>3, <1>7, <1>8, AtWork

\* An importer that has the lock keeps it.
LEMMA ImportKeeps ==
    ASSUME HeadersInv, NEW p \in Importer, pc[p] \notin {"idle", "waiting"}, Headers!Import(p)
    PROVE  HeadersInv'
  <1>0. ImporterInv(p) /\ failed = {}  BY DEF HeadersInv
  <1>1. ASSUME NEW step, pc' = [pc EXCEPT ![p] = step], known \subseteq known', failed' = failed,
               UNCHANGED <<chainmu, batch, index, check>>, DOMAIN err' = Importer, ImporterInv(p)'
        PROVE  HeadersInv'
    <2>1. DOMAIN index' = Importer /\ \A q \in Importer : q # p => index'[q] = index[q]
      BY <1>1 DEF HeadersInv
    <2> QED  BY <1>1, <2>1, AtWork
  <1>2. ASSUME NEW step, pc' = [pc EXCEPT ![p] = step], known \subseteq known', failed' = failed,
               UNCHANGED <<array, len, chainmu, batch, index, err, check>>, Cleared,
               step \in {"open", "process", "done"}, step \in {"open", "process"} => Headers!Linked(p),
               step # "done" => pc[p] # "done"
        PROVE  HeadersInv'
    <2>1. pc'[p] = step /\ DOMAIN err' = Importer  BY <1>2 DEF HeadersInv
    <2>2. Headers!Linked(p) => Headers!Linked(p)'  BY <1>2 DEF Headers!Linked, Headers!block
    <2>3. Cleared'  BY <1>2 DEF Cleared
    <2>4. ImporterInv(p)'  BY <1>0, <1>2, <2>1, <2>2, <2>3 DEF ImporterInv
    <2> QED  BY <1>1, <1>2, <2>1, <2>4
  <1>3. CASE Headers!Abort(p)
    <2>1. /\ pc[p] = "verify" /\ pc' = [pc EXCEPT ![p] = "done"] /\ known' = known /\ failed' = failed
          /\ UNCHANGED <<array, len, chainmu, batch, index, err, check>>
      BY <1>3 DEF Headers!Abort, Headers!dbVars
    <2> QED  BY <1>0, <1>2, <2>1 DEF ImporterInv
  <1>4. CASE Headers!SetHeadersHalf(p)
    <2>1. /\ pc[p] \in {"verify", "process"} /\ UNCHANGED <<known, chainmu, batch, index, err, check, failed>>
          /\ pc' = [pc EXCEPT ![p] = IF pc[p] = "verify" THEN "verify half" ELSE "process half"]
      BY <1>4 DEF Headers!SetHeadersHalf, Headers!dbVars
    <2>2. /\ pc'[p] = IF pc[p] = "verify" THEN "verify half" ELSE "process half"
          /\ DOMAIN err' = Importer
      BY <2>1 DEF HeadersInv
    <2>3. Headers!Linked(p) => Headers!Linked(p)'  BY <2>1 DEF Headers!Linked, Headers!block
    <2>4. ImporterInv(p)'
      <3>0. UNCHANGED <<chainmu, batch, index, err>>  BY <2>1
      <3>1. CASE pc[p] = "verify"
        <4>1. pc'[p] = "verify half"  BY <2>2, <3>1
        <4> QED  BY <1>0, <2>3, <3>0, <3>1, <4>1 DEF ImporterInv
      <3>2. CASE pc[p] = "process"
        <4>1. pc'[p] = "process half"  BY <2>2, <3>2
        <4> QED  BY <1>0, <2>3, <3>0, <3>2, <4>1 DEF ImporterInv
      <3> QED  BY <2>1, <3>1, <3>2
    <2> QED  BY <1>1, <2>1, <2>2, <2>4
  <1>5. CASE Headers!SetHeaders(p)
    <2>1. /\ pc[p] \in {"verify half", "process half"} /\ array' = batch[p] /\ len' = index[p] - 1
          /\ pc' = [pc EXCEPT ![p] = IF pc[p] = "verify half" THEN "VerifyHeader" ELSE "Process"]
          /\ UNCHANGED <<known, chainmu, batch, index, err, check, failed>>
      BY <1>5 DEF Headers!SetHeaders, Headers!dbVars
    <2>2. /\ pc'[p] = IF pc[p] = "verify half" THEN "VerifyHeader" ELSE "Process"
          /\ DOMAIN err' = Importer
      BY <2>1 DEF HeadersInv
    <2>3. Headers!Linked(p) => Headers!Linked(p)'  BY <2>1 DEF Headers!Linked, Headers!block
    <2>4. ImporterInv(p)'
      <3>0. UNCHANGED <<chainmu, batch, index, err>> /\ array' = batch[p] /\ len' = index[p] - 1  BY <2>1
      <3>1. CASE pc[p] = "verify half"
        <4>1. pc'[p] = "VerifyHeader"  BY <2>2, <3>1
        <4> QED  BY <1>0, <2>3, <3>0, <3>1, <4>1 DEF ImporterInv
      <3>2. CASE pc[p] = "process half"
        <4>1. pc'[p] = "Process"  BY <2>2, <3>2
        <4> QED  BY <1>0, <2>3, <3>0, <3>2, <4>1 DEF ImporterInv
      <3> QED  BY <2>1, <3>1, <3>2
    <2> QED  BY <1>1, <2>1, <2>2, <2>4
  <1>6. pc[p] \in {"VerifyHeader", "Process"} =>
            (Headers!getParentOf(Headers!block(p), array, len) <=> Headers!Linked(p))
    <2> SUFFICES ASSUME pc[p] \in {"VerifyHeader", "Process"}
                 PROVE  Headers!getParentOf(Headers!block(p), array, len) <=> Headers!Linked(p)
      OBVIOUS
    <2>1. /\ array = batch[p] /\ len = index[p] - 1 /\ batch[p] \in Batches
          /\ index[p] \in 1 .. Len(batch[p])
      BY <1>0 DEF ImporterInv
    <2> QED  BY <2>1, LinkedFound DEF Headers!block, Headers!Linked
  <1>7. CASE Headers!VerifyHeader(p)
    <2>1. PICK e \in Headers!VerifyErrors(p) : err' = [err EXCEPT ![p] = e]
      BY <1>7 DEF Headers!VerifyHeader
    <2>2. /\ pc[p] = "VerifyHeader" /\ pc' = [pc EXCEPT ![p] = "verified"]
          /\ failed' = IF Headers!Linked(p) /\ ~Headers!getParentOf(Headers!block(p), array, len)
                       THEN failed \cup {p} ELSE failed
          /\ UNCHANGED <<known, array, len, chainmu, batch, index, check>>
      BY <1>7 DEF Headers!VerifyHeader, Headers!dbVars
    <2>3. failed' = failed  BY <1>6, <2>2
    <2>4. e \in {"nil", "known", "pruned"} => Headers!Linked(p)
      BY <1>6, <2>1, <2>2 DEF Headers!VerifyErrors
    <2>5. pc'[p] = "verified" /\ err'[p] = e /\ DOMAIN err' = Importer  BY <2>1, <2>2 DEF HeadersInv
    <2>6. Headers!Linked(p) => Headers!Linked(p)'  BY <2>2 DEF Headers!Linked, Headers!block
    <2>7. ImporterInv(p)'  BY <1>0, <2>2, <2>4, <2>5, <2>6 DEF ImporterInv
    <2> QED  BY <1>1, <2>2, <2>3, <2>5, <2>7
  <1>8. CASE Headers!ClearHeadersHalf(p)
    <2>1. /\ pc[p] \in {"verified", "processed"} /\ UNCHANGED <<known, chainmu, batch, index, err, check, failed>>
          /\ pc' = [pc EXCEPT ![p] = IF pc[p] = "verified" THEN "verified half" ELSE "processed half"]
      BY <1>8 DEF Headers!ClearHeadersHalf, Headers!dbVars
    <2>2. /\ pc'[p] = IF pc[p] = "verified" THEN "verified half" ELSE "processed half"
          /\ DOMAIN err' = Importer
      BY <2>1 DEF HeadersInv
    <2>3. Headers!Linked(p) => Headers!Linked(p)'  BY <2>1 DEF Headers!Linked, Headers!block
    <2>4. ImporterInv(p)'
      <3>0. UNCHANGED <<chainmu, batch, index, err>>  BY <2>1
      <3>1. CASE pc[p] = "verified"
        <4>1. pc'[p] = "verified half"  BY <2>2, <3>1
        <4> QED  BY <1>0, <2>3, <3>0, <3>1, <4>1 DEF ImporterInv
      <3>2. CASE pc[p] = "processed"
        <4>1. pc'[p] = "processed half"  BY <2>2, <3>2
        <4> QED  BY <1>0, <2>3, <3>0, <3>2, <4>1 DEF ImporterInv
      <3> QED  BY <2>1, <3>1, <3>2
    <2> QED  BY <1>1, <2>1, <2>2, <2>4
  <1>9. CASE Headers!ClearHeaders(p)
    <2> DEFINE step == IF pc[p] = "verified half" THEN "switch"
                       ELSE IF err[p] = "nil" THEN "write" ELSE "done"
    <2>1. /\ pc[p] \in {"verified half", "processed half"} /\ array' = Nothing /\ len' = 0
          /\ pc' = [pc EXCEPT ![p] = step]
          /\ UNCHANGED <<known, chainmu, batch, index, err, check, failed>>
      BY <1>9 DEF Headers!ClearHeaders, Headers!dbVars
    <2>2. pc'[p] = step /\ DOMAIN err' = Importer  BY <2>1 DEF HeadersInv
    <2>3. Headers!Linked(p) => Headers!Linked(p)'  BY <2>1 DEF Headers!Linked, Headers!block
    <2>4. ImporterInv(p)'
      <3>0. UNCHANGED <<chainmu, batch, index, err>> /\ array' = Nothing /\ len' = 0  BY <2>1
      <3>1. CASE pc[p] = "verified half"
        <4>1. pc'[p] = "switch"  BY <2>2, <3>1
        <4> QED  BY <1>0, <2>3, <3>0, <3>1, <4>1 DEF ImporterInv, Cleared
      <3>2. CASE pc[p] = "processed half"
        <4>1. pc'[p] \in {"write", "done"}  BY <2>2, <3>2
        <4> QED  BY <1>0, <2>3, <3>0, <3>2, <4>1 DEF ImporterInv, Cleared
      <3> QED  BY <2>1, <3>1, <3>2
    <2> HIDE DEF step
    <2> QED  BY <1>1, <2>1, <2>2, <2>4
  <1>10. CASE Headers!Ignore(p) \/ Headers!AddFuture(p) \/ Headers!WriteBlockWithoutState(p)
              \/ Headers!WriteBlock(p)
    <2>1. /\ pc[p] \in {"switch", "write"} /\ Headers!Continue(p) /\ known \subseteq known'
          /\ UNCHANGED <<array, len, chainmu, batch, err, check, failed>>
      BY <1>10 DEF Headers!Ignore, Headers!AddFuture, Headers!WriteBlockWithoutState,
                   Headers!WriteBlock, Headers!Stored, Headers!dbVars
    <2> QED  BY <2>1, Continues
  <1>11. CASE Headers!ImportWinner(p)
    <2>1. /\ pc[p] = "switch" /\ err[p] = "pruned" /\ chainmu' = Nothing
          /\ pc' = [pc EXCEPT ![p] = "waiting"]
          /\ UNCHANGED <<known, array, len, batch, index, err, check, failed>>
      BY <1>11 DEF Headers!ImportWinner, Headers!dbVars
    <2>2. Cleared /\ chainmu = p /\ Headers!Linked(p)  BY <1>0, <2>1 DEF ImporterInv
    <2>3. /\ pc'[p] = "waiting" /\ DOMAIN pc' = Importer /\ DOMAIN batch' = Importer
          /\ DOMAIN index' = Importer /\ DOMAIN err' = Importer
          /\ \A q \in Importer : q # p => pc'[q] = pc[q] /\ batch'[q] = batch[q] /\ index'[q] = index[q]
      BY <2>1 DEF HeadersInv
    <2>4. Headers!Linked(p)'  BY <2>1, <2>2 DEF Headers!Linked, Headers!block
    <2>5. p # Nothing  BY <2>2, OneImporter
    <2>6. ImporterInv(p)'  BY <1>0, <2>1, <2>3, <2>4, <2>5 DEF ImporterInv
    <2> QED  BY <2>1, <2>2, <2>3, <2>6, GivesLock
  <1>12. CASE Headers!Proceed(p) \/ Headers!StateAt(p)
    <2>1. /\ (pc[p] = "switch" /\ err[p] \in {"nil", "known"}) \/ pc[p] = "open"
          /\ pc' = [pc EXCEPT ![p] = "open"] \/ pc' = [pc EXCEPT ![p] = "process"]
          /\ known' = known /\ failed' = failed
          /\ UNCHANGED <<array, len, chainmu, batch, index, err, check>>
      BY <1>12 DEF Headers!Proceed, Headers!StateAt, Headers!dbVars
    <2>2. Cleared /\ Headers!Linked(p) /\ pc[p] # "done"  BY <1>0, <2>1 DEF ImporterInv
    <2> QED  BY <1>2, <2>1, <2>2
  <1>13. CASE Headers!Refuse(p) \/ Headers!WriteFails(p)
    <2>1. /\ pc[p] \in {"switch", "open", "write"} /\ pc' = [pc EXCEPT ![p] = "done"]
          /\ known \subseteq known' /\ failed' = failed
          /\ UNCHANGED <<array, len, chainmu, batch, index, err, check>>
      BY <1>13 DEF Headers!Refuse, Headers!WriteFails, Headers!dbVars
    <2>2. Cleared  BY <1>0, <2>1 DEF ImporterInv
    <2> QED  BY <1>2, <2>1, <2>2
  <1>14. CASE Headers!Process(p)
    <2>1. PICK e : err' = [err EXCEPT ![p] = e]  BY <1>14 DEF Headers!Process
    <2>2. /\ pc[p] = "Process" /\ pc' = [pc EXCEPT ![p] = "processed"]
          /\ failed' = IF Headers!getParentOf(Headers!block(p), array, len) THEN failed
                       ELSE failed \cup {p}
          /\ UNCHANGED <<known, array, len, chainmu, batch, index, check>>
      BY <1>14 DEF Headers!Process, Headers!dbVars
    <2>3. failed' = failed  BY <1>0, <1>6, <2>2 DEF ImporterInv
    <2>4. pc'[p] = "processed" /\ DOMAIN err' = Importer  BY <2>1, <2>2 DEF HeadersInv
    <2>5. ImporterInv(p)'  BY <1>0, <2>2, <2>4 DEF ImporterInv
    <2> QED  BY <1>1, <2>2, <2>3, <2>4, <2>5
  <1>15. CASE Headers!Unlock(p)
    <2>1. /\ pc[p] = "done" /\ chainmu' = Nothing /\ pc' = [pc EXCEPT ![p] = "idle"]
          /\ batch' = [batch EXCEPT ![p] = <<>>] /\ index' = [index EXCEPT ![p] = 0]
          /\ err' = [err EXCEPT ![p] = "nil"] /\ UNCHANGED <<known, array, len, check, failed>>
      BY <1>15 DEF Headers!Unlock, Headers!dbVars
    <2>2. Cleared /\ chainmu = p  BY <1>0, <2>1 DEF ImporterInv
    <2>3. /\ pc'[p] = "idle" /\ DOMAIN pc' = Importer /\ DOMAIN batch' = Importer
          /\ DOMAIN index' = Importer /\ DOMAIN err' = Importer
          /\ \A q \in Importer : q # p => pc'[q] = pc[q] /\ batch'[q] = batch[q] /\ index'[q] = index[q]
      BY <2>1 DEF HeadersInv
    <2>4. p # Nothing  BY <2>2, OneImporter
    <2>5. ImporterInv(p)'  BY <2>1, <2>3, <2>4 DEF ImporterInv
    <2> QED  BY <2>1, <2>2, <2>3, <2>5, GivesLock
  <1> QED
    BY <1>3, <1>4, <1>5, <1>7, <1>8, <1>9, <1>10, <1>11, <1>12, <1>13, <1>14, <1>15
    DEF Headers!Import, Headers!Switch, Headers!insertChain, Headers!Relock

\* Every step keeps it.
LEMMA NextHeadersInv == HeadersInv /\ [Headers!Next]_Headers!vars => HeadersInv'
  <1> SUFFICES ASSUME HeadersInv, [Headers!Next]_Headers!vars PROVE HeadersInv'  OBVIOUS
  <1>0. Nothing \notin Importer /\ \A b \in Batches : Len(b) \in Nat /\ 1 \in 1 .. Len(b)
    <2>1. \A b \in Batches : b \in Seq(Block \ {Origin}) /\ b # <<>>
      BY HeadersAssumption DEF Headers!HeaderCheckAssumption
    <2>2. \A b \in Batches : Len(b) \in Nat /\ 1 \in 1 .. Len(b)  BY <2>1, SMT
    <2> QED  BY <2>2, HeadersAssumption DEF Headers!HeaderCheckAssumption
  <1>1. ASSUME NEW p \in Importer, NEW blocks \in Batches, Headers!insertChain(p, blocks)
        PROVE  HeadersInv'
    <2>1. /\ chainmu = Nothing /\ chainmu' = p /\ check' = Headers!Noticed
          /\ batch' = [batch EXCEPT ![p] = blocks] /\ index' = [index EXCEPT ![p] = 1]
          /\ pc' = [pc EXCEPT ![p] = "verify"]
          /\ known' = known /\ array' = array /\ len' = len /\ err' = err /\ failed' = failed
      BY <1>1 DEF Headers!insertChain, Headers!dbVars
    <2>2. /\ pc'[p] = "verify" /\ batch'[p] = blocks /\ index'[p] = 1
          /\ DOMAIN pc' = Importer /\ DOMAIN batch' = Importer /\ DOMAIN index' = Importer
          /\ \A q \in Importer : q # p => pc'[q] = pc[q] /\ batch'[q] = batch[q] /\ index'[q] = index[q]
      BY <2>1 DEF HeadersInv
    <2>3. Cleared'  BY <2>1 DEF HeadersInv, Cleared
    <2>4. ImporterInv(p)'  BY <1>0, <2>1, <2>2, <2>3 DEF ImporterInv
    <2> QED  BY <2>1, <2>2, <2>4, TakesLock
  <1>2. ASSUME NEW p \in Importer, Headers!Relock(p) PROVE HeadersInv'
    <2>1. /\ pc[p] = "waiting" /\ chainmu = Nothing /\ chainmu' = p /\ check' = Headers!Noticed
          /\ pc' = [pc EXCEPT ![p] = "open"] /\ known' = known /\ array' = array /\ len' = len
          /\ batch' = batch /\ index' = index /\ err' = err /\ failed' = failed
      BY <1>2 DEF Headers!Relock, Headers!dbVars
    <2>2. /\ pc'[p] = "open" /\ DOMAIN pc' = Importer /\ DOMAIN batch' = Importer
          /\ DOMAIN index' = Importer
          /\ \A q \in Importer : q # p => pc'[q] = pc[q] /\ batch'[q] = batch[q] /\ index'[q] = index[q]
      BY <2>1 DEF HeadersInv
    <2>3. Cleared'  BY <2>1 DEF HeadersInv, Cleared
    <2>4. ImporterInv(p)  BY DEF HeadersInv
    <2>5. Headers!Linked(p)'  BY <2>1, <2>4 DEF ImporterInv, Headers!Linked, Headers!block
    <2>6. ImporterInv(p)'  BY <2>1, <2>2, <2>3, <2>4, <2>5 DEF ImporterInv
    <2> QED  BY <2>1, <2>2, <2>6, TakesLock
  <1>3. ASSUME NEW p \in Importer, Headers!Import(p) PROVE HeadersInv'
    <2>1. CASE pc[p] \notin {"idle", "waiting"}  BY <1>3, <2>1, ImportKeeps
    <2>2. CASE pc[p] = "idle"
      <3>1. \E blocks \in Batches : Headers!insertChain(p, blocks)
        BY <1>3, <2>2 DEF Headers!Import, Headers!Abort, Headers!SetHeadersHalf, Headers!SetHeaders,
           Headers!VerifyHeader, Headers!ClearHeadersHalf, Headers!ClearHeaders, Headers!Switch,
           Headers!Ignore, Headers!AddFuture, Headers!WriteBlockWithoutState, Headers!ImportWinner,
           Headers!Proceed, Headers!Refuse, Headers!Relock, Headers!StateAt, Headers!Process,
           Headers!WriteBlock, Headers!WriteFails, Headers!Unlock
      <3> QED  BY <1>1, <3>1
    <2>3. CASE pc[p] = "waiting"
      <3>1. Headers!Relock(p)
        BY <1>3, <2>3 DEF Headers!Import, Headers!Abort, Headers!SetHeadersHalf, Headers!SetHeaders,
           Headers!VerifyHeader, Headers!ClearHeadersHalf, Headers!ClearHeaders, Headers!Switch,
           Headers!Ignore, Headers!AddFuture, Headers!WriteBlockWithoutState, Headers!ImportWinner,
           Headers!Proceed, Headers!Refuse, Headers!insertChain, Headers!StateAt, Headers!Process,
           Headers!WriteBlock, Headers!WriteFails, Headers!Unlock
      <3> QED  BY <1>2, <1>3, <3>1
    <2> QED  BY <2>1, <2>2, <2>3
  <1>4. ASSUME NEW p \in Importer, known \subseteq known', UNCHANGED <<array, len, chainmu, pc, batch, index, err>>
        PROVE  ImporterInv(p)'
    <2>1. ImporterInv(p)  BY DEF HeadersInv
    <2>2. Headers!Linked(p) => Headers!Linked(p)'  BY <1>4 DEF Headers!Linked, Headers!block
    <2> QED  BY <1>4, <2>1, <2>2 DEF ImporterInv, Cleared
  <1>5. ASSUME NEW b \in Block, Headers!Mine(b) PROVE HeadersInv'
    <2>1. /\ known \subseteq known' /\ UNCHANGED <<array, len, chainmu, pc, batch, index, err>>
          /\ check' = check /\ failed' = failed
      BY <1>5 DEF Headers!Mine, Headers!Stored
    <2>2. ASSUME NEW c \in Checker PROVE CheckInv(c)'  BY <2>1, <2>2 DEF HeadersInv, CheckInv
    <2>3. \A p \in Importer : ImporterInv(p)'  BY <1>4, <2>1
    <2> QED  BY <2>1, <2>2, <2>3 DEF HeadersInv, Cleared
  <1>9. ASSUME NEW c \in Checker, UNCHANGED <<known, array, len, chainmu, pc, batch, index, err, failed>>,
               NEW x, check' = [check EXCEPT ![c] = x], CheckInv(c)'
        PROVE  HeadersInv'
    <2>1. ASSUME NEW d \in Checker, d # c PROVE CheckInv(d)'
      <3>1. check'[d] = check[d]  BY <1>9, <2>1 DEF HeadersInv
      <3> QED  BY <1>9, <2>1, <3>1 DEF HeadersInv, CheckInv
    <2>2. \A p \in Importer : ImporterInv(p)'  BY <1>4, <1>9
    <2> QED  BY <1>9, <2>1, <2>2 DEF HeadersInv, Cleared
  <1>10. ASSUME NEW c \in Checker, NEW h \in Block, Headers!BeginCheck(c, h) PROVE HeadersInv'
    <2> DEFINE x == [step |-> "read", header |-> h, array |-> array, len |-> len,
                     quiet |-> chainmu = Nothing]
    <2>1. /\ ParentHash(h) \in known /\ check' = [check EXCEPT ![c] = x]
          /\ UNCHANGED <<known, array, len, chainmu, pc, batch, index, err, failed>>
      BY <1>10 DEF Headers!BeginCheck, Headers!dbVars
    <2>2. check'[c] = x  BY <2>1 DEF HeadersInv
    <2>3. CheckInv(c)'  BY <2>1, <2>2 DEF CheckInv, HeadersInv, Cleared
    <2> HIDE DEF x
    <2> QED  BY <1>9, <2>1, <2>3
  <1>11. ASSUME NEW c \in Checker, Headers!EndCheck(c) PROVE HeadersInv'
    <2>1. PICK parents \in {array, check[c].array}, length \in {len, check[c].len} :
              check' = [check EXCEPT ![c].step =
                          IF Headers!getParentOf(check[c].header, parents, length)
                          THEN "accepted" ELSE "refused"]
      BY <1>11 DEF Headers!EndCheck
    <2> DEFINE s == IF Headers!getParentOf(check[c].header, parents, length)
                    THEN "accepted" ELSE "refused"
               x == [check[c] EXCEPT !.step = s]
    <2>2. /\ check[c].step = "read" /\ UNCHANGED <<known, array, len, chainmu, pc, batch, index, err, failed>>
          /\ check' = [check EXCEPT ![c] = x]
      BY <1>11, <2>1 DEF Headers!EndCheck, Headers!dbVars
    <2>3. CheckInv(c) /\ check'[c] = x  BY <2>2 DEF HeadersInv
    <2>4. x = [step |-> s, header |-> check[c].header, array |-> check[c].array,
               len |-> check[c].len, quiet |-> check[c].quiet]
      BY <2>3 DEF CheckInv
    <2>5. check[c].quiet => Headers!getParentOf(check[c].header, parents, length)
      BY <2>1, <2>2, <2>3 DEF CheckInv, HeadersInv, Cleared, Headers!getParentOf
    <2>6. s \in {"accepted", "refused"} /\ (s = "refused" => ~check[c].quiet)  BY <2>5
    <2> HIDE DEF s
    <2>7. CheckInv(c)'  BY <2>3, <2>4, <2>6 DEF CheckInv
    <2> QED  BY <1>9, <2>2, <2>7
  <1>12. ASSUME NEW c \in Checker, Headers!Return(c) PROVE HeadersInv'
    <2>1. /\ check' = [check EXCEPT ![c] = Headers!NoCheck]
          /\ UNCHANGED <<known, array, len, chainmu, pc, batch, index, err, failed>>
      BY <1>12 DEF Headers!Return, Headers!dbVars
    <2>2. check'[c] = Headers!NoCheck  BY <2>1 DEF HeadersInv
    <2>3. CheckInv(c)'  BY <2>2, SMT DEF CheckInv, Headers!NoCheck
    <2> QED  BY <1>9, <2>1, <2>3
  <1>13. ASSUME UNCHANGED Headers!vars PROVE HeadersInv'
    <2>1. /\ UNCHANGED <<known, array, len, chainmu, pc, batch, index, err>>
          /\ check' = check /\ failed' = failed
      BY <1>13 DEF Headers!vars, Headers!dbVars
    <2>2. \A p \in Importer : ImporterInv(p)'  BY <1>4, <2>1
    <2>3. ASSUME NEW c \in Checker PROVE CheckInv(c)'  BY <2>1, <2>3 DEF HeadersInv, CheckInv
    <2> QED  BY <2>1, <2>2, <2>3 DEF HeadersInv, Cleared
  <1> QED  BY <1>3, <1>5, <1>10, <1>11, <1>12, <1>13 DEF Headers!Next, Headers!Check

\* Headers!Spec => []LinkedIsAccepted: for any headers and batches and any number
\* of importers and checkers, which read the slice glb_parents while it is
\* written, an import is not refused a block whose parent it has, and a check
\* that no import overlaps is not refused, wherever the imports before it failed.
THEOREM LinkedAlwaysAccepted == Headers!Spec => []LinkedIsAccepted
  <1>1. Headers!Init => HeadersInv
    <2> SUFFICES ASSUME Headers!Init PROVE HeadersInv  OBVIOUS
    <2>1. ASSUME NEW p \in Importer PROVE ImporterInv(p)
      BY <2>1, HeadersAssumption DEF Headers!Init, ImporterInv, Headers!HeaderCheckAssumption
    <2>2. ASSUME NEW c \in Checker PROVE CheckInv(c)
      BY <2>2 DEF Headers!Init, CheckInv, Headers!NoCheck
    <2> QED  BY <2>1, <2>2 DEF Headers!Init, HeadersInv, Cleared
  <1>2. HeadersInv => LinkedIsAccepted
    BY DEF HeadersInv, CheckInv, LinkedIsAccepted, Headers!LinkedIsAccepted
  <1> QED  BY <1>1, <1>2, NextHeadersInv, PTL DEF Headers!Spec
=============================================================================
