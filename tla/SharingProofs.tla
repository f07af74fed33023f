---------------------------- MODULE SharingProofs -----------------------------
(***************************************************************************)
(* What goroutines share, for any number of them.                          *)
(*                                                                         *)
(* The feed: a subscribed channel has one case (OneCase), after            *)
(* Unsubscribe nothing is sent (NothingAfter), and a Send serves every     *)
(* channel that was subscribed when it began and did not leave exactly     *)
(* once (ServedOnce).  OneCase needs that a Send alone holds the lock and  *)
(* that the active cases are a prefix of sendCases; ServedOnce, that the   *)
(* active cases are those that are due and not served.                     *)
(*                                                                         *)
(* The ring of ticket sets, of any size: it implements the cache of        *)
(* FifoCache (HoldsTheLatest), and a Get during which nothing was written  *)
(* answers with what the ring holds (QuietGetIsExact).                     *)
(***************************************************************************)
EXTENDS Sharing, FiniteSetTheorems, TLAPS

\* Leaves are for Zenon; those with arithmetic or sequences say SMT.
USE Zenon

-----------------------------------------------------------------------------
(* The feed *)

TypeOK ==
    /\ inbox \in Seq(Channel) /\ sendCases \in Seq(Channel)
    /\ sendLock \in Sender \cup {None}
    /\ active \in Nat /\ i \in Nat
    /\ pc \in [Sender -> {"start", "merge", "try", "select", "done"}]
    /\ sub \in [Channel -> {"off", "on", "remove"}]
    /\ sent \in [Channel -> Seq(Sender)]

\* The Send that holds the lock is the one in progress, and its cases are some
\* of sendCases.
LockInv ==
    /\ \A s \in Sender : Sending(s) <=> sendLock = s
    /\ sendLock = None => active = 0
    /\ active <= Len(sendCases)
    /\ 1 <= i

IInv == TypeOK /\ LockInv /\ OneCase

Injective(cs) == \A k, l \in DOMAIN cs : cs[k] = cs[l] => k = l

\* A function on 1 .. n is a sequence of length n.
LEMMA FunctionIsSequence ==
    ASSUME NEW n \in Nat, NEW f \in [1 .. n -> Channel]
    PROVE  f \in Seq(Channel) /\ Len(f) = n /\ DOMAIN f = 1 .. n
  BY SMT

\* find returns the place of a channel that is there.
LEMMA FindIsThere ==
    ASSUME NEW cs \in Seq(Channel), NEW c \in Elements(cs)
    PROVE  find(cs, c) \in 1 .. Len(cs) /\ cs[find(cs, c)] = c
  <1>1. PICK k \in DOMAIN cs : cs[k] = c  BY DEF Elements
  <1>2. find(cs, c) \in DOMAIN cs /\ cs[find(cs, c)] = c  BY <1>1 DEF find
  <1> QED  BY <1>2, SMT

\* delete removes one element of a list without repetitions, and keeps it so.
LEMMA DeleteRemoves ==
    ASSUME NEW cs \in Seq(Channel), Injective(cs), NEW k \in 1 .. Len(cs)
    PROVE  /\ delete(cs, k) \in Seq(Channel)
           /\ Len(delete(cs, k)) = Len(cs) - 1
           /\ Injective(delete(cs, k))
           /\ Elements(delete(cs, k)) = Elements(cs) \ {cs[k]}
  <1> DEFINE ds == delete(cs, k)
  <1>1. Len(cs) \in Nat /\ Len(cs) - 1 \in Nat /\ DOMAIN cs = 1 .. Len(cs)  BY SMT
  <1>2. \A j \in 1 .. Len(cs) - 1 : ds[j] = IF j < k THEN cs[j] ELSE cs[j + 1]  BY <1>1 DEF delete
  <1>3. \A j \in 1 .. Len(cs) : cs[j] \in Channel  BY SMT
  <1>4. ds \in [1 .. Len(cs) - 1 -> Channel]  BY <1>1, <1>3, SMT DEF delete
  <1>5. ds \in Seq(Channel) /\ Len(ds) = Len(cs) - 1 /\ DOMAIN ds = 1 .. Len(cs) - 1
    <2> HIDE DEF ds
    <2> QED  BY <1>1, <1>4, FunctionIsSequence
  <1>6. Injective(ds)
    <2> SUFFICES ASSUME NEW a \in 1 .. Len(cs) - 1, NEW b \in 1 .. Len(cs) - 1, ds[a] = ds[b]
                 PROVE  a = b
      BY <1>5 DEF Injective
    <2>1. \A x, y \in 1 .. Len(cs) : cs[x] = cs[y] => x = y  BY <1>1 DEF Injective
    <2> DEFINE old(j) == IF j < k THEN j ELSE j + 1
    <2>2. old(a) \in 1 .. Len(cs) /\ old(b) \in 1 .. Len(cs)  BY <1>1, SMT
    <2>3. ds[a] = cs[old(a)] /\ ds[b] = cs[old(b)]  BY <1>2
    <2>4. old(a) = old(b)  BY <2>1, <2>2, <2>3
    <2> QED  BY <2>4, <1>1, SMT
  <1>7. Elements(ds) \subseteq Elements(cs) \ {cs[k]}
    <2> SUFFICES ASSUME NEW j \in 1 .. Len(cs) - 1
                 PROVE  ds[j] \in Elements(cs) /\ ds[j] # cs[k]
      BY <1>5 DEF Elements
    <2> DEFINE x == IF j < k THEN j ELSE j + 1
    <2>1. x \in 1 .. Len(cs) /\ x # k  BY <1>1, SMT
    <2>2. ds[j] = cs[x]  BY <1>2
    <2> QED  BY <2>1, <2>2, <1>1 DEF Elements, Injective
  <1>8. Elements(cs) \ {cs[k]} \subseteq Elements(ds)
    <2> SUFFICES ASSUME NEW x \in 1 .. Len(cs), cs[x] # cs[k]
                 PROVE  cs[x] \in Elements(ds)
      BY <1>1 DEF Elements
    <2> DEFINE j == IF x < k THEN x ELSE x - 1
    <2>1. j \in 1 .. Len(cs) - 1  BY <1>1, SMT
    <2>2. ds[j] = cs[x]  BY <1>1, <1>2, <2>1, SMT
    <2> QED  BY <1>5, <2>1, <2>2 DEF Elements
  <1> QED  BY <1>5, <1>6, <1>7, <1>8

\* Deactivation only reorders the cases.
LEMMA SwapReorders ==
    ASSUME NEW cs \in Seq(Channel), Injective(cs), NEW k \in 1 .. Len(cs), NEW l \in 1 .. Len(cs),
           NEW ds, ds = [cs EXCEPT ![k] = cs[l], ![l] = cs[k]]
    PROVE  /\ ds \in Seq(Channel) /\ Len(ds) = Len(cs)
           /\ Injective(ds) /\ Elements(ds) = Elements(cs)
  <1>1. Len(cs) \in Nat /\ DOMAIN cs = 1 .. Len(cs) /\ cs \in [1 .. Len(cs) -> Channel]  BY SMT
  <1>2. ds \in [1 .. Len(cs) -> Channel]  BY <1>1
  <1>3. ds \in Seq(Channel) /\ Len(ds) = Len(cs) /\ DOMAIN ds = 1 .. Len(cs)  BY <1>1, <1>2, SMT
  <1> DEFINE old(j) == IF j = l THEN k ELSE IF j = k THEN l ELSE j
  <1>4. \A j \in 1 .. Len(cs) : ds[j] = cs[old(j)] /\ old(j) \in 1 .. Len(cs) /\ ds[old(j)] = cs[j]
    BY <1>1
  <1>5. Injective(ds)
    <2> SUFFICES ASSUME NEW a \in 1 .. Len(cs), NEW b \in 1 .. Len(cs), ds[a] = ds[b]
                 PROVE  a = b
      BY <1>3, SMT DEF Injective
    <2>1. \A x, y \in 1 .. Len(cs) : cs[x] = cs[y] => x = y  BY <1>1 DEF Injective
    <2>2. old(a) = old(b)  BY <1>4, <2>1, SMT
    <2> QED  BY <2>2
  <1>6. Elements(ds) = Elements(cs)  BY <1>1, <1>3, <1>4 DEF Elements
  <1> QED  BY <1>3, <1>5, <1>6

\* Lists without repetitions and without common elements, joined.
LEMMA JoinKeeps ==
    ASSUME NEW cs \in Seq(Channel), NEW ds \in Seq(Channel), Injective(cs), Injective(ds),
           Elements(cs) \cap Elements(ds) = {}
    PROVE  /\ cs \o ds \in Seq(Channel) /\ Len(cs \o ds) = Len(cs) + Len(ds)
           /\ Injective(cs \o ds) /\ Elements(cs \o ds) = Elements(cs) \cup Elements(ds)
  <1> DEFINE es == cs \o ds
  <1>1. /\ Len(cs) \in Nat /\ DOMAIN cs = 1 .. Len(cs)
        /\ Len(ds) \in Nat /\ DOMAIN ds = 1 .. Len(ds)
        /\ es \in Seq(Channel) /\ Len(es) = Len(cs) + Len(ds) /\ DOMAIN es = 1 .. Len(cs) + Len(ds)
    BY SMT
  <1>2. \A j \in 1 .. Len(cs) + Len(ds) : es[j] = IF j <= Len(cs) THEN cs[j] ELSE ds[j - Len(cs)]
    BY SMT
  <1>3. \A a \in 1 .. Len(cs), b \in 1 .. Len(ds) : cs[a] # ds[b]  BY <1>1 DEF Elements
  <1>4. Injective(es)
    <2> SUFFICES ASSUME NEW a \in 1 .. Len(cs) + Len(ds), NEW b \in 1 .. Len(cs) + Len(ds), es[a] = es[b]
                 PROVE  a = b
      BY <1>1 DEF Injective
    <2>1. /\ \A x, y \in 1 .. Len(cs) : cs[x] = cs[y] => x = y
          /\ \A x, y \in 1 .. Len(ds) : ds[x] = ds[y] => x = y
      BY <1>1 DEF Injective
    <2>2. CASE a <= Len(cs) /\ b <= Len(cs)  BY <1>1, <1>2, <2>1, <2>2, SMT
    <2>3. CASE a <= Len(cs) /\ b > Len(cs)
      <3>1. a \in 1 .. Len(cs) /\ b - Len(cs) \in 1 .. Len(ds)  BY <1>1, <2>3, SMT
      <3>2. es[a] = cs[a] /\ es[b] = ds[b - Len(cs)]  BY <1>1, <1>2, <2>3, SMT
      <3> QED  BY <3>1, <3>2, <1>3
    <2>4. CASE a > Len(cs) /\ b <= Len(cs)
      <3>1. b \in 1 .. Len(cs) /\ a - Len(cs) \in 1 .. Len(ds)  BY <1>1, <2>4, SMT
      <3>2. es[b] = cs[b] /\ es[a] = ds[a - Len(cs)]  BY <1>1, <1>2, <2>4, SMT
      <3> QED  BY <3>1, <3>2, <1>3
    <2>5. CASE a > Len(cs) /\ b > Len(cs)
      <3>1. a - Len(cs) \in 1 .. Len(ds) /\ b - Len(cs) \in 1 .. Len(ds)  BY <1>1, <2>5, SMT
      <3>2. es[a] = ds[a - Len(cs)] /\ es[b] = ds[b - Len(cs)]  BY <1>1, <1>2, <2>5, SMT
      <3>3. a - Len(cs) = b - Len(cs)  BY <3>1, <3>2, <2>1
      <3> QED  BY <3>3, <1>1, SMT
    <2> QED  BY <1>1, <2>2, <2>3, <2>4, <2>5, SMT
  <1>5. Elements(es) \subseteq Elements(cs) \cup Elements(ds)
    <2> SUFFICES ASSUME NEW j \in 1 .. Len(cs) + Len(ds) PROVE es[j] \in Elements(cs) \cup Elements(ds)
      BY <1>1 DEF Elements
    <2>1. CASE j <= Len(cs)  BY <1>1, <1>2, <2>1, SMT DEF Elements
    <2>2. CASE j > Len(cs)
      <3>1. j - Len(cs) \in 1 .. Len(ds) /\ es[j] = ds[j - Len(cs)]  BY <1>1, <1>2, <2>2, SMT
      <3> QED  BY <3>1, <1>1 DEF Elements
    <2> QED  BY <1>1, <2>1, <2>2, SMT
  <1>6. Elements(cs) \subseteq Elements(es)
    <2> SUFFICES ASSUME NEW j \in 1 .. Len(cs) PROVE cs[j] \in Elements(es)  BY <1>1 DEF Elements
    <2>1. j \in 1 .. Len(cs) + Len(ds) /\ es[j] = cs[j]  BY <1>1, <1>2, SMT
    <2> QED  BY <1>1, <2>1 DEF Elements
  <1>7. Elements(ds) \subseteq Elements(es)
    <2> SUFFICES ASSUME NEW j \in 1 .. Len(ds) PROVE ds[j] \in Elements(es)  BY <1>1 DEF Elements
    <2>1. j + Len(cs) \in 1 .. Len(cs) + Len(ds) /\ es[j + Len(cs)] = ds[j]  BY <1>1, <1>2, SMT
    <2> QED  BY <1>1, <2>1 DEF Elements
  <1> QED  BY <1>1, <1>4, <1>5, <1>6, <1>7

\* The same for one element.
LEMMA AppendKeeps ==
    ASSUME NEW cs \in Seq(Channel), Injective(cs), NEW c \in Channel, c \notin Elements(cs)
    PROVE  /\ Append(cs, c) \in Seq(Channel)
           /\ Injective(Append(cs, c)) /\ Elements(Append(cs, c)) = Elements(cs) \cup {c}
  <1> DEFINE es == Append(cs, c)
  <1>1. /\ Len(cs) \in Nat /\ DOMAIN cs = 1 .. Len(cs)
        /\ es \in Seq(Channel) /\ DOMAIN es = 1 .. Len(cs) + 1
    BY SMT
  <1>2. \A j \in 1 .. Len(cs) : es[j] = cs[j] /\ cs[j] # c  BY <1>1, SMT DEF Elements
  <1>3. es[Len(cs) + 1] = c  BY SMT
  <1>4. \A j \in 1 .. Len(cs) + 1 : j \in 1 .. Len(cs) \/ j = Len(cs) + 1  BY <1>1, SMT
  <1>5. Injective(es)
    <2> SUFFICES ASSUME NEW a \in 1 .. Len(cs) + 1, NEW b \in 1 .. Len(cs) + 1, es[a] = es[b]
                 PROVE  a = b
      BY <1>1 DEF Injective
    <2>1. \A x, y \in 1 .. Len(cs) : cs[x] = cs[y] => x = y  BY <1>1 DEF Injective
    <2> HIDE DEF es
    <2> QED  BY <1>2, <1>3, <1>4, <2>1
  <1>6. Elements(es) = Elements(cs) \cup {c}
    <2> HIDE DEF es
    <2>1. \A j \in 1 .. Len(cs) + 1 : es[j] \in Elements(cs) \cup {c}
      BY <1>1, <1>2, <1>3, <1>4 DEF Elements
    <2>2. Len(cs) + 1 \in DOMAIN es /\ \A j \in 1 .. Len(cs) : j \in DOMAIN es  BY <1>1, SMT
    <2> QED  BY <1>1, <1>2, <1>3, <2>1, <2>2 DEF Elements
  <1> QED  BY <1>1, <1>5, <1>6

-----------------------------------------------------------------------------
(* The inductive invariant *)

\* OneCase in the terms of the lemmas.
LEMMA OneCaseMeans ==
    OneCase <=> /\ Injective(inbox) /\ Injective(sendCases)
                /\ Elements(inbox) \cap Elements(sendCases) = {}
                /\ Elements(inbox) \cup Elements(sendCases) = {c \in Channel : sub[c] # "off"}
                /\ \A c \in Channel : sub[c] = "remove" => c \in Elements(sendCases)
  BY DEF OneCase, Injective

\* A new feed has no subscription, no lock holder and no case.
LEMMA InitIInv == Init => IInv
  <1> SUFFICES ASSUME Init PROVE IInv  OBVIOUS
  <1>1. TypeOK  BY SMT DEF Init, TypeOK
  <1>2. LockInv  BY FeedAssumption, SMT DEF Init, LockInv, Sending
  <1>3. OneCase  BY SMT DEF Init, OneCase, Elements
  <1> QED  BY <1>1, <1>2, <1>3 DEF IInv

\* A channel that is subscribed is appended to the inbox.
LEMMA SubscribeIInv == ASSUME IInv, NEW c \in Channel, Subscribe(c) PROVE IInv'
  <1> USE DEF IInv
  <1>1. c \notin Elements(inbox) /\ c \notin Elements(sendCases)
    BY OneCaseMeans DEF Subscribe
  <1>2. inbox \in Seq(Channel) /\ Injective(inbox) /\ inbox' = Append(inbox, c)
    BY OneCaseMeans DEF Subscribe, TypeOK
  <1>3. /\ inbox' \in Seq(Channel) /\ Injective(inbox')
        /\ Elements(inbox') = Elements(inbox) \cup {c}
    BY <1>1, <1>2, AppendKeeps
  <1>4. TypeOK'  BY <1>3 DEF TypeOK, Subscribe
  <1>5. LockInv'  BY DEF LockInv, Subscribe, Sending
  <1>6. sub \in [Channel -> {"off", "on", "remove"}] /\ sub' = [sub EXCEPT ![c] = "on"] /\ sub[c] = "off"
        /\ sendCases' = sendCases
    BY DEF TypeOK, Subscribe
  <1>7. {d \in Channel : sub'[d] # "off"} = {d \in Channel : sub[d] # "off"} \cup {c}  BY <1>6
  <1>8. \A d \in Channel : sub'[d] = "remove" => sub[d] = "remove"  BY <1>6
  <1>9. OneCase'
    BY <1>1, <1>3, <1>6, <1>7, <1>8, OneCaseMeans DEF OneCase, Injective
  <1> QED  BY <1>4, <1>5, <1>9

\* What the three ways to remove a channel have in common.
LEMMA RemoveKeeps ==
    ASSUME IInv, NEW c \in Channel, sub' = [sub EXCEPT ![c] = "off"], c \in Elements(sendCases),
           sendCases' = delete(sendCases, find(sendCases, c)), inbox' = inbox
    PROVE  /\ OneCase' /\ sendCases' \in Seq(Channel) /\ Len(sendCases') = Len(sendCases) - 1
           /\ find(sendCases, c) \in 1 .. Len(sendCases)
  <1> USE DEF IInv
  <1>1. find(sendCases, c) \in 1 .. Len(sendCases) /\ sendCases[find(sendCases, c)] = c
    BY FindIsThere DEF TypeOK
  <1>2. /\ sendCases' \in Seq(Channel) /\ Len(sendCases') = Len(sendCases) - 1 /\ Injective(sendCases')
        /\ Elements(sendCases') = Elements(sendCases) \ {c}
    BY <1>1, DeleteRemoves, OneCaseMeans DEF TypeOK
  <1>3. sub \in [Channel -> {"off", "on", "remove"}]  BY DEF TypeOK
  <1>4. {d \in Channel : sub'[d] # "off"} = {d \in Channel : sub[d] # "off"} \ {c}  BY <1>3
  <1>5. \A d \in Channel : sub'[d] = "remove" => sub[d] = "remove" /\ d # c  BY <1>3
  <1>6. c \notin Elements(inbox)  BY OneCaseMeans
  <1>7. OneCase'  BY <1>2, <1>4, <1>5, <1>6, OneCaseMeans, SMT DEF OneCase, Injective
  <1> QED  BY <1>1, <1>2, <1>7

\* The first half of remove deletes from the inbox, or finds the channel among the cases.
LEMMA UnsubscribeIInv == ASSUME IInv, NEW c \in Channel, Unsubscribe(c) PROVE IInv'
  <1> USE DEF IInv
  <1>0. sub \in [Channel -> {"off", "on", "remove"}]  BY DEF TypeOK
  <1>1. CASE c \in Elements(inbox)
    <2>1. find(inbox, c) \in 1 .. Len(inbox) /\ inbox[find(inbox, c)] = c
      BY <1>1, FindIsThere DEF TypeOK
    <2>2. inbox' = delete(inbox, find(inbox, c)) /\ sub' = [sub EXCEPT ![c] = "off"] /\ sendCases' = sendCases
      BY <1>1 DEF Unsubscribe
    <2>3. /\ inbox' \in Seq(Channel) /\ Injective(inbox')
          /\ Elements(inbox') = Elements(inbox) \ {c}
      BY <2>1, <2>2, DeleteRemoves, OneCaseMeans DEF TypeOK
    <2>4. {d \in Channel : sub'[d] # "off"} = {d \in Channel : sub[d] # "off"} \ {c}  BY <1>0, <2>2
    <2>5. \A d \in Channel : sub'[d] = "remove" => sub[d] = "remove"  BY <1>0, <2>2
    <2>6. c \notin Elements(sendCases)  BY <1>1, OneCaseMeans
    <2>7. OneCase'  BY <2>2, <2>3, <2>4, <2>5, <2>6, OneCaseMeans, SMT DEF OneCase, Injective
    <2>8. TypeOK'  BY <2>2, <2>3 DEF TypeOK, Unsubscribe
    <2>9. LockInv'  BY DEF LockInv, Unsubscribe, Sending
    <2> QED  BY <2>7, <2>8, <2>9
  <1>2. CASE c \notin Elements(inbox)
    <2>1. sub' = [sub EXCEPT ![c] = "remove"] /\ sub[c] = "on" /\ inbox' = inbox /\ sendCases' = sendCases
      BY <1>2 DEF Unsubscribe
    <2>2. {d \in Channel : sub'[d] # "off"} = {d \in Channel : sub[d] # "off"}  BY <1>0, <2>1
    <2>3. c \in Elements(sendCases)  BY <1>2, <2>1, OneCaseMeans
    <2>4. \A d \in Channel : sub'[d] = "remove" => d \in Elements(sendCases)
      BY <1>0, <2>1, <2>3, OneCaseMeans
    <2>5. OneCase'  BY <2>1, <2>2, <2>4, OneCaseMeans DEF OneCase, Injective
    <2>6. TypeOK'  BY <2>1 DEF TypeOK, Unsubscribe
    <2>7. LockInv'  BY DEF LockInv, Unsubscribe, Sending
    <2> QED  BY <2>5, <2>6, <2>7
  <1> QED  BY <1>1, <1>2

\* remove under the lock: no Send is in progress, so no case is active.
LEMMA RemoveAloneIInv == ASSUME IInv, NEW c \in Channel, RemoveAlone(c) PROVE IInv'
  <1> USE DEF IInv
  <1>1. c \in Elements(sendCases)  BY OneCaseMeans DEF RemoveAlone
  <1>2. /\ OneCase' /\ sendCases' \in Seq(Channel) /\ Len(sendCases') = Len(sendCases) - 1
        /\ find(sendCases, c) \in 1 .. Len(sendCases)
    BY <1>1, RemoveKeeps DEF RemoveAlone
  <1>3. TypeOK'  BY <1>2 DEF TypeOK, RemoveAlone
  <1>4. LockInv'  BY <1>2, FeedAssumption, SMT DEF TypeOK, LockInv, RemoveAlone, Sending
  <1> QED  BY <1>2, <1>3, <1>4

\* Send removes a channel and, if it was active, shrinks the active prefix.
LEMMA SelectRemoveIInv ==
    ASSUME IInv, NEW s \in Sender, NEW c \in Channel, SelectRemove(s, c) PROVE IInv'
  <1> USE DEF IInv
  <1>1. c \in Elements(sendCases)  BY OneCaseMeans DEF SelectRemove
  <1>2. /\ OneCase' /\ sendCases' \in Seq(Channel) /\ Len(sendCases') = Len(sendCases) - 1
        /\ find(sendCases, c) \in 1 .. Len(sendCases)
    BY <1>1, RemoveKeeps DEF SelectRemove
  <1>3. /\ active' \in Nat /\ active' <= Len(sendCases')
    <2>1. active \in Nat /\ active <= Len(sendCases) /\ Len(sendCases) \in Nat
      BY SMT DEF TypeOK, LockInv
    <2>2. active' = IF find(sendCases, c) <= active THEN active - 1 ELSE active  BY DEF SelectRemove
    <2> QED  BY <1>2, <2>1, <2>2, SMT
  <1>4. TypeOK'  BY <1>2, <1>3 DEF TypeOK, SelectRemove
  <1>5. LockInv'  BY <1>3, SMT DEF TypeOK, LockInv, SelectRemove, Sending
  <1> QED  BY <1>2, <1>4, <1>5

\* A Send takes a free lock.
LEMMA LockIInv == ASSUME IInv, NEW s \in Sender, Lock(s) PROVE IInv'
  <1> USE DEF IInv
  <1>1. TypeOK'  BY DEF TypeOK, Lock
  <1>2. LockInv'  BY FeedAssumption DEF TypeOK, LockInv, Lock, Sending
  <1>3. OneCase'  BY DEF OneCase, Lock
  <1> QED  BY <1>1, <1>2, <1>3

\* The inbox moves to the end of the cases.
LEMMA MergeIInv == ASSUME IInv, NEW s \in Sender, Merge(s) PROVE IInv'
  <1> USE DEF IInv
  <1>1. /\ sendCases \in Seq(Channel) /\ inbox \in Seq(Channel)
        /\ sendCases' = sendCases \o inbox /\ inbox' = <<>> /\ sub' = sub
    BY DEF TypeOK, Merge
  <1>2. Injective(sendCases) /\ Injective(inbox) /\ Elements(sendCases) \cap Elements(inbox) = {}
    BY OneCaseMeans
  <1>3. /\ sendCases' \in Seq(Channel) /\ Injective(sendCases')
        /\ Elements(sendCases') = Elements(sendCases) \cup Elements(inbox)
    BY <1>1, <1>2, JoinKeeps
  <1>4. Injective(inbox') /\ Elements(inbox') = {} /\ inbox' \in Seq(Channel)
    BY <1>1, SMT DEF Injective, Elements
  <1>5. OneCase'  BY <1>1, <1>3, <1>4, OneCaseMeans DEF OneCase, Injective
  <1>6. active' = Len(sendCases') /\ Len(sendCases') \in Nat  BY <1>3, SMT DEF Merge
  <1>7. TypeOK'  BY <1>3, <1>4, <1>6 DEF TypeOK, Merge
  <1>8. sendLock = s /\ s # None  BY FeedAssumption DEF LockInv, Merge, Sending
  <1>9. LockInv'  BY <1>6, <1>8, SMT DEF TypeOK, LockInv, Merge, Sending
  <1> QED  BY <1>5, <1>7, <1>9

\* What a delivery does to the cases.
LEMMA SendToKeeps ==
    ASSUME IInv, NEW s \in Sender, NEW k \in 1 .. Len(sendCases), k <= active,
           SendTo(s, k), inbox' = inbox, sub' = sub
    PROVE  /\ OneCase' /\ sendCases' \in Seq(Channel) /\ Len(sendCases') = Len(sendCases)
           /\ active' = active - 1 /\ sent' \in [Channel -> Seq(Sender)]
           /\ \A c \in Channel : c \notin Elements(sendCases) => sent'[c] = sent[c]
  <1> USE DEF IInv
  <1>1. active \in 1 .. Len(sendCases) /\ sendCases \in Seq(Channel) /\ Injective(sendCases)
    BY OneCaseMeans, SMT DEF TypeOK, LockInv
  <1>2. sendCases' = [sendCases EXCEPT ![k] = sendCases[active], ![active] = sendCases[k]]
    BY DEF SendTo
  <1>3. /\ sendCases' \in Seq(Channel) /\ Len(sendCases') = Len(sendCases)
        /\ Injective(sendCases') /\ Elements(sendCases') = Elements(sendCases)
    BY <1>1, <1>2, SwapReorders
  <1>4. OneCase'  BY <1>3, OneCaseMeans DEF OneCase, Injective
  <1>5. sendCases[k] \in Channel /\ sendCases[k] \in Elements(sendCases)  BY <1>1, SMT DEF Elements
  <1>6. sent' = [sent EXCEPT ![sendCases[k]] = Append(@, s)] /\ sent \in [Channel -> Seq(Sender)]
    BY DEF SendTo, TypeOK
  <1>7. sent' \in [Channel -> Seq(Sender)]  BY <1>5, <1>6, SMT
  <1>8. \A c \in Channel : c \notin Elements(sendCases) => sent'[c] = sent[c]  BY <1>5, <1>6
  <1> QED  BY <1>3, <1>4, <1>7, <1>8 DEF SendTo

\* A try swaps a served case out of the active prefix, or goes on.
LEMMA TrySendIInv == ASSUME IInv, NEW s \in Sender, TrySend(s) PROVE IInv'
  <1> USE DEF IInv
  <1>1. i \in 1 .. Len(sendCases) /\ i <= active  BY SMT DEF TypeOK, LockInv, TrySend
  <1>2. CASE Room(sendCases[i])
    <2>1. SendTo(s, i) /\ i' = i /\ inbox' = inbox /\ sub' = sub /\ pc' = pc /\ sendLock' = sendLock
      BY <1>2 DEF TrySend
    <2>2. /\ OneCase' /\ sendCases' \in Seq(Channel) /\ Len(sendCases') = Len(sendCases)
          /\ active' = active - 1 /\ sent' \in [Channel -> Seq(Sender)]
      BY <1>1, <2>1, SendToKeeps
    <2>3. active' \in Nat /\ active' <= Len(sendCases)
      <3>1. active \in Nat /\ active <= Len(sendCases)  BY DEF TypeOK, LockInv
      <3> QED  BY <1>1, <2>2, <3>1, SMT
    <2>4. TypeOK'  BY <2>1, <2>2, <2>3 DEF TypeOK
    <2>5. sendLock = s /\ s # None  BY FeedAssumption DEF LockInv, TrySend, Sending
    <2>6. LockInv'  BY <2>1, <2>2, <2>3, <2>5 DEF LockInv, Sending
    <2> QED  BY <2>2, <2>4, <2>6
  <1>3. CASE ~Room(sendCases[i])
    <2>1. TypeOK'  BY <1>1, <1>3, SMT DEF TypeOK, TrySend
    <2>2. LockInv'  BY <1>1, <1>3, SMT DEF TypeOK, LockInv, TrySend, Sending
    <2>3. OneCase'  BY <1>3 DEF OneCase, TrySend
    <2> QED  BY <2>1, <2>2, <2>3
  <1> QED  BY <1>2, <1>3

\* The lock is given back with no case active, or kept for the wait.
LEMMA TriedIInv == ASSUME IInv, NEW s \in Sender, Tried(s) PROVE IInv'
  <1> USE DEF IInv
  <1>1. TypeOK'  BY DEF TypeOK, Tried
  <1>2. LockInv'
    <2>1. Sending(s) /\ sendLock = s  BY DEF LockInv, Tried, Sending
    <2>2. CASE active = 0  BY <2>1, <2>2, FeedAssumption DEF TypeOK, LockInv, Tried, Sending
    <2>3. CASE active # 0  BY <2>1, <2>3, FeedAssumption DEF TypeOK, LockInv, Tried, Sending
    <2> QED  BY <2>2, <2>3
  <1>3. OneCase'  BY DEF OneCase, Tried
  <1> QED  BY <1>1, <1>2, <1>3

\* A delivery after the wait swaps its case out as well.
LEMMA SelectSendIInv ==
    ASSUME IInv, NEW s \in Sender, NEW k \in 1 .. Len(sendCases), SelectSend(s, k) PROVE IInv'
  <1> USE DEF IInv
  <1>1. /\ SendTo(s, k) /\ k <= active /\ i' = 1 /\ inbox' = inbox /\ sub' = sub
        /\ pc' = [pc EXCEPT ![s] = "try"] /\ pc[s] = "select" /\ sendLock' = sendLock
    BY DEF SelectSend
  <1>2. /\ OneCase' /\ sendCases' \in Seq(Channel) /\ Len(sendCases') = Len(sendCases)
        /\ active' = active - 1 /\ sent' \in [Channel -> Seq(Sender)]
    BY <1>1, SendToKeeps
  <1>3. active' \in Nat  BY <1>1, <1>2, SMT DEF TypeOK
  <1>4. TypeOK'  BY <1>1, <1>2, <1>3 DEF TypeOK
  <1>5. sendLock = s /\ s # None  BY <1>1, FeedAssumption DEF LockInv, Sending
  <1>6. LockInv'
    <2>1. \A t \in Sender : Sending(t)' <=> sendLock' = t
      BY <1>1, <1>5 DEF TypeOK, LockInv, Sending
    <2>2. active' <= Len(sendCases')  BY <1>1, <1>2, SMT DEF TypeOK, LockInv
    <2> QED  BY <1>1, <1>5, <2>1, <2>2, SMT DEF LockInv
  <1> QED  BY <1>2, <1>4, <1>6

\* Every step of senders and subscribers keeps the invariant.
LEMMA StepIInv == IInv /\ [Next]_vars => IInv'
  <1> SUFFICES ASSUME IInv, [Next]_vars PROVE IInv'  OBVIOUS
  <1>1. ASSUME NEW c \in Channel, Subscribe(c) PROVE IInv'  BY <1>1, SubscribeIInv
  <1>2. ASSUME NEW c \in Channel, Unsubscribe(c) PROVE IInv'  BY <1>2, UnsubscribeIInv
  <1>3. ASSUME NEW c \in Channel, RemoveAlone(c) PROVE IInv'  BY <1>3, RemoveAloneIInv
  <1>4. ASSUME NEW c \in Channel, NEW s \in Sender, SelectRemove(s, c) PROVE IInv'
    BY <1>4, SelectRemoveIInv
  <1>5. ASSUME NEW c \in Channel, Receive(c) PROVE IInv'
    BY <1>5 DEF IInv, TypeOK, LockInv, OneCase, Receive, Sending
  <1>6. ASSUME NEW s \in Sender, Lock(s) PROVE IInv'  BY <1>6, LockIInv
  <1>7. ASSUME NEW s \in Sender, Merge(s) PROVE IInv'  BY <1>7, MergeIInv
  <1>8. ASSUME NEW s \in Sender, TrySend(s) PROVE IInv'  BY <1>8, TrySendIInv
  <1>9. ASSUME NEW s \in Sender, Tried(s) PROVE IInv'  BY <1>9, TriedIInv
  <1>10. ASSUME NEW s \in Sender, NEW k \in 1 .. Len(sendCases), SelectSend(s, k) PROVE IInv'
    BY <1>10, SelectSendIInv
  <1>11. CASE UNCHANGED vars
    BY <1>11 DEF vars, IInv, TypeOK, LockInv, OneCase, Sending
  <1> QED  BY <1>1, <1>2, <1>3, <1>4, <1>5, <1>6, <1>7, <1>8, <1>9, <1>10, <1>11 DEF Next

\* The invariant holds in every state of the feed.
LEMMA AlwaysIInv == Spec => []IInv
  BY InitIInv, StepIInv, PTL DEF Spec

\* Every subscribed channel has one case, in the inbox or among the cases, so
\* that neither remove nor Send fails to find it.
THEOREM OneCaseAlways == Spec => []OneCase
  <1>1. IInv => OneCase  BY DEF IInv
  <1> QED  BY <1>1, AlwaysIInv, PTL

\* Once Unsubscribe has returned, no Send delivers to the channel.
THEOREM NothingSentAfter == Spec => NothingAfter
  <1>1. IInv /\ [Next]_vars => [\A c \in Channel : sub[c] = "off" => sent'[c] = sent[c]]_vars
    <2> SUFFICES ASSUME IInv, [Next]_vars, NEW c \in Channel, sub[c] = "off"
                 PROVE  sent'[c] = sent[c]
      OBVIOUS
    <2>1. c \notin Elements(sendCases)  BY OneCaseMeans DEF IInv
    <2>2. ASSUME NEW s \in Sender, TrySend(s) PROVE sent'[c] = sent[c]
      <3>1. CASE ~Room(sendCases[i])  BY <2>2, <3>1 DEF TrySend
      <3>2. CASE Room(sendCases[i])
        <4>1. i \in 1 .. Len(sendCases) /\ i <= active  BY <2>2, SMT DEF IInv, TypeOK, LockInv, TrySend
        <4>2. SendTo(s, i) /\ inbox' = inbox /\ sub' = sub  BY <2>2, <3>2 DEF TrySend
        <4> QED  BY <2>1, <4>1, <4>2, SendToKeeps
      <3> QED  BY <3>1, <3>2
    <2>3. ASSUME NEW s \in Sender, NEW k \in 1 .. Len(sendCases), SelectSend(s, k)
          PROVE  sent'[c] = sent[c]
      <3>1. SendTo(s, k) /\ k <= active /\ inbox' = inbox /\ sub' = sub  BY <2>3 DEF SelectSend
      <3> QED  BY <2>1, <3>1, SendToKeeps
    <2>4. \/ UNCHANGED sent
          \/ \E s \in Sender : TrySend(s) \/ \E k \in 1 .. Len(sendCases) : SelectSend(s, k)
      BY DEF Next, vars, Subscribe, Unsubscribe, RemoveAlone, Receive, SelectRemove, Lock, Merge, Tried
    <2> QED  BY <2>2, <2>3, <2>4
  <1> QED  BY <1>1, AlwaysIInv, PTL DEF Spec, NothingAfter
-----------------------------------------------------------------------------
(* Every subscriber is served once *)

\* The channels that got the value of s, and those its Send still has to serve.
Served(s) == {c \in Channel : \E k \in DOMAIN sent[c] : sent[c][k] = s}
ActiveSet == {sendCases[k] : k \in 1 .. active}

NotTwice(s) ==
    \A c \in Channel : \A k, l \in DOMAIN sent[c] : sent[c][k] = s /\ sent[c][l] = s => k = l

\* A Send in progress has still to serve exactly those of its channels that it
\* has not served and that have not left.
OnceFor(s) ==
    /\ NotTwice(s)
    /\ IsFiniteSet(Served(s)) /\ nsent[s] = Cardinality(Served(s))
    /\ pc[s] \in {"start", "merge"} => Served(s) = {}
    /\ pc[s] \in {"try", "select"} =>
         ActiveSet \cap Served(s) = {} /\ due[s] \ left[s] \subseteq Served(s) \cup ActiveSet
    /\ pc[s] = "done" => due[s] \ left[s] \subseteq Served(s)

OnceInv ==
    /\ nsent \in [Sender -> Nat]
    /\ due \in [Sender -> SUBSET Channel] /\ left \in [Sender -> SUBSET Channel]
    /\ \A s \in Sender : OnceFor(s)

\* What is sent to one channel serves that channel alone, and only the sender's
\* value counts.
LEMMA SendServes ==
    ASSUME sent \in [Channel -> Seq(Sender)], NEW s \in Sender, NEW c \in Channel,
           sent' = [sent EXCEPT ![c] = Append(@, s)], c \notin Served(s)
    PROVE  /\ Served(s)' = Served(s) \cup {c}
           /\ NotTwice(s) => NotTwice(s)'
           /\ \A t \in Sender \ {s} : Served(t)' = Served(t) /\ (NotTwice(t) => NotTwice(t)')
  <1>1. /\ sent[c] \in Seq(Sender) /\ Len(sent[c]) \in Nat /\ DOMAIN sent[c] = 1 .. Len(sent[c])
        /\ sent'[c] = Append(sent[c], s) /\ \A d \in Channel \ {c} : sent'[d] = sent[d]
    BY SMT
  <1>2. /\ DOMAIN sent'[c] = 1 .. Len(sent[c]) + 1
        /\ \A k \in 1 .. Len(sent[c]) : sent'[c][k] = sent[c][k]
        /\ sent'[c][Len(sent[c]) + 1] = s
    BY <1>1, SMT
  <1>3. \A k \in 1 .. Len(sent[c]) + 1 : k \in 1 .. Len(sent[c]) \/ k = Len(sent[c]) + 1
    BY <1>1, SMT
  <1>4. Len(sent[c]) + 1 \in DOMAIN sent'[c] /\ \A k \in 1 .. Len(sent[c]) : k \in DOMAIN sent'[c]
    BY <1>1, <1>2, SMT
  <1>5. \A k \in 1 .. Len(sent[c]) : sent[c][k] # s  BY <1>1 DEF Served
  <1>6. Served(s)' = Served(s) \cup {c}  BY <1>1, <1>2, <1>4 DEF Served
  <1>7. \A t \in Sender \ {s} : Served(t)' = Served(t)
    <2> SUFFICES ASSUME NEW t \in Sender, t # s, NEW d \in Channel
                 PROVE  (\E k \in DOMAIN sent'[d] : sent'[d][k] = t)
                           <=> \E k \in DOMAIN sent[d] : sent[d][k] = t
      BY DEF Served
    <2>1. CASE d = c  BY <1>1, <1>2, <1>3, <1>4, <2>1
    <2>2. CASE d # c  BY <1>1, <2>2
    <2> QED  BY <2>1, <2>2
  <1>8. ASSUME NEW t \in Sender, NotTwice(t) PROVE NotTwice(t)'
    <2> SUFFICES ASSUME NEW d \in Channel, NEW k \in DOMAIN sent'[d], NEW l \in DOMAIN sent'[d],
                        sent'[d][k] = t, sent'[d][l] = t
                 PROVE  k = l
      BY DEF NotTwice
    <2>1. CASE d # c  BY <1>1, <1>8, <2>1 DEF NotTwice
    <2>2. CASE d = c /\ t = s  BY <1>2, <1>3, <1>5, <2>2
    <2>3. CASE d = c /\ t # s
      <3>1. k \in DOMAIN sent[c] /\ l \in DOMAIN sent[c] /\ sent[c][k] = t /\ sent[c][l] = t
        BY <1>1, <1>2, <1>3, <2>3
      <3> QED  BY <1>8, <3>1 DEF NotTwice
    <2> QED  BY <2>1, <2>2, <2>3
  <1> QED  BY <1>6, <1>7, <1>8

\* A served case is no more active, and the other active ones still are.
LEMMA ActiveAfterSend ==
    ASSUME IInv, NEW s \in Sender, NEW k \in 1 .. Len(sendCases), k <= active, SendTo(s, k)
    PROVE  /\ sendCases[k] \in Channel /\ sendCases[k] \in ActiveSet
           /\ ActiveSet' = ActiveSet \ {sendCases[k]}
  <1>1. /\ sendCases \in Seq(Channel) /\ active \in Nat /\ active <= Len(sendCases)
        /\ \A l, m \in 1 .. Len(sendCases) : sendCases[l] = sendCases[m] => l = m
    BY SMT DEF IInv, TypeOK, LockInv, OneCase
  <1>2. /\ sendCases' = [sendCases EXCEPT ![k] = sendCases[active], ![active] = sendCases[k]]
        /\ active' = active - 1
    BY DEF SendTo
  <1>3. k \in 1 .. active /\ active \in 1 .. Len(sendCases) /\ Len(sendCases) \in Nat  BY <1>1, SMT
  <1>4. \A l \in 1 .. active - 1 :
           sendCases'[l] = (IF l = k THEN sendCases[active] ELSE sendCases[l])
    BY <1>1, <1>2, <1>3, SMT
  <1>5. ActiveSet' = {sendCases'[l] : l \in 1 .. active - 1}  BY <1>2 DEF ActiveSet
  <1>6. ASSUME NEW l \in 1 .. active - 1 PROVE sendCases'[l] \in ActiveSet \ {sendCases[k]}
    <2> DEFINE m == IF l = k THEN active ELSE l
    <2>1. m \in 1 .. active /\ m \in 1 .. Len(sendCases) /\ m # k  BY <1>1, <1>3, SMT
    <2>2. sendCases'[l] = sendCases[m]  BY <1>4
    <2> QED  BY <1>1, <1>3, <2>1, <2>2 DEF ActiveSet
  <1>7. ASSUME NEW m \in 1 .. active, sendCases[m] # sendCases[k]
        PROVE  \E l \in 1 .. active - 1 : sendCases[m] = sendCases'[l]
    <2>1. CASE m = active
      <3>1. k \in 1 .. active - 1  BY <1>3, <1>7, <2>1, SMT
      <3> QED  BY <1>4, <2>1, <3>1
    <2>2. CASE m # active
      <3>1. m \in 1 .. active - 1 /\ m # k  BY <1>3, <1>7, <2>2, SMT
      <3> QED  BY <1>4, <3>1
    <2> QED  BY <2>1, <2>2
  <1>8. sendCases[k] \in ActiveSet /\ sendCases[k] \in Channel  BY <1>1, <1>3, SMT DEF ActiveSet
  <1>9. ActiveSet' \subseteq ActiveSet \ {sendCases[k]}  BY <1>5, <1>6
  <1>10. ActiveSet \ {sendCases[k]} \subseteq ActiveSet'  BY <1>5, <1>7 DEF ActiveSet
  <1> QED  BY <1>8, <1>9, <1>10
\* While s holds the lock no other Send is in progress.
LEMMA OthersWait ==
    ASSUME IInv, NEW s \in Sender, Sending(s), NEW t \in Sender \ {s}
    PROVE  pc[t] \in {"start", "done"}
  <1>1. ~ Sending(t)  BY DEF IInv, LockInv
  <1> QED  BY <1>1 DEF IInv, TypeOK, Sending

\* A Send that finds room serves one channel more.
LEMMA SendOnce ==
    ASSUME IInv, OnceInv, NEW s \in Sender, pc[s] \in {"try", "select"},
           NEW k \in 1 .. Len(sendCases), k <= active, SendTo(s, k),
           pc' = [pc EXCEPT ![s] = "try"], due' = due, left' = left
    PROVE  OnceInv'
  <1> DEFINE c == sendCases[k]
  <1>1. c \in Channel /\ c \in ActiveSet /\ ActiveSet' = ActiveSet \ {c}  BY ActiveAfterSend
  <1>2. OnceFor(s)  BY DEF OnceInv
  <1>3. c \notin Served(s)  BY <1>1, <1>2 DEF OnceFor
  <1>4. /\ sent \in [Channel -> Seq(Sender)] /\ sent' = [sent EXCEPT ![c] = Append(@, s)]
        /\ nsent' = [nsent EXCEPT ![s] = @ + 1] /\ nsent \in [Sender -> Nat]
    BY DEF SendTo, IInv, TypeOK, OnceInv
  <1> HIDE DEF c
  <1>5. /\ Served(s)' = Served(s) \cup {c} /\ NotTwice(s)'
        /\ \A t \in Sender \ {s} : Served(t)' = Served(t) /\ (NotTwice(t) => NotTwice(t)')
    BY <1>1, <1>2, <1>3, <1>4, SendServes DEF OnceFor
  <1>6. nsent' \in [Sender -> Nat]  BY <1>4, SMT
  <1>7. pc'[s] = "try" /\ \A t \in Sender \ {s} : pc'[t] = pc[t]  BY DEF IInv, TypeOK
  <1>8. OnceFor(s)'
    <2>1. IsFiniteSet(Served(s) \cup {c}) /\ Cardinality(Served(s) \cup {c}) = Cardinality(Served(s)) + 1
      BY <1>2, <1>3, FS_AddElement DEF OnceFor
    <2>2. IsFiniteSet(Served(s)') /\ nsent'[s] = Cardinality(Served(s)')
      BY <1>2, <1>4, <1>5, <2>1 DEF OnceFor
    <2>3. (ActiveSet \cap Served(s) = {})' /\ (due[s] \ left[s] \subseteq Served(s) \cup ActiveSet)'
      BY <1>1, <1>2, <1>5 DEF OnceFor
    <2> QED  BY <1>5, <1>7, <2>2, <2>3 DEF OnceFor
  <1>9. ASSUME NEW t \in Sender \ {s} PROVE OnceFor(t)'
    <2>1. pc[t] \in {"start", "done"}  BY OthersWait DEF Sending
    <2>2. pc'[t] = pc[t] /\ nsent'[t] = nsent[t] /\ Served(t)' = Served(t)  BY <1>4, <1>5, <1>7
    <2>3. OnceFor(t)  BY DEF OnceInv
    <2> QED  BY <1>5, <2>1, <2>2, <2>3 DEF OnceFor
  <1> QED  BY <1>6, <1>8, <1>9 DEF OnceInv

\* Deleting a case makes one channel less active, or none.
LEMMA ActiveAfterDelete ==
    ASSUME IInv, NEW c \in Elements(sendCases),
           sendCases' = delete(sendCases, find(sendCases, c)),
           active' = IF find(sendCases, c) <= active THEN active - 1 ELSE active
    PROVE  ActiveSet' \subseteq ActiveSet /\ ActiveSet \ {c} \subseteq ActiveSet'
  <1> DEFINE x == find(sendCases, c)
  <1>1. /\ sendCases \in Seq(Channel) /\ active \in Nat /\ active <= Len(sendCases)
    BY DEF IInv, TypeOK, LockInv
  <1>2. x \in 1 .. Len(sendCases) /\ sendCases[x] = c  BY <1>1, FindIsThere
  <1> HIDE DEF x
  <1>3. /\ \A l \in 1 .. Len(sendCases) - 1 :
              sendCases'[l] = IF l < x THEN sendCases[l] ELSE sendCases[l + 1]
        /\ active' = IF x <= active THEN active - 1 ELSE active
    BY DEF delete, x
  <1>4. ASSUME NEW l \in 1 .. active' PROVE sendCases'[l] \in ActiveSet
    <2> DEFINE m == IF l < x THEN l ELSE l + 1
    <2>1. l \in 1 .. Len(sendCases) - 1 /\ m \in 1 .. active  BY <1>1, <1>2, <1>3, SMT
    <2>2. sendCases'[l] = sendCases[m]  BY <1>3, <2>1
    <2> QED  BY <2>1, <2>2 DEF ActiveSet
  <1>5. ASSUME NEW m \in 1 .. active, sendCases[m] # c
        PROVE  \E l \in 1 .. active' : sendCases[m] = sendCases'[l]
    <2> DEFINE l == IF m < x THEN m ELSE m - 1
    <2>1. m # x  BY <1>2, <1>5
    <2>2. l \in 1 .. active' /\ l \in 1 .. Len(sendCases) - 1  BY <1>1, <1>2, <1>3, <2>1, SMT
    <2>3. sendCases'[l] = sendCases[m]  BY <1>1, <1>2, <1>3, <2>1, <2>2, SMT
    <2> QED  BY <2>2, <2>3
  <1> QED  BY <1>4, <1>5, SMT DEF ActiveSet

\* A channel that leaves is one fewer to serve.
LEMMA LeavesOnce ==
    ASSUME IInv, OnceInv, NEW c \in Channel, Leaves(c),
           ActiveSet \ {c} \subseteq ActiveSet', UNCHANGED <<sent, due, nsent>>,
           \A s \in Sender : \/ pc'[s] = pc[s] /\ pc[s] \in {"start", "merge", "done"}
                             \/ /\ {pc[s], pc'[s]} \subseteq {"try", "select"}
                                /\ ActiveSet' \subseteq ActiveSet
    PROVE  OnceInv'
  <1>1. left' = [s \in Sender |-> left[s] \cup {c}] /\ left \in [Sender -> SUBSET Channel]
    BY DEF Leaves, OnceInv
  <1>2. left' \in [Sender -> SUBSET Channel]  BY <1>1
  <1>3. ASSUME NEW s \in Sender PROVE OnceFor(s)'
    <2>1. OnceFor(s) /\ Served(s)' = Served(s) /\ (NotTwice(s) => NotTwice(s)')
      BY DEF OnceInv, Served, NotTwice
    <2>2. due'[s] \ left'[s] = (due[s] \ left[s]) \ {c}  BY <1>1
    <2>3. CASE pc'[s] = pc[s] /\ pc[s] \in {"start", "merge", "done"}
      BY <2>1, <2>2, <2>3 DEF OnceFor
    <2>4. CASE {pc[s], pc'[s]} \subseteq {"try", "select"} /\ ActiveSet' \subseteq ActiveSet
      BY <2>1, <2>2, <2>4 DEF OnceFor
    <2> QED  BY <2>3, <2>4
  <1> QED  BY <1>2, <1>3 DEF OnceInv
\* Merging the inbox gives a Send, which has served nobody, all its channels.
LEMMA MergeOnce == ASSUME IInv, OnceInv, NEW s \in Sender, Merge(s) PROVE OnceInv'
  <1>1. /\ pc[s] = "merge" /\ active' = Len(sendCases')
        /\ pc' = [pc EXCEPT ![s] = "try"] /\ UNCHANGED <<sent, nsent>>
        /\ due' = [due EXCEPT ![s] = Elements(sendCases')] /\ left' = [left EXCEPT ![s] = {}]
    BY DEF Merge
  <1>2. sendCases' \in Seq(Channel)  BY SMT DEF Merge, IInv, TypeOK
  <1>3. ActiveSet' = Elements(sendCases') /\ Elements(sendCases') \subseteq Channel
    BY <1>1, <1>2, SMT DEF ActiveSet, Elements
  <1>4. due' \in [Sender -> SUBSET Channel] /\ left' \in [Sender -> SUBSET Channel]
    BY <1>1, <1>3 DEF OnceInv
  <1>5. \A t \in Sender : Served(t)' = Served(t) /\ (NotTwice(t) => NotTwice(t)')
    BY <1>1 DEF Served, NotTwice
  <1>6. OnceFor(s)'
    <2>1. OnceFor(s) /\ Served(s) = {}  BY <1>1 DEF OnceInv, OnceFor
    <2>2. pc'[s] = "try" /\ due'[s] = ActiveSet' /\ left'[s] = {}
      BY <1>1, <1>3 DEF IInv, TypeOK, OnceInv
    <2> QED  BY <1>1, <1>5, <2>1, <2>2 DEF OnceFor
  <1>7. ASSUME NEW t \in Sender \ {s} PROVE OnceFor(t)'
    <2>1. pc[t] \in {"start", "done"}  BY <1>1, OthersWait DEF Sending
    <2>2. pc'[t] = pc[t] /\ due'[t] = due[t] /\ left'[t] = left[t]
      BY <1>1 DEF IInv, TypeOK, OnceInv
    <2>3. OnceFor(t)  BY DEF OnceInv
    <2> QED  BY <1>1, <1>5, <2>1, <2>2, <2>3 DEF OnceFor
  <1> QED  BY <1>1, <1>4, <1>6, <1>7 DEF OnceInv

\* A step that serves nobody and lets nobody leave keeps the account of a Send,
\* also when the Send goes on or ends because no channel is active.
LEMMA QuietOnce ==
    ASSUME OnceInv, UNCHANGED <<sendCases, active, sent, due, left, nsent>>,
           \A s \in Sender : \/ pc'[s] = pc[s]
                             \/ {pc[s], pc'[s]} \subseteq {"start", "merge"}
                             \/ {pc[s], pc'[s]} \subseteq {"try", "select"}
                             \/ pc[s] = "try" /\ pc'[s] = "done" /\ ActiveSet = {}
    PROVE  OnceInv'
  <1>1. ActiveSet' = ActiveSet  BY DEF ActiveSet
  <1>2. ASSUME NEW s \in Sender PROVE OnceFor(s)'
    <2>1. OnceFor(s) /\ Served(s)' = Served(s) /\ (NotTwice(s) => NotTwice(s)')
      BY DEF OnceInv, Served, NotTwice
    <2>2. CASE pc'[s] = pc[s]  BY <1>1, <2>1, <2>2 DEF OnceFor
    <2>3. CASE {pc[s], pc'[s]} \subseteq {"start", "merge"}  BY <1>1, <2>1, <2>3 DEF OnceFor
    <2>4. CASE {pc[s], pc'[s]} \subseteq {"try", "select"}  BY <1>1, <2>1, <2>4 DEF OnceFor
    <2>5. CASE pc[s] = "try" /\ pc'[s] = "done" /\ ActiveSet = {}  BY <2>1, <2>5 DEF OnceFor
    <2> QED  BY <2>2, <2>3, <2>4, <2>5
  <1> QED  BY <1>2 DEF OnceInv

\* Every step keeps the account of who was served.
LEMMA StepOnceInv == IInv /\ IInv' /\ OnceInv /\ [Next]_vars => OnceInv'
  <1> SUFFICES ASSUME IInv, IInv', OnceInv, [Next]_vars PROVE OnceInv'  OBVIOUS
  <1> USE DEF IInv
  <1>1. ASSUME NEW c \in Channel, Subscribe(c) \/ Receive(c) PROVE OnceInv'
    BY <1>1, QuietOnce DEF Subscribe, Receive
  <1>2. ASSUME NEW c \in Channel, Unsubscribe(c) PROVE OnceInv'
    <2>1. UNCHANGED <<sendCases, active, pc, sent, due, nsent>> /\ (Leaves(c) \/ left' = left)
      BY <1>2 DEF Unsubscribe
    <2>2. ActiveSet' = ActiveSet  BY <2>1 DEF ActiveSet
    <2>3. \A s \in Sender : pc[s] \in {"start", "merge", "try", "select", "done"}  BY DEF TypeOK
    <2>4. CASE Leaves(c)  BY <2>1, <2>2, <2>3, <2>4, LeavesOnce
    <2>5. CASE left' = left  BY <2>1, <2>5, QuietOnce
    <2> QED  BY <2>1, <2>4, <2>5
  <1>3. ASSUME NEW c \in Channel, RemoveAlone(c) PROVE OnceInv'
    <2>1. UNCHANGED <<active, pc, sent, due, nsent>> /\ Leaves(c) /\ sendLock = None
      BY <1>3 DEF RemoveAlone
    <2>2. ActiveSet = {}  BY <2>1, SMT DEF ActiveSet, LockInv
    <2>3. \A s \in Sender : pc'[s] = pc[s] /\ pc[s] \in {"start", "merge", "done"}
      BY <2>1, FeedAssumption DEF TypeOK, LockInv, Sending
    <2> QED  BY <2>1, <2>2, <2>3, LeavesOnce
  <1>4. ASSUME NEW c \in Channel, NEW s \in Sender, SelectRemove(s, c) PROVE OnceInv'
    <2>1. /\ UNCHANGED <<sent, due, nsent>> /\ Leaves(c) /\ pc[s] = "select" /\ sub[c] = "remove"
          /\ sendCases' = delete(sendCases, find(sendCases, c))
          /\ active' = IF find(sendCases, c) <= active THEN active - 1 ELSE active
          /\ pc' = [pc EXCEPT ![s] = "try"]
      BY <1>4 DEF SelectRemove
    <2>2. c \in Elements(sendCases)  BY <2>1 DEF OneCase
    <2>3. ActiveSet' \subseteq ActiveSet /\ ActiveSet \ {c} \subseteq ActiveSet'
      BY <2>1, <2>2, ActiveAfterDelete
    <2>4. \A t \in Sender \ {s} : pc[t] \in {"start", "done"}  BY <2>1, OthersWait DEF Sending
    <2>5. pc'[s] = "try" /\ \A t \in Sender \ {s} : pc'[t] = pc[t]  BY <2>1 DEF TypeOK
    <2> QED  BY <2>1, <2>3, <2>4, <2>5, LeavesOnce
  <1>5. ASSUME NEW s \in Sender, Lock(s) PROVE OnceInv'
    <2>1. /\ UNCHANGED <<sendCases, active, sent, due, left, nsent>>
          /\ pc[s] = "start" /\ pc'[s] = "merge" /\ \A t \in Sender \ {s} : pc'[t] = pc[t]
      BY <1>5 DEF Lock, TypeOK
    <2> QED  BY <2>1, QuietOnce
  <1>6. ASSUME NEW s \in Sender, Merge(s) PROVE OnceInv'  BY <1>6, MergeOnce
  <1>7. ASSUME NEW s \in Sender, TrySend(s) PROVE OnceInv'
    <2>1. i \in 1 .. Len(sendCases) /\ i <= active /\ pc[s] = "try" /\ pc' = pc
          /\ UNCHANGED <<due, left>>
      BY <1>7, SMT DEF TypeOK, LockInv, TrySend
    <2>2. CASE Room(sendCases[i])
      <3>1. SendTo(s, i) /\ pc' = [pc EXCEPT ![s] = "try"]  BY <1>7, <2>1, <2>2 DEF TrySend, TypeOK
      <3> QED  BY <2>1, <3>1, SendOnce
    <2>3. CASE ~ Room(sendCases[i])
      <3>1. UNCHANGED <<sendCases, active, sent, nsent>>  BY <1>7, <2>3 DEF TrySend
      <3> QED  BY <2>1, <3>1, QuietOnce
    <2> QED  BY <2>2, <2>3
  <1>8. ASSUME NEW s \in Sender, Tried(s) PROVE OnceInv'
    <2>1. /\ UNCHANGED <<sendCases, active, sent, due, left, nsent>> /\ pc[s] = "try"
          /\ pc'[s] = (IF active = 0 THEN "done" ELSE "select")
          /\ \A t \in Sender \ {s} : pc'[t] = pc[t]
      BY <1>8 DEF Tried, TypeOK
    <2>2. active = 0 => ActiveSet = {}  BY SMT DEF ActiveSet
    <2> QED  BY <2>1, <2>2, QuietOnce
  <1>9. ASSUME NEW s \in Sender, NEW k \in 1 .. Len(sendCases), SelectSend(s, k) PROVE OnceInv'
    BY <1>9, SendOnce DEF SelectSend
  <1>10. CASE UNCHANGED vars  BY <1>10, QuietOnce DEF vars
  <1> QED  BY <1>1, <1>2, <1>3, <1>4, <1>5, <1>6, <1>7, <1>8, <1>9, <1>10 DEF Next

\* The places of the value of s in what channel c was sent.
Times(s, c) == Cardinality({k \in DOMAIN sent[c] : sent[c][k] = s})

\* A channel that was served has the value once, another one not at all.
LEMMA ServedTimes ==
    ASSUME NEW s \in Sender, NotTwice(s), NEW c \in Channel
    PROVE  Times(s, c) = IF c \in Served(s) THEN 1 ELSE 0
  <1> DEFINE K == {k \in DOMAIN sent[c] : sent[c][k] = s}
  <1>1. CASE c \in Served(s)
    <2>1. PICK k \in DOMAIN sent[c] : sent[c][k] = s  BY <1>1 DEF Served
    <2>2. K = {k}  BY <2>1 DEF NotTwice
    <2> QED  BY <1>1, <2>2, FS_Singleton DEF Times
  <1>2. CASE c \notin Served(s)
    <2>1. K = {}  BY <1>2 DEF Served
    <2> QED  BY <1>2, <2>1, FS_EmptySet DEF Times
  <1> QED  BY <1>1, <1>2

\* When a Send returns, every channel it started with has the value, once, or
\* has left, and the number it returns is theirs.
THEOREM ServedAlways == Spec => []ServedOnce
  <1>1. Init => OnceInv
    <2> SUFFICES ASSUME Init, NEW s \in Sender PROVE OnceFor(s)  BY SMT DEF Init, OnceInv
    <2>1. Served(s) = {} /\ NotTwice(s)  BY SMT DEF Init, Served, NotTwice
    <2> QED  BY <2>1, FS_EmptySet DEF Init, OnceFor
  <1>2. IInv /\ IInv' /\ OnceInv /\ [Next]_vars => OnceInv'  BY StepOnceInv
  <1>3. OnceInv => ServedOnce
    <2> SUFFICES ASSUME OnceInv, NEW s \in Sender
                 PROVE  /\ \A c \in Channel : Times(s, c) <= 1
                        /\ pc[s] = "done" =>
                             /\ \A c \in due[s] \ left[s] : Times(s, c) = 1
                             /\ nsent[s] = Cardinality({c \in Channel : Times(s, c) = 1})
      BY DEF ServedOnce, Times
    <2>1. OnceFor(s) /\ due[s] \subseteq Channel  BY DEF OnceInv
    <2>2. \A c \in Channel : Times(s, c) = IF c \in Served(s) THEN 1 ELSE 0
      BY <2>1, ServedTimes DEF OnceFor
    <2>3. {c \in Channel : Times(s, c) = 1} = Served(s)  BY <2>2, SMT DEF Served
    <2> QED  BY <2>1, <2>2, <2>3, SMT DEF OnceFor
  <1> QED  BY <1>1, <1>2, <1>3, AlwaysIInv, PTL DEF Spec
-----------------------------------------------------------------------------
(* The ring of ticket sets *)

USE RingAssumption

\* The goroutine that holds the lock of the ring.
Writing(p) == at[p] \in {"write", "hash", "tickets", "end", "start", "unlock"}

Key == Hash \cup {ZeroHash}

Seen == [hashes : [Ring!Slot -> SUBSET Key], tickets : [Ring!Slot -> SUBSET (Key \cup {Nil})],
         start : SUBSET Ring!Slot, end : SUBSET Ring!Slot, held : SUBSET BOOLEAN]

RingTypeOK ==
    /\ hashes \in [Ring!Slot -> Key] /\ tickets \in [Ring!Slot -> Key \cup {Nil}]
    /\ start \in Ring!Slot /\ end \in Ring!Slot
    /\ rwlock \in Proc \cup {None}
    /\ at \in [Proc -> Ring!Labels] /\ key \in [Proc -> Key]
    /\ seen \in [Proc -> Seen]

\* One goroutine at a time writes, and it has written what its place says.
WriterInv ==
    /\ \A p \in Proc : Writing(p) <=> rwlock = p
    /\ \A p \in Proc : at[p] = "lock" \/ Writing(p) => key[p] \in Hash
    /\ \A p \in Proc : at[p] \in {"tickets", "end"} => hashes[end] = key[p]
    /\ \A p \in Proc : at[p] \in {"hash", "end"} => tickets[end] = key[p]
    /\ \A p \in Proc : at[p] = "start" => start = end

\* A slot that is in use holds a hash with its tickets.
PairsInv == \A k \in Ring!Visited(Ring!First, end) : tickets[k] = hashes[k]

\* A copy knows whether the lock is held now.
CopyInv == \A p \in Proc : Ring!Copying(p) => (rwlock # None) \in seen[p].held

RingInv == RingTypeOK /\ WriterInv /\ PairsInv /\ CopyInv

\* The distance from slot f to slot e, and the k-th slot from f.
Dist(f, e) == IF e >= f THEN e - f ELSE e + N - f
Place(f, k) == IF f + k - 1 < N THEN f + k - 1 ELSE f + k - 1 - N

\* Once around the ring, the remainder is a difference.
LEMMA RingArithmetic ==
    /\ \A f, e \in Ring!Slot : (e + N - f) % N = Dist(f, e) /\ Dist(f, e) \in 0 .. N - 1
    /\ \A f \in Ring!Slot, k \in 1 .. N :
          (f + k - 1) % N = Place(f, k) /\ Place(f, k) \in Ring!Slot
    /\ \A f \in Ring!Slot : Ring!Next1(f) = (IF f = N - 1 THEN 0 ELSE f + 1)
                            /\ Ring!Next1(f) \in Ring!Slot
<1> USE DEF Ring!TicketCacheAssumption, Ring!Slot
<1>1. \A x \in 0 .. 2 * N - 1 : x % N = IF x < N THEN x ELSE x - N BY SMT
<1>2. ASSUME NEW f \in Ring!Slot, NEW e \in Ring!Slot
      PROVE  (e + N - f) % N = Dist(f, e) /\ Dist(f, e) \in 0 .. N - 1
  <2>1. e + N - f \in 0 .. 2 * N - 1 BY SMT
  <2>2. (e + N - f) % N = IF e + N - f < N THEN e + N - f ELSE (e + N - f) - N BY <1>1, <2>1
  <2> QED BY <2>2, SMT DEF Dist
<1>3. ASSUME NEW f \in Ring!Slot, NEW k \in 1 .. N
      PROVE  (f + k - 1) % N = Place(f, k) /\ Place(f, k) \in Ring!Slot
  <2>1. f + k - 1 \in 0 .. 2 * N - 1 BY SMT
  <2>2. (f + k - 1) % N = IF f + k - 1 < N THEN f + k - 1 ELSE (f + k - 1) - N BY <1>1, <2>1
  <2> QED BY <2>2, SMT DEF Place
<1>4. ASSUME NEW f \in Ring!Slot
      PROVE  /\ Ring!Next1(f) = (IF f = N - 1 THEN 0 ELSE f + 1)
             /\ Ring!Next1(f) \in Ring!Slot
  <2>1. f + 1 \in 0 .. 2 * N - 1 BY SMT
  <2>2. (f + 1) % N = IF f + 1 < N THEN f + 1 ELSE (f + 1) - N BY <1>1, <2>1
  <2> QED BY <2>2, SMT DEF Ring!Next1
<1> QED BY <1>2, <1>3, <1>4

\* The slots in use are those before the end.
LEMMA VisitedPlaces ==
    ASSUME NEW f \in Ring!Slot, NEW e \in Ring!Slot
    PROVE  /\ Ring!Visited(f, e) = {k \in Ring!Slot : Dist(f, k) < Dist(f, e)}
           /\ Ring!Visited(f, e) = {Place(f, k) : k \in 1 .. Dist(f, e)}
           /\ e \notin Ring!Visited(f, e)
<1>1. Ring!Visited(f, e) = {k \in Ring!Slot : Dist(f, k) < Dist(f, e)}
  BY RingArithmetic DEF Ring!Visited
<1>2. ASSUME NEW k \in Ring!Slot, Dist(f, k) < Dist(f, e)
      PROVE  \E j \in 1 .. Dist(f, e) : k = Place(f, j)
  <2>1. Dist(f, k) + 1 \in 1 .. Dist(f, e) /\ k = Place(f, Dist(f, k) + 1)
    BY <1>2, SMT DEF Ring!TicketCacheAssumption, Ring!Slot, Dist, Place
  <2> QED BY <2>1
<1>3. ASSUME NEW j \in 1 .. Dist(f, e)
      PROVE  Place(f, j) \in Ring!Slot /\ Dist(f, Place(f, j)) < Dist(f, e)
  BY SMT DEF Ring!TicketCacheAssumption, Ring!Slot, Dist, Place
<1>4. e \notin Ring!Visited(f, e) BY <1>1, SMT DEF Ring!TicketCacheAssumption, Ring!Slot, Dist
<1> QED BY <1>1, <1>2, <1>3, <1>4
\* The contents of the ring, before and after a step, slot by slot.
LEMMA ContentsPlaces ==
    ASSUME Ring!First \in Ring!Slot, end \in Ring!Slot
    PROVE  Ring!Contents = [k \in 1 .. Dist(Ring!First, end) |-> hashes[Place(Ring!First, k)]]
<1> DEFINE f == Ring!First
<1>1. (end + N - f) % N = Dist(f, end) /\ Dist(f, end) \in 0 .. N - 1
  BY RingArithmetic
<1>2. \A k \in 1 .. Dist(f, end) : k \in 1 .. N
  BY <1>1, SMT DEF Ring!TicketCacheAssumption
<1>3. \A k \in 1 .. Dist(f, end) : (f + k - 1) % N = Place(f, k) BY <1>2, RingArithmetic
<1> QED BY <1>1, <1>3 DEF Ring!Contents

LEMMA NextContentsPlaces ==
    ASSUME Ring!First' \in Ring!Slot, end' \in Ring!Slot
    PROVE  Ring!Contents' = [k \in 1 .. Dist(Ring!First', end') |-> hashes'[Place(Ring!First', k)]]
<1> DEFINE f == Ring!First'
<1>1. (end' + N - f) % N = Dist(f, end') /\ Dist(f, end') \in 0 .. N - 1
  BY RingArithmetic
<1>2. \A k \in 1 .. Dist(f, end') : k \in 1 .. N
  BY <1>1, SMT DEF Ring!TicketCacheAssumption
<1>3. \A k \in 1 .. Dist(f, end') : (f + k - 1) % N = Place(f, k) BY <1>2, RingArithmetic
<1> QED BY <1>1, <1>3 DEF Ring!Contents

\* Where the ring begins, by what its writer is at.
LEMMA FirstPlace ==
    ASSUME start \in Ring!Slot, WriterInv
    PROVE  /\ Ring!First \in Ring!Slot
           /\ (\A q \in Proc : at[q] # "start") => Ring!First = start
           /\ \A p \in Proc : Writing(p) /\ at[p] # "start" => Ring!First = start
           /\ \A p \in Proc : at[p] = "start" => Ring!First = Ring!Next1(start)
BY RingArithmetic DEF WriterInv, Writing, Ring!First

\* A step that writes nothing to the ring keeps it as it is.
LEMMA QuietStep ==
    ASSUME RingInv, NEW p \in Proc, ~ Writing(p),
           NEW l \in {"idle", "get", "addget", "got", "missed", "stuck", "lock"},
           UNCHANGED <<hashes, tickets, start, end, rwlock>>, at' = [at EXCEPT ![p] = l],
           key' \in [Proc -> Key], \A q \in Proc \ {p} : key'[q] = key[q],
           l = "lock" => key'[p] \in Hash,
           seen' \in [Proc -> Seen], \A q \in Proc \ {p} : seen'[q] = seen[q],
           l \in {"get", "addget"} => (rwlock # None) \in seen'[p].held
    PROVE  RingInv' /\ Ring!Contents' = Ring!Contents
<1>1. at \in [Proc -> Ring!Labels] /\ at' \in [Proc -> Ring!Labels]
  BY DEF RingInv, RingTypeOK, Ring!Labels
<1>2. at'[p] = l /\ \A q \in Proc \ {p} : at'[q] = at[q] BY <1>1
<1>3. RingTypeOK' BY <1>1 DEF RingInv, RingTypeOK
<1>4. at[p] \notin {"write", "hash", "tickets", "end", "start", "unlock"} BY DEF Writing
<1>5. WriterInv' BY <1>2, <1>4, ZenonT(40) DEF RingInv, WriterInv, Writing
<1>6. Ring!First' = Ring!First BY <1>2, <1>4 DEF Ring!First
<1>7. PairsInv' BY <1>6 DEF RingInv, PairsInv, Ring!Visited
<1>8. CopyInv' BY <1>2 DEF RingInv, CopyInv, Ring!Copying
<1>9. Ring!Contents' = Ring!Contents BY <1>6 DEF Ring!Contents
<1> QED BY <1>3, <1>5, <1>7, <1>8, <1>9 DEF RingInv

\* Copies in progress take note of every write.
LEMMA CopiesNotice ==
    ASSUME RingTypeOK, NEW p \in Proc, ~ Ring!Copying(p),
           at' \in [Proc -> Ring!Labels], ~ Ring!Copying(p)',
           \A q \in Proc \ {p} : at'[q] = at[q],
           hashes' \in [Ring!Slot -> Key], tickets' \in [Ring!Slot -> Key \cup {Nil}],
           start' \in Ring!Slot, end' \in Ring!Slot, seen' = Ring!Observed
    PROVE  seen' \in [Proc -> Seen] /\ CopyInv'
<1>1. ASSUME NEW q \in Proc, Ring!Copying(q)
      PROVE  seen'[q] \in Seen /\ (rwlock' # None) \in seen'[q].held
  <2> DEFINE hs == [k \in Ring!Slot |-> seen[q].hashes[k] \cup {hashes'[k]}]
             ts == [k \in Ring!Slot |-> seen[q].tickets[k] \cup {tickets'[k]}]
             b == rwlock' # None
  <2>1. seen'[q] = [hashes |-> hs, tickets |-> ts, start |-> seen[q].start \cup {start'},
                    end |-> seen[q].end \cup {end'}, held |-> seen[q].held \cup {b}]
    BY <1>1 DEF Ring!Observed
  <2>2. /\ seen[q].hashes \in [Ring!Slot -> SUBSET Key]
        /\ seen[q].tickets \in [Ring!Slot -> SUBSET (Key \cup {Nil})]
        /\ seen[q].start \in SUBSET Ring!Slot /\ seen[q].end \in SUBSET Ring!Slot
        /\ seen[q].held \in SUBSET BOOLEAN
    BY DEF RingTypeOK, Seen
  <2>3. hs \in [Ring!Slot -> SUBSET Key] BY <2>2, SMT
  <2>4. ts \in [Ring!Slot -> SUBSET (Key \cup {Nil})] BY <2>2
  <2>5. b \in BOOLEAN OBVIOUS
  <2> HIDE DEF hs, ts, b
  <2>6. /\ seen[q].start \cup {start'} \in SUBSET Ring!Slot
        /\ seen[q].end \cup {end'} \in SUBSET Ring!Slot
        /\ seen[q].held \cup {b} \in SUBSET BOOLEAN
    BY <2>2, <2>5
  <2>7. seen'[q].held = seen[q].held \cup {b} BY <2>1, SMT
  <2>8. seen'[q] \in Seen BY <2>1, <2>3, <2>4, <2>6, SMT DEF Seen
  <2> QED BY <2>7, <2>8 DEF b
<1>2. ASSUME NEW q \in Proc, ~ Ring!Copying(q) PROVE seen'[q] \in Seen
  BY <1>2 DEF Ring!Observed, RingTypeOK
<1>3. seen' \in [Proc -> Seen]
  <2>1. seen' = [q \in Proc |-> seen'[q]] BY DEF Ring!Observed
  <2> QED BY <1>1, <1>2, <2>1
<1>4. CopyInv' BY <1>1 DEF CopyInv, Ring!Copying
<1> QED BY <1>3, <1>4
\* What every step under the lock keeps: types, copies, and that the others do
\* not write.
LEMMA WriterStep ==
    ASSUME RingInv, NEW p \in Proc, rwlock \in {p, None},
           Writing(p) \/ at[p] = "lock",
           NEW l \in {"write", "hash", "tickets", "end", "start", "unlock", "idle"},
           at' = [at EXCEPT ![p] = l], rwlock' = IF l = "idle" THEN None ELSE p,
           hashes' \in [Ring!Slot -> Key], tickets' \in [Ring!Slot -> Key \cup {Nil}],
           start' \in Ring!Slot, end' \in Ring!Slot, key' \in [Proc -> Key],
           \A q \in Proc \ {p} : key'[q] = key[q], l # "idle" => key'[p] = key[p],
           seen' = Ring!Observed
    PROVE  /\ RingTypeOK' /\ CopyInv' /\ at'[p] = l
           /\ \A q \in Proc \ {p} : at'[q] = at[q] /\ ~ Writing(q) /\ ~ Writing(q)'
           /\ \A q \in Proc : Writing(q)' <=> rwlock' = q
           /\ \A q \in Proc : at'[q] = "lock" \/ Writing(q)' => key'[q] \in Hash
<1>1. at \in [Proc -> Ring!Labels] /\ at' \in [Proc -> Ring!Labels]
  BY DEF RingInv, RingTypeOK, Ring!Labels
<1>2. at'[p] = l /\ \A q \in Proc \ {p} : at'[q] = at[q] BY <1>1
<1>3. ~ Ring!Copying(p) /\ ~ Ring!Copying(p)' BY <1>2 DEF Ring!Copying, Writing
<1>4. seen' \in [Proc -> Seen] /\ CopyInv' BY <1>1, <1>2, <1>3, CopiesNotice DEF RingInv
<1>5. RingTypeOK' BY <1>1, <1>4 DEF RingTypeOK
<1>6. \A q \in Proc \ {p} : ~ Writing(q)
  BY DEF Ring!TicketCacheAssumption, RingInv, WriterInv
<1>7. \A q \in Proc \ {p} : ~ Writing(q)' BY <1>2, <1>6 DEF Writing
<1>8. \A q \in Proc : Writing(q)' <=> rwlock' = q
  <2>1. Writing(p)' <=> rwlock' = p BY <1>2 DEF Ring!TicketCacheAssumption, Writing
  <2> QED BY <1>7, <2>1 DEF Ring!TicketCacheAssumption
<1>9. \A q \in Proc : at'[q] = "lock" \/ Writing(q)' => key'[q] \in Hash
  <2>1. at'[p] = "lock" \/ Writing(p)' => key'[p] \in Hash
    BY <1>2 DEF RingInv, WriterInv, Writing
  <2> QED BY <1>2, <1>7, <2>1 DEF RingInv, WriterInv
<1> QED BY <1>2, <1>4, <1>5, <1>6, <1>7, <1>8, <1>9

\* A writer that is not about to move the start has the ring begin there.
LEMMA FirstStays ==
    ASSUME NEW p \in Proc, at[p] # "start", at'[p] # "start",
           \A q \in Proc \ {p} : at'[q] = at[q] /\ ~ Writing(q)
    PROVE  Ring!First = start /\ Ring!First' = start'
BY DEF Ring!First, Writing

\* Taking and releasing the lock change nothing in the ring.
LEMMA LockStep ==
    ASSUME RingInv, NEW p \in Proc, Ring!Lock(p) \/ Ring!Unlock(p)
    PROVE  RingInv' /\ Ring!Contents' = Ring!Contents
<1> DEFINE l == IF at[p] = "lock" THEN "write" ELSE "idle"
<1>1. /\ at[p] \in {"lock", "unlock"} /\ at' = [at EXCEPT ![p] = l]
      /\ rwlock' = (IF l = "idle" THEN None ELSE p)
      /\ at[p] = "lock" => rwlock = None
      /\ UNCHANGED <<hashes, tickets, start, end>> /\ seen' = Ring!Observed
  BY DEF Ring!Lock, Ring!Unlock, Ring!Goto
<1>2. rwlock \in {p, None} BY <1>1 DEF RingInv, WriterInv, Writing
<1>3. /\ key' \in [Proc -> Key] /\ \A q \in Proc \ {p} : key'[q] = key[q]
      /\ l # "idle" => key'[p] = key[p]
  BY DEF Ring!Lock, Ring!Unlock, RingInv, RingTypeOK, Key
<1>4. /\ hashes \in [Ring!Slot -> Key] /\ tickets \in [Ring!Slot -> Key \cup {Nil}]
      /\ start \in Ring!Slot /\ end \in Ring!Slot
  BY DEF RingInv, RingTypeOK
<1>5. l \in {"write", "idle"} BY <1>1
<1> HIDE DEF l
<1>6. /\ RingTypeOK' /\ CopyInv' /\ at'[p] = l
      /\ \A q \in Proc \ {p} : at'[q] = at[q] /\ ~ Writing(q) /\ ~ Writing(q)'
      /\ \A q \in Proc : Writing(q)' <=> rwlock' = q
      /\ \A q \in Proc : at'[q] = "lock" \/ Writing(q)' => key'[q] \in Hash
  BY <1>1, <1>2, <1>3, <1>4, <1>5, WriterStep DEF Writing
<1>7. WriterInv' BY <1>5, <1>6 DEF WriterInv, Writing
<1>8. Ring!First' = Ring!First BY <1>1, <1>5, <1>6, FirstStays
<1>9. PairsInv' BY <1>1, <1>8 DEF RingInv, PairsInv, Ring!Visited
<1>10. Ring!Contents' = Ring!Contents BY <1>1, <1>8 DEF Ring!Contents
<1> QED BY <1>6, <1>7, <1>9, <1>10 DEF RingInv

\* A write to the end, half of an entry, touches no slot in use.
LEMMA WriteStep ==
    ASSUME RingInv, NEW p \in Proc,
           Ring!WriteHash(p) \/ Ring!WriteTickets(p)
    PROVE  RingInv' /\ Ring!Contents' = Ring!Contents
<1>1. PICK l \in {"hash", "tickets", "end"} :
         /\ at[p] \in {"write", "hash", "tickets"} /\ at' = [at EXCEPT ![p] = l]
         /\ \/ /\ at[p] \in {"write", "hash"} /\ tickets' = tickets
               /\ hashes' = [hashes EXCEPT ![end] = key[p]]
               /\ l = IF at[p] = "write" THEN "tickets" ELSE "end"
            \/ /\ at[p] \in {"write", "tickets"} /\ hashes' = hashes
               /\ tickets' = [tickets EXCEPT ![end] = key[p]]
               /\ l = IF at[p] = "write" THEN "hash" ELSE "end"
         /\ UNCHANGED <<start, end, rwlock, key>> /\ seen' = Ring!Observed
  BY DEF Ring!WriteHash, Ring!WriteTickets, Ring!Goto
<1>2. rwlock = p /\ Writing(p) /\ key[p] \in Hash BY <1>1 DEF RingInv, WriterInv, Writing
<1>3. /\ hashes \in [Ring!Slot -> Key] /\ tickets \in [Ring!Slot -> Key \cup {Nil}]
      /\ start \in Ring!Slot /\ end \in Ring!Slot /\ key \in [Proc -> Key]
  BY DEF RingInv, RingTypeOK
<1>4. hashes' \in [Ring!Slot -> Key] /\ tickets' \in [Ring!Slot -> Key \cup {Nil}]
  BY <1>1, <1>3
<1>5. /\ RingTypeOK' /\ CopyInv' /\ at'[p] = l
      /\ \A q \in Proc \ {p} : at'[q] = at[q] /\ ~ Writing(q) /\ ~ Writing(q)'
      /\ \A q \in Proc : Writing(q)' <=> rwlock' = q
      /\ \A q \in Proc : at'[q] = "lock" \/ Writing(q)' => key'[q] \in Hash
  BY <1>1, <1>2, <1>3, <1>4, WriterStep
<1>6. /\ at'[p] \in {"tickets", "end"} => hashes'[end] = key[p]
      /\ at'[p] \in {"hash", "end"} => tickets'[end] = key[p]
  BY <1>1, <1>3, <1>5 DEF RingInv, WriterInv
<1>7. WriterInv' BY <1>1, <1>5, <1>6 DEF WriterInv, Writing
<1>8. Ring!First = start /\ Ring!First' = start BY <1>1, <1>5, FirstStays
<1>9. \A k \in Ring!Slot \ {end} : hashes'[k] = hashes[k] /\ tickets'[k] = tickets[k]
  BY <1>1, <1>3
<1>10. end \notin Ring!Visited(start, end) /\ Ring!Visited(start, end) \subseteq Ring!Slot
  BY <1>3, VisitedPlaces DEF Ring!Visited
<1>11. PairsInv' BY <1>1, <1>8, <1>9, <1>10 DEF RingInv, PairsInv, Ring!Visited
<1>12. \A k \in 1 .. Dist(start, end) : Place(start, k) \in Ring!Visited(start, end)
  BY <1>3, VisitedPlaces, SMT
<1>13. Ring!Contents' = Ring!Contents
  <2>1. Ring!Contents = [k \in 1 .. Dist(start, end) |-> hashes[Place(start, k)]]
    BY <1>3, <1>8, ContentsPlaces
  <2>2. Ring!Contents' = [k \in 1 .. Dist(start, end) |-> hashes'[Place(start, k)]]
    BY <1>1, <1>3, <1>8, NextContentsPlaces
  <2> QED BY <1>9, <1>10, <1>12, <2>1, <2>2
<1> QED BY <1>5, <1>7, <1>11, <1>13 DEF RingInv
\* A list with one element more, and one that drops the first as well.
LEMMA ListWithOneMore ==
    ASSUME NEW S, NEW n \in Nat, NEW f \in [1 .. n -> S], NEW x \in S,
           NEW m \in Nat, NEW g \in [1 .. m -> S]
    PROVE  /\ f \in Seq(S) /\ Len(f) = n /\ Len(Append(f, x)) = n + 1
           /\ m = n + 1 /\ g[m] = x /\ (\A k \in 1 .. n : g[k] = f[k]) => g = Append(f, x)
           /\ m = n /\ n > 0 /\ g[m] = x /\ (\A k \in 1 .. n - 1 : g[k] = f[k + 1]) =>
                 g = Tail(Append(f, x))
<1>1. f \in Seq(S) /\ Len(f) = n /\ DOMAIN f = 1 .. n BY SMT
<1>2. /\ Append(f, x) \in Seq(S) /\ Len(Append(f, x)) = n + 1
      /\ \A k \in 1 .. n : Append(f, x)[k] = f[k]
      /\ Append(f, x)[n + 1] = x
  BY <1>1, SMT
<1>3. ASSUME m = n + 1, g[m] = x, \A k \in 1 .. n : g[k] = f[k] PROVE g = Append(f, x)
  <2>1. \A k \in 1 .. n + 1 : g[k] = Append(f, x)[k]
    <3>1. \A k \in 1 .. n + 1 : k \in 1 .. n \/ k = n + 1 BY SMT
    <3> QED BY <1>2, <1>3, <3>1
  <2>2. g \in Seq(S) /\ Len(g) = n + 1 BY <1>3, SMT
  <2> QED BY <1>2, <2>1, <2>2, SMT
<1>4. ASSUME m = n, n > 0, g[m] = x, \A k \in 1 .. n - 1 : g[k] = f[k + 1]
      PROVE  g = Tail(Append(f, x))
  <2> DEFINE a == Append(f, x)
  <2> HIDE DEF a
  <2>1. a \in Seq(S) /\ Len(a) = n + 1 BY <1>2 DEF a
  <2>2. Tail(a) \in Seq(S) /\ Len(Tail(a)) = n /\ \A k \in 1 .. n : Tail(a)[k] = a[k + 1]
    BY <2>1, SMT
  <2>3. \A k \in 1 .. n : g[k] = a[k + 1]
    <3>1. \A k \in 1 .. n : k \in 1 .. n - 1 \/ k = n BY SMT
    <3>2. \A k \in 1 .. n - 1 : k + 1 \in 1 .. n BY SMT
    <3> QED BY <1>2, <1>4, <3>1, <3>2 DEF a
  <2>4. g \in Seq(S) /\ Len(g) = n BY <1>4, SMT
  <2> QED BY <2>2, <2>3, <2>4, SMT DEF a
<1> QED BY <1>1, <1>2, <1>3, <1>4

\* Moving the end adds the entry written there, and drops the oldest when the
\* ring is full.
LEMMA MoveEndStep ==
    ASSUME RingInv, NEW p \in Proc, Ring!MoveEnd(p)
    PROVE  RingInv' /\ Ring!Fifo!Add(key[p]) /\ key[p] \in Hash
<1> DEFINE full == Ring!Next1(end) = start
           l == IF full THEN "start" ELSE "unlock"
<1>1. /\ at[p] = "end" /\ at' = [at EXCEPT ![p] = l] /\ end' = Ring!Next1(end)
      /\ UNCHANGED <<hashes, tickets, start, rwlock, key>> /\ seen' = Ring!Observed
  BY DEF Ring!MoveEnd, Ring!Goto, Ring!Full
<1>2. /\ rwlock = p /\ Writing(p) /\ key[p] \in Hash
      /\ hashes[end] = key[p] /\ tickets[end] = key[p]
  BY <1>1 DEF RingInv, WriterInv, Writing
<1>3. /\ hashes \in [Ring!Slot -> Key] /\ tickets \in [Ring!Slot -> Key \cup {Nil}]
      /\ start \in Ring!Slot /\ end \in Ring!Slot /\ key \in [Proc -> Key]
  BY DEF RingInv, RingTypeOK
<1>4. end' \in Ring!Slot BY <1>1, <1>3, RingArithmetic
<1>5. l \in {"start", "unlock"} /\ (l = "start" <=> full) OBVIOUS
<1>6. /\ RingTypeOK' /\ CopyInv' /\ at'[p] = l
      /\ \A q \in Proc \ {p} : at'[q] = at[q] /\ ~ Writing(q) /\ ~ Writing(q)'
      /\ \A q \in Proc : Writing(q)' <=> rwlock' = q
      /\ \A q \in Proc : at'[q] = "lock" \/ Writing(q)' => key'[q] \in Hash
  <2> HIDE DEF l
  <2> QED BY <1>1, <1>2, <1>3, <1>4, <1>5, WriterStep
<1>7. WriterInv' BY <1>1, <1>5, <1>6 DEF WriterInv, Writing
<1>8. /\ Ring!First = start
      /\ Ring!First' = IF full THEN Ring!Next1(start) ELSE start
  <2>1. Ring!First = start BY <1>1, <1>2, <1>3, FirstPlace DEF RingInv
  <2>2. CASE full BY <1>1, <1>6, <2>1, <2>2 DEF Ring!First
  <2>3. CASE ~ full BY <1>1, <1>6, <2>1, <2>3, FirstStays, SMT
  <2> QED BY <2>1, <2>2, <2>3
<1> DEFINE d == Dist(start, end)
           f == IF full THEN Ring!Next1(start) ELSE start
           e == Dist(f, end')
           back == IF full THEN 1 ELSE 0
<1>9. /\ f \in Ring!Slot /\ d \in Nat /\ e \in Nat
      /\ e = d + 1 - back /\ (full <=> d = N - 1) /\ e > 0
      /\ Place(f, e) = end
      /\ \A k \in 1 .. e - 1 : Place(f, k) = Place(start, k + back) /\ k + back \in 1 .. d
  <2>1. /\ Ring!Next1(end) = (IF end = N - 1 THEN 0 ELSE end + 1)
        /\ Ring!Next1(start) = (IF start = N - 1 THEN 0 ELSE start + 1)
    BY <1>3, RingArithmetic
  <2> QED BY <1>1, <1>3, <2>1, SMT DEF Ring!TicketCacheAssumption, Ring!Slot, Dist, Place
<1>10. /\ Ring!Contents = [k \in 1 .. d |-> hashes[Place(start, k)]]
       /\ Ring!Contents' = [k \in 1 .. e |-> hashes[Place(f, k)]]
  BY <1>1, <1>3, <1>4, <1>8, <1>9, ContentsPlaces, NextContentsPlaces
<1>11. \A k \in 1 .. d : Place(start, k) \in Ring!Slot
  BY <1>3, VisitedPlaces, SMT DEF Ring!Visited
<1>12. \A k \in 1 .. e : k \in 1 .. e - 1 \/ k = e BY <1>9, SMT
<1>13. \A k \in 1 .. e : Place(f, k) \in Ring!Slot BY <1>3, <1>9, <1>11, <1>12
<1>14. Ring!Contents \in [1 .. d -> Key] /\ Ring!Contents' \in [1 .. e -> Key]
  BY <1>3, <1>10, <1>11, <1>13
<1>15. Ring!Contents'[e] = key[p] BY <1>2, <1>9, <1>10, SMT
<1>16. \A k \in 1 .. e - 1 : Ring!Contents'[k] = Ring!Contents[k + back]
  BY <1>9, <1>10, SMT
<1>17. Ring!Fifo!Add(key[p])
  <2>1. key[p] \in Key BY <1>3
  <2> HIDE DEF d, e
  <2>2. Len(Append(Ring!Contents, key[p])) = d + 1
    BY <1>9, <1>14, <2>1, ListWithOneMore, SMT
  <2>3. CASE full
    <3>1. e = d /\ d > 0 /\ d + 1 > N - 1 BY <1>9, <2>3, SMT DEF Ring!TicketCacheAssumption
    <3>2. \A k \in 1 .. d - 1 : Ring!Contents'[k] = Ring!Contents[k + 1] BY <1>16, <2>3, <3>1
    <3>3. Ring!Contents' = Tail(Append(Ring!Contents, key[p]))
      BY <1>9, <1>14, <1>15, <2>1, <3>1, <3>2, ListWithOneMore, SMT
    <3> QED BY <2>2, <3>1, <3>3 DEF Ring!Fifo!Add, Ring!Fifo!Latest
  <2>4. CASE ~ full
    <3>1. e = d + 1 BY <1>9, <2>4, SMT
    <3>2. ~ (d + 1 > N - 1)
      <4>1. d \in 0 .. N - 1 BY <1>3, RingArithmetic DEF d
      <4> QED BY <1>9, <2>4, <4>1, SMT DEF Ring!TicketCacheAssumption
    <3>3. \A k \in 1 .. d : Ring!Contents'[k] = Ring!Contents[k] BY <1>9, <1>16, <2>4, <3>1, SMT
    <3>4. Ring!Contents' = Append(Ring!Contents, key[p])
      BY <1>9, <1>14, <1>15, <2>1, <3>1, <3>3, ListWithOneMore, SMT
    <3> QED BY <2>2, <3>2, <3>4 DEF Ring!Fifo!Add, Ring!Fifo!Latest
  <2> QED BY <2>3, <2>4
<1>18. PairsInv'
  <2>1. Ring!Visited(f, end') = {Place(f, k) : k \in 1 .. e} BY <1>4, <1>9, VisitedPlaces, SMT
  <2>2. Ring!Visited(start, end) = {Place(start, k) : k \in 1 .. d} BY <1>3, VisitedPlaces
  <2>3. \A k \in 1 .. e : tickets[Place(f, k)] = hashes[Place(f, k)]
    BY <1>2, <1>8, <1>9, <1>12, <2>2 DEF RingInv, PairsInv
  <2>4. Ring!Visited(Ring!First, end)' = Ring!Visited(f, end') BY <1>8 DEF Ring!Visited
  <2> QED BY <1>1, <2>1, <2>3, <2>4, SMT DEF PairsInv
<1> QED BY <1>2, <1>6, <1>7, <1>17, <1>18 DEF RingInv

\* Moving the start only completes what moving the end began.
LEMMA MoveStartStep ==
    ASSUME RingInv, NEW p \in Proc, Ring!MoveStart(p)
    PROVE  RingInv' /\ Ring!Contents' = Ring!Contents
<1>1. /\ at[p] = "start" /\ at' = [at EXCEPT ![p] = "unlock"] /\ start' = Ring!Next1(start)
      /\ UNCHANGED <<hashes, tickets, end, rwlock, key>> /\ seen' = Ring!Observed
  BY DEF Ring!MoveStart, Ring!Goto
<1>2. rwlock = p /\ Writing(p) BY <1>1 DEF RingInv, WriterInv, Writing
<1>3. /\ hashes \in [Ring!Slot -> Key] /\ tickets \in [Ring!Slot -> Key \cup {Nil}]
      /\ start \in Ring!Slot /\ end \in Ring!Slot /\ key \in [Proc -> Key]
  BY DEF RingInv, RingTypeOK
<1>4. start' \in Ring!Slot BY <1>1, <1>3, RingArithmetic
<1>5. /\ RingTypeOK' /\ CopyInv' /\ at'[p] = "unlock"
      /\ \A q \in Proc \ {p} : at'[q] = at[q] /\ ~ Writing(q) /\ ~ Writing(q)'
      /\ \A q \in Proc : Writing(q)' <=> rwlock' = q
      /\ \A q \in Proc : at'[q] = "lock" \/ Writing(q)' => key'[q] \in Hash
  BY <1>1, <1>2, <1>3, <1>4, WriterStep
<1>6. WriterInv' BY <1>1, <1>5 DEF WriterInv, Writing
<1>7. Ring!First' = Ring!First
  <2>1. Ring!First = Ring!Next1(start) BY <1>1 DEF Ring!First
  <2>2. Ring!First' = start' BY <1>5 DEF Ring!First, Writing
  <2> QED BY <1>1, <2>1, <2>2
<1>8. PairsInv' BY <1>1, <1>7 DEF RingInv, PairsInv, Ring!Visited
<1>9. Ring!Contents' = Ring!Contents BY <1>1, <1>7 DEF Ring!Contents
<1> QED BY <1>5, <1>6, <1>8, <1>9 DEF RingInv
Answered == DOMAIN answer = Proc

\* The calls, the copies and their ends leave the ring alone.  A search that
\* found nothing goes on to write only for a hash that is not zero.
LEMMA CallStep ==
    ASSUME RingInv, Answered, NEW p \in Proc,
           Ring!Call(p) \/ Ring!Return(p) \/ Ring!Get(p) \/ Ring!GetBlocks(p)
    PROVE  RingInv' /\ Ring!Contents' = Ring!Contents
<1>1. /\ key \in [Proc -> Key] /\ seen \in [Proc -> Seen]
      /\ hashes \in [Ring!Slot -> Key] /\ tickets \in [Ring!Slot -> Key \cup {Nil}]
      /\ start \in Ring!Slot /\ end \in Ring!Slot
  BY DEF RingInv, RingTypeOK
<1>2. Ring!Unseen \in Seen
  <2>1. /\ [k \in Ring!Slot |-> {}] \in [Ring!Slot -> SUBSET Key]
        /\ [k \in Ring!Slot |-> {}] \in [Ring!Slot -> SUBSET (Key \cup {Nil})]
    OBVIOUS
  <2> QED BY <2>1 DEF Seen, Ring!Unseen
<1>3. CASE Ring!Call(p)
  <2>1. PICK hash \in Key, l \in {"get", "addget"} :
           /\ at[p] \in {"idle", "missed"} /\ at' = [at EXCEPT ![p] = l]
           /\ key' = [key EXCEPT ![p] = hash] /\ Ring!BeginCopy(p)
           /\ UNCHANGED <<hashes, tickets, start, end, rwlock>>
    BY <1>3 DEF Ring!Call, Ring!GetCachedTickets, Ring!Add, Ring!Goto, Ring!ring, Key
  <2> DEFINE hs == [k \in Ring!Slot |-> {hashes[k]}]
             ts == [k \in Ring!Slot |-> {tickets[k]}]
             b == rwlock # None
             c == [hashes |-> hs, tickets |-> ts, start |-> {start}, end |-> {end}, held |-> {b}]
  <2>2. seen' = [seen EXCEPT ![p] = c] BY <2>1 DEF Ring!BeginCopy
  <2>3. hs \in [Ring!Slot -> SUBSET Key] /\ ts \in [Ring!Slot -> SUBSET (Key \cup {Nil})]
    BY <1>1
  <2>4. b \in BOOLEAN OBVIOUS
  <2> HIDE DEF hs, ts, b
  <2>5. c \in Seen BY <1>1, <2>3, <2>4 DEF Seen
  <2>6. b \in c.held OBVIOUS
  <2> HIDE DEF c
  <2>7. /\ seen' \in [Proc -> Seen] /\ seen'[p] = c
        /\ \A q \in Proc \ {p} : seen'[q] = seen[q]
    BY <1>1, <2>2, <2>5
  <2>8. key' \in [Proc -> Key] /\ \A q \in Proc \ {p} : key'[q] = key[q] BY <1>1, <2>1
  <2>9. (rwlock # None) \in seen'[p].held BY <2>6, <2>7 DEF b
  <2>10. ~ Writing(p) BY <2>1 DEF Writing
  <2> QED BY <2>1, <2>7, <2>8, <2>9, <2>10, QuietStep
<1>4. CASE Ring!Return(p)
  <2>1. /\ at[p] \in {"got", "missed"} /\ at' = [at EXCEPT ![p] = "idle"]
        /\ key' = [key EXCEPT ![p] = ZeroHash]
        /\ UNCHANGED <<hashes, tickets, start, end, rwlock, seen>>
    BY <1>4 DEF Ring!Return, Ring!Goto, Ring!ring
  <2>2. key' \in [Proc -> Key] /\ \A q \in Proc \ {p} : key'[q] = key[q] BY <1>1, <2>1 DEF Key
  <2>3. ~ Writing(p) BY <2>1 DEF Writing
  <2> QED BY <1>1, <2>1, <2>2, <2>3, QuietStep
<1>5. CASE Ring!Get(p) \/ Ring!GetBlocks(p)
  <2>1. PICK l \in {"got", "missed", "lock", "stuck"} :
           /\ at[p] \in {"get", "addget"} /\ at' = [at EXCEPT ![p] = l]
           /\ l = "lock" => key[p] # ZeroHash
           /\ UNCHANGED <<hashes, tickets, start, end, rwlock, key>>
           /\ seen' = [seen EXCEPT ![p] = Ring!Unseen]
    <3>1. CASE Ring!GetBlocks(p)
      BY <3>1 DEF Ring!GetBlocks, Ring!Copying, Ring!Goto, Ring!Forget, Ring!ring
    <3>2. CASE Ring!Get(p)
      <4>1. /\ at[p] \in {"get", "addget"}
            /\ at' = [at EXCEPT ![p] = IF answer'[p] # Nil THEN "got"
                                       ELSE IF at[p] = "get" THEN "missed" ELSE "lock"]
            /\ UNCHANGED <<hashes, tickets, start, end, rwlock, key>>
            /\ seen' = [seen EXCEPT ![p] = Ring!Unseen]
        BY <3>2 DEF Ring!Get, Ring!Copying, Ring!Goto, Ring!Forget, Ring!ring
      <4>2. key[p] = ZeroHash => answer'[p] = Empty
        BY <3>2 DEF Ring!Get, Answered
      <4>3. Nil # Empty BY DEF Ring!TicketCacheAssumption
      <4> QED BY <4>1, <4>2, <4>3
    <3> QED BY <1>5, <3>1, <3>2
  <2>2. l = "lock" => key[p] \in Hash BY <1>1, <2>1 DEF Key
  <2>3. seen' \in [Proc -> Seen] /\ \A q \in Proc \ {p} : seen'[q] = seen[q] BY <1>1, <1>2, <2>1
  <2>4. ~ Writing(p) BY <2>1 DEF Writing
  <2> QED BY <1>1, <2>1, <2>2, <2>3, <2>4, QuietStep
<1> QED BY <1>3, <1>4, <1>5

\* Every step keeps the invariant and is one of the cache that is promised, or
\* none.
LEMMA RingStep ==
    ASSUME RingInv, Answered, [Ring!Next]_Ring!vars
    PROVE  RingInv' /\ Answered' /\ [Ring!Fifo!Next]_Ring!Contents
<1>1. CASE UNCHANGED Ring!vars
  <2>1. UNCHANGED <<hashes, tickets, start, end, rwlock, at, key, seen, answer>>
    BY <1>1 DEF Ring!vars, Ring!ring
  <2>2. RingInv'
    BY <2>1 DEF RingInv, RingTypeOK, WriterInv, PairsInv, CopyInv, Writing, Ring!Visited,
                Ring!First, Ring!Copying
  <2>3. Ring!Contents' = Ring!Contents BY <2>1 DEF Ring!Contents, Ring!First
  <2> QED BY <2>1, <2>2, <2>3 DEF Answered
<1>2. ASSUME NEW p \in Proc,
             Ring!Call(p) \/ Ring!Return(p) \/ Ring!Lock(p) \/ Ring!Finish(p)
      PROVE  RingInv' /\ Answered' /\ [Ring!Fifo!Next]_Ring!Contents
  <2>1. Answered'
    <3>1. answer' = answer \/ \E x : answer' = [answer EXCEPT ![p] = x]
      BY <1>2 DEF Ring!Call, Ring!GetCachedTickets, Ring!Add, Ring!Return, Ring!Lock, Ring!Finish,
                  Ring!Get, Ring!GetBlocks, Ring!WriteHash, Ring!WriteTickets, Ring!MoveEnd,
                  Ring!MoveStart, Ring!Unlock
    <3> QED BY <3>1 DEF Answered
  <2>2. CASE Ring!Call(p) \/ Ring!Return(p) \/ Ring!Get(p) \/ Ring!GetBlocks(p)
    BY <2>1, <2>2, CallStep
  <2>3. CASE Ring!Lock(p) \/ Ring!Unlock(p) BY <2>1, <2>3, LockStep
  <2>4. CASE Ring!WriteHash(p) \/ Ring!WriteTickets(p) BY <2>1, <2>4, WriteStep
  <2>5. CASE Ring!MoveEnd(p) BY <2>1, <2>5, MoveEndStep DEF Ring!Fifo!Next
  <2>6. CASE Ring!MoveStart(p) BY <2>1, <2>6, MoveStartStep
  <2> QED BY <1>2, <2>2, <2>3, <2>4, <2>5, <2>6 DEF Ring!Finish
<1> QED BY <1>1, <1>2 DEF Ring!Next

\* A new ring is empty.
LEMMA RingInit ==
    ASSUME Ring!Init
    PROVE  RingInv /\ Answered /\ Ring!Fifo!Init
<1> USE DEF Ring!TicketCacheAssumption
<1>1. Ring!Unseen \in Seen
  <2>1. /\ [k \in Ring!Slot |-> {}] \in [Ring!Slot -> SUBSET Key]
        /\ [k \in Ring!Slot |-> {}] \in [Ring!Slot -> SUBSET (Key \cup {Nil})]
    OBVIOUS
  <2> QED BY <2>1 DEF Seen, Ring!Unseen
<1>2. RingTypeOK BY <1>1, SMT DEF Ring!Init, RingTypeOK, Ring!Labels, Key, Ring!Slot
<1>3. WriterInv BY DEF Ring!Init, WriterInv, Writing
<1>4. Ring!First = 0 /\ end = 0 /\ 0 \in Ring!Slot BY SMT DEF Ring!Init, Ring!First, Ring!Slot
<1>5. Dist(0, 0) = 0 BY SMT DEF Dist
<1>6. PairsInv
  <2>1. Ring!Visited(0, 0) = {Place(0, k) : k \in 1 .. 0} BY <1>4, <1>5, VisitedPlaces
  <2> QED BY <1>4, <2>1, SMT DEF PairsInv
<1>7. CopyInv BY DEF Ring!Init, CopyInv, Ring!Copying
<1>8. Ring!Contents = <<>>
  <2>1. Ring!Contents = [k \in 1 .. 0 |-> hashes[Place(0, k)]] BY <1>4, <1>5, ContentsPlaces
  <2> QED BY <2>1, SMT
<1> QED BY <1>2, <1>3, <1>6, <1>7, <1>8 DEF RingInv, Answered, Ring!Init, Ring!Fifo!Init

\* The ring is the cache it is meant to be: whatever the interleaving, it holds
\* the sets added last, as many as fit, in order.
THEOREM RingIsFifo == Ring!Spec => HoldsTheLatest
<1>1. Ring!Init => RingInv /\ Answered /\ Ring!Fifo!Init BY RingInit
<1>2. RingInv /\ Answered /\ [Ring!Next]_Ring!vars =>
         RingInv' /\ Answered' /\ [Ring!Fifo!Next]_Ring!Contents
  BY RingStep
<1> QED BY <1>1, <1>2, PTL DEF Ring!Spec, HoldsTheLatest, Ring!HoldsTheLatest, Ring!Fifo!Spec

\* What a search finds is in a slot it may stop at, or it passes all of them.
LEMMA FoundMeans ==
    ASSUME NEW p, NEW f, NEW e, NEW x \in Ring!Found(p, f, e)
    PROVE  \/ \E k \in Ring!Hits(p, f, e) : x \in Ring!Copied(seen[p].tickets[k])
           \/ x = Nil /\ \A k \in Ring!Visited(f, e) : Ring!MayMiss(p, k)
<1> DEFINE miss == \A k \in Ring!Visited(f, e) : Ring!MayMiss(p, k)
<1>1. \/ x \in UNION {Ring!Copied(seen[p].tickets[k]) : k \in Ring!Hits(p, f, e)}
      \/ x \in (IF miss THEN {Nil} ELSE {})
  BY DEF Ring!Found
<1>2. CASE x \in UNION {Ring!Copied(seen[p].tickets[k]) : k \in Ring!Hits(p, f, e)}
  BY <1>2
<1>3. CASE x \in (IF miss THEN {Nil} ELSE {})
  <2> HIDE DEF miss
  <2>1. x = Nil /\ miss BY <1>3
  <2> QED BY <2>1 DEF miss
<1> QED BY <1>1, <1>2, <1>3

\* A Get that no Add overlapped finds the set when the ring has it, and nothing
\* otherwise.
THEOREM QuietGetsAreExact == Ring!Spec => QuietGetIsExact
<1>1. Ring!Init => RingInv /\ Answered BY RingInit
<1>2. RingInv /\ Answered /\ [Ring!Next]_Ring!vars => RingInv' /\ Answered' BY RingStep
<1>3. RingInv /\ Answered /\ [Ring!Next]_Ring!vars => [\A p \in Proc : Ring!ExactGet(p)]_Ring!vars
  <2> SUFFICES ASSUME RingInv, Answered, Ring!Next, NEW p \in Proc,
                      Ring!Copying(p), ~Ring!Copying(p)', key[p] # ZeroHash, Ring!Undisturbed(p)
               PROVE  answer'[p] = IF \E k \in DOMAIN Ring!Contents : Ring!Contents[k] = key[p]
                                   THEN key[p] ELSE Nil
    BY DEF Ring!ExactGet
  <2>1. /\ seen[p].held = {FALSE} /\ seen[p].start = {start} /\ seen[p].end = {end}
        /\ \A k \in Ring!Slot : seen[p].hashes[k] = {hashes[k]} /\ seen[p].tickets[k] = {tickets[k]}
    BY DEF Ring!Undisturbed
  <2>2. rwlock = None /\ at \in [Proc -> Ring!Labels]
    BY <2>1 DEF RingInv, RingTypeOK, CopyInv
  <2>3. Ring!Get(p)
    <3>1. PICK q \in Proc : Ring!Call(q) \/ Ring!Return(q) \/ Ring!Lock(q) \/ Ring!Finish(q)
      BY DEF Ring!Next
    <3>2. \E l : at' = [at EXCEPT ![q] = l]
      BY <3>1 DEF Ring!Call, Ring!GetCachedTickets, Ring!Add, Ring!Return, Ring!Lock, Ring!Finish,
                  Ring!Get, Ring!GetBlocks, Ring!WriteHash, Ring!WriteTickets, Ring!MoveEnd,
                  Ring!MoveStart, Ring!Unlock, Ring!Goto
    <3>3. q = p BY <2>2, <3>2 DEF Ring!Copying
    <3>4. at[p] \in {"get", "addget"} BY DEF Ring!Copying
    <3>5. ~ Ring!GetBlocks(p) BY <2>1 DEF Ring!GetBlocks
    <3> QED BY <3>1, <3>3, <3>4, <3>5
            DEF Ring!Call, Ring!GetCachedTickets, Ring!Add, Ring!Return, Ring!Lock, Ring!Finish,
                Ring!WriteHash, Ring!WriteTickets, Ring!MoveEnd, Ring!MoveStart, Ring!Unlock
  <2>4. answer'[p] \in Ring!Answers(p) BY <2>3 DEF Ring!Get, Answered
  <2>5. Ring!First = start /\ start \in Ring!Slot /\ end \in Ring!Slot
    <3>1. start \in Ring!Slot /\ end \in Ring!Slot BY DEF RingInv, RingTypeOK
    <3>2. \A q \in Proc : ~ Writing(q)
      BY <2>2 DEF RingInv, WriterInv, Ring!TicketCacheAssumption
    <3> QED BY <3>1, <3>2 DEF Ring!First, Writing
  <2>6. Ring!Visited(start, end) \subseteq Ring!Slot BY DEF Ring!Visited
  <2>7. \A k \in Ring!Visited(start, end) : tickets[k] = hashes[k]
    BY <2>5 DEF RingInv, PairsInv
  <2>8. (\E k \in DOMAIN Ring!Contents : Ring!Contents[k] = key[p])
           <=> \E k \in Ring!Visited(start, end) : hashes[k] = key[p]
    <3>1. Ring!Contents = [k \in 1 .. Dist(start, end) |-> hashes[Place(start, k)]]
      BY <2>5, ContentsPlaces
    <3>2. Ring!Visited(start, end) = {Place(start, k) : k \in 1 .. Dist(start, end)}
      BY <2>5, VisitedPlaces
    <3> QED BY <3>1, <3>2
  <2>9. \/ \E k \in Ring!Visited(start, end) :
             key[p] = hashes[k] /\ answer'[p] \in Ring!Copied({tickets[k]})
        \/ (\A k \in Ring!Visited(start, end) : hashes[k] # key[p]) /\ answer'[p] = Nil
    <3>1. answer'[p] \in Ring!Found(p, start, end) BY <2>1, <2>4, SMT DEF Ring!Answers
    <3>2. CASE \E k \in Ring!Hits(p, start, end) : answer'[p] \in Ring!Copied(seen[p].tickets[k])
      <4>1. PICK k \in Ring!Hits(p, start, end) : answer'[p] \in Ring!Copied(seen[p].tickets[k])
        BY <3>2
      <4>2. k \in Ring!Visited(start, end) /\ key[p] \in seen[p].hashes[k]
        BY <4>1 DEF Ring!Hits
      <4>3. key[p] = hashes[k] /\ seen[p].tickets[k] = {tickets[k]} BY <2>1, <2>6, <4>2, SMT
      <4> QED BY <4>1, <4>2, <4>3
    <3>3. CASE answer'[p] = Nil /\ \A k \in Ring!Visited(start, end) : Ring!MayMiss(p, k)
      BY <2>1, <2>6, <3>3 DEF Ring!MayMiss
    <3>4. \/ \E k \in Ring!Hits(p, start, end) : answer'[p] \in Ring!Copied(seen[p].tickets[k])
          \/ answer'[p] = Nil /\ \A k \in Ring!Visited(start, end) : Ring!MayMiss(p, k)
      BY <3>1, FoundMeans
    <3> QED BY <3>2, <3>3, <3>4
  <2>10. \A x : Ring!Copied({x}) = {x} BY DEF Ring!Copied
  <2> QED BY <2>7, <2>8, <2>9, <2>10
<1> QED BY <1>1, <1>2, <1>3, PTL DEF Ring!Spec, QuietGetIsExact, Ring!QuietGetIsExact
=============================================================================
