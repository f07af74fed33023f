-------------------------------- MODULE Feed --------------------------------
(***************************************************************************)
(* The event feed (event/feed.go) over which the chain, the pool and the   *)
(* miner tell of blocks and transactions.  Sends, subscriptions and their  *)
(* ends run concurrently; a send holds sendLock, and an Unsubscribe finds  *)
(* its channel in the inbox, takes the lock itself, or interrupts the      *)
(* send.  sendCases is modelled without its first case, removeSub; its     *)
(* first `active' elements are the slice the code calls cases.             *)
(***************************************************************************)
EXTENDS Integers, Sequences, FiniteSets

CONSTANTS
    Channel, Sender,    \* a sender sends once, and its name is the value
    None,
    Capacity,           \* of every channel
    MaxSubs             \* bound: how often a channel subscribes

ASSUME FeedAssumption ==
    None \notin Sender /\ Capacity \in Nat \ {0} /\ MaxSubs \in Nat

VARIABLES
    inbox, sendCases, sendLock, active,
    i,                  \* of the loop that tries to send
    pc,                 \* of every Send
    sub,                \* of every channel's subscription: "on" until Unsubscribe
    subs,               \* how often a channel has subscribed
    buffer,             \* what a channel holds
    sent,               \* ghost: all that was sent to a channel, in order
    due,                \* ghost: the channels a Send starts with
    left,               \* ghost: those that ended their subscription meanwhile
    nsent

vars == <<inbox, sendCases, sendLock, active, i, pc, sub, subs, buffer, sent, due, left, nsent>>

Init ==
    /\ inbox = <<>> /\ sendCases = <<>> /\ sendLock = None /\ active = 0 /\ i = 1
    /\ pc = [s \in Sender |-> "start"]
    /\ sub = [c \in Channel |-> "off"] /\ subs = [c \in Channel |-> 0]
    /\ buffer = [c \in Channel |-> <<>>] /\ sent = [c \in Channel |-> <<>>]
    /\ due = [s \in Sender |-> {}] /\ left = [s \in Sender |-> {}]
    /\ nsent = [s \in Sender |-> 0]

Elements(s) == {s[k] : k \in DOMAIN s}
find(cs, c) == CHOOSE k \in DOMAIN cs : cs[k] = c
delete(cs, k) == [j \in 1 .. Len(cs) - 1 |-> IF j < k THEN cs[j] ELSE cs[j + 1]]

-----------------------------------------------------------------------------
(* Subscriptions *)

Subscribe(c) ==
    /\ sub[c] = "off" /\ subs[c] < MaxSubs
    /\ sub' = [sub EXCEPT ![c] = "on"] /\ subs' = [subs EXCEPT ![c] = @ + 1]
    /\ inbox' = Append(inbox, c)
    /\ UNCHANGED <<sendCases, sendLock, active, i, pc, buffer, sent, due, left, nsent>>

\* A Send that c does not wait for may do without it.
Leaves(c) == left' = [s \in Sender |-> left[s] \cup {c}]

\* remove, first half: a channel still in the inbox is deleted there.
Unsubscribe(c) ==
    /\ sub[c] = "on"
    /\ IF c \in Elements(inbox)
       THEN /\ inbox' = delete(inbox, find(inbox, c))
            /\ sub' = [sub EXCEPT ![c] = "off"] /\ Leaves(c)
       ELSE /\ sub' = [sub EXCEPT ![c] = "remove"]
            /\ UNCHANGED <<inbox, left>>
    /\ UNCHANGED <<sendCases, sendLock, active, i, pc, subs, buffer, sent, due, nsent>>

\* Mutant: the case is not deleted.
RemoveAloneForgets(c) ==
    /\ sub[c] = "remove" /\ sendLock = None
    /\ sub' = [sub EXCEPT ![c] = "off"] /\ Leaves(c)
    /\ UNCHANGED <<sendCases, inbox, sendLock, active, i, pc, subs, buffer, sent, due, nsent>>

\* remove, second half, when no Send is in progress.
RemoveAlone(c) ==
    /\ sub[c] = "remove" /\ sendLock = None
    /\ sendCases' = delete(sendCases, find(sendCases, c))
    /\ sub' = [sub EXCEPT ![c] = "off"] /\ Leaves(c)
    /\ UNCHANGED <<inbox, sendLock, active, i, pc, subs, buffer, sent, due, nsent>>

-----------------------------------------------------------------------------
(* Send *)

Lock(s) ==
    /\ pc[s] = "start" /\ sendLock = None
    /\ sendLock' = s /\ pc' = [pc EXCEPT ![s] = "merge"]
    /\ UNCHANGED <<inbox, sendCases, active, i, sub, subs, buffer, sent, due, left, nsent>>

Merge(s) ==
    /\ pc[s] = "merge"
    /\ sendCases' = sendCases \o inbox /\ inbox' = <<>>
    /\ active' = Len(sendCases') /\ i' = 1
    /\ due' = [due EXCEPT ![s] = Elements(sendCases')] /\ left' = [left EXCEPT ![s] = {}]
    /\ pc' = [pc EXCEPT ![s] = "try"]
    /\ UNCHANGED <<sendLock, sub, subs, buffer, sent, nsent>>

Room(c) == Len(buffer[c]) < Capacity

\* The value goes to the k-th channel, which is deactivated.
SendTo(s, k) ==
    LET c == sendCases[k]
    IN  /\ buffer' = [buffer EXCEPT ![c] = Append(@, s)]
        /\ sent' = [sent EXCEPT ![c] = Append(@, s)]
        /\ nsent' = [nsent EXCEPT ![s] = @ + 1]
        /\ sendCases' = [sendCases EXCEPT ![k] = sendCases[active], ![active] = sendCases[k]]
        /\ active' = active - 1

\* The fast path, one channel: after a success the loop is at the channel that
\* took its place.
TrySend(s) ==
    /\ pc[s] = "try" /\ i <= active
    /\ IF Room(sendCases[i])
       THEN SendTo(s, i) /\ i' = i
       ELSE i' = i + 1 /\ UNCHANGED <<buffer, sent, nsent, sendCases, active>>
    /\ UNCHANGED <<inbox, sendLock, pc, sub, subs, due, left>>

\* All were tried: the Send is done, or waits.
Tried(s) ==
    /\ pc[s] = "try" /\ i > active
    /\ pc' = [pc EXCEPT ![s] = IF active = 0 THEN "done" ELSE "select"]
    /\ sendLock' = IF active = 0 THEN None ELSE sendLock
    /\ UNCHANGED <<inbox, sendCases, active, i, sub, subs, buffer, sent, due, left, nsent>>

SelectSend(s, k) ==
    /\ pc[s] = "select" /\ k <= active /\ Room(sendCases[k])
    /\ SendTo(s, k)
    /\ pc' = [pc EXCEPT ![s] = "try"] /\ i' = 1
    /\ UNCHANGED <<inbox, sendLock, sub, subs, due, left>>

\* Mutant: the removed channel is taken to be one that was served.
SelectRemoveServed(s, c) ==
    /\ pc[s] = "select" /\ sub[c] = "remove"
    /\ sendCases' = delete(sendCases, find(sendCases, c))
    /\ active' = IF active > Len(sendCases') THEN Len(sendCases') ELSE active
    /\ sub' = [sub EXCEPT ![c] = "off"] /\ Leaves(c)
    /\ pc' = [pc EXCEPT ![s] = "try"] /\ i' = 1
    /\ UNCHANGED <<inbox, sendLock, subs, buffer, sent, due, nsent>>

\* An Unsubscribe interrupts the Send that waits.
SelectRemove(s, c) ==
    LET index == find(sendCases, c)
    IN  /\ pc[s] = "select" /\ sub[c] = "remove"
        /\ sendCases' = delete(sendCases, index)
        /\ active' = IF index <= active THEN active - 1 ELSE active
        /\ sub' = [sub EXCEPT ![c] = "off"] /\ Leaves(c)
        /\ pc' = [pc EXCEPT ![s] = "try"] /\ i' = 1
        /\ UNCHANGED <<inbox, sendLock, subs, buffer, sent, due, nsent>>

\* A subscriber takes a value.
Receive(c) ==
    /\ buffer[c] # <<>>
    /\ buffer' = [buffer EXCEPT ![c] = Tail(@)]
    /\ UNCHANGED <<inbox, sendCases, sendLock, active, i, pc, sub, subs, sent, due, left, nsent>>

Next ==
    \/ \E c \in Channel : \/ Subscribe(c) \/ Unsubscribe(c) \/ RemoveAlone(c) \/ Receive(c)
                          \/ \E s \in Sender : SelectRemove(s, c)
    \/ \E s \in Sender : \/ Lock(s) \/ Merge(s) \/ TrySend(s) \/ Tried(s)
                         \/ \E k \in 1 .. Len(sendCases) : SelectSend(s, k)

Spec == Init /\ [][Next]_vars

-----------------------------------------------------------------------------
(* Properties *)

Sending(s) == pc[s] \in {"merge", "try", "select"}

\* A channel that is subscribed is in the inbox or among the cases, once, until
\* it is removed: find in remove and in Send never fails (delete(-1) panics).
OneCase ==
    /\ \A k, l \in DOMAIN inbox : inbox[k] = inbox[l] => k = l
    /\ \A k, l \in DOMAIN sendCases : sendCases[k] = sendCases[l] => k = l
    /\ Elements(inbox) \cap Elements(sendCases) = {}
    /\ Elements(inbox) \cup Elements(sendCases) = {c \in Channel : sub[c] # "off"}
    /\ \A c \in Channel : sub[c] = "remove" => c \in Elements(sendCases)

\* "Send delivers to all subscribed channels": when it returns, every channel it
\* started with has the value, once, or ended its subscription meanwhile, and
\* the number it returns is theirs.
ServedOnce ==
    \A s \in Sender :
      LET times(c) == Cardinality({k \in DOMAIN sent[c] : sent[c][k] = s})
      IN  /\ \A c \in Channel : times(c) <= 1
          /\ pc[s] = "done" =>
               /\ \A c \in due[s] \ left[s] : times(c) = 1
               /\ nsent[s] = Cardinality({c \in Channel : times(c) = 1})

\* After Unsubscribe has returned the channel gets nothing, until it subscribes
\* again.
NothingAfter == [][\A c \in Channel : sub[c] = "off" => sent'[c] = sent[c]]_vars
=============================================================================
