--------------------------- MODULE AlertSinkProofs ---------------------------
(***************************************************************************)
(* What AlertSink does for any number of connections, any buffer capacity  *)
(* and any notifications, proved with TLAPS: the type invariant, mutual    *)
(* exclusion on the deque, what firing() may list and what a response may  *)
(* say, and that the threads implement NotificationHistory.                *)
(***************************************************************************)
EXTENDS AlertSink, SequenceTheorems, TLAPS

-----------------------------------------------------------------------------
(* The deque: what one append does to its contents.  Every entry but the
   new one was there before, at the same place or one place further on.    *)
LEMMA Append1Shape ==
  ASSUME NEW s \in Seq(Alert), Len(s) <= Capacity, NEW a \in Alert
  PROVE  /\ Append1(s, a) \in Seq(Alert)
         /\ Len(Append1(s, a)) \in 1..Capacity
         /\ Append1(s, a)[Len(Append1(s, a))] = a
         /\ \E gone \in {0, 1} :
              /\ Len(Append1(s, a)) = Len(s) + 1 - gone
              /\ \A i \in 1..(Len(Append1(s, a)) - 1) :
                   Append1(s, a)[i] = s[i + gone]
<1>0. Capacity \in Nat \ {0}  BY CapacityIsPositive
<1>1. CASE Len(s) < Capacity
  <2>1. Append1(s, a) = Append(s, a)  BY <1>1 DEF Append1
  <2>2. QED  BY <1>0, <1>1, <2>1
<1>2. CASE Len(s) = Capacity
  <2>1. Append1(s, a) = Append(Tail(s), a)  BY <1>2, <1>0 DEF Append1
  <2>2. s # <<>> /\ Tail(s) \in Seq(Alert) /\ Len(Tail(s)) = Len(s) - 1
        BY <1>2, <1>0
  <2>3. \A i \in 1..(Len(s) - 1) : Tail(s)[i] = s[i + 1]  BY <2>2
  <2>4. QED  BY <1>0, <1>2, <2>1, <2>2, <2>3
<1>3. QED  BY <1>0, <1>1, <1>2

LEMMA KeyInKeys == \A a \in Alert : Key(a) \in Keys
BY DEF Alert, Key, Keys

(* What a client can send is a list of alerts and entries refused by
   parse_notification; when none is refused it is one of the batches.      *)
LEMMA BodiesType ==
  /\ Bodies \subseteq Seq(Alert \cup {Malformed})
  /\ \A b \in Bodies : WellFormed(b) => b \in Batches
<1>1. \A b \in Batches : b \in Seq(Alert)  BY BatchesCarryAlerts
<1>2. \A b \in Batches : /\ b \in Seq(Alert \cup {Malformed})
                         /\ Append(b, Malformed) \in Seq(Alert \cup {Malformed})
                         /\ <<Malformed>> \o b \in Seq(Alert \cup {Malformed})
  BY <1>1
<1>3. \A b \in Batches : ~WellFormed(Append(b, Malformed))
  <2>1. TAKE b \in Batches
  <2>2. /\ Len(b) + 1 \in DOMAIN Append(b, Malformed)
        /\ Append(b, Malformed)[Len(b) + 1] = Malformed
    BY <1>1
  <2>3. QED  BY <2>2 DEF WellFormed
<1>4. \A b \in Batches : ~WellFormed(<<Malformed>> \o b)
  <2>1. TAKE b \in Batches
  <2>2. /\ 1 \in DOMAIN (<<Malformed>> \o b)
        /\ (<<Malformed>> \o b)[1] = Malformed
    BY <1>1
  <2>3. QED  BY <2>2 DEF WellFormed
<1>5. QED  BY <1>2, <1>3, <1>4 DEF Bodies

-----------------------------------------------------------------------------
(* Every variable stays in its type and the deque within its maxlen,
   whatever the threads do (AlertStore.__init__'s maxlen).                 *)
THEOREM TypeCorrect == Spec => []TypeOK
<1>1. Init => TypeOK
  BY CapacityIsPositive DEF Init, TypeOK, Nothing
<1>2. TypeOK /\ [Next]_vars => TypeOK'
  <2>1. SUFFICES ASSUME TypeOK, [Next]_vars  PROVE TypeOK'
        OBVIOUS
  <2>2. ASSUME NEW c \in Clients, NEW b \in Bodies, ReadNotification(c, b)
        PROVE  TypeOK'
    <3>1. requests \in Nat /\ body \in [Clients -> Seq(Alert \cup {Malformed})]
          BY <2>1 DEF TypeOK
    <3>2. requests' = requests + 1 /\ body' = [body EXCEPT ![c] = b]
          BY <2>2 DEF ReadNotification
    <3>3. requests' \in Nat /\ body' \in [Clients -> Seq(Alert \cup {Malformed})]
          BY <3>1, <3>2, BodiesType
    <3>4. QED  BY <2>1, <2>2, <3>3 DEF TypeOK, ReadNotification
  <2>3. ASSUME NEW c \in Clients, ReadQuery(c)  PROVE TypeOK'
    <3>1. requests \in Nat /\ body \in [Clients -> Seq(Alert \cup {Malformed})]
          BY <2>1 DEF TypeOK
    <3>2. requests' = requests + 1 /\ body' = [body EXCEPT ![c] = <<>>]
          BY <2>3 DEF ReadQuery, Nothing
    <3>3. requests' \in Nat /\ body' \in [Clients -> Seq(Alert \cup {Malformed})]
          BY <3>1, <3>2
    <3>4. QED  BY <2>1, <2>3, <3>3 DEF TypeOK, ReadQuery
  <2>4. ASSUME NEW c \in Clients, ParseNotification(c)  PROVE TypeOK'
    <3>1. CASE WellFormed(body[c])
      <4>1. body[c] \in Seq(Alert)
        <5>1. body[c] \in Seq(Alert \cup {Malformed})  BY <2>1 DEF TypeOK
        <5>2. \A i \in 1..Len(body[c]) : body[c][i] \in Alert
              BY <5>1, <3>1 DEF WellFormed
        <5>3. QED  BY <5>1, <5>2
      <4>2. QED  BY <2>1, <2>4, <3>1, <4>1 DEF TypeOK, ParseNotification
    <3>2. CASE ~WellFormed(body[c])
          BY <2>1, <2>4, <3>2 DEF TypeOK, ParseNotification
    <3>3. QED  BY <3>1, <3>2
  <2>5. ASSUME NEW c \in Clients, AcquireForAdd(c)  PROVE TypeOK'
        BY <2>1, <2>5 DEF TypeOK, AcquireForAdd
  <2>6. ASSUME NEW c \in Clients, AppendOne(c)  PROVE TypeOK'
    <3>1. /\ items' = Append1(items, Head(pending[c]))
          /\ latest' = [latest EXCEPT ![Key(Head(pending[c]))] = Head(pending[c])]
          /\ pending' = [pending EXCEPT ![c] = Tail(pending[c])]
          /\ added' = [added EXCEPT ![c] = added[c] + 1]
          /\ pending[c] # <<>>
          BY <2>6 DEF AppendOne, Nothing
    <3>2. Head(pending[c]) \in Alert /\ Tail(pending[c]) \in Seq(Alert)
      <4>1. pending[c] \in Seq(Alert)  BY <2>1 DEF TypeOK
      <4>2. QED  BY <3>1, <4>1
    <3>3. items' \in Seq(Alert) /\ Len(items') <= Capacity
      <4>1. items \in Seq(Alert) /\ Len(items) <= Capacity  BY <2>1 DEF TypeOK
      <4>2. /\ Append1(items, Head(pending[c])) \in Seq(Alert)
            /\ Len(Append1(items, Head(pending[c]))) \in 1..Capacity
            BY <3>2, <4>1, Append1Shape
      <4>3. QED  BY <3>1, <4>2, CapacityIsPositive
    <3>4. latest' \in [Keys -> Alert \cup {NoOne}]
          BY <2>1, <3>1, <3>2 DEF TypeOK
    <3>5. pending' \in [Clients -> Seq(Alert)] /\ added' \in [Clients -> Nat]
      <4>1. pending \in [Clients -> Seq(Alert)] /\ added \in [Clients -> Nat]
            BY <2>1 DEF TypeOK
      <4>2. QED  BY <3>1, <3>2, <4>1
    <3>6. UNCHANGED << lock, pc, body, status, snapshot, requests, restarts >>
          BY <2>6 DEF AppendOne
    <3>7. QED  BY <2>1, <3>3, <3>4, <3>5, <3>6 DEF TypeOK
  <2>7. ASSUME NEW c \in Clients, ReleaseAfterAdd(c)  PROVE TypeOK'
        BY <2>1, <2>7 DEF TypeOK, ReleaseAfterAdd, AllAdded, Release
  <2>8. ASSUME NEW c \in Clients, RespondAccepted(c)  PROVE TypeOK'
        BY <2>1, <2>8 DEF TypeOK, RespondAccepted
  <2>9. ASSUME NEW c \in Clients, Recent(c)  PROVE TypeOK'
        BY <2>1, <2>9 DEF TypeOK, Recent, MayCopy
  <2>10. ASSUME NEW c \in Clients, RespondFiring(c)  PROVE TypeOK'
        BY <2>1, <2>10 DEF TypeOK, RespondFiring
  <2>11. ASSUME Restart  PROVE TypeOK'
    <3>1. restarts' \in Nat /\ requests' \in Nat
      <4>1. restarts \in Nat /\ requests \in Nat  BY <2>1 DEF TypeOK
      <4>2. restarts' = restarts + 1 /\ requests' = requests  BY <2>11 DEF Restart
      <4>3. QED  BY <4>1, <4>2
    <3>2. items' \in Seq(Alert) /\ Len(items') <= Capacity
      <4>1. items' = <<>>  BY <2>11 DEF Restart
      <4>2. QED  BY <4>1, CapacityIsPositive
    <3>3. /\ pc' = [d \in Clients |-> "idle"]
          /\ status' = [d \in Clients |-> "none"]
          /\ lock' = NoOne
          BY <2>11 DEF Restart
    <3>4. /\ body' = [d \in Clients |-> <<>>]
          /\ pending' = [d \in Clients |-> <<>>]
          /\ added' = [d \in Clients |-> 0]
          /\ latest' = [k \in Keys |-> NoOne]
          /\ snapshot' = snapshot
          BY <2>11 DEF Restart, Nothing
    <3>5. /\ body' \in [Clients -> Seq(Alert \cup {Malformed})]
          /\ pending' \in [Clients -> Seq(Alert)]
          /\ added' \in [Clients -> Nat]
          BY <3>4
    <3>6. /\ snapshot' \in [Clients -> Seq(Alert)]
          /\ latest' \in [Keys -> Alert \cup {NoOne}]
          BY <2>1, <3>4 DEF TypeOK
    <3>7. QED  BY <3>1, <3>2, <3>3, <3>5, <3>6 DEF TypeOK
  <2>12. CASE UNCHANGED vars
        BY <2>1, <2>12 DEF TypeOK, vars
  <2>13. QED
        BY <2>1, <2>2, <2>3, <2>4, <2>5, <2>6, <2>7, <2>8, <2>9, <2>10,
           <2>11, <2>12 DEF Next, Handle
<1>3. QED  BY <1>1, <1>2, PTL DEF Spec

-----------------------------------------------------------------------------
(* A thread is appending exactly when it holds the lock: add_all's with
   block is a critical section.                                            *)
THEOREM MutualExclusion == Spec => []LockGuardsAppends
<1>1. Init => LockGuardsAppends
  BY NoOneIsNoClient DEF Init, LockGuardsAppends
<1>2. TypeOK /\ LockGuardsAppends /\ [Next]_vars => LockGuardsAppends'
  <2>1. SUFFICES ASSUME TypeOK, LockGuardsAppends, [Next]_vars,
                        NEW d \in Clients
                 PROVE  (pc[d] = "append" <=> lock = d)'
        BY DEF LockGuardsAppends
  <2>2. /\ pc[d] = "append" <=> lock = d
        /\ pc \in [Clients -> { "idle", "parse", "add_all", "append",
                                "accepted", "recent", "firing" }]
        BY <2>1 DEF LockGuardsAppends, TypeOK
  <2>3. ASSUME NEW c \in Clients, NEW b \in Bodies, ReadNotification(c, b)
        PROVE  (pc[d] = "append" <=> lock = d)'
        BY <2>2, <2>3 DEF ReadNotification
  <2>4. ASSUME NEW c \in Clients, ReadQuery(c)
        PROVE  (pc[d] = "append" <=> lock = d)'
        BY <2>2, <2>4 DEF ReadQuery
  <2>5. ASSUME NEW c \in Clients, ParseNotification(c)
        PROVE  (pc[d] = "append" <=> lock = d)'
        BY <2>2, <2>5 DEF ParseNotification
  <2>6. ASSUME NEW c \in Clients, AcquireForAdd(c)
        PROVE  (pc[d] = "append" <=> lock = d)'
        BY <2>2, <2>6, NoOneIsNoClient DEF AcquireForAdd
  <2>7. ASSUME NEW c \in Clients, AppendOne(c)
        PROVE  (pc[d] = "append" <=> lock = d)'
        BY <2>2, <2>7 DEF AppendOne
  <2>8. ASSUME NEW c \in Clients, ReleaseAfterAdd(c)
        PROVE  (pc[d] = "append" <=> lock = d)'
    <3>1. lock = c  BY <2>1, <2>8 DEF ReleaseAfterAdd, LockGuardsAppends,
                                      AllAdded, Release
    <3>2. QED  BY <2>2, <2>8, <3>1, NoOneIsNoClient DEF ReleaseAfterAdd,
                                                        AllAdded, Release
  <2>9. ASSUME NEW c \in Clients, RespondAccepted(c)
        PROVE  (pc[d] = "append" <=> lock = d)'
        BY <2>2, <2>9 DEF RespondAccepted
  <2>10. ASSUME NEW c \in Clients, Recent(c)
        PROVE  (pc[d] = "append" <=> lock = d)'
        BY <2>2, <2>10 DEF Recent, MayCopy
  <2>11. ASSUME NEW c \in Clients, RespondFiring(c)
        PROVE  (pc[d] = "append" <=> lock = d)'
        BY <2>2, <2>11 DEF RespondFiring
  <2>12. ASSUME Restart  PROVE (pc[d] = "append" <=> lock = d)'
        BY <2>12, NoOneIsNoClient DEF Restart
  <2>13. CASE UNCHANGED vars  BY <2>2, <2>13 DEF vars
  <2>14. QED
        BY <2>1, <2>3, <2>4, <2>5, <2>6, <2>7, <2>8, <2>9, <2>10, <2>11,
           <2>12, <2>13 DEF Next, Handle
<1>3. QED  BY <1>1, <1>2, TypeCorrect, PTL DEF Spec

-----------------------------------------------------------------------------
(* The inductive form of ListedIsLatest: the newest entry of every key,
   firing or not, is the last alert stored under that key.  The property
   itself is not inductive, because an entry it says nothing of (a resolved
   one) may become the one that decides.                                   *)
LatestOfNewest ==
  \A i \in DOMAIN items : IsNewest(items, i) => latest[Key(items[i])] = items[i]

(* One append keeps it: the new entry is the newest of its key, and an older
   entry that still is the newest of its own was so before.                *)
LEMMA AppendKeepsLatest ==
  ASSUME TypeOK, LatestOfNewest, NEW a \in Alert,
         items' = Append1(items, a),
         latest' = [latest EXCEPT ![Key(a)] = a]
  PROVE  LatestOfNewest'
<1>1. SUFFICES ASSUME NEW i \in DOMAIN items', IsNewest(items', i)
               PROVE  latest'[Key(items'[i])] = items'[i]
      BY DEF LatestOfNewest
<1> DEFINE n == Len(items')
<1>2. /\ items \in Seq(Alert)
      /\ Len(items) <= Capacity
      /\ latest \in [Keys -> Alert \cup {NoOne}]
      BY DEF TypeOK
<1>3. /\ items' \in Seq(Alert)
      /\ n \in Nat \ {0}
      /\ items'[n] = a
  <2>1. /\ Append1(items, a) \in Seq(Alert)
        /\ Len(Append1(items, a)) \in 1..Capacity
        /\ Append1(items, a)[Len(Append1(items, a))] = a
        BY <1>2, Append1Shape
  <2>2. QED  BY <2>1, CapacityIsPositive
<1>4. PICK gone \in {0, 1} :
        /\ n = Len(items) + 1 - gone
        /\ \A j \in 1..(n - 1) : items'[j] = items[j + gone]
      BY <1>2, Append1Shape
<1>5. i \in 1..n  BY <1>3
<1>6. Key(a) \in Keys  BY KeyInKeys
<1>7. CASE i = n
      BY <1>2, <1>3, <1>6, <1>7
<1>8. CASE i # n
  <2>1. i \in 1..(n - 1) /\ n > i /\ n \in DOMAIN items'  BY <1>3, <1>5, <1>8
  <2>2. Key(items'[i]) # Key(a)
        BY <1>1, <1>3, <2>1 DEF IsNewest
  <2>3. i + gone \in DOMAIN items /\ items'[i] = items[i + gone]
        BY <1>2, <1>4, <2>1
  <2>4. IsNewest(items, i + gone)
    <3>1. SUFFICES ASSUME NEW k \in DOMAIN items, k > i + gone
                   PROVE  Key(items[k]) # Key(items[i + gone])
          BY DEF IsNewest
    <3>2. k - gone \in 1..(n - 1) /\ k - gone > i
          BY <1>2, <1>4, <1>5, <3>1
    <3>3. items'[k - gone] = items[k] /\ k - gone \in DOMAIN items'
          BY <1>2, <1>3, <1>4, <3>2
    <3>4. QED  BY <1>1, <2>3, <3>2, <3>3 DEF IsNewest
  <2>5. latest[Key(items[i + gone])] = items[i + gone]
        BY <2>3, <2>4 DEF LatestOfNewest
  <2>6. items'[i] \in Alert  BY <1>3, <1>5
  <2>7. Key(items'[i]) \in Keys  BY <2>6, KeyInKeys
  <2>8. QED  BY <1>2, <2>2, <2>3, <2>5, <2>7
<1>9. QED  BY <1>7, <1>8

(* firing() never lists an alert that a later notification superseded,
   however long the history, however small the buffer.                     *)
THEOREM NoStaleListing == Spec => []ListedIsLatest
<1>1. Init => LatestOfNewest
  BY DEF Init, LatestOfNewest
<1>2. TypeOK /\ LatestOfNewest /\ [Next]_vars => LatestOfNewest'
  <2>1. SUFFICES ASSUME TypeOK, LatestOfNewest, [Next]_vars
                 PROVE  LatestOfNewest'
        OBVIOUS
  <2>2. ASSUME NEW c \in Clients, AppendOne(c)  PROVE LatestOfNewest'
    <3>1. /\ items' = Append1(items, Head(pending[c]))
          /\ latest' = [latest EXCEPT ![Key(Head(pending[c]))] = Head(pending[c])]
          /\ pending[c] # <<>>
          BY <2>2 DEF AppendOne, Nothing
    <3>2. pending[c] \in Seq(Alert)  BY <2>1 DEF TypeOK
    <3>3. Head(pending[c]) \in Alert  BY <3>1, <3>2
    <3>4. QED  BY <2>1, <3>1, <3>3, AppendKeepsLatest
  <2>3. ASSUME Restart  PROVE LatestOfNewest'
    <3>1. items' = <<>>  BY <2>3 DEF Restart
    <3>2. QED  BY <3>1 DEF LatestOfNewest
  <2>4. ASSUME UNCHANGED << items, latest >>  PROVE LatestOfNewest'
        BY <2>1, <2>4 DEF LatestOfNewest, IsNewest
  <2>5. QED
        BY <2>1, <2>2, <2>3, <2>4
        DEF Next, Handle, ReadNotification, ReadQuery, ParseNotification,
            AcquireForAdd, ReleaseAfterAdd, RespondAccepted, Recent,
            RespondFiring, vars, AllAdded, Release, MayCopy
<1>3. LatestOfNewest => ListedIsLatest
  BY DEF LatestOfNewest, ListedIsLatest, Firing
<1>4. QED  BY <1>1, <1>2, <1>3, TypeCorrect, PTL DEF Spec

-----------------------------------------------------------------------------
(* The inductive form of ResponseTellsStore: how many alerts a thread has
   stored and has left to store, at each point of its handler.             *)
Accounted(c) ==
  /\ pc[c] # "idle" => status[c] = "none"
  /\ pc[c] \in {"parse", "add_all"} => added[c] = 0
  /\ pc[c] = "add_all" => pending[c] = body[c]
  /\ pc[c] = "append" => added[c] + Len(pending[c]) = Len(body[c])
  /\ pc[c] = "accepted" => added[c] = Len(body[c])
  /\ pc[c] \in {"recent", "firing"} => added[c] = 0 /\ body[c] = <<>>
  /\ status[c] = "ok" => added[c] = Len(body[c])
  /\ status[c] = "bad request" => added[c] = 0

(* No response lies about the store: 200 only once every alert of the
   notification was appended, 400 only when none was.                      *)
THEOREM ResponsesAreTrue == Spec => []ResponseTellsStore
<1> DEFINE AllAccounted == \A c \in Clients : Accounted(c)
<1>1. Init => AllAccounted
  BY DEF Init, Accounted, Nothing
<1>2. TypeOK /\ AllAccounted /\ [Next]_vars => AllAccounted'
  <2>1. SUFFICES ASSUME TypeOK, AllAccounted, [Next]_vars, NEW d \in Clients
                 PROVE  Accounted(d)'
        OBVIOUS
  <2>2. /\ Accounted(d)
        /\ pc \in [Clients -> { "idle", "parse", "add_all", "append",
                                "accepted", "recent", "firing" }]
        /\ status \in [Clients -> { "none", "ok", "bad request" }]
        /\ added \in [Clients -> Nat]
        /\ pending \in [Clients -> Seq(Alert)]
        /\ body \in [Clients -> Seq(Alert \cup {Malformed})]
        BY <2>1 DEF TypeOK
  <2>3. ASSUME NEW c \in Clients, NEW b \in Bodies, ReadNotification(c, b)
        PROVE  Accounted(d)'
        BY <2>2, <2>3 DEF Accounted, ReadNotification
  <2>4. ASSUME NEW c \in Clients, ReadQuery(c)  PROVE Accounted(d)'
        BY <2>2, <2>4 DEF Accounted, ReadQuery, Nothing
  <2>5. ASSUME NEW c \in Clients, ParseNotification(c)  PROVE Accounted(d)'
    <3>1. /\ pc[c] = "parse" /\ UNCHANGED << body, added >>
          /\ \/ /\ pending' = [pending EXCEPT ![c] = body[c]] /\ status' = status
                /\ pc' = [pc EXCEPT ![c] = "add_all"]
             \/ /\ status' = [status EXCEPT ![c] = "bad request"] /\ pending' = pending
                /\ pc' = [pc EXCEPT ![c] = "idle"]
          BY <2>5 DEF ParseNotification
    <3>2. CASE c = d
          BY <2>2, <3>1, <3>2 DEF Accounted
    <3>3. CASE c # d
      <4>1. /\ pc'[d] = pc[d] /\ pending'[d] = pending[d] /\ status'[d] = status[d]
            /\ body'[d] = body[d] /\ added'[d] = added[d]
            BY <2>2, <3>1, <3>3
      <4>2. QED  BY <2>2, <4>1 DEF Accounted
    <3>4. QED  BY <3>2, <3>3
  <2>6. ASSUME NEW c \in Clients, AcquireForAdd(c)  PROVE Accounted(d)'
    <3>1. /\ pc[c] = "add_all"
          /\ pc' = [pc EXCEPT ![c] = "append"]
          /\ UNCHANGED << body, pending, added, status >>
          BY <2>6 DEF AcquireForAdd
    <3>2. CASE c = d
      <4>1. /\ pc'[d] = "append" /\ added'[d] = 0 /\ status'[d] = "none"
            /\ pending'[d] = body[d] /\ body'[d] = body[d]
            BY <2>2, <3>1, <3>2 DEF Accounted
      <4>2. body[d] \in Seq(Alert \cup {Malformed})  BY <2>2
      <4>3. added'[d] + Len(pending'[d]) = Len(body'[d])  BY <4>1, <4>2
      <4>4. QED  BY <4>1, <4>3 DEF Accounted
    <3>3. CASE c # d
          BY <2>2, <3>1, <3>3 DEF Accounted
    <3>4. QED  BY <3>2, <3>3
  <2>7. ASSUME NEW c \in Clients, AppendOne(c)  PROVE Accounted(d)'
    <3>1. /\ pc[c] = "append" /\ pending[c] # <<>>
          /\ pending' = [pending EXCEPT ![c] = Tail(pending[c])]
          /\ added' = [added EXCEPT ![c] = added[c] + 1]
          /\ UNCHANGED << pc, body, status >>
          BY <2>7 DEF AppendOne, Nothing
    <3>2. /\ pending[c] \in Seq(Alert) /\ added[c] \in Nat
          /\ body[c] \in Seq(Alert \cup {Malformed})
          BY <2>2
    <3>3. CASE c = d
      <4>1. /\ pc'[d] = "append" /\ status'[d] = "none"
            /\ added'[d] = added[d] + 1
            /\ pending'[d] = Tail(pending[d]) /\ body'[d] = body[d]
            /\ added[d] + Len(pending[d]) = Len(body[d])
            BY <2>2, <3>1, <3>3 DEF Accounted
      <4>2. Len(Tail(pending[d])) = Len(pending[d]) - 1  BY <3>1, <3>2, <3>3
      <4>3. Len(pending[d]) \in Nat /\ Len(body[d]) \in Nat  BY <3>2, <3>3
      <4>4. added'[d] + Len(pending'[d]) = Len(body'[d])
            BY <3>2, <3>3, <4>1, <4>2, <4>3
      <4>5. QED  BY <4>1, <4>4 DEF Accounted
    <3>4. CASE c # d  BY <2>2, <3>1, <3>4 DEF Accounted
    <3>5. QED  BY <3>3, <3>4
  <2>8. ASSUME NEW c \in Clients, ReleaseAfterAdd(c)  PROVE Accounted(d)'
    <3>1. /\ pc[c] = "append" /\ pending[c] = <<>>
          /\ pc' = [pc EXCEPT ![c] = "accepted"]
          /\ UNCHANGED << body, pending, added, status >>
          BY <2>8 DEF ReleaseAfterAdd, Nothing, AllAdded, Release
    <3>2. CASE c = d
      <4>1. /\ pc'[d] = "accepted" /\ status'[d] = "none"
            /\ added'[d] = added[d] /\ body'[d] = body[d]
            /\ added[d] + Len(pending[d]) = Len(body[d])
            BY <2>2, <3>1, <3>2 DEF Accounted
      <4>2. pending[d] = <<>>  BY <3>1, <3>2
      <4>3. Len(pending[d]) = 0  BY <4>2
      <4>4. added[d] \in Nat  BY <2>2
      <4>5. added'[d] = Len(body'[d])  BY <4>1, <4>3, <4>4
      <4>6. QED  BY <4>1, <4>5 DEF Accounted
    <3>3. CASE c # d
          BY <2>2, <3>1, <3>3 DEF Accounted
    <3>4. QED  BY <3>2, <3>3
  <2>9. ASSUME NEW c \in Clients, RespondAccepted(c)  PROVE Accounted(d)'
        BY <2>2, <2>9 DEF Accounted, RespondAccepted
  <2>10. ASSUME NEW c \in Clients, Recent(c)  PROVE Accounted(d)'
        BY <2>2, <2>10 DEF Accounted, Recent, MayCopy
  <2>11. ASSUME NEW c \in Clients, RespondFiring(c)  PROVE Accounted(d)'
        BY <2>2, <2>11 DEF Accounted, RespondFiring
  <2>12. ASSUME Restart  PROVE Accounted(d)'
        BY <2>12 DEF Accounted, Restart, Nothing
  <2>13. CASE UNCHANGED vars  BY <2>2, <2>13 DEF Accounted, vars
  <2>14. QED
        BY <2>1, <2>3, <2>4, <2>5, <2>6, <2>7, <2>8, <2>9, <2>10,
           <2>11, <2>12, <2>13 DEF Next, Handle
<1>3. AllAccounted => ResponseTellsStore
  BY DEF Accounted, ResponseTellsStore
<1>4. QED  BY <1>1, <1>2, <1>3, TypeCorrect, PTL DEF Spec

-----------------------------------------------------------------------------
(* The threads implement NotificationHistory: every step of a thread is a  *)
(* step of the abstract specification or leaves its variables alone.       *)
(* Retained by its elements.                                               *)
LEMMA RetainedShape ==
  ASSUME NEW s \in Seq(Alert), Len(s) >= Capacity
  PROVE  /\ Retained(s) \in Seq(Alert)
         /\ Len(Retained(s)) = Capacity
         /\ \A i \in 1..Capacity : Retained(s)[i] = s[Len(s) - Capacity + i]
<1>0. Capacity \in Nat \ {0} /\ Len(s) \in Nat  BY CapacityIsPositive
<1>1. CASE Len(s) = Capacity
  <2>1. Retained(s) = s  BY <1>0, <1>1 DEF Retained
  <2>2. \A i \in 1..Capacity : Len(s) - Capacity + i = i  BY <1>0, <1>1
  <2>3. QED  BY <1>1, <2>1, <2>2
<1>2. CASE Len(s) > Capacity
  <2> DEFINE m == Len(s) - Capacity + 1
             n == Len(s)
  <2>1. Retained(s) = SubSeq(s, m, n)  BY <1>0, <1>2 DEF Retained
  <2>2. m \in Int /\ n \in Int /\ m <= n /\ n - m + 1 = Capacity /\ m >= 1
        BY <1>0, <1>2
  <2>3. \A i \in m..n : s[i] \in Alert  BY <1>0, <2>2
  <2>4. \A i \in 1..Capacity : m + i - 1 = Len(s) - Capacity + i
        BY <1>0
  <2> HIDE DEF m, n
  <2>5. /\ SubSeq(s, m, n) \in Seq(Alert)
        /\ Len(SubSeq(s, m, n)) = IF m <= n THEN n - m + 1 ELSE 0
        /\ \A i \in 1..(n - m + 1) : SubSeq(s, m, n)[i] = s[m + i - 1]
        BY <2>2, <2>3, SubSeqProperties
  <2>6. QED  BY <2>1, <2>2, <2>4, <2>5
<1>3. QED  BY <1>0, <1>1, <1>2

(* Keeping the last Capacity entries one append at a time is the same as
   keeping them once at the end.                                           *)
LEMMA RetainedStepwise ==
  ASSUME NEW s \in Seq(Alert), Len(s) <= Capacity,
         NEW p \in Seq(Alert), p # <<>>
  PROVE  Retained(Append1(s, Head(p)) \o Tail(p)) = Retained(s \o p)
<1> DEFINE a == Append1(s, Head(p))
           t == Tail(p)
           u == a \o t
           v == s \o p
<1>0. Capacity \in Nat \ {0}  BY CapacityIsPositive
<1>1. /\ Head(p) \in Alert /\ Head(p) = p[1]
      /\ t \in Seq(Alert) /\ Len(t) = Len(p) - 1
      /\ \A i \in 1..Len(t) : t[i] = p[i + 1]
      /\ Len(p) \in Nat /\ Len(p) >= 1
      BY HeadTailProperties
<1>2. /\ v \in Seq(Alert) /\ Len(v) = Len(s) + Len(p)
      /\ \A i \in 1..(Len(s) + Len(p)) :
           v[i] = IF i <= Len(s) THEN s[i] ELSE p[i - Len(s)]
      BY ConcatProperties
<1>3. a \in Seq(Alert)  BY <1>1, Append1Shape
<1>4. /\ u \in Seq(Alert) /\ Len(u) = Len(a) + Len(t)
      /\ \A i \in 1..(Len(a) + Len(t)) :
           u[i] = IF i <= Len(a) THEN a[i] ELSE t[i - Len(a)]
      BY <1>1, <1>3, ConcatProperties
<1> HIDE DEF t, u, v
<1>5. CASE Len(s) < Capacity
  <2>1. /\ a = Append(s, Head(p)) /\ Len(a) = Len(s) + 1
        /\ \A i \in 1..Len(s) : a[i] = s[i]
        /\ a[Len(s) + 1] = Head(p)
        BY <1>1, <1>5, AppendProperties DEF Append1
  <2> HIDE DEF a
  <2>2. Len(u) = Len(v)  BY <1>1, <1>2, <1>4, <2>1
  <2>3. \A i \in 1..Len(u) : u[i] = v[i]
    <3>1. TAKE i \in 1..Len(u)
    <3>2. Len(s) \in Nat /\ i \in Int /\ Len(a) \in Nat /\ Len(t) \in Nat
          BY <1>1, <1>3
    <3>0. i \in 1..(Len(a) + Len(t)) /\ i \in 1..(Len(s) + Len(p))
          BY <1>2, <1>4, <2>2
    <3>3. CASE i <= Len(s)
      <4>1. u[i] = a[i]  BY <1>4, <2>1, <3>2, <3>3, <3>0
      <4>2. a[i] = s[i]  BY <2>1, <3>2, <3>3, <3>0
      <4>3. v[i] = s[i]  BY <1>2, <3>3, <3>0
      <4>4. QED  BY <4>1, <4>2, <4>3
    <3>4. CASE i = Len(s) + 1  BY <1>1, <1>2, <1>4, <2>1, <3>2, <3>4
    <3>5. CASE i > Len(s) + 1
      <4>1. u[i] = t[i - Len(a)]
        <5>1. ~(i <= Len(a))  BY <2>1, <3>2, <3>5
        <5>2. QED  BY <1>4, <3>0, <5>1
      <4>2. i - Len(a) \in 1..Len(t)  BY <1>1, <1>4, <2>1, <3>2, <3>5
      <4>3. t[i - Len(a)] = p[i - Len(a) + 1]  BY <1>1, <4>2
      <4>4. i - Len(a) + 1 = i - Len(s)  BY <2>1, <3>2
      <4>5. v[i] = p[i - Len(s)]  BY <1>2, <2>2, <3>2, <3>5
      <4>6. QED  BY <4>1, <4>3, <4>4, <4>5
    <3>6. QED  BY <3>2, <3>3, <3>4, <3>5
  <2>4. u = v  BY <1>2, <1>4, <2>2, <2>3, SeqEqual
  <2>5. QED  BY <2>4 DEF a, t, u, v
<1>6. CASE Len(s) = Capacity
  <2>1. s # <<>>  BY <1>0, <1>6
  <2>2. /\ Tail(s) \in Seq(Alert) /\ Len(Tail(s)) = Len(s) - 1
        /\ \A i \in 1..(Len(s) - 1) : Tail(s)[i] = s[i + 1]
        BY <2>1, HeadTailProperties
  <2>3. a = Append(Tail(s), Head(p))  BY <1>0, <1>6 DEF Append1
  <2>4. /\ Len(a) = Capacity
        /\ \A i \in 1..(Capacity - 1) : a[i] = s[i + 1]
        /\ a[Capacity] = p[1]
    <3> HIDE DEF a
    <3>1. Len(s) = Capacity /\ Len(Tail(s)) = Capacity - 1  BY <1>6, <2>2
    <3>2. /\ Len(Append(Tail(s), Head(p))) = Len(Tail(s)) + 1
          /\ \A i \in 1..Len(Tail(s)) : Append(Tail(s), Head(p))[i] = Tail(s)[i]
          /\ Append(Tail(s), Head(p))[Len(Tail(s)) + 1] = Head(p)
          BY <1>1, <2>2, AppendProperties
    <3>3. QED  BY <1>0, <1>1, <2>2, <2>3, <3>1, <3>2
  <2> HIDE DEF a
  <2>5. Len(u) = Len(v) - 1 /\ Len(v) = Capacity + Len(p)
        BY <1>0, <1>1, <1>2, <1>4, <1>6, <2>4
  <2>6. \A i \in 1..Len(u) : u[i] = v[i + 1]
    <3>1. TAKE i \in 1..Len(u)
    <3>2. i \in Int  OBVIOUS
    <3>0. i \in 1..(Len(a) + Len(t)) /\ i + 1 \in 1..(Len(s) + Len(p))
          BY <1>0, <1>1, <1>2, <1>4, <1>6, <2>4, <2>5
    <3>3. CASE i < Capacity
      <4>1. u[i] = s[i + 1]
        <5>1. u[i] = a[i]  BY <1>0, <1>4, <2>4, <3>2, <3>3, <3>0
        <5>2. i \in 1..(Capacity - 1)  BY <1>0, <3>2, <3>3, <3>0
        <5>3. QED  BY <2>4, <5>1, <5>2
      <4>2. v[i + 1] = s[i + 1]  BY <1>0, <1>1, <1>2, <1>6, <3>2, <3>3
      <4>3. QED  BY <4>1, <4>2
    <3>4. CASE i = Capacity
      <4>1. u[i] = p[1]  BY <1>0, <1>1, <1>4, <2>4, <3>2, <3>4
      <4>2. v[i + 1] = p[1]
        <5>1. Len(s) = Capacity /\ i + 1 = Len(s) + 1 /\ 1 \in 1..Len(p)
              BY <1>0, <1>1, <1>6, <2>2, <3>4
        <5>2. i + 1 \in 1..(Len(s) + Len(p)) /\ ~(i + 1 <= Len(s)) /\ (i + 1) - Len(s) = 1
              BY <1>1, <1>6, <3>2, <5>1
        <5>3. QED  BY <1>2, <5>2
      <4>3. QED  BY <4>1, <4>2
    <3>5. CASE i > Capacity
      <4>1. u[i] = t[i - Capacity] /\ i - Capacity \in 1..Len(t)
            BY <1>0, <1>1, <1>4, <2>4, <3>2, <3>5
      <4>2. t[i - Capacity] = p[i - Capacity + 1]  BY <1>1, <4>1
      <4>3. v[i + 1] = p[i + 1 - Capacity]
        <5>1. ~(i + 1 <= Len(s))  BY <1>0, <1>6, <3>2, <3>5
        <5>2. v[i + 1] = p[i + 1 - Len(s)]  BY <1>2, <3>0, <5>1
        <5>3. QED  BY <1>6, <5>2
      <4>4. i - Capacity + 1 = i + 1 - Capacity  BY <1>0, <3>2
      <4>5. QED  BY <4>1, <4>2, <4>3, <4>4
    <3>6. QED  BY <1>0, <3>2, <3>3, <3>4, <3>5
  <2>7. /\ Retained(v) \in Seq(Alert) /\ Len(Retained(v)) = Capacity
        /\ \A i \in 1..Capacity : Retained(v)[i] = v[Len(v) - Capacity + i]
    <3>1. Len(v) >= Capacity  BY <1>0, <1>1, <2>5
    <3>2. QED  BY <1>2, <3>1, RetainedShape
  <2>8. /\ Retained(u) \in Seq(Alert) /\ Len(Retained(u)) = Capacity
        /\ \A i \in 1..Capacity : Retained(u)[i] = u[Len(u) - Capacity + i]
    <3>1. Len(u) >= Capacity  BY <1>0, <1>1, <2>5
    <3>2. QED  BY <1>4, <3>1, RetainedShape
  <2>9. \A i \in 1..Capacity : Retained(u)[i] = Retained(v)[i]
    <3>1. TAKE i \in 1..Capacity
    <3>2. /\ Len(u) - Capacity + i \in 1..Len(u)
          /\ Len(u) - Capacity + i + 1 = Len(v) - Capacity + i
          BY <1>0, <1>1, <2>5
    <3>3. u[Len(u) - Capacity + i] = v[Len(v) - Capacity + i]
          BY <2>6, <3>2
    <3>4. QED  BY <2>7, <2>8, <3>3
  <2>10. Retained(u) = Retained(v)  BY <2>7, <2>8, <2>9, SeqEqual
  <2>11. QED  BY <2>10 DEF a, t, u, v
<1>7. Len(s) \in Nat  OBVIOUS
<1>8. QED  BY <1>0, <1>5, <1>6, <1>7

LEMMA RetainedWhole ==
  \A s \in Seq(Alert) : Len(s) <= Capacity => Retained(s) = s
BY DEF Retained

-----------------------------------------------------------------------------
(* The batch a thread is about to store is one of the notifications of
   Batches: nothing parse_notification would refuse, nothing made up.      *)
StoresBatches ==
  \A c \in Clients : /\ pc[c] = "parse" => body[c] \in Bodies
                     /\ pc[c] = "add_all" => pending[c] \in Batches

LEMMA StoresOnlyBatches == Spec => []StoresBatches
<1>1. Init => StoresBatches
  BY DEF Init, StoresBatches
<1>2. TypeOK /\ StoresBatches /\ [Next]_vars => StoresBatches'
  <2>1. SUFFICES ASSUME TypeOK, StoresBatches, [Next]_vars, NEW d \in Clients
                 PROVE  /\ pc'[d] = "parse" => body'[d] \in Bodies
                        /\ pc'[d] = "add_all" => pending'[d] \in Batches
        BY DEF StoresBatches
  <2> DEFINE Kept == /\ pc'[d] = "parse" => body'[d] \in Bodies
                     /\ pc'[d] = "add_all" => pending'[d] \in Batches
  <2>2. /\ pc[d] = "parse" => body[d] \in Bodies
        /\ pc[d] = "add_all" => pending[d] \in Batches
        /\ pc \in [Clients -> { "idle", "parse", "add_all", "append",
                                "accepted", "recent", "firing" }]
        /\ body \in [Clients -> Seq(Alert \cup {Malformed})]
        /\ pending \in [Clients -> Seq(Alert)]
        BY <2>1 DEF StoresBatches, TypeOK
  <2>3. ASSUME NEW c \in Clients, NEW b \in Bodies, ReadNotification(c, b)
        PROVE  Kept
        BY <2>2, <2>3 DEF ReadNotification
  <2>4. ASSUME NEW c \in Clients, ParseNotification(c)  PROVE Kept
        BY <2>2, <2>4, BodiesType DEF ParseNotification
  <2>5. ASSUME NEW c \in Clients, AcquireForAdd(c)  PROVE Kept
        BY <2>2, <2>5 DEF AcquireForAdd
  <2>6. ASSUME NEW c \in Clients, AppendOne(c)  PROVE Kept
    <3>1. /\ pc[c] = "append" /\ pc' = pc /\ body' = body
          /\ pending' = [pending EXCEPT ![c] = Tail(pending[c])]
          BY <2>6 DEF AppendOne
    <3>2. QED  BY <2>2, <3>1
  <2>7. ASSUME NEW c \in Clients, ReleaseAfterAdd(c)  PROVE Kept
        BY <2>2, <2>7 DEF ReleaseAfterAdd, AllAdded, Release
  <2>8. ASSUME NEW c \in Clients, RespondAccepted(c)  PROVE Kept
        BY <2>2, <2>8 DEF RespondAccepted
  <2>9. ASSUME NEW c \in Clients, ReadQuery(c)  PROVE Kept
        BY <2>2, <2>9 DEF ReadQuery
  <2>10. ASSUME NEW c \in Clients, Recent(c)  PROVE Kept
        BY <2>2, <2>10 DEF Recent, MayCopy
  <2>11. ASSUME NEW c \in Clients, RespondFiring(c)  PROVE Kept
        BY <2>2, <2>11 DEF RespondFiring
  <2>12. ASSUME Restart  PROVE Kept
        BY <2>12 DEF Restart
  <2>13. CASE UNCHANGED vars  BY <2>2, <2>13 DEF vars
  <2>14. QED
        BY <2>1, <2>3, <2>4, <2>5, <2>6, <2>7, <2>8, <2>9, <2>10, <2>11,
           <2>12, <2>13 DEF Next, Handle
<1>3. QED  BY <1>1, <1>2, TypeCorrect, PTL DEF Spec

-----------------------------------------------------------------------------
(* What AlertSink's history and listing are, named for the proof.          *)
AbsHistory == IF lock = NoOne THEN items ELSE Retained(items \o pending[lock])
AbsListing == [c \in Clients |-> Firing(snapshot[c])]

(* The steps that touch neither the deque, nor the lock, nor what the lock's
   holder has left to append, nor a snapshot, are invisible above.         *)
LEMMA InvisibleStep ==
  ASSUME UNCHANGED << items, lock, snapshot >>,
         lock # NoOne => pending'[lock] = pending[lock]
  PROVE  AbsHistory' = AbsHistory /\ AbsListing' = AbsListing
BY DEF AbsHistory, AbsListing

(* Each step of the threads, seen through the mapping: a notification is
   accepted whole when its thread gets the lock, an answer is decided when
   the deque is copied, a restart forgets, and the rest stutters.          *)
LEMMA StepRefines ==
  ASSUME TypeOK, LockGuardsAppends, StoresBatches, [Next]_vars
  PROVE  \/ \E batch \in Batches : /\ AbsHistory' = Retained(AbsHistory \o batch)
                                   /\ AbsListing' = AbsListing
         \/ \E c \in Clients :
              /\ AbsListing' = [AbsListing EXCEPT ![c] = Firing(AbsHistory)]
              /\ AbsHistory' = AbsHistory
         \/ AbsHistory' = <<>> /\ AbsListing' = AbsListing
         \/ AbsHistory' = AbsHistory /\ AbsListing' = AbsListing
<1> DEFINE Stutter == AbsHistory' = AbsHistory /\ AbsListing' = AbsListing
<1>1. /\ items \in Seq(Alert) /\ Len(items) <= Capacity
      /\ pending \in [Clients -> Seq(Alert)]
      /\ snapshot \in [Clients -> Seq(Alert)]
      /\ lock \in Clients \cup {NoOne}
      /\ \A c \in Clients : pc[c] = "append" <=> lock = c
      BY DEF TypeOK, LockGuardsAppends
<1>2. ASSUME NEW c \in Clients, NEW b \in Bodies, ReadNotification(c, b)
      PROVE  Stutter
      BY <1>2, InvisibleStep DEF ReadNotification
<1>3. ASSUME NEW c \in Clients, ReadQuery(c)  PROVE Stutter
      BY <1>3, InvisibleStep DEF ReadQuery
<1>4. ASSUME NEW c \in Clients, ParseNotification(c)  PROVE Stutter
  <2>1. UNCHANGED << items, lock, snapshot >> /\ pc[c] = "parse"
        BY <1>4 DEF ParseNotification
  <2>2. \A d \in Clients \ {c} : pending'[d] = pending[d]
        BY <1>1, <1>4 DEF ParseNotification
  <2>3. lock # c  BY <1>1, <2>1
  <2>4. QED  BY <1>1, <2>1, <2>2, <2>3, InvisibleStep
<1>5. ASSUME NEW c \in Clients, AcquireForAdd(c)
      PROVE  \E batch \in Batches :
               /\ AbsHistory' = Retained(AbsHistory \o batch)
               /\ AbsListing' = AbsListing
  <2>1. pending[c] \in Batches  BY <1>5 DEF AcquireForAdd, StoresBatches
  <2>2. /\ lock = NoOne /\ lock' = c
        /\ UNCHANGED << items, pending, snapshot >>
        BY <1>5 DEF AcquireForAdd
  <2>3. AbsHistory' = Retained(AbsHistory \o pending[c])
        BY <2>2, NoOneIsNoClient DEF AbsHistory
  <2>4. AbsListing' = AbsListing  BY <2>2 DEF AbsListing
  <2>5. QED  BY <2>1, <2>3, <2>4
<1>6. ASSUME NEW c \in Clients, AppendOne(c)  PROVE Stutter
  <2>1. /\ pc[c] = "append" /\ pending[c] # <<>>
        /\ items' = Append1(items, Head(pending[c]))
        /\ pending' = [pending EXCEPT ![c] = Tail(pending[c])]
        /\ UNCHANGED << lock, snapshot >>
        BY <1>6 DEF AppendOne, Nothing
  <2>2. lock = c /\ c # NoOne  BY <1>1, <2>1, NoOneIsNoClient
  <2>3. pending[c] \in Seq(Alert) /\ pending'[c] = Tail(pending[c])
        BY <1>1, <2>1
  <2>4. Retained(items' \o pending'[c]) = Retained(items \o pending[c])
        BY <1>1, <2>1, <2>3, RetainedStepwise
  <2>5. AbsHistory' = AbsHistory  BY <2>1, <2>2, <2>4 DEF AbsHistory
  <2>6. AbsListing' = AbsListing  BY <2>1 DEF AbsListing
  <2>7. QED  BY <2>5, <2>6
<1>7. ASSUME NEW c \in Clients, ReleaseAfterAdd(c)  PROVE Stutter
  <2>1. /\ pc[c] = "append" /\ pending[c] = <<>> /\ lock' = NoOne
        /\ UNCHANGED << items, pending, snapshot >>
        BY <1>7 DEF ReleaseAfterAdd, Nothing, AllAdded, Release
  <2>2. lock = c /\ c # NoOne  BY <1>1, <2>1, NoOneIsNoClient
  <2>3. items \o <<>> = items  BY <1>1, ConcatEmptySeq
  <2>4. Retained(items \o pending[c]) = items
        BY <1>1, <2>1, <2>3, RetainedWhole
  <2>5. AbsHistory' = AbsHistory  BY <2>1, <2>2, <2>4 DEF AbsHistory
  <2>6. AbsListing' = AbsListing  BY <2>1 DEF AbsListing
  <2>7. QED  BY <2>5, <2>6
<1>8. ASSUME NEW c \in Clients, RespondAccepted(c)  PROVE Stutter
      BY <1>8, InvisibleStep DEF RespondAccepted
<1>9. ASSUME NEW c \in Clients, Recent(c)
      PROVE  /\ AbsListing' = [AbsListing EXCEPT ![c] = Firing(AbsHistory)]
             /\ AbsHistory' = AbsHistory
  <2>1. /\ lock = NoOne
        /\ snapshot' = [snapshot EXCEPT ![c] = items]
        /\ UNCHANGED << items, lock, pending >>
        BY <1>9 DEF Recent, MayCopy
  <2>2. AbsHistory = items /\ AbsHistory' = items  BY <2>1 DEF AbsHistory
  <2>3. AbsListing' = [AbsListing EXCEPT ![c] = Firing(items)]
        BY <1>1, <2>1 DEF AbsListing
  <2>4. QED  BY <2>2, <2>3
<1>10. ASSUME NEW c \in Clients, RespondFiring(c)  PROVE Stutter
      BY <1>10, InvisibleStep DEF RespondFiring
<1>11. ASSUME Restart  PROVE AbsHistory' = <<>> /\ AbsListing' = AbsListing
      BY <1>11 DEF Restart, AbsHistory, AbsListing
<1>12. CASE UNCHANGED vars
      BY <1>12, InvisibleStep DEF vars
<1>13. QED
      BY <1>2, <1>3, <1>4, <1>5, <1>6, <1>7, <1>8, <1>9, <1>10, <1>11, <1>12
      DEF Next, Handle

(* The receiver keeps NotificationHistory's promise: whatever its threads do
   and however their steps interleave, notifications enter the history one
   at a time and whole, and /alerts/firing answers from a history that was. *)
THEOREM Implements == Spec => ImplementsHistory
<1>1. Init => Promise!Init
  BY DEF Init, Promise!Init, Firing, Nothing
<1>2. TypeOK /\ LockGuardsAppends /\ StoresBatches /\ [Next]_vars
        => [Promise!Next]_<<AbsHistory, AbsListing>>
  BY StepRefines
  DEF Promise!Next, Promise!Accept, Promise!Answer, Promise!Forget,
      AbsHistory, AbsListing, Retained, Promise!Retained, Firing,
      Promise!Firing, IsNewest, Promise!IsNewest, Key, Promise!Key
<1>3. QED
  BY <1>1, <1>2, TypeCorrect, MutualExclusion, StoresOnlyBatches, PTL
  DEF Spec, ImplementsHistory, Promise!Spec, AbsHistory, AbsListing
=============================================================================
