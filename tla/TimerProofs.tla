---------------------------- MODULE TimerProofs ----------------------------
(***************************************************************************)
(* Proofs about the timers of Transaction, for an application that calls   *)
(* lwm2m_step when *timeoutP says (Punctual).                              *)
(***************************************************************************)
EXTENDS TransactionProofs

USE PeersAssumption, SizeAssumption, MidAssumption, TimerAssumption

\* An ACK is followed by a wait that, with the second that a 4.01 adds, is not
\* shorter than the backoff it replaces.  It is not, with COAP_MAX_RETRANSMIT 4.
Patience ==
    \A c \in Nat : 2 <= c /\ c < MaxRetransmit =>
        /\ Timeout(c - 2) <= SeparateTimeout + ResponseTimeout
        /\ Timeout(c - 2) <= ResponseTimeout * c + ResponseTimeout

\* The timer of x, last sent at tx, leaves the backoff its time.
Backed(x, tx) ==
    /\ ~x.ack_received => tx + Timeout(x.retrans_counter - 2) <= x.retrans_time
    /\ x.ack_received /\ x.retrans_counter < MaxRetransmit =>
         tx + Timeout(x.retrans_counter - 2) <= x.retrans_time + ResponseTimeout

\* The timers of the list L, when lt is when each transaction was last sent.
ListTimers(L, lt) ==
    /\ lt \in [Tid -> Nat]
    /\ \A t \in Tid : lt[t] <= now
    /\ \A x \in L : now <= x.retrans_time
    /\ Patience => \A x \in L : Backed(x, lt[x.id])

\* No timer of the list is in the past, and the walk is made in no time.
TimerInv == ListTimers(list, lastTx) /\ (pc = "step" => stepTime = now)

\* The transaction layer's own invariant, as TransactionProofs splits it.
Base == CurrentList /\ Control

LEMMA BaseFacts ==
    ASSUME Base
    PROVE  /\ now \in Nat /\ created \in 0 .. MaxTrans /\ taken \in 0 .. MaxMids
           /\ firstMID \in Mids /\ nextMID = MidAt(firstMID, taken)
           /\ list \in SUBSET Transactions /\ UniqueMids(list)
           /\ \A x \in list : /\ x.id \in Tid /\ x.id <= created /\ x.retrans_time \in Int
                              /\ x.retrans_counter \in Nat /\ x.retrans_counter >= 2
                              /\ x.mID \in Mids /\ IssuedAt(x.mID, firstMID, taken)
                              /\ sent[x.id] = x.retrans_counter - 1
<1>1. /\ now \in Nat /\ created \in 0 .. MaxTrans /\ taken \in 0 .. MaxMids
      /\ firstMID \in Mids /\ nextMID = MidAt(firstMID, taken)
      /\ list \in SUBSET Transactions /\ UniqueMids(list)
  BY DEF Base, CurrentList, Control, ListInv
<1>2. \A x \in list : /\ x.id <= created /\ x.retrans_counter >= 2
                      /\ IssuedAt(x.mID, firstMID, taken)
                      /\ sent[x.id] = x.retrans_counter - 1
  BY DEF Base, CurrentList, ListInv
<1> QED
  BY <1>1, <1>2 DEF Transactions

\* What transaction_handleResponse does to the transactions it leaves listed.
LEMMA ResponseChanges ==
    ASSUME NEW L \in SUBSET Transactions, UniqueMids(L), NEW m \in Messages, now \in Nat,
           transaction_handleResponse(L, m), NEW z \in list'
    PROVE  \/ z \in L
           \/ \E x \in L :
                /\ z.id = x.id /\ z.retrans_counter = x.retrans_counter
                /\ z.token = x.token /\ z.left = x.left
                /\ \/ /\ ~z.ack_received /\ MaxRetransmit > x.retrans_counter
                      /\ z.retrans_time = x.retrans_time + ResponseTimeout
                   \/ /\ z.ack_received
                      /\ \/ z.retrans_time = now + SeparateTimeout
                         \/ z.retrans_time = now + ResponseTimeout * x.retrans_counter
<1> DEFINE x == FirstOf(Hits(L, m))
<1>1. Hits(L, m) # {} => x \in L /\ x \in Transactions
  <2>1. UniqueMids(Hits(L, m)) /\ Hits(L, m) \in SUBSET Transactions
    BY DEF UniqueMids, Hits
  <2>2. Hits(L, m) # {} => x \in Hits(L, m)
    BY <2>1, FirstOfLeads
  <2> QED
    BY <2>2 DEF Hits
<1>2. CASE ResponseIgnored(L, m)
  BY <1>2 DEF ResponseIgnored
<1>3. CASE ResponseDone(L, m)
  <2>1. x \in L /\ transaction_remove(L, x)
    BY <1>1, <1>3 DEF ResponseDone
  <2>2. list' = L \ {x}
    BY <2>1, ListRmExact DEF transaction_remove
  <2> QED
    BY <2>2
<1>4. CASE ResponseDenied(L, m)
  <2> DEFINE later == x.retrans_time + ResponseTimeout
             y == [x EXCEPT !.ack_received = FALSE, !.retrans_time = later]
  <2>1. x \in L /\ x \in Transactions /\ Denied(x, m)
    BY <1>1, <1>4 DEF ResponseDenied
  <2>2. /\ y.id = x.id /\ y.retrans_counter = x.retrans_counter
        /\ y.token = x.token /\ y.left = x.left
        /\ ~y.ack_received /\ y.retrans_time = later
    <3> HIDE DEF x, later
    <3> QED BY <2>1 DEF Transactions
  <2>3. list' = (L \ {x}) \cup {y} /\ MaxRetransmit > x.retrans_counter
    BY <1>4 DEF ResponseDenied, Denied
  <2> HIDE DEF x, y
  <2> QED
    BY <2>1, <2>2, <2>3
<1>5. CASE ResponseAcked(L, m)
  <2> DEFINE wait == IF m.code = "empty" THEN SeparateTimeout
                     ELSE ResponseTimeout * x.retrans_counter
             y == [x EXCEPT !.ack_received = TRUE, !.retrans_time = now + wait]
  <2>1. x \in L /\ x \in Transactions
    BY <1>1, <1>5 DEF ResponseAcked
  <2>2. /\ y.id = x.id /\ y.retrans_counter = x.retrans_counter
        /\ y.token = x.token /\ y.left = x.left
        /\ y.ack_received /\ y.retrans_time = now + wait
    <3> HIDE DEF x, wait
    <3> QED BY <2>1 DEF Transactions
  <2>3. list' = (L \ {x}) \cup {y}
    BY <1>5 DEF ResponseAcked
  <2>4. wait = SeparateTimeout \/ wait = ResponseTimeout * x.retrans_counter
    OBVIOUS
  <2> HIDE DEF x, y, wait
  <2> QED
    BY <2>1, <2>2, <2>3, <2>4
<1> QED
  BY <1>2, <1>3, <1>4, <1>5 DEF transaction_handleResponse

\* A response prolongs timers, and never by less than the backoff asks for.
LEMMA ResponseTimers ==
    ASSUME NEW L \in SUBSET Transactions, UniqueMids(L), NEW m \in Messages, now \in Nat,
           NEW lt, ListTimers(L, lt), \A x \in L : x.retrans_counter >= 2,
           transaction_handleResponse(L, m)
    PROVE  ListTimers(list', lt)
<1> SUFFICES ASSUME NEW z \in list'
             PROVE  now <= z.retrans_time /\ (Patience => Backed(z, lt[z.id]))
  BY DEF ListTimers
<1>1. CASE z \in L
  BY <1>1 DEF ListTimers
<1>2. ASSUME NEW x \in L, z.id = x.id, z.retrans_counter = x.retrans_counter,
             ~z.ack_received, MaxRetransmit > x.retrans_counter,
             z.retrans_time = x.retrans_time + ResponseTimeout
      PROVE  now <= z.retrans_time /\ (Patience => Backed(z, lt[z.id]))
  <2>1. /\ x.retrans_time \in Int /\ now <= x.retrans_time
        /\ lt[x.id] \in Nat
    BY DEF ListTimers, Transactions
  <2>2. x.retrans_counter - 2 \in Nat
    BY DEF Transactions
  <2>3. Timeout(x.retrans_counter - 2) \in Nat
    BY <2>2, TimeoutPositive
  <2>4. Patience => Backed(x, lt[x.id])
    BY DEF ListTimers
  <2>5. Patience => lt[x.id] + Timeout(x.retrans_counter - 2) <= x.retrans_time + ResponseTimeout
    BY <1>2, <2>1, <2>3, <2>4 DEF Backed
  <2> QED
    BY <1>2, <2>1, <2>5 DEF Backed
<1>3. ASSUME NEW x \in L, z.id = x.id, z.retrans_counter = x.retrans_counter,
             z.ack_received,
             \/ z.retrans_time = now + SeparateTimeout
             \/ z.retrans_time = now + ResponseTimeout * x.retrans_counter
      PROVE  now <= z.retrans_time /\ (Patience => Backed(z, lt[z.id]))
  <2> DEFINE c == x.retrans_counter
  <2>1. c \in Nat /\ c >= 2 /\ c - 2 \in Nat /\ lt[x.id] \in Nat /\ lt[x.id] <= now
    BY DEF ListTimers, Transactions
  <2>2. Timeout(c - 2) \in Nat
    BY <2>1, TimeoutPositive
  <2> HIDE DEF c
  <2>3. ResponseTimeout * c \in Nat
    BY <2>1
  <2>4. now <= z.retrans_time
    BY <1>3, <2>3 DEF c
  <2>5. Patience /\ c < MaxRetransmit =>
           /\ Timeout(c - 2) <= SeparateTimeout + ResponseTimeout
           /\ Timeout(c - 2) <= ResponseTimeout * c + ResponseTimeout
    BY <2>1 DEF Patience
  <2>6. Patience /\ c < MaxRetransmit =>
           lt[x.id] + Timeout(c - 2) <= z.retrans_time + ResponseTimeout
    BY <1>3, <2>1, <2>2, <2>3, <2>5 DEF c
  <2> QED
    BY <1>3, <2>4, <2>6 DEF Backed, c
<1> QED
  BY <1>1, <1>2, <1>3, ResponseChanges

\* A transaction that is sent for the first time, as the list gets it.
LEMMA NewTimer ==
    ASSUME Base, ListTimers(list, lastTx), created < MaxTrans,
           NEW p \in Peers, NEW tok \in Mids \cup {NoToken}, NEW k \in Kinds, NEW n \in Nat,
           NEW d \in Tid, NEW c, c = transaction_new(p, tok, k, n, d), NEW lt,
           lt = [lastTx EXCEPT ![created + 1] = now]
    PROVE  /\ ListTimers(list \cup {Transmitted(c)}, lt)
           /\ Transmitted(c) \in Transactions /\ Transmitted(c).retrans_counter = 2
           /\ Transmitted(c).id = created + 1 /\ Transmitted(c).mID = MidAt(firstMID, taken)
           /\ Transmitted(c).retrans_time = now + ResponseTimeout
           /\ Transmitted(c).peer = p /\ Transmitted(c).token = tok /\ Transmitted(c).left = n
<1> DEFINE z == Transmitted(c)
<1>1. /\ now \in Nat /\ created \in Nat /\ created + 1 \in Tid
      /\ \A x \in list : x.id \in Tid /\ x.id # created + 1
  <2>1. /\ now \in Nat /\ created \in 0 .. MaxTrans
        /\ \A x \in list : x.id \in Tid /\ x.id <= created
    BY BaseFacts
  <2> QED
    BY <2>1 DEF Tid
<1>2. /\ c \in Transactions /\ z \in Transactions /\ z.id = created + 1
      /\ z.mID = MidAt(firstMID, taken) /\ z.retrans_counter = 2
  BY NewTransaction DEF Base
<1>3. /\ c.retrans_counter = 0 /\ ~c.ack_received
      /\ c.peer = p /\ c.token = tok /\ c.left = n
  BY DEF transaction_new
<1>4. /\ z.retrans_time = now + ResponseTimeout /\ ~z.ack_received
      /\ z.peer = p /\ z.token = tok /\ z.left = n
  BY <1>1, <1>2, <1>3, TransmittedFields
<1>5. Timeout(0) = ResponseTimeout
  <2>1. Shifted[0] = 1
    BY ShiftedDoubles
  <2> QED
    BY <2>1 DEF Timeout
<1>6. /\ lt \in [Tid -> Nat] /\ lt[created + 1] = now
      /\ \A t \in Tid : t # created + 1 => lt[t] = lastTx[t]
  BY <1>1 DEF ListTimers
<1> HIDE DEF z
<1>7. Backed(z, lt[z.id])
  BY <1>1, <1>2, <1>4, <1>5, <1>6 DEF Backed
<1>8. \A t \in Tid : lt[t] <= now
  BY <1>1, <1>6 DEF ListTimers
<1>9. now <= z.retrans_time
  BY <1>1, <1>4
<1>10. ListTimers(list \cup {z}, lt)
  BY <1>1, <1>6, <1>7, <1>8, <1>9 DEF ListTimers
<1> QED
  BY <1>2, <1>4, <1>10 DEF z

\* A list that has lost some of its transactions.
LEMMA FewerTimers ==
    ASSUME NEW L, NEW lt, ListTimers(L, lt), NEW K \in SUBSET L
    PROVE  ListTimers(K, lt)
BY DEF ListTimers

\* The timers when the clock has not moved.
LEMMA SameClock ==
    ASSUME now' = now, ListTimers(list', lastTx')
    PROVE  ListTimers(list, lastTx)'
BY DEF ListTimers, Patience, Backed

\* A due transaction is sent again: its timer is set to the next, longer wait.
LEMMA ResendTimers ==
    ASSUME Base, TimerInv, NEW x \in list, pc = "step", Due(x), CanSend(x), NEW lt,
           lt = [lastTx EXCEPT ![x.id] = now]
    PROVE  /\ ListTimers((list \ {x}) \cup {Transmitted(x)}, lt)
           /\ x.retrans_time = now
           /\ Transmitted(x).retrans_time > now
           /\ Patience => now - lastTx[x.id] >= Timeout(sent[x.id] - 1)
<1> DEFINE z == Transmitted(x)
           c == x.retrans_counter
<1>1. /\ now \in Nat /\ x \in Transactions /\ x.id \in Tid /\ x.retrans_time \in Int
      /\ c \in Nat /\ c >= 2 /\ sent[x.id] = c - 1
      /\ \A y \in list : y.id \in Tid /\ (y.id = x.id => y = x)
  <2>1. \A y \in list : y.id = x.id => y = x
    BY DEF Base, CurrentList, ListInv
  <2> QED
    BY <2>1, BaseFacts
<1>2. /\ now <= x.retrans_time /\ lastTx \in [Tid -> Nat] /\ lastTx[x.id] \in Nat
      /\ Patience => Backed(x, lastTx[x.id])
  BY <1>1 DEF TimerInv, ListTimers
<1>3. x.retrans_time = now
  BY <1>1, <1>2 DEF Due, TimerInv
<1>4. Timeout(c - 2) \in Nat /\ Timeout(c - 1) \in Nat /\ Timeout(c - 1) >= 1
  <2>1. c - 2 \in Nat /\ c - 1 \in Nat
    BY <1>1
  <2> HIDE DEF c
  <2> QED
    BY <2>1, TimeoutPositive
<1>5. /\ z.id = x.id /\ z.retrans_counter = c + 1 /\ z.retrans_time = x.retrans_time + Timeout(c - 1)
      /\ z.ack_received = x.ack_received
  BY <1>1, TransmittedFields
<1>6. ~x.ack_received
  BY DEF CanSend
<1>7. /\ lt \in [Tid -> Nat] /\ lt[x.id] = now
      /\ \A t \in Tid : t # x.id => lt[t] = lastTx[t]
  BY <1>1, <1>2
<1> HIDE DEF z, c
<1>8. Backed(z, lt[z.id]) /\ now < z.retrans_time
  <2>1. z.retrans_counter - 2 = c - 1
    BY <1>1, <1>5
  <2>2. z.retrans_time = now + Timeout(c - 1) /\ now < z.retrans_time
    BY <1>1, <1>3, <1>4, <1>5
  <2>3. now + Timeout(c - 1) <= z.retrans_time
    BY <1>1, <1>4, <2>2
  <2> QED
    BY <1>5, <1>6, <1>7, <2>1, <2>2, <2>3 DEF Backed
<1>9. ListTimers((list \ {x}) \cup {z}, lt)
  <2>1. \A t \in Tid : lt[t] <= now
    BY <1>1, <1>7 DEF TimerInv, ListTimers
  <2>2. \A y \in list \ {x} : now <= y.retrans_time /\ (Patience => Backed(y, lt[y.id]))
    BY <1>1, <1>7 DEF TimerInv, ListTimers
  <2>3. now <= z.retrans_time
    BY <1>1, <1>3, <1>4, <1>5
  <2> QED
    BY <1>7, <1>8, <2>1, <2>2, <2>3 DEF ListTimers
<1>10. Patience => now - lastTx[x.id] >= Timeout(sent[x.id] - 1)
  <2>1. sent[x.id] - 1 = c - 2
    BY <1>1
  <2>2. Patience => lastTx[x.id] + Timeout(c - 2) <= now
    BY <1>2, <1>3, <1>6 DEF Backed, c
  <2>3. Patience => now - lastTx[x.id] >= Timeout(c - 2)
    BY <1>1, <1>2, <1>4, <2>2
  <2> QED
    BY <2>1, <2>3
<1> QED
  BY <1>3, <1>8, <1>9, <1>10 DEF z

\* A packet prolongs timers; the next block it may start gets a new one.
LEMMA PacketTimers ==
    ASSUME Base, TimerInv, NEW m \in Messages, OnePacket(m)
    PROVE  ListTimers(list', lastTx') /\ now' = now
<1>0. now \in Nat /\ list \in SUBSET Transactions /\ UniqueMids(list)
  BY BaseFacts
<1>a. \A x \in list : x.retrans_counter >= 2
  BY BaseFacts
<1>b. ListTimers(list, lastTx)
  BY DEF TimerInv
<1>1. CASE HandlePacket(m) \/ HandlePacketNextBlockFails(m)
  <2>1. /\ transaction_handleResponse(list, m) /\ UNCHANGED <<now, lastTx>>
    BY <1>1 DEF HandlePacket, HandlePacketNextBlockFails, Received
  <2>2. ListTimers(list', lastTx)
    BY <1>0, <1>a, <1>b, <2>1, ResponseTimers
  <2> QED
    BY <2>1, <2>2
<1>2. CASE HandlePacketBadBlock2(m) \/ HandlePacketNull(m) \/ HandlePacketDivides(m)
  BY <1>2, <1>b DEF HandlePacketBadBlock2, HandlePacketNull, HandlePacketDivides, Received, history
<1>3. CASE HandlePacketNextBlock(m)
  <2>1. created < MaxTrans /\ TakeMID /\ created' = created + 1 /\ now' = now
    BY <1>3 DEF HandlePacketNextBlock, Received
  <2>0. PICK x \in Addressed(m) : \E next \in NextBlocks(x, m) :
          LET c == transaction_new(x.peer, x.token, next.kind, next.left, x.userData)
          IN  Sends(c.id) /\ transaction_handleResponse(list \cup {Transmitted(c)}, m)
    BY <1>3 DEF HandlePacketNextBlock
  <2>3. PICK next \in NextBlocks(x, m) :
          LET c == transaction_new(x.peer, x.token, next.kind, next.left, x.userData)
          IN  Sends(c.id) /\ transaction_handleResponse(list \cup {Transmitted(c)}, m)
    BY <2>0
  <2>4. x \in list /\ x \in Transactions
    BY <1>0 DEF Addressed
  <2>5. next.kind \in Kinds /\ next.left \in Nat
    BY <2>4, NextBlockFields
  <2>6. PICK p \in Peers, tok \in Mids \cup {NoToken}, k \in Kinds, n \in Nat, d \in Tid :
            /\ p = x.peer /\ tok = x.token /\ k = next.kind
            /\ n = next.left /\ d = x.userData
    BY <2>4, <2>5 DEF Transactions
  <2> DEFINE c == transaction_new(p, tok, k, n, d)
             L == list \cup {Transmitted(c)}
             lt == [lastTx EXCEPT ![created + 1] = now]
  <2>7. c.id = created + 1
    BY DEF transaction_new
  <2>8. lastTx' = lt /\ transaction_handleResponse(L, m)
    BY <2>3, <2>6, <2>7 DEF Sends
  <2>9. /\ ListTimers(L, lt) /\ Transmitted(c) \in Transactions
        /\ Transmitted(c).retrans_counter = 2 /\ Transmitted(c).mID = MidAt(firstMID, taken)
    <3>1. c = transaction_new(p, tok, k, n, d) /\ lt = [lastTx EXCEPT ![created + 1] = now]
      OBVIOUS
    <3>2. created < MaxTrans
      BY <2>1
    <3>3. p \in Peers /\ tok \in Mids \cup {NoToken} /\ k \in Kinds /\ n \in Nat /\ d \in Tid
      OBVIOUS
    <3> HIDE DEF c, lt
    <3>4. ListTimers(list \cup {Transmitted(c)}, lt)
      BY <1>b, <3>1, <3>2, <3>3, NewTimer
    <3>5. /\ Transmitted(c) \in Transactions
          /\ Transmitted(c).retrans_counter = 2 /\ Transmitted(c).mID = MidAt(firstMID, taken)
      BY <3>1, <3>2, <3>3, NewTransaction DEF Base
    <3> QED BY <3>4, <3>5
  <2>10. L \in SUBSET Transactions /\ UniqueMids(L) /\ \A y \in L : y.retrans_counter >= 2
    <3>1. \A y \in list : y.mID # MidAt(firstMID, taken)
      BY <2>1, BaseFacts, TakeMIDKeeps, FreshMid DEF Base
    <3> HIDE DEF c
    <3> QED BY <1>0, <1>a, <2>9, <3>1 DEF UniqueMids
  <2> HIDE DEF L, lt
  <2>11. ListTimers(list', lt)
    BY <1>0, <2>8, <2>9, <2>10, ResponseTimers
  <2> QED
    BY <2>1, <2>8, <2>11
<1> QED
  BY <1>1, <1>2, <1>3 DEF OnePacket

\* Requests of the application: a transaction that stays listed gets its timer
\* now, the others go at once.
LEMMA RequestTimers ==
    ASSUME Base, TimerInv,
           NEW p \in Peers, NEW tok \in Tokens, NEW n \in 0 .. MaxBlocks - 1,
           Request(p, tok, n) \/ RequestFails(p, tok, n) \/ RequestWithoutClock(p, tok, n)
    PROVE  /\ ListTimers(list', lastTx')
           /\ list' = list \/ (list' = list \cup {Transmitted(NewRequest(p, tok, n))}
                               /\ Request(p, tok, n))
<1> DEFINE d == created + 1
           k == IF n > 0 THEN "block1" ELSE "plain"
           c == NewRequest(p, tok, n)
           lt == [lastTx EXCEPT ![created + 1] = now]
<1>1. created < MaxTrans /\ TakeMID
  BY DEF Request, RequestFails, RequestWithoutClock
<1>2. taken < MaxMids
  BY <1>1, TakeMIDKeeps DEF Base
<1>3. tok \in Mids \cup {NoToken} /\ n \in Nat /\ d \in Tid /\ k \in Kinds
  <2>1. nextMID \in Mids
    BY BaseFacts DEF MidAt, Mids
  <2>2. tok \in Mids \cup {NoToken}
    BY <2>1 DEF Tokens
  <2>3. n \in Nat /\ d \in Tid
    BY <1>1, BaseFacts DEF Tid
  <2> QED
    BY <2>2, <2>3 DEF Kinds
<1>4. c = transaction_new(p, tok, k, n, d)
  BY DEF NewRequest
<1>5. c.id = created + 1
  BY <1>4 DEF transaction_new
<1>6. c \in Transactions /\ c.mID = MidAt(firstMID, taken)
  <2> HIDE DEF k, d, c
  <2> QED BY <1>1, <1>3, <1>4, NewTransaction DEF Base
<1>7. ListTimers(list \cup {Transmitted(c)}, lt)
  <2>1. ListTimers(list, lastTx)
    BY DEF TimerInv
  <2> HIDE DEF k, d, c
  <2> QED BY <1>1, <1>3, <1>4, <2>1, NewTimer
<1>8. ListTimers(list, lastTx) /\ ListTimers(list, lt)
  BY <1>7, FewerTimers DEF TimerInv
<1>9. ListRm(list \cup {c}, c.mID) = list
  BY <1>2, <1>6, UnlistNew DEF Base
<1>10. CASE Request(p, tok, n)
  <2>1. list' = list \cup {Transmitted(c)} /\ lastTx' = lt
    BY <1>5, <1>10 DEF Request, Sends
  <2> QED
    BY <1>7, <1>10, <2>1
<1>11. CASE RequestFails(p, tok, n)
  <2>1. list' = list /\ lastTx' = lastTx
    BY <1>9, <1>11 DEF RequestFails, transaction_remove
  <2> QED
    BY <1>8, <2>1
<1>12. CASE RequestWithoutClock(p, tok, n)
  <2>1. list' = list /\ lastTx' = lt
    BY <1>5, <1>9, <1>12 DEF RequestWithoutClock, transaction_remove, Sends
  <2> QED
    BY <1>8, <2>1
<1> QED
  BY <1>10, <1>11, <1>12

\* The walk of a punctual application meets a timer when it is due, not later.
LEMMA StepTimers ==
    ASSUME Base, TimerInv, Step
    PROVE  TimerInv'
<1>0. list \in SUBSET Transactions /\ UniqueMids(list) /\ ListTimers(list, lastTx)
  BY BaseFacts DEF TimerInv
<1>1. now' = now
  BY DEF Step, StepBegin, StepWaits, StepSends, StepExpires, StepEnd, Visit
<1>2. pc' = "step" => stepTime' = now
  BY DEF Step, StepBegin, StepWaits, StepSends, StepExpires, StepEnd, Visit, TimerInv
<1>3. ListTimers(list', lastTx')
  <2>1. CASE StepBegin \/ StepWaits \/ StepEnd
    BY <1>0, <2>1 DEF StepBegin, StepWaits, StepEnd, history
  <2>2. CASE StepSends
    <3>1. PICK x \in list : /\ pc = "step" /\ Due(x) /\ CanSend(x)
                            /\ list' = (list \ {x}) \cup {Transmitted(x)}
                            /\ lastTx' = [lastTx EXCEPT ![x.id] = now]
      BY <2>2 DEF StepSends, Visit, Sends
    <3> QED
      BY <3>1, ResendTimers
  <2>3. CASE StepExpires
    <3>1. PICK x \in list : transaction_remove(list, x) /\ lastTx' = lastTx
      BY <2>3 DEF StepExpires
    <3>2. list' = list \ {x}
      BY <1>0, <3>1, ListRmExact DEF transaction_remove
    <3> QED
      BY <1>0, <3>1, <3>2, FewerTimers
  <2> QED
    BY <2>1, <2>2, <2>3 DEF Step
<1> QED
  BY <1>1, <1>2, <1>3, SameClock DEF TimerInv

\* A punctual application waits only while no timer is due.
LEMMA TickTimers ==
    ASSUME Base, TimerInv, Punctual, Tick
    PROVE  TimerInv'
<1>1. /\ now' = now + 1 /\ list' = list /\ lastTx' = lastTx /\ pc' = "idle" /\ now \in Nat
      /\ \A x \in list : x.retrans_time \in Int /\ now < x.retrans_time
  BY BaseFacts DEF Tick, history
<1>2. \A x \in list : now' <= x.retrans_time
  BY <1>1
<1>3. \A t \in Tid : lastTx[t] \in Nat /\ lastTx[t] <= now'
  BY <1>1 DEF TimerInv, ListTimers
<1> QED
  BY <1>1, <1>2, <1>3 DEF TimerInv, ListTimers, Backed, Patience

\* The timers stay ahead of the clock through every step of the layer.
LEMMA TimersKeep ==
    ASSUME Base, TimerInv, Punctual, [Next]_vars
    PROVE  TimerInv'
<1>0. ListTimers(list, lastTx)
  BY DEF TimerInv
<1>1. CASE Application
  <2>1. now' = now /\ (pc' = "step" => pc = "step" /\ stepTime' = stepTime)
    BY <1>1 DEF Application, Request, RequestFails, RequestWithoutClock, OtherMID, RemoveClient,
                Close, walk
  <2>2. ListTimers(list', lastTx')
    <3>1. CASE OtherMID \/ Close \/ \E p \in Peers : RemoveClient(p)
      <4>1. list' \in SUBSET list /\ lastTx' = lastTx
        BY <3>1 DEF OtherMID, RemoveClient, Close, history
      <4> QED
        BY <1>0, <4>1, FewerTimers
    <3> QED
      BY <1>1, <3>1, RequestTimers DEF Application
  <2> QED
    BY <2>1, <2>2, SameClock DEF TimerInv
<1>2. CASE Packet
  <2>1. ListTimers(list', lastTx') /\ now' = now
    BY <1>2, PacketTimers DEF Packet
  <2>2. pc' # "step"
    BY <1>2 DEF Packet, OnePacket, HandlePacket, HandlePacketNextBlock,
                HandlePacketNextBlockFails, HandlePacketBadBlock2, HandlePacketNull, HandlePacketDivides, Received
  <2> QED
    BY <2>1, <2>2, SameClock DEF TimerInv
<1>3. CASE UNCHANGED vars
  <2>1. now' = now /\ list' = list /\ lastTx' = lastTx /\ pc' = pc /\ stepTime' = stepTime
    BY <1>3 DEF vars
  <2> QED
    BY <1>0, <2>1, SameClock DEF TimerInv
<1> QED
  BY <1>1, <1>2, <1>3, StepTimers, TickTimers DEF Next

LEMMA InitTimers == Init => TimerInv
BY DEF Init, TimerInv, ListTimers, Tid
----------------------------------------------------------------------------
(* Theorems                                                                *)

\* If lwm2m_step is called when *timeoutP says, no timer is ever in the past and
\* the walk meets each at the second it is due.
THEOREM TimersAreMet ==
    ASSUME Punctual
    PROVE  Spec => []TimerInv
<1>1. IInv => Base
  BY Split DEF Base
<1>2. IInv /\ TimerInv /\ [Next]_vars => TimerInv'
  BY <1>1, TimersKeep
<1> QED
  BY <1>2, InitTimers, Invariance, PTL DEF Spec

\* The n-th retransmission of a message comes at least COAP_RESPONSE_TIMEOUT *
\* 2^(n-1) after the transmission before it, whatever acknowledgements and 4.01
\* answers did to the timer, if the application is punctual and the timeouts are
\* in the proportion that the defaults of the library have (Patience).
THEOREM BackoffIsExponential ==
    ASSUME Punctual, Patience
    PROVE  Spec => ExponentialBackoff
<1> DEFINE A == \A t \in Tid : sent[t] > 0 /\ sent'[t] > sent[t] =>
                   now - lastTx[t] >= Timeout(sent[t] - 1)
<1>1. ASSUME IInv, TimerInv, Next PROVE A
  <2> SUFFICES ASSUME NEW t \in Tid, sent[t] > 0, sent'[t] > sent[t]
               PROVE  now - lastTx[t] >= Timeout(sent[t] - 1)
    OBVIOUS
  <2>1. Base /\ CurrentList /\ Control
    BY <1>1, Split DEF Base
  <2>2. created \in Nat /\ sent \in [Tid -> Nat] /\ (t > created => sent[t] = 0) /\ t \in Nat
    BY <2>1 DEF CurrentList, ListInv, Tid
  <2>3. t # created + 1 /\ sent'[t] # sent[t]
    BY <2>2
  <2>4. ~Sends(created + 1) /\ sent' # sent
    BY <2>2, <2>3 DEF Sends
  <2>5. ~(Application \/ Packet \/ Tick)
    <3>1. ASSUME NEW p \in Peers, NEW tok \in Tokens, NEW n \in 0 .. MaxBlocks - 1
          PROVE  ~(Request(p, tok, n) \/ RequestFails(p, tok, n) \/ RequestWithoutClock(p, tok, n))
      BY <2>4 DEF Request, RequestFails, RequestWithoutClock, NewRequest, transaction_new
    <3>2. ~(OtherMID \/ Close \/ Tick \/ \E p \in Peers : RemoveClient(p))
      BY <2>4 DEF OtherMID, RemoveClient, Close, Tick, history
    <3>3. ASSUME NEW m \in Messages PROVE ~HandlePacketNextBlock(m)
      BY <2>4 DEF HandlePacketNextBlock, transaction_new
    <3>4. ASSUME NEW m \in Messages PROVE ~OnePacket(m)
      BY <2>4, <3>3 DEF OnePacket, HandlePacket, HandlePacketNextBlockFails,
                        HandlePacketBadBlock2, HandlePacketNull, HandlePacketDivides, history
    <3> QED
      BY <3>1, <3>2, <3>4 DEF Application, Packet
  <2>6. StepSends
    BY <1>1, <2>4, <2>5 DEF Next, Step, StepBegin, StepWaits, StepExpires, StepEnd, history
  <2>7. PICK x \in list : pc = "step" /\ Due(x) /\ CanSend(x) /\ Sends(x.id)
    BY <2>6 DEF StepSends, Visit
  <2>8. x.id = t
    BY <2>2, <2>3, <2>7 DEF Sends
  <2>9. \E lt : lt = [lastTx EXCEPT ![x.id] = now]
    OBVIOUS
  <2> QED
    BY <1>1, <2>1, <2>7, <2>8, <2>9, ResendTimers
<1>2. IInv /\ TimerInv /\ [Next]_vars => [A]_vars
  BY <1>1
<1> QED
  BY <1>2, Invariance, TimersAreMet, PTL DEF Spec, ExponentialBackoff

\* With COAP_MAX_RETRANSMIT 4 and a COAP_SEPARATE_TIMEOUT that is not below
\* COAP_RESPONSE_TIMEOUT, the defaults of the library, they are.
LEMMA DefaultsArePatient ==
    ASSUME MaxRetransmit <= 4, SeparateTimeout >= ResponseTimeout
    PROVE  Patience
<1> SUFFICES ASSUME NEW c \in Nat, 2 <= c, c < MaxRetransmit
             PROVE  /\ Timeout(c - 2) <= SeparateTimeout + ResponseTimeout
                    /\ Timeout(c - 2) <= ResponseTimeout * c + ResponseTimeout
  BY DEF Patience
<1>1. Shifted[0] = 1 /\ Shifted[1] = 2
  <2>1. 1 \in Nat /\ 1 # 0 /\ 1 - 1 = 0
    OBVIOUS
  <2>2. Shifted[0] = 1 /\ Shifted[1] = 2 * Shifted[1 - 1]
    BY <2>1, ShiftedDoubles
  <2> QED
    BY <2>1, <2>2
<1>2. c = 2 \/ c = 3
  OBVIOUS
<1>3. CASE c = 2
  <2>1. Timeout(c - 2) = ResponseTimeout
    BY <1>1, <1>3 DEF Timeout
  <2> QED
    BY <1>3, <2>1
<1>4. CASE c = 3
  <2>1. Timeout(c - 2) = ResponseTimeout * 2
    BY <1>1, <1>4 DEF Timeout
  <2> QED
    BY <1>4, <2>1
<1> QED
  BY <1>2, <1>3, <1>4
============================================================================
