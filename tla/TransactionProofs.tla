------------------------- MODULE TransactionProofs -------------------------
(***************************************************************************)
(* Proofs about Transaction, for every number of peers, transactions,      *)
(* message IDs, blocks, retransmissions and timeouts.                      *)
(***************************************************************************)
EXTENDS Transaction, NaturalLemmas, TLAPS

USE PeersAssumption, SizeAssumption, MidAssumption, TimerAssumption
----------------------------------------------------------------------------
(* The list                                                                *)

\* No two transactions of L have the same message ID.
UniqueMids(L) == \A x, y \in L : x.mID = y.mID => x = y

\* The first of a list with unique message IDs comes before the rest of it.
LEMMA FirstOfLeads ==
    ASSUME NEW L \in SUBSET Transactions, L # {}, UniqueMids(L)
    PROVE  /\ FirstOf(L) \in L
           /\ \A y \in L : FirstOf(L) = y \/ Before(FirstOf(L), y)
<1> DEFINE T == {x.mID : x \in L}
<1>1. T \in SUBSET Nat /\ T # {}
  BY DEF Transactions, Mids
<1>2. PICK m \in T : \A n \in T : m <= n
  <2> HIDE DEF T
  <2> QED BY <1>1, NatMin
<1>3. PICK x \in L : x.mID = m
  BY <1>2
<1>4. \A y \in L : x = y \/ Before(x, y)
  <2> SUFFICES ASSUME NEW y \in L, x # y PROVE Before(x, y)
    OBVIOUS
  <2>1. y.mID \in T /\ x.mID # y.mID
    BY DEF UniqueMids
  <2>2. x.mID <= y.mID
    BY <1>2, <1>3, <2>1
  <2> QED
    BY <2>1, <2>2 DEF Before, Transactions, Mids
<1> QED
  BY <1>4 DEF FirstOf

\* Unlinking by message ID takes out exactly the transaction that has it.
LEMMA ListRmExact ==
    ASSUME NEW L \in SUBSET Transactions, UniqueMids(L), NEW x \in L
    PROVE  ListRm(L, x.mID) = L \ {x}
<1> DEFINE S == {y \in L : y.mID = x.mID}
<1>1. S = {x}
  BY DEF UniqueMids
<1>2. FirstOf(S) = x
  BY <1>1 DEF FirstOf
<1> QED
  BY <1>1, <1>2 DEF ListRm

\* NextP is the first of the transactions behind x, or NULL at the end.
LEMMA NextPFollows ==
    ASSUME NEW L \in SUBSET Transactions, UniqueMids(L), NEW x \in L
    PROVE  \/ /\ NextP(L, x) = 0
              /\ \A y \in L : ~Before(x, y)
           \/ \E h \in L : /\ NextP(L, x) = h.id
                           /\ Before(x, h)
                           /\ \A y \in L : Before(x, y) => y = h \/ Before(h, y)
<1> DEFINE S == {y \in L : Before(x, y)}
<1>1. CASE S = {}
  BY <1>1 DEF NextP
<1>2. CASE S # {}
  <2>1. UniqueMids(S) /\ S \in SUBSET Transactions
    BY DEF UniqueMids
  <2>2. FirstOf(S) \in S /\ \A y \in S : FirstOf(S) = y \/ Before(FirstOf(S), y)
    <3> HIDE DEF S
    <3> QED BY <1>2, <2>1, FirstOfLeads
  <2>3. NextP(L, x) = FirstOf(S).id
    BY <1>2 DEF NextP
  <2>4. FirstOf(S) \in L /\ Before(x, FirstOf(S))
    BY <2>2
  <2>5. \A y \in L : Before(x, y) => y = FirstOf(S) \/ Before(FirstOf(S), y)
    BY <2>2
  <2> HIDE DEF S
  <2> QED
    BY <2>3, <2>4, <2>5
<1> QED
  BY <1>1, <1>2
----------------------------------------------------------------------------
(* The part of the invariant that is about the list, for a list L that need *)
(* not be the one of the current state: in the handling of a packet, L is   *)
(* the list with the next block already in it.                             *)

IssuedAt(m, f, tk) ==
    IF f + tk <= MidSpace THEN f <= m /\ m < f + tk
    ELSE f <= m \/ m < f + tk - MidSpace

ListInv(L, f, tk, cr, fr, fd, ca, se) ==
    /\ L \in SUBSET Transactions
    /\ f \in Mids /\ tk \in 0 .. MaxMids /\ cr \in 0 .. MaxTrans
    /\ fr \in SUBSET Tid /\ fd \in SUBSET Tid
    /\ ca \in [Tid -> Nat] /\ se \in [Tid -> Nat]
    /\ UniqueMids(L)
    /\ \A x \in L : IssuedAt(x.mID, f, tk)
    /\ \A x \in L : x.id <= cr /\ x.id \notin fr
    /\ \A x, y \in L : x.id = y.id => x = y
    /\ \A t \in fr : t <= cr
    /\ \A t \in Tid : ca[t] <= 1
    /\ \A t \in Tid : t > cr => ca[t] = 0
    /\ \A x \in L : ca[x.id] = 0
    /\ \A x \in L : x.userData <= cr /\ x.userData \notin fd
    /\ \A d \in fd : d <= cr
    /\ \A t \in Tid : se[t] <= MaxRetransmit + 1
    /\ \A t \in Tid : t > cr => se[t] = 0
    /\ \A x \in L : x.retrans_counter >= 2 /\ se[x.id] = x.retrans_counter - 1

\* contextP->nextMID as a function of the IDs taken.
MidAt(f, tk) == IF f + tk < MidSpace THEN f + tk ELSE f + tk - MidSpace

\* The next message ID is not one of those in use, and using it keeps the window.
LEMMA FreshMid ==
    ASSUME NEW f \in Mids, NEW tk \in 0 .. MaxMids, tk < MaxMids
    PROVE  /\ MidAt(f, tk) \in Mids
           /\ ~IssuedAt(MidAt(f, tk), f, tk)
           /\ IssuedAt(MidAt(f, tk), f, tk + 1)
           /\ \A m \in Mids : IssuedAt(m, f, tk) => IssuedAt(m, f, tk + 1)
           /\ MidAt(f, tk + 1) = IF MidAt(f, tk) = MidSpace - 1 THEN 0 ELSE MidAt(f, tk) + 1
BY DEF MidAt, IssuedAt, Mids

\* LWM2M_LIST_ADD of a new transaction that has been sent once.
LEMMA AddOne ==
    ASSUME NEW L, NEW f, NEW tk, NEW cr, NEW fr, NEW fd, NEW ca, NEW se,
           ListInv(L, f, tk, cr, fr, fd, ca, se), tk < MaxMids, cr < MaxTrans,
           NEW c \in Transactions, c.id = cr + 1, c.mID = MidAt(f, tk),
           c.retrans_counter = 2,
           c.userData = cr + 1 \/ \E x \in L : x.userData = c.userData
    PROVE  ListInv(L \cup {c}, f, tk + 1, cr + 1, fr, fd, ca,
                   [se EXCEPT ![cr + 1] = se[cr + 1] + 1])
<1> DEFINE L2 == L \cup {c}
           se2 == [se EXCEPT ![cr + 1] = se[cr + 1] + 1]
<1>1. f \in Mids /\ tk \in 0 .. MaxMids /\ cr \in 0 .. MaxTrans
  BY DEF ListInv
<1>2. \A x \in L : x.mID # c.mID /\ IssuedAt(x.mID, f, tk + 1)
  BY <1>1, FreshMid DEF ListInv, Transactions
<1>3. IssuedAt(c.mID, f, tk + 1)
  BY <1>1, FreshMid
<1>4. UniqueMids(L2)
  BY <1>2 DEF ListInv, UniqueMids
<1>5. c.id \in Tid /\ c.userData \in Tid
  BY DEF Transactions
<1>6. \A x \in L : x.id \in Tid /\ x.id <= cr
  BY DEF ListInv, Transactions
<1>7. /\ \A x \in L2 : x.id <= cr + 1 /\ x.id \notin fr
      /\ \A x, y \in L2 : x.id = y.id => x = y
      /\ \A t \in fr : t <= cr + 1
  BY <1>1, <1>5, <1>6 DEF ListInv, Tid
<1>8. \A x \in L2 : ca[x.id] = 0
  BY <1>1, <1>5 DEF ListInv, Tid
<1>9. /\ \A x \in L2 : x.userData <= cr + 1 /\ x.userData \notin fd
      /\ \A d \in fd : d <= cr + 1
  <2>1. \A x \in L : x.userData \in Tid /\ x.userData <= cr /\ x.userData \notin fd
    BY DEF ListInv, Transactions
  <2>2. \A d \in fd : d \in Tid /\ d <= cr
    BY DEF ListInv
  <2>3. c.userData <= cr + 1 /\ c.userData \notin fd
    BY <1>1, <1>5, <2>1, <2>2 DEF Tid
  <2> QED BY <1>1, <2>1, <2>2, <2>3 DEF Tid
<1>10. se2 \in [Tid -> Nat] /\ se2[cr + 1] = 1 /\ \A t \in Tid : t # cr + 1 => se2[t] = se[t]
  BY <1>1, <1>5 DEF ListInv, Tid
<1>11. /\ \A t \in Tid : se2[t] <= MaxRetransmit + 1
       /\ \A t \in Tid : t > cr + 1 => se2[t] = 0
  BY <1>1, <1>10 DEF ListInv, Tid
<1>12. \A x \in L2 : x.retrans_counter >= 2 /\ se2[x.id] = x.retrans_counter - 1
  BY <1>1, <1>5, <1>6, <1>10 DEF ListInv, Tid
<1>13. \A t \in Tid : t > cr + 1 => ca[t] = 0
  BY <1>1 DEF ListInv, Tid
<1>14. L2 \in SUBSET Transactions /\ tk + 1 \in 0 .. MaxMids /\ cr + 1 \in 0 .. MaxTrans
  BY <1>1 DEF ListInv
<1>15. \A x \in L2 : IssuedAt(x.mID, f, tk + 1)
  BY <1>2, <1>3
<1> HIDE DEF L2, se2
<1>16. ListInv(L2, f, tk + 1, cr + 1, fr, fd, ca, se2)
  BY <1>4, <1>7, <1>8, <1>9, <1>10, <1>11, <1>12, <1>13, <1>14, <1>15 DEF ListInv
<1> QED
  BY <1>16 DEF L2, se2

\* A listed transaction changes its timer or its flag, and nothing else.
LEMMA ReplaceOne ==
    ASSUME NEW L, NEW f, NEW tk, NEW cr, NEW fr, NEW fd, NEW ca, NEW se,
           ListInv(L, f, tk, cr, fr, fd, ca, se),
           NEW x \in L, NEW z \in Transactions,
           z.id = x.id, z.mID = x.mID, z.userData = x.userData,
           z.retrans_counter = x.retrans_counter
    PROVE  ListInv((L \ {x}) \cup {z}, f, tk, cr, fr, fd, ca, se)
BY DEF ListInv, UniqueMids

\* A listed transaction is sent again.
LEMMA ResendOne ==
    ASSUME NEW L, NEW f, NEW tk, NEW cr, NEW fr, NEW fd, NEW ca, NEW se,
           ListInv(L, f, tk, cr, fr, fd, ca, se),
           NEW x \in L, MaxRetransmit + 1 >= x.retrans_counter,
           NEW z \in Transactions,
           z.id = x.id, z.mID = x.mID, z.userData = x.userData,
           z.retrans_counter = x.retrans_counter + 1
    PROVE  ListInv((L \ {x}) \cup {z}, f, tk, cr, fr, fd, ca,
                   [se EXCEPT ![x.id] = se[x.id] + 1])
<1> DEFINE L2 == (L \ {x}) \cup {z}
           se2 == [se EXCEPT ![x.id] = se[x.id] + 1]
<1>1. x.id \in Tid /\ x.retrans_counter \in Nat /\ x.id <= cr /\ cr \in Nat
  BY DEF ListInv, Transactions
<1>2. se2 \in [Tid -> Nat] /\ se2[x.id] = x.retrans_counter
      /\ \A t \in Tid : t # x.id => se2[t] = se[t]
  BY <1>1 DEF ListInv
<1>3. \A y \in L : y.id \in Tid /\ (y # x => y.id # x.id)
  BY DEF ListInv, Transactions
<1>4. \A y \in L2 : y.retrans_counter >= 2 /\ se2[y.id] = y.retrans_counter - 1
  BY <1>1, <1>2, <1>3 DEF ListInv
<1>5. /\ \A t \in Tid : se2[t] <= MaxRetransmit + 1
      /\ \A t \in Tid : t > cr => se2[t] = 0
  <2>1. /\ \A t \in Tid : se[t] <= MaxRetransmit + 1
        /\ \A t \in Tid : t > cr => se[t] = 0
    BY DEF ListInv
  <2>2. \A t \in Tid : t \in Nat /\ (t > cr => t # x.id)
    BY <1>1 DEF Tid
  <2> HIDE DEF se2
  <2> QED BY <1>1, <1>2, <2>1, <2>2
<1>6. ListInv(L2, f, tk, cr, fr, fd, ca, se2)
  <2> HIDE DEF se2
  <2> QED BY <1>2, <1>4, <1>5 DEF ListInv, UniqueMids
<1> QED
  BY <1>6

\* The callback of a listed transaction is called, then it is removed; its
\* userData is freed if no other listed transaction has it.
LEMMA DropOne ==
    ASSUME NEW L, NEW f, NEW tk, NEW cr, NEW fr, NEW fd, NEW ca, NEW se,
           ListInv(L, f, tk, cr, fr, fd, ca, se), NEW x \in L
    PROVE  ListInv(L \ {x}, f, tk, cr, fr \cup {x.id},
                   IF \E y \in L : y.userData = x.userData /\ y.id # x.id
                   THEN fd ELSE fd \cup {x.userData},
                   [ca EXCEPT ![x.id] = ca[x.id] + 1], se)
<1> DEFINE L2 == L \ {x}
           ca2 == [ca EXCEPT ![x.id] = ca[x.id] + 1]
           fd2 == IF \E y \in L : y.userData = x.userData /\ y.id # x.id
                  THEN fd ELSE fd \cup {x.userData}
<1>1. x.id \in Tid /\ x.userData \in Tid /\ x.id <= cr /\ cr \in Nat /\ x.userData <= cr
  BY DEF ListInv, Transactions
<1>2. \A y \in L2 : y \in L /\ y.id \in Tid /\ y.id # x.id
  BY DEF ListInv, Transactions
<1>3. ca2 \in [Tid -> Nat] /\ ca2[x.id] = 1 /\ \A t \in Tid : t # x.id => ca2[t] = ca[t]
  BY <1>1 DEF ListInv
<1>4. /\ \A t \in Tid : ca2[t] <= 1
      /\ \A t \in Tid : t > cr => ca2[t] = 0
      /\ \A y \in L2 : ca2[y.id] = 0
  BY <1>1, <1>2, <1>3 DEF ListInv, Tid
<1>5. /\ fd2 \in SUBSET Tid
      /\ \A y \in L2 : y.userData <= cr /\ y.userData \notin fd2
      /\ \A d \in fd2 : d <= cr
  BY <1>1, <1>2 DEF ListInv
<1>6. ListInv(L2, f, tk, cr, fr \cup {x.id}, fd2, ca2, se)
  <2> HIDE DEF ca2, fd2
  <2> QED BY <1>1, <1>2, <1>3, <1>4, <1>5 DEF ListInv, UniqueMids
<1> QED
  BY <1>6

\* transaction_handleResponse keeps the list consistent, on any list.
LEMMA ResponseKeeps ==
    ASSUME NEW L, NEW f, NEW tk, NEW cr, NEW se, NEW m \in Messages, now \in Nat,
           ListInv(L, f, tk, cr, freed, freedData, calls, se),
           transaction_handleResponse(L, m)
    PROVE  ListInv(list', f, tk, cr, freed', freedData', calls', se)
<1> DEFINE x == FirstOf(Hits(L, m))
<1>1. L \in SUBSET Transactions /\ UniqueMids(L)
  BY DEF ListInv
<1>2. Hits(L, m) # {} => x \in L /\ x \in Transactions
  <2>1. UniqueMids(Hits(L, m)) /\ Hits(L, m) \in SUBSET Transactions
    BY <1>1 DEF UniqueMids, Hits
  <2>2. Hits(L, m) # {} => x \in Hits(L, m)
    BY <2>1, FirstOfLeads
  <2> QED
    BY <2>2, <1>1 DEF Hits
<1>3. CASE ResponseIgnored(L, m)
  BY <1>3 DEF ResponseIgnored
<1>4. CASE ResponseDenied(L, m)
  <2> DEFINE later == x.retrans_time + ResponseTimeout
             z == [x EXCEPT !.ack_received = FALSE, !.retrans_time = later]
  <2>1. x \in L /\ x \in Transactions
    BY <1>2, <1>4 DEF ResponseDenied
  <2>2. /\ z \in Transactions /\ z.id = x.id /\ z.mID = x.mID
        /\ z.userData = x.userData /\ z.retrans_counter = x.retrans_counter
    <3>1. later \in Int
      BY <2>1 DEF Transactions
    <3> HIDE DEF x, later
    <3> QED BY <2>1, <3>1 DEF Transactions
  <2>3. list' = (L \ {x}) \cup {z} /\ UNCHANGED <<freed, freedData, calls>>
    BY <1>4 DEF ResponseDenied
  <2> HIDE DEF x, z
  <2>4. ListInv((L \ {x}) \cup {z}, f, tk, cr, freed, freedData, calls, se)
    BY <2>1, <2>2, ReplaceOne
  <2> QED
    BY <2>3, <2>4
<1>5. CASE ResponseDone(L, m)
  <2>1. x \in L
    BY <1>2, <1>5 DEF ResponseDone
  <2>2. Callback(L, x) /\ transaction_remove(L, x)
    BY <1>5 DEF ResponseDone
  <2>3. list' = L \ {x}
    BY <2>1, <2>2, <1>1, ListRmExact DEF transaction_remove
  <2>4. /\ freed' = freed \cup {x.id}
        /\ calls' = [calls EXCEPT ![x.id] = calls[x.id] + 1]
        /\ freedData' = IF \E y \in L : y.userData = x.userData /\ y.id # x.id
                        THEN freedData ELSE freedData \cup {x.userData}
    BY <2>2 DEF transaction_remove, Callback, FreeUserData
  <2> HIDE DEF x
  <2>5. ListInv(L \ {x}, f, tk, cr, freed \cup {x.id},
                IF \E y \in L : y.userData = x.userData /\ y.id # x.id
                THEN freedData ELSE freedData \cup {x.userData},
                [calls EXCEPT ![x.id] = calls[x.id] + 1], se)
    BY <2>1, DropOne
  <2> QED
    BY <2>3, <2>4, <2>5
<1>6. CASE ResponseAcked(L, m)
  <2> DEFINE wait == IF m.code = "empty" THEN SeparateTimeout
                     ELSE ResponseTimeout * x.retrans_counter
             z == [x EXCEPT !.ack_received = TRUE, !.retrans_time = now + wait]
  <2>1. x \in L /\ x \in Transactions
    BY <1>2, <1>6 DEF ResponseAcked
  <2>2. now + wait \in Int
    BY <2>1 DEF Transactions
  <2>3. /\ z \in Transactions /\ z.id = x.id /\ z.mID = x.mID
        /\ z.userData = x.userData /\ z.retrans_counter = x.retrans_counter
    <3> HIDE DEF wait
    <3> QED BY <2>1, <2>2 DEF Transactions
  <2>4. list' = (L \ {x}) \cup {z} /\ UNCHANGED <<freed, freedData, calls>>
    BY <1>6 DEF ResponseAcked
  <2> HIDE DEF x, z
  <2>5. ListInv((L \ {x}) \cup {z}, f, tk, cr, freed, freedData, calls, se)
    BY <2>1, <2>3, ReplaceOne
  <2> QED
    BY <2>4, <2>5
<1> QED
  BY <1>3, <1>4, <1>5, <1>6 DEF transaction_handleResponse
----------------------------------------------------------------------------
(* The invariant is inductive.                                             *)

\* ListInv of the current state.
CurrentList == ListInv(list, firstMID, taken, created, freed, freedData, calls, sent)

\* What is left of IInv.
Control ==
    /\ now \in Nat /\ stepTime \in Nat
    /\ nextMID = MidAt(firstMID, taken)
    /\ lastTx \in [Tid -> Nat]
    /\ pc \in {"idle", "step", "closed", "crashed", "divided"}
    /\ cursor \in Tid \cup {0}
    /\ inCallback \in BOOLEAN
    /\ timeout \in Int
    /\ packets \in 0 .. MaxPackets

LEMMA Split == IInv <=> CurrentList /\ Control /\ WalkInv
<1>1. IInv => CurrentList
  BY DEF IInv, TypeOK, MidInv, IdInv, CallInv, DataInv, SendInv, CurrentList,
         ListInv, Issued, IssuedAt, UniqueMids
<1>2. IInv => Control /\ WalkInv
  BY DEF IInv, TypeOK, MidInv, Control, MidAt
<1>3. CurrentList /\ Control => MidInv /\ IdInv /\ CallInv /\ DataInv /\ SendInv
  BY DEF MidInv, IdInv, CallInv, DataInv, SendInv, CurrentList, Control, MidAt,
         ListInv, Issued, IssuedAt, UniqueMids
<1>4. CurrentList /\ Control => TypeOK
  <2> SUFFICES ASSUME CurrentList, Control PROVE TypeOK
    OBVIOUS
  <2>1. firstMID \in Mids /\ taken \in 0 .. MaxMids
    BY DEF CurrentList, ListInv
  <2>2. nextMID \in Mids
    BY <2>1 DEF Control, MidAt, Mids
  <2> QED
    BY <2>1, <2>2 DEF TypeOK, CurrentList, Control, ListInv
<1> QED
  BY <1>1, <1>2, <1>3, <1>4 DEF IInv

LEMMA InitIInv == Init => IInv
<1> SUFFICES ASSUME Init PROVE IInv
  OBVIOUS
<1>1. CurrentList
  BY DEF Init, CurrentList, ListInv, UniqueMids, Mids
<1>2. Control
  <2>1. nextMID = MidAt(firstMID, taken)
    BY DEF Init, MidAt, Mids
  <2>2. lastTx \in [Tid -> Nat] /\ timeout \in Int /\ packets \in 0 .. MaxPackets
    BY DEF Init
  <2>3. inCallback \in BOOLEAN
    BY Zenon DEF Init
  <2> QED
    BY <2>1, <2>2, <2>3 DEF Init, Control
<1>3. WalkInv
  BY DEF Init, WalkInv
<1> QED
  BY <1>1, <1>2, <1>3, Split

\* COAP_RESPONSE_TIMEOUT << n is at least a second.
LEMMA TimeoutPositive ==
    ASSUME NEW n \in Nat
    PROVE  Timeout(n) \in Nat /\ Timeout(n) >= 1
<1>1. Shifted[n] \in Nat /\ Shifted[n] >= 1
  BY ShiftedPositive
<1> DEFINE k == Shifted[n]
<1>2. ResponseTimeout * k \in Nat /\ ResponseTimeout * k >= 1
  <2>1. k \in Nat /\ k >= 1
    BY <1>1
  <2> HIDE DEF k
  <2> QED BY <2>1
<1> QED
  BY <1>2 DEF Timeout

\* Sending sets the timer and the counter, and no other field.
LEMMA TransmittedFields ==
    ASSUME NEW x \in Transactions, now \in Nat
    PROVE  /\ Transmitted(x) \in Transactions
           /\ Transmitted(x).id = x.id /\ Transmitted(x).mID = x.mID
           /\ Transmitted(x).userData = x.userData /\ Transmitted(x).peer = x.peer
           /\ Transmitted(x).token = x.token /\ Transmitted(x).left = x.left
           /\ Transmitted(x).ack_received = x.ack_received
           /\ x.retrans_counter = 0 =>
                /\ Transmitted(x).retrans_counter = 2
                /\ Transmitted(x).retrans_time = now + ResponseTimeout
           /\ x.retrans_counter # 0 =>
                /\ Transmitted(x).retrans_counter = x.retrans_counter + 1
                /\ Transmitted(x).retrans_time =
                       x.retrans_time + Timeout(x.retrans_counter - 1)
<1> DEFINE z == Transmitted(x)
           Same == /\ z \in Transactions
                   /\ z.id = x.id /\ z.mID = x.mID /\ z.userData = x.userData
                   /\ z.peer = x.peer /\ z.token = x.token /\ z.left = x.left
                   /\ z.ack_received = x.ack_received
<1>1. CASE x.retrans_counter = 0
  <2> DEFINE a == now + ResponseTimeout
             k == 2
  <2>1. a \in Int /\ k \in Nat
    OBVIOUS
  <2>2. z = [x EXCEPT !.retrans_time = a, !.retrans_counter = k]
    BY <1>1 DEF Transmitted
  <2>3. Same /\ z.retrans_counter = k /\ z.retrans_time = a
    <3> HIDE DEF a, k, z
    <3> QED BY <2>1, <2>2 DEF Transactions
  <2> QED BY <1>1, <2>3
<1>2. CASE x.retrans_counter # 0
  <2> DEFINE a == x.retrans_time + Timeout(x.retrans_counter - 1)
             k == x.retrans_counter + 1
  <2>1. x.retrans_counter - 1 \in Nat /\ x.retrans_time \in Int /\ k \in Nat
    BY <1>2 DEF Transactions
  <2>2. Timeout(x.retrans_counter - 1) \in Int
    BY <2>1, TimeoutPositive
  <2>3. a \in Int
    BY <2>1, <2>2
  <2>4. z = [x EXCEPT !.retrans_time = a, !.retrans_counter = k]
    BY <1>2 DEF Transmitted
  <2>5. Same /\ z.retrans_counter = k /\ z.retrans_time = a
    <3> HIDE DEF a, k, z
    <3> QED BY <2>1, <2>3, <2>4 DEF Transactions
  <2> QED BY <1>2, <2>5
<1> QED
  BY <1>1, <1>2

\* Facts about a transaction the application or packet.c creates.
LEMMA NewTransaction ==
    ASSUME CurrentList, Control, created < MaxTrans,
           NEW p \in Peers, NEW tok \in Mids \cup {NoToken}, NEW k \in Kinds, NEW n \in Nat,
           NEW d \in Tid
    PROVE  LET x == transaction_new(p, tok, k, n, d)
           IN  /\ x.id = created + 1 /\ x.mID = MidAt(firstMID, taken)
               /\ x.userData = d /\ x \in Transactions
               /\ Transmitted(x) \in Transactions
               /\ Transmitted(x).id = created + 1
               /\ Transmitted(x).mID = MidAt(firstMID, taken)
               /\ Transmitted(x).userData = d
               /\ Transmitted(x).retrans_counter = 2
<1> DEFINE x == transaction_new(p, tok, k, n, d)
<1>1. created + 1 \in Tid /\ nextMID \in Mids /\ nextMID = MidAt(firstMID, taken)
  BY DEF CurrentList, ListInv, Control, Tid, MidAt, Mids
<1>2. x = [id |-> created + 1, mID |-> nextMID, peer |-> p, token |-> tok,
           ack_received |-> FALSE, retrans_time |-> 0, retrans_counter |-> 0,
           kind |-> k, left |-> n, userData |-> d]
  BY DEF transaction_new
<1>3. x \in Transactions
  BY <1>1, <1>2 DEF Transactions
<1>4. x.retrans_counter = 0
  BY <1>2
<1>5. x.id = created + 1 /\ x.mID = nextMID /\ x.userData = d
  BY <1>2
<1>6. /\ Transmitted(x) \in Transactions
      /\ Transmitted(x).id = x.id /\ Transmitted(x).mID = x.mID
      /\ Transmitted(x).userData = x.userData /\ Transmitted(x).retrans_counter = 2
  <2>1. now \in Nat
    BY DEF Control
  <2> HIDE DEF x
  <2> QED BY <1>3, <1>4, <2>1, TransmittedFields
<1> QED
  BY <1>1, <1>3, <1>5, <1>6

LEMMA TakeMIDKeeps ==
    ASSUME CurrentList, Control, TakeMID
    PROVE  /\ taken < MaxMids /\ taken' = taken + 1 /\ firstMID' = firstMID
           /\ nextMID' = MidAt(firstMID', taken')
<1>1. firstMID \in Mids /\ taken \in 0 .. MaxMids
  BY DEF CurrentList, ListInv
<1> QED
  BY <1>1, FreshMid DEF TakeMID, Control

\* Message IDs and transactions that come and go without being listed.
LEMMA SkipOne ==
    ASSUME NEW L, NEW f, NEW tk, NEW cr, NEW fr, NEW fd, NEW ca, NEW se,
           ListInv(L, f, tk, cr, fr, fd, ca, se), tk < MaxMids
    PROVE  /\ ListInv(L, f, tk + 1, cr, fr, fd, ca, se)
           /\ cr < MaxTrans =>
                /\ ListInv(L, f, tk + 1, cr + 1, fr \cup {cr + 1}, fd, ca, se)
                /\ ListInv(L, f, tk + 1, cr + 1, fr \cup {cr + 1}, fd \cup {cr + 1},
                           [ca EXCEPT ![cr + 1] = ca[cr + 1] + 1],
                           [se EXCEPT ![cr + 1] = se[cr + 1] + 1])
<1>1. f \in Mids /\ tk \in 0 .. MaxMids /\ cr \in 0 .. MaxTrans
  BY DEF ListInv
<1>2. \A x \in L : IssuedAt(x.mID, f, tk + 1)
  BY <1>1, FreshMid DEF ListInv, Transactions
<1>3. ListInv(L, f, tk + 1, cr, fr, fd, ca, se)
  BY <1>1, <1>2 DEF ListInv
<1> DEFINE c1 == cr + 1
<1>a. c1 \in 1 .. MaxTrans + 1 /\ \A t \in Nat : t <= cr => t <= c1 /\ t # c1
  BY <1>1
<1>b. \A t \in Nat : t > c1 => t > cr
  BY <1>1
<1>c. \A x \in L : x.id \in Tid /\ x.id # c1 /\ x.userData \in Tid /\ x.userData # c1
  <2>1. \A x \in L : x.id \in Tid /\ x.userData \in Tid /\ x.id <= cr /\ x.userData <= cr
    BY DEF ListInv, Transactions
  <2> QED BY <2>1, <1>a DEF Tid
<1>4. ASSUME cr < MaxTrans
      PROVE  ListInv(L, f, tk + 1, c1, fr \cup {c1}, fd, ca, se)
  <2>1. c1 \in Tid /\ c1 \in 0 .. MaxTrans
    BY <1>1, <1>4 DEF Tid
  <2>2. \A t \in Tid : t \in Nat
    BY DEF Tid
  <2> HIDE DEF c1
  <2>3. /\ \A x \in L : x.id <= c1 /\ x.id \notin fr \cup {c1} /\ x.userData <= c1
        /\ \A t \in fr \cup {c1} : t <= c1
        /\ \A t \in fd : t <= c1
    <3>1. \A x \in L : x.id <= c1 /\ x.id # c1 /\ x.id \notin fr /\ x.userData <= c1
      BY <1>3, <1>a, <1>c, <2>2 DEF ListInv
    <3>2. c1 <= c1 /\ (\A t \in fr : t <= c1) /\ (\A t \in fd : t <= c1)
      BY <1>3, <1>a, <2>1, <2>2 DEF ListInv
    <3> QED BY <3>1, <3>2
  <2>4. \A t \in Tid : t > c1 => ca[t] = 0 /\ se[t] = 0
    BY <1>3, <1>b, <2>2 DEF ListInv
  <2> QED
    BY <1>3, <2>1, <2>3, <2>4 DEF ListInv
<1>5. ASSUME cr < MaxTrans
      PROVE  ListInv(L, f, tk + 1, cr + 1, fr \cup {cr + 1}, fd \cup {cr + 1},
                     [ca EXCEPT ![cr + 1] = ca[cr + 1] + 1],
                     [se EXCEPT ![cr + 1] = se[cr + 1] + 1])
  <2> DEFINE ca2 == [ca EXCEPT ![cr + 1] = ca[cr + 1] + 1]
             se2 == [se EXCEPT ![cr + 1] = se[cr + 1] + 1]
  <2>1. cr + 1 \in Tid
    BY <1>1, <1>5 DEF Tid
  <2>2. \A x \in L : x.id \in Tid /\ x.id # cr + 1 /\ x.userData \in Tid /\ x.userData # cr + 1
    BY <1>c
  <2>3. ca[cr + 1] = 0 /\ se[cr + 1] = 0
    BY <1>1, <2>1 DEF ListInv
  <2>4. /\ ca2 \in [Tid -> Nat] /\ ca2[cr + 1] = 1
        /\ \A t \in Tid : t # cr + 1 => ca2[t] = ca[t]
    BY <2>1, <2>3 DEF ListInv
  <2>5. /\ se2 \in [Tid -> Nat] /\ se2[cr + 1] = 1
        /\ \A t \in Tid : t # cr + 1 => se2[t] = se[t]
    BY <2>1, <2>3 DEF ListInv
  <2> HIDE DEF ca2, se2
  <2>6. /\ \A t \in Tid : ca2[t] <= 1 /\ se2[t] <= MaxRetransmit + 1
        /\ \A t \in Tid : t > cr + 1 => ca2[t] = 0 /\ se2[t] = 0
    <3>1. \A t \in Tid : t \in Nat /\ ca[t] <= 1 /\ se[t] <= MaxRetransmit + 1
      BY DEF ListInv, Tid
    <3>2. \A t \in Tid : t > cr + 1 => ca[t] = 0 /\ se[t] = 0
      BY <1>b, <3>1 DEF ListInv
    <3>3. \A t \in Tid : t > cr + 1 => t # cr + 1
      BY <1>1, <3>1
    <3> QED BY <2>4, <2>5, <3>1, <3>2, <3>3
  <2>7. /\ \A x \in L : ca2[x.id] = 0
        /\ \A x \in L : x.retrans_counter >= 2 /\ se2[x.id] = x.retrans_counter - 1
    BY <2>2, <2>4, <2>5 DEF ListInv
  <2>8. ListInv(L, f, tk + 1, cr + 1, fr \cup {cr + 1}, fd \cup {cr + 1}, ca2, se2)
    BY <1>4, <1>5, <2>1, <2>2, <2>4, <2>5, <2>6, <2>7 DEF ListInv, Tid
  <2> QED
    BY <2>8 DEF ca2, se2
<1> QED
  BY <1>3, <1>4, <1>5

\* A new transaction that is removed at once leaves the list as it was.
LEMMA UnlistNew ==
    ASSUME CurrentList, taken < MaxMids,
           NEW x \in Transactions, x.mID = MidAt(firstMID, taken)
    PROVE  ListRm(list \cup {x}, x.mID) = list
<1>1. \A y \in list : y.mID # x.mID
  BY FreshMid DEF CurrentList, ListInv
<1>2. UniqueMids(list \cup {x}) /\ list \cup {x} \in SUBSET Transactions
  BY <1>1 DEF CurrentList, ListInv, UniqueMids
<1>3. ListRm(list \cup {x}, x.mID) = (list \cup {x}) \ {x}
  BY <1>2, ListRmExact
<1> QED
  BY <1>1, <1>3

\* The list stays consistent through the requests of the application.
LEMMA RequestKeeps ==
    ASSUME CurrentList, Control,
           NEW p \in Peers, NEW tok \in Tokens, NEW n \in 0 .. MaxBlocks - 1,
           Request(p, tok, n) \/ RequestFails(p, tok, n) \/ RequestWithoutClock(p, tok, n)
    PROVE  CurrentList'
<1> DEFINE d == created + 1
           k == IF n > 0 THEN "block1" ELSE "plain"
           x == transaction_new(p, tok, k, n, d)
<1>0. x = NewRequest(p, tok, n)
  BY DEF NewRequest
<1>a. k \in Kinds
  BY DEF Kinds
<1>1. created < MaxTrans /\ TakeMID /\ created' = created + 1
  BY DEF Request, RequestFails, RequestWithoutClock
<1>2. taken < MaxMids /\ taken' = taken + 1 /\ firstMID' = firstMID
  BY <1>1, TakeMIDKeeps
<1>3. tok \in Mids \cup {NoToken} /\ n \in Nat /\ d \in Tid
  <2>1. nextMID \in Mids
    BY DEF CurrentList, ListInv, Control, MidAt, Mids
  <2>2. tok \in Mids \cup {NoToken}
    BY <2>1 DEF Tokens
  <2>3. n \in Nat /\ d \in Tid
    BY <1>1 DEF CurrentList, ListInv, Tid
  <2> QED BY <2>2, <2>3
<1>4. /\ x.id = created + 1 /\ x.mID = MidAt(firstMID, taken)
      /\ x.userData = d /\ x \in Transactions
      /\ Transmitted(x) \in Transactions
      /\ Transmitted(x).id = created + 1
      /\ Transmitted(x).mID = MidAt(firstMID, taken)
      /\ Transmitted(x).userData = d
      /\ Transmitted(x).retrans_counter = 2
  <2> HIDE DEF k, d
  <2>1. created < MaxTrans
    BY <1>1
  <2>2. /\ x.id = created + 1 /\ x.mID = MidAt(firstMID, taken)
        /\ x.userData = d /\ x \in Transactions
        /\ Transmitted(x) \in Transactions
        /\ Transmitted(x).id = created + 1
        /\ Transmitted(x).mID = MidAt(firstMID, taken)
        /\ Transmitted(x).userData = d
        /\ Transmitted(x).retrans_counter = 2
    BY <1>3, <1>a, <2>1, NewTransaction
  <2> QED BY <2>2
<1> HIDE DEF x
<1>5. CASE Request(p, tok, n)
  <2>1. /\ list' = list \cup {Transmitted(x)} /\ UNCHANGED <<freed, freedData, calls>>
        /\ sent' = [sent EXCEPT ![created + 1] = sent[created + 1] + 1]
    BY <1>0, <1>4, <1>5 DEF Request, Sends
  <2>2. ListInv(list \cup {Transmitted(x)}, firstMID, taken + 1, created + 1, freed, freedData,
                calls, [sent EXCEPT ![created + 1] = sent[created + 1] + 1])
    BY <1>1, <1>2, <1>4, AddOne DEF CurrentList
  <2> QED
    BY <1>1, <1>2, <2>1, <2>2 DEF CurrentList
<1>6. ListRm(list \cup {x}, x.mID) = list
  <2> QED BY <1>2, <1>4, UnlistNew
<1>7. CASE RequestFails(p, tok, n)
  <2>1. /\ list' = list /\ freed' = freed \cup {created + 1}
        /\ UNCHANGED <<freedData, calls, sent>>
    BY <1>0, <1>4, <1>6, <1>7 DEF RequestFails, transaction_remove
  <2>2. ListInv(list, firstMID, taken + 1, created + 1, freed \cup {created + 1},
                freedData, calls, sent)
    BY <1>1, <1>2, SkipOne DEF CurrentList
  <2> QED
    BY <1>1, <1>2, <2>1, <2>2 DEF CurrentList
<1>8. CASE RequestWithoutClock(p, tok, n)
  <2>1. \A y \in list \cup {x} : y.userData = x.userData => y.id = x.id
    BY <1>4 DEF CurrentList, ListInv, Transactions, Tid
  <2>2. FreeUserData(list \cup {x}, x) = freedData \cup {created + 1}
    BY <1>4, <2>1 DEF FreeUserData
  <2>3. /\ list' = list /\ freed' = freed \cup {created + 1}
        /\ freedData' = freedData \cup {created + 1}
        /\ calls' = [calls EXCEPT ![created + 1] = calls[created + 1] + 1]
        /\ sent' = [sent EXCEPT ![created + 1] = sent[created + 1] + 1]
    BY <1>0, <1>4, <1>6, <1>8, <2>2 DEF RequestWithoutClock, transaction_remove, Callback, Sends
  <2>4. ListInv(list, firstMID, taken + 1, created + 1, freed \cup {created + 1},
                freedData \cup {created + 1},
                [calls EXCEPT ![created + 1] = calls[created + 1] + 1],
                [sent EXCEPT ![created + 1] = sent[created + 1] + 1])
    BY <1>1, <1>2, SkipOne DEF CurrentList
  <2> QED
    BY <1>1, <1>2, <2>3, <2>4 DEF CurrentList
<1> QED
  BY <1>5, <1>7, <1>8

\* What a next block can be.
LEMMA NextBlockFields ==
    ASSUME NEW x \in Transactions, NEW m, NEW next \in NextBlocks(x, m)
    PROVE  next.kind \in Kinds /\ next.left \in Nat
<1>1. \/ next \in [kind : {"block1"}, left : Left(x)] /\ x.left > 0
      \/ next \in [kind : {"block1"}, left : 0 .. MaxBlocks - 1]
      \/ next \in [kind : {"block2"}, left : {0}]
  BY DEF NextBlocks, NextBlock1, RetryBlock1, ChangeToBlock1, GetBlock2
<1>2. x.left > 0 => \A n \in Left(x) : n \in Nat
  BY DEF Left, Transactions
<1> QED BY <1>1, <1>2 DEF Kinds

\* The list stays consistent when a packet is handled, with the next block of a
\* transfer inserted before transaction_handleResponse runs.
LEMMA PacketKeeps ==
    ASSUME CurrentList, Control, NEW m \in Messages, OnePacket(m)
    PROVE  CurrentList'
<1>1. now \in Nat
  BY DEF Control
<1>2. CASE HandlePacket(m)
  <2>1. ListInv(list', firstMID, taken, created, freed', freedData', calls', sent)
    BY <1>1, <1>2, ResponseKeeps DEF CurrentList, HandlePacket
  <2> QED
    BY <1>2, <2>1 DEF CurrentList, HandlePacket, mids
<1>3. CASE HandlePacketNextBlock(m)
  <2> DEFINE se == [sent EXCEPT ![created + 1] = sent[created + 1] + 1]
  <2>1. created < MaxTrans /\ TakeMID /\ created' = created + 1
    BY <1>3 DEF HandlePacketNextBlock
  <2>2. taken < MaxMids /\ taken' = taken + 1 /\ firstMID' = firstMID
    BY <2>1, TakeMIDKeeps
  <2>0. PICK x \in Addressed(m) : \E next \in NextBlocks(x, m) :
          LET c == transaction_new(x.peer, x.token, next.kind, next.left, x.userData)
          IN  Sends(c.id) /\ transaction_handleResponse(list \cup {Transmitted(c)}, m)
    BY <1>3 DEF HandlePacketNextBlock
  <2>3. PICK next \in NextBlocks(x, m) :
          LET c == transaction_new(x.peer, x.token, next.kind, next.left, x.userData)
          IN  Sends(c.id) /\ transaction_handleResponse(list \cup {Transmitted(c)}, m)
    BY <2>0
  <2>4. x \in list /\ x \in Transactions
    BY DEF Addressed, CurrentList, ListInv
  <2>5. next.kind \in Kinds /\ next.left \in Nat
    BY <2>4, NextBlockFields
  <2>6. PICK p \in Peers, tok \in Mids \cup {NoToken}, k \in Kinds, n \in Nat, d \in Tid :
            /\ p = x.peer /\ tok = x.token /\ k = next.kind
            /\ n = next.left /\ d = x.userData
    BY <2>4, <2>5 DEF Transactions
  <2> DEFINE c == transaction_new(p, tok, k, n, d)
             L == list \cup {Transmitted(c)}
  <2>7. /\ c.id = created + 1
        /\ Transmitted(c) \in Transactions
        /\ Transmitted(c).id = created + 1
        /\ Transmitted(c).mID = MidAt(firstMID, taken)
        /\ Transmitted(c).userData = d
        /\ Transmitted(c).retrans_counter = 2
    BY <2>1, NewTransaction
  <2>8. sent' = se /\ transaction_handleResponse(L, m)
    BY <2>3, <2>6, <2>7 DEF Sends
  <2>9. ListInv(L, firstMID, taken + 1, created + 1, freed, freedData, calls, se)
    <3>1. \E y \in list : y.userData = Transmitted(c).userData
      BY <2>4, <2>6, <2>7
    <3> HIDE DEF c
    <3> QED BY <2>1, <2>2, <2>7, <3>1, AddOne DEF CurrentList
  <2> HIDE DEF L, se
  <2>10. ListInv(list', firstMID, taken + 1, created + 1, freed', freedData', calls', se)
    BY <1>1, <2>8, <2>9, ResponseKeeps
  <2> QED
    BY <2>1, <2>2, <2>8, <2>10 DEF CurrentList
<1>4. CASE HandlePacketNextBlockFails(m)
  <2>1. taken < MaxMids /\ taken' = taken + 1 /\ firstMID' = firstMID
    BY <1>4, TakeMIDKeeps DEF HandlePacketNextBlockFails
  <2>2. ListInv(list, firstMID, taken + 1, created, freed, freedData, calls, sent)
    BY <2>1, SkipOne DEF CurrentList
  <2>3. ListInv(list', firstMID, taken + 1, created, freed', freedData', calls', sent)
    BY <1>1, <1>4, <2>2, ResponseKeeps DEF HandlePacketNextBlockFails
  <2> QED
    BY <1>4, <2>1, <2>3 DEF CurrentList, HandlePacketNextBlockFails
<1>5. CASE HandlePacketBadBlock2(m) \/ HandlePacketNull(m) \/ HandlePacketDivides(m)
  BY <1>5 DEF HandlePacketBadBlock2, HandlePacketNull, HandlePacketDivides, CurrentList, mids, history
<1> QED
  BY <1>2, <1>3, <1>4, <1>5 DEF OnePacket

\* The list stays consistent through the walk of transaction_step.
LEMMA StepKeeps ==
    ASSUME CurrentList, Control, Step
    PROVE  CurrentList'
<1>1. CASE StepBegin \/ StepWaits \/ StepEnd
  BY <1>1 DEF StepBegin, StepWaits, StepEnd, Visit, CurrentList, mids, history
<1>2. CASE StepSends
  <2>1. PICK x \in list : /\ Visit(x) /\ CanSend(x)
                          /\ list' = (list \ {x}) \cup {Transmitted(x)}
                          /\ Sends(x.id)
                          /\ UNCHANGED <<freed, freedData, calls>>
    BY <1>2 DEF StepSends
  <2>2. x \in Transactions /\ x.retrans_counter >= 2 /\ now \in Nat
    BY DEF CurrentList, ListInv, Control
  <2>3. x.retrans_counter \in Nat /\ x.retrans_counter # 0
    BY <2>2 DEF Transactions
  <2>4. /\ Transmitted(x) \in Transactions
        /\ Transmitted(x).id = x.id /\ Transmitted(x).mID = x.mID
        /\ Transmitted(x).userData = x.userData
        /\ Transmitted(x).retrans_counter = x.retrans_counter + 1
    BY <2>2, <2>3, TransmittedFields
  <2>5. ListInv((list \ {x}) \cup {Transmitted(x)}, firstMID, taken, created, freed,
                freedData, calls, [sent EXCEPT ![x.id] = sent[x.id] + 1])
    BY <2>1, <2>4, ResendOne DEF CurrentList, CanSend
  <2>6. UNCHANGED <<firstMID, taken, created>> /\ sent' = [sent EXCEPT ![x.id] = sent[x.id] + 1]
    BY <2>1 DEF Visit, mids, Sends
  <2> QED
    BY <2>1, <2>5, <2>6 DEF CurrentList
<1>3. CASE StepExpires
  <2>1. PICK x \in list : /\ Visit(x) /\ Callback(list, x) /\ transaction_remove(list, x)
                          /\ UNCHANGED <<sent, lastTx>>
    BY <1>3 DEF StepExpires
  <2>2. list \in SUBSET Transactions /\ UniqueMids(list)
    BY DEF CurrentList, ListInv
  <2>3. list' = list \ {x} /\ freed' = freed \cup {x.id}
    BY <2>1, <2>2, ListRmExact DEF transaction_remove
  <2>4. /\ calls' = [calls EXCEPT ![x.id] = calls[x.id] + 1]
        /\ freedData' = IF \E y \in list : y.userData = x.userData /\ y.id # x.id
                        THEN freedData ELSE freedData \cup {x.userData}
    BY <2>1 DEF Callback, FreeUserData
  <2>5. ListInv(list \ {x}, firstMID, taken, created, freed \cup {x.id},
                IF \E y \in list : y.userData = x.userData /\ y.id # x.id
                THEN freedData ELSE freedData \cup {x.userData},
                [calls EXCEPT ![x.id] = calls[x.id] + 1], sent)
    BY DropOne DEF CurrentList
  <2>6. UNCHANGED <<firstMID, taken, created, sent>>
    BY <2>1 DEF Visit, mids
  <2> QED
    BY <2>3, <2>4, <2>5, <2>6 DEF CurrentList
<1> QED
  BY <1>1, <1>2, <1>3 DEF Step

\* The empty list is consistent with any consistent history.
LEMMA EmptyList ==
    ASSUME NEW f \in Mids, NEW tk \in 0 .. MaxMids, NEW cr \in 0 .. MaxTrans,
           NEW fr \in SUBSET Tid, NEW fd \in SUBSET Tid,
           NEW ca \in [Tid -> Nat], NEW se \in [Tid -> Nat],
           \A t \in fr : t <= cr, \A t \in fd : t <= cr,
           \A t \in Tid : ca[t] <= 1, \A t \in Tid : t > cr => ca[t] = 0,
           \A t \in Tid : se[t] <= MaxRetransmit + 1, \A t \in Tid : t > cr => se[t] = 0
    PROVE  ListInv({}, f, tk, cr, fr, fd, ca, se)
BY DEF ListInv, UniqueMids

\* ... and through the removal of a client, the end of the context and time.
LEMMA RemovalKeeps ==
    ASSUME CurrentList, Control,
           OtherMID \/ Close \/ Tick \/ \E p \in Peers : RemoveClient(p)
    PROVE  CurrentList'
<1>1. CASE OtherMID
  <2>1. taken < MaxMids /\ taken' = taken + 1 /\ firstMID' = firstMID
    BY <1>1, TakeMIDKeeps DEF OtherMID
  <2>2. ListInv(list, firstMID, taken + 1, created, freed, freedData, calls, sent)
    BY <2>1, SkipOne DEF CurrentList
  <2> QED
    BY <1>1, <2>1, <2>2 DEF CurrentList, OtherMID, history
<1>2. CASE Close
  <2>1. \A t \in Listed : t \in Tid /\ t <= created /\ calls[t] = 0
    BY DEF CurrentList, ListInv, Listed, Transactions
  <2>2. /\ calls' \in [Tid -> Nat]
        /\ \A t \in Tid : calls'[t] <= 1
        /\ \A t \in Tid : t > created => calls'[t] = 0
    <3>1. calls' = [t \in Tid |-> IF t \in Listed THEN calls[t] + 1 ELSE calls[t]]
      BY <1>2 DEF Close
    <3>2. created \in Nat /\ \A t \in Tid : t \in Nat
      BY DEF CurrentList, ListInv, Tid
    <3>3. calls \in [Tid -> Nat]
      BY DEF CurrentList, ListInv
    <3>5. \A t \in Tid : calls'[t] = IF t \in Listed THEN calls[t] + 1 ELSE calls[t]
      BY <3>1
    <3>6. calls' \in [Tid -> Nat]
      BY <3>1, <3>3
    <3>7. ASSUME NEW t \in Tid
          PROVE  calls'[t] <= 1 /\ (t > created => calls'[t] = 0)
      <4>1. CASE t \in Listed
        <5>1. calls[t] = 0 /\ t <= created
          BY <2>1, <4>1
        <5>2. calls'[t] = calls[t] + 1
          BY <3>5, <4>1
        <5>3. calls'[t] = 1
          BY <5>1, <5>2
        <5>4. ~(t > created)
          BY <3>2, <5>1
        <5> QED BY <5>3, <5>4
      <4>2. CASE t \notin Listed
        <5>1. calls'[t] = calls[t]
          BY <3>5, <4>2
        <5>2. calls[t] <= 1 /\ (t > created => calls[t] = 0)
          BY DEF CurrentList, ListInv
        <5> QED BY <5>1, <5>2
      <4> QED BY <4>1, <4>2
    <3> QED BY <3>6, <3>7
  <2>3. \A d \in {x.userData : x \in list} : d \in Tid /\ d <= created
    BY DEF CurrentList, ListInv, Transactions
  <2>4. /\ list' = {} /\ freed' = freed \cup Listed
        /\ freedData' = freedData \cup {x.userData : x \in list}
        /\ UNCHANGED <<firstMID, taken, created, sent>>
    BY <1>2 DEF Close, mids
  <2>5. /\ freed' \in SUBSET Tid /\ \A t \in freed' : t <= created
        /\ freedData' \in SUBSET Tid /\ \A t \in freedData' : t <= created
    BY <2>1, <2>3, <2>4 DEF CurrentList, ListInv
  <2>6. ListInv({}, firstMID, taken, created, freed', freedData', calls', sent)
    <3>1. /\ firstMID \in Mids /\ taken \in 0 .. MaxMids /\ created \in 0 .. MaxTrans
          /\ sent \in [Tid -> Nat]
          /\ \A t \in Tid : sent[t] <= MaxRetransmit + 1
          /\ \A t \in Tid : t > created => sent[t] = 0
      BY DEF CurrentList, ListInv
    <3> QED BY <2>2, <2>5, <3>1, EmptyList, Zenon
  <2> QED
    BY <2>4, <2>6 DEF CurrentList
<1>3. CASE Tick
  BY <1>3 DEF Tick, CurrentList, mids, history
<1>4. CASE \E p \in Peers : RemoveClient(p)
  <2>1. PICK p \in Peers : RemoveClient(p)
    BY <1>4
  <2>2. /\ list' \subseteq list
        /\ freed' = freed \cup {x.id : x \in {y \in list : y.peer = p}}
        /\ \A x \in list' : x.peer # p
        /\ UNCHANGED <<firstMID, taken, created, freedData, calls, sent>>
    BY <2>1 DEF RemoveClient, mids, history
  <2>3. \A x \in list' : x.id \notin freed'
    BY <2>2 DEF CurrentList, ListInv
  <2>4. freed' \in SUBSET Tid /\ \A t \in freed' : t <= created
    BY <2>2 DEF CurrentList, ListInv, Transactions
  <2>5. \A x \in list' : x \in list
    BY <2>2
  <2>6. ListInv(list', firstMID, taken, created, freed', freedData, calls, sent)
    BY <2>3, <2>4, <2>5 DEF CurrentList, ListInv, UniqueMids
  <2> QED
    BY <2>2, <2>6 DEF CurrentList
<1> QED
  BY <1>1, <1>2, <1>3, <1>4

\* The clock, the timers and the variables of the walk keep their types, and
\* nextMID stays the next message ID of the window.
LEMMA ControlKeeps ==
    ASSUME CurrentList, Control, Next
    PROVE  Control'
<1>1. /\ now \in Nat /\ stepTime \in Nat /\ lastTx \in [Tid -> Nat] /\ timeout \in Int
      /\ pc \in {"idle", "step", "closed", "crashed", "divided"} /\ cursor \in Tid \cup {0}
      /\ packets \in 0 .. MaxPackets
  BY DEF Control
<1>2. inCallback \in BOOLEAN
  BY Zenon DEF Control
<1>3. \A t \in Tid : [lastTx EXCEPT ![t] = now] \in [Tid -> Nat]
  BY <1>1
<1>4. nextMID' = MidAt(firstMID', taken')
  <2>1. CASE TakeMID
    BY <2>1, TakeMIDKeeps
  <2>2. CASE UNCHANGED mids
    BY <2>2 DEF mids, Control
  <2> QED
    BY <2>1, <2>2 DEF Next, Application, Packet, Step, Request, RequestFails,
       RequestWithoutClock, OtherMID, RemoveClient, Close, OnePacket, HandlePacket,
       HandlePacketNextBlock, HandlePacketNextBlockFails, HandlePacketBadBlock2,
       HandlePacketNull, HandlePacketDivides, NewRequest, StepBegin, StepWaits,
       StepSends, StepExpires, StepEnd, Visit, Tick
<1>5. created < MaxTrans => created + 1 \in Tid
  BY DEF CurrentList, ListInv, Tid
<1>6. CASE Application
  <2>1. CASE \E p \in Peers, tok \in Tokens, n \in 0 .. MaxBlocks - 1 :
                Request(p, tok, n) \/ RequestWithoutClock(p, tok, n)
    <3>1. lastTx' = [lastTx EXCEPT ![created + 1] = now] /\ created < MaxTrans
      BY <2>1 DEF NewRequest, Request, RequestWithoutClock, Sends, transaction_new
    <3>2. UNCHANGED <<now, pc, cursor, inCallback, stepTime, timeout, packets>>
      BY <2>1 DEF Request, RequestWithoutClock, walk
    <3> QED
      BY <1>1, <1>2, <1>3, <1>4, <1>5, <3>1, <3>2 DEF Control
  <2>2. CASE \/ \E p \in Peers, tok \in Tokens, n \in 0 .. MaxBlocks - 1 : RequestFails(p, tok, n)
             \/ OtherMID \/ Close
             \/ \E p \in Peers : RemoveClient(p)
    <3>1. UNCHANGED <<now, lastTx, cursor, inCallback, stepTime, timeout, packets>>
      BY <2>2 DEF RequestFails, OtherMID, Close, RemoveClient, walk, history
    <3>2. pc' = pc \/ pc' = "closed"
      BY <2>2 DEF RequestFails, OtherMID, Close, RemoveClient
    <3> QED
      BY <1>1, <1>2, <1>4, <3>1, <3>2 DEF Control
  <2> QED
    BY <1>6, <2>1, <2>2 DEF Application
<1>7. CASE Packet
  <2>1. PICK m \in Messages : OnePacket(m)
    BY <1>7 DEF Packet
  <2>2. Received(m)
    BY <2>1 DEF OnePacket, HandlePacket, HandlePacketNextBlock, HandlePacketNextBlockFails,
                HandlePacketBadBlock2, HandlePacketNull, HandlePacketDivides
  <2>3. /\ UNCHANGED <<now, cursor, inCallback, stepTime, timeout>>
        /\ packets' = packets + 1 /\ packets < MaxPackets
        /\ pc' = pc \/ pc' \in {"crashed", "divided"}
    BY <2>1, <2>2 DEF Received, walk, OnePacket, HandlePacket, HandlePacketNextBlock,
                HandlePacketNextBlockFails, HandlePacketBadBlock2, HandlePacketNull, HandlePacketDivides
  <2>4. lastTx' = lastTx \/ (lastTx' = [lastTx EXCEPT ![created + 1] = now] /\ created < MaxTrans)
    BY <2>1 DEF OnePacket, HandlePacket, HandlePacketNextBlock, HandlePacketNextBlockFails,
                HandlePacketBadBlock2, HandlePacketNull, HandlePacketDivides, Sends, transaction_new, history
  <2>5. packets' \in 0 .. MaxPackets
    BY <1>1, <2>3
  <2> QED
    BY <1>1, <1>2, <1>3, <1>4, <1>5, <2>3, <2>4, <2>5 DEF Control
<1>8. CASE StepBegin
  <2>1. FirstP(list) \in Tid \cup {0}
    BY FirstOfLeads DEF CurrentList, ListInv, FirstP, Transactions
  <2>2. UNCHANGED <<now, lastTx, inCallback, packets>>
    BY <1>8 DEF StepBegin, history
  <2>3. cursor' = FirstP(list) /\ stepTime' = now /\ timeout' = MaxWait /\ pc' = "step"
    BY <1>8 DEF StepBegin
  <2> QED
    BY <1>1, <1>2, <1>4, <2>1, <2>2, <2>3 DEF Control
<1>9. CASE StepWaits \/ StepSends \/ StepExpires
  <2>1. PICK x \in list : /\ Visit(x)
                          /\ \/ timeout' = Shorten(x)
                             \/ timeout' = Shorten(Transmitted(x))
                             \/ timeout' = 1
                          /\ inCallback' = TRUE \/ inCallback' = FALSE
                          /\ lastTx' = lastTx \/ lastTx' = [lastTx EXCEPT ![x.id] = now]
    BY <1>9 DEF StepWaits, StepSends, StepExpires, Sends, history
  <2>2. x \in Transactions /\ x.id \in Tid /\ UniqueMids(list) /\ list \in SUBSET Transactions
    BY DEF CurrentList, ListInv, Transactions
  <2>3. NextP(list, x) \in Tid \cup {0}
    BY <2>2, NextPFollows DEF Transactions
  <2>4. cursor' = NextP(list, x) /\ UNCHANGED <<now, pc, stepTime, packets>>
    BY <2>1 DEF Visit
  <2>5. Transmitted(x) \in Transactions
    <3>1. x.retrans_counter \in Nat /\ x.retrans_counter # 0
      BY <2>2 DEF CurrentList, ListInv, Transactions
    <3> QED BY <1>1, <2>2, <3>1, TransmittedFields
  <2>6. timeout' \in Int
    <3>1. \A y \in Transactions : Shorten(y) \in Int
      BY <1>1 DEF Shorten, Transactions
    <3> QED BY <2>1, <2>2, <2>5, <3>1
  <2> QED
    BY <1>1, <1>3, <1>4, <2>1, <2>2, <2>3, <2>4, <2>6 DEF Control
<1>10. CASE StepEnd \/ Tick
  <2>1. /\ UNCHANGED <<lastTx, packets, cursor>>
        /\ now' = now \/ now' = now + 1
        /\ stepTime' = stepTime \/ stepTime' = 0
        /\ timeout' = timeout \/ timeout' = MaxWait
        /\ pc' = pc \/ pc' = "idle"
    BY <1>10 DEF StepEnd, Tick, walk, history
  <2>2. inCallback' = inCallback \/ inCallback' = FALSE
    BY <1>10 DEF StepEnd, Tick, walk
  <2>3. inCallback' \in BOOLEAN
    BY <1>2, <2>2, Zenon
  <2>4. /\ now' \in Nat /\ stepTime' \in Nat /\ timeout' \in Int
        /\ pc' \in {"idle", "step", "closed", "crashed", "divided"}
    BY <1>1, <2>1
  <2> QED
    BY <1>1, <1>4, <2>1, <2>3, <2>4 DEF Control
<1> QED
  BY <1>6, <1>7, <1>8, <1>9, <1>10 DEF Next, Step
----------------------------------------------------------------------------
(* The walk                                                                *)

\* Outside the walk there is nothing to cover.
LEMMA IdleWalk ==
    ASSUME WalkInv, pc = "idle", UNCHANGED <<cursor, inCallback>>, pc' # "step"
    PROVE  WalkInv'
BY DEF WalkInv

\* A callback may insert requests behind the walk: timeout is 1 by then.
LEMMA ApiWalk ==
    ASSUME WalkInv, ApiAllowed, list \subseteq list',
           UNCHANGED <<pc, cursor, inCallback, stepTime, timeout>>
    PROVE  WalkInv'
<1>1. CASE pc = "idle"
  BY <1>1, IdleWalk
<1>2. CASE pc # "idle"
  <2>1. inCallback /\ timeout <= 1
    BY <1>2 DEF ApiAllowed, WalkInv
  <2>2. inCallback' /\ timeout' <= 1
    BY <2>1
  <2>3. pc = "step"
    BY <2>1 DEF WalkInv
  <2> QED
    BY <2>2, <2>3 DEF WalkInv
<1> QED
  BY <1>1, <1>2

\* A step of the walk that replaces the visited transaction x by z, or takes it
\* out, and leaves a timeout that covers what took its place.
LEMMA VisitWalk ==
    ASSUME CurrentList, Control, WalkInv, pc = "step", NEW x \in list, Visit(x),
           timeout' \in Int, timeout' <= timeout \/ timeout' <= 1,
           inCallback' => timeout' <= 1,
           NEW Z, list' = (list \ {x}) \cup Z,
           \A z \in Z : /\ z \in Transactions /\ z.mID = x.mID
                        /\ timeout' <= 1 \/ timeout' <= z.retrans_time - stepTime
    PROVE  WalkInv'
<1>1. /\ list \in SUBSET Transactions /\ UniqueMids(list) /\ x \in Transactions
      /\ \A y, w \in list : y.id = w.id => y = w
  BY DEF CurrentList, ListInv
<1>2. cursor' = NextP(list, x) /\ pc' = "step" /\ stepTime' = stepTime /\ cursor # 0
  BY DEF Visit
<1>3. x.id = cursor
  <2>1. \E y \in list : y.id = cursor
    BY <1>2 DEF WalkInv
  <2> QED BY <2>1 DEF Visit, Node
<1>4. timeout \in Int /\ stepTime \in Nat /\ \A y \in list : y.retrans_time \in Int /\ y.mID \in Int
  BY <1>1 DEF Control, Transactions, Mids
<1>5. \A y \in list : Before(y, x) => timeout <= 1 \/ timeout <= y.retrans_time - stepTime
  BY <1>3 DEF WalkInv, Passed
<1>6. \A y \in list : Before(y, x) => timeout' <= 1 \/ timeout' <= y.retrans_time - stepTime
  BY <1>4, <1>5
<1>7. \A y \in list : y = x \/ Before(y, x) \/ Before(x, y)
  BY <1>1, <1>4 DEF Before, UniqueMids
<1>8. CASE cursor' = 0
  <2>1. \A y \in list : ~Before(x, y)
    <3>1. \A h \in list : h.id # 0
      BY <1>1 DEF Transactions, Tid
    <3>2. \/ NextP(list, x) = 0 /\ \A y \in list : ~Before(x, y)
          \/ \E h \in list : NextP(list, x) = h.id
      BY <1>1, NextPFollows
    <3> QED BY <1>2, <1>8, <3>1, <3>2
  <2>2. \A y \in list' : timeout' <= 1 \/ timeout' <= y.retrans_time - stepTime
    BY <1>6, <1>7, <2>1
  <2> QED
    BY <1>2, <1>8, <2>2 DEF WalkInv
<1>9. CASE cursor' # 0
  <2>1. PICK h \in list : /\ cursor' = h.id /\ Before(x, h)
                          /\ \A y \in list : Before(x, y) => y = h \/ Before(h, y)
    BY <1>1, <1>2, <1>9, NextPFollows
  <2>2. h # x /\ h \in list'
    <3>1. x.mID \in Int /\ x.id \in Int
      BY <1>1 DEF Transactions, Mids, Tid
    <3> QED BY <2>1, <3>1 DEF Before
  <2>3. ASSUME NEW y \in list', NEW w \in list', w.id = cursor', Before(y, w)
        PROVE  timeout' <= 1 \/ timeout' <= y.retrans_time - stepTime
    <3>1. CASE y \in Z
      BY <3>1
    <3>2. CASE y \in list /\ y # x
      <4>1. w.mID = h.mID \/ w.mID = x.mID
        BY <2>1, <2>3, <1>1
      <4>2. /\ y.mID \in Int /\ x.mID \in Int /\ h.mID \in Int /\ w.mID \in Int
            /\ y.id \in Int /\ h.id \in Int
        BY <2>3, <3>2, <1>1 DEF Transactions, Mids, Tid
      <4>3. x.mID < h.mID /\ y.mID # x.mID
        BY <1>1, <2>1, <2>2, <3>2, <4>2 DEF Before, UniqueMids
      <4>4. y.mID <= h.mID
        BY <2>3, <4>1, <4>2, <4>3 DEF Before
      <4>5. CASE Before(x, y)
        <5>1. y = h \/ Before(h, y)
          BY <2>1, <3>2, <4>5
        <5>2. y = h
          BY <1>1, <3>2, <4>2, <4>4, <5>1 DEF Before, UniqueMids
        <5>3. w.mID = h.mID => w = h
          BY <1>1, <2>1, <2>3, <4>2, <4>3 DEF UniqueMids
        <5> QED BY <2>3, <4>1, <4>2, <4>3, <5>2, <5>3 DEF Before
      <4>6. CASE Before(y, x)
        BY <1>6, <3>2, <4>6
      <4> QED BY <1>7, <3>2, <4>5, <4>6
    <3> QED BY <2>3, <3>1, <3>2
  <2> QED
    BY <1>2, <1>9, <2>1, <2>2, <2>3 DEF WalkInv, Passed
<1> QED
  BY <1>8, <1>9

\* A call of the application takes no transaction out of the list.
LEMMA ApiOnlyAdds ==
    ASSUME CurrentList, Control,
           NEW p \in Peers, NEW tok \in Tokens, NEW n \in 0 .. MaxBlocks - 1,
           Request(p, tok, n) \/ RequestFails(p, tok, n) \/ RequestWithoutClock(p, tok, n)
    PROVE  list \subseteq list'
<1>1. CASE Request(p, tok, n)
  BY <1>1 DEF Request
<1>2. CASE RequestFails(p, tok, n) \/ RequestWithoutClock(p, tok, n)
  <2> DEFINE d == created + 1
             k == IF n > 0 THEN "block1" ELSE "plain"
             x == transaction_new(p, tok, k, n, d)
  <2>a. k \in Kinds
    BY DEF Kinds
  <2>1. TakeMID /\ created < MaxTrans /\ list' = ListRm(list \cup {x}, x.mID)
    BY <1>2 DEF NewRequest, RequestFails, RequestWithoutClock, transaction_remove
  <2>2. taken < MaxMids
    BY <2>1 DEF TakeMID
  <2>3. tok \in Mids \cup {NoToken} /\ n \in Nat /\ d \in Tid
    <3>1. nextMID \in Mids
      BY DEF CurrentList, ListInv, Control, MidAt, Mids
    <3>2. n \in Nat /\ d \in Tid
      BY <2>1 DEF CurrentList, ListInv, Tid
    <3> QED BY <3>1, <3>2 DEF Tokens
  <2>4. x \in Transactions /\ x.mID = MidAt(firstMID, taken)
    <3> HIDE DEF k, d
    <3> QED BY <2>1, <2>3, <2>a, NewTransaction
  <2> HIDE DEF x
  <2>5. list' = list
    BY <2>1, <2>2, <2>4, UnlistNew
  <2> QED BY <2>5
<1> QED
  BY <1>1, <1>2

\* The walk leaves no gap: what it has passed is covered, the cursor is listed.
LEMMA WalkKeeps ==
    ASSUME CurrentList, Control, WalkInv, Next
    PROVE  WalkInv'
<1>1. CASE \/ \E p \in Peers, tok \in Tokens, n \in 0 .. MaxBlocks - 1 :
                Request(p, tok, n) \/ RequestFails(p, tok, n) \/ RequestWithoutClock(p, tok, n)
           \/ OtherMID
  <2>1. ApiAllowed /\ UNCHANGED <<pc, cursor, inCallback, stepTime, timeout>>
    BY <1>1 DEF Request, RequestFails, RequestWithoutClock, OtherMID, walk
  <2>2. list \subseteq list'
    BY <1>1, ApiOnlyAdds DEF OtherMID
  <2> QED
    BY <2>1, <2>2, ApiWalk
<1>2. CASE Close \/ Tick \/ Packet \/ \E p \in Peers : RemoveClient(p)
  <2>1. pc = "idle" /\ pc' # "step" /\ UNCHANGED <<cursor, inCallback>>
    BY <1>2 DEF Close, Tick, Packet, OnePacket, RemoveClient, HandlePacket,
                HandlePacketNextBlock, HandlePacketNextBlockFails, HandlePacketBadBlock2,
                HandlePacketNull, HandlePacketDivides, Received, walk
  <2> QED
    BY <2>1, IdleWalk
<1>3. CASE StepBegin
  <2>1. /\ pc = "idle" /\ cursor' = FirstP(list) /\ UNCHANGED <<list, inCallback>>
        /\ pc' = "step" /\ timeout' = MaxWait /\ stepTime' = now
    BY <1>3 DEF StepBegin
  <2>2. ~inCallback'
    BY <2>1 DEF WalkInv
  <2>3. CASE list = {}
    BY <2>1, <2>2, <2>3 DEF WalkInv, FirstP
  <2>4. CASE list # {}
    <3> DEFINE h == FirstOf(list)
    <3>1. list \in SUBSET Transactions /\ UniqueMids(list)
          /\ \A y, w \in list : y.id = w.id => y = w
      BY DEF CurrentList, ListInv
    <3>2. h \in list /\ \A y \in list : h = y \/ Before(h, y)
      BY <2>4, <3>1, FirstOfLeads
    <3>3. cursor' = h.id
      BY <2>1, <2>4 DEF FirstP
    <3> HIDE DEF h
    <3>4. \A y \in list : ~Before(y, h) /\ y.id # 0
      BY <3>1, <3>2 DEF Before, Transactions, Mids, Tid
    <3>5. \A y \in list : ~(cursor' = 0 \/ \E w \in list : w.id = cursor' /\ Before(y, w))
      BY <3>1, <3>2, <3>3, <3>4
    <3> QED
      BY <2>1, <2>2, <3>2, <3>3, <3>5 DEF WalkInv, Passed
  <2> QED
    BY <2>3, <2>4
<1>4. CASE StepWaits \/ StepSends \/ StepExpires
  <2>1. PICK x \in list :
          /\ Visit(x)
          /\ \/ list' = list /\ timeout' = Shorten(x) /\ ~inCallback' /\ ~Due(x)
             \/ /\ list' = (list \ {x}) \cup {Transmitted(x)} /\ ~inCallback'
                /\ timeout' = Shorten(Transmitted(x))
             \/ transaction_remove(list, x) /\ timeout' = 1
    BY <1>4 DEF StepWaits, StepSends, StepExpires
  <2>2. list \in SUBSET Transactions /\ UniqueMids(list) /\ x \in Transactions /\ now \in Nat
    BY DEF CurrentList, ListInv, Control
  <2>3. Transmitted(x) \in Transactions /\ Transmitted(x).mID = x.mID
    BY <2>2, TransmittedFields
  <2>4. \A y \in Transactions :
          /\ Shorten(y) \in Int /\ Shorten(y) <= timeout
          /\ Shorten(y) <= 1 \/ Shorten(y) <= y.retrans_time - stepTime
    BY DEF Shorten, Transactions, Control
  <2>5. pc = "step"
    BY <2>1 DEF Visit
  <2>6. CASE list' = list /\ timeout' = Shorten(x) /\ ~inCallback'
    <3> DEFINE Z == {x}
    <3>1. list' = (list \ {x}) \cup Z
      BY <2>6
    <3>2. \A z \in Z : /\ z \in Transactions /\ z.mID = x.mID
                       /\ timeout' <= 1 \/ timeout' <= z.retrans_time - stepTime
      BY <2>2, <2>4, <2>6
    <3>3. timeout' \in Int /\ (timeout' <= timeout \/ timeout' <= 1)
      BY <2>2, <2>4, <2>6
    <3>4. inCallback' => timeout' <= 1
      BY <2>6
    <3> HIDE DEF Z
    <3> QED BY <2>1, <2>5, <3>1, <3>2, <3>3, <3>4, VisitWalk
  <2>7. CASE /\ list' = (list \ {x}) \cup {Transmitted(x)} /\ ~inCallback'
             /\ timeout' = Shorten(Transmitted(x))
    <3> DEFINE Z == {Transmitted(x)}
    <3>1. list' = (list \ {x}) \cup Z
      BY <2>7
    <3>2. \A z \in Z : /\ z \in Transactions /\ z.mID = x.mID
                       /\ timeout' <= 1 \/ timeout' <= z.retrans_time - stepTime
      BY <2>3, <2>4, <2>7
    <3>3. timeout' \in Int /\ (timeout' <= timeout \/ timeout' <= 1)
      BY <2>3, <2>4, <2>7
    <3>4. inCallback' => timeout' <= 1
      BY <2>7
    <3> HIDE DEF Z
    <3> QED BY <2>1, <2>5, <3>1, <3>2, <3>3, <3>4, VisitWalk
  <2>8. CASE transaction_remove(list, x) /\ timeout' = 1
    <3> DEFINE Z == {}
    <3>1. list' = (list \ {x}) \cup Z
      BY <2>2, <2>8, ListRmExact DEF transaction_remove
    <3>2. \A z \in Z : /\ z \in Transactions /\ z.mID = x.mID
                       /\ timeout' <= 1 \/ timeout' <= z.retrans_time - stepTime
      OBVIOUS
    <3>3. timeout' \in Int /\ timeout' <= 1
      BY <2>8
    <3> HIDE DEF Z
    <3> QED BY <2>1, <2>5, <3>1, <3>2, <3>3, VisitWalk
  <2> QED
    BY <2>1, <2>6, <2>7, <2>8
<1>5. CASE StepEnd
  BY <1>5 DEF StepEnd, WalkInv
<1> QED
  BY <1>1, <1>2, <1>3, <1>4, <1>5 DEF Next, Application, Step
\* IInv is inductive: every operation of the transaction layer preserves it.
LEMMA Inductive == IInv /\ [Next]_vars => IInv'
<1> SUFFICES ASSUME IInv, [Next]_vars PROVE IInv'
  OBVIOUS
<1>1. CurrentList /\ Control /\ WalkInv
  BY Split
<1>2. CASE UNCHANGED vars
  BY <1>2 DEF vars, IInv, TypeOK, MidInv, Issued, IdInv, CallInv, DataInv, SendInv, WalkInv,
              Passed
<1>3. CASE Next
  <2>1. CurrentList'
    <3>1. CASE \E p \in Peers, tok \in Tokens, n \in 0 .. MaxBlocks - 1 :
                Request(p, tok, n) \/ RequestFails(p, tok, n) \/ RequestWithoutClock(p, tok, n)
      BY <1>1, <3>1, RequestKeeps
    <3>2. CASE Packet
      BY <1>1, <3>2, PacketKeeps DEF Packet
    <3>3. CASE Step
      BY <1>1, <3>3, StepKeeps
    <3>4. CASE OtherMID \/ Close \/ Tick \/ \E p \in Peers : RemoveClient(p)
      BY <1>1, <3>4, RemovalKeeps
    <3> QED
      BY <1>3, <3>1, <3>2, <3>3, <3>4 DEF Next, Application
  <2>2. Control'
    BY <1>1, <1>3, ControlKeeps
  <2>3. WalkInv'
    BY <1>1, <1>3, WalkKeeps
  <2>4. (CurrentList /\ Control /\ WalkInv)' => IInv'
    BY Split, PTL
  <2> QED
    BY <2>1, <2>2, <2>3, <2>4
<1> QED
  BY <1>2, <1>3
----------------------------------------------------------------------------
(* Theorems                                                                *)

\* The inductive invariant holds in every reachable state of the transaction
\* layer, for any number of peers, message IDs, blocks and retransmissions.
THEOREM Invariance == Spec => []IInv
BY InitIInv, Inductive, PTL DEF Spec

\* Every variable of the transaction layer keeps its type.
THEOREM TypeCorrect == Spec => []TypeOK
<1>1. IInv => TypeOK
  BY DEF IInv
<1> QED
  BY <1>1, Invariance, PTL

\* transaction_remove, which searches by message ID and frees by pointer, never
\* leaves a freed transaction in the list.
THEOREM NoFreedIsListed == Spec => []ListedIsLive
<1>1. IInv => ListedIsLive
  BY DEF IInv, IdInv, ListedIsLive, Listed
<1> QED
  BY <1>1, Invariance, PTL

\* No callback is called twice, by responses, expiry, failed sending or Close.
THEOREM CallbackAtMostOnce == Spec => []CallbackOnce
<1>1. IInv => CallbackOnce
  BY DEF IInv, CallInv, CallbackOnce, Listed
<1> QED
  BY <1>1, Invariance, PTL

\* The pointer transaction_step caches over transaction_send is never dangling.
THEOREM WalkIsSafe == Spec => []CursorValid
<1>1. IInv => CursorValid
  BY DEF IInv, WalkInv, CursorValid, Listed
<1> QED
  BY <1>1, Invariance, PTL

\* The userData the blocks of a transfer share is not freed under a listed one.
THEOREM UserDataIsSafe == Spec => []UserDataLive
<1>1. IInv => UserDataLive
  BY DEF IInv, DataInv, UserDataLive
<1> QED
  BY <1>1, Invariance, PTL

\* transaction_step hands back a timeout that lets no retransmission be late.
THEOREM WakeupIsSound == Spec => []WakeupCovers
<1>1. IInv => WakeupCovers
  BY DEF IInv, WalkInv, WakeupCovers, Passed
<1> QED
  BY <1>1, Invariance, PTL

\* No message is sent more than 1 + COAP_MAX_RETRANSMIT times.
THEOREM TransmissionsBounded == Spec => []TransmissionBound
<1>1. IInv => TransmissionBound
  BY DEF IInv, SendInv, TransmissionBound
<1> QED
  BY <1>1, Invariance, PTL

\* A transaction that was not acknowledged leaves the list during the walk only
\* after all of its 1 + COAP_MAX_RETRANSMIT transmissions.
THEOREM NoneGivenUpEarly == Spec => NoEarlyExpiry
<1> DEFINE A == \A x \in list : pc = "step" /\ x.id \notin Listed' =>
                  x.ack_received \/ sent[x.id] = MaxRetransmit + 1
<1>1. ASSUME IInv, Next PROVE A
  <2> SUFFICES ASSUME NEW y \in list, pc = "step", y.id \notin Listed'
               PROVE  y.ack_received \/ sent[y.id] = MaxRetransmit + 1
    OBVIOUS
  <2>1. CurrentList /\ Control
    BY <1>1, Split
  <2>2. y \notin list'
    BY DEF Listed
  <2>3. ~ \E p \in Peers, tok \in Tokens, n \in 0 .. MaxBlocks - 1 :
            Request(p, tok, n) \/ RequestFails(p, tok, n) \/ RequestWithoutClock(p, tok, n)
    BY <2>1, <2>2, ApiOnlyAdds
  <2>4. ~(OtherMID \/ Close \/ Tick \/ Packet \/ \E p \in Peers : RemoveClient(p))
    BY <2>2 DEF OtherMID, Close, Tick, Packet, OnePacket, RemoveClient, HandlePacket, Received,
                HandlePacketNextBlock, HandlePacketNextBlockFails, HandlePacketBadBlock2,
                HandlePacketNull, HandlePacketDivides
  <2>5. ~(StepBegin \/ StepWaits \/ StepEnd)
    BY <2>2 DEF StepBegin, StepWaits, StepEnd
  <2>6. ASSUME StepSends PROVE FALSE
    <3>1. PICK x \in list : list' = (list \ {x}) \cup {Transmitted(x)}
      BY <2>6 DEF StepSends
    <3>2. x \in Transactions /\ now \in Nat
      BY <2>1 DEF CurrentList, ListInv, Control
    <3>3. Transmitted(x).id = x.id
      BY <3>2, TransmittedFields
    <3>4. y = x /\ Transmitted(x) \in list'
      BY <2>2, <3>1
    <3> QED BY <3>3, <3>4 DEF Listed
  <2>7. StepExpires
    BY <1>1, <2>3, <2>4, <2>5, <2>6 DEF Next, Application, Step
  <2>8. PICK x \in list : ~CanSend(x) /\ transaction_remove(list, x)
    BY <2>7 DEF StepExpires
  <2>9. list \in SUBSET Transactions /\ UniqueMids(list)
    BY <2>1 DEF CurrentList, ListInv
  <2>10. y = x
    BY <2>2, <2>8, <2>9, ListRmExact DEF transaction_remove
  <2>11. y.retrans_counter \in Nat /\ y.id \in Tid
    BY <2>9 DEF Transactions
  <2>12. sent[y.id] <= MaxRetransmit + 1 /\ sent[y.id] = y.retrans_counter - 1
    BY <1>1, <2>11 DEF IInv, SendInv
  <2> QED
    BY <2>8, <2>10, <2>11, <2>12 DEF CanSend
<1>2. IInv /\ [Next]_vars => [A]_vars
  BY <1>1
<1> QED
  BY <1>2, Invariance, PTL DEF Spec, NoEarlyExpiry
============================================================================
