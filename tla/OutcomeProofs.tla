--------------------------- MODULE OutcomeProofs ---------------------------
(***************************************************************************)
(* The refinement: Transaction implements Outcome.  Every step of the      *)
(* transaction layer is a step of Outcome or leaves its variables alone.   *)
(***************************************************************************)
EXTENDS TransactionProofs

USE PeersAssumption, SizeAssumption, MidAssumption, TimerAssumption
----------------------------------------------------------------------------
(* The refinement mapping                                                  *)

\* StatusOf and OwnedBy for a list, a history and identities of any state.
StatusIn(t, cr, L, ca) ==
    CASE t > cr -> "none"
      [] t \in L -> "pending"
      [] t <= cr /\ t \notin L /\ ca[t] = 0 -> "dropped"
      [] t <= cr /\ t \notin L /\ ca[t] # 0 -> "called"

Ids(L) == {x.id : x \in L}
Owned(L, p) == {x.id : x \in {y \in L : y.peer = p}}

\* calls after the transactions of S have got their callbacks.
CalledIn(ca, S) == [t \in Tid |-> IF t \in S THEN ca[t] + 1 ELSE ca[t]]

LEMMA MappedStatus ==
    /\ \A t : StatusOf(t) = StatusIn(t, created, Listed, calls)
    /\ \A t : StatusOf(t)' = StatusIn(t, created', Listed', calls')
    /\ Listed = Ids(list) /\ Listed' = Ids(list')
    /\ \A p : OwnedBy(p) = Owned(list, p) /\ OwnedBy(p)' = Owned(list', p)
BY DEF StatusOf, StatusIn, Listed, Ids, OwnedBy, Owned

LEMMA StatusValues ==
    ASSUME NEW cr \in Nat, NEW t \in Nat, NEW L, NEW ca, t \in L => t <= cr
    PROVE  /\ t > cr => StatusIn(t, cr, L, ca) = "none"
           /\ t \in L => StatusIn(t, cr, L, ca) = "pending"
           /\ t <= cr /\ t \notin L /\ ca[t] = 0 => StatusIn(t, cr, L, ca) = "dropped"
           /\ t <= cr /\ t \notin L /\ ca[t] # 0 => StatusIn(t, cr, L, ca) = "called"
<1>1. (t > cr) <=> ~(t <= cr)
  OBVIOUS
<1> QED
  BY <1>1 DEF StatusIn

LEMMA SameStatus ==
    ASSUME NEW t \in Nat, NEW cr \in Nat, NEW L, NEW ca, NEW cr2 \in Nat, NEW M, NEW cb,
           t \in L => t <= cr, t \in L <=> t \in M, t <= cr <=> t <= cr2, ca[t] = cb[t]
    PROVE  StatusIn(t, cr2, M, cb) = StatusIn(t, cr, L, ca)
<1>1. t > cr <=> ~(t <= cr)
  OBVIOUS
<1>2. t > cr2 <=> ~(t <= cr2)
  OBVIOUS
<1>3. CASE t > cr
  BY <1>1, <1>2, <1>3, StatusValues
<1>4. CASE t \in L
  BY <1>4, StatusValues
<1>5. CASE t <= cr /\ t \notin L /\ ca[t] = 0
  <2>1. t <= cr2 /\ t \notin M /\ cb[t] = 0
    BY <1>5
  <2>2. StatusIn(t, cr2, M, cb) = "dropped"
    BY <2>1, StatusValues
  <2> QED
    BY <1>5, <2>2, StatusValues
<1>6. CASE t <= cr /\ t \notin L /\ ca[t] # 0
  <2>1. t <= cr2 /\ t \notin M /\ cb[t] # 0
    BY <1>6
  <2>2. StatusIn(t, cr2, M, cb) = "called"
    BY <2>1, StatusValues
  <2> QED
    BY <1>6, <2>2, StatusValues
<1> QED
  BY <1>1, <1>3, <1>4, <1>5, <1>6

\* What the current state says of the requests.
LEMMA OutcomeFacts ==
    ASSUME CurrentList
    PROVE  /\ created \in Nat /\ created <= MaxTrans /\ calls \in [Tid -> Nat]
           /\ \A x \in list : x.peer \in Peers /\ x.id \in Tid /\ x.id <= created
           /\ \A t \in Listed : t \in Tid /\ t \in Nat /\ t <= created /\ calls[t] = 0
           /\ \A t \in Tid : t \in Nat /\ (t > created => calls[t] = 0 /\ t \notin Listed)
           /\ \A x, y \in list : x.id = y.id => x = y
           /\ \A t : t \in Listed <=> \E p \in Peers : t \in Owned(list, p)
<1>1. /\ created \in Nat /\ created <= MaxTrans /\ calls \in [Tid -> Nat]
      /\ \A x \in list : x.peer \in Peers /\ x.id \in Tid /\ x.id <= created /\ calls[x.id] = 0
      /\ \A x, y \in list : x.id = y.id => x = y
      /\ \A t \in Tid : t > created => calls[t] = 0
  BY DEF CurrentList, ListInv, Transactions
<1>2. \A t \in Tid : t \in Nat
  BY DEF Tid
<1>3. \A t \in Listed : t \in Tid /\ t \in Nat /\ t <= created /\ calls[t] = 0
  BY <1>1, <1>2 DEF Listed
<1>4. \A t \in Tid : t > created => t \notin Listed
  BY <1>1, <1>2, <1>3
<1>5. \A t : t \in Listed <=> \E p \in Peers : t \in Owned(list, p)
  BY <1>1 DEF Listed, Owned
<1> QED
  BY <1>1, <1>2, <1>3, <1>4, <1>5

LEMMA PendingIsListed ==
    ASSUME CurrentList
    PROVE  Abstract!Pending = Listed
<1>1. \A t \in Tid : StatusOf(t) = "pending" <=> t \in Listed
  <2> SUFFICES ASSUME NEW t \in Tid PROVE StatusOf(t) = "pending" <=> t \in Listed
    OBVIOUS
  <2>1. created \in Nat /\ t \in Nat /\ (t \in Listed => t <= created)
    BY OutcomeFacts
  <2>2. /\ t > created => StatusIn(t, created, Listed, calls) = "none"
        /\ t \in Listed => StatusIn(t, created, Listed, calls) = "pending"
        /\ t <= created /\ t \notin Listed /\ calls[t] = 0 =>
             StatusIn(t, created, Listed, calls) = "dropped"
        /\ t <= created /\ t \notin Listed /\ calls[t] # 0 =>
             StatusIn(t, created, Listed, calls) = "called"
    BY <2>1, StatusValues
  <2> QED
    BY <2>1, <2>2, MappedStatus
<1>2. Listed \subseteq Tid
  BY OutcomeFacts
<1> QED
  BY <1>1, <1>2 DEF Abstract!Pending
----------------------------------------------------------------------------
(* Steps of Outcome, told by who owns what before and after                *)

\* The listed transactions of S get their callbacks and go.
LEMMA IsComplete ==
    ASSUME CurrentList, CurrentList', NEW S \in SUBSET Listed, created' = created,
           \A p \in Peers : Owned(list', p) = Owned(list, p) \ S, calls' = CalledIn(calls, S)
    PROVE  Abstract!Complete(S)
<1>0. (\A t \in Listed' : t <= created') /\ \A t \in Listed' : t \in Tid
  <2>1. \A x \in list' : x.id \in Tid /\ x.id <= created'
    BY DEF CurrentList, ListInv, Transactions
  <2> QED
    BY <2>1 DEF Listed
<1>1. Listed' = Listed \ S
  <2>1. \A x \in list' : x.peer \in Peers
    BY DEF CurrentList, ListInv, Transactions
  <2>2. \A t : t \in Listed' <=> \E p \in Peers : t \in Owned(list', p)
    BY <2>1 DEF Listed, Owned
  <2> QED
    BY <2>2, OutcomeFacts
<1>2. ASSUME NEW t \in Tid
      PROVE  StatusOf(t)' = IF t \in S THEN "called" ELSE StatusOf(t)
  <2>1. /\ created \in Nat /\ t \in Nat /\ (t \in Listed => t <= created)
        /\ (t \in Listed' => t <= created') /\ created' \in Nat
    BY <1>0, OutcomeFacts
  <2>2. calls'[t] = IF t \in S THEN calls[t] + 1 ELSE calls[t]
    BY DEF CalledIn
  <2>3. t \in S => t <= created /\ t \notin Listed' /\ calls'[t] # 0
    BY <1>1, <2>2, OutcomeFacts
  <2>4. CASE t \in S
    BY <2>1, <2>3, <2>4, StatusValues, MappedStatus
  <2>5. CASE t \notin S
    <3>1. (t \in Listed' <=> t \in Listed) /\ calls'[t] = calls[t]
      BY <1>1, <2>2, <2>5
    <3>2. StatusIn(t, created', Listed', calls') = StatusIn(t, created, Listed, calls)
      BY <3>1 DEF StatusIn
    <3> QED
      BY <2>5, <3>2, MappedStatus
  <2> QED
    BY <2>4, <2>5
<1>3. [t \in Tid |-> StatusOf(t)]' =
        [t \in Tid |-> IF t \in S THEN "called" ELSE [u \in Tid |-> StatusOf(u)][t]]
  BY <1>2
<1>4. [p \in Peers |-> OwnedBy(p)]' = [p \in Peers |-> [q \in Peers |-> OwnedBy(q)][p] \ S]
  BY MappedStatus
<1>5. S \subseteq Abstract!Pending
  BY PendingIsListed
<1>6. Abstract!Served(S)
  BY DEF Abstract!Served, CalledIn
<1> QED
  BY <1>3, <1>4, <1>5, <1>6 DEF Abstract!Complete

\* A request is accepted for p, and the transactions of S get their callbacks.
LEMMA IsIssue ==
    ASSUME CurrentList, CurrentList', NEW p \in Peers, NEW S, created < MaxTrans,
           S \in SUBSET (Listed \cup {created + 1}), created' = created + 1,
           \A q \in Peers : Owned(list', q) =
               (IF q = p THEN Owned(list, q) \cup {created + 1} ELSE Owned(list, q)) \ S,
           calls' = CalledIn(calls, S)
    PROVE  Abstract!Issue(created + 1, p, S) /\ created + 1 \in Tid
<1> DEFINE r == created + 1
<1>a. created \in Nat /\ r \in Tid /\ r > created /\ r \notin Listed /\ calls[r] = 0
  <2>1. created \in Nat /\ r \in Tid /\ r > created
    BY OutcomeFacts DEF Tid
  <2> QED
    BY <2>1, OutcomeFacts
<1>0. (\A t \in Listed' : t <= created') /\ \A t \in Listed' : t \in Tid
  <2>1. \A x \in list' : x.id \in Tid /\ x.id <= created'
    BY DEF CurrentList, ListInv, Transactions
  <2> QED
    BY <2>1 DEF Listed
<1>1. Listed' = (Listed \cup {r}) \ S
  <2>1. \A x \in list' : x.peer \in Peers
    BY DEF CurrentList, ListInv, Transactions
  <2>2. \A t : t \in Listed' <=> \E q \in Peers : t \in Owned(list', q)
    BY <2>1 DEF Listed, Owned
  <2>3. \A t : t \in Listed <=> \E q \in Peers : t \in Owned(list, q)
    BY OutcomeFacts
  <2> HIDE DEF r
  <2> QED
    BY <2>2, <2>3 DEF r
<1>2. ASSUME NEW t \in Tid
      PROVE  StatusOf(t)' = IF t \in S THEN "called"
                            ELSE IF t = r THEN "pending" ELSE StatusOf(t)
  <2>1. /\ created \in Nat /\ t \in Nat /\ (t \in Listed => t <= created)
        /\ (t \in Listed' => t <= created') /\ created' \in Nat
    BY <1>0, <1>a, OutcomeFacts
  <2>2. calls'[t] = IF t \in S THEN calls[t] + 1 ELSE calls[t]
    BY DEF CalledIn
  <2>3. CASE t \in S
    <3>1. t <= created' /\ calls[t] = 0
      BY <1>a, <2>1, <2>3, OutcomeFacts
    <3>2. calls'[t] # 0 /\ t \notin Listed'
      BY <1>1, <2>2, <2>3, <3>1
    <3> QED
      BY <2>1, <2>3, <3>1, <3>2, StatusValues, MappedStatus
  <2>4. CASE t \notin S /\ t = r
    <3>1. t \in Listed'
      BY <1>1, <2>4
    <3> QED
      BY <2>1, <2>4, <3>1, StatusValues, MappedStatus
  <2>5. CASE t \notin S /\ t # r
    <3>1. (t \in Listed' <=> t \in Listed) /\ calls'[t] = calls[t]
      BY <1>1, <2>2, <2>5
    <3>2. (t > created' <=> t > created) /\ (t <= created' <=> t <= created)
      BY <2>1, <2>5
    <3>3. StatusIn(t, created', Listed', calls') = StatusIn(t, created, Listed, calls)
      BY <2>1, <3>1, <3>2, SameStatus
    <3> QED
      BY <2>5, <3>3, MappedStatus
  <2> QED
    BY <2>3, <2>4, <2>5
<1>3. [t \in Tid |-> StatusOf(t)]' =
        [t \in Tid |-> IF t \in S THEN "called" ELSE IF t = r THEN "pending"
                       ELSE [u \in Tid |-> StatusOf(u)][t]]
  BY <1>2
<1>4. [q \in Peers |-> OwnedBy(q)]' =
        [q \in Peers |-> (IF q = p THEN [u \in Peers |-> OwnedBy(u)][q] \cup {r}
                          ELSE [u \in Peers |-> OwnedBy(u)][q]) \ S]
  BY MappedStatus
<1>5. S \subseteq Abstract!Pending \cup {r}
  BY PendingIsListed
<1>6. Abstract!Served(S)
  BY DEF Abstract!Served, CalledIn
<1>7. [t \in Tid |-> StatusOf(t)][r] = "none"
  BY <1>a, StatusValues, MappedStatus, OutcomeFacts
<1> QED
  BY <1>a, <1>3, <1>4, <1>5, <1>6, <1>7 DEF Abstract!Issue

\* A request is refused: its transaction is created and freed without callback.
LEMMA IsRefuse ==
    ASSUME CurrentList, created < MaxTrans, created' = created + 1, list' = list, calls' = calls
    PROVE  Abstract!Refuse(created + 1) /\ created + 1 \in Tid
<1> DEFINE r == created + 1
<1>1. created \in Nat /\ r \in Tid /\ r \in Nat /\ r > created /\ r \notin Listed /\ calls[r] = 0
  <2>1. created \in Nat /\ r \in Tid /\ r > created /\ r \in Nat
    BY OutcomeFacts DEF Tid
  <2> QED
    BY <2>1, OutcomeFacts
<1>2. Listed' = Listed
  BY DEF Listed
<1>3. ASSUME NEW t \in Tid
      PROVE  StatusOf(t)' = IF t = r THEN "dropped" ELSE StatusOf(t)
  <2>1. /\ t \in Nat /\ (t \in Listed' => t <= created') /\ created' \in Nat
    BY <1>1, <1>2, OutcomeFacts
  <2>2. CASE t = r
    <3>1. t <= created' /\ t \notin Listed' /\ calls'[t] = 0
      BY <1>1, <1>2, <2>2
    <3> QED
      BY <2>1, <2>2, <3>1, StatusValues, MappedStatus
  <2>3. CASE t # r
    <3>1. (t > created' <=> t > created) /\ (t <= created' <=> t <= created)
      BY <1>1, <2>1, <2>3
    <3>2. StatusIn(t, created', Listed', calls') = StatusIn(t, created, Listed, calls)
      BY <1>1, <1>2, <2>1, <3>1, SameStatus, OutcomeFacts
    <3> QED
      BY <2>3, <3>2, MappedStatus
  <2> QED
    BY <2>2, <2>3
<1>4. [t \in Tid |-> StatusOf(t)]' = [[t \in Tid |-> StatusOf(t)] EXCEPT ![r] = "dropped"]
  BY <1>3
<1>5. [t \in Tid |-> StatusOf(t)][r] = "none"
  BY <1>1, StatusValues, MappedStatus
<1>6. UNCHANGED [q \in Peers |-> OwnedBy(q)]
  BY MappedStatus
<1> QED
  BY <1>1, <1>4, <1>5, <1>6 DEF Abstract!Refuse

\* All that is pending at p goes without callback.
LEMMA IsRemovePeer ==
    ASSUME CurrentList, NEW p \in Peers, created' = created, calls' = calls,
           list' = {x \in list : x.peer # p}
    PROVE  Abstract!RemovePeer(p)
<1>1. Listed' = Listed \ Owned(list, p)
  BY OutcomeFacts DEF Listed, Owned
<1>2. \A q \in Peers : Owned(list', q) = IF q = p THEN {} ELSE Owned(list, q)
  BY DEF Owned
<1>3. ASSUME NEW t \in Tid
      PROVE  StatusOf(t)' = IF t \in Owned(list, p) THEN "dropped" ELSE StatusOf(t)
  <2>1. /\ t \in Nat /\ created' \in Nat /\ (t \in Listed => t <= created /\ calls[t] = 0)
    BY OutcomeFacts
  <2>2. t \in Listed' => t <= created'
    BY <1>1, <2>1
  <2>3. CASE t \in Owned(list, p)
    <3>1. t \in Listed /\ t \notin Listed' /\ t <= created' /\ calls'[t] = 0
      BY <1>1, <2>1, <2>3, OutcomeFacts
    <3>2. StatusIn(t, created', Listed', calls') = "dropped"
      BY <2>1, <3>1, StatusValues
    <3> QED
      BY <2>3, <3>2, MappedStatus
  <2>4. CASE t \notin Owned(list, p)
    <3>1. StatusIn(t, created', Listed', calls') = StatusIn(t, created, Listed, calls)
      BY <1>1, <2>4 DEF StatusIn
    <3> QED
      BY <2>4, <3>1, MappedStatus
  <2> QED
    BY <2>3, <2>4
<1>4. [t \in Tid |-> StatusOf(t)]' =
        [t \in Tid |-> IF t \in [q \in Peers |-> OwnedBy(q)][p] THEN "dropped"
                       ELSE [u \in Tid |-> StatusOf(u)][t]]
  BY <1>3, MappedStatus
<1>5. [q \in Peers |-> OwnedBy(q)]' = [[q \in Peers |-> OwnedBy(q)] EXCEPT ![p] = {}]
  BY <1>2, MappedStatus
<1> QED
  BY <1>4, <1>5 DEF Abstract!RemovePeer

\* Steps that Outcome does not see.
LEMMA IsStutter ==
    ASSUME CurrentList, created' = created, calls' = calls,
           \A q \in Peers : Owned(list', q) = Owned(list, q), Listed' = Listed
    PROVE  UNCHANGED Abstract!vars
<1>1. \A t \in Tid : StatusOf(t)' = StatusOf(t)
  BY MappedStatus
<1>2. \A q \in Peers : OwnedBy(q)' = OwnedBy(q)
  BY MappedStatus
<1> QED
  BY <1>1, <1>2 DEF Abstract!vars
----------------------------------------------------------------------------
(* The steps of the transaction layer                                      *)

LEMMA OwnedReplaced ==
    ASSUME NEW L, NEW x \in L, NEW z, z.id = x.id, z.peer = x.peer
    PROVE  \A q : Owned((L \ {x}) \cup {z}, q) = Owned(L, q)
BY DEF Owned

LEMMA OwnedRemoved ==
    ASSUME NEW L, NEW x \in L, \A u, v \in L : u.id = v.id => u = v
    PROVE  \A q : Owned(L \ {x}, q) = Owned(L, q) \ {x.id}
BY DEF Owned

\* One callback.
LEMMA CalledOne ==
    ASSUME NEW ca \in [Tid -> Nat], NEW t \in Tid
    PROVE  [ca EXCEPT ![t] = ca[t] + 1] = CalledIn(ca, {t})
BY DEF CalledIn

LEMMA CalledNone ==
    ASSUME NEW ca \in [Tid -> Nat]
    PROVE  ca = CalledIn(ca, {})
BY DEF CalledIn

\* transaction_handleResponse calls at most one callback, and only the transaction
\* that is called goes.
LEMMA ResponseOutcome ==
    ASSUME NEW L \in SUBSET Transactions, UniqueMids(L), \A u, v \in L : u.id = v.id => u = v,
           calls \in [Tid -> Nat], NEW m, transaction_handleResponse(L, m)
    PROVE  \E S \in SUBSET Ids(L) :
             /\ \A q : Owned(list', q) = Owned(L, q) \ S
             /\ calls' = CalledIn(calls, S)
<1> DEFINE x == FirstOf(Hits(L, m))
<1>1. Hits(L, m) # {} => x \in L
  <2>1. UniqueMids(Hits(L, m)) /\ Hits(L, m) \in SUBSET Transactions
    BY DEF UniqueMids, Hits
  <2>2. Hits(L, m) # {} => x \in Hits(L, m)
    BY <2>1, FirstOfLeads
  <2> QED
    BY <2>2 DEF Hits
<1>2. ASSUME \A q : Owned(list', q) = Owned(L, q), calls' = calls
      PROVE  \E S \in SUBSET Ids(L) : /\ \A q : Owned(list', q) = Owned(L, q) \ S
                                      /\ calls' = CalledIn(calls, S)
  BY <1>2, CalledNone
<1>3. CASE ResponseIgnored(L, m)
  BY <1>2, <1>3 DEF ResponseIgnored
<1>4. CASE ResponseDenied(L, m)
  <2> DEFINE later == x.retrans_time + ResponseTimeout
             y == [x EXCEPT !.ack_received = FALSE, !.retrans_time = later]
  <2>1. x \in L /\ x \in Transactions /\ list' = (L \ {x}) \cup {y} /\ calls' = calls
    BY <1>1, <1>4 DEF ResponseDenied
  <2>2. y.id = x.id /\ y.peer = x.peer
    <3> HIDE DEF x, later
    <3> QED BY <2>1 DEF Transactions
  <2> HIDE DEF x, y
  <2> QED
    BY <1>2, <2>1, <2>2, OwnedReplaced
<1>5. CASE ResponseAcked(L, m)
  <2> DEFINE wait == IF m.code = "empty" THEN SeparateTimeout
                     ELSE ResponseTimeout * x.retrans_counter
             y == [x EXCEPT !.ack_received = TRUE, !.retrans_time = now + wait]
  <2>1. x \in L /\ x \in Transactions /\ list' = (L \ {x}) \cup {y} /\ calls' = calls
    BY <1>1, <1>5 DEF ResponseAcked
  <2>2. y.id = x.id /\ y.peer = x.peer
    <3> HIDE DEF x, wait
    <3> QED BY <2>1 DEF Transactions
  <2> HIDE DEF x, y
  <2> QED
    BY <1>2, <2>1, <2>2, OwnedReplaced
<1>6. CASE ResponseDone(L, m)
  <2>1. x \in L /\ x.id \in Tid /\ transaction_remove(L, x) /\ Callback(L, x)
    BY <1>1, <1>6 DEF ResponseDone, Transactions
  <2> HIDE DEF x
  <2>2. list' = L \ {x}
    BY <2>1, ListRmExact DEF transaction_remove
  <2>3. \A q : Owned(list', q) = Owned(L, q) \ {x.id}
    BY <2>1, <2>2, OwnedRemoved
  <2>4. calls' = CalledIn(calls, {x.id})
    BY <2>1, CalledOne DEF Callback
  <2>5. {x.id} \in SUBSET Ids(L)
    BY <2>1 DEF Ids
  <2> QED
    BY <2>3, <2>4, <2>5
<1> QED
  BY <1>3, <1>4, <1>5, <1>6 DEF transaction_handleResponse

\* Requests are issued, refused, or issued and called back at once.
LEMMA RequestOutcome ==
    ASSUME CurrentList, Control, CurrentList',
           NEW p \in Peers, NEW tok \in Tokens, NEW n \in 0 .. MaxBlocks - 1,
           Request(p, tok, n) \/ RequestFails(p, tok, n) \/ RequestWithoutClock(p, tok, n)
    PROVE  Abstract!Next
<1> DEFINE r == created + 1
           k == IF n > 0 THEN "block1" ELSE "plain"
           c == NewRequest(p, tok, n)
<1>1. created < MaxTrans /\ TakeMID /\ created' = r /\ taken < MaxMids
  BY DEF Request, RequestFails, RequestWithoutClock, TakeMID
<1>2. tok \in Mids \cup {NoToken} /\ n \in Nat /\ r \in Tid /\ k \in Kinds /\ now \in Nat
  <2>1. nextMID \in Mids
    BY DEF CurrentList, ListInv, Control, MidAt, Mids
  <2>2. tok \in Mids \cup {NoToken}
    BY <2>1 DEF Tokens
  <2>3. n \in Nat /\ r \in Tid /\ now \in Nat
    BY <1>1, OutcomeFacts DEF Tid, Control
  <2> QED
    BY <2>2, <2>3 DEF Kinds
<1>3. c = transaction_new(p, tok, k, n, r)
  BY DEF NewRequest
<1>4. c.id = r /\ c.peer = p
  BY <1>3 DEF transaction_new
<1>5. c \in Transactions /\ c.mID = MidAt(firstMID, taken)
  <2> HIDE DEF k, r, c
  <2> QED BY <1>1, <1>2, <1>3, NewTransaction
<1>6. Transmitted(c).id = r /\ Transmitted(c).peer = p
  <2> HIDE DEF c, r
  <2> QED BY <1>2, <1>4, <1>5, TransmittedFields
<1>7. ListRm(list \cup {c}, c.mID) = list
  BY <1>1, <1>5, UnlistNew
<1>8. calls \in [Tid -> Nat] /\ (\A t \in Tid : t > created => t \notin Listed)
      /\ r \notin Listed
  BY <1>1, <1>2, OutcomeFacts DEF Tid
<1> HIDE DEF c
<1>9. CASE Request(p, tok, n)
  <2>1. list' = list \cup {Transmitted(c)} /\ calls' = calls
    BY <1>9 DEF Request, c
  <2>2. calls' = CalledIn(calls, {})
    BY <1>8, <2>1, CalledNone
  <2>3. \A q \in Peers : Owned(list', q) =
          (IF q = p THEN Owned(list, q) \cup {created + 1} ELSE Owned(list, q)) \ {}
    BY <1>6, <2>1 DEF Owned
  <2>4. Abstract!Issue(created + 1, p, {})
    BY <1>1, <2>2, <2>3, IsIssue
  <2> QED
    BY <1>2, <2>4 DEF Abstract!Next
<1>10. CASE RequestFails(p, tok, n)
  <2>1. list' = list /\ calls' = calls
    BY <1>7, <1>10 DEF RequestFails, transaction_remove, c
  <2>2. Abstract!Refuse(created + 1)
    BY <1>1, <2>1, IsRefuse
  <2> QED
    BY <1>2, <2>2 DEF Abstract!Next
<1>11. CASE RequestWithoutClock(p, tok, n)
  <2>1. list' = list /\ calls' = [calls EXCEPT ![r] = calls[r] + 1]
    BY <1>4, <1>7, <1>11 DEF RequestWithoutClock, transaction_remove, Callback, c
  <2>2. calls' = CalledIn(calls, {r})
    BY <1>2, <1>8, <2>1, CalledOne
  <2>3. \A q \in Peers : r \notin Owned(list, q)
    BY <1>8, OutcomeFacts
  <2>4. \A q \in Peers : Owned(list', q) =
          (IF q = p THEN Owned(list, q) \cup {created + 1} ELSE Owned(list, q)) \ {created + 1}
    BY <2>1, <2>3
  <2>5. Abstract!Issue(created + 1, p, {created + 1})
    BY <1>1, <2>2, <2>4, IsIssue
  <2> QED
    BY <1>2, <2>5 DEF Abstract!Next
<1> QED
  BY <1>9, <1>10, <1>11

\* Completion of listed transactions is a step of Outcome.
LEMMA CompleteIsNext ==
    ASSUME CurrentList, CurrentList', created' = created, NEW S \in SUBSET Ids(list),
           \A q : Owned(list', q) = Owned(list, q) \ S, calls' = CalledIn(calls, S)
    PROVE  Abstract!Next
<1>1. S \in SUBSET Listed /\ S \in SUBSET Tid
  BY OutcomeFacts, MappedStatus
<1>2. Abstract!Complete(S)
  BY <1>1, IsComplete
<1> QED
  BY <1>1, <1>2 DEF Abstract!Next

\* A packet completes at most one request, and issues the next block's.
LEMMA PacketOutcome ==
    ASSUME CurrentList, Control, CurrentList', NEW m \in Messages, OnePacket(m)
    PROVE  Abstract!Next \/ UNCHANGED Abstract!vars
<1>0. /\ list \in SUBSET Transactions /\ UniqueMids(list) /\ calls \in [Tid -> Nat]
      /\ \A u, v \in list : u.id = v.id => u = v
  BY DEF CurrentList, ListInv
<1>1. CASE HandlePacket(m) \/ HandlePacketNextBlockFails(m)
  <2>1. transaction_handleResponse(list, m) /\ created' = created
    BY <1>1 DEF HandlePacket, HandlePacketNextBlockFails
  <2>2. \E S \in SUBSET Ids(list) : /\ \A q : Owned(list', q) = Owned(list, q) \ S
                                    /\ calls' = CalledIn(calls, S)
    BY <1>0, <2>1, ResponseOutcome
  <2> QED
    BY <2>1, <2>2, CompleteIsNext
<1>2. CASE HandlePacketBadBlock2(m) \/ HandlePacketNull(m) \/ HandlePacketDivides(m)
  <2>1. list' = list /\ calls' = calls /\ created' = created
    BY <1>2 DEF HandlePacketBadBlock2, HandlePacketNull, HandlePacketDivides, history
  <2> QED
    BY <2>1, IsStutter DEF Listed
<1>3. CASE HandlePacketNextBlock(m)
  <2>1. created < MaxTrans /\ TakeMID /\ created' = created + 1
    BY <1>3 DEF HandlePacketNextBlock
  <2>0. PICK x \in Addressed(m) : \E next \in NextBlocks(x, m) :
          LET c == transaction_new(x.peer, x.token, next.kind, next.left, x.userData)
          IN  Sends(c.id) /\ transaction_handleResponse(list \cup {Transmitted(c)}, m)
    BY <1>3 DEF HandlePacketNextBlock
  <2>3. PICK next \in NextBlocks(x, m) :
          LET c == transaction_new(x.peer, x.token, next.kind, next.left, x.userData)
          IN  Sends(c.id) /\ transaction_handleResponse(list \cup {Transmitted(c)}, m)
    BY <2>0
  <2>4. x \in list /\ x \in Transactions
    BY <1>0 DEF Addressed
  <2>5. next.kind \in Kinds /\ next.left \in Nat
    BY <2>4, NextBlockFields
  <2>6. PICK p \in Peers, tok \in Mids \cup {NoToken}, k \in Kinds, n \in Nat, d \in Tid :
            /\ p = x.peer /\ tok = x.token /\ k = next.kind
            /\ n = next.left /\ d = x.userData
    BY <2>4, <2>5 DEF Transactions
  <2> DEFINE c == transaction_new(p, tok, k, n, d)
             z == Transmitted(c)
             L == list \cup {z}
  <2>7. transaction_handleResponse(L, m) /\ c.peer = p
    BY <2>3, <2>6 DEF transaction_new
  <2>8. c \in Transactions /\ c.id = created + 1 /\ c.mID = MidAt(firstMID, taken)
    BY <2>1, NewTransaction
  <2>9. /\ z \in Transactions /\ z.id = created + 1 /\ z.mID = MidAt(firstMID, taken)
        /\ z.peer = p
    <3>1. now \in Nat
      BY DEF Control
    <3> HIDE DEF c
    <3> QED BY <2>7, <2>8, <3>1, TransmittedFields
  <2> HIDE DEF z
  <2>10. /\ L \in SUBSET Transactions /\ UniqueMids(L)
         /\ \A u, v \in L : u.id = v.id => u = v
    <3>1. \A y \in list : y.mID # MidAt(firstMID, taken)
      BY <2>1, TakeMIDKeeps, FreshMid DEF CurrentList, ListInv
    <3>2. \A y \in list : y.id # created + 1
      BY OutcomeFacts DEF Tid
    <3> QED
      BY <1>0, <2>9, <3>1, <3>2 DEF UniqueMids
  <2>11. PICK S \in SUBSET Ids(L) : /\ \A q : Owned(list', q) = Owned(L, q) \ S
                                    /\ calls' = CalledIn(calls, S)
    <3> HIDE DEF L
    <3> QED BY <1>0, <2>7, <2>10, ResponseOutcome
  <2>12. \A q \in Peers : Owned(list', q) =
           (IF q = p THEN Owned(list, q) \cup {created + 1} ELSE Owned(list, q)) \ S
    <3>1. \A q : Owned(L, q) = IF q = p THEN Owned(list, q) \cup {created + 1}
                               ELSE Owned(list, q)
      BY <2>9 DEF Owned
    <3> QED
      BY <2>11, <3>1
  <2>13. S \in SUBSET (Listed \cup {created + 1})
    BY <2>9 DEF Ids, Listed
  <2>14. Abstract!Issue(created + 1, p, S) /\ created + 1 \in Tid
    BY <2>1, <2>11, <2>12, <2>13, IsIssue
  <2>15. S \in SUBSET Tid
    BY <2>13, <2>14, OutcomeFacts
  <2> QED
    BY <2>14, <2>15 DEF Abstract!Next
<1> QED
  BY <1>1, <1>2, <1>3 DEF OnePacket

\* The walk completes a request when its transaction expires.
LEMMA StepOutcome ==
    ASSUME CurrentList, Control, CurrentList', Step
    PROVE  Abstract!Next \/ UNCHANGED Abstract!vars
<1>0. /\ list \in SUBSET Transactions /\ UniqueMids(list) /\ calls \in [Tid -> Nat]
      /\ \A u, v \in list : u.id = v.id => u = v
  BY DEF CurrentList, ListInv
<1>1. created' = created
  BY DEF Step, StepBegin, StepWaits, StepSends, StepExpires, StepEnd, Visit
<1>2. CASE StepBegin \/ StepWaits \/ StepEnd
  <2>1. list' = list /\ calls' = calls
    BY <1>2 DEF StepBegin, StepWaits, StepEnd, history
  <2> QED
    BY <1>1, <2>1, IsStutter DEF Listed
<1>3. CASE StepSends
  <2>1. PICK x \in list : list' = (list \ {x}) \cup {Transmitted(x)} /\ calls' = calls
    BY <1>3 DEF StepSends
  <2>2. Transmitted(x).id = x.id /\ Transmitted(x).peer = x.peer
    BY <1>0, TransmittedFields DEF Control
  <2>3. \A q : Owned(list', q) = Owned(list, q)
    BY <2>1, <2>2, OwnedReplaced
  <2>4. Listed' = Listed
    BY <2>1, <2>2 DEF Listed
  <2> QED
    BY <1>1, <2>1, <2>3, <2>4, IsStutter
<1>4. CASE StepExpires
  <2>1. PICK x \in list : Callback(list, x) /\ transaction_remove(list, x)
    BY <1>4 DEF StepExpires
  <2>2. list' = list \ {x} /\ x.id \in Tid
    BY <1>0, <2>1, ListRmExact DEF transaction_remove, Transactions
  <2>3. \A q : Owned(list', q) = Owned(list, q) \ {x.id}
    BY <1>0, <2>2, OwnedRemoved
  <2>4. calls' = CalledIn(calls, {x.id})
    BY <1>0, <2>1, <2>2, CalledOne DEF Callback
  <2>5. {x.id} \in SUBSET Ids(list)
    BY DEF Ids
  <2> QED
    BY <1>1, <2>3, <2>4, <2>5, CompleteIsNext
<1> QED
  BY <1>2, <1>3, <1>4 DEF Step

\* Closing completes all, the removal of a client drops what it owns.
LEMMA RemovalOutcome ==
    ASSUME CurrentList, CurrentList', OtherMID \/ Close \/ Tick \/ \E p \in Peers : RemoveClient(p)
    PROVE  Abstract!Next \/ UNCHANGED Abstract!vars
<1>1. CASE OtherMID \/ Tick
  <2>1. list' = list /\ calls' = calls /\ created' = created
    BY <1>1 DEF OtherMID, Tick, history
  <2> QED
    BY <2>1, IsStutter DEF Listed
<1>2. CASE Close
  <2>1. list' = {} /\ created' = created /\ calls' = CalledIn(calls, Listed)
    BY <1>2 DEF Close, CalledIn
  <2>2. \A q : Owned(list', q) = Owned(list, q) \ Ids(list)
    BY <2>1 DEF Owned, Ids
  <2> QED
    BY <2>1, <2>2, CompleteIsNext, MappedStatus
<1>3. ASSUME NEW p \in Peers, RemoveClient(p)
      PROVE  Abstract!Next
  <2>1. list' = {x \in list : x.peer # p} /\ calls' = calls /\ created' = created
    BY <1>3 DEF RemoveClient, history
  <2> QED
    BY <2>1, IsRemovePeer DEF Abstract!Next
<1> QED
  BY <1>1, <1>2, <1>3

\* The initial states map to the initial state of Outcome.
LEMMA InitOutcome == Init => Abstract!Init
<1> SUFFICES ASSUME Init PROVE Abstract!Init
  OBVIOUS
<1>1. created = 0 /\ list = {} /\ Listed = {} /\ calls = [t \in Tid |-> 0]
  BY DEF Init, Listed
<1>2. \A t \in Tid : StatusOf(t) = "none"
  <2>1. \A t \in Tid : t \in Nat /\ t > 0
    BY DEF Tid
  <2> QED
    BY <1>1, <2>1, StatusValues, MappedStatus
<1>3. \A q \in Peers : OwnedBy(q) = {}
  BY <1>1 DEF OwnedBy
<1> QED
  BY <1>1, <1>2, <1>3 DEF Abstract!Init
----------------------------------------------------------------------------
(* Theorems                                                                *)

\* transaction.c implements Outcome, for every number of peers, requests, message
\* IDs and blocks: what is pending at a peer gets exactly one callback, or goes
\* without one only together with its peer.
THEOREM OutcomeIsImplemented == Spec => ImplementsOutcome
<1>1. IInv /\ IInv' /\ [Next]_vars => [Abstract!Next]_(Abstract!vars)
  <2> SUFFICES ASSUME IInv, IInv', [Next]_vars PROVE Abstract!Next \/ UNCHANGED Abstract!vars
    OBVIOUS
  <2>1. CurrentList /\ Control
    BY Split
  <2>2. CurrentList'
    <3>1. IInv' => CurrentList'
      BY Split, PTL
    <3> QED
      BY <3>1
  <2>3. CASE UNCHANGED vars
    <3>1. list' = list /\ calls' = calls /\ created' = created
      BY <2>3 DEF vars
    <3> QED
      BY <2>1, <3>1, IsStutter DEF Listed
  <2>4. CASE Application
    BY <2>1, <2>2, <2>4, RequestOutcome, RemovalOutcome DEF Application
  <2>5. CASE Packet
    BY <2>1, <2>2, <2>5, PacketOutcome DEF Packet
  <2> QED
    BY <2>1, <2>2, <2>3, <2>4, <2>5, StepOutcome, RemovalOutcome DEF Next
<1> QED
  BY <1>1, InitOutcome, Invariance, PTL DEF Spec, ImplementsOutcome, Abstract!Spec
============================================================================
