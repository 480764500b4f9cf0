---------------------------- MODULE Transaction ----------------------------
(***************************************************************************)
(* The CoAP transaction layer of wakaama (coap/transaction.c), with the    *)
(* parts of core/packet.c and core/liblwm2m.c that drive it.               *)
(*                                                                         *)
(* A transaction is a confirmable request waiting for its answer.  The     *)
(* context keeps them in one linked list, ordered by message ID, for all   *)
(* its peers.  The library is single-threaded: the application calls       *)
(* lwm2m_step, lwm2m_handle_packet and the request functions one after the *)
(* other.  The exception is the callback of a transaction, which may issue *)
(* new requests while transaction_step is walking the list; so the walk is *)
(* one action per list element, with the cached pointer nextP as state.    *)
(*                                                                         *)
(* Messages come from an arbitrary peer: any type, code, message ID and    *)
(* token, so lost, late, duplicated and reordered answers are included.    *)
(***************************************************************************)
EXTENDS Integers, Shifts

CONSTANTS
    Peers,            \* sessions (sessionH) the context talks to
    MidSpace,         \* number of message IDs: 2^16 in the code (uint16_t)
    MaxRetransmit,    \* COAP_MAX_RETRANSMIT
    ResponseTimeout,  \* COAP_RESPONSE_TIMEOUT, in seconds
    SeparateTimeout,  \* COAP_SEPARATE_TIMEOUT, in seconds
    MaxWait,          \* *timeoutP as the application passes it to lwm2m_step
    NoToken,          \* a message without Token option
    SharedTokens,     \* tokens given by the caller (observe.c); may repeat
    MaxBlocks,        \* bound: blocks a payload is cut into
    MaxTrans,         \* bound: transactions created in a behaviour
    MaxMids,          \* bound: message IDs taken in a behaviour
    MaxPackets,       \* bound: packets received in a behaviour
    MaxTime,          \* bound: last value of the clock
    LastRequest,      \* bound: no request is issued after this time
    LastPacket,       \* bound: no packet arrives after this time
    Resize,           \* TRUE: peers may ask for another block size
    Punctual          \* TRUE: lwm2m_step is called when a timer is due

Mids  == 0 .. MidSpace - 1
Tid   == 1 .. MaxTrans            \* identities (addresses) of transactions
Types == {"ACK", "RST", "CON"}    \* CON: or NON, which differs in the ACK sent back
Codes == {"empty", "4.01", "2.31", "4.13", "2.04", "4.08"}   \* 2.04: or 2.01, 2.05
Options == {"none", "block1", "block2", "large"}

ASSUME PeersAssumption == NoToken \notin Int /\ Peers # {}
ASSUME SizeAssumption ==
    /\ MidSpace \in Nat \ {0} /\ MaxTrans \in Nat /\ MaxBlocks \in Nat \ {0}
    /\ MaxPackets \in Nat /\ MaxTime \in Nat /\ LastRequest \in Nat
    /\ LastPacket \in Nat
    /\ SharedTokens \subseteq Mids
\* A message ID is not reused while the transaction that took it may be listed:
\* the code never checks this, it relies on the counter not going once around.
ASSUME MidAssumption == MaxMids \in Nat /\ MaxMids <= MidSpace
ASSUME FlagAssumption == Punctual \in BOOLEAN /\ Resize \in BOOLEAN
ASSUME TimerAssumption ==
    /\ MaxRetransmit \in Nat
    /\ ResponseTimeout \in Nat \ {0}
    /\ SeparateTimeout \in Nat \ {0}
    /\ MaxWait \in Nat \ {0}

\* Messages lwm2m_handle_packet takes for responses: a RST and an empty ACK carry
\* nothing, the Block options come with the ACK of a request; "large" is a
\* payload of more than the block size without a Block option.
Messages ==
    {m \in [type : Types, code : Codes, mid : Mids,
            token : Mids \cup {NoToken}, option : Options, peer : Peers] :
        /\ m.type = "RST" => m.code = "empty"
        /\ m.code = "empty" => m.token = NoToken /\ m.option = "none"
        /\ m.option = "block1" => m.type = "ACK" /\ m.code # "4.01"
        /\ m.option = "block2" => m.type = "ACK" /\ m.code = "2.04"
        /\ m.option = "large" => m.code = "2.04"
        /\ m.code \in {"2.31", "4.08"} => m.option = "block1"
        /\ m.code = "4.13" => m.type = "ACK"}

Kinds == {"plain", "block1", "block2"}

Transactions == [id : Tid, mID : Mids, peer : Peers, token : Mids \cup {NoToken},
                 ack_received : BOOLEAN, retrans_time : Int, retrans_counter : Nat,
                 kind : Kinds,  \* the Block option of the message
                 left : Nat,    \* blocks of the payload that come after it
                 userData : Tid]

VARIABLES
    now,        \* lwm2m_gettime()
    list,       \* contextP->transactionList: a set, ordered by mID (Before)
    nextMID,    \* contextP->nextMID
    firstMID,   \* the value lwm2m_init gave it with rand()
    taken,      \* message IDs taken so far
    created,    \* transactions created so far
    freed,      \* transactions given to transaction_free
    freedData,  \* userData given to lwm2m_free, by the transaction it came from
    calls,      \* calls[t]: times the callback of t was called
    sent,       \* sent[t]: transmissions of t
    lastTx,     \* lastTx[t]: time of the last one
    pc,         \* where the single thread is
    cursor,     \* nextP of transaction_step (0 is NULL)
    inCallback, \* the walk has just called a callback, which may call the API
    stepTime,   \* currentTime of transaction_step
    timeout,    \* *timeoutP
    packets     \* packets received so far

vars == <<now, list, nextMID, firstMID, taken, created, freed, freedData, calls,
          sent, lastTx, pc, cursor, inCallback, stepTime, timeout, packets>>

mids    == <<nextMID, firstMID, taken>>
history == <<calls, sent, lastTx, freedData>>
walk    == <<cursor, inCallback, stepTime, timeout>>

----------------------------------------------------------------------------
(* The list: core/list.c sorts it by ID.                                   *)

\* Mutant of Before: nodes are put at the head of the list.
MutantHeadFirst(x, y) == x.mID > y.mID \/ (x.mID = y.mID /\ x.id < y.id)

Before(x, y) == x.mID < y.mID \/ (x.mID = y.mID /\ x.id < y.id)

FirstOf(L) == CHOOSE x \in L : \A y \in L : x = y \/ Before(x, y)

\* LWM2M_LIST_RM: unlink the first node that has the ID.
ListRm(L, mid) ==
    LET S == {y \in L : y.mID = mid}
    IN  IF S = {} THEN L ELSE L \ {FirstOf(S)}

\* The node after x, 0 for NULL.
NextP(L, x) ==
    LET S == {y \in L : Before(x, y)}
    IN  IF S = {} THEN 0 ELSE FirstOf(S).id

FirstP(L) == IF L = {} THEN 0 ELSE FirstOf(L).id

Listed == {x.id : x \in list}
Node(L, t) == CHOOSE x \in L : x.id = t

----------------------------------------------------------------------------
(* Operators on one transaction.                                           *)

\* COAP_RESPONSE_TIMEOUT << n
Timeout(n) == ResponseTimeout * Shifted[n]

\* Mutants of TakeMID: the counter stands still, or does not wrap.
MutantStuckMID ==
    /\ taken < MaxMids
    /\ taken' = taken + 1
    /\ UNCHANGED <<nextMID, firstMID>>

MutantWideMID ==
    /\ taken < MaxMids
    /\ taken' = taken + 1
    /\ nextMID' = nextMID + 1
    /\ UNCHANGED firstMID

\* Taking contextP->nextMID++ ; the counter is a uint16_t.
TakeMID ==
    /\ taken < MaxMids
    /\ taken' = taken + 1
    /\ nextMID' = IF nextMID = MidSpace - 1 THEN 0 ELSE nextMID + 1
    /\ UNCHANGED firstMID

\* transaction_new, and the Block option its callers set.
transaction_new(p, tok, kind, left, data) ==
    [id |-> created + 1, mID |-> nextMID, peer |-> p, token |-> tok,
     ack_received |-> FALSE, retrans_time |-> 0, retrans_counter |-> 0,
     kind |-> kind, left |-> left, userData |-> data]

\* Mutants of CanSend: one transmission too many, one too few.
MutantOneMore(x)  == ~x.ack_received /\ MaxRetransmit + 2 >= x.retrans_counter
MutantOneLess(x)  == ~x.ack_received /\ MaxRetransmit >= x.retrans_counter

\* transaction_send, when it puts the message on the wire.
CanSend(x) == ~x.ack_received /\ MaxRetransmit + 1 >= x.retrans_counter

\* Mutant of Transmitted: the timeout does not grow.
MutantFlatTimeout(x) ==
    IF x.retrans_counter = 0
    THEN [x EXCEPT !.retrans_time = now + ResponseTimeout, !.retrans_counter = 2]
    ELSE [x EXCEPT !.retrans_time = x.retrans_time + ResponseTimeout,
                   !.retrans_counter = x.retrans_counter + 1]

Transmitted(x) ==
    IF x.retrans_counter = 0
    THEN [x EXCEPT !.retrans_time = now + ResponseTimeout, !.retrans_counter = 2]
    ELSE [x EXCEPT !.retrans_time = x.retrans_time + Timeout(x.retrans_counter - 1),
                   !.retrans_counter = x.retrans_counter + 1]

\* The message acknowledges or resets x (transaction_handleResponse).
AckMatch(x, m) ==
    /\ ~x.ack_received
    /\ m.type \in {"ACK", "RST"}
    /\ x.mID = m.mid

prv_checkFinished(x, ack, m) ==
    \/ x.mID = m.mid /\ x.token = NoToken /\ ack
    \/ x.token # NoToken /\ m.token = x.token

\* Mutant of FreeUserData: nobody looks for other users of the data.
MutantFreeAlways(L, x) == freedData \cup {x.userData}

\* transaction_free_userData: another listed transaction may share the data.
FreeUserData(L, x) ==
    IF \E y \in L : y.userData = x.userData /\ y.id # x.id
    THEN freedData ELSE freedData \cup {x.userData}

\* transaction->callback(...), which ends with transaction_free_userData.
Callback(L, x) ==
    /\ calls' = [calls EXCEPT ![x.id] = calls[x.id] + 1]
    /\ freedData' = FreeUserData(L, x)

\* Mutant of transaction_remove: freed, but not unlinked.
MutantKeepLinked(L, x) ==
    /\ list' = L
    /\ freed' = freed \cup {x.id}

\* transaction_remove: the list is searched by message ID, the pointer is freed.
transaction_remove(L, x) ==
    /\ list' = ListRm(L, x.mID)
    /\ freed' = freed \cup {x.id}

\* lwm2m_buffer_send of transaction t
Sends(t) ==
    /\ sent' = [sent EXCEPT ![t] = sent[t] + 1]
    /\ lastTx' = [lastTx EXCEPT ![t] = now]
----------------------------------------------------------------------------
(* Requests of the application, and of packet.c for the next block.        *)

\* API calls happen between library calls, or in a callback made by the walk.
ApiAllowed == (pc = "idle" \/ inCallback) /\ now <= LastRequest

Tokens == {NoToken, nextMID} \cup SharedTokens

NewRequest(p, tok, n) ==
    transaction_new(p, tok, IF n > 0 THEN "block1" ELSE "plain", n, created + 1)

\* prv_makeOperation and its likes: transaction_new, transaction_set_payload (a
\* payload of n more blocks is cut), LWM2M_LIST_ADD, transaction_send with success.
Request(p, tok, n) ==
    /\ ApiAllowed
    /\ created < MaxTrans
    /\ LET x == NewRequest(p, tok, n)
       IN  /\ list' = list \cup {Transmitted(x)}
           /\ Sends(x.id)
    /\ created' = created + 1
    /\ TakeMID
    /\ UNCHANGED <<now, freed, freedData, calls, pc, walk, packets>>

\* transaction_send cannot serialise the message: the transaction goes without
\* a callback and the caller gets COAP_500_INTERNAL_SERVER_ERROR.
RequestFails(p, tok, n) ==
    /\ ApiAllowed
    /\ created < MaxTrans
    /\ LET x == NewRequest(p, tok, n)
       IN  transaction_remove(list \cup {x}, x)
    /\ created' = created + 1
    /\ TakeMID
    /\ UNCHANGED <<now, freedData, calls, sent, lastTx, pc, walk, packets>>

\* lwm2m_gettime fails in the first transaction_send: the message is sent, then
\* the transaction expires at once.
RequestWithoutClock(p, tok, n) ==
    /\ ApiAllowed
    /\ created < MaxTrans
    /\ LET x == NewRequest(p, tok, n)
       IN  /\ Sends(x.id)
           /\ Callback(list \cup {x}, x)
           /\ transaction_remove(list \cup {x}, x)
    /\ created' = created + 1
    /\ TakeMID
    /\ UNCHANGED <<now, pc, walk, packets>>

\* A message ID for a NON response or a notification, or a transaction_new
\* that returned NULL after its argument contextP->nextMID++ was evaluated.
OtherMID ==
    /\ ApiAllowed
    /\ TakeMID
    /\ UNCHANGED <<now, list, created, freed, history, pc, walk, packets>>
----------------------------------------------------------------------------
(* transaction_handleResponse on the list L                                *)

Reset(x, m) == AckMatch(x, m) /\ m.type = "RST"

Done(x, m) ==
    Reset(x, m) \/ prv_checkFinished(x, x.ack_received \/ AckMatch(x, m), m)

\* The transactions the loop would stop at; it stops at the first.
Hits(L, m) == {x \in L : x.peer = m.peer /\ (AckMatch(x, m) \/ Done(x, m))}

\* A request denied for authentication is sent again.
Denied(x, m) ==
    /\ Done(x, m) /\ ~Reset(x, m)
    /\ m.code = "4.01"
    /\ MaxRetransmit > x.retrans_counter

ResponseIgnored(L, m) ==
    /\ Hits(L, m) = {}
    /\ list' = L
    /\ UNCHANGED <<freed, freedData, calls>>

ResponseDenied(L, m) ==
    /\ Hits(L, m) # {}
    /\ LET x == FirstOf(Hits(L, m))
       IN  /\ Denied(x, m)
           /\ list' = (L \ {x}) \cup
                      {[x EXCEPT !.ack_received = FALSE,
                                 !.retrans_time = x.retrans_time + ResponseTimeout]}
    /\ UNCHANGED <<freed, freedData, calls>>

ResponseDone(L, m) ==
    /\ Hits(L, m) # {}
    /\ LET x == FirstOf(Hits(L, m))
       IN  /\ Done(x, m)
           /\ ~Denied(x, m)
           /\ Callback(L, x)
           /\ transaction_remove(L, x)

\* An ACK that does not finish the transaction: wait for the separate response.
ResponseAcked(L, m) ==
    /\ Hits(L, m) # {}
    /\ LET x == FirstOf(Hits(L, m))
           wait == IF m.code = "empty" THEN SeparateTimeout
                   ELSE ResponseTimeout * x.retrans_counter
       IN  /\ ~Done(x, m)
           /\ list' = (L \ {x}) \cup
                      {[x EXCEPT !.ack_received = TRUE, !.retrans_time = now + wait]}
    /\ UNCHANGED <<freed, freedData, calls>>

transaction_handleResponse(L, m) ==
    \/ ResponseIgnored(L, m)
    \/ ResponseDenied(L, m)
    \/ ResponseDone(L, m)
    \/ ResponseAcked(L, m)
----------------------------------------------------------------------------
(* lwm2m_handle_packet, for a message that is not a request.               *)

\* prv_get_transaction
Addressed(m) == {x \in list : x.peer = m.peer /\ x.mID = m.mid}

\* How the clone that continues x goes on: its Block option and the blocks left.
\* A peer that asks for smaller blocks makes them more.
Left(x) == IF Resize THEN 0 .. MaxBlocks - 1 ELSE {x.left - 1}

NextBlock1(x, m) ==                                     \* prv_send_next_block1
    {c \in [kind : {"block1"}, left : Left(x)] :
        /\ m.type = "ACK" /\ m.option = "block1" /\ m.code \in {"2.31", "2.04"}
        /\ x.left > 0}

RetryBlock1(x, m) ==                                    \* prv_retry_block1
    {c \in [kind : {"block1"}, left : 0 .. MaxBlocks - 1] :
        m.type = "ACK" /\ m.option = "block1" /\ m.code = "4.13"}

ChangeToBlock1(x, m) ==                                 \* prv_change_to_block1
    {c \in [kind : {"block1"}, left : 0 .. MaxBlocks - 1] :
        m.type = "ACK" /\ m.option = "none" /\ m.code = "4.13"}

GetBlock2(x, m) ==                                      \* prv_send_get_block2
    {c \in [kind : {"block2"}, left : {0}] :
        m.option = "block2" \/ (m.option = "large" /\ x.kind # "block2")}

NextBlocks(x, m) ==
    NextBlock1(x, m) \cup RetryBlock1(x, m) \cup ChangeToBlock1(x, m) \cup GetBlock2(x, m)

Received(m) ==
    /\ pc = "idle"
    /\ packets < MaxPackets /\ now <= LastPacket
    /\ packets' = packets + 1
    /\ UNCHANGED <<now, walk>>

\* prv_change_to_block1 uses the result of prv_get_transaction unchecked.
Dereferenced(m) == m.type = "ACK" /\ m.option = "none" /\ m.code = "4.13"

\* prv_send_next_block1 divides by the block size of the request: by zero if the
\* request had no Block1 option and the answer has one.
DividesByZero(m) ==
    /\ m.type = "ACK" /\ m.option = "block1" /\ m.code \in {"2.31", "2.04"}
    /\ \E x \in Addressed(m) : x.kind # "block1"

\* No next block: the transfer is over, or packet.c does not start one (unknown
\* message ID, no payload, unusable block size, last block of the answer).
HandlePacket(m) ==
    /\ Received(m)
    /\ \A x \in Addressed(m) : NextBlock1(x, m) = {}
    /\ Dereferenced(m) => Addressed(m) # {}
    /\ ~DividesByZero(m)
    /\ transaction_handleResponse(list, m)
    /\ UNCHANGED <<mids, created, sent, lastTx, pc>>

\* prv_send_new_block1, prv_send_get_block2: the clone keeps token and userData,
\* and is listed before transaction_handleResponse looks for its predecessor.
HandlePacketNextBlock(m) ==
    /\ Received(m)
    /\ created < MaxTrans
    /\ \E x \in Addressed(m) : \E next \in NextBlocks(x, m) :
          LET c == transaction_new(x.peer, x.token, next.kind, next.left, x.userData)
          IN  /\ Sends(c.id)
              /\ transaction_handleResponse(list \cup {Transmitted(c)}, m)
    /\ created' = created + 1
    /\ TakeMID
    /\ UNCHANGED pc

\* The clone cannot be made or sent: the transfer stops here.
HandlePacketNextBlockFails(m) ==
    /\ Received(m)
    /\ \E x \in Addressed(m) : NextBlocks(x, m) # {}
    /\ TakeMID
    /\ transaction_handleResponse(list, m)
    /\ UNCHANGED <<created, sent, lastTx, pc>>

\* coap_block2_handler refuses the block: transaction_handleResponse is not called.
HandlePacketBadBlock2(m) ==
    /\ Received(m)
    /\ m.option = "block2"
    /\ UNCHANGED <<list, mids, created, freed, history, pc>>

\* There is no transaction for prv_change_to_block1 to continue.
HandlePacketNull(m) ==
    /\ Received(m)
    /\ Dereferenced(m) /\ Addressed(m) = {}
    /\ pc' = "crashed"
    /\ UNCHANGED <<list, mids, created, freed, history>>

\* The division is undefined: the behaviour ends here.
HandlePacketDivides(m) ==
    /\ Received(m)
    /\ DividesByZero(m)
    /\ pc' = "divided"
    /\ UNCHANGED <<list, mids, created, freed, history>>
----------------------------------------------------------------------------
(* lwm2m_step: transaction_step walks the list.                            *)

StepBegin ==
    /\ pc = "idle"
    /\ pc' = "step"
    /\ cursor' = FirstP(list)
    /\ stepTime' = now
    /\ timeout' = MaxWait
    /\ UNCHANGED <<now, list, mids, created, freed, history, inCallback, packets>>

Due(x) == x.retrans_time <= stepTime

\* if (*timeoutP > interval) *timeoutP = interval
Shorten(x) ==
    LET interval == IF x.retrans_time > stepTime THEN x.retrans_time - stepTime ELSE 1
    IN  IF timeout > interval THEN interval ELSE timeout

\* Mutant of Visit: nextP is read after transaction_send has freed the node.
MutantLateNext(x) ==
    /\ pc = "step" /\ cursor # 0
    /\ x = Node(list, cursor)
    /\ cursor' = IF Due(x) /\ ~CanSend(x) THEN x.id ELSE NextP(list, x)
    /\ UNCHANGED <<now, mids, created, pc, stepTime, packets>>

Visit(x) ==
    /\ pc = "step" /\ cursor # 0
    /\ x = Node(list, cursor)
    /\ cursor' = NextP(list, x)
    /\ UNCHANGED <<now, mids, created, pc, stepTime, packets>>

StepWaits ==
    \E x \in list :
        /\ Visit(x)
        /\ ~Due(x)
        /\ timeout' = Shorten(x)
        /\ inCallback' = FALSE
        /\ UNCHANGED <<list, freed, history>>

StepSends ==
    \E x \in list :
        /\ Visit(x)
        /\ Due(x) /\ CanSend(x)
        /\ list' = (list \ {x}) \cup {Transmitted(x)}
        /\ Sends(x.id)
        /\ timeout' = Shorten(Transmitted(x))
        /\ inCallback' = FALSE
        /\ UNCHANGED <<freed, freedData, calls>>

\* Mutant of StepExpires: who has sent an ACK is waited for without end.
MutantPatient ==
    \E x \in list :
        /\ Visit(x)
        /\ Due(x) /\ ~CanSend(x)
        /\ IF x.ack_received
           THEN UNCHANGED <<list, freed, freedData, calls>>
           ELSE Callback(list, x) /\ transaction_remove(list, x)
        /\ timeout' = 1
        /\ inCallback' = ~x.ack_received
        /\ UNCHANGED <<sent, lastTx>>

\* Mutant of StepExpires: *timeoutP is left alone when a transaction goes.
MutantQuietExpiry ==
    \E x \in list :
        /\ Visit(x)
        /\ Due(x) /\ ~CanSend(x)
        /\ Callback(list, x)
        /\ transaction_remove(list, x)
        /\ inCallback' = TRUE
        /\ UNCHANGED <<sent, lastTx, timeout>>

\* Too many transmissions, or no separate response after the ACK.
StepExpires ==
    \E x \in list :
        /\ Visit(x)
        /\ Due(x) /\ ~CanSend(x)
        /\ Callback(list, x)
        /\ transaction_remove(list, x)
        /\ timeout' = 1
        /\ inCallback' = TRUE
        /\ UNCHANGED <<sent, lastTx>>

StepEnd ==
    /\ pc = "step" /\ cursor = 0
    /\ pc' = "idle"
    /\ inCallback' = FALSE
    /\ stepTime' = 0 /\ timeout' = MaxWait
    /\ UNCHANGED <<now, list, mids, created, freed, history, cursor, packets>>
----------------------------------------------------------------------------
(* Removal of a client, closing of the context, time.                      *)

\* Mutant of RemoveClient: the session is not compared.
MutantRemoveAll(p) ==
    /\ pc = "idle"
    /\ \E x \in list : x.peer = p
    /\ list' = {}
    /\ freed' = freed \cup Listed
    /\ UNCHANGED <<now, mids, created, history, pc, walk, packets>>

\* transaction_remove_client, from registration_freeClient: no callback.
RemoveClient(p) ==
    /\ pc = "idle"
    /\ \E x \in list : x.peer = p
    /\ list' = {x \in list : x.peer # p}
    /\ freed' = freed \cup {x.id : x \in {y \in list : y.peer = p}}
    /\ UNCHANGED <<now, mids, created, history, pc, walk, packets>>

\* prv_deleteTransactionList: every callback is called with NULL.
Close ==
    /\ pc = "idle"
    /\ pc' = "closed"
    /\ list' = {}
    /\ calls' = [t \in Tid |-> IF t \in Listed THEN calls[t] + 1 ELSE calls[t]]
    /\ freed' = freed \cup Listed
    /\ freedData' = freedData \cup {x.userData : x \in list}
    /\ UNCHANGED <<now, mids, created, sent, lastTx, walk, packets>>

\* A punctual application does not let a due timer wait.
Tick ==
    /\ pc = "idle"
    /\ now < MaxTime
    /\ Punctual => \A x \in list : x.retrans_time > now
    /\ now' = now + 1
    /\ UNCHANGED <<list, mids, created, freed, history, pc, walk, packets>>
----------------------------------------------------------------------------
Init ==
    /\ now = 0
    /\ list = {}
    /\ nextMID \in Mids /\ firstMID = nextMID /\ taken = 0
    /\ created = 0
    /\ freed = {} /\ freedData = {}
    /\ calls = [t \in Tid |-> 0]
    /\ sent = [t \in Tid |-> 0]
    /\ lastTx = [t \in Tid |-> 0]
    /\ pc = "idle"
    /\ cursor = 0 /\ inCallback = FALSE /\ stepTime = 0 /\ timeout = MaxWait
    /\ packets = 0

Application ==
    \/ \E p \in Peers, tok \in Tokens, n \in 0 .. MaxBlocks - 1 :
          Request(p, tok, n) \/ RequestFails(p, tok, n) \/ RequestWithoutClock(p, tok, n)
    \/ OtherMID
    \/ \E p \in Peers : RemoveClient(p)
    \/ Close

OnePacket(m) ==
    \/ HandlePacket(m)
    \/ HandlePacketNextBlock(m)
    \/ HandlePacketNextBlockFails(m)
    \/ HandlePacketBadBlock2(m)
    \/ HandlePacketNull(m)
    \/ HandlePacketDivides(m)

Packet == \E m \in Messages : OnePacket(m)

Step == StepBegin \/ StepWaits \/ StepSends \/ StepExpires \/ StepEnd

Next == Application \/ Packet \/ Step \/ Tick

Spec == Init /\ [][Next]_vars

\* The application keeps calling lwm2m_step and time passes.  Each call returns:
\* the thread does not stop inside the library.
Fairness == WF_vars(Step) /\ SF_vars(Tick)

FairSpec == Spec /\ Fairness
----------------------------------------------------------------------------
(* Properties                                                              *)

TypeOK ==
    /\ now \in Nat /\ stepTime \in Nat
    /\ list \in SUBSET Transactions
    /\ nextMID \in Mids /\ firstMID \in Mids /\ taken \in 0 .. MaxMids
    /\ created \in 0 .. MaxTrans
    /\ freed \in SUBSET Tid /\ freedData \in SUBSET Tid
    /\ calls \in [Tid -> Nat]
    /\ sent \in [Tid -> Nat]
    /\ lastTx \in [Tid -> Nat]
    /\ pc \in {"idle", "step", "closed", "crashed", "divided"}
    /\ cursor \in Tid \cup {0}
    /\ inCallback \in BOOLEAN
    /\ timeout \in Int
    /\ packets \in 0 .. MaxPackets

\* transaction_remove searches the list by message ID but frees the pointer it
\* was given: the two must be the same node, or the list keeps a freed one.
ListedIsLive == Listed \cap freed = {}

\* The callback of a transaction is called at most once, and never while the
\* transaction stays listed (it would be called again on expiry or by Close).
CallbackOnce == \A t \in Tid : calls[t] <= 1 /\ (t \in Listed => calls[t] = 0)

\* nextP, read before transaction_send, is a listed transaction when the walk
\* comes to it, whatever the callback and the removals did in between.
CursorValid == cursor # 0 => cursor \in Listed

\* Blocks of one transfer share userData: it is freed only after the last
\* transaction that may pass it to a callback has left the list.
UserDataLive == \A x \in list : x.userData \notin freedData

\* When the walk is over, *timeoutP is short enough for every transaction, those
\* a callback inserted behind the walk included.
WakeupCovers ==
    (pc = "step" /\ cursor = 0) =>
        \A x \in list : timeout <= 1 \/ timeout <= x.retrans_time - stepTime

\* "this must be the result of request being too large": an ACK with 4.13 and
\* no Block1 option belongs to a listed transaction (core/packet.c).
TooLargeIsAnAnswer == pc # "crashed"

\* A message is sent at most 1 + COAP_MAX_RETRANSMIT times, also when a 4.01
\* answer makes transaction_handleResponse start again.
TransmissionBound == \A t \in Tid : sent[t] <= MaxRetransmit + 1

\* A transaction without ACK is given up only after the last transmission.
NoEarlyExpiry ==
    [][\A x \in list : pc = "step" /\ x.id \notin Listed' =>
          x.ack_received \/ sent[x.id] = MaxRetransmit + 1]_vars

\* If lwm2m_step is called when *timeoutP says, the n-th retransmission comes at
\* least COAP_RESPONSE_TIMEOUT * 2^(n-1) after the transmission before it.
ExponentialBackoff ==
    [][\A t \in Tid : sent[t] > 0 /\ sent'[t] > sent[t] =>
          now - lastTx[t] >= Timeout(sent[t] - 1)]_vars

\* Every transaction ends, if the packets that can prolong it are finitely many
\* and none of them stops the program.
Terminates == \A t \in Tid : t \in Listed ~> t \notin Listed \/ pc \in {"crashed", "divided"}
----------------------------------------------------------------------------
(* The inductive invariant behind ListedIsLive, CallbackOnce, CursorValid,  *)
(* UserDataLive, WakeupCovers and TransmissionBound.                       *)

\* m is one of the message IDs handed out since lwm2m_init.
Issued(m) ==
    IF firstMID + taken <= MidSpace
    THEN firstMID <= m /\ m < firstMID + taken
    ELSE firstMID <= m \/ m < firstMID + taken - MidSpace

MidInv ==
    /\ nextMID = IF firstMID + taken < MidSpace THEN firstMID + taken
                 ELSE firstMID + taken - MidSpace
    /\ \A x \in list : Issued(x.mID)
    /\ \A x, y \in list : x.mID = y.mID => x = y

IdInv ==
    /\ \A x \in list : x.id <= created /\ x.id \notin freed
    /\ \A x, y \in list : x.id = y.id => x = y
    /\ \A t \in freed : t <= created

CallInv ==
    /\ \A t \in Tid : calls[t] <= 1
    /\ \A t \in Tid : t > created => calls[t] = 0
    /\ \A x \in list : calls[x.id] = 0

DataInv ==
    /\ \A x \in list : x.userData <= created /\ x.userData \notin freedData
    /\ \A d \in freedData : d <= created

SendInv ==
    /\ \A t \in Tid : sent[t] <= MaxRetransmit + 1
    /\ \A t \in Tid : t > created => sent[t] = 0
    /\ \A x \in list : x.retrans_counter >= 2 /\ sent[x.id] = x.retrans_counter - 1

\* The walk has passed x.
Passed(x) == cursor = 0 \/ \E y \in list : y.id = cursor /\ Before(x, y)

WalkInv ==
    /\ pc # "step" => cursor = 0 /\ ~inCallback
    /\ cursor # 0 => \E x \in list : x.id = cursor
    /\ inCallback => timeout <= 1
    /\ pc = "step" =>
         \A x \in list : Passed(x) => timeout <= 1 \/ timeout <= x.retrans_time - stepTime

\* What every step of the transaction layer preserves: message IDs and
\* identities are unique in the list and never those of freed transactions,
\* counters agree with the history, and the walk covers what it has passed.
IInv == TypeOK /\ MidInv /\ IdInv /\ CallInv /\ DataInv /\ SendInv /\ WalkInv
----------------------------------------------------------------------------
(* The abstract view: every request has one outcome.                       *)

StatusOf(t) ==
    CASE t > created     -> "none"
      [] t \in Listed    -> "pending"
      [] t <= created /\ t \notin Listed /\ calls[t] = 0 -> "dropped"
      [] t <= created /\ t \notin Listed /\ calls[t] # 0 -> "called"

OwnedBy(p) == {x.id : x \in {y \in list : y.peer = p}}

Abstract == INSTANCE Outcome WITH
    Requests <- Tid,
    status   <- [t \in Tid |-> StatusOf(t)],
    owner    <- [p \in Peers |-> OwnedBy(p)]

\* transaction.c implements Outcome: a request pending at a peer gets exactly
\* one callback, or goes without one only together with its peer.
ImplementsOutcome == Abstract!Spec
============================================================================
