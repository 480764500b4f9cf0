------------------------ MODULE BlockTransferProofs ------------------------
(***************************************************************************)
(* Proofs about BlockTransfer: what the receiver of a Block1 upload has in *)
(* its buffer, and what a network that is not late guarantees.             *)
(***************************************************************************)
EXTENDS BlockTransfer, TimerProofs, SequenceTheorems

USE PeersAssumption, SizeAssumption, MidAssumption, TimerAssumption
USE TransferAssumption, BlockAssumption
----------------------------------------------------------------------------
(* The receiver's buffer                                                   *)

\* bd holds the first blocks of the payload, up to blockNum.
Prefix(bd) ==
    /\ bd.blockNum \in -1 .. Total - 1
    /\ bd.content = Whole(bd.blockNum + 1)
    /\ bd.size \in {BlockSize * (bd.blockNum + 1), BlockSize * bd.blockNum + LastLen}
    /\ bd = NoBlockData <=> bd.blockNum = -1

\* b is a block of the payload.
Piece(b) ==
    /\ b.num \in 0 .. Total - 1
    /\ b.more = (b.num < Total - 1)
    /\ b.len = IF b.num < Total - 1 THEN BlockSize ELSE LastLen

LEMMA WholeGrows ==
    ASSUME NEW n \in Nat
    PROVE  Append(Whole(n), n) = Whole(n + 1)
<1>1. Whole(n) \in Seq(Nat) /\ Len(Whole(n)) = n
  BY DEF Whole
<1>2. /\ Append(Whole(n), n) \in Seq(Nat) /\ Len(Append(Whole(n), n)) = n + 1
      /\ \A i \in 1 .. n : Append(Whole(n), n)[i] = Whole(n)[i]
      /\ Append(Whole(n), n)[n + 1] = n
  BY <1>1, AppendProperties
<1>3. Whole(n + 1) \in Seq(Nat) /\ Len(Whole(n + 1)) = n + 1
  BY DEF Whole
<1>4. \A i \in 1 .. (n + 1) : Append(Whole(n), n)[i] = Whole(n + 1)[i]
  BY <1>2 DEF Whole
<1> QED
  BY <1>2, <1>3, <1>4, SeqEqual

\* coap_block1_handler keeps the buffer a beginning of the payload, whichever
\* block comes and however often.
LEMMA ReceivedIsPrefix ==
    ASSUME NEW bd, NEW b, Prefix(bd), Piece(b)
    PROVE  Prefix(Received1(bd, b))
<1> DEFINE n == b.num
<1>1. n \in Nat /\ n \in 0 .. Total - 1 /\ b.len \in {BlockSize, LastLen}
  BY DEF Piece
<1>2. CASE Verdict(bd, b) = "start"
  <2> DEFINE r == [blockNum |-> 0, size |-> b.len, content |-> <<0>>]
  <2>1. Received1(bd, b) = r
    BY <1>2 DEF Received1
  <2>2. <<0>> = Whole(1)
    BY DEF Whole
  <2>3. BlockSize * (0 + 1) = BlockSize /\ BlockSize * 0 + LastLen = LastLen
    OBVIOUS
  <2>4. r # NoBlockData
    BY DEF NoBlockData
  <2>5. Prefix(r)
    BY <1>1, <2>2, <2>3, <2>4 DEF Prefix
  <2> QED
    BY <2>1, <2>5
<1>3. CASE Verdict(bd, b) = "append"
  <2> DEFINE r == [blockNum |-> n, size |-> bd.size + b.len, content |-> Append(bd.content, n)]
  <2>1. Received1(bd, b) = r
    BY <1>3 DEF Received1
  <2>2. n = bd.blockNum + 1 /\ bd.size = BlockSize * n /\ bd.blockNum \in Int
    <3>1. bd.blockNum \in Int
      BY DEF Prefix
    <3> QED
      BY <1>1, <1>3, <3>1 DEF Verdict
  <2>3. r.content = Whole(n + 1)
    BY <1>1, <2>2, WholeGrows DEF Prefix
  <2>4. BlockSize * n + BlockSize = BlockSize * (n + 1)
    <3> HIDE DEF n
    <3> QED BY <1>1
  <2>5. r # NoBlockData
    BY <1>1 DEF NoBlockData
  <2>6. r.size \in {BlockSize * (n + 1), BlockSize * n + LastLen} /\ r.blockNum = n
    <3> HIDE DEF n
    <3> QED BY <1>1, <2>2, <2>4
  <2> HIDE DEF r
  <2>7. Prefix(r)
    BY <1>1, <2>3, <2>5, <2>6 DEF Prefix
  <2> QED
    BY <2>1, <2>7
<1>4. CASE Verdict(bd, b) \notin {"start", "append"}
  BY <1>4 DEF Received1
<1> QED
  BY <1>2, <1>3, <1>4
----------------------------------------------------------------------------
(* What is on the wire                                                     *)

\* r is a request for a block of the payload.
Requested(r) ==
    \E mid \in Mids, tok \in Mids, n \in 0 .. Total - 1 : r = Block(mid, tok, n)

\* a is an answer of coap_block1_handler.
AnswerToBlock(a) ==
    /\ a \in Messages /\ a.type = "ACK" /\ a.option = "block1" /\ a.peer = peer
    /\ a.code \in {"2.31", "2.04", "4.08", "4.13"}
    /\ a.token \in Mids

Wire ==
    /\ late \in BOOLEAN
    /\ \A x \in list : x.left \in 0 .. Total - 1 /\ x.token \in Mids
    /\ \A r \in requests : Requested(r)
    /\ \A a \in answers : AnswerToBlock(a)

LEMMA PeerExists == peer \in Peers
BY DEF peer

LEMMA NextMidExists ==
    ASSUME Base
    PROVE  nextMID \in Mids
BY BaseFacts DEF MidAt, Mids

\* The wire has pieces of the payload and answers to them.
LEMMA BlockIsPiece ==
    ASSUME NEW mid, NEW tok, NEW n \in 0 .. Total - 1, NEW r, r = Block(mid, tok, n)
    PROVE  /\ Piece([num |-> r.num, more |-> r.more, len |-> r.len])
           /\ r.mid = mid /\ r.token = tok
           /\ r.num = Total - 1 - n /\ (r.more <=> n > 0)
<1>1. /\ r.mid = mid /\ r.token = tok /\ r.num = Total - 1 - n /\ r.more = (n > 0)
      /\ r.len = IF n > 0 THEN BlockSize ELSE LastLen
  BY DEF Block
<1>2. Total \in Nat /\ (n > 0 <=> Total - 1 - n < Total - 1) /\ Total - 1 - n \in 0 .. Total - 1
  OBVIOUS
<1>3. (n > 0) = (Total - 1 - n < Total - 1)
  BY <1>2
<1> QED
  BY <1>1, <1>2, <1>3 DEF Piece

LEMMA ReceiveAnswers ==
    ASSUME NEW r, Requested(r), NEW b, b = [num |-> r.num, more |-> r.more, len |-> r.len],
           NEW bd, Prefix(bd), NEW a,
           a = [type |-> "ACK", code |-> Code1(bd, b), mid |-> r.mid,
                token |-> r.token, option |-> "block1", peer |-> peer]
    PROVE  AnswerToBlock(a)
<1>1. r.mid \in Mids /\ r.token \in Mids
  BY BlockIsPiece DEF Requested
<1>2. Code1(bd, b) \in {"2.31", "2.04", "4.08", "4.13"}
  BY DEF Code1
<1>3. /\ a.type = "ACK" /\ a.code = Code1(bd, b) /\ a.mid = r.mid /\ a.token = r.token
      /\ a.option = "block1" /\ a.peer = peer
      /\ a \in [type : Types, code : Codes, mid : Mids, token : Mids \cup {NoToken},
                option : Options, peer : Peers]
  BY <1>1, <1>2, PeerExists DEF Types, Codes, Options
<1>4. a \in Messages
  BY <1>2, <1>3 DEF Messages
<1> QED
  BY <1>1, <1>2, <1>3, <1>4 DEF AnswerToBlock

\* A step of the transfer is one of the transaction layer or leaves it alone.
LEMMA TransferSteps ==
    ASSUME Base, Wire, TNext
    PROVE  [Next]_vars
<1>1. CASE Upload
  <2>1. nextMID \in Tokens /\ Total - 1 \in 0 .. MaxBlocks - 1
    BY DEF Tokens
  <2> QED
    BY <1>1, <2>1, PeerExists DEF Upload, Next, Application
<1>2. ASSUME NEW m \in answers, Answered(m) \/ AnsweredNext(m)
      PROVE  Next
  <2>1. m \in Messages /\ OnePacket(m)
    BY <1>2 DEF Wire, AnswerToBlock, Answered, AnsweredNext, OnePacket
  <2> QED
    BY <2>1 DEF Next, Packet
<1>3. CASE Resent \/ Walked
  BY <1>3 DEF Resent, Walked, Next, Step
<1>4. ASSUME NEW r \in requests, Receive(r)
      PROVE  UNCHANGED vars
  BY <1>4 DEF Receive
<1>5. CASE LateTick \/ TimelyTick
  BY <1>5 DEF LateTick, TimelyTick, Next
<1> QED
  BY <1>1, <1>2, <1>3, <1>4, <1>5 DEF TNext

\* The next block continues the transaction that the answer acknowledges.
LEMMA NextOfBlock ==
    ASSUME Base, Wire, NEW m \in answers, AnsweredNext(m)
    PROVE  \E x, c :
             /\ x \in list
             /\ x.mID = m.mid /\ x.left > 0 /\ m.code \in {"2.31", "2.04"}
             /\ c = transaction_new(x.peer, x.token, "block1", x.left - 1, x.userData)
             /\ transaction_handleResponse(list \cup {Transmitted(c)}, m)
             /\ lastTx' = [lastTx EXCEPT ![c.id] = now]
             /\ requests' = requests \cup {Block(nextMID, x.token, x.left - 1)}
             /\ finished' = finished \cup Finishes(list \cup {Transmitted(c)}, m)
<1>1. PICK x \in Addressed(m) :
        /\ requests' = requests \cup {Block(nextMID, x.token, x.left - 1)}
        /\ finished' = finished \cup
              Finishes(list \cup {Transmitted(transaction_new(x.peer, x.token, "block1",
                                                      x.left - 1, x.userData))}, m)
  BY DEF AnsweredNext
<1>2. PICK y \in Addressed(m) : \E next \in NextBlocks(y, m) :
        LET c == transaction_new(y.peer, y.token, next.kind, next.left, y.userData)
        IN  Sends(c.id) /\ transaction_handleResponse(list \cup {Transmitted(c)}, m)
  BY DEF AnsweredNext, HandlePacketNextBlock
<1>3. PICK next \in NextBlocks(y, m) :
        LET c == transaction_new(y.peer, y.token, next.kind, next.left, y.userData)
        IN  Sends(c.id) /\ transaction_handleResponse(list \cup {Transmitted(c)}, m)
  BY <1>2
<1>4. x = y /\ x \in list /\ x.mID = m.mid
  BY BaseFacts DEF Addressed, UniqueMids
<1>5. m.option = "block1" /\ m.code # "4.13" /\ m.code \in {"2.31", "2.04", "4.08", "4.13"}
  BY DEF Wire, AnswerToBlock, AnsweredNext
<1>6. next \in NextBlock1(y, m)
  BY <1>5 DEF NextBlocks, RetryBlock1, ChangeToBlock1, GetBlock2
<1>7. next.kind = "block1" /\ next.left = x.left - 1 /\ x.left > 0 /\ m.code \in {"2.31", "2.04"}
  BY <1>4, <1>6 DEF NextBlock1, Left
<1> DEFINE c == transaction_new(x.peer, x.token, "block1", x.left - 1, x.userData)
<1>8. Sends(c.id) /\ transaction_handleResponse(list \cup {Transmitted(c)}, m)
  BY <1>3, <1>4, <1>7
<1>9. finished' = finished \cup Finishes(list \cup {Transmitted(c)}, m)
  BY <1>1
<1>10. c = transaction_new(x.peer, x.token, "block1", x.left - 1, x.userData)
  OBVIOUS
<1> HIDE DEF c
<1> QED
  BY <1>1, <1>4, <1>7, <1>8, <1>9, <1>10 DEF Sends

\* The transaction of the next block, as the list gets it.
LEMMA NextBlockListed ==
    ASSUME Base, Wire, NEW x \in list, x.left > 0, created < MaxTrans, TakeMID, NEW c,
           c = transaction_new(x.peer, x.token, "block1", x.left - 1, x.userData)
    PROVE  /\ Transmitted(c) \in Transactions /\ Transmitted(c).id = created + 1
           /\ Transmitted(c).mID = nextMID /\ Transmitted(c).peer = x.peer
           /\ Transmitted(c).token = x.token /\ Transmitted(c).left = x.left - 1
           /\ ~Transmitted(c).ack_received
           /\ Transmitted(c).retrans_time = now + ResponseTimeout
           /\ \A y \in list : y.mID # nextMID
           /\ list \cup {Transmitted(c)} \in SUBSET Transactions
           /\ UniqueMids(list \cup {Transmitted(c)})
<1>1. /\ x \in Transactions /\ now \in Nat /\ list \in SUBSET Transactions /\ UniqueMids(list)
      /\ nextMID = MidAt(firstMID, taken)
  BY BaseFacts
<1>2. /\ x.peer \in Peers /\ x.token \in Mids \cup {NoToken} /\ x.left - 1 \in Nat
      /\ x.userData \in Tid /\ "block1" \in Kinds
  BY <1>1 DEF Transactions, Kinds, Wire
<1>3. /\ c \in Transactions /\ Transmitted(c) \in Transactions
      /\ Transmitted(c).id = created + 1 /\ Transmitted(c).mID = nextMID
  <2>1. PICK p \in Peers, tok \in Mids \cup {NoToken}, k \in Kinds, n \in Nat, d \in Tid :
            p = x.peer /\ tok = x.token /\ k = "block1" /\ n = x.left - 1 /\ d = x.userData
    BY <1>2
  <2>2. c = transaction_new(p, tok, k, n, d)
    BY <2>1
  <2> QED
    BY <1>1, <2>2, NewTransaction DEF Base
<1>4. /\ c.retrans_counter = 0 /\ ~c.ack_received
      /\ c.peer = x.peer /\ c.token = x.token /\ c.left = x.left - 1
  BY DEF transaction_new
<1>5. /\ Transmitted(c).peer = x.peer /\ Transmitted(c).token = x.token
      /\ Transmitted(c).left = x.left - 1 /\ ~Transmitted(c).ack_received
      /\ Transmitted(c).retrans_time = now + ResponseTimeout
  BY <1>1, <1>3, <1>4, TransmittedFields
<1>6. \A y \in list : y.mID # nextMID
  BY BaseFacts, TakeMIDKeeps, FreshMid DEF Base
<1>7. UniqueMids(list \cup {Transmitted(c)})
  BY <1>1, <1>3, <1>6 DEF UniqueMids
<1> QED
  BY <1>1, <1>3, <1>5, <1>6, <1>7

\* Answers to blocks leave the blocks of the transactions as they are.
LEMMA ResponseBlocks ==
    ASSUME NEW L \in SUBSET Transactions, UniqueMids(L), NEW m \in Messages, now \in Nat,
           transaction_handleResponse(L, m),
           \A x \in L : x.left \in 0 .. Total - 1 /\ x.token \in Mids
    PROVE  \A z \in list' : z.left \in 0 .. Total - 1 /\ z.token \in Mids
<1> SUFFICES ASSUME NEW z \in list'
             PROVE  z.left \in 0 .. Total - 1 /\ z.token \in Mids
  OBVIOUS
<1>1. \E x \in L : z.left = x.left /\ z.token = x.token
  BY ResponseChanges
<1> QED
  BY <1>1

\* The transaction of an upload.
LEMMA UploadListed ==
    ASSUME Base, Upload
    PROVE  \E z \in Transactions :
             /\ list' = list \cup {z} /\ z.id = created + 1 /\ z.mID = nextMID
             /\ z.token = nextMID /\ z.left = Total - 1 /\ z.peer = peer /\ ~z.ack_received
             /\ z.retrans_time = now + ResponseTimeout
<1> DEFINE n == Total - 1
           k == IF n > 0 THEN "block1" ELSE "plain"
           c == NewRequest(peer, nextMID, n)
<1>1. created < MaxTrans /\ list' = list \cup {Transmitted(c)}
  BY DEF Upload, Request
<1>2. /\ nextMID \in Mids \cup {NoToken} /\ n \in Nat /\ k \in Kinds /\ created + 1 \in Tid
      /\ now \in Nat /\ nextMID = MidAt(firstMID, taken)
  BY <1>1, BaseFacts, NextMidExists DEF Kinds, Tid
<1>3. c = transaction_new(peer, nextMID, k, n, created + 1)
  BY DEF NewRequest
<1>4. /\ c.retrans_counter = 0 /\ ~c.ack_received
      /\ c.peer = peer /\ c.token = nextMID /\ c.left = n
  BY <1>3 DEF transaction_new
<1> HIDE DEF c, n, k
<1>5. /\ c \in Transactions /\ Transmitted(c) \in Transactions
      /\ Transmitted(c).id = created + 1 /\ Transmitted(c).mID = nextMID
  BY <1>1, <1>2, <1>3, NewTransaction, PeerExists DEF Base
<1>6. /\ Transmitted(c).peer = peer /\ Transmitted(c).token = nextMID /\ Transmitted(c).left = n
      /\ ~Transmitted(c).ack_received /\ Transmitted(c).retrans_time = now + ResponseTimeout
  BY <1>2, <1>4, <1>5, TransmittedFields
<1> QED
  BY <1>1, <1>5, <1>6 DEF n

\* The request of a transaction that the walk sends again.
LEMMA ResentRequest ==
    ASSUME Base, WalkInv, Resent
    PROVE  \E x \in list :
             /\ pc = "step" /\ Due(x) /\ CanSend(x)
             /\ list' = (list \ {x}) \cup {Transmitted(x)}
             /\ lastTx' = [lastTx EXCEPT ![x.id] = now]
             /\ requests' = requests \cup {Block(x.mID, x.token, x.left)}
<1>1. PICK x \in list : /\ Visit(x) /\ Due(x) /\ CanSend(x)
                        /\ list' = (list \ {x}) \cup {Transmitted(x)} /\ Sends(x.id)
  BY DEF Resent, StepSends
<1>2. pc = "step" /\ x = Node(list, cursor)
  BY <1>1 DEF Visit
<1>3. \A y, z \in list : y.id = z.id => y = z
  BY DEF Base, CurrentList, ListInv
<1>4. \A y \in list : y.id = cursor => y = x
  BY <1>2, <1>3 DEF Node
<1>5. x.id = cursor
  BY <1>1, <1>2 DEF Visit, WalkInv, Node
<1>6. {y \in list : y.id = cursor} = {x}
  BY <1>4, <1>5
<1> QED
  BY <1>1, <1>2, <1>6 DEF Resent, Sends

\* Blocks and answers stay what they are through every step of the transfer.
LEMMA WireKeeps ==
    ASSUME Base, WalkInv, Wire, Prefix(blockData), TNext
    PROVE  Wire'
<1> DEFINE Fits(x) == x.left \in 0 .. Total - 1 /\ x.token \in Mids
<1>0. /\ \A x \in list : Fits(x)
      /\ \A r \in requests : Requested(r)
      /\ \A a \in answers : AnswerToBlock(a)
      /\ now \in Nat /\ list \in SUBSET Transactions /\ UniqueMids(list)
      /\ late \in BOOLEAN
  BY BaseFacts DEF Wire
<1>1. late' = late
  BY DEF TNext, Upload, Answered, AnsweredNext, Delivered, Resent, Walked, Receive, LateTick,
         TimelyTick, net
<1> SUFFICES /\ \A x \in list' : Fits(x)
             /\ \A r \in requests' : Requested(r)
             /\ \A a \in answers' : AnswerToBlock(a)
  <2>1. late' \in BOOLEAN
    BY <1>0, <1>1
  <2> QED
    BY <2>1 DEF Wire, Requested, AnswerToBlock, Block, peer, Messages, Mids, Types, Codes, Options
<1>2. CASE Upload
  <2>1. PICK z \in Transactions : list' = list \cup {z} /\ z.token = nextMID /\ z.left = Total - 1
    BY <1>2, UploadListed
  <2>2. nextMID \in Mids /\ Total - 1 \in 0 .. Total - 1
    BY NextMidExists
  <2>3. Requested(Block(nextMID, nextMID, Total - 1))
    BY <2>2 DEF Requested
  <2> QED
    BY <1>0, <1>2, <2>1, <2>2, <2>3 DEF Upload
<1>3. ASSUME NEW m \in answers, Answered(m)
      PROVE  /\ \A x \in list' : Fits(x)
             /\ requests' = requests /\ answers' \subseteq answers
  <2>1. transaction_handleResponse(list, m) /\ m \in Messages
    BY <1>0, <1>3 DEF Answered, HandlePacket, AnswerToBlock
  <2>2. \A x \in list' : Fits(x)
    BY <1>0, <2>1, ResponseBlocks
  <2> QED
    BY <1>3, <2>2 DEF Answered, Delivered, Rest
<1>4. ASSUME NEW m \in answers, AnsweredNext(m)
      PROVE  /\ \A x \in list' : Fits(x)
             /\ \A r \in requests' : Requested(r)
             /\ answers' \subseteq answers
  <2>1. PICK x, c :
          /\ x \in list /\ x.left > 0
          /\ c = transaction_new(x.peer, x.token, "block1", x.left - 1, x.userData)
          /\ transaction_handleResponse(list \cup {Transmitted(c)}, m)
          /\ requests' = requests \cup {Block(nextMID, x.token, x.left - 1)}
    BY <1>4, NextOfBlock
  <2>2. created < MaxTrans /\ TakeMID /\ m \in Messages
    BY <1>0, <1>4 DEF AnsweredNext, HandlePacketNextBlock, AnswerToBlock
  <2>3. /\ Transmitted(c).token = x.token /\ Transmitted(c).left = x.left - 1
        /\ list \cup {Transmitted(c)} \in SUBSET Transactions
        /\ UniqueMids(list \cup {Transmitted(c)})
    BY <2>1, <2>2, NextBlockListed
  <2>4. x.left - 1 \in 0 .. Total - 1 /\ x.token \in Mids
    BY <1>0, <2>1
  <2>5. \A y \in list \cup {Transmitted(c)} : Fits(y)
    BY <1>0, <2>3, <2>4
  <2>6. \A y \in list' : Fits(y)
    BY <1>0, <2>1, <2>2, <2>3, <2>5, ResponseBlocks
  <2>7. Requested(Block(nextMID, x.token, x.left - 1))
    BY <2>4, NextMidExists DEF Requested
  <2>8. answers' \subseteq answers
    BY <1>4 DEF AnsweredNext, Delivered, Rest
  <2> QED
    BY <1>0, <2>1, <2>6, <2>7, <2>8
<1>5. CASE Resent
  <2>1. PICK x \in list : /\ list' = (list \ {x}) \cup {Transmitted(x)}
                          /\ requests' = requests \cup {Block(x.mID, x.token, x.left)}
    BY <1>5, ResentRequest
  <2>2. x \in Transactions /\ Fits(x) /\ x.mID \in Mids
    BY <1>0 DEF Transactions
  <2>3. Transmitted(x).left = x.left /\ Transmitted(x).token = x.token
    BY <1>0, <2>2, TransmittedFields
  <2>4. Requested(Block(x.mID, x.token, x.left))
    BY <2>2 DEF Requested
  <2> QED
    BY <1>0, <1>5, <2>1, <2>2, <2>3, <2>4 DEF Resent
<1>6. CASE Walked
  <2>1. list' \subseteq list
    BY <1>6 DEF Walked, StepBegin, StepWaits, StepExpires, StepEnd, transaction_remove, ListRm
  <2> QED
    BY <1>0, <1>6, <2>1 DEF Walked, net
<1>7. ASSUME NEW r \in requests, Receive(r)
      PROVE  /\ list' = list /\ requests' \subseteq requests
             /\ \A a \in answers' : AnswerToBlock(a)
  <2> DEFINE b == [num |-> r.num, more |-> r.more, len |-> r.len]
             a == [type |-> "ACK", code |-> Code1(blockData, b), mid |-> r.mid,
                   token |-> r.token, option |-> "block1", peer |-> peer]
  <2>1. AnswerToBlock(a)
    BY <1>0, ReceiveAnswers
  <2>2. answers' = answers \cup {a} /\ requests' = Rest(requests, r) /\ UNCHANGED vars
    BY <1>7 DEF Receive
  <2> HIDE DEF a
  <2> QED
    BY <1>0, <2>1, <2>2 DEF Rest, vars
<1>8. CASE LateTick \/ TimelyTick
  <2>1. list' = list /\ requests' \subseteq requests /\ answers' \subseteq answers
    BY <1>8 DEF LateTick, TimelyTick, Tick, net
  <2> QED
    BY <1>0, <2>1
<1> QED
  BY <1>0, <1>2, <1>3, <1>4, <1>5, <1>6, <1>7, <1>8 DEF TNext

\* Only a block that is received changes the buffer.
LEMMA BufferKeeps ==
    ASSUME Wire, Prefix(blockData), TNext
    PROVE  Prefix(blockData')
<1>1. ASSUME NEW r \in requests, Receive(r)
      PROVE  Prefix(blockData')
  <2> DEFINE b == [num |-> r.num, more |-> r.more, len |-> r.len]
  <2>1. Piece(b)
    BY BlockIsPiece DEF Wire, Requested
  <2>2. blockData' = Received1(blockData, b)
    BY <1>1 DEF Receive
  <2> HIDE DEF b
  <2> QED
    BY <2>1, <2>2, ReceivedIsPrefix
<1>2. CASE blockData' = blockData
  BY <1>2
<1> QED
  BY <1>1, <1>2 DEF TNext, Upload, Answered, AnsweredNext, Delivered, Resent, Walked,
                    LateTick, TimelyTick, net

\* What every step of a transfer preserves, whatever the network does.
TransferInv == IInv /\ Wire /\ Prefix(blockData)

LEMMA TransferKeeps == TransferInv /\ [TNext]_tvars => TransferInv'
<1> SUFFICES ASSUME TransferInv, [TNext]_tvars PROVE TransferInv'
  OBVIOUS
<1>1. Base /\ WalkInv
  BY Split DEF TransferInv, Base
<1>2. CASE TNext
  <2>1. IInv'
    BY <1>1, <1>2, TransferSteps, Inductive DEF TransferInv
  <2>2. Wire'
    BY <1>1, <1>2, WireKeeps DEF TransferInv
  <2>3. Prefix(blockData)'
    BY <1>2, BufferKeeps DEF TransferInv, Prefix, Whole, NoBlockData
  <2> QED
    BY <2>1, <2>2, <2>3 DEF TransferInv
<1>3. CASE UNCHANGED tvars
  <2>1. UNCHANGED vars /\ UNCHANGED net
    BY <1>3 DEF tvars
  <2>2. IInv'
    BY <2>1, Inductive DEF TransferInv
  <2> QED
    BY <2>1, <2>2 DEF TransferInv, Wire, Requested, AnswerToBlock, Block, peer, Messages, Mids,
                      Types, Codes, Options, Prefix, Whole, NoBlockData, net, vars
<1> QED
  BY <1>2, <1>3

LEMMA TransferStarts == TInit => TransferInv
<1> SUFFICES ASSUME TInit PROVE TransferInv
  OBVIOUS
<1>1. IInv
  BY InitIInv DEF TInit
<1>2. Wire
  BY DEF TInit, Init, Wire
<1>3. Prefix(NoBlockData)
  <2>1. <<>> = Whole(0)
    BY DEF Whole
  <2>2. BlockSize * (-1 + 1) = 0
    OBVIOUS
  <2> QED
    BY <2>1, <2>2 DEF Prefix, NoBlockData
<1> QED
  BY <1>1, <1>2, <1>3 DEF TransferInv, TInit

\* A Block1 transfer uses the transaction layer as its own invariant demands,
\* and what the receiver's buffer holds is at any time a beginning of the
\* payload, for every network.
THEOREM TransferIsSafe == TSpec => []TransferInv
BY TransferStarts, TransferKeeps, PTL DEF TSpec

\* The buffer of coap_block1_handler is the beginning of the payload and
\* blockNum the last block in it, however blocks are lost, repeated and
\* reordered, for every number of blocks, block size and message size limit.
THEOREM BufferHoldsPrefix == TSpec => []BufferIsPrefix
<1>1. TransferInv => BufferIsPrefix
  BY DEF TransferInv, Prefix, BufferIsPrefix
<1> QED
  BY <1>1, TransferIsSafe, PTL
----------------------------------------------------------------------------
(* A timely network                                                        *)

\* nextMID does not wrap during the transfer.
NoWrap == \A f \in FirstMids : f + MaxMids <= MidSpace

\* What is on the way belongs to the transaction x, and the receiver has all
\* blocks before x's, perhaps x's too.
Flight(x) ==
    /\ x.peer = peer /\ ~x.ack_received
    /\ \A r \in requests : r = Block(x.mID, x.token, x.left)
    /\ \A a \in answers : a.mid = x.mID /\ a.token = x.token
    /\ requests \cup answers # {} => now < x.retrans_time
    /\ blockData.blockNum \in Total - 2 - x.left .. Total - 1 - x.left
    /\ \A a \in answers :
         /\ a.code \in {"2.31", "2.04"} => blockData.blockNum = Total - 1 - x.left
         /\ a.code = "2.31" => x.left > 0
         /\ a.code = "2.04" => x.left = 0

\* There is one transaction at a time, and one message on the way for it.
Timely ==
    /\ firstMID \in FirstMids
    /\ \A x, y \in list : x = y
    /\ list = {} => requests = {} /\ answers = {}
    /\ requests = {} \/ answers = {}
    /\ \A a, b \in answers : a = b
    /\ \A x \in list : Flight(x)
    /\ created = 0 => blockData.blockNum = -1
    /\ blockData.blockNum = Total - 1 => Whole(Total) \in handed
    /\ \A c \in handed : c = Whole(Total)
    /\ \A f \in finished : f[1] = f[2]

\* An answer ends the transaction that has its message ID, also when the next
\* block, which has the same token, is already listed behind it.
LEMMA OwnAnswer ==
    ASSUME NEW L \in SUBSET Transactions, UniqueMids(L), NEW x \in L,
           \A y \in L : y = x \/ x.mID < y.mID, NEW m, m.type = "ACK", m.code # "4.01",
           m.peer = x.peer, m.mid = x.mID, m.token = x.token, x.token # NoToken,
           ~x.ack_received, transaction_handleResponse(L, m)
    PROVE  list' = L \ {x} /\ Finishes(L, m) = {<<x.mID, m.mid>>}
<1> DEFINE H == Hits(L, m)
           f == FirstOf(H)
<1>1. AckMatch(x, m) /\ Done(x, m)
  BY DEF AckMatch, Done, prv_checkFinished
<1>2. x \in H
  BY <1>1 DEF Hits
<1>3. H \in SUBSET Transactions /\ UniqueMids(H) /\ H \in SUBSET L
  BY DEF UniqueMids, Hits
<1> HIDE DEF H
<1>4. f \in H /\ (f = x \/ Before(f, x))
  BY <1>2, <1>3, FirstOfLeads
<1>5. f = x
  <2>1. f \in L /\ f.mID \in Mids /\ x.mID \in Mids
    BY <1>3, <1>4 DEF Transactions
  <2>2. f # x => x.mID < f.mID /\ Before(f, x)
    BY <1>4, <2>1
  <2> HIDE DEF f
  <2> QED
    BY <2>1, <2>2 DEF Before, Mids
<1>6. ~Denied(x, m)
  BY DEF Denied
<1>7. ResponseDone(L, m)
  BY <1>1, <1>2, <1>5, <1>6 DEF transaction_handleResponse, ResponseIgnored, ResponseDenied,
                                ResponseAcked, H
<1>8. transaction_remove(L, x)
  BY <1>5, <1>7 DEF ResponseDone, H
<1>9. list' = L \ {x}
  BY <1>8, ListRmExact DEF transaction_remove
<1>10. Finishes(L, m) = {<<x.mID, m.mid>>}
  BY <1>1, <1>2, <1>5 DEF Finishes, H
<1> QED
  BY <1>9, <1>10

\* What the receiver does with the block it waits for, or has just got.
LEMMA ReceivedInTurn ==
    ASSUME NEW bd, Prefix(bd), NEW left \in 0 .. Total - 1, NEW b, Piece(b),
           b.num = Total - 1 - left, b.more <=> left > 0,
           bd.blockNum \in Total - 2 - left .. Total - 1 - left
    PROVE  /\ Received1(bd, b).blockNum \in Total - 2 - left .. Total - 1 - left
           /\ Code1(bd, b) \in {"2.31", "2.04"} => Received1(bd, b).blockNum = Total - 1 - left
           /\ Code1(bd, b) = "2.31" => left > 0
           /\ Code1(bd, b) = "2.04" => left = 0
           /\ Received1(bd, b).blockNum = Total - 1 => bd.blockNum = Total - 1 \/ Complete1(bd, b)
           /\ Complete1(bd, b) => Received1(bd, b).content = Whole(Total)
<1> DEFINE n == Total - 1 - left
           rb == Received1(bd, b)
<1>1. /\ n \in Nat /\ b.num = n /\ bd.blockNum \in Int /\ Total \in Nat /\ Total >= 2
      /\ bd.blockNum = n \/ bd.blockNum = n - 1
      /\ n = Total - 1 <=> left = 0
  BY DEF Prefix
<1>2. Prefix(rb)
  BY ReceivedIsPrefix
<1>3. b.more <=> n # Total - 1
  BY <1>1
<1> HIDE DEF n
<1>4. CASE n = 0
  <2>1. Verdict(bd, b) = "start"
    BY <1>1, <1>4 DEF Verdict
  <2>2. rb.blockNum = 0 /\ b.more /\ Code1(bd, b) = "2.31" /\ ~Complete1(bd, b)
    BY <1>1, <1>3, <1>4, <2>1 DEF Received1, Code1, Complete1
  <2> HIDE DEF rb
  <2> QED
    BY <1>1, <1>4, <2>2 DEF n, rb
<1>5. CASE n # 0 /\ bd.blockNum = n
  <2>1. bd # NoBlockData
    BY <1>1, <1>5 DEF Prefix
  <2>2. Verdict(bd, b) = "retransmission"
    BY <1>1, <1>5, <2>1 DEF Verdict
  <2>3. /\ rb = bd /\ Code1(bd, b) = (IF b.more THEN "2.31" ELSE "2.04")
        /\ ~Complete1(bd, b)
    BY <2>2 DEF Received1, Code1, Complete1
  <2> HIDE DEF rb
  <2> QED
    BY <1>1, <1>3, <1>5, <2>3 DEF n, rb
<1>6. CASE n # 0 /\ bd.blockNum = n - 1
  <2>1. bd # NoBlockData /\ n > 0 /\ n = bd.blockNum + 1
    BY <1>1, <1>6 DEF Prefix
  <2>2. Verdict(bd, b) \in {"incomplete", "too large", "append"}
    <3>1. /\ b.num # 0 /\ b.num > 0 /\ b.num = bd.blockNum + 1
          /\ ~(b.num <= bd.blockNum) /\ ~(b.num > bd.blockNum + 1)
      BY <1>1, <2>1
    <3>2. Verdict(bd, b) = IF bd.size # BlockSize * b.num THEN "incomplete"
                           ELSE IF bd.size + b.len > MaxMessage THEN "too large" ELSE "append"
      BY <2>1, <3>1, Zenon DEF Verdict
    <3> QED
      BY <3>2
  <2>3. CASE Verdict(bd, b) # "append"
    <3>1. rb = bd /\ Code1(bd, b) \in {"4.08", "4.13"} /\ ~Complete1(bd, b)
      BY <2>2, <2>3 DEF Received1, Code1, Complete1
    <3> HIDE DEF rb
    <3> QED
      BY <1>1, <1>6, <3>1 DEF n, rb
  <2>4. CASE Verdict(bd, b) = "append"
    <3>1. /\ rb.blockNum = n /\ Code1(bd, b) = (IF b.more THEN "2.31" ELSE "2.04")
          /\ Complete1(bd, b) <=> ~b.more
      BY <1>1, <2>4 DEF Received1, Code1, Complete1
    <3> HIDE DEF rb
    <3>2. rb.content = Whole(n + 1)
      BY <1>2, <3>1 DEF Prefix
    <3>3. ~b.more => n + 1 = Total
      BY <1>1, <1>3
    <3> QED
      BY <1>1, <1>3, <3>1, <3>2, <3>3 DEF n, rb
  <2> QED
    BY <2>3, <2>4
<1> QED
  BY <1>1, <1>4, <1>5, <1>6

\* The hypotheses under which a step of the transfer keeps Timely.
InTime == Base /\ WalkInv /\ Wire /\ Prefix(blockData) /\ TimerInv /\ Timely /\ ~late

LEMMA InTimeFacts ==
    ASSUME InTime
    PROVE  /\ now \in Nat /\ list \in SUBSET Transactions /\ UniqueMids(list)
           /\ Total \in Nat /\ blockData.blockNum \in Int
           /\ \A x \in list : /\ x.id \in Tid /\ x.id <= created /\ x.retrans_time \in Int
                              /\ x.mID \in Mids /\ x.left \in 0 .. Total - 1 /\ x.token \in Mids
                              /\ x.token # NoToken /\ Flight(x)
           /\ \A a \in answers : AnswerToBlock(a)
           /\ created \in Nat /\ (list # {} => created # 0)
<1>1. /\ now \in Nat /\ list \in SUBSET Transactions /\ UniqueMids(list)
      /\ created \in 0 .. MaxTrans
      /\ \A x \in list : /\ x.id \in Tid /\ x.id <= created /\ x.retrans_time \in Int
                         /\ x.mID \in Mids
  BY BaseFacts DEF InTime
<1>2. /\ \A x \in list : x.left \in 0 .. Total - 1 /\ x.token \in Mids
      /\ \A a \in answers : AnswerToBlock(a)
  BY DEF InTime, Wire
<1>3. \A x \in list : x.token # NoToken
  BY <1>2 DEF Mids
<1>4. (\A x \in list : Flight(x)) /\ blockData.blockNum \in Int
  BY DEF InTime, Timely, Prefix
<1>5. list # {} => created # 0
  BY <1>1 DEF Tid
<1> QED
  BY <1>1, <1>2, <1>3, <1>4, <1>5

LEMMA UploadTimely ==
    ASSUME InTime, Upload
    PROVE  Timely'
<1>1. PICK z \in Transactions :
        /\ list' = list \cup {z} /\ z.id = created + 1 /\ z.mID = nextMID
        /\ z.token = nextMID /\ z.left = Total - 1 /\ z.peer = peer /\ ~z.ack_received
        /\ z.retrans_time = now + ResponseTimeout
  BY UploadListed DEF InTime
<1>2. created = 0 /\ list = {} /\ requests = {} /\ answers = {} /\ blockData.blockNum = -1
  BY InTimeFacts DEF Upload, InTime, Timely
<1>3. /\ list' = {z} /\ requests' = {Block(nextMID, nextMID, Total - 1)} /\ answers' = {}
      /\ created' = 1 /\ now' = now /\ firstMID' = firstMID
      /\ blockData' = blockData /\ handed' = handed /\ finished' = finished
  BY <1>1, <1>2 DEF Upload, Request, TakeMID
<1>4. now \in Nat /\ now < now + ResponseTimeout /\ Total \in Nat
  BY InTimeFacts
<1>5. blockData.blockNum \in Total - 2 - z.left .. Total - 1 - z.left
  BY <1>1, <1>2, <1>4
<1>6. Flight(z)'
  BY <1>1, <1>3, <1>4, <1>5 DEF Flight, Block, peer
<1> QED
  BY <1>3, <1>6 DEF InTime, Timely, Whole

LEMMA AnsweredTimely ==
    ASSUME InTime, NEW m \in answers, Answered(m)
    PROVE  Timely'
<1>1. PICK x \in list : list = {x}
  BY DEF InTime, Timely
<1>2. /\ m.type = "ACK" /\ m.code # "4.01" /\ m.peer = x.peer /\ m.mid = x.mID
      /\ m.token = x.token /\ x.token # NoToken /\ ~x.ack_received
  BY InTimeFacts DEF AnswerToBlock, Flight
<1>3. transaction_handleResponse(list, m)
  BY DEF Answered, HandlePacket
<1>4. list' = list \ {x} /\ Finishes(list, m) = {<<x.mID, m.mid>>}
  BY <1>1, <1>2, <1>3, InTimeFacts, OwnAnswer
<1>5. /\ list' = {} /\ requests' = {} /\ answers' = {}
      /\ created' = created /\ firstMID' = firstMID
      /\ blockData' = blockData /\ handed' = handed
      /\ finished' = finished \cup {<<x.mID, m.mid>>}
  <2>1. requests' = {} /\ answers' = {}
    BY DEF Answered, Delivered, Rest, InTime, Timely
  <2> QED
    BY <1>1, <1>4, <2>1 DEF Answered, Delivered, HandlePacket, mids
<1>6. \A f \in finished' : f[1] = f[2]
  BY <1>2, <1>5 DEF InTime, Timely
<1> QED
  BY <1>5, <1>6 DEF InTime, Timely, Whole

LEMMA AnsweredNextTimely ==
    ASSUME NoWrap, InTime, NEW m \in answers, AnsweredNext(m)
    PROVE  Timely'
<1>1. PICK x, c :
        /\ x \in list
        /\ x.mID = m.mid /\ x.left > 0 /\ m.code \in {"2.31", "2.04"}
        /\ c = transaction_new(x.peer, x.token, "block1", x.left - 1, x.userData)
        /\ transaction_handleResponse(list \cup {Transmitted(c)}, m)
        /\ requests' = requests \cup {Block(nextMID, x.token, x.left - 1)}
        /\ finished' = finished \cup Finishes(list \cup {Transmitted(c)}, m)
  BY NextOfBlock DEF InTime
<1>0. PICK z : z = Transmitted(c)
  OBVIOUS
<1> DEFINE L == list \cup {z}
<1>2. created < MaxTrans /\ TakeMID /\ created' = created + 1 /\ now' = now
  BY DEF AnsweredNext, HandlePacketNextBlock, Received
<1>3. /\ z \in Transactions /\ z.mID = nextMID /\ z.peer = x.peer
      /\ z.token = x.token /\ z.left = x.left - 1 /\ ~z.ack_received
      /\ z.retrans_time = now + ResponseTimeout
      /\ \A y \in list : y.mID # nextMID
      /\ L \in SUBSET Transactions /\ UniqueMids(L)
  BY <1>0, <1>1, <1>2, NextBlockListed DEF InTime
<1>4. list = {x}
  BY <1>1 DEF InTime, Timely
<1>5. /\ m.type = "ACK" /\ m.code # "4.01" /\ m.peer = x.peer /\ m.mid = x.mID
      /\ m.token = x.token /\ x.token # NoToken /\ ~x.ack_received /\ x.peer = peer
      /\ blockData.blockNum = Total - 1 - x.left
  BY <1>1, InTimeFacts DEF AnswerToBlock, Flight
<1>6. x.mID < z.mID
  <2>1. firstMID \in FirstMids /\ firstMID \in Mids /\ taken \in 0 .. MaxMids /\ taken < MaxMids
        /\ nextMID = MidAt(firstMID, taken) /\ IssuedAt(x.mID, firstMID, taken) /\ x.mID \in Mids
    BY <1>1, <1>2, BaseFacts DEF InTime, Timely, TakeMID
  <2>2. firstMID + MaxMids <= MidSpace
    BY <2>1 DEF NoWrap
  <2>3. nextMID = firstMID + taken /\ x.mID < firstMID + taken
    BY <2>1, <2>2 DEF MidAt, IssuedAt, Mids
  <2> QED
    BY <1>3, <2>3
<1>7. list' = L \ {x} /\ Finishes(L, m) = {<<x.mID, m.mid>>}
  <2>1. \A y \in L : y = x \/ x.mID < y.mID
    BY <1>4, <1>6
  <2>2. transaction_handleResponse(L, m) /\ x \in L
    BY <1>0, <1>1
  <2> HIDE DEF L
  <2> QED
    BY <1>3, <1>5, <2>1, <2>2, OwnAnswer
<1>8. requests = {} /\ answers' = {}
  BY DEF AnsweredNext, Delivered, Rest, InTime, Timely
<1>9. /\ list' = {z} /\ requests' = {Block(z.mID, z.token, z.left)} /\ answers' = {}
      /\ finished' = finished \cup {<<x.mID, m.mid>>}
      /\ blockData' = blockData /\ handed' = handed /\ firstMID' = firstMID
  <2>1. z # x
    BY <1>1, <1>3
  <2>2. list' = {z}
    BY <1>4, <1>7, <2>1
  <2>3. finished' = finished \cup {<<x.mID, m.mid>>}
    BY <1>0, <1>1, <1>7
  <2> QED
    BY <1>1, <1>2, <1>3, <1>8, <2>2, <2>3 DEF AnsweredNext, Delivered, TakeMID
<1>10. Flight(z)'
  <2>1. now \in Nat /\ Total \in Nat /\ x.left \in 0 .. Total - 1
    BY <1>1, InTimeFacts
  <2>2. blockData.blockNum \in Total - 2 - z.left .. Total - 1 - z.left
    BY <1>3, <1>5, <2>1
  <2>3. now < z.retrans_time
    BY <1>3, <2>1
  <2> QED
    BY <1>2, <1>3, <1>5, <1>9, <2>2, <2>3 DEF Flight, Block, peer
<1>11. created' # 0
  BY <1>2, InTimeFacts
<1>12. \A f \in finished' : f[1] = f[2]
  BY <1>5, <1>9 DEF InTime, Timely
<1> QED
  BY <1>9, <1>10, <1>11, <1>12 DEF InTime, Timely, Whole

LEMMA ResentTimely ==
    ASSUME InTime, Resent
    PROVE  Timely'
<1>1. PICK x \in list : /\ pc = "step" /\ Due(x) /\ CanSend(x)
                        /\ list' = (list \ {x}) \cup {Transmitted(x)}
                        /\ lastTx' = [lastTx EXCEPT ![x.id] = now]
                        /\ requests' = requests \cup {Block(x.mID, x.token, x.left)}
  BY ResentRequest DEF InTime
<1>2. PICK z : z = Transmitted(x)
  OBVIOUS
<1>3. x.retrans_time = now /\ z.retrans_time > now
  <2>1. \E lt : lt = [lastTx EXCEPT ![x.id] = now]
    OBVIOUS
  <2> QED
    BY <1>1, <1>2, <2>1, ResendTimers DEF InTime
<1>4. list = {x} /\ requests = {} /\ answers = {}
  <2>1. list = {x}
    BY DEF InTime, Timely
  <2>2. ~(now < x.retrans_time)
    BY <1>3, InTimeFacts
  <2> QED
    BY <2>1, <2>2, InTimeFacts DEF Flight
<1>5. /\ z.mID = x.mID /\ z.token = x.token /\ z.left = x.left /\ z.peer = x.peer
      /\ z.ack_received = x.ack_received /\ z \in Transactions
  BY <1>2, InTimeFacts, TransmittedFields
<1>6. /\ list' = {z} /\ requests' = {Block(z.mID, z.token, z.left)} /\ answers' = {}
      /\ created' = created /\ now' = now /\ firstMID' = firstMID
      /\ blockData' = blockData /\ handed' = handed /\ finished' = finished
  BY <1>1, <1>2, <1>4, <1>5 DEF Resent, StepSends, Visit, mids
<1>7. Flight(z)'
  <2>1. now < z.retrans_time
    BY <1>3, <1>5, InTimeFacts DEF Transactions
  <2>2. z.peer = peer /\ ~z.ack_received /\
        blockData.blockNum \in Total - 2 - z.left .. Total - 1 - z.left
    BY <1>5, InTimeFacts DEF Flight
  <2> QED
    BY <1>6, <2>1, <2>2 DEF Flight, Block, peer
<1> QED
  BY <1>6, <1>7 DEF InTime, Timely, Whole

LEMMA WalkedTimely ==
    ASSUME InTime, Walked
    PROVE  Timely'
<1>1. /\ requests' = requests /\ answers' = answers /\ now' = now /\ created' = created
      /\ firstMID' = firstMID /\ blockData' = blockData /\ handed' = handed
      /\ finished' = finished
  BY DEF Walked, net, StepBegin, StepWaits, StepExpires, StepEnd, Visit, mids
<1>2. CASE list' = list
  BY <1>1, <1>2 DEF InTime, Timely, Flight, Block, peer, Whole
<1>3. CASE list' # list
  <2>1. StepExpires
    BY <1>3 DEF Walked, StepBegin, StepWaits, StepEnd
  <2>2. PICK x \in list : pc = "step" /\ Due(x) /\ transaction_remove(list, x)
    BY <2>1 DEF StepExpires, Visit
  <2>3. list' = list \ {x} /\ list = {x}
    BY <2>2, InTimeFacts, ListRmExact DEF transaction_remove, InTime, Timely
  <2>4. ~(now < x.retrans_time)
    <3>1. stepTime = now /\ x.retrans_time \in Int /\ now \in Nat
      BY <2>2, InTimeFacts DEF InTime, TimerInv
    <3> QED
      BY <2>2, <3>1 DEF Due
  <2>5. requests = {} /\ answers = {} /\ list' = {}
    BY <2>3, <2>4, InTimeFacts DEF Flight
  <2> QED
    BY <1>1, <2>5 DEF InTime, Timely, Whole
<1> QED
  BY <1>2, <1>3

LEMMA ReceiveTimely ==
    ASSUME InTime, NEW r \in requests, Receive(r)
    PROVE  Timely'
<1>1. PICK x \in list : list = {x}
  BY DEF InTime, Timely
<1>2. PICK b : b = [num |-> r.num, more |-> r.more, len |-> r.len]
  OBVIOUS
<1>3. PICK a : a = [type |-> "ACK", code |-> Code1(blockData, b), mid |-> r.mid,
                    token |-> r.token, option |-> "block1", peer |-> peer]
  OBVIOUS
<1>4. /\ x.left \in 0 .. Total - 1 /\ r = Block(x.mID, x.token, x.left)
      /\ blockData.blockNum \in Total - 2 - x.left .. Total - 1 - x.left
      /\ Prefix(blockData) /\ Total \in Nat
  BY InTimeFacts DEF Flight, InTime
<1>5. /\ Piece(b) /\ b.num = Total - 1 - x.left /\ (b.more <=> x.left > 0)
      /\ r.mid = x.mID /\ r.token = x.token
  BY <1>2, <1>4, BlockIsPiece
<1>6. /\ a.code = Code1(blockData, b) /\ a.mid = x.mID /\ a.token = x.token
  BY <1>3, <1>5
<1>7. /\ list' = {x} /\ requests' = {} /\ answers' = {a} /\ created' = created /\ now' = now
      /\ firstMID' = firstMID /\ blockData' = Received1(blockData, b) /\ finished' = finished
      /\ handed' = IF Complete1(blockData, b)
                   THEN handed \cup {Received1(blockData, b).content} ELSE handed
  <2>1. requests = {r} /\ answers = {} /\ ~late
    BY <1>1, <1>4, InTimeFacts DEF InTime, Timely, Flight
  <2>2. UNCHANGED vars /\ requests' = Rest(requests, r) /\ answers' = answers \cup {a}
    BY <1>2, <1>3 DEF Receive
  <2>3. /\ blockData' = Received1(blockData, b) /\ finished' = finished
        /\ handed' = IF Complete1(blockData, b)
                     THEN handed \cup {Received1(blockData, b).content} ELSE handed
    BY <1>2 DEF Receive
  <2> QED
    BY <1>1, <2>1, <2>2, <2>3 DEF Rest, vars
<1>8. /\ blockData'.blockNum \in Total - 2 - x.left .. Total - 1 - x.left
      /\ a.code \in {"2.31", "2.04"} => blockData'.blockNum = Total - 1 - x.left
      /\ a.code = "2.31" => x.left > 0
      /\ a.code = "2.04" => x.left = 0
      /\ blockData'.blockNum = Total - 1 =>
            blockData.blockNum = Total - 1 \/ Complete1(blockData, b)
      /\ Complete1(blockData, b) => Received1(blockData, b).content = Whole(Total)
  BY <1>4, <1>5, <1>6, <1>7, ReceivedInTurn
<1>9. Flight(x)'
  <2>1. now < x.retrans_time /\ x.peer = peer /\ ~x.ack_received
    BY InTimeFacts DEF Flight
  <2> QED
    BY <1>6, <1>7, <1>8, <2>1 DEF Flight, Block, peer
<1>10. /\ blockData'.blockNum = Total - 1 => Whole(Total) \in handed'
       /\ \A c \in handed' : c = Whole(Total)
  BY <1>7, <1>8 DEF InTime, Timely
<1>11. created' # 0
  BY <1>1, <1>7, InTimeFacts
<1> QED
  BY <1>7, <1>9, <1>10, <1>11 DEF InTime, Timely, Whole

LEMMA TickTimely ==
    ASSUME InTime, TimelyTick
    PROVE  Timely'
<1>1. /\ requests' = {} /\ answers' = {} /\ list' = list /\ created' = created
      /\ firstMID' = firstMID /\ blockData' = blockData /\ handed' = handed
      /\ finished' = finished
  BY DEF TimelyTick, Tick, mids
<1> QED
  BY <1>1 DEF InTime, Timely, Flight, peer, Whole

LEMMA TimelyKeeps ==
    ASSUME NoWrap, InTime, [TNext]_tvars
    PROVE  Timely'
<1>1. CASE UNCHANGED tvars
  BY <1>1 DEF tvars, vars, net, InTime, Timely, Flight, Block, peer, Whole
<1>2. ~LateTick
  BY DEF InTime, LateTick
<1> QED
  BY <1>1, <1>2, UploadTimely, AnsweredTimely, AnsweredNextTimely, ResentTimely, WalkedTimely,
     ReceiveTimely, TickTimely DEF TNext

LEMMA TimelyStarts == TInit => Timely
BY DEF TInit, Init, Timely, NoBlockData

\* The transfer in a timely network: late does not change, the timers are met.
TimelyInv == TransferInv /\ TimerInv /\ (~late => Timely)

\* If lwm2m_step is called when *timeoutP says and nextMID does not wrap, there
\* is at most one message on the way in a timely network, and it belongs to the
\* one transaction listed.
THEOREM TimelyIsInOrder ==
    ASSUME Punctual, NoWrap
    PROVE  TSpec => []TimelyInv
<1>1. TInit => TimelyInv
  BY TransferStarts, InitTimers, TimelyStarts DEF TimelyInv, TInit
<1>2. TimelyInv /\ [TNext]_tvars => TimelyInv'
  <2> SUFFICES ASSUME TimelyInv, [TNext]_tvars PROVE TimelyInv'
    OBVIOUS
  <2>1. TransferInv'
    BY TransferKeeps DEF TimelyInv
  <2>2. Base /\ WalkInv /\ Wire /\ Prefix(blockData) /\ TimerInv
    BY Split DEF TimelyInv, TransferInv, Base
  <2>3. [Next]_vars
    BY <2>2, TransferSteps DEF tvars
  <2>4. TimerInv'
    BY <2>2, <2>3, TimersKeep
  <2>5. late' = late
    BY DEF TNext, Upload, Answered, AnsweredNext, Delivered, Resent, Walked, Receive, LateTick,
           TimelyTick, net, tvars
  <2>6. ~late => Timely'
    BY <2>2, TimelyKeeps DEF TimelyInv, InTime
  <2> QED
    BY <2>1, <2>4, <2>5, <2>6 DEF TimelyInv
<1> QED
  BY <1>1, <1>2, PTL DEF TSpec

\* In a timely network handle_request gets the whole payload or nothing, with
\* any losses and retransmissions.
THEOREM TimelyGivesWhole ==
    ASSUME Punctual, NoWrap
    PROVE  TSpec => []TimelyIsComplete
<1>1. TimelyInv => TimelyIsComplete
  BY DEF TimelyInv, Timely, TimelyIsComplete, HandedComplete
<1> QED
  BY <1>1, TimelyIsInOrder, PTL

\* In a timely network every transaction ends with the answer to its own message
\* ID, although the next block with the same token is listed before its end.
THEOREM OwnAckFinishes ==
    ASSUME Punctual, NoWrap
    PROVE  TSpec => []FinishedByOwnAck
<1>1. TimelyInv => FinishedByOwnAck
  BY DEF TimelyInv, Timely, FinishedByOwnAck
<1> QED
  BY <1>1, TimelyIsInOrder, PTL

\* In a timely network a 2.04 is on its way only when the receiver has handed
\* the whole payload to handle_request.
THEOREM SuccessMeansHanded ==
    ASSUME Punctual, NoWrap
    PROVE  TSpec => []SuccessIsReal
<1>1. ASSUME TimelyInv PROVE SuccessIsReal
  <2> SUFFICES ASSUME ~late, NEW m \in answers, m.code = "2.04"
               PROVE  Whole(Total) \in handed
    BY DEF SuccessIsReal
  <2>1. Timely
    BY <1>1 DEF TimelyInv
  <2>2. PICK x \in list : Flight(x)
    BY <2>1 DEF Timely
  <2>3. x.left = 0 /\ blockData.blockNum = Total - 1 - x.left
    BY <2>2 DEF Flight
  <2>4. blockData.blockNum = Total - 1
    BY <2>3
  <2> QED
    BY <2>1, <2>4 DEF Timely
<1> QED
  BY <1>1, TimelyIsInOrder, PTL
============================================================================
