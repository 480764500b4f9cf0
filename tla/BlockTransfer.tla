--------------------------- MODULE BlockTransfer ---------------------------
(***************************************************************************)
(* One Block1 upload from end to end: the transactions of the sender       *)
(* (Transaction), a network, and the receiver's block1 handler             *)
(* (BlockHandler).  Both ends run wakaama, as a client that registers with *)
(* a payload of several blocks and its server do.                          *)
(***************************************************************************)
EXTENDS Transaction, BlockHandler

CONSTANTS
    Total,      \* number of blocks of the payload
    LastLen,    \* length of the last one
    FirstMids,  \* values of nextMID to start from
    Networks    \* values of late to start from

ASSUME TransferAssumption ==
    /\ Total \in 2 .. MaxBlocks /\ LastLen \in 1 .. BlockSize
    /\ FirstMids \subseteq Mids /\ Networks \subseteq BOOLEAN
    /\ ~Resize                 \* AnsweredNext sends blocks of the same size

VARIABLES
    requests,   \* requests on the way
    answers,    \* answers on the way
    blockData,  \* peerP->blockData of the receiver
    handed,     \* payloads given to handle_request
    late,       \* FALSE: a message comes once and within a tick, or not at all
    finished    \* pairs: transaction, message its callback was called with

net   == <<requests, answers, blockData, handed, late, finished>>
tvars == <<vars, net>>

peer == CHOOSE p \in Peers : TRUE

\* Mutant of Block: the last but one is announced as the last.
MutantBlock(mid, tok, left) ==
    [mid |-> mid, token |-> tok, num |-> Total - 1 - left, more |-> left > 1,
     len |-> IF left > 0 THEN BlockSize ELSE LastLen]

\* The message on the wire for a block with `left' blocks behind it.
Block(mid, tok, left) ==
    [mid |-> mid, token |-> tok, num |-> Total - 1 - left, more |-> left > 0,
     len |-> IF left > 0 THEN BlockSize ELSE LastLen]
----------------------------------------------------------------------------
(* The sender                                                              *)

Upload ==
    /\ created = 0
    /\ Request(peer, nextMID, Total - 1)
    /\ requests' = requests \cup {Block(nextMID, nextMID, Total - 1)}
    /\ UNCHANGED <<answers, blockData, handed, late, finished>>

\* The transaction that transaction_handleResponse finishes, of L.
Finishes(L, m) ==
    IF Hits(L, m) = {} \/ ~Done(FirstOf(Hits(L, m)), m) THEN {}
    ELSE {<<FirstOf(Hits(L, m)).mID, m.mid>>}

\* What is left on the way after a delivery.
Rest(S, m) == IF late THEN S ELSE S \ {m}

Delivered(m) ==
    /\ m \in answers
    /\ answers' = Rest(answers, m)
    /\ UNCHANGED <<blockData, handed, late>>

Answered(m) ==
    /\ Delivered(m)
    /\ HandlePacket(m)
    /\ finished' = finished \cup Finishes(list, m)
    /\ UNCHANGED requests

AnsweredNext(m) ==
    /\ Delivered(m)
    /\ m.code # "4.13"     \* asks for a smaller block after the first one only
    /\ \E x \in Addressed(m) :
          /\ requests' = requests \cup {Block(nextMID, x.token, x.left - 1)}
          /\ finished' = finished \cup
                Finishes(list \cup {Transmitted(transaction_new(x.peer, x.token, "block1",
                                                        x.left - 1, x.userData))}, m)
    /\ HandlePacketNextBlock(m)

Resent ==
    /\ StepSends
    /\ requests' = requests \cup
          {Block(x.mID, x.token, x.left) : x \in {y \in list : y.id = cursor}}
    /\ UNCHANGED <<answers, blockData, handed, late, finished>>

Walked ==
    /\ StepBegin \/ StepWaits \/ StepExpires \/ StepEnd
    /\ UNCHANGED net
----------------------------------------------------------------------------
(* The receiver and the network                                            *)

\* lwm2m_handle_packet of a request with Block1; handle_request succeeds.
Receive(r) ==
    LET b == [num |-> r.num, more |-> r.more, len |-> r.len]
    IN  /\ r \in requests
        /\ pc = "idle"
        /\ blockData' = Received1(blockData, b)
        /\ handed' = IF Complete1(blockData, b)
                     THEN handed \cup {Received1(blockData, b).content} ELSE handed
        /\ answers' = answers \cup
              {[type |-> "ACK", code |-> Code1(blockData, b), mid |-> r.mid,
                token |-> r.token, option |-> "block1", peer |-> peer]}
        /\ requests' = Rest(requests, r)
        /\ UNCHANGED <<vars, late, finished>>

\* Messages stay on the way: they may come late, twice, or never.
LateTick ==
    /\ late
    /\ Tick
    /\ UNCHANGED net

TimelyTick ==
    /\ ~late
    /\ Tick
    /\ requests' = {} /\ answers' = {}
    /\ UNCHANGED <<blockData, handed, late, finished>>
----------------------------------------------------------------------------
TInit ==
    /\ Init
    /\ nextMID \in FirstMids
    /\ requests = {} /\ answers = {}
    /\ blockData = NoBlockData
    /\ handed = {} /\ finished = {}
    /\ late \in Networks

TNext ==
    \/ Upload
    \/ \E m \in answers : Answered(m) \/ AnsweredNext(m)
    \/ Resent
    \/ Walked
    \/ \E r \in requests : Receive(r)
    \/ LateTick
    \/ TimelyTick

TSpec == TInit /\ [][TNext]_tvars
----------------------------------------------------------------------------
(* Properties                                                              *)

Whole(n) == [i \in 1 .. n |-> i - 1]

\* The buffer of the receiver is at any time the beginning of the payload, and
\* blockNum the last block in it, however blocks are repeated and reordered.
BufferIsPrefix ==
    /\ blockData.content = Whole(blockData.blockNum + 1)
    /\ blockData.size \in {BlockSize * (blockData.blockNum + 1),
                           BlockSize * blockData.blockNum + LastLen}

\* "buffer is full": what goes to handle_request is the whole payload.
HandedComplete == \A c \in handed : c = Whole(Total)

\* It is, if no message comes late or twice: losses and retransmissions do no
\* harm by themselves.
TimelyIsComplete == ~late => HandedComplete

\* "regular finished with corresponding ACK.MID and response containing the
\* token": in a timely network the piggybacked answer that ends a transaction is
\* its own, although all blocks of the transfer have the same token.
FinishedByOwnAck == ~late => \A f \in finished : f[1] = f[2]

\* In a timely network the sender is told that the last block was accepted only
\* when the receiver has handed the whole payload on.
SuccessIsReal ==
    ~late => \A m \in answers : m.code = "2.04" => Whole(Total) \in handed
============================================================================
