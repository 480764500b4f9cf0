---------------------------- MODULE BlockHandler ----------------------------
(***************************************************************************)
(* coap_block1_handler (coap/block.c): how the receiver of a Block1 upload *)
(* puts the payload together, for one peer and one URI.                    *)
(*                                                                         *)
(* A block is [num, more, len]; len is counted in units of which a full    *)
(* block has BlockSize.  The payload is abstracted to the sequence of the  *)
(* block numbers that were copied into the buffer.                         *)
(***************************************************************************)
EXTENDS Integers, Sequences

CONSTANTS
    BlockSize,   \* block1_size of the transfer
    MaxMessage   \* LWM2M_COAP_MAX_MESSAGE_SIZE, in the same units

ASSUME BlockAssumption == BlockSize \in Nat \ {0} /\ MaxMessage \in Nat

Blocks == [num : Nat, more : BOOLEAN, len : 1 .. BlockSize]

\* find_block_data found nothing for the URI.
NoBlockData == [blockNum |-> -1, size |-> 0, content |-> <<>>]

BlockData == [blockNum : Nat \cup {-1}, size : Nat, content : Seq(Nat)]

\* The branches of prv_coap_block_handler.
Verdict(bd, b) ==
    CASE b.num = 0 -> "start"
      [] b.num > 0 /\ bd = NoBlockData -> "incomplete"
      [] b.num > 0 /\ bd # NoBlockData /\ b.num <= bd.blockNum -> "retransmission"
      [] b.num > 0 /\ bd # NoBlockData /\ b.num = bd.blockNum + 1 ->
            IF bd.size # BlockSize * b.num THEN "incomplete"
            ELSE IF bd.size + b.len > MaxMessage THEN "too large" ELSE "append"
      [] b.num > 0 /\ bd # NoBlockData /\ b.num > bd.blockNum + 1 -> "skip"

\* Mutant of Received1: a block is appended whatever its number.
MutantReceived1(bd, b) ==
    CASE Verdict(bd, b) = "start" ->
            [blockNum |-> 0, size |-> b.len, content |-> <<0>>]
      [] Verdict(bd, b) \in {"append", "skip"} ->
            [blockNum |-> b.num, size |-> bd.size + b.len, content |-> Append(bd.content, b.num)]
      [] OTHER -> bd

\* The block data after the call.  Number 0 starts anew, whatever was there.
Received1(bd, b) ==
    CASE Verdict(bd, b) = "start" ->
            [blockNum |-> 0, size |-> b.len, content |-> <<0>>]
      [] Verdict(bd, b) = "append" ->
            [blockNum |-> b.num, size |-> bd.size + b.len, content |-> Append(bd.content, b.num)]
      [] OTHER -> bd

\* The payload goes to handle_request.
Complete1(bd, b) == ~b.more /\ Verdict(bd, b) \in {"start", "append", "skip"}

\* Mutant of Code1: the more bit is not looked at.
MutantCode1(bd, b) ==
    CASE Verdict(bd, b) = "incomplete" -> "4.08"
      [] Verdict(bd, b) = "too large"  -> "4.13"
      [] OTHER -> "2.04"

\* The code of the answer, if handle_request succeeds.
Code1(bd, b) ==
    CASE Verdict(bd, b) = "incomplete" -> "4.08"
      [] Verdict(bd, b) = "too large"  -> "4.13"
      [] OTHER -> IF b.more THEN "2.31" ELSE "2.04"
============================================================================
