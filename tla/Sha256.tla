-------------------------------- MODULE Sha256 --------------------------------
(***************************************************************************)
(* sha256: how a message is cut into blocks, padded and chained.  The       *)
(* compression function is free: the state after a block is the list of the *)
(* blocks so far, so two messages share a digest here only if the same      *)
(* blocks are processed in the same order.  Bytes are cells as in           *)
(* EvidenceCodec: <<n>> is the byte n.                                      *)
(***************************************************************************)
EXTENDS Integers, Sequences, SequencesExt

CONSTANTS
    BlockSize,    \* block_size: 64
    LengthWidth   \* bytes of the bit length: 8

ASSUME Sha256Assumption ==
    BlockSize \in Nat /\ LengthWidth \in 1 .. BlockSize - 1

-----------------------------------------------------------------------------
InitialState == <<>>

process_block(block, state) == Append(state, block)

complete_blocks(bytes) == Len(bytes) \div BlockSize

remainder(bytes) == Len(bytes) - complete_blocks(bytes) * BlockSize

(* Mutant: a remainder that leaves no room for the length stays in one      *)
(* block, as if the comparison were `<='.                                   *)
final_size_tight(bytes) ==
    IF remainder(bytes) <= BlockSize - LengthWidth THEN BlockSize
    ELSE 2 * BlockSize

final_size(bytes) ==
    IF remainder(bytes) < BlockSize - LengthWidth THEN BlockSize
    ELSE 2 * BlockSize

(* Byte i of the big-endian bit length, which is a uint64 and wraps.        *)
bit_length_byte(bytes, i) ==
    <<(((Len(bytes) * 8) % 256 ^ LengthWidth) \div 256 ^ (LengthWidth - i)) % 256>>

(* Bytes are written into a zeroed array in this order: the remainder, the  *)
(* marker 0x80, the length over the last bytes.                             *)
tail(bytes) ==
    LET lengthAt == final_size(bytes) - LengthWidth
    IN  [i \in 1 .. 2 * BlockSize |->
            IF i \in lengthAt + 1 .. lengthAt + LengthWidth
            THEN bit_length_byte(bytes, i - lengthAt)
            ELSE IF i = remainder(bytes) + 1 THEN <<128>>
            ELSE IF i <= remainder(bytes)
            THEN bytes[complete_blocks(bytes) * BlockSize + i]
            ELSE <<0>>]

Block(bytes, k) == SubSeq(bytes, (k - 1) * BlockSize + 1, k * BlockSize)

sha256_blocks(bytes) ==
    LET blocks == [k \in 1 .. complete_blocks(bytes) |-> Block(bytes, k)]
                    \o [k \in 1 .. final_size(bytes) \div BlockSize |->
                            Block(tail(bytes), k)]
    IN  FoldLeft(LAMBDA state, block : process_block(block, state),
                 InitialState, blocks)

-----------------------------------------------------------------------------
(* The padding of FIPS 180-4: a one bit, the fewest zeros that fill whole   *)
(* blocks, and the length in bits.                                          *)
StandardPadding(m) ==
    LET fits(k) == (Len(m) + 1 + k + LengthWidth) % BlockSize = 0
        zeros == CHOOSE k \in 0 .. BlockSize - 1 : fits(k)
    IN  m \o << <<128>> >> \o [i \in 1 .. zeros |-> <<0>>]
          \o [i \in 1 .. LengthWidth |-> bit_length_byte(m, i)]

=============================================================================
