----------------------------- MODULE Keystream ------------------------------
(***************************************************************************)
(* The AES counters of meowcaller/srtp: the hop-by-hop cipher (hbh.go), a  *)
(* libsrtp AES-ICM whose counter carries through two bytes only, and the   *)
(* end-to-end cipher (e2e.go), AES-CTR, whose counter carries through all  *)
(* sixteen.  A keystream block is AES of the counter under the session's   *)
(* key, so two blocks are the same exactly when their counters are.        *)
(*                                                                         *)
(* A byte holds ByteMod values, 2^8 in the code; positions are from 1.     *)
(***************************************************************************)
EXTENDS Integers, Sequences

CONSTANTS ByteMod,   \* a power of two, at least for the labels
          Salts,     \* session salts, of 14 bytes
          Ssrcs,     \* SSRCs that share a session's key
          Indexes,   \* packet indexes, the rollover count before the sequence number
          MaxBlocks  \* bound: blocks of a packet

\* How many numbers two bytes hold, 2^16 in the code.
Turn == ByteMod * ByteMod

\* A packet is far shorter than the 256 MiB that three bytes of blocks make.
KeystreamAssumption ==
  /\ ByteMod \in {4, 8, 16, 32, 64, 128, 256}
  /\ Salts \subseteq [1..14 -> 0..(ByteMod - 1)]
  /\ Ssrcs \subseteq 0..(Turn * Turn - 1) /\ Indexes \subseteq 0..(Turn * Turn * Turn - 1)
  /\ MaxBlocks \in 0..(Turn * ByteMod)

VARIABLES salt,   \* of both ciphers
          input,  \* what the keystream is for: a packet, or a key of the session
          block,  \* how many blocks have been used for it before
          icm,    \* the hop-by-hop cipher's counter
          ctr     \* the end-to-end cipher's

vars == <<salt, input, block, icm, ctr>>

\* A session key is told by its label: the cipher key, the authentication key
\* and the salt, of at most 20 bytes, two blocks.
Labels == {0, 1, 2}
DerivedBlocks == 2

Packet(ssrc, index) == [ssrc |-> ssrc, index |-> index, blocks |-> MaxBlocks]
Derived(label) == [label |-> label, blocks |-> DerivedBlocks]

\* A number in two, four and eight bytes, the highest first.
Word(k) == <<(k \div ByteMod) % ByteMod, k % ByteMod>>
Long(k) == Word(k \div Turn) \o Word(k)
Quad(k) == Long(k \div (Turn * Turn)) \o Long(k)
Zeros(n) == [i \in 1..n |-> 0]

\* The exclusive or of two bytes, bit by bit: w is the weight of a bit.
Xor(a, b) ==
  LET bit(w) == w * (((a \div w) + (b \div w)) % 2)
  IN bit(1) + bit(2) + bit(4) + bit(8) + bit(16) + bit(32) + bit(64) + bit(128)

Masked(a, b) == [i \in 1..Len(a) |-> Xor(a[i], b[i])]

-----------------------------------------------------------------------------
(* hbh.go                                                                  *)

\* The index shifted by two bytes, in eight.
BuildRtpICMNonce(ssrc, index) == Zeros(4) \o Long(ssrc) \o Quad(index * Turn)

\* deriveSessionBytes: all zero but the label.
LabelNonce(label) == Zeros(7) \o <<label>> \o Zeros(8)

\* aesICMCrypt: the first counter, and the one after c.
IcmFirst(nonce) == Masked(salt \o Zeros(2), nonce)

\* Mutant of IcmNext: the low byte carries nothing.
IcmNextOneByte(c) == [c EXCEPT ![16] = (@ + 1) % ByteMod]

IcmNext(c) == [c EXCEPT ![16] = (@ + 1) % ByteMod,
                        ![15] = IF c[16] = ByteMod - 1 THEN (@ + 1) % ByteMod ELSE @]

-----------------------------------------------------------------------------
(* e2e.go                                                                  *)

BuildE2eRtpIV(ssrc, roc, seq) ==
  LET index == roc * Turn + seq
  IN Masked(salt \o Zeros(2), Zeros(4) \o Long(ssrc) \o Word(index \div (Turn * Turn))
                                    \o Long(index % (Turn * Turn)) \o Zeros(2))

\* aesCmKdf: the label is put into byte 7, from 0, of the salt.
KdfIV(label) == [salt \o Zeros(2) EXCEPT ![8] = Xor(@, label)]

\* The counter of cipher.NewCTR after c (external: crypto/cipher): a byte goes
\* on when all below it are at their last value.
CtrNext(c) ==
  [k \in 1..16 |-> IF \A l \in (k + 1)..16 : c[l] = ByteMod - 1 THEN (c[k] + 1) % ByteMod ELSE c[k]]

-----------------------------------------------------------------------------
Init == /\ salt \in Salts
        /\ input = Derived(0)
        /\ block = 0
        /\ icm = IcmFirst(LabelNonce(0))
        /\ ctr = KdfIV(0)

\* ExpandLibsrtpSessionKeys and deriveSessionKeysFromMaster: the next key.
DeriveKey(label) == /\ input' = Derived(label)
                    /\ block' = 0
                    /\ icm' = IcmFirst(LabelNonce(label))
                    /\ ctr' = KdfIV(label)
                    /\ UNCHANGED salt

\* CryptRtpPayload and CryptPayload begin a packet.
CryptPayload(ssrc, index) ==
  /\ input' = Packet(ssrc, index)
  /\ block' = 0
  /\ icm' = IcmFirst(BuildRtpICMNonce(ssrc, index))
  /\ ctr' = BuildE2eRtpIV(ssrc, index \div Turn, index % Turn)
  /\ UNCHANGED salt

\* Both go on to the next block of it.
NextBlock == /\ block + 1 < input.blocks
             /\ block' = block + 1
             /\ icm' = IcmNext(icm)
             /\ ctr' = CtrNext(ctr)
             /\ UNCHANGED <<salt, input>>

Next == \/ \E label \in Labels : DeriveKey(label)
        \/ \E ssrc \in Ssrcs, index \in Indexes : CryptPayload(ssrc, index)
        \/ NextBlock

Spec == Init /\ [][Next]_vars

-----------------------------------------------------------------------------
\* What the keystream is for, in the fourteen bytes before the block's number.
Purpose == IF "label" \in DOMAIN input THEN Zeros(7) \o <<input.label>> \o Zeros(6)
           ELSE Zeros(4) \o Long(input.ssrc) \o Word(input.index \div (Turn * Turn)) \o Long(input.index)

\* The counter spells, over the salt, the purpose and the number of the block.
Spells(c) == Masked(c, salt \o Zeros(2)) = Purpose \o Word(block)

\* Whatever the salt, the hop-by-hop cipher uses a counter that tells the packet
\* and the block from every other under the same key, for the blocks two bytes
\* can number, which is 1 MiB of payload: no keystream block is used twice.  The
\* end-to-end cipher uses the same counters exactly that long, the two-byte
\* carry of AES-ICM making no difference to 128-bit CTR ("a single carry into
\* byte 14 (2-level, NOT a 128-bit CTR", hbh.go:106); past them it goes on to
\* others, and the hop-by-hop cipher starts over with those of the packet's
\* first blocks.
CountersExact == Spells(icm) /\ (ctr = icm <=> block < Turn)
=============================================================================
