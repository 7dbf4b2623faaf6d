----------------------------- MODULE AlgorandAddress ----------------------------
(***************************************************************************)
(* src/algorand-address.js: an address is a public key and its checksum,    *)
(* written in characters of CharBits bits.  The code has 5 bits a           *)
(* character, 8 a byte, 36 bytes and a 32-bit accumulator that is shifted   *)
(* and never masked; the model has them as constants.  A register, a byte   *)
(* and the index of a character in the alphabet are sequences of bits, the  *)
(* most significant first.                                                  *)
(***************************************************************************)
EXTENDS Naturals, Sequences, SequencesExt

CONSTANTS
  CharBits, ByteBits,
  KeyBytes, ChecksumBytes,
  AccumulatorBits,
  Checksum(_)   \* the end of a public key's SHA-512/256

Bit == {0, 1}
Byte == [1..ByteBits -> Bit]
Char == [1..CharBits -> Bit]
Zeros(n) == [i \in 1..n |-> 0]
PublicKeys == [1..KeyBytes -> Byte]
AddressBits == (KeyBytes + ChecksumBytes) * ByteBits
AddressLength == (AddressBits + CharBits - 1) \div CharBits

ASSUME AddressAssumption ==
  /\ {CharBits, ByteBits, KeyBytes, ChecksumBytes, AccumulatorBits} \subseteq Nat \ {0}
  /\ CharBits < ByteBits /\ ByteBits + CharBits - 1 <= AccumulatorBits
  /\ \A key \in PublicKeys : Checksum(key) \in [1..ChecksumBytes -> Byte]

VARIABLE address   \* what a client, or the operator, wrote

\* (accumulator << Len(low)) | low: what is shifted out of the register is lost.
Shifted(accumulator, low) ==
  SubSeq(accumulator \o low, Len(low) + 1, Len(low) + AccumulatorBits)

\* (accumulator >> drop) & (2^width - 1).
Field(accumulator, drop, width) ==
  SubSeq(accumulator, AccumulatorBits - drop - width + 1, AccumulatorBits - drop)

Start == [bits |-> 0, accumulator |-> Zeros(AccumulatorBits), out |-> <<>>]

\* One turn of the loop of decodeBase32NoPadding.
DecodeChar(state, char) ==
  LET bits == state.bits + CharBits
      accumulator == Shifted(state.accumulator, char)
  IN  IF bits < ByteBits THEN [state EXCEPT !.bits = bits, !.accumulator = accumulator]
      ELSE [bits |-> bits - ByteBits, accumulator |-> accumulator,
            out |-> Append(state.out, Field(accumulator, bits - ByteBits, ByteBits))]

DecodeBase32NoPadding(text) ==
  LET after[n \in 0..Len(text)] == IF n = 0 THEN Start ELSE DecodeChar(after[n - 1], text[n])
  IN  after[Len(text)].out

\* One turn of the loop of encodeBase32NoPadding, its inner loop included.
EncodeByte(state, byte) ==
  LET bits == state.bits + ByteBits
      accumulator == Shifted(state.accumulator, byte)
      chars == bits \div CharBits
  IN  [bits |-> bits % CharBits, accumulator |-> accumulator,
       out |-> state.out \o
         [i \in 1..chars |-> Field(accumulator, bits - i * CharBits, CharBits)]]

AllBytes(bytes) ==
  LET after[n \in 0..Len(bytes)] == IF n = 0 THEN Start ELSE EncodeByte(after[n - 1], bytes[n])
  IN  after[Len(bytes)]

\* Mutant: the bits that are left over are not moved up.
EncodeBase32Unaligned(bytes) ==
  LET end == AllBytes(bytes)
  IN  IF end.bits = 0 THEN end.out ELSE Append(end.out, Field(end.accumulator, 0, CharBits))

EncodeBase32NoPadding(bytes) ==
  LET end == AllBytes(bytes)
  IN  IF end.bits = 0 THEN end.out
      ELSE Append(end.out,
             Field(Shifted(end.accumulator, Zeros(CharBits - end.bits)), 0, CharBits))

EncodeAlgorandAddress(key) == EncodeBase32NoPadding(key \o Checksum(key))

\* decodeAlgorandAddress returns PublicKeyOf(text).
PublicKeyOf(text) == SubSeq(DecodeBase32NoPadding(text), 1, KeyBytes)

\* Mutant: the checksum is not compared.
IsAddressOfItsLength(text) ==
  /\ Len(text) = AddressLength
  /\ Len(DecodeBase32NoPadding(text)) = KeyBytes + ChecksumBytes

IsAddress(text) ==
  /\ Len(text) = AddressLength
  /\ LET bytes == DecodeBase32NoPadding(text)
     IN  /\ Len(bytes) = KeyBytes + ChecksumBytes
         /\ SubSeq(bytes, KeyBytes + 1, Len(bytes)) = Checksum(PublicKeyOf(text))

\* normalizeAlgorandAddress returns the text itself.
ReceiverWallet(text) == text

\* enforceAlgoPaymentToReceiver: the receiver, encoded, is the configured wallet.
Pays(key, wallet) == EncodeAlgorandAddress(key) = ReceiverWallet(wallet)

-----------------------------------------------------------------------------
AddressInit == address = <<>>

AddressNext ==
  /\ Len(address) < AddressLength
  /\ \E char \in Char : address' = Append(address, char)

AddressSpec == AddressInit /\ [][AddressNext]_address

SpareBits == AddressLength * CharBits - AddressBits

\* Every key can be written and read back, although the accumulator overflows on
\* the way; what else is read as an address differs from the way its key is written
\* only in the bits of the last character no byte needs.
AddressesReadBack ==
  Len(address) = AddressLength =>
    /\ IsAddress(address) =>
         LET written == EncodeAlgorandAddress(PublicKeyOf(address))
         IN  /\ IsAddress(written) /\ PublicKeyOf(written) = PublicKeyOf(address)
             /\ Front(written) = Front(address)
             /\ \A bit \in 1..(CharBits - SpareBits) : Last(written)[bit] = Last(address)[bit]
    /\ \A key \in PublicKeys : EncodeAlgorandAddress(key) = address =>
         IsAddress(address) /\ PublicKeyOf(address) = key

\* A wallet that is accepted can be paid, by transactions to the key it names and
\* no other, if its last character is the one the encoder writes.  loadConfig keeps
\* the text it was given: of the others no payment is ever let through.
WalletsArePayable ==
  IsAddress(address) =>
    /\ \A key \in PublicKeys : Pays(key, address) => key = PublicKeyOf(address)
    /\ Pays(PublicKeyOf(address), address) <=>
         \A bit \in (CharBits - SpareBits + 1)..CharBits : Last(address)[bit] = 0
=============================================================================
