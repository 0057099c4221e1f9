-------------------------------- MODULE Codec --------------------------------
(***************************************************************************)
(* What crosses a wire, byte by byte: chunk frames (protocol.ts), sealing, *)
(* base64url and the short authentication string (crypto.ts), and base64   *)
(* over IPC (useLanTransfer.ts).                                           *)
(*                                                                         *)
(* Everything the code writes with 8-bit bytes is written here in base D,  *)
(* two bits per digit when D = 4: a byte has four digits, a hexadecimal    *)
(* digit two, a base64 digit three.  A smaller D scales all of it.         *)
(*                                                                         *)
(* A decoder's result is <<what it returns>>, or <<>> when it throws or    *)
(* returns null.                                                           *)
(*                                                                         *)
(* External: AES-GCM and SHA-256, constants of which only what the code    *)
(* relies on is assumed; btoa and atob.  X_Bug is X with one plausible bug *)
(* (README, "Mutation").                                                   *)
(***************************************************************************)
EXTENDS Integers, Sequences, FiniteSets

CONSTANTS D,            \* 4 in the code
          NonceLen,     \* 12
          IdLen,        \* bytes of a transfer id: 16
          SpreadMax,    \* bytes turned into a string at once: 0x8000
          DigitsMod,    \* 1000000
          Keys,         \* session keys, and public keys as sort() orders them
          Nonces, Ids,  \* what the random generator may give
          Seqs,         \* chunk numbers
          Slices,       \* contents of chunks
          Texts,        \* control messages, and received files
          Encrypt(_, _, _), Decrypt(_, _, _),   \* AES-GCM: key, nonce, bytes
          Sha256(_, _)                          \* of two keys, in that order

Hex == D * D
Sextet == D * D * D
Byte == D * D * D * D

Octets == Seq(0..Byte - 1)

ASSUME CodecAssumption ==
  /\ D \in Nat /\ D > 1
  /\ NonceLen \in Nat /\ IdLen \in Nat /\ SpreadMax \in Nat \ {0} /\ DigitsMod \in Nat \ {0}
  /\ Keys \subseteq Nat
  /\ Nonces \subseteq [1..NonceLen -> 0..Byte - 1]
  /\ Ids \subseteq [1..2 * IdLen -> 0..Hex - 1]
  /\ Seqs \subseteq 0..Byte * Byte * Byte * Byte - 1
  /\ Slices \subseteq Octets /\ Texts \subseteq Octets

\* Bytes as a number, most significant byte first.
Triple(a, b, c) == (a * Byte + b) * Byte + c
Word(a, b, c, d) == Triple(a, b, c) * Byte + d

(***************************************************************************)
(* Chunk frames                                                            *)
(***************************************************************************)

Magic == 1     \* 0x5A
HeaderLen == 6 + IdLen

HexToBytes(hex) == [i \in 1..IdLen |-> hex[2 * i - 1] * Hex + hex[2 * i]]
BytesToHex(bytes) ==
  [i \in 1..2 * Len(bytes) |->
     IF i % 2 = 1 THEN bytes[(i + 1) \div 2] \div Hex ELSE bytes[i \div 2] % Hex]

Header(f) ==
  <<Magic, IF f.last THEN 1 ELSE 0,
    (f.seq \div (Byte * Byte * Byte)) % Byte, (f.seq \div (Byte * Byte)) % Byte,
    (f.seq \div Byte) % Byte, f.seq % Byte>>

EncodeChunkFrame(f) == Header(f) \o HexToBytes(f.id) \o f.data

\* Shifting a byte to the top gives a signed number.
Signed(n) == IF 2 * n < Byte * Byte * Byte * Byte THEN n ELSE n - Byte * Byte * Byte * Byte

\* The sign is left in (no >>> 0).
NumberOfChunk_Signed(a, b, c, d) == Signed(Word(a, b, c, d))

NumberOfChunk(a, b, c, d) == Signed(Word(a, b, c, d)) % (Byte * Byte * Byte * Byte)

DecodeChunkFrame(bytes) ==
  IF Len(bytes) < HeaderLen \/ bytes[1] # Magic THEN <<>>
  ELSE <<[id   |-> BytesToHex(SubSeq(bytes, 7, HeaderLen)),
          seq  |-> NumberOfChunk(bytes[3], bytes[4], bytes[5], bytes[6]),
          last |-> bytes[2] % 2 = 1,
          data |-> SubSeq(bytes, HeaderLen + 1, Len(bytes))]>>

(***************************************************************************)
(* Base64                                                                  *)
(***************************************************************************)

\* Characters: the digits, of which the last two are + and / or, in a URL,
\* - and _, and the padding.
Minus == Sextet
Underscore == Sextet + 1
Pad == Sextet + 2

\* Groups of three bytes are four digits.  What is missing of the last group is 0.
At(s, i) == IF i <= Len(s) THEN s[i] ELSE 0

BytesOf(bytes, g) == Triple(At(bytes, 3 * g + 1), At(bytes, 3 * g + 2), At(bytes, 3 * g + 3))

DigitOf(n, k) == CASE k = 0 -> (n \div (Sextet * Sextet * Sextet)) % Sextet
                   [] k = 1 -> (n \div (Sextet * Sextet)) % Sextet
                   [] k = 2 -> (n \div Sextet) % Sextet
                   [] k = 3 -> n % Sextet

Digits(n) == (4 * n + 2) \div 3

Btoa(bytes) ==
  [i \in 1..4 * ((Len(bytes) + 2) \div 3) |->
     IF i <= Digits(Len(bytes)) THEN DigitOf(BytesOf(bytes, (i - 1) \div 4), (i - 1) % 4) ELSE Pad]

DigitsAt(digits, g) ==
  ((At(digits, 4 * g + 1) * Sextet + At(digits, 4 * g + 2)) * Sextet + At(digits, 4 * g + 3))
     * Sextet + At(digits, 4 * g + 4)

ByteOf(n, k) == CASE k = 0 -> (n \div (Byte * Byte)) % Byte
                  [] k = 1 -> (n \div Byte) % Byte
                  [] k = 2 -> n % Byte

\* atob refuses other characters, and padding that does not complete a group.
Atob(chars) ==
  LET padding == Cardinality({i \in DOMAIN chars : chars[i] = Pad})
      digits == SubSeq(chars, 1, Len(chars) - padding)
  IN  IF \/ \E i \in DOMAIN digits : digits[i] \notin 0..Sextet - 1
         \/ Len(chars) % 4 = 1
         \/ padding # 0 /\ (Len(chars) % 4 # 0 \/ padding > 2)
      THEN <<>>
      ELSE <<[i \in 1..(3 * Len(digits)) \div 4 |->
                ByteOf(DigitsAt(digits, (i - 1) \div 3), (i - 1) % 3)]>>

Url(c) == CASE c = Sextet - 2 -> Minus [] c = Sextet - 1 -> Underscore [] OTHER -> c
Std(c) == CASE c = Minus -> Sextet - 2 [] c = Underscore -> Sextet - 1 [] OTHER -> c

\* Without the padding at the end.
Trimmed(chars) ==
  SubSeq(chars, 1, Len(chars) - Cardinality({i \in DOMAIN chars :
                                               \A j \in i..Len(chars) : chars[j] = Pad}))

ToBase64Url(bytes) == LET b64 == Btoa(bytes) IN Trimmed([i \in DOMAIN b64 |-> Url(b64[i])])

\* A group is padded even when it is complete.
Padding_Always(n) == [i \in 1..4 - (n % 4) |-> Pad]

Padding(n) == IF n % 4 = 0 THEN <<>> ELSE [i \in 1..4 - (n % 4) |-> Pad]

FromBase64Url(chars) == Atob([i \in DOMAIN chars |-> Std(chars[i])] \o Padding(Len(chars)))

Spliced(pieces) ==
  LET text[k \in 0..Len(pieces)] == IF k = 0 THEN <<>> ELSE text[k - 1] \o pieces[k]
  IN  text[Len(pieces)]

\* The bytes are turned into a string SpreadMax at a time.
Piece(bytes, k) ==
  SubSeq(bytes, (k - 1) * SpreadMax + 1,
         IF k * SpreadMax < Len(bytes) THEN k * SpreadMax ELSE Len(bytes))

Uint8ToBase64(bytes) ==
  Btoa(Spliced([k \in 1..(Len(bytes) + SpreadMax - 1) \div SpreadMax |-> Piece(bytes, k)]))

(***************************************************************************)
(* Sealing                                                                 *)
(***************************************************************************)

SealBytes(key, nonce, plain) == nonce \o Encrypt(key, nonce, plain)

OpenBytes(key, sealed) ==
  IF Len(sealed) < NonceLen + 1 THEN <<>>
  ELSE Decrypt(key, SubSeq(sealed, 1, NonceLen), SubSeq(sealed, NonceLen + 1, Len(sealed)))

Seal(key, nonce, text) == ToBase64Url(SealBytes(key, nonce, text))

OpenText(key, sealed) ==
  LET bytes == FromBase64Url(sealed)
  IN  IF bytes = <<>> THEN <<>> ELSE OpenBytes(key, bytes[1])

OpenFrame(key, sealed) ==
  LET bytes == OpenBytes(key, sealed)
  IN  IF bytes = <<>> THEN <<>> ELSE DecodeChunkFrame(bytes[1])

Frames == [id : Ids, seq : Seqs, last : BOOLEAN, data : Slices]

\* A message opens with the key it was sealed with, and with no other.
ASSUME CipherAuthenticates ==
  \A k, l \in Keys, n \in Nonces, p \in Texts \cup {EncodeChunkFrame(f) : f \in Frames} :
    LET c == Encrypt(k, n, p)
    IN  c \in Octets /\ c # <<>> /\ Decrypt(l, n, c) = IF k = l THEN <<p>> ELSE <<>>

(***************************************************************************)
(* The short authentication string                                         *)
(***************************************************************************)

\* The digests of the keys in play differ in the 24 bits that the emoji show.
SameStart(x, y) == \A i \in 1..3 : x[i] = y[i]

ASSUME DigestsDiffer ==
  /\ \A a, b \in Keys : Sha256(a, b) \in Octets /\ Len(Sha256(a, b)) >= 6
  /\ \A a, b, c, d \in Keys : SameStart(Sha256(a, b), Sha256(c, d)) => a = c /\ b = d

\* The keys are hashed in the order they are known.
Sorted_Own(a, b) == <<a, b>>

Sorted(a, b) == IF a < b THEN <<a, b>> ELSE <<b, a>>

DeriveSAS(own, peer) ==
  LET s == Sorted(own, peer)
      d == Sha256(s[1], s[2])
  IN  [emoji  |-> <<d[1] \div D,
                    (d[1] % D) * Hex + (d[2] \div Hex),
                    (d[2] % Hex) * D + (d[3] \div Sextet),
                    d[3] % Sextet>>,
       digits |-> Triple(d[4], d[5], d[6]) % DigitsMod]

(***************************************************************************)
(* One thing put on a wire and taken off it                                *)
(***************************************************************************)

VARIABLES
  item,      \* what is sent: its kind and content, and the keys of both ends
  stage,     \* "fresh", "sent" or "taken"
  line,      \* what is on the wire
  result     \* what is taken off it; of a pairing, the SAS at both ends

codecVars == <<item, stage, line, result>>

Items == [kind : {"frame"}, content : Frames, nonce : Nonces, from : Keys, to : Keys]
         \cup [kind : {"text"}, content : Texts, nonce : Nonces, from : Keys, to : Keys]
         \cup [kind : {"file"}, content : Texts]
         \cup [kind : {"sas"}, own : Keys \X Keys, seen : Keys \X Keys]

CodecTypeOK ==
  /\ item \in Items
  /\ stage \in {"fresh", "sent", "taken"}
  /\ line \in Seq(0..Byte) /\ Len(result) <= 2

CodecInit == item \in Items /\ stage = "fresh" /\ line = <<>> /\ result = <<>>

\* A chunk, a control message, or a received file for the main process to save.
\* The ends of a pairing have sent each other their keys by now.
Put ==
  /\ stage = "fresh"
  /\ stage' = "sent"
  /\ line' = CASE item.kind = "frame" -> SealBytes(item.from, item.nonce, EncodeChunkFrame(item.content))
               [] item.kind = "text"  -> Seal(item.from, item.nonce, item.content)
               [] item.kind = "file"  -> Uint8ToBase64(item.content)
               [] item.kind = "sas"   -> <<>>
  /\ UNCHANGED <<item, result>>

Take ==
  /\ stage = "sent"
  /\ stage' = "taken"
  /\ result' = CASE item.kind = "frame" -> OpenFrame(item.to, line)
                 [] item.kind = "text"  -> OpenText(item.to, line)
                 [] item.kind = "file"  -> Atob(line)
                 [] item.kind = "sas"   -> [i \in 1..2 |-> DeriveSAS(item.own[i], item.seen[i])]
  /\ UNCHANGED <<item, line>>

CodecNext == Put \/ Take

CodecSpec == CodecInit /\ [][CodecNext]_codecVars

(***************************************************************************)
(* Properties                                                              *)
(***************************************************************************)

\* Whatever a chunk's number, size and position and a text's length, the far end
\* of the wire gets exactly what was sent, or nothing when its key is another one.
RoundTrips ==
  stage = "taken" /\ item.kind # "sas" =>
    result = IF item.kind = "file" \/ item.from = item.to THEN <<item.content>> ELSE <<>>

\* Both ends show the same emoji and digits exactly if they have seen the same two
\* keys, whichever of them was the first to know both.
SasTells ==
  stage = "taken" /\ item.kind = "sas" =>
    (result[1] = result[2] <=>
       {item.own[1], item.seen[1]} = {item.own[2], item.seen[2]})
=============================================================================
